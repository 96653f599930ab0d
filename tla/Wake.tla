-------------------------------- MODULE Wake --------------------------------
(***************************************************************************)
(* Wake requests and leases of the desktop: an agent asks for a person's   *)
(* attention, a person approves under a verification of presence, and the  *)
(* agent turns the approval into leases for exact operations. The queue,   *)
(* the rate counters, the approvals and the leases are behind locks of     *)
(* their own; a call gives one back before it takes the next. The gate is  *)
(* the one of DesktopApprovals, here a choice bound to the epoch it began  *)
(* in.                                                                     *)
(***************************************************************************)
EXTENDS Integers, FiniteSets, Functions

CONSTANTS
    Waker,          \* agents
    Target,         \* opaque resource references
    Errand,         \* an operation with its arguments and its destination
    WakeCall,       \* calls in flight
    MaxPerAgent,    \* WAKE_MAX_PER_AGENT
    MaxWakes,       \* WAKE_MAX_PENDING
    MaxWakeIds,     \* bound on the requests queued
    MaxLeases,      \* bound on the leases issued
    MaxWakeEpoch    \* bound on the locks and unlocks

ASSUME WakeAssumption ==
    /\ MaxPerAgent \in Nat \ {0} /\ MaxWakes \in Nat \ {0}
    /\ MaxWakeIds \in Nat /\ MaxLeases \in Nat /\ MaxWakeEpoch \in Nat

VARIABLES
    requests,       \* the pending requests
    by_signature,   \* the signatures that coalesce
    wakeIds,        \* next_id
    rate,           \* agent_rate: calls of each agent within the window
    auths,          \* authorized_wakes
    leases,         \* the leases in the store
    leaseIds,       \* leases issued
    handleOpen, wakeEpoch,  \* the handle, and the epoch of the session timer
    calls,
    approvals,      \* history: signature and session of each approval
    spent           \* history: the check-outs that succeeded

wakeVars ==
    <<requests, by_signature, wakeIds, rate, auths, leases, leaseIds, handleOpen,
      wakeEpoch, calls, approvals, spent>>

NoWakeCall == [stage |-> "idle"]
wake_signature(a, t) == <<a, t>>

WakeInit ==
    /\ requests = {} /\ by_signature = {} /\ wakeIds = 0
    /\ rate = [a \in Waker |-> 0]
    /\ auths = {}
    /\ leases = {} /\ leaseIds = 0
    /\ handleOpen = TRUE /\ wakeEpoch = 1
    /\ calls = [c \in WakeCall |-> NoWakeCall]
    /\ approvals = {} /\ spent = {}

Turn(c, r) == calls' = [calls EXCEPT ![c] = r]
At(c, stage) == calls[c].stage = stage

-----------------------------------------------------------------------------
(* WakeQueue::request: the rate, then the queue, then the rate again.      *)

WithinRate(a) ==
    /\ rate[a] < MaxPerAgent
    /\ SumFunction(rate) < MaxPerAgent * 4

WakeAdmit(c, a, t) ==
    /\ At(c, "idle")
    /\ WithinRate(a)
    /\ Turn(c, [stage |-> "admitted", agent |-> a, target |-> t])
    /\ UNCHANGED <<requests, by_signature, wakeIds, rate, auths, leases, leaseIds,
                   handleOpen, wakeEpoch, approvals, spent>>

Expired == {r \in requests : r.expired}
Signatures(R) == {r.signature : r \in R}

\* A plausible fault: a request that has expired goes on coalescing.
forgotten_none(S) == S

\* What pruning leaves of the signatures.
forgotten(S) == S \ Signatures(Expired)

\* Prune, coalesce with a pending request, or queue a new one if there is room.
WakeEnqueue(c) ==
    /\ At(c, "admitted")
    /\ LET sig == wake_signature(calls[c].agent, calls[c].target)
           kept == requests \ Expired
           known == forgotten(by_signature)
           counting == [stage |-> "counting", agent |-> calls[c].agent]
       IN  \/ /\ sig \in known
              /\ requests' = kept /\ by_signature' = known
              /\ Turn(c, counting)
              /\ UNCHANGED wakeIds
           \/ /\ sig \notin known /\ Cardinality(kept) >= MaxWakes
              /\ requests' = kept /\ by_signature' = known
              /\ Turn(c, NoWakeCall)
              /\ UNCHANGED wakeIds
           \/ /\ sig \notin known /\ Cardinality(kept) < MaxWakes
              /\ wakeIds < MaxWakeIds
              /\ wakeIds' = wakeIds + 1
              /\ requests' = kept \cup
                    {[id |-> wakeIds', signature |-> sig, expired |-> FALSE]}
              /\ by_signature' = known \cup {sig}
              /\ Turn(c, counting)
    /\ UNCHANGED <<rate, auths, leases, leaseIds, handleOpen, wakeEpoch, approvals, spent>>

WakeCount(c) ==
    /\ At(c, "counting")
    /\ rate' = [rate EXCEPT ![calls[c].agent] = @ + 1]
    /\ Turn(c, NoWakeCall)
    /\ UNCHANGED <<requests, by_signature, wakeIds, auths, leases, leaseIds, handleOpen,
                   wakeEpoch, approvals, spent>>

-----------------------------------------------------------------------------
(* wake_respond.                                                           *)

Peeked(id) == {r \in requests : r.id = id}

\* respond: the request and its signature go together.
Consume(r) ==
    /\ requests' = requests \ {r}
    /\ by_signature' = by_signature \ {r.signature}

\* A refusal and an approval both look first. A locked vault can be woken for.
WakePeek(c, id, approved) ==
    /\ At(c, "idle")
    /\ Peeked(id) # {}
    /\ Turn(c, [stage |-> IF approved THEN "asking" ELSE "refusing", id |-> id])
    /\ UNCHANGED <<requests, by_signature, wakeIds, rate, auths, leases, leaseIds,
                   handleOpen, wakeEpoch, approvals, spent>>

WakeRefuse(c) ==
    /\ At(c, "refusing")
    /\ IF Peeked(calls[c].id) = {}
       THEN UNCHANGED <<requests, by_signature>>
       ELSE \E r \in Peeked(calls[c].id) : Consume(r)
    /\ Turn(c, NoWakeCall)
    /\ UNCHANGED <<wakeIds, rate, auths, leases, leaseIds, handleOpen, wakeEpoch,
                   approvals, spent>>

\* desktop_presence_gate: it begins on an open vault, and passes in its epoch.
WakeGate(c) ==
    /\ At(c, "asking")
    /\ Turn(c, IF handleOpen
               THEN [stage |-> "verifying", id |-> calls[c].id, epoch |-> wakeEpoch]
               ELSE NoWakeCall)
    /\ UNCHANGED <<requests, by_signature, wakeIds, rate, auths, leases, leaseIds,
                   handleOpen, wakeEpoch, approvals, spent>>

WakeGateEnds(c, consent) ==
    /\ At(c, "verifying")
    /\ Turn(c, IF consent /\ handleOpen /\ wakeEpoch = calls[c].epoch
               THEN [calls[c] EXCEPT !.stage = "passed"]
               ELSE NoWakeCall)
    /\ UNCHANGED <<requests, by_signature, wakeIds, rate, auths, leases, leaseIds,
                   handleOpen, wakeEpoch, approvals, spent>>

\* Under one handle guard: the epoch is compared, the request consumed and the
\* approval recorded for the session the person approved in.
WakeApprove(c) ==
    /\ At(c, "passed")
    /\ IF handleOpen /\ wakeEpoch = calls[c].epoch /\ Peeked(calls[c].id) # {}
       THEN \E r \in Peeked(calls[c].id) :
                /\ Consume(r)
                /\ auths' = {x \in auths : x.signature # r.signature} \cup
                    {[signature |-> r.signature, session |-> wakeEpoch,
                      expired |-> FALSE]}
                /\ approvals' = approvals \cup {<<r.signature, wakeEpoch>>}
       ELSE UNCHANGED <<requests, by_signature, auths, approvals>>
    /\ Turn(c, NoWakeCall)
    /\ UNCHANGED <<wakeIds, rate, leases, leaseIds, handleOpen, wakeEpoch, spent>>

-----------------------------------------------------------------------------
(* wake_prepare_access and require_lease.                                  *)

has_authorized_wake(sig) ==
    [signature |-> sig, session |-> wakeEpoch, expired |-> FALSE] \in auths

WakePrepare(c, a, t, e) ==
    /\ At(c, "idle")
    /\ has_authorized_wake(wake_signature(a, t))
    /\ Turn(c, [stage |-> "issuing", signature |-> wake_signature(a, t), errand |-> e])
    /\ UNCHANGED <<requests, by_signature, wakeIds, rate, auths, leases, leaseIds,
                   handleOpen, wakeEpoch, approvals, spent>>

\* issue, which reads the session a second time.
WakeIssue(c) ==
    /\ At(c, "issuing") /\ leaseIds < MaxLeases
    /\ leaseIds' = leaseIds + 1
    /\ leases' = leases \cup
        {[id |-> leaseIds', signature |-> calls[c].signature,
          errand |-> calls[c].errand, session |-> wakeEpoch, used |-> FALSE,
          expired |-> FALSE]}
    /\ Turn(c, NoWakeCall)
    /\ UNCHANGED <<requests, by_signature, wakeIds, rate, auths, handleOpen, wakeEpoch,
                   approvals, spent>>

\* A plausible fault: an attempt that does not fit leaves the lease as it was.
consumed_if_fitting(l, fits) == IF fits THEN {} ELSE {l}

\* A fitting attempt removes the lease, one that does not fit uses it up.
consumed(l, fits) == IF fits THEN {} ELSE {[l EXCEPT !.used = TRUE]}

Fitting(l, sig, e) == l.signature = sig /\ l.errand = e /\ l.session = wakeEpoch

checkout(id, sig, e) ==
    \E l \in leases :
        /\ l.id = id
        /\ \/ /\ l.expired
              /\ leases' = leases \ {l}
              /\ UNCHANGED spent
           \/ /\ ~l.expired /\ ~l.used
              /\ leases' = (leases \ {l}) \cup consumed(l, Fitting(l, sig, e))
              /\ spent' = spent \cup
                    {[id |-> id, signature |-> sig, session |-> wakeEpoch,
                      good |-> Fitting(l, sig, e)]}
        /\ UNCHANGED <<requests, by_signature, wakeIds, rate, auths, leaseIds, handleOpen,
                       wakeEpoch, calls, approvals>>

-----------------------------------------------------------------------------
(* Time, and the session.                                                  *)

WakeTime ==
    /\ \/ \E r \in requests :
            /\ ~r.expired
            /\ requests' = (requests \ {r}) \cup {[r EXCEPT !.expired = TRUE]}
            /\ UNCHANGED <<rate, auths, leases>>
       \/ \E a \in Waker :
            /\ rate[a] > 0
            /\ rate' = [rate EXCEPT ![a] = @ - 1]
            /\ UNCHANGED <<requests, auths, leases>>
       \/ \E x \in auths :
            /\ ~x.expired
            /\ auths' = (auths \ {x}) \cup {[x EXCEPT !.expired = TRUE]}
            /\ UNCHANGED <<requests, rate, leases>>
       \/ \E l \in leases :
            /\ ~l.expired
            /\ leases' = (leases \ {l}) \cup {[l EXCEPT !.expired = TRUE]}
            /\ UNCHANGED <<requests, rate, auths>>
    /\ UNCHANGED <<by_signature, wakeIds, leaseIds, handleOpen, wakeEpoch, calls,
                   approvals, spent>>

WakeSession ==
    /\ wakeEpoch < MaxWakeEpoch
    /\ handleOpen' = ~handleOpen
    /\ wakeEpoch' = wakeEpoch + 1
    /\ UNCHANGED <<requests, by_signature, wakeIds, rate, auths, leases, leaseIds, calls,
                   approvals, spent>>

WakeNext ==
    \/ \E c \in WakeCall :
        \/ \E a \in Waker, t \in Target :
            \/ WakeAdmit(c, a, t)
            \/ \E e \in Errand : WakePrepare(c, a, t, e)
        \/ WakeEnqueue(c)
        \/ WakeCount(c)
        \/ \E id \in 1 .. wakeIds, approved \in BOOLEAN : WakePeek(c, id, approved)
        \/ WakeRefuse(c)
        \/ WakeGate(c)
        \/ \E consent \in BOOLEAN : WakeGateEnds(c, consent)
        \/ WakeApprove(c)
        \/ WakeIssue(c)
    \/ \E id \in 1 .. leaseIds, a \in Waker, t \in Target, e \in Errand :
        checkout(id, wake_signature(a, t), e)
    \/ WakeTime
    \/ WakeSession

WakeSpec == WakeInit /\ [][WakeNext]_wakeVars

-----------------------------------------------------------------------------

\* An agent is told "queued" for as long as its signature coalesces, so every
\* such signature has exactly one request before a person, and the queue keeps
\* its bound, however requests, expiries, refusals and approvals interleave.
QueuedIsPending ==
    /\ Signatures(requests) = by_signature
    /\ Cardinality(requests) = Cardinality(by_signature)
    /\ Cardinality(requests) <= MaxWakes

\* A lease is tried once, fitting or not, and the operation it lets through is
\* one of the agent and resource a person has approved ("short-lived,
\* single-use"), although one approval may be turned into several leases and
\* the session may move between its check and its issue.
LeasesAreSpentOnce ==
    /\ \A x, y \in spent : x.id = y.id => x = y
    /\ \A x \in spent : x.good => x.signature \in {p[1] : p \in approvals}
=============================================================================
