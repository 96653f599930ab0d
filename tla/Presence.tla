------------------------------ MODULE Presence ------------------------------
(***************************************************************************)
(* crates/sv-presence: PresenceCoordinator runs one native prompt at a     *)
(* time behind a bounded queue.  A caller registers an attempt, verify     *)
(* takes the prompt slot or waits for it, spawns the backend, which keeps  *)
(* the slot until the prompt has ended, and returns on whichever comes     *)
(* first of invalidation, deadline and the backend's result.               *)
(*                                                                         *)
(* slot and queue are tokio's Semaphore(1): a permit that is given back    *)
(* goes straight to the first waiter, which then holds it although its     *)
(* task has not run yet.  A deadline is the flag expired.                  *)
(***************************************************************************)
EXTENDS Naturals, Sequences, FiniteSets

CONSTANTS
  Attempt,      \* attempts, each verified once
  MAX_WAITING,  \* callers allowed to wait while one prompt is active
  None

ASSUME LimitAssumption == MAX_WAITING \in Nat
ASSUME NoneAssumption ==
  None \notin Attempt \cup {"Verified", "ok"} \cup
    {"Retryable", "Denied", "Expired", "QueueFull", "Invalidated"} \cup
    {"retryable", "fatal", "timeout"}

VARIABLES
  pc,         \* where the caller's future is
  result,     \* what verify returned
  slot,       \* the attempt that holds the permit
  queue,      \* the semaphore's waiters
  waiting,    \* the counter of queue places
  cancelled,  \* the attempt's cancel signal has fired
  expired,    \* its deadline has passed
  backend,    \* the spawned backend task
  said        \* how the backend's verify ended

caller == <<pc, result>>
vars == <<caller, slot, queue, waiting, cancelled, expired, backend, said>>

Denial == {"Retryable", "Denied", "Expired", "QueueFull", "Invalidated"}

\* The backend's results by what the coordinator makes of them.
PresenceResult == {"ok", "retryable", "fatal", "timeout"}

Mapped(r) ==
  CASE r = "ok" -> "Verified"
    [] r = "retryable" -> "Retryable"
    [] r = "timeout" -> "Expired"
    [] OTHER -> "Denied"

Init ==
  /\ pc = [a \in Attempt |-> "none"]
  /\ result = [a \in Attempt |-> None]
  /\ slot = None
  /\ queue = <<>>
  /\ waiting = 0
  /\ cancelled = [a \in Attempt |-> FALSE]
  /\ expired = [a \in Attempt |-> FALSE]
  /\ backend = [a \in Attempt |-> "none"]
  /\ said = [a \in Attempt |-> None]

----------------------------------------------------------------------------
(* The permit.                                                             *)

\* The permit is dropped: to the first of q, or back to the semaphore.
HandOver(q) ==
  /\ slot' = IF q = <<>> THEN None ELSE Head(q)
  /\ queue' = IF q = <<>> THEN <<>> ELSE Tail(q)

Without(i) ==
  [j \in 1..(Len(queue) - 1) |-> queue[IF j < i THEN j ELSE j + 1]]

\* A waiting acquire is dropped, with the permit if it had been given one.
LeaveQueue(a) ==
  \/ slot = a /\ HandOver(queue)
  \/ \E i \in 1..Len(queue) :
       queue[i] = a /\ queue' = Without(i) /\ UNCHANGED slot
  \/ pc[a] = "queueing" /\ UNCHANGED <<slot, queue>>

Return(a, r) ==
  /\ pc' = [pc EXCEPT ![a] = "returned"]
  /\ result' = [result EXCEPT ![a] = r]

Goto(a, place) == pc' = [pc EXCEPT ![a] = place] /\ UNCHANGED result

\* The biased select: the cancel signal, then the deadline.
Stopped(a) == cancelled[a] \/ expired[a]
StopReason(a) == IF cancelled[a] THEN "Invalidated" ELSE "Expired"

----------------------------------------------------------------------------
(* The caller.                                                             *)

begin_attempt(a) ==
  /\ pc[a] = "none"
  /\ Goto(a, "begun")
  /\ UNCHANGED <<slot, queue, waiting, cancelled, expired, backend, said>>

TryAcquire(a) ==
  /\ pc[a] = "begun"
  /\ \/ slot = None /\ slot' = a /\ Goto(a, "granted")
     \/ slot # None /\ UNCHANGED slot /\ Goto(a, "refused")
  /\ UNCHANGED <<queue, waiting, cancelled, expired, backend, said>>

\* fetch_add on the counter of places; the caller over the limit goes again.
\* A plausible fault: the test is one off.
TakePlaceOneMore(a) ==
  /\ pc[a] = "refused"
  /\ waiting' = waiting + 1
  /\ Goto(a, IF waiting > MAX_WAITING THEN "overflow" ELSE "queueing")
  /\ UNCHANGED <<slot, queue, cancelled, expired, backend, said>>

TakePlace(a) ==
  /\ pc[a] = "refused"
  /\ waiting' = waiting + 1
  /\ Goto(a, IF waiting >= MAX_WAITING THEN "overflow" ELSE "queueing")
  /\ UNCHANGED <<slot, queue, cancelled, expired, backend, said>>

QueueFull(a) ==
  /\ pc[a] = "overflow"
  /\ waiting' = waiting - 1
  /\ Return(a, "QueueFull")
  /\ UNCHANGED <<slot, queue, cancelled, expired, backend, said>>

\* The first poll of the select joins the semaphore's waiters.
JoinQueue(a) ==
  /\ pc[a] = "queueing"
  /\ ~Stopped(a)
  /\ \/ /\ slot = None
        /\ slot' = a /\ waiting' = waiting - 1
        /\ Goto(a, "granted")
        /\ UNCHANGED queue
     \/ /\ slot # None
        /\ queue' = Append(queue, a)
        /\ Goto(a, "queued")
        /\ UNCHANGED <<slot, waiting>>
  /\ UNCHANGED <<cancelled, expired, backend, said>>

GivenPermit(a) ==
  /\ pc[a] = "queued"
  /\ ~Stopped(a)
  /\ slot = a
  /\ waiting' = waiting - 1
  /\ Goto(a, "granted")
  /\ UNCHANGED <<slot, queue, cancelled, expired, backend, said>>

\* A plausible fault: the place is given back but not the permit that came
\* with the wakeup.
GiveUpWaitingKeepingPermit(a) ==
  /\ pc[a] \in {"queueing", "queued"}
  /\ Stopped(a)
  /\ IF slot = a THEN UNCHANGED <<slot, queue>> ELSE LeaveQueue(a)
  /\ waiting' = waiting - 1
  /\ Return(a, StopReason(a))
  /\ UNCHANGED <<cancelled, expired, backend, said>>

GiveUpWaiting(a) ==
  /\ pc[a] \in {"queueing", "queued"}
  /\ Stopped(a)
  /\ LeaveQueue(a)
  /\ waiting' = waiting - 1
  /\ Return(a, StopReason(a))
  /\ UNCHANGED <<cancelled, expired, backend, said>>

\* The checks after the permit, and the spawn of the backend task.
GrantedStopped(a) ==
  /\ pc[a] = "granted"
  /\ Stopped(a)
  /\ HandOver(queue)
  /\ Return(a, StopReason(a))
  /\ UNCHANGED <<waiting, cancelled, expired, backend, said>>

Spawn(a) ==
  /\ pc[a] = "granted"
  /\ ~Stopped(a)
  /\ Goto(a, "prompting")
  /\ backend' = [backend EXCEPT ![a] = "spawned"]
  /\ UNCHANGED <<slot, queue, waiting, cancelled, expired, said>>

\* A plausible fault: an attempt that ends early gives its permit back.
GiveUpPromptWithSlot(a) ==
  /\ pc[a] = "prompting"
  /\ Stopped(a)
  /\ Return(a, StopReason(a))
  /\ cancelled' = [cancelled EXCEPT ![a] = TRUE]
  /\ IF slot = a THEN HandOver(queue) ELSE UNCHANGED <<slot, queue>>
  /\ UNCHANGED <<waiting, expired, backend, said>>

\* A plausible fault: with the prompt open the deadline is not looked at.
GiveUpPromptOnSignal(a) ==
  /\ pc[a] = "prompting"
  /\ cancelled[a]
  /\ Return(a, "Invalidated")
  /\ UNCHANGED <<slot, queue, waiting, cancelled, expired, backend, said>>

\* The deadline also fires the cancel signal; the slot stays taken.
GiveUpPrompt(a) ==
  /\ pc[a] = "prompting"
  /\ Stopped(a)
  /\ Return(a, StopReason(a))
  /\ cancelled' = [cancelled EXCEPT ![a] = TRUE]
  /\ UNCHANGED <<slot, queue, waiting, expired, backend, said>>

\* A plausible fault: the result is taken before the signal is looked at.
TakeResultUnbiased(a) ==
  /\ pc[a] = "prompting"
  /\ backend[a] = "sent"
  /\ Return(a, Mapped(said[a]))
  /\ UNCHANGED <<slot, queue, waiting, cancelled, expired, backend, said>>

TakeResult(a) ==
  /\ pc[a] = "prompting"
  /\ ~Stopped(a)
  /\ backend[a] = "sent"
  /\ Return(a, Mapped(said[a]))
  /\ UNCHANGED <<slot, queue, waiting, cancelled, expired, backend, said>>

\* The owner drops the attempt after verify returned ...
DropAttempt(a) ==
  /\ pc[a] = "returned"
  /\ Goto(a, "dropped")
  /\ cancelled' = [cancelled EXCEPT ![a] = TRUE]
  /\ UNCHANGED <<slot, queue, waiting, expired, backend, said>>

\* ... or is itself dropped at one of its awaits.
Abandon(a) ==
  /\ pc[a] \in {"begun", "queued", "prompting"}
  /\ Goto(a, "dropped")
  /\ cancelled' = [cancelled EXCEPT ![a] = TRUE]
  /\ \/ /\ pc[a] = "queued"
        /\ LeaveQueue(a)
        /\ waiting' = waiting - 1
     \/ pc[a] # "queued" /\ UNCHANGED <<slot, queue, waiting>>
  /\ UNCHANGED <<expired, backend, said>>

\* Refusal, lock or replacement of the request: only a registered attempt.
invalidate(a) ==
  /\ pc[a] \notin {"none", "dropped"}
  /\ ~cancelled[a]
  /\ cancelled' = [cancelled EXCEPT ![a] = TRUE]
  /\ UNCHANGED <<caller, slot, queue, waiting, expired, backend, said>>

Deadline(a) ==
  /\ pc[a] # "none"
  /\ ~expired[a]
  /\ expired' = [expired EXCEPT ![a] = TRUE]
  /\ UNCHANGED <<caller, slot, queue, waiting, cancelled, backend, said>>

----------------------------------------------------------------------------
(* The backend: macOS and Windows.  The native prompt is external.         *)

BackendAt(a, place) == backend' = [backend EXCEPT ![a] = place]

\* "Check immediately before opening the native prompt".
BackendCheck(a) ==
  /\ backend[a] = "spawned"
  /\ \/ cancelled[a] /\ BackendAt(a, "ended")
          /\ said' = [said EXCEPT ![a] = "retryable"]
     \/ ~cancelled[a] /\ BackendAt(a, "opening") /\ UNCHANGED said
  /\ UNCHANGED <<caller, slot, queue, waiting, cancelled, expired>>

\* The native call starts the prompt or fails to.
BackendOpen(a) ==
  /\ backend[a] = "opening"
  /\ \/ BackendAt(a, "open") /\ UNCHANGED said
     \/ /\ BackendAt(a, "ended")
        /\ said' \in {[said EXCEPT ![a] = r] : r \in {"retryable", "fatal"}}
  /\ UNCHANGED <<caller, slot, queue, waiting, cancelled, expired>>

PromptEnds(a) ==
  /\ backend[a] = "open"
  /\ BackendAt(a, "ended")
  /\ said' \in {[said EXCEPT ![a] = r] : r \in PresenceResult}
  /\ UNCHANGED <<caller, slot, queue, waiting, cancelled, expired>>

DropPermit(a) ==
  /\ backend[a] = "ended"
  /\ BackendAt(a, "released")
  /\ HandOver(queue)
  /\ UNCHANGED <<caller, waiting, cancelled, expired, said>>

SendResult(a) ==
  /\ backend[a] = "released"
  /\ BackendAt(a, "sent")
  /\ UNCHANGED <<caller, slot, queue, waiting, cancelled, expired, said>>

----------------------------------------------------------------------------
CallerStep(a) ==
  \/ TryAcquire(a) \/ TakePlace(a) \/ QueueFull(a) \/ JoinQueue(a)
  \/ GivenPermit(a) \/ GiveUpWaiting(a) \/ GrantedStopped(a) \/ Spawn(a)
  \/ GiveUpPrompt(a) \/ TakeResult(a)

BackendStep(a) ==
  BackendCheck(a) \/ BackendOpen(a) \/ DropPermit(a) \/ SendResult(a)

Next ==
  \E a \in Attempt :
    \/ begin_attempt(a) \/ CallerStep(a) \/ BackendStep(a) \/ PromptEnds(a)
    \/ DropAttempt(a) \/ Abandon(a) \/ invalidate(a) \/ Deadline(a)

Spec == Init /\ [][Next]_vars

\* The runtime polls every future and every task that can go on, and time
\* passes.  Nothing makes the user answer a prompt.
Fairness ==
  \A a \in Attempt : /\ WF_vars(CallerStep(a))
                     /\ WF_vars(BackendStep(a))
                     /\ WF_vars(Deadline(a))

FairSpec == Spec /\ Fairness

----------------------------------------------------------------------------
(* Properties.                                                             *)

Place == {"none", "begun", "refused", "overflow", "queueing", "queued",
          "granted", "prompting", "returned", "dropped"}
BackendPlace == {"none", "spawned", "opening", "open", "ended", "released",
                 "sent"}

\* Every variable has its type.
TypeOK ==
  /\ pc \in [Attempt -> Place]
  /\ result \in [Attempt -> Denial \cup {"Verified", None}]
  /\ slot \in Attempt \cup {None}
  /\ queue \in Seq(Attempt)
  /\ waiting \in Nat
  /\ cancelled \in [Attempt -> BOOLEAN]
  /\ expired \in [Attempt -> BOOLEAN]
  /\ backend \in [Attempt -> BackendPlace]
  /\ said \in [Attempt -> PresenceResult \cup {None}]

Running(a) == backend[a] \in {"spawned", "opening", "open", "ended"}

\* The permit is with exactly the attempt that is between its permit and the
\* end of its prompt, however the caller left: no prompt runs without it and
\* it is never held by an attempt that is gone.
SlotOwned ==
  /\ \A a \in Attempt : pc[a] = "granted" \/ Running(a) => slot = a
  /\ slot # None => \/ pc[slot] \in {"granted", "queued"}
                    \/ Running(slot)
  /\ slot = None => queue = <<>>

InQueue == {a \in Attempt : pc[a] \in {"queueing", "queued"}}

\* At most MAX_WAITING callers wait for the slot: the counter covers every
\* place taken, whether its owner was granted, stopped or dropped.
QueueBounded == Cardinality(InQueue) <= MAX_WAITING

\* verify returns or its owner is gone, even if a prompt is never answered.
VerifyReturns ==
  \A a \in Attempt : pc[a] = "begun" ~> pc[a] \in {"returned", "dropped"}

\* When every prompt is ended by the user or the system, the slot never stays
\* with one attempt: no path through cancellation, deadline and dropped
\* futures loses the permit.
SlotComesFree ==
  (\A a \in Attempt : WF_vars(PromptEnds(a)))
    => \A a \in Attempt : slot = a ~> slot # a

\* The inductive invariant.  Waiters are distinct, still waiting and without
\* the permit; the counter counts the places; a backend exists only behind a
\* permit; answers and outcomes are written once.
Waiters ==
  /\ \A i \in 1..Len(queue) : pc[queue[i]] = "queued" /\ queue[i] # slot
  /\ \A i, j \in 1..Len(queue) : queue[i] = queue[j] => i = j

Places == {a \in Attempt : pc[a] \in {"overflow", "queueing", "queued"}}
PlacesCounted == IsFiniteSet(Places) /\ waiting = Cardinality(Places)

Progress ==
  \A a \in Attempt :
    /\ pc[a] \notin {"prompting", "returned", "dropped"} => backend[a] = "none"
    /\ pc[a] \notin {"returned", "dropped"} => result[a] = None
    /\ said[a] = None <=> backend[a] \in {"none", "spawned", "opening", "open"}

IInv == TypeOK /\ SlotOwned /\ QueueBounded /\ Waiters /\ PlacesCounted /\ Progress

Open == {a \in Attempt : backend[a] = "open"}
Prompt == IF Open = {} THEN None ELSE CHOOSE a \in Open : TRUE
Confirmed == {a \in Attempt : said[a] = "ok"}
Cancelled == {a \in Attempt : cancelled[a]}
Contract ==
  INSTANCE PresenceContract
    WITH prompt <- Prompt, confirmed <- Confirmed,
         cancelled <- Cancelled, answer <- result
\* The coordinator keeps the contract its callers rely on, with one prompt
\* open at a time.
KeepsContract == Contract!Spec
=============================================================================
