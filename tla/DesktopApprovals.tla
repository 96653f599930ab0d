-------------------------- MODULE DesktopApprovals --------------------------
(***************************************************************************)
(* apps/desktop: how a call that needs a human gets its consent and is     *)
(* executed while the vault is locked and unlocked around it.              *)
(*                                                                         *)
(* An agent's call (sv-mcp call_tool) and an unprotected desktop operation *)
(* wait in ApprovalState::pending for the user; a protected entry needs    *)
(* the OS prompt behind its Approve button.  A protected desktop operation *)
(* goes through the prompt directly, registered in DesktopOps.  Each call  *)
(* captures the session epoch first and tests it again afterwards.         *)
(*                                                                         *)
(* Locks: a section under the handle or under a leaf lock (pending, ops,   *)
(* tray) is one action.  Only the lock path keeps the handle over several  *)
(* steps, and is the variable locker.  Presence verification keeps         *)
(* PresenceContract: an invalidated or expired attempt is not Verified.    *)
(***************************************************************************)
EXTENDS Naturals, Sequences, FiniteSets

CONSTANTS
  Call,       \* calls, each made once
  Signature,  \* identities of requests and operations
  Kinds,      \* the kinds of calls that are made
  MaxEpoch,   \* bound on the session epoch
  MaxLost,    \* bound on the records that fail
  None

Kind == {"agent", "desktop", "unlock"}
GateState == {"Pending", "Verifying", "Authenticated"}

ASSUME KindsAssumption == Kinds \subseteq Kind
ASSUME EpochAssumption == MaxEpoch \in Nat /\ MaxLost \in Nat
ASSUME NoneAssumption ==
  /\ None \notin Call \cup Kind \cup Signature \cup Nat \cup BOOLEAN
  /\ None \notin [id : Call, prot : BOOLEAN, attempt : Call \cup {None}]

VARIABLES
  unlocked,   \* the handle is there
  epoch,      \* session_timer.epoch
  locker,     \* who runs the lock path with the handle held, and its next step
  starting,   \* unlocks between publication and their servers
  seen,       \* the coordinator has seen a protected system
  pc, kind, sig, saw,  \* per call: place, kind, identity, captured epoch
  prot,       \* its classification, fixed at creation
  owner,      \* the call whose deadline and registration it uses
  expired,    \* the deadline has passed
  pending,    \* ApprovalState::pending
  gate,       \* the entry's GateState
  old,        \* the entry this call superseded and has not yet closed
  sent,       \* what the entry was removed with, sent or about to be
  resp,       \* the verification behind Approve or behind the gate
  cancelled,  \* its attempt was invalidated
  after,      \* what the responder still does: record, and drop the row
  ops,        \* DesktopOps
  tray,       \* TrayApprovals
  log,        \* what the audit log holds of the call and its request
  lost,       \* the records that an open vault failed to write
  ran         \* the epoch the call was executed in

session == <<unlocked, epoch, locker, starting>>
request == <<kind, sig, saw, prot, owner>>
prompts == <<resp, cancelled>>
vars == <<session, seen, request, pc, expired, pending, gate, old, sent,
          prompts, after, ops, tray, log, lost, ran>>

Gated(c) == kind[c] \in {"desktop", "unlock"}

Init ==
  /\ unlocked = FALSE /\ epoch = 0 /\ starting = 0 /\ seen = FALSE
  /\ locker = None
  /\ pc = [c \in Call |-> "idle"]
  /\ kind = [c \in Call |-> None]
  /\ sig = [c \in Call |-> None]
  /\ saw = [c \in Call |-> 0]
  /\ prot = [c \in Call |-> FALSE]
  /\ owner = [c \in Call |-> c]
  /\ expired = [c \in Call |-> FALSE]
  /\ pending = {}
  /\ gate = [c \in Call |-> "Pending"]
  /\ old = [c \in Call |-> None]
  /\ sent = [c \in Call |-> None]
  /\ resp = [c \in Call |-> "none"]
  /\ cancelled = [c \in Call |-> FALSE]
  /\ after = [c \in Call |-> "none"]
  /\ ops = [key \in Kind \X Signature |-> None]
  /\ tray = {}
  /\ log = [c \in Call |-> <<>>] /\ lost = {}
  /\ ran = [c \in Call |-> None]

Key(c) == <<kind[c], sig[c]>>
Goto(c, place) == pc' = [pc EXCEPT ![c] = place]
HandleFree == locker = None
Late(c) == expired[owner[c]]

\* AuditLog::record: the record is written, or it fails and the caller does
\* not hear of it.
Noted(c, d) ==
  \/ log' = [log EXCEPT ![c] = Append(@, d)] /\ UNCHANGED lost
  \/ /\ Cardinality(lost) < MaxLost
     /\ lost' = lost \cup {<<c, d>>}
     /\ UNCHANGED log

\* A plausible fault: the record waits for a key.
RecordedOnceUnlocked(c, d) == unlocked /\ Noted(c, d)

\* record_with_handle and record_desktop_event_locked: no key, no record.
Recorded(c, d) == IF unlocked THEN Noted(c, d) ELSE UNCHANGED <<log, lost>>

\* A plausible fault: the prompt is left to its deadline.
InvalidatedNever(S) == UNCHANGED cancelled

\* invalidate_entry: the attempt behind a removed entry.
Invalidated(S) ==
  cancelled' = [c \in Call |-> cancelled[c] \/ (c \in S /\ gate[c] = "Verifying")]

\* A plausible fault: the entry is read, not removed.
AnswerKeepingEntry(c, answer) ==
  UNCHANGED pending /\ sent' = [sent EXCEPT ![c] = answer]

\* The entry is removed and its channel answered.
Answer(c, answer) ==
  /\ pending' = pending \ {c}
  /\ sent' = [sent EXCEPT ![c] = answer]

\* PresenceCoordinator::classify, sticky.
Classify(p) == (seen => p) /\ seen' = (seen \/ p)

----------------------------------------------------------------------------
(* The calls.                                                              *)

\* call_tool: build_access_request under the handle, then authorize.
Build(c, s) ==
  /\ pc[c] = "idle"
  /\ HandleFree /\ unlocked
  /\ kind' = [kind EXCEPT ![c] = "agent"]
  /\ sig' = [sig EXCEPT ![c] = s]
  /\ Goto(c, "built")
  /\ UNCHANGED <<session, seen, saw, prot, owner, expired, pending, gate, old,
                 sent, prompts, after, ops, tray, log, lost, ran>>

Authorize(c) ==
  /\ pc[c] = "built"
  /\ saw' = [saw EXCEPT ![c] = epoch]
  /\ \E p \in BOOLEAN : Classify(p) /\ prot' = [prot EXCEPT ![c] = p]
  /\ Goto(c, "asking")
  /\ UNCHANGED <<session, kind, sig, owner, expired, pending, gate, old, sent,
                 prompts, after, ops, tray, log, lost, ran>>

\* desktop_presence_gate, up to the registration of the operation.
GateStart(c, k, s) ==
  /\ pc[c] = "idle"
  /\ kind' = [kind EXCEPT ![c] = k]
  /\ sig' = [sig EXCEPT ![c] = s]
  /\ saw' = [saw EXCEPT ![c] = epoch]
  /\ Goto(c, "gated")
  /\ UNCHANGED <<session, seen, prot, owner, expired, pending, gate, old, sent,
                 prompts, after, ops, tray, log, lost, ran>>

\* DesktopOps::begin: expired operations go, a verifying one is busy, one
\* left by a retry keeps its id, deadline and classification.
Live(key) == ops[key] # None /\ ~expired[ops[key].id]
Retained == [key \in DOMAIN ops |-> IF Live(key) THEN ops[key] ELSE None]

OpsBeginBusy(c) ==
  /\ pc[c] = "gated"
  /\ Live(Key(c)) /\ ops[Key(c)].attempt # None
  /\ ops' = Retained
  /\ Goto(c, "refused")
  /\ UNCHANGED <<session, seen, request, expired, pending, gate, old, sent,
                 prompts, after, tray, log, lost, ran>>

OpsBegin(c) ==
  /\ pc[c] = "gated"
  /\ Live(Key(c)) => ops[Key(c)].attempt = None
  /\ \E op \in [id : Call, prot : BOOLEAN, attempt : {c}] :
       /\ IF Live(Key(c))
          THEN op = [ops[Key(c)] EXCEPT !.attempt = c] /\ UNCHANGED seen
          ELSE op.id = c /\ Classify(op.prot)
       /\ ops' = [Retained EXCEPT ![Key(c)] = op]
       /\ prot' = [prot EXCEPT ![c] = op.prot]
       /\ owner' = [owner EXCEPT ![c] = op.id]
       /\ resp' = [resp EXCEPT ![c] = IF op.prot THEN "verifying" ELSE "none"]
       /\ Goto(c, IF op.prot THEN "prompting" ELSE "asking")
  /\ UNCHANGED <<session, kind, sig, saw, expired, pending, gate, old, sent,
                 cancelled, after, tray, log, lost, ran>>

\* A plausible fault: whatever is registered under the digest is removed.
OpsFinishAny(c) == ops' = [ops EXCEPT ![Key(c)] = None]

\* DesktopOps::finish: only the operation with this id.
OpsFinish(c) ==
  ops' = [ops EXCEPT ![Key(c)] =
            IF @ # None /\ @.id = owner[c] THEN None ELSE @]

\* DesktopOps::retry: back to Pending, only for this id and attempt.
OpsRetry(c) ==
  ops' = [ops EXCEPT ![Key(c)] =
            IF @ # None /\ @.id = owner[c] /\ @.attempt = c
            THEN [@ EXCEPT !.attempt = None] ELSE @]

\* request_click under the pending lock: supersede, insert.
Twins(c) == {d \in pending : Key(d) = Key(c)}

Insert(c) ==
  /\ pc[c] = "asking"
  /\ pending' = (pending \ Twins(c)) \cup {c}
  /\ Invalidated(Twins(c))
  /\ sent' = [d \in Call |-> IF d \in Twins(c) THEN FALSE ELSE sent[d]]
  /\ \/ Twins(c) = {} /\ Goto(c, "emitting") /\ UNCHANGED old
     \/ /\ \E d \in Twins(c) : old' = [old EXCEPT ![c] = d]
        /\ Goto(c, "superseding")
  /\ UNCHANGED <<session, seen, request, expired, gate, resp, after, ops, tray,
                 log, lost, ran>>

\* The superseded request's row and its Denied record.
Superseded(c) ==
  /\ pc[c] = "superseding"
  /\ HandleFree
  /\ tray' = tray \ {old[c]}
  /\ Recorded(old[c], "Denied")
  /\ old' = [old EXCEPT ![c] = None]
  /\ Goto(c, "emitting")
  /\ UNCHANGED <<session, seen, request, expired, pending, gate, sent, prompts,
                 after, ops, ran>>

\* request_click has returned; authorize then tests the epoch: "An approval
\* granted in one unlock is never consumed in the next."
Return(c, ok) ==
  Goto(c, IF Gated(c) THEN IF ok THEN "consented" ELSE "denied"
          ELSE IF ok /\ epoch = saw[c] THEN "authorized" ELSE "refused")

\* The modal is emitted, or the emit fails and the entry stays behind.
Emit(c) ==
  /\ pc[c] = "emitting"
  /\ \/ Goto(c, IF kind[c] = "agent" THEN "mirroring" ELSE "waiting")
     \/ Return(c, FALSE)
  /\ UNCHANGED <<session, seen, request, expired, pending, gate, old, sent,
                 prompts, after, ops, tray, log, lost, ran>>

\* An agent's request gets its row in the tray, whatever became of the entry.
Mirror(c) ==
  /\ pc[c] = "mirroring"
  /\ tray' = tray \cup {c}
  /\ Goto(c, "waiting")
  /\ UNCHANGED <<session, seen, request, expired, pending, gate, old, sent,
                 prompts, after, ops, log, lost, ran>>

Decided(c) ==
  /\ pc[c] = "waiting"
  /\ sent[c] # None
  /\ Return(c, sent[c])
  /\ UNCHANGED <<session, seen, request, expired, pending, gate, old, sent,
                 prompts, after, ops, tray, log, lost, ran>>

\* timeout_at and the removal in reap_timeout.  An answer already taken for
\* the entry may not have reached the channel, and is lost.
TimeOut(c) ==
  /\ pc[c] = "waiting"
  /\ Late(c)
  /\ pending' = pending \ {c}
  /\ Invalidated(pending \cap {c})
  /\ \/ c \in pending /\ Goto(c, "reaping") /\ UNCHANGED tray
     \/ c \notin pending /\ Return(c, FALSE) /\ tray' = tray \ {c}
  /\ UNCHANGED <<session, seen, request, expired, gate, old, sent, resp, after,
                 ops, log, lost, ran>>

\* The rest of reap_timeout.
Reap(c) ==
  /\ pc[c] = "reaping"
  /\ HandleFree
  /\ Recorded(c, "Denied")
  /\ tray' = tray \ {c}
  /\ Return(c, FALSE)
  /\ UNCHANGED <<session, seen, request, expired, pending, gate, old, sent,
                 prompts, after, ops, ran>>

----------------------------------------------------------------------------
(* After the consent.                                                      *)

\* The audit sink has its own key; without the intent nothing is executed.
RecordAttempted(c) ==
  /\ pc[c] = "authorized"
  /\ \/ /\ Goto(c, "attempted")
        /\ log' = [log EXCEPT ![c] = Append(@, "Attempted")] /\ UNCHANGED lost
     \/ Goto(c, "done") /\ UNCHANGED <<log, lost>>
  /\ UNCHANGED <<session, seen, request, expired, pending, gate, old, sent,
                 prompts, after, ops, tray, ran>>

\* execute and the closing record.  A vault that is locked by now ends the
\* call without one.
Execute(c) ==
  /\ pc[c] = "attempted"
  /\ HandleFree
  /\ \/ /\ unlocked
        /\ ran' = [ran EXCEPT ![c] = epoch]
        /\ Noted(c, "Ran")
     \/ ~unlocked /\ UNCHANGED <<ran, log, lost>>
  /\ Goto(c, "done")
  /\ UNCHANGED <<session, seen, request, expired, pending, gate, old, sent,
                 prompts, after, ops, tray>>

\* The closing record of a call that did not run.  A refused unlock has none.
RecordOutcome(c) ==
  /\ pc[c] = "refused"
  /\ \/ kind[c] = "agent" /\ Noted(c, "NotRun")
     \/ kind[c] = "desktop" /\ HandleFree /\ Recorded(c, "NotRun")
     \/ kind[c] = "unlock" /\ UNCHANGED <<log, lost>>
  /\ Goto(c, "done")
  /\ UNCHANGED <<session, seen, request, expired, pending, gate, old, sent,
                 prompts, after, ops, tray, ran>>

\* desktop_presence_gate after the click or the verification.
GateEnds(c) ==
  /\ \/ pc[c] \in {"consented", "denied"} /\ OpsFinish(c)
        /\ Goto(c, IF pc[c] = "consented" /\ epoch = saw[c]
                   THEN "passed" ELSE "refused")
        /\ UNCHANGED resp
     \/ /\ pc[c] = "prompting" /\ resp[c] \notin {"none", "verifying"}
        /\ IF resp[c] = "Retryable" THEN OpsRetry(c) ELSE OpsFinish(c)
        /\ Goto(c, IF resp[c] = "Verified" /\ ~Late(c) /\ epoch = saw[c]
                   THEN "passed" ELSE "refused")
        /\ UNCHANGED resp
  /\ UNCHANGED <<session, seen, request, expired, pending, gate, old, sent,
                 cancelled, after, tray, log, lost, ran>>

\* A plausible fault: the epoch is not tested again.
PassAppliesAnyEpoch(c) == (kind[c] = "unlock") # unlocked

\* The pass still applies: the vault is as the operation needs it, and no
\* unlock or lock came since the gate.
PassApplies(c) == (kind[c] = "unlock") # unlocked /\ epoch = saw[c]

\* with_gated_handle: the pass is consumed under the handle, or rejected; or
\* the operation fails.
Consume(c) ==
  /\ pc[c] = "passed" /\ kind[c] = "desktop"
  /\ HandleFree
  /\ \/ /\ PassApplies(c)
        /\ ran' = [ran EXCEPT ![c] = epoch]
        /\ Recorded(c, "Ran")
        /\ Goto(c, "done")
     \/ Goto(c, "refused") /\ UNCHANGED <<ran, log, lost>>
  /\ UNCHANGED <<session, seen, request, expired, pending, gate, old, sent,
                 prompts, after, ops, tray>>

\* vault_unlock with the keychain: publish_unlocked under the same handle, or
\* the pass is rejected or the vault does not open.
ConsumeUnlock(c) ==
  /\ pc[c] = "passed" /\ kind[c] = "unlock"
  /\ HandleFree
  /\ \/ /\ PassApplies(c) /\ epoch < MaxEpoch
        /\ ran' = [ran EXCEPT ![c] = epoch]
        /\ Noted(c, "Ran")
        /\ unlocked' = TRUE /\ epoch' = epoch + 1 /\ starting' = starting + 1
        /\ Goto(c, "done")
     \/ Goto(c, "done")
        /\ UNCHANGED <<ran, log, lost, unlocked, epoch, starting>>
  /\ UNCHANGED <<locker, seen, request, expired, pending, gate, old, sent,
                 prompts, after, ops, tray>>

----------------------------------------------------------------------------
(* The user and the prompts.                                               *)

\* The modal can be answered.
Shown(c) == c \in pending /\ pc[c] \notin {"superseding", "emitting"}

\* refuse_from, in respond(approved = false).
Refuse(c) ==
  /\ Shown(c)
  /\ Answer(c, FALSE)
  /\ Invalidated({c})
  /\ after' = [after EXCEPT ![c] = "record, drop"]
  /\ UNCHANGED <<session, seen, request, pc, expired, gate, old, resp, ops, tray,
                 log, lost, ran>>

RecordRefusal(c) ==
  /\ after[c] # "none"
  /\ HandleFree
  /\ Recorded(c, "Denied")
  /\ after' = [after EXCEPT ![c] = "none"]
  /\ tray' = IF after[c] = "record, drop" THEN tray \ {c} ELSE tray
  /\ UNCHANGED <<session, seen, request, pc, expired, pending, gate, old, sent,
                 prompts, ops, ran>>

\* respond_from_tray: Deny, on a row that may be stale.
RefuseFromTray(c) ==
  /\ c \in tray
  /\ HandleFree
  /\ \/ /\ unlocked /\ c \in pending
        /\ Answer(c, FALSE)
        /\ Invalidated({c})
        /\ after' = [after EXCEPT ![c] = "record, drop"]
        /\ UNCHANGED tray
     \/ /\ ~(unlocked /\ c \in pending)
        /\ tray' = tray \ {c}
        /\ UNCHANGED <<pending, sent, cancelled, after>>
  /\ UNCHANGED <<session, seen, request, pc, expired, gate, old, resp, ops,
                 log, lost, ran>>

\* respond(approved = true), phase 1.
RespondLate(c) ==
  /\ Shown(c)
  /\ HandleFree /\ Late(c)
  /\ Answer(c, FALSE)
  /\ Invalidated({c})
  /\ tray' = tray \ {c}
  /\ after' = [after EXCEPT ![c] = "record"]
  /\ UNCHANGED <<session, seen, request, pc, expired, gate, old, resp, ops,
                 log, lost, ran>>

\* A plausible fault: a click is enough for a protected request.
ClickSufficesAlways(c) == ~Late(c)

ClickSuffices(c) == ~Late(c) /\ ~prot[c]

\* The click: recorded with the handle held, before true is sent; a record that
\* fails stops nothing.  Without a vault only the consent to unlock is given.
RespondClick(c) ==
  /\ Shown(c)
  /\ HandleFree /\ ClickSuffices(c)
  /\ Answer(c, unlocked \/ kind[c] = "unlock")
  /\ Recorded(c, "Allowed")
  /\ tray' = tray \ {c}
  /\ UNCHANGED <<session, seen, request, pc, expired, gate, old, prompts, after,
                 ops, ran>>

RespondBegin(c) ==
  /\ Shown(c)
  /\ HandleFree /\ ~Late(c) /\ prot[c]
  /\ gate[c] = "Pending"
  /\ gate' = [gate EXCEPT ![c] = "Verifying"]
  /\ resp' = [resp EXCEPT ![c] = "verifying"]
  /\ UNCHANGED <<session, seen, request, pc, expired, pending, old, sent,
                 cancelled, after, ops, tray, log, lost, ran>>

\* PresenceCoordinator::verify returns, as PresenceContract allows.
VerifyReturns(c) ==
  /\ resp[c] = "verifying"
  /\ \E r \in {"Verified", "Retryable", "Denied"} :
       /\ cancelled[c] \/ Late(c) => r = "Denied"
       /\ resp' = [resp EXCEPT ![c] = r]
  /\ UNCHANGED <<session, seen, request, pc, expired, pending, gate, old, sent,
                 cancelled, after, ops, tray, log, lost, ran>>

\* respond, phase 3: the entry is gone and the result discarded ...
FinishDiscarded(c) ==
  /\ gate[c] = "Verifying" /\ resp[c] \notin {"none", "verifying"}
  /\ HandleFree
  /\ c \notin pending
  /\ resp' = [resp EXCEPT ![c] = "none"]
  /\ gate' = [gate EXCEPT ![c] = "Pending"]
  /\ UNCHANGED <<session, seen, request, pc, expired, pending, old, sent,
                 cancelled, after, ops, tray, log, lost, ran>>

\* ... or GateState::finish accepts it ...
FinishVerified(c) ==
  /\ gate[c] = "Verifying" /\ resp[c] = "Verified"
  /\ HandleFree
  /\ c \in pending /\ ~Late(c)
  /\ Answer(c, unlocked)
  /\ Recorded(c, "Allowed")
  /\ gate' = [gate EXCEPT ![c] = "Authenticated"]
  /\ resp' = [resp EXCEPT ![c] = "none"]
  /\ tray' = tray \ {c}
  /\ UNCHANGED <<session, seen, request, pc, expired, old, cancelled, after, ops,
                 ran>>

\* ... or the user may try again ...
FinishRetryable(c) ==
  /\ gate[c] = "Verifying" /\ resp[c] = "Retryable"
  /\ HandleFree
  /\ c \in pending
  /\ gate' = [gate EXCEPT ![c] = "Pending"]
  /\ resp' = [resp EXCEPT ![c] = "none"]
  /\ UNCHANGED <<session, seen, request, pc, expired, pending, old, sent,
                 cancelled, after, ops, tray, log, lost, ran>>

\* ... or the request is denied.
FinishDenied(c) ==
  /\ gate[c] = "Verifying"
  /\ resp[c] = "Denied" \/ (resp[c] = "Verified" /\ Late(c))
  /\ HandleFree
  /\ c \in pending
  /\ Answer(c, FALSE)
  /\ gate' = [gate EXCEPT ![c] = "Pending"]
  /\ resp' = [resp EXCEPT ![c] = "none"]
  /\ after' = [after EXCEPT ![c] = "record, drop"]
  /\ UNCHANGED <<session, seen, request, pc, expired, old, cancelled, ops, tray,
                 log, lost, ran>>

\* Time matters while somebody may still look at the deadline.
Timed(d) ==
  \/ d \in pending \/ resp[d] # "none"
  \/ pc[d] \in {"asking", "superseding", "emitting", "mirroring", "waiting"}

Deadline(c) ==
  /\ ~expired[c]
  /\ \/ \E d \in Call : owner[d] = c /\ Timed(d)
     \/ \E key \in DOMAIN ops : ops[key] # None /\ ops[key].id = c
  /\ expired' = [expired EXCEPT ![c] = TRUE]
  /\ UNCHANGED <<session, seen, request, pc, pending, gate, old, sent, prompts,
                 after, ops, tray, log, lost, ran>>

----------------------------------------------------------------------------
(* The session.                                                            *)

calls == <<request, pc, expired, old, resp, after, log, lost, ran>>

\* A passphrase or recovery unlock: publish_unlocked.  An open handle keeps
\* the vault's lock file, and VaultHandle::unlock fails.
Unlock ==
  /\ HandleFree /\ ~unlocked /\ epoch < MaxEpoch
  /\ unlocked' = TRUE /\ epoch' = epoch + 1 /\ starting' = starting + 1
  /\ UNCHANGED <<locker, seen, calls, pending, gate, sent, cancelled, ops, tray>>

\* start_servers succeeds, or rollback_unlock publishes the lock again.
UnlockEnds ==
  /\ starting > 0 /\ starting' = starting - 1
  /\ \/ UNCHANGED <<unlocked, epoch>>
     \/ HandleFree /\ epoch < MaxEpoch /\ unlocked' = FALSE /\ epoch' = epoch + 1
  /\ UNCHANGED <<locker, seen, calls, pending, gate, sent, cancelled, ops, tray>>

\* perform_vault_lock and the monitor's perform_vault_lock_internal.
LockStart(by) ==
  /\ HandleFree /\ epoch < MaxEpoch
  /\ unlocked' = FALSE /\ epoch' = epoch + 1
  /\ locker' = <<by, "pending">>
  /\ UNCHANGED <<starting, seen, calls, pending, gate, sent, cancelled, ops, tray>>

\* clear_all.
ClearAll ==
  /\ locker # None /\ locker[2] = "pending"
  /\ pending' = {}
  /\ Invalidated(pending)
  /\ sent' = [c \in Call |-> IF c \in pending THEN FALSE ELSE sent[c]]
  /\ locker' = [locker EXCEPT ![2] = "ops"]
  /\ UNCHANGED <<unlocked, epoch, starting, seen, calls, gate, ops, tray>>

\* DesktopOps::clear.
ClearOps ==
  /\ locker # None /\ locker[2] = "ops"
  /\ ops' = [key \in DOMAIN ops |-> None]
  /\ cancelled' = [c \in Call |->
       cancelled[c] \/ \E key \in DOMAIN ops : ops[key] # None /\ ops[key].attempt = c]
  /\ locker' = [locker EXCEPT ![2] = "tray"]
  /\ UNCHANGED <<unlocked, epoch, starting, seen, calls, pending, gate, sent, tray>>

\* Only the command clears the tray.  The servers are stopped, the handle
\* released.
LockEnds ==
  /\ locker # None /\ locker[2] = "tray"
  /\ tray' = IF locker[1] = "command" THEN {} ELSE tray
  /\ locker' = None
  /\ UNCHANGED <<unlocked, epoch, starting, seen, calls, pending, gate, sent,
                 cancelled, ops>>

----------------------------------------------------------------------------
CallStep(c) ==
  \/ Authorize(c) \/ OpsBeginBusy(c) \/ OpsBegin(c) \/ Insert(c)
  \/ Superseded(c) \/ Emit(c) \/ Mirror(c) \/ Decided(c) \/ TimeOut(c) \/ Reap(c)
  \/ RecordAttempted(c) \/ Execute(c) \/ RecordOutcome(c)
  \/ GateEnds(c) \/ Consume(c) \/ ConsumeUnlock(c)

ResponderStep(c) ==
  \/ RecordRefusal(c) \/ VerifyReturns(c) \/ FinishDiscarded(c)
  \/ FinishVerified(c) \/ FinishRetryable(c) \/ FinishDenied(c)

UserStep(c) ==
  \/ Refuse(c) \/ RefuseFromTray(c) \/ RespondLate(c) \/ RespondClick(c)
  \/ RespondBegin(c)

LockStep == ClearAll \/ ClearOps \/ LockEnds

Next ==
  \/ \E c \in Call :
       \/ \E s \in Signature : "agent" \in Kinds /\ Build(c, s)
       \/ \E k \in Kinds \ {"agent"}, s \in Signature : GateStart(c, k, s)
       \/ CallStep(c) \/ ResponderStep(c) \/ UserStep(c) \/ Deadline(c)
  \/ Unlock \/ UnlockEnds \/ LockStep
  \/ \E by \in {"command", "monitor"} : LockStart(by)

Spec == Init /\ [][Next]_vars

\* Tasks go on when they can, time passes, verify returns (Presence shows
\* that it does), and the lock path is not interrupted.  The user and the
\* commands owe nothing.
Fairness ==
  /\ \A c \in Call : WF_vars(CallStep(c)) /\ WF_vars(Deadline(c))
                     /\ WF_vars(ResponderStep(c))
  /\ WF_vars(LockStep)

FairSpec == Spec /\ Fairness

----------------------------------------------------------------------------
(* Properties.                                                             *)

Tally(s, notes) == Cardinality({i \in DOMAIN s : s[i] \in notes})
Count(c, notes) == Tally(log[c], notes)

\* One decision for one request, however many of the user, the clock, the
\* lock path and a newer twin end it: never two records, never an Allowed
\* record for an answer of false, and an approval of an agent's or a desktop
\* request is sent with its record, or where that record failed to be written
\* (record_with_handle passes over the failure and true is sent all the same).
OneDecision ==
  \A c \in Call :
    /\ Count(c, {"Allowed", "Denied"}) <= 1
    /\ Count(c, {"Ran", "NotRun"}) <= 1
    /\ sent[c] = FALSE => Count(c, {"Allowed"}) = 0
    /\ sent[c] = TRUE /\ kind[c] # "unlock" =>
         Count(c, {"Allowed"}) = 1 \/ <<c, "Allowed">> \in lost

\* What is executed was consented to: by a true answer, given behind the OS
\* prompt when the request is protected, or by the operation's own prompt.
\* An agent's call also has its intent on record.
ExecutedWithConsent ==
  \A c \in Call : ran[c] # None =>
    /\ Gated(c) /\ prot[c] => resp[c] = "Verified"
    /\ ~(Gated(c) /\ prot[c]) => sent[c] = TRUE
    /\ kind[c] = "agent" =>
         /\ prot[c] => gate[c] = "Authenticated"
         /\ Count(c, {"Attempted"}) = 1

\* A gated operation runs in the unlock it was confirmed in: lock, unlock and
\* rollback may fall anywhere between the gate and the execution.
GatedInItsEpoch ==
  \A c \in Call : Gated(c) /\ ran[c] # None => ran[c] = saw[c]

\* "An approval granted in one unlock is never consumed in the next."
ApprovedInItsEpoch ==
  \A c \in Call : kind[c] = "agent" /\ ran[c] # None => ran[c] = saw[c]

\* A prompt never outlives its request: a verification still running has its
\* entry or its operation, or has been cancelled, or its deadline is over.
PromptHasRequest ==
  \A c \in Call : resp[c] = "verifying" =>
    \/ c \in pending /\ gate[c] = "Verifying"
    \/ cancelled[c] \/ Late(c)
    \/ pc[c] = "prompting" /\ ops[Key(c)] # None /\ ops[Key(c)].attempt = c

\* A call between DesktopOps::begin and the end of its gate.
UnderWay(c) ==
  Gated(c) /\ pc[c] \in {"asking", "superseding", "emitting", "waiting",
                        "reaping", "prompting", "consented", "denied"}

\* A desktop operation is verified by one call at a time: what is registered
\* is a call under way, and a call under way keeps its registration until its
\* window closes or the lock path clears it, whatever another call of the same
\* operation, ending late, removes.
OpsHaveOwners ==
  /\ \A key \in DOMAIN ops : ops[key] # None /\ ops[key].attempt # None =>
       LET c == ops[key].attempt IN
         UnderWay(c) /\ Key(c) = key /\ owner[c] = ops[key].id
  /\ \A c \in Call : UnderWay(c) /\ ~Late(c) /\ ~cancelled[c] =>
       ops[Key(c)] # None /\ ops[Key(c)].attempt = c

\* Every call ends, whatever the user, the prompts and the lock path do.
CallsEnd == \A c \in Call : pc[c] # "idle" ~> pc[c] = "done"

=============================================================================
