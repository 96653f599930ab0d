----------------------- MODULE DesktopApprovalsProofs -----------------------
(***************************************************************************)
(* The desktop's approvals and gates, for any number of calls, signatures  *)
(* and unlocks: one decision per request, nothing executed without its     *)
(* consent, gated operations in their own epoch, no prompt that outlives   *)
(* its request and one owner for each registered operation.                *)
(***************************************************************************)
EXTENDS DesktopApprovals, FiniteSetTheorems, TLAPS

Places == {"idle", "built", "gated", "asking", "superseding", "emitting", "mirroring",
           "waiting", "reaping", "prompting", "consented", "denied", "passed", "refused",
           "authorized", "attempted", "done"}

Operation == [id : Call, prot : BOOLEAN, attempt : Call \cup {None}]

Note == {"Denied", "Allowed", "Attempted", "Ran", "NotRun"}

TypeOK ==
  /\ unlocked \in BOOLEAN /\ epoch \in Nat
  /\ pc \in [Call -> Places]
  /\ kind \in [Call -> Kind \cup {None}]
  /\ sig \in [Call -> Signature \cup {None}]
  /\ saw \in [Call -> Nat]
  /\ prot \in [Call -> BOOLEAN]
  /\ owner \in [Call -> Call]
  /\ expired \in [Call -> BOOLEAN]
  /\ pending \in SUBSET Call
  /\ gate \in [Call -> GateState]
  /\ old \in [Call -> Call \cup {None}]
  /\ sent \in [Call -> BOOLEAN \cup {None}]
  /\ resp \in [Call -> {"none", "verifying", "Verified", "Retryable", "Denied"}]
  /\ cancelled \in [Call -> BOOLEAN]
  /\ after \in [Call -> {"none", "record", "record, drop"}]
  /\ ops \in [Kind \X Signature -> Operation \cup {None}]
  /\ log \in [Call -> Seq(Note)]
  /\ ran \in [Call -> Nat \cup {None}]

\* The places before a request is in the table of pending requests.
Early == {"idle", "built", "gated", "asking"}

\* What a call is, by the place it has reached.
PlaceInv ==
  \A c \in Call :
    /\ pc[c] = "idle" => kind[c] = None
    /\ pc[c] # "idle" => kind[c] \in Kind /\ sig[c] \in Signature
    /\ pc[c] \in {"built", "mirroring", "authorized", "attempted"} => kind[c] = "agent"
    /\ pc[c] \in {"gated", "prompting", "passed", "consented", "denied"} => Gated(c)
    /\ pc[c] = "prompting" => prot[c]
    /\ Gated(c) /\ prot[c] => pc[c] \in {"gated", "prompting", "passed", "refused", "done"}
    /\ pc[c] \in {"idle", "built", "gated"} => ~prot[c] /\ owner[c] = c
    /\ ran[c] # None => pc[c] = "done"

\* The answer of a request: it is given once, to an entry of the table, behind
\* the prompt when the request is protected.
AnswerInv ==
  \A c \in Call :
    /\ c \in pending => /\ pc[c] \notin Early \cup {"prompting"}
                        /\ ~(Gated(c) /\ prot[c])
                        /\ sent[c] = None
    /\ pc[c] \in Early => sent[c] = None
    /\ sent[c] = TRUE /\ prot[c] => gate[c] = "Authenticated"
    /\ gate[c] # "Pending" => prot[c] /\ ~Gated(c)

\* The prompt of a call: behind Approve while its gate is Verifying, or of the
\* operation while the call is prompting.
PromptInv ==
  \A c \in Call :
    /\ pc[c] \in Early => resp[c] = "none" /\ gate[c] = "Pending"
    /\ pc[c] \in {"idle", "built", "gated"} => ~cancelled[c]
    /\ resp[c] = "verifying" => gate[c] = "Verifying" \/ pc[c] = "prompting"
    /\ gate[c] = "Verifying" /\ resp[c] = "verifying" => c \in pending \/ cancelled[c]

\* What a call that may be executed, or was, has of consent.
ConsentInv ==
  \A c \in Call :
    /\ pc[c] \in {"consented", "authorized", "attempted"} => sent[c] = TRUE
    /\ pc[c] = "passed" \/ ran[c] # None =>
         IF Gated(c) /\ prot[c] THEN resp[c] = "Verified" ELSE sent[c] = TRUE

EpochInv ==
  \A c \in Call : ran[c] # None /\ Gated(c) => ran[c] = saw[c]

\* Who still has to record the end of a request: nobody else then has, and no
\* decision is on record.
TicketInv ==
  /\ \A c \in Call : old[c] # None <=> pc[c] = "superseding"
  /\ \A e \in Call : old[e] # None =>
        old[e] \notin pending /\ after[old[e]] = "none" /\ pc[old[e]] \notin Early \cup {"reaping"}
  /\ \A e, f \in Call : old[e] # None /\ old[e] = old[f] => e = f
  /\ \A c \in Call : pc[c] \in Early => c \notin pending /\ after[c] = "none"
  /\ \A c \in pending : after[c] = "none" /\ pc[c] # "reaping"
  /\ \A c \in Call : after[c] # "none" => pc[c] # "reaping"

Undecided(c) ==
  pc[c] \in Early \cup {"reaping"} \/ c \in pending \/ after[c] # "none" \/ \E e \in Call : old[e] = c

RecordInv ==
  \A c \in Call :
    /\ Undecided(c) => Count(c, {"Allowed", "Denied"}) = 0
    /\ pc[c] # "done" => Count(c, {"Ran", "NotRun"}) = 0
    /\ pc[c] \notin {"attempted", "done"} => Count(c, {"Attempted"}) = 0
    /\ pc[c] = "attempted" => Count(c, {"Attempted"}) = 1
    /\ ran[c] # None /\ kind[c] = "agent" => Count(c, {"Attempted"}) = 1

\* Registered operations: their identifiers are calls that have begun, and a
\* call the lock path cancelled has lost its identifier for good.
OpsInv ==
  /\ \A c \in Call : owner[c] # c => pc[owner[c]] \notin {"idle", "built", "gated"}
  /\ \A key \in DOMAIN ops : ops[key] # None =>
        pc[ops[key].id] \notin {"idle", "built", "gated"}
  /\ \A c \in Call : UnderWay(c) /\ cancelled[c] =>
        \A key \in DOMAIN ops : ops[key] # None => ops[key].id # owner[c]

ApprovalsInv ==
  /\ TypeOK /\ PlaceInv /\ AnswerInv /\ PromptInv /\ ConsentInv /\ EpochInv
  /\ TicketInv /\ RecordInv /\ OneDecision /\ OpsInv /\ OpsHaveOwners

\* One more note in the log of a call.
LEMMA NoteTypeOK ==
  ASSUME TypeOK, NEW c \in Call, NEW d \in Note, NEW l, l = [log EXCEPT ![c] = Append(@, d)]
  PROVE  l \in [Call -> Seq(Note)]
<1>1. log[c] \in Seq(Note)
  BY DEF TypeOK
<1>2. Append(log[c], d) \in Seq(Note)
  BY <1>1
<1> QED BY <1>2 DEF TypeOK

\* A call moves to a place.
LEMMA GotoTypeOK ==
  ASSUME TypeOK, NEW c \in Call, NEW place \in Places, Goto(c, place)
  PROVE  pc' \in [Call -> Places]
BY DEF TypeOK, Goto

\* Recording, which may fail, and under the handle, if the vault has one.
LEMMA NotedTypeOK ==
  ASSUME TypeOK, NEW c \in Call, NEW d \in Note, Noted(c, d)
  PROVE  log' \in [Call -> Seq(Note)]
BY NoteTypeOK DEF Noted, TypeOK

LEMMA RecordedTypeOK ==
  ASSUME TypeOK, NEW c \in Call, NEW d \in Note, Recorded(c, d)
  PROVE  log' \in [Call -> Seq(Note)]
BY NotedTypeOK DEF Recorded, TypeOK

\* Invalidation, and the answers of a set of requests.
LEMMA InvalidatedTypeOK ==
  ASSUME TypeOK, NEW S, Invalidated(S)
  PROVE  cancelled' \in [Call -> BOOLEAN]
BY DEF TypeOK, Invalidated

\* Types are kept by the steps of a call.
LEMMA CallTypeStep ==
  ASSUME TypeOK, TicketInv, NEW c \in Call,
         \/ \E s \in Signature : Build(c, s)
         \/ \E k \in Kinds \ {"agent"}, s \in Signature : GateStart(c, k, s)
         \/ CallStep(c)
  PROVE  TypeOK'
<1> USE DEF session, request, prompts
<1>0. unlocked \in BOOLEAN /\ epoch \in Nat
  BY DEF TypeOK
<1>1. ASSUME NEW s \in Signature, Build(c, s) PROVE TypeOK'
  BY <1>1 DEF Build, TypeOK, Goto, Kind, Places
<1>2. ASSUME NEW k \in Kinds \ {"agent"}, NEW s \in Signature, GateStart(c, k, s) PROVE TypeOK'
  BY <1>2, KindsAssumption DEF GateStart, TypeOK, Goto, Kind, Places
<1>3. CASE Authorize(c)
  BY <1>3 DEF Authorize, TypeOK, Goto, Places
<1>4. Retained \in [Kind \X Signature -> Operation \cup {None}]
  BY DEF Retained, TypeOK
<1>5. CASE OpsBeginBusy(c)
  BY <1>4, <1>5 DEF OpsBeginBusy, TypeOK, Goto, Places
<1>6. CASE OpsBegin(c)
  <2>1. PICK op \in [id : Call, prot : BOOLEAN, attempt : {c}] :
          /\ ops' = [Retained EXCEPT ![Key(c)] = op]
          /\ prot' = [prot EXCEPT ![c] = op.prot]
          /\ owner' = [owner EXCEPT ![c] = op.id]
          /\ resp' = [resp EXCEPT ![c] = IF op.prot THEN "verifying" ELSE "none"]
          /\ Goto(c, IF op.prot THEN "prompting" ELSE "asking")
    BY <1>6 DEF OpsBegin
  <2>2. op \in Operation /\ op.id \in Call /\ op.prot \in BOOLEAN
    BY <2>1 DEF Operation
  <2>3. ops' \in [Kind \X Signature -> Operation \cup {None}]
    BY <1>4, <2>1, <2>2
  <2>4. pc' \in [Call -> Places] /\ prot' \in [Call -> BOOLEAN] /\ owner' \in [Call -> Call]
        /\ resp' \in [Call -> {"none", "verifying", "Verified", "Retryable", "Denied"}]
    BY <2>1, <2>2 DEF Goto, TypeOK, Places
  <2> QED BY <1>6, <2>3, <2>4 DEF OpsBegin, TypeOK
<1>7. CASE Insert(c)
  <2>1. cancelled' \in [Call -> BOOLEAN]
    BY <1>7, InvalidatedTypeOK DEF Insert
  <2>2. Twins(c) \subseteq Call
    BY DEF Twins, TypeOK
  <2>3. pending' \in SUBSET Call
    BY <1>7, <2>2 DEF Insert, TypeOK
  <2>5. pc' \in [Call -> Places]
    BY <1>7, GotoTypeOK DEF Insert, Places
  <2>6. old' \in [Call -> Call \cup {None}]
    BY ZenonT(40), <1>7, <2>2 DEF Insert, TypeOK
  <2>4. sent' \in [Call -> BOOLEAN \cup {None}]
    BY <1>7 DEF Insert, TypeOK
  <2> QED BY <1>7, <2>1, <2>3, <2>4, <2>5, <2>6 DEF Insert, TypeOK
<1>8. CASE Superseded(c)
  <2>1. old[c] \in Call
    <3>1. pc[c] = "superseding"
      BY <1>8 DEF Superseded
    <3>2. old[c] # None
      BY <3>1 DEF TicketInv
    <3> QED BY <3>2 DEF TypeOK
  <2>2. log' \in [Call -> Seq(Note)]
    BY <1>8, <2>1, RecordedTypeOK DEF Superseded, Note
  <2> QED BY <1>8, <2>2 DEF Superseded, TypeOK, Goto, Places
<1>9. CASE Emit(c) \/ Mirror(c) \/ Decided(c)
  BY <1>9 DEF Emit, Mirror, Decided, TypeOK, Goto, Return, Places
<1>10. CASE TimeOut(c)
  <2>1. cancelled' \in [Call -> BOOLEAN]
    BY <1>10, InvalidatedTypeOK DEF TimeOut
  <2> QED BY <1>10, <2>1 DEF TimeOut, TypeOK, Goto, Return, Places
<1>11. CASE Reap(c)
  <2>1. log' \in [Call -> Seq(Note)]
    BY <1>11, RecordedTypeOK DEF Reap, Note
  <2> QED BY <1>11, <2>1 DEF Reap, TypeOK, Goto, Return, Places
<1>12. CASE RecordAttempted(c)
  <2>1. log' \in [Call -> Seq(Note)]
    BY <1>12, NoteTypeOK DEF RecordAttempted, TypeOK, Note
  <2>2. pc' \in [Call -> Places]
    BY <1>12, GotoTypeOK DEF RecordAttempted, Places
  <2>3. ran' \in [Call -> Nat \cup {None}]
    BY <1>12 DEF RecordAttempted, TypeOK
  <2> QED BY <1>12, <2>1, <2>2, <2>3 DEF RecordAttempted, TypeOK
<1>13. CASE Execute(c)
  <2>1. log' \in [Call -> Seq(Note)]
    BY <1>13, NotedTypeOK DEF Execute, TypeOK, Note
  <2> QED BY ZenonT(40), <1>13, <2>1 DEF Execute, TypeOK, Goto, Places
<1>14. CASE RecordOutcome(c)
  <2>1. log' \in [Call -> Seq(Note)]
    BY <1>14, NotedTypeOK, RecordedTypeOK DEF RecordOutcome, TypeOK, Note
  <2> QED BY <1>14, <2>1 DEF RecordOutcome, TypeOK, Goto, Places
<1>15. CASE GateEnds(c)
  <2>1. ops' \in [Kind \X Signature -> Operation \cup {None}]
    <3> DEFINE o == ops[Key(c)]
    <3>1. o \in Operation /\ Key(c) \in Kind \X Signature => [o EXCEPT !.attempt = None] \in Operation
      BY DEF Operation
    <3>2. Key(c) \in Kind \X Signature => o \in Operation \cup {None}
      BY DEF TypeOK
    <3>3. PICK v : ops' = [ops EXCEPT ![Key(c)] = v]
                   /\ v \in {None, o} \cup (IF o # None THEN {[o EXCEPT !.attempt = None]} ELSE {})
      BY <1>15 DEF GateEnds, OpsFinish, OpsRetry
    <3> HIDE DEF o
    <3> QED BY <3>1, <3>2, <3>3 DEF TypeOK
  <2> QED BY <1>15, <2>1 DEF GateEnds, TypeOK, Goto, Places
<1>16. CASE Consume(c)
  <2>1. log' \in [Call -> Seq(Note)]
    BY <1>16, RecordedTypeOK DEF Consume, TypeOK, Note
  <2>2. pc' \in [Call -> Places]
    BY <1>16, GotoTypeOK DEF Consume, Places
  <2>3. ran' \in [Call -> Nat \cup {None}]
    BY <1>16 DEF Consume, TypeOK
  <2> QED BY <1>16, <2>1, <2>2, <2>3 DEF Consume, TypeOK
<1>17. CASE ConsumeUnlock(c)
  <2>1. log' \in [Call -> Seq(Note)]
    BY <1>17, NotedTypeOK DEF ConsumeUnlock, TypeOK, Note
  <2>2. pc' \in [Call -> Places]
    BY <1>17, GotoTypeOK DEF ConsumeUnlock, Places
  <2>3. ran' \in [Call -> Nat \cup {None}]
    BY <1>17 DEF ConsumeUnlock, TypeOK
  <2>4. unlocked' \in BOOLEAN
    BY <1>0, <1>17 DEF ConsumeUnlock
  <2>5. epoch' \in Nat
    BY <1>0, <1>17 DEF ConsumeUnlock
  <2>6. UNCHANGED <<kind, sig, saw, prot, owner, expired, pending, gate, old, sent, resp,
                    cancelled, after, ops>>
    BY <1>17 DEF ConsumeUnlock
  <2> QED BY <2>1, <2>2, <2>3, <2>4, <2>5, <2>6 DEF TypeOK
<1> QED BY <1>1, <1>2, <1>3, <1>5, <1>6, <1>7, <1>8, <1>9, <1>10, <1>11, <1>12, <1>13, <1>14,
           <1>15, <1>16, <1>17 DEF CallStep

\* Types are kept by the user, the responder and the clock.
LEMMA ResponderTypeStep ==
  ASSUME TypeOK, NEW c \in Call, ResponderStep(c) \/ UserStep(c) \/ Deadline(c)
  PROVE  TypeOK'
<1> USE DEF session, request, prompts
<1>1. CASE RecordRefusal(c)
  <2>1. log' \in [Call -> Seq(Note)]
    BY <1>1, RecordedTypeOK DEF RecordRefusal, Note
  <2> QED BY <1>1, <2>1 DEF RecordRefusal, TypeOK
<1>2. CASE VerifyReturns(c)
  BY <1>2 DEF VerifyReturns, TypeOK
<1>3. CASE FinishDiscarded(c)
  BY <1>3 DEF FinishDiscarded, TypeOK, GateState
<1>11. CASE FinishRetryable(c)
  BY <1>11 DEF FinishRetryable, TypeOK, GateState
<1>4. CASE FinishVerified(c)
  <2>1. log' \in [Call -> Seq(Note)]
    BY <1>4, RecordedTypeOK DEF FinishVerified, Note
  <2> QED BY <1>4, <2>1 DEF FinishVerified, TypeOK, GateState, Answer
<1>5. CASE FinishDenied(c)
  BY <1>5 DEF FinishDenied, TypeOK, GateState, Answer
<1>6. CASE Refuse(c)
  <2>1. cancelled' \in [Call -> BOOLEAN]
    BY <1>6, InvalidatedTypeOK DEF Refuse
  <2> QED BY <1>6, <2>1 DEF Refuse, TypeOK, Answer
<1>12. CASE RespondLate(c)
  <2>1. cancelled' \in [Call -> BOOLEAN]
    BY <1>12, InvalidatedTypeOK DEF RespondLate
  <2> QED BY <1>12, <2>1 DEF RespondLate, TypeOK, Answer
<1>7. CASE RefuseFromTray(c)
  <2>1. cancelled' \in [Call -> BOOLEAN]
    BY <1>7, InvalidatedTypeOK DEF RefuseFromTray, TypeOK
  <2> QED BY <1>7, <2>1 DEF RefuseFromTray, TypeOK, Answer
<1>8. CASE RespondClick(c)
  <2>1. log' \in [Call -> Seq(Note)]
    BY <1>8, RecordedTypeOK DEF RespondClick, Note
  <2> QED BY <1>8, <2>1 DEF RespondClick, TypeOK, Answer
<1>9. CASE RespondBegin(c)
  BY <1>9 DEF RespondBegin, TypeOK, GateState
<1>10. CASE Deadline(c)
  BY <1>10 DEF Deadline, TypeOK
<1> QED BY <1>1, <1>2, <1>3, <1>4, <1>5, <1>6, <1>7, <1>8, <1>9, <1>10,
           <1>11, <1>12 DEF ResponderStep, UserStep

SessionStep ==
  Unlock \/ UnlockEnds \/ LockStep \/ \E by \in {"command", "monitor"} : LockStart(by)

\* Types are kept by the session.
LEMMA SessionTypeStep ==
  ASSUME TypeOK, SessionStep
  PROVE  TypeOK'
<1> USE DEF calls, request, prompts
<1>0. unlocked \in BOOLEAN /\ epoch \in Nat
  BY DEF TypeOK
<1>1. CASE Unlock
  <2>1. unlocked' \in BOOLEAN
    BY <1>0, <1>1 DEF Unlock
  <2>3. epoch' \in Nat
    BY <1>0, <1>1 DEF Unlock
  <2>2. UNCHANGED <<pc, kind, sig, saw, prot, owner, expired, pending, gate, old, sent, resp,
                    cancelled, after, ops, log, ran>>
    BY <1>1 DEF Unlock
  <2> QED BY <2>1, <2>2, <2>3 DEF TypeOK
<1>5. CASE UnlockEnds
  <2>1. unlocked' \in BOOLEAN
    BY <1>0, <1>5 DEF UnlockEnds
  <2>3. epoch' \in Nat
    BY <1>0, <1>5 DEF UnlockEnds
  <2>2. UNCHANGED <<pc, kind, sig, saw, prot, owner, expired, pending, gate, old, sent, resp,
                    cancelled, after, ops, log, ran>>
    BY <1>5 DEF UnlockEnds
  <2> QED BY <2>1, <2>2, <2>3 DEF TypeOK
<1>6. ASSUME NEW by, LockStart(by) PROVE TypeOK'
  <2>1. unlocked' \in BOOLEAN
    BY <1>0, <1>6 DEF LockStart
  <2>3. epoch' \in Nat
    BY <1>0, <1>6 DEF LockStart
  <2>2. UNCHANGED <<pc, kind, sig, saw, prot, owner, expired, pending, gate, old, sent, resp,
                    cancelled, after, ops, log, ran>>
    BY <1>6 DEF LockStart
  <2> QED BY <2>1, <2>2, <2>3 DEF TypeOK
<1>2. CASE ClearAll
  <2>1. cancelled' \in [Call -> BOOLEAN]
    BY <1>2, InvalidatedTypeOK DEF ClearAll
  <2>2. sent' \in [Call -> BOOLEAN \cup {None}] /\ pending' \in SUBSET Call
    BY <1>2 DEF ClearAll, TypeOK
  <2> QED BY <1>2, <2>1, <2>2 DEF ClearAll, TypeOK
<1>3. CASE ClearOps
  <2>1. cancelled' \in [Call -> BOOLEAN]
    BY <1>3 DEF ClearOps, TypeOK
  <2>2. ops' \in [Kind \X Signature -> Operation \cup {None}]
    BY <1>3 DEF ClearOps, TypeOK
  <2> QED BY <1>3, <2>1, <2>2 DEF ClearOps, TypeOK
<1>4. CASE LockEnds
  BY <1>4 DEF LockEnds, TypeOK
<1> QED BY <1>1, <1>2, <1>3, <1>4, <1>5, <1>6 DEF SessionStep, LockStep

\* What a call is, is kept by the steps of a call.
LEMMA CallPlaceStep ==
  ASSUME TypeOK, PlaceInv, NEW c \in Call,
         \/ \E s \in Signature : Build(c, s)
         \/ \E k \in Kinds \ {"agent"}, s \in Signature : GateStart(c, k, s)
         \/ CallStep(c)
  PROVE  PlaceInv'
<1> USE DEF session, request, prompts, Gated, Goto, PlaceInv
<1>0. pc \in [Call -> Places] /\ kind \in [Call -> Kind \cup {None}] /\ sig \in [Call -> Signature \cup {None}]
      /\ prot \in [Call -> BOOLEAN] /\ owner \in [Call -> Call] /\ ran \in [Call -> Nat \cup {None}]
      /\ None \notin Kind
  BY NoneAssumption DEF TypeOK
<1>1. ASSUME NEW s \in Signature, Build(c, s) PROVE PlaceInv'
  BY <1>0, <1>1 DEF Build, Kind
<1>2. ASSUME NEW k \in Kinds \ {"agent"}, NEW s \in Signature, GateStart(c, k, s) PROVE PlaceInv'
  BY <1>0, <1>2, KindsAssumption DEF GateStart, Kind
<1>3. CASE Authorize(c)
  BY <1>0, <1>3 DEF Authorize, Return, Kind
<1>4. CASE OpsBeginBusy(c)
  BY <1>0, <1>4 DEF OpsBeginBusy, Return, Kind
<1>5. CASE OpsBegin(c)
  BY <1>0, <1>5 DEF OpsBegin, Return, Kind
<1>6. CASE Insert(c)
  BY <1>0, <1>6 DEF Insert, Return, Kind
<1>7. CASE Superseded(c)
  BY <1>0, <1>7 DEF Superseded, Return, Kind
<1>8. CASE Emit(c)
  BY <1>0, <1>8 DEF Emit, Return, Kind
<1>9. CASE Mirror(c)
  BY <1>0, <1>9 DEF Mirror, Return, Kind
<1>10. CASE Decided(c)
  BY <1>0, <1>10 DEF Decided, Return, Kind
<1>11. CASE TimeOut(c)
  BY <1>0, <1>11 DEF TimeOut, Return, Kind
<1>12. CASE Reap(c)
  BY <1>0, <1>12 DEF Reap, Return, Kind
<1>13. CASE RecordAttempted(c)
  BY <1>0, <1>13 DEF RecordAttempted, Return, Kind
<1>14. CASE Execute(c)
  BY <1>0, <1>14 DEF Execute, Return, Kind
<1>15. CASE RecordOutcome(c)
  BY <1>0, <1>15 DEF RecordOutcome, Return, Kind
<1>16. CASE GateEnds(c)
  BY <1>0, <1>16 DEF GateEnds, Return, Kind
<1>17. CASE Consume(c)
  BY <1>0, <1>17 DEF Consume, Return, Kind
<1>18. CASE ConsumeUnlock(c)
  BY <1>0, <1>18 DEF ConsumeUnlock, Return, Kind
<1> QED BY <1>1, <1>2, <1>3, <1>4, <1>5, <1>6, <1>7, <1>8, <1>9, <1>10, <1>11, <1>12, <1>13, <1>14, <1>15, <1>16, <1>17, <1>18 DEF CallStep

\* Answers are given once, whatever a call does.
LEMMA CallAnswerStep ==
  ASSUME TypeOK, PlaceInv, AnswerInv, NEW c \in Call,
         \/ \E s \in Signature : Build(c, s)
         \/ \E k \in Kinds \ {"agent"}, s \in Signature : GateStart(c, k, s)
         \/ CallStep(c)
  PROVE  AnswerInv'
<1> USE DEF session, request, prompts, Gated, Goto, AnswerInv
<1>0. pc \in [Call -> Places] /\ kind \in [Call -> Kind \cup {None}] /\ gate \in [Call -> GateState]
      /\ prot \in [Call -> BOOLEAN] /\ sent \in [Call -> BOOLEAN \cup {None}] /\ pending \in SUBSET Call
      /\ None \notin Kind /\ None \notin BOOLEAN
  BY NoneAssumption DEF TypeOK
<1>00. pc[c] \in {"idle", "built", "gated"} => ~prot[c]
  BY DEF PlaceInv
<1>1. ASSUME NEW s \in Signature, Build(c, s) PROVE AnswerInv'
  BY <1>0, <1>1 DEF Build, Early
<1>2. ASSUME NEW k \in Kinds \ {"agent"}, NEW s \in Signature, GateStart(c, k, s) PROVE AnswerInv'
  BY <1>0, <1>2, <1>00, KindsAssumption DEF GateStart, Early
<1>3. CASE Authorize(c)
  <2>1. PICK p \in BOOLEAN : prot' = [prot EXCEPT ![c] = p]
    BY <1>3 DEF Authorize
  <2>2. pc[c] = "built" /\ pc' = [pc EXCEPT ![c] = "asking"] /\ UNCHANGED <<kind, pending, sent, gate>>
    BY <1>3 DEF Authorize
  <2>3. kind[c] = "agent" /\ ~prot[c] /\ c \notin pending
    BY <2>2 DEF PlaceInv, Early
  <2> QED BY <1>0, <2>1, <2>2, <2>3 DEF Early
<1>4. CASE OpsBeginBusy(c)
  BY <1>0, <1>4 DEF OpsBeginBusy, Early
<1>5. CASE OpsBegin(c)
  <2>1. PICK p \in BOOLEAN : prot' = [prot EXCEPT ![c] = p]
                             /\ pc' = [pc EXCEPT ![c] = IF p THEN "prompting" ELSE "asking"]
    BY <1>5 DEF OpsBegin
  <2>2. pc[c] = "gated" /\ UNCHANGED <<kind, pending, sent, gate>>
    BY <1>5 DEF OpsBegin
  <2>3. ~prot[c] /\ c \notin pending /\ sent[c] = None /\ gate[c] = "Pending"
    BY <2>2 DEF PlaceInv, Early
  <2> QED BY <1>0, <2>1, <2>2, <2>3 DEF Early
<1>6. CASE Insert(c)
  <2>1. pc[c] = "asking" /\ pending' = (pending \ Twins(c)) \cup {c} /\ UNCHANGED <<kind, prot, gate>>
    BY <1>6 DEF Insert
  <2>2. PICK place \in {"emitting", "superseding"} : pc' = [pc EXCEPT ![c] = place]
    BY <1>6 DEF Insert
  <2>3. \A d \in Call : sent'[d] = IF d \in Twins(c) THEN FALSE ELSE sent[d]
    BY <1>6 DEF Insert
  <2>4. c \notin pending /\ c \notin Twins(c) /\ sent[c] = None /\ ~(Gated(c) /\ prot[c])
    BY <2>1 DEF PlaceInv, Early, Twins
  <2>5. (\A d \in Call : d # c /\ d \in pending' => d \in pending /\ d \notin Twins(c))
        /\ Twins(c) \subseteq pending
    BY <2>1 DEF Twins
  <2> QED BY <1>0, <2>1, <2>2, <2>3, <2>4, <2>5 DEF Early
<1>7. CASE Superseded(c)
  BY <1>0, <1>7 DEF Superseded, Early
<1>8. CASE Emit(c)
  BY <1>0, <1>8 DEF Emit, Return, Early
<1>9. CASE Mirror(c)
  BY <1>0, <1>9 DEF Mirror, Early
<1>10. CASE Decided(c)
  BY <1>0, <1>10 DEF Decided, Return, Early
<1>11. CASE TimeOut(c)
  BY <1>0, <1>11 DEF TimeOut, Return, Early
<1>12. CASE Reap(c)
  BY <1>0, <1>12 DEF Reap, Return, Early
<1>13. CASE RecordAttempted(c)
  BY <1>0, <1>13 DEF RecordAttempted, Early
<1>14. CASE Execute(c)
  BY <1>0, <1>14 DEF Execute, Early
<1>15. CASE RecordOutcome(c)
  BY <1>0, <1>15 DEF RecordOutcome, Early
<1>16. CASE GateEnds(c)
  BY <1>0, <1>16 DEF GateEnds, Early
<1>17. CASE Consume(c)
  BY <1>0, <1>17 DEF Consume, Early
<1>18. CASE ConsumeUnlock(c)
  BY <1>0, <1>18 DEF ConsumeUnlock, Early
<1> QED BY <1>1, <1>2, <1>3, <1>4, <1>5, <1>6, <1>7, <1>8, <1>9, <1>10, <1>11, <1>12, <1>13, <1>14, <1>15, <1>16, <1>17, <1>18 DEF CallStep

\* Answers are given once, behind the prompt when it is due, whatever the user
\* and the prompts do.
LEMMA ResponderAnswerStep ==
  ASSUME TypeOK, PlaceInv, AnswerInv, NEW c \in Call,
         ResponderStep(c) \/ UserStep(c) \/ Deadline(c)
  PROVE  AnswerInv'
<1> USE DEF session, request, prompts, Gated, Goto, AnswerInv
<1>0. pc \in [Call -> Places] /\ kind \in [Call -> Kind \cup {None}] /\ gate \in [Call -> GateState]
      /\ prot \in [Call -> BOOLEAN] /\ sent \in [Call -> BOOLEAN \cup {None}] /\ pending \in SUBSET Call
      /\ None \notin Kind /\ None \notin BOOLEAN
  BY NoneAssumption DEF TypeOK
<1>1. CASE RecordRefusal(c)
  BY <1>0, <1>1 DEF RecordRefusal
<1>2. CASE VerifyReturns(c)
  BY <1>0, <1>2 DEF VerifyReturns
<1>3. CASE FinishDiscarded(c)
  BY <1>0, <1>3 DEF FinishDiscarded
<1>4. CASE FinishVerified(c)
  BY <1>0, <1>4 DEF FinishVerified, Answer
<1>5. CASE FinishRetryable(c)
  BY <1>0, <1>5 DEF FinishRetryable
<1>6. CASE FinishDenied(c)
  BY <1>0, <1>6 DEF FinishDenied, Answer
<1>7. CASE Refuse(c)
  <2>1. c \in pending /\ Answer(c, FALSE) /\ UNCHANGED <<pc, kind, prot, gate>>
    BY <1>7 DEF Refuse, Shown
  <2>2. pending' = pending \ {c} /\ sent'[c] = FALSE /\ \A d \in Call : d # c => sent'[d] = sent[d]
    BY <1>0, <2>1 DEF Answer
  <2>3. ~(sent'[c] = TRUE)
    BY <2>2
  <2>4. \A d \in Call : sent'[d] = TRUE => sent[d] = TRUE
    BY <2>2, <2>3
  <2> QED BY <1>0, <2>1, <2>2, <2>4
<1>8. CASE RefuseFromTray(c)
  <2>1. (c \in pending /\ Answer(c, FALSE)) \/ UNCHANGED <<pending, sent>>
    BY <1>8 DEF RefuseFromTray
  <2>2. UNCHANGED <<pc, kind, prot, gate>>
    BY <1>8 DEF RefuseFromTray
  <2>3. pending' \in SUBSET pending
        /\ \A d \in Call : sent'[d] = sent[d] \/ (sent'[d] = FALSE /\ d \in pending \ pending')
    BY <1>0, <1>8, <2>1 DEF Answer
  <2>4. \A d \in Call : sent'[d] = TRUE => sent[d] = TRUE
    BY <2>3
  <2> QED BY <1>0, <2>2, <2>3, <2>4
<1>9. CASE RespondLate(c)
  <2>1. c \in pending /\ Answer(c, FALSE) /\ UNCHANGED <<pc, kind, prot, gate>>
    BY <1>9 DEF RespondLate, Shown
  <2>2. pending' = pending \ {c} /\ sent'[c] = FALSE /\ \A d \in Call : d # c => sent'[d] = sent[d]
    BY <1>0, <2>1 DEF Answer
  <2>3. ~(sent'[c] = TRUE)
    BY <2>2
  <2>4. \A d \in Call : sent'[d] = TRUE => sent[d] = TRUE
    BY <2>2, <2>3
  <2> QED BY <1>0, <2>1, <2>2, <2>4
<1>10. CASE RespondClick(c)
  BY <1>0, <1>10 DEF RespondClick, Answer, Shown, ClickSuffices
<1>11. CASE RespondBegin(c)
  BY <1>0, <1>11 DEF RespondBegin, Shown
<1>12. CASE Deadline(c)
  BY <1>0, <1>12 DEF Deadline
<1> QED BY <1>1, <1>2, <1>3, <1>4, <1>5, <1>6, <1>7, <1>8, <1>9, <1>10, <1>11, <1>12 DEF ResponderStep, UserStep

\* What the session leaves alone: the calls and their gates, and outside the
\* clearing steps of the lock path everything about their requests.
LEMMA SessionFrame ==
  ASSUME SessionStep
  PROVE  /\ UNCHANGED <<pc, kind, sig, saw, prot, owner, expired, old, resp, after, log, lost, ran, gate>>
         /\ ClearAll \/ ClearOps \/ UNCHANGED <<pending, sent, cancelled, ops>>
<1> USE DEF calls, request
<1>1. CASE Unlock
  BY <1>1 DEF Unlock
<1>2. CASE UnlockEnds
  BY <1>2 DEF UnlockEnds
<1>3. CASE ClearAll
  BY <1>3 DEF ClearAll
<1>4. CASE ClearOps
  BY <1>4 DEF ClearOps
<1>5. CASE LockEnds
  BY <1>5 DEF LockEnds
<1>6. ASSUME NEW by, LockStart(by)
      PROVE  /\ UNCHANGED <<pc, kind, sig, saw, prot, owner, expired, old, resp, after, log, lost, ran, gate>>
             /\ UNCHANGED <<pending, sent, cancelled, ops>>
  BY <1>6 DEF LockStart
<1> QED BY <1>1, <1>2, <1>3, <1>4, <1>5, <1>6 DEF SessionStep, LockStep

\* clear_all answers what is pending, and nothing else of the session answers.
LEMMA SessionAnswerStep ==
  ASSUME TypeOK, AnswerInv, SessionStep
  PROVE  AnswerInv'
<1>0. UNCHANGED <<pc, kind, prot, gate>>
  BY SessionFrame
<1>1. CASE ClearAll
  <2>1. pending' = {} /\ \A d \in Call : sent'[d] = IF d \in pending THEN FALSE ELSE sent[d]
    BY <1>1 DEF ClearAll
  <2>2. \A d \in Call : sent'[d] = TRUE => sent[d] = TRUE
    BY <2>1
  <2> QED BY <1>0, <2>1, <2>2 DEF AnswerInv, Gated
<1>2. CASE ClearOps
  BY <1>0, <1>2 DEF ClearOps, AnswerInv, Gated
<1>3. CASE UNCHANGED <<pending, sent>>
  BY <1>0, <1>3 DEF AnswerInv, Gated
<1> QED BY <1>1, <1>2, <1>3, SessionFrame

\* Prompts keep their request, or are cancelled, whatever a call does.
LEMMA CallPromptStep ==
  ASSUME TypeOK, AnswerInv, PromptInv, NEW c \in Call,
         \/ \E s \in Signature : Build(c, s)
         \/ \E k \in Kinds \ {"agent"}, s \in Signature : GateStart(c, k, s)
         \/ CallStep(c)
  PROVE  PromptInv'
<1> USE DEF session, request, prompts, Goto, PromptInv
<1>0. pc \in [Call -> Places] /\ gate \in [Call -> GateState] /\ pending \in SUBSET Call
      /\ resp \in [Call -> {"none", "verifying", "Verified", "Retryable", "Denied"}]
      /\ cancelled \in [Call -> BOOLEAN]
  BY DEF TypeOK
<1>00. (\A d \in pending : pc[d] \notin Early) /\ \A d \in Call : ~prot[d] => gate[d] = "Pending"
  BY <1>0 DEF AnswerInv
<1>1. ASSUME NEW s \in Signature, Build(c, s) PROVE PromptInv'
  BY <1>0, <1>1 DEF Build, Early
<1>2. ASSUME NEW k \in Kinds \ {"agent"}, NEW s \in Signature, GateStart(c, k, s) PROVE PromptInv'
  BY <1>0, <1>2, KindsAssumption DEF GateStart, Early
<1>3. CASE Authorize(c)
  BY <1>0, <1>3 DEF Authorize, Early
<1>4. CASE OpsBeginBusy(c)
  BY <1>0, <1>4 DEF OpsBeginBusy, Early
<1>5. CASE OpsBegin(c)
  <2>1. PICK p \in BOOLEAN : resp' = [resp EXCEPT ![c] = IF p THEN "verifying" ELSE "none"]
                             /\ pc' = [pc EXCEPT ![c] = IF p THEN "prompting" ELSE "asking"]
    BY <1>5 DEF OpsBegin
  <2>2. pc[c] = "gated" /\ UNCHANGED <<pending, cancelled, gate>>
    BY <1>5 DEF OpsBegin
  <2> QED BY <1>0, <2>1, <2>2 DEF Early
<1>6. CASE Insert(c)
  <2>1. Invalidated(Twins(c)) /\ pending' = (pending \ Twins(c)) \cup {c} /\ UNCHANGED <<gate, resp>>
        /\ pc[c] = "asking" /\ Twins(c) \subseteq pending
    BY <1>6 DEF Insert, Twins
  <2>2. PICK place \in {"emitting", "superseding"} : pc' = [pc EXCEPT ![c] = place]
    BY <1>6 DEF Insert
  <2> QED BY <1>0, <1>00, <2>1, <2>2 DEF Invalidated, Early
<1>7. CASE Superseded(c)
  BY <1>0, <1>7 DEF Superseded, Early
<1>8. CASE Emit(c)
  BY <1>0, <1>8 DEF Emit, Return, Early
<1>9. CASE Mirror(c)
  BY <1>0, <1>9 DEF Mirror, Early
<1>10. CASE Decided(c)
  BY <1>0, <1>10 DEF Decided, Return, Early
<1>11. CASE TimeOut(c)
  <2>1. Invalidated(pending \cap {c}) /\ pending' = pending \ {c} /\ UNCHANGED <<gate, resp>>
        /\ pc[c] = "waiting"
    BY <1>11 DEF TimeOut
  <2>2. PICK place \in Places \ (Early \cup {"prompting"}) : pc' = [pc EXCEPT ![c] = place]
    BY <1>11 DEF TimeOut, Return, Places, Early
  <2> QED BY <1>0, <1>00, <2>1, <2>2 DEF Invalidated, Early
<1>12. CASE Reap(c)
  BY <1>0, <1>12 DEF Reap, Return, Early
<1>13. CASE RecordAttempted(c)
  BY <1>0, <1>13 DEF RecordAttempted, Early
<1>14. CASE Execute(c)
  BY <1>0, <1>14 DEF Execute, Early
<1>15. CASE RecordOutcome(c)
  BY <1>0, <1>15 DEF RecordOutcome, Early
<1>16. CASE GateEnds(c)
  BY <1>0, <1>16 DEF GateEnds, Early
<1>17. CASE Consume(c)
  BY <1>0, <1>17 DEF Consume, Early
<1>18. CASE ConsumeUnlock(c)
  BY <1>0, <1>18 DEF ConsumeUnlock, Early
<1> QED BY <1>1, <1>2, <1>3, <1>4, <1>5, <1>6, <1>7, <1>8, <1>9, <1>10, <1>11, <1>12, <1>13, <1>14, <1>15, <1>16, <1>17, <1>18 DEF CallStep

\* Prompts keep their request, or are cancelled, whatever the user and the
\* prompts do.
LEMMA ResponderPromptStep ==
  ASSUME TypeOK, AnswerInv, PromptInv, NEW c \in Call,
         ResponderStep(c) \/ UserStep(c) \/ Deadline(c)
  PROVE  PromptInv'
<1> USE DEF session, request, prompts, Goto, PromptInv
<1>0. pc \in [Call -> Places] /\ gate \in [Call -> GateState] /\ pending \in SUBSET Call
      /\ resp \in [Call -> {"none", "verifying", "Verified", "Retryable", "Denied"}]
      /\ cancelled \in [Call -> BOOLEAN]
  BY DEF TypeOK
<1>00. (\A d \in pending : pc[d] \notin Early) /\ \A d \in Call : ~prot[d] => gate[d] = "Pending"
  BY <1>0 DEF AnswerInv
<1>1. CASE RecordRefusal(c)
  BY <1>0, <1>1 DEF RecordRefusal, Early
<1>2. CASE VerifyReturns(c)
  BY <1>0, <1>2 DEF VerifyReturns, Early
<1>3. CASE FinishDiscarded(c)
  BY <1>0, <1>3 DEF FinishDiscarded, Early
<1>4. CASE FinishVerified(c)
  BY <1>0, <1>4 DEF FinishVerified, Answer, Early
<1>5. CASE FinishRetryable(c)
  BY <1>0, <1>5 DEF FinishRetryable, Early
<1>6. CASE FinishDenied(c)
  BY <1>0, <1>6 DEF FinishDenied, Answer, Early
<1>7. CASE Refuse(c)
  <2>1. Invalidated({c}) /\ pending' = pending \ {c} /\ UNCHANGED <<pc, gate, resp>> /\ c \in pending
    BY <1>7 DEF Refuse, Answer, Shown
  <2> QED BY <1>0, <1>00, <2>1 DEF Invalidated, Early
<1>8. CASE RefuseFromTray(c)
  <2>1. UNCHANGED <<pc, gate, resp>>
        /\ \/ c \in pending /\ Invalidated({c}) /\ pending' = pending \ {c}
           \/ UNCHANGED <<cancelled, pending>>
    BY <1>8 DEF RefuseFromTray, Answer
  <2> QED BY <1>0, <1>00, <2>1 DEF Invalidated, Early
<1>9. CASE RespondLate(c)
  <2>1. Invalidated({c}) /\ pending' = pending \ {c} /\ UNCHANGED <<pc, gate, resp>> /\ c \in pending
    BY <1>9 DEF RespondLate, Answer, Shown
  <2> QED BY <1>0, <1>00, <2>1 DEF Invalidated, Early
<1>10. CASE RespondClick(c)
  <2>1. pending' = pending \ {c} /\ gate[c] = "Pending" /\ UNCHANGED <<pc, gate, resp, cancelled>>
    BY <1>00, <1>10 DEF RespondClick, Answer, ClickSuffices
  <2> QED BY <1>0, <2>1
<1>11. CASE RespondBegin(c)
  <2>1. c \in pending /\ gate' = [gate EXCEPT ![c] = "Verifying"]
        /\ resp' = [resp EXCEPT ![c] = "verifying"] /\ UNCHANGED <<pc, cancelled, pending>>
    BY <1>11 DEF RespondBegin, Shown
  <2>2. pc[c] \notin Early
    BY <1>00, <2>1
  <2> QED BY <1>0, <2>1, <2>2
<1>12. CASE Deadline(c)
  BY <1>0, <1>12 DEF Deadline, Early
<1> QED BY <1>1, <1>2, <1>3, <1>4, <1>5, <1>6, <1>7, <1>8, <1>9, <1>10, <1>11, <1>12 DEF ResponderStep, UserStep

\* Prompts keep their request, or are cancelled, whatever the lock path does.
LEMMA SessionPromptStep ==
  ASSUME TypeOK, AnswerInv, PromptInv, OpsHaveOwners, SessionStep
  PROVE  PromptInv'
<1>0. UNCHANGED <<pc, resp, gate>>
  BY SessionFrame
<1>1. CASE ClearAll
  <2>1. pending' = {} /\ Invalidated(pending)
    BY <1>1 DEF ClearAll
  <2>2. \A d \in pending : pc[d] \notin Early
    BY DEF AnswerInv, TypeOK
  <2> QED BY <1>0, <2>1, <2>2 DEF PromptInv, Invalidated, Early, TypeOK
<1>2. CASE ClearOps
  <2>1. \A key \in DOMAIN ops : ops[key] # None /\ ops[key].attempt # None => UnderWay(ops[key].attempt)
    BY DEF OpsHaveOwners
  <2>2. \A d \in Call : pc[d] \in {"idle", "built", "gated"} =>
          ~\E key \in DOMAIN ops : ops[key] # None /\ ops[key].attempt = d
    BY <2>1, NoneAssumption DEF UnderWay
  <2>3. UNCHANGED pending /\ \A d \in Call : cancelled'[d] <=>
          (cancelled[d] \/ \E key \in DOMAIN ops : ops[key] # None /\ ops[key].attempt = d)
    BY <1>2 DEF ClearOps, TypeOK
  <2> QED BY <1>0, <2>2, <2>3 DEF PromptInv
<1>3. CASE UNCHANGED <<pending, cancelled>>
  BY <1>0, <1>3 DEF PromptInv
<1> QED BY <1>1, <1>2, <1>3, SessionFrame

\* What may be executed has its consent: the steps of a call.
LEMMA CallConsentStep ==
  ASSUME TypeOK, PlaceInv, AnswerInv, ConsentInv, NEW c \in Call,
         \/ \E s \in Signature : Build(c, s)
         \/ \E k \in Kinds \ {"agent"}, s \in Signature : GateStart(c, k, s)
         \/ CallStep(c)
  PROVE  ConsentInv'
<1> USE DEF session, request, prompts, Goto, ConsentInv, Gated
<1>0. pc \in [Call -> Places] /\ pending \in SUBSET Call /\ sent \in [Call -> BOOLEAN \cup {None}]
      /\ resp \in [Call -> {"none", "verifying", "Verified", "Retryable", "Denied"}]
      /\ kind \in [Call -> Kind \cup {None}] /\ prot \in [Call -> BOOLEAN]
      /\ ran \in [Call -> Nat \cup {None}] /\ epoch \in Nat /\ None \notin BOOLEAN \cup Nat
  BY NoneAssumption DEF TypeOK
<1>00. /\ \A d \in pending : sent[d] = None /\ ~(Gated(d) /\ prot[d])
       /\ \A d \in Call : gate[d] = "Verifying" => ~Gated(d)
       /\ \A d \in Call : ran[d] # None => pc[d] = "done"
       /\ \A d \in Call : Gated(d) /\ prot[d] => pc[d] \in {"gated", "prompting", "passed", "refused", "done"}
       /\ \A d \in Call : pc[d] = "prompting" => Gated(d) /\ prot[d]
       /\ \A d \in Call : pc[d] \in {"built", "mirroring", "authorized", "attempted"} => kind[d] = "agent"
  BY <1>0 DEF AnswerInv, PlaceInv
<1>1. ASSUME NEW s \in Signature, Build(c, s) PROVE ConsentInv'
  BY <1>0, <1>00, <1>1 DEF Build
<1>2. ASSUME NEW k \in Kinds \ {"agent"}, NEW s \in Signature, GateStart(c, k, s) PROVE ConsentInv'
  BY <1>0, <1>00, <1>2, KindsAssumption DEF GateStart
<1>3. CASE Authorize(c)
  BY <1>0, <1>00, <1>3 DEF Authorize
<1>4. CASE OpsBeginBusy(c)
  BY <1>0, <1>00, <1>4 DEF OpsBeginBusy
<1>5. CASE OpsBegin(c)
  <2>1. pc[c] = "gated" /\ UNCHANGED <<sent, kind, ran>>
        /\ \A d \in Call : d # c => pc'[d] = pc[d] /\ prot'[d] = prot[d] /\ resp'[d] = resp[d]
    BY <1>0, <1>00, <1>5 DEF OpsBegin
  <2>2. pc'[c] \in {"prompting", "asking"}
    BY <1>0, <1>00, <1>5 DEF OpsBegin
  <2> QED BY <1>0, <1>00, <2>1, <2>2
<1>6. CASE Insert(c)
  <2>1. pc[c] = "asking" /\ Twins(c) \subseteq pending /\ UNCHANGED <<kind, prot, resp, ran>>
    BY <1>6 DEF Insert, Twins
  <2>2. PICK place \in {"emitting", "superseding"} : pc' = [pc EXCEPT ![c] = place]
    BY <1>6 DEF Insert
  <2>3. \A d \in Call : d \notin Twins(c) => sent'[d] = sent[d]
    BY <1>6 DEF Insert
  <2>4. \A d \in Call : d \in Twins(c) => ~(sent[d] = TRUE)
    BY <1>0, <1>00, <2>1
  <2> QED BY <1>0, <1>00, <2>1, <2>2, <2>3, <2>4
<1>7. CASE Superseded(c)
  BY <1>0, <1>00, <1>7 DEF Superseded
<1>8. CASE Emit(c)
  BY <1>0, <1>00, <1>8 DEF Emit, Return
<1>9. CASE Mirror(c)
  BY <1>0, <1>00, <1>9 DEF Mirror
<1>10. CASE Decided(c)
  BY <1>0, <1>00, <1>10 DEF Decided, Return
<1>11. CASE TimeOut(c)
  BY <1>0, <1>00, <1>11 DEF TimeOut, Return
<1>12. CASE Reap(c)
  BY <1>0, <1>00, <1>12 DEF Reap, Return
<1>13. CASE RecordAttempted(c)
  BY <1>0, <1>00, <1>13 DEF RecordAttempted
<1>14. CASE Execute(c)
  BY <1>0, <1>00, <1>14 DEF Execute
<1>15. CASE RecordOutcome(c)
  BY <1>0, <1>00, <1>15 DEF RecordOutcome
<1>16. CASE GateEnds(c)
  BY <1>0, <1>00, <1>16 DEF GateEnds
<1>17. CASE Consume(c)
  BY <1>0, <1>00, <1>17 DEF Consume
<1>18. CASE ConsumeUnlock(c)
  BY <1>0, <1>00, <1>18 DEF ConsumeUnlock
<1> QED BY <1>1, <1>2, <1>3, <1>4, <1>5, <1>6, <1>7, <1>8, <1>9, <1>10, <1>11, <1>12, <1>13, <1>14, <1>15, <1>16, <1>17, <1>18 DEF CallStep

\* What may be executed has its consent: the user and the prompts.
LEMMA ResponderConsentStep ==
  ASSUME TypeOK, PlaceInv, AnswerInv, ConsentInv, NEW c \in Call,
         ResponderStep(c) \/ UserStep(c) \/ Deadline(c)
  PROVE  ConsentInv'
<1> USE DEF session, request, prompts, Goto, ConsentInv, Gated
<1>0. pc \in [Call -> Places] /\ pending \in SUBSET Call /\ sent \in [Call -> BOOLEAN \cup {None}]
      /\ resp \in [Call -> {"none", "verifying", "Verified", "Retryable", "Denied"}]
      /\ kind \in [Call -> Kind \cup {None}] /\ prot \in [Call -> BOOLEAN]
      /\ ran \in [Call -> Nat \cup {None}] /\ epoch \in Nat /\ None \notin BOOLEAN \cup Nat
  BY NoneAssumption DEF TypeOK
<1>00. /\ \A d \in pending : sent[d] = None /\ ~(Gated(d) /\ prot[d])
       /\ \A d \in Call : gate[d] = "Verifying" => ~Gated(d)
       /\ \A d \in Call : ran[d] # None => pc[d] = "done"
       /\ \A d \in Call : Gated(d) /\ prot[d] => pc[d] \in {"gated", "prompting", "passed", "refused", "done"}
       /\ \A d \in Call : pc[d] = "prompting" => Gated(d) /\ prot[d]
       /\ \A d \in Call : pc[d] \in {"built", "mirroring", "authorized", "attempted"} => kind[d] = "agent"
  BY <1>0 DEF AnswerInv, PlaceInv
<1>1. CASE RecordRefusal(c)
  BY <1>0, <1>00, <1>1 DEF RecordRefusal
<1>2. CASE VerifyReturns(c)
  BY <1>0, <1>00, <1>2 DEF VerifyReturns
<1>3. CASE FinishDiscarded(c)
  BY <1>0, <1>00, <1>3 DEF FinishDiscarded
<1>4. CASE FinishVerified(c)
  <2>1. c \in pending /\ gate[c] = "Verifying" /\ UNCHANGED <<kind, prot, ran, pc>>
        /\ \A d \in Call : d # c => sent'[d] = sent[d] /\ resp'[d] = resp[d]
    BY <1>0, <1>00, <1>4 DEF FinishVerified, Answer
  <2>2. ~(sent[c] = TRUE) /\ ~Gated(c)
    BY <1>0, <1>00, <2>1
  <2> QED BY <1>0, <1>00, <2>1, <2>2
<1>5. CASE FinishRetryable(c)
  BY <1>0, <1>00, <1>5 DEF FinishRetryable
<1>6. CASE FinishDenied(c)
  <2>1. c \in pending /\ gate[c] = "Verifying" /\ UNCHANGED <<kind, prot, ran, pc>>
        /\ \A d \in Call : d # c => sent'[d] = sent[d] /\ resp'[d] = resp[d]
    BY <1>0, <1>00, <1>6 DEF FinishDenied, Answer
  <2>2. ~(sent[c] = TRUE) /\ ~Gated(c)
    BY <1>0, <1>00, <2>1
  <2> QED BY <1>0, <1>00, <2>1, <2>2
<1>7. CASE Refuse(c)
  <2>1. c \in pending /\ UNCHANGED <<kind, prot, resp, ran, pc>> /\ \A d \in Call : d # c => sent'[d] = sent[d]
    BY <1>0, <1>00, <1>7 DEF Refuse, Answer, Shown
  <2>2. ~(sent[c] = TRUE)
    BY <1>0, <1>00, <2>1
  <2> QED BY <1>0, <1>00, <2>1, <2>2
<1>8. CASE RefuseFromTray(c)
  <2>1. UNCHANGED <<kind, prot, resp, ran, pc>>
        /\ \A d \in Call : sent'[d] = sent[d] \/ (d = c /\ c \in pending)
    BY <1>0, <1>00, <1>8 DEF RefuseFromTray, Answer
  <2>2. c \in pending => ~(sent[c] = TRUE)
    BY <1>0, <1>00, <2>1
  <2> QED BY <1>0, <1>00, <2>1, <2>2
<1>9. CASE RespondLate(c)
  <2>1. c \in pending /\ UNCHANGED <<kind, prot, resp, ran, pc>> /\ \A d \in Call : d # c => sent'[d] = sent[d]
    BY <1>0, <1>00, <1>9 DEF RespondLate, Answer, Shown
  <2>2. ~(sent[c] = TRUE)
    BY <1>0, <1>00, <2>1
  <2> QED BY <1>0, <1>00, <2>1, <2>2
<1>10. CASE RespondClick(c)
  <2>1. c \in pending /\ UNCHANGED <<kind, prot, resp, ran, pc>> /\ \A d \in Call : d # c => sent'[d] = sent[d]
    BY <1>0, <1>00, <1>10 DEF RespondClick, Answer, Shown
  <2>2. ~(sent[c] = TRUE)
    BY <1>0, <1>00, <2>1
  <2> QED BY <1>0, <1>00, <2>1, <2>2
<1>11. CASE RespondBegin(c)
  BY <1>0, <1>00, <1>11 DEF RespondBegin, Shown
<1>12. CASE Deadline(c)
  BY <1>0, <1>00, <1>12 DEF Deadline
<1> QED BY <1>1, <1>2, <1>3, <1>4, <1>5, <1>6, <1>7, <1>8, <1>9, <1>10, <1>11, <1>12 DEF ResponderStep, UserStep

\* What may be executed has its consent: the session.
LEMMA SessionConsentStep ==
  ASSUME TypeOK, AnswerInv, ConsentInv, SessionStep
  PROVE  ConsentInv'
<1>0. UNCHANGED <<pc, kind, prot, ran, resp>>
  BY SessionFrame
<1>1. CASE ClearAll
  <2>1. \A d \in Call : d \notin pending => sent'[d] = sent[d]
    BY <1>1 DEF ClearAll
  <2>2. \A d \in Call : d \in pending => ~(sent[d] = TRUE)
    BY NoneAssumption DEF AnswerInv
  <2> QED BY <1>0, <2>1, <2>2 DEF ConsentInv, Gated
<1>2. CASE UNCHANGED sent
  BY <1>0, <1>2 DEF ConsentInv, Gated
<1> QED BY <1>1, <1>2, SessionFrame DEF ClearOps

\* A gated operation runs in its epoch: the steps of a call.
LEMMA CallEpochStep ==
  ASSUME TypeOK, PlaceInv, EpochInv, NEW c \in Call,
         \/ \E s \in Signature : Build(c, s)
         \/ \E k \in Kinds \ {"agent"}, s \in Signature : GateStart(c, k, s)
         \/ CallStep(c)
  PROVE  EpochInv'
<1> USE DEF session, request, prompts, Goto, EpochInv, Gated
<1>0. ran \in [Call -> Nat \cup {None}] /\ epoch \in Nat /\ saw \in [Call -> Nat]
      /\ kind \in [Call -> Kind \cup {None}] /\ None \notin Nat
  BY NoneAssumption DEF TypeOK
<1>00. /\ \A d \in Call : ran[d] # None => pc[d] = "done"
       /\ \A d \in Call : pc[d] \in {"built", "mirroring", "authorized", "attempted"} => kind[d] = "agent"
  BY <1>0 DEF PlaceInv
<1>1. ASSUME NEW s \in Signature, Build(c, s) PROVE EpochInv'
  BY <1>0, <1>00, <1>1 DEF Build
<1>2. ASSUME NEW k \in Kinds \ {"agent"}, NEW s \in Signature, GateStart(c, k, s) PROVE EpochInv'
  BY <1>0, <1>00, <1>2, KindsAssumption DEF GateStart
<1>3. CASE Authorize(c)
  BY <1>0, <1>00, <1>3 DEF Authorize
<1>4. CASE OpsBeginBusy(c)
  BY <1>0, <1>00, <1>4 DEF OpsBeginBusy
<1>5. CASE OpsBegin(c)
  BY <1>0, <1>00, <1>5 DEF OpsBegin
<1>6. CASE Insert(c)
  BY <1>0, <1>00, <1>6 DEF Insert
<1>7. CASE Superseded(c)
  BY <1>0, <1>00, <1>7 DEF Superseded
<1>8. CASE Emit(c)
  BY <1>0, <1>00, <1>8 DEF Emit
<1>9. CASE Mirror(c)
  BY <1>0, <1>00, <1>9 DEF Mirror
<1>10. CASE Decided(c)
  BY <1>0, <1>00, <1>10 DEF Decided
<1>11. CASE TimeOut(c)
  BY <1>0, <1>00, <1>11 DEF TimeOut
<1>12. CASE Reap(c)
  BY <1>0, <1>00, <1>12 DEF Reap
<1>13. CASE RecordAttempted(c)
  BY <1>0, <1>00, <1>13 DEF RecordAttempted
<1>14. CASE Execute(c)
  BY <1>0, <1>00, <1>14 DEF Execute
<1>15. CASE RecordOutcome(c)
  BY <1>0, <1>00, <1>15 DEF RecordOutcome
<1>16. CASE GateEnds(c)
  BY <1>0, <1>00, <1>16 DEF GateEnds
<1>17. CASE Consume(c)
  BY <1>0, <1>00, <1>17 DEF Consume, PassApplies
<1>18. CASE ConsumeUnlock(c)
  BY <1>0, <1>00, <1>18 DEF ConsumeUnlock, PassApplies
<1> QED BY <1>1, <1>2, <1>3, <1>4, <1>5, <1>6, <1>7, <1>8, <1>9, <1>10, <1>11, <1>12, <1>13, <1>14, <1>15, <1>16, <1>17, <1>18 DEF CallStep

\* The places of a call that has left the table, or may find its entry there.
Settled == {"mirroring", "waiting", "prompting", "consented", "denied", "passed", "refused",
            "authorized", "attempted", "done"}

\* A call that neither enters nor leaves the hands of a recorder.
LEMMA TicketMove ==
  ASSUME TypeOK, TicketInv, NEW c \in Call, NEW place \in Settled, Goto(c, place),
         pc[c] # "superseding", UNCHANGED <<pending, after, old>>
  PROVE  TicketInv'
<1>0. pc \in [Call -> Places] /\ pending \in SUBSET Call /\ old \in [Call -> Call \cup {None}]
  BY DEF TypeOK
<1>1. \A d \in Call : pc'[d] = IF d = c THEN place ELSE pc[d]
  BY <1>0 DEF Goto
<1>2. place \notin Early \cup {"reaping", "superseding"}
  BY DEF Early, Settled
<1> QED BY <1>0, <1>1, <1>2 DEF TicketInv


\* One party records the end of a request: the steps of a call.
LEMMA CallTicketStep ==
  ASSUME TypeOK, TicketInv, NEW c \in Call,
         \/ \E s \in Signature : Build(c, s)
         \/ \E k \in Kinds \ {"agent"}, s \in Signature : GateStart(c, k, s)
         \/ CallStep(c)
  PROVE  TicketInv'
<1> USE DEF session, request, prompts, Goto, TicketInv
<1>0. pc \in [Call -> Places] /\ pending \in SUBSET Call /\ old \in [Call -> Call \cup {None}]
      /\ after \in [Call -> {"none", "record", "record, drop"}] /\ None \notin Call
  BY NoneAssumption DEF TypeOK
<1>1. ASSUME NEW s \in Signature, Build(c, s) PROVE TicketInv'
  BY <1>0, <1>1 DEF Build, Early
<1>2. ASSUME NEW k \in Kinds \ {"agent"}, NEW s \in Signature, GateStart(c, k, s) PROVE TicketInv'
  BY ZenonT(40), <1>0, <1>2, KindsAssumption DEF GateStart, Early
<1>3. CASE Authorize(c)
  BY <1>0, <1>3 DEF Authorize, Early
<1>4. CASE OpsBeginBusy(c)
  <2>1. pc[c] # "superseding" /\ UNCHANGED <<pending, after, old>>
    BY <1>4 DEF OpsBeginBusy
  <2>2. PICK place \in Settled : Goto(c, place)
    BY <1>4 DEF OpsBeginBusy, Settled
  <2> QED BY <2>1, <2>2, TicketMove
<1>5. CASE OpsBegin(c)
  <2>1. pc[c] = "gated" /\ UNCHANGED <<pending, after, old>>
    BY <1>5 DEF OpsBegin
  <2>2. PICK place \in {"prompting", "asking"} : pc' = [pc EXCEPT ![c] = place]
    BY <1>5 DEF OpsBegin
  <2> QED BY <1>0, <2>1, <2>2 DEF Early
<1>6. CASE Insert(c)
  <2>1. pc[c] = "asking" /\ pending' = (pending \ Twins(c)) \cup {c} /\ Twins(c) \subseteq pending
        /\ UNCHANGED after
    BY <1>6 DEF Insert, Twins
  <2>2. c \notin pending /\ after[c] = "none" /\ \A e \in Call : old[e] # c
    BY <1>0, <2>1 DEF Early
  <2>3. CASE Twins(c) = {} /\ Goto(c, "emitting") /\ UNCHANGED old
    <3>1. pending' = pending \cup {c}
      BY <2>1, <2>3
    <3>2. \A d \in Call : pc'[d] = IF d = c THEN "emitting" ELSE pc[d]
      BY <1>0, <2>3
    <3>3. \A e \in Call : old[e] # None => pc'[old[e]] = pc[old[e]] /\ old[e] \notin pending'
      <4>1. ASSUME NEW e \in Call, old[e] # None PROVE old[e] \in Call /\ old[e] # c /\ old[e] \notin pending
        BY <1>0, <2>2, <4>1
      <4> QED BY <3>1, <3>2, <4>1
    <3>4. \A e \in Call : old[e] # None <=> pc'[e] = "superseding"
      BY <2>1, <3>2
    <3>5. /\ \A e \in Call : pc'[e] \in Early => e \notin pending' /\ after'[e] = "none"
          /\ \A e \in pending' : after'[e] = "none" /\ pc'[e] # "reaping"
          /\ \A e \in Call : after'[e] # "none" => pc'[e] # "reaping"
      BY <1>0, <2>1, <2>2, <3>1, <3>2 DEF Early
    <3> QED BY <2>1, <2>3, <3>3, <3>4, <3>5
  <2>4. ASSUME NEW d \in Twins(c), old' = [old EXCEPT ![c] = d], Goto(c, "superseding") PROVE TicketInv'
    <3>1. d \in Call /\ d # None /\ d # c /\ d \in pending /\ d \notin pending'
      BY ZenonT(40), <1>0, <2>1, <2>2
    <3>2. \A e \in Call : old[e] # d
      BY <1>0, <3>1
    <3>3. \A e \in Call : pc'[e] = (IF e = c THEN "superseding" ELSE pc[e])
                          /\ old'[e] = (IF e = c THEN d ELSE old[e])
      BY <1>0, <2>4
    <3>4. \A e \in pending' : e = c \/ e \in pending
      BY <2>1
    <3>5. old[c] = None
      BY <2>1
    <3>6. \A e \in Call : old'[e] # None <=> pc'[e] = "superseding"
      BY <3>1, <3>3
    <3>10. \A e, f \in Call : old'[e] # None /\ old'[e] = old'[f] => e = f
      BY <3>2, <3>3
    <3>7. after[d] = "none" /\ pc[d] \notin Early \cup {"reaping"}
      BY <1>0, <3>1
    <3>8. \A e \in Call : old'[e] # None =>
            old'[e] \notin pending' /\ after'[old'[e]] = "none" /\ pc'[old'[e]] \notin Early \cup {"reaping"}
      <4>1. ASSUME NEW e \in Call, e # c, old[e] # None
            PROVE  old[e] \notin pending' /\ after[old[e]] = "none" /\ pc'[old[e]] \notin Early \cup {"reaping"}
        <5>1. old[e] \in Call /\ old[e] # c
          BY <1>0, <2>2, <4>1
        <5> QED BY <3>3, <3>4, <4>1, <5>1
      <4>2. old'[c] = d /\ pc'[d] = pc[d]
        BY <3>1, <3>3
      <4> QED BY <2>1, <3>1, <3>3, <3>7, <4>1, <4>2
    <3>9. /\ \A e \in Call : pc'[e] \in Early => e \notin pending' /\ after'[e] = "none"
          /\ \A e \in pending' : after'[e] = "none" /\ pc'[e] # "reaping"
          /\ \A e \in Call : after'[e] # "none" => pc'[e] # "reaping"
      BY <1>0, <2>1, <2>2, <3>3, <3>4 DEF Early
    <3> QED BY <3>6, <3>8, <3>9, <3>10
  <2> QED BY <1>6, <2>3, <2>4 DEF Insert
<1>7. CASE Superseded(c)
  BY ZenonT(40), <1>0, <1>7 DEF Superseded, Early
<1>8. CASE Emit(c)
  <2>1. pc[c] # "superseding" /\ UNCHANGED <<pending, after, old>>
    BY <1>8 DEF Emit
  <2>2. PICK place \in Settled : Goto(c, place)
    BY <1>8 DEF Emit, Settled, Return
  <2> QED BY <2>1, <2>2, TicketMove
<1>9. CASE Mirror(c)
  <2>1. pc[c] # "superseding" /\ UNCHANGED <<pending, after, old>>
    BY <1>9 DEF Mirror
  <2>2. PICK place \in Settled : Goto(c, place)
    BY <1>9 DEF Mirror, Settled
  <2> QED BY <2>1, <2>2, TicketMove
<1>10. CASE Decided(c)
  <2>1. pc[c] # "superseding" /\ UNCHANGED <<pending, after, old>>
    BY <1>10 DEF Decided
  <2>2. PICK place \in Settled : Goto(c, place)
    BY <1>10 DEF Decided, Settled, Return
  <2> QED BY <2>1, <2>2, TicketMove
<1>11. CASE TimeOut(c)
  <2>0. UNCHANGED <<after, old>> /\ pc[c] = "waiting" /\ pending' = pending \ {c}
    BY <1>11 DEF TimeOut
  <2>1. CASE c \in pending /\ Goto(c, "reaping")
    <3>1. \A e \in Call : old[e] # c
      BY <1>0, <2>1
    <3> QED BY ZenonT(40), <1>0, <2>0, <2>1, <3>1 DEF Early
  <2>2. CASE c \notin pending
    <3>1. PICK place \in Settled : Goto(c, place)
      BY <1>11, <2>2 DEF TimeOut, Return, Settled
    <3>2. pending' = pending
      BY <2>0, <2>2
    <3> QED BY <2>0, <3>1, <3>2, TicketMove
  <2> QED BY <1>11, <2>1, <2>2 DEF TimeOut
<1>12. CASE Reap(c)
  BY ZenonT(40), <1>0, <1>12 DEF Reap, Return, Early
<1>13. CASE RecordAttempted(c)
  <2>1. pc[c] # "superseding" /\ UNCHANGED <<pending, after, old>>
    BY <1>13 DEF RecordAttempted
  <2>2. PICK place \in Settled : Goto(c, place)
    BY <1>13 DEF RecordAttempted, Settled
  <2> QED BY <2>1, <2>2, TicketMove
<1>14. CASE Execute(c)
  <2>1. pc[c] # "superseding" /\ UNCHANGED <<pending, after, old>>
    BY <1>14 DEF Execute
  <2>2. PICK place \in Settled : Goto(c, place)
    BY <1>14 DEF Execute, Settled
  <2> QED BY <2>1, <2>2, TicketMove
<1>15. CASE RecordOutcome(c)
  <2>1. pc[c] # "superseding" /\ UNCHANGED <<pending, after, old>>
    BY <1>15 DEF RecordOutcome
  <2>2. PICK place \in Settled : Goto(c, place)
    BY <1>15 DEF RecordOutcome, Settled
  <2> QED BY <2>1, <2>2, TicketMove
<1>16. CASE GateEnds(c)
  <2>1. pc[c] # "superseding" /\ UNCHANGED <<pending, after, old>>
    BY <1>16 DEF GateEnds
  <2>2. PICK place \in Settled : Goto(c, place)
    BY <1>16 DEF GateEnds, Settled
  <2> QED BY <2>1, <2>2, TicketMove
<1>17. CASE Consume(c)
  <2>1. pc[c] # "superseding" /\ UNCHANGED <<pending, after, old>>
    BY <1>17 DEF Consume
  <2>2. PICK place \in Settled : Goto(c, place)
    BY <1>17 DEF Consume, Settled
  <2> QED BY <2>1, <2>2, TicketMove
<1>18. CASE ConsumeUnlock(c)
  <2>1. pc[c] # "superseding" /\ UNCHANGED <<pending, after, old>>
    BY <1>18 DEF ConsumeUnlock
  <2>2. PICK place \in Settled : Goto(c, place)
    BY <1>18 DEF ConsumeUnlock, Settled
  <2> QED BY <2>1, <2>2, TicketMove
<1> QED BY <1>1, <1>2, <1>3, <1>4, <1>5, <1>6, <1>7, <1>8, <1>9, <1>10, <1>11, <1>12, <1>13, <1>14, <1>15, <1>16, <1>17, <1>18 DEF CallStep

\* One party records the end of a request: the user and the prompts.
LEMMA ResponderTicketStep ==
  ASSUME TypeOK, TicketInv, NEW c \in Call,
         ResponderStep(c) \/ UserStep(c) \/ Deadline(c)
  PROVE  TicketInv'
<1> USE DEF session, request, prompts, Goto, TicketInv
<1>0. pc \in [Call -> Places] /\ pending \in SUBSET Call /\ old \in [Call -> Call \cup {None}]
      /\ after \in [Call -> {"none", "record", "record, drop"}] /\ None \notin Call
  BY NoneAssumption DEF TypeOK
<1>1. CASE RecordRefusal(c)
  BY ZenonT(40), <1>0, <1>1 DEF RecordRefusal
<1>2. CASE VerifyReturns(c)
  BY <1>0, <1>2 DEF VerifyReturns
<1>3. CASE FinishDiscarded(c)
  BY <1>0, <1>3 DEF FinishDiscarded
<1>4. CASE FinishVerified(c)
  BY <1>0, <1>4 DEF FinishVerified, Answer
<1>5. CASE FinishRetryable(c)
  BY <1>0, <1>5 DEF FinishRetryable
<1>6. CASE FinishDenied(c)
  BY ZenonT(40), <1>0, <1>6 DEF FinishDenied, Answer
<1>7. CASE Refuse(c)
  BY ZenonT(40), <1>0, <1>7 DEF Refuse, Answer, Shown
<1>8. CASE RefuseFromTray(c)
  <2>0. UNCHANGED <<pc, old>>
    BY <1>8 DEF RefuseFromTray
  <2>1. CASE UNCHANGED <<pending, after>>
    BY <2>0, <2>1
  <2>2. CASE c \in pending /\ pending' = pending \ {c} /\ after' = [after EXCEPT ![c] = "record, drop"]
    BY ZenonT(40), <1>0, <2>0, <2>2
  <2> QED BY <1>8, <2>1, <2>2 DEF RefuseFromTray, Answer
<1>9. CASE RespondLate(c)
  BY ZenonT(40), <1>0, <1>9 DEF RespondLate, Answer, Shown
<1>10. CASE RespondClick(c)
  BY <1>0, <1>10 DEF RespondClick, Answer
<1>11. CASE RespondBegin(c)
  BY <1>0, <1>11 DEF RespondBegin
<1>12. CASE Deadline(c)
  BY <1>0, <1>12 DEF Deadline
<1> QED BY <1>1, <1>2, <1>3, <1>4, <1>5, <1>6, <1>7, <1>8, <1>9, <1>10, <1>11, <1>12 DEF ResponderStep, UserStep

\* One party records the end of a request: the session.
LEMMA SessionTicketStep ==
  ASSUME TypeOK, TicketInv, SessionStep
  PROVE  TicketInv'
<1>1. UNCHANGED <<pc, after, old>>
  BY SessionFrame
<1>2. pending' = {} \/ UNCHANGED pending
  BY SessionFrame DEF ClearAll, ClearOps
<1> QED BY <1>1, <1>2 DEF TicketInv

\* The notes of a log that are of one sort can be counted.
LEMMA TallyNat ==
  ASSUME NEW s \in Seq(Note), NEW N
  PROVE  Tally(s, N) \in Nat /\ IsFiniteSet({i \in DOMAIN s : s[i] \in N})
<1>1. IsFiniteSet(1 .. Len(s))
  BY FS_Interval
<1>2. DOMAIN s = 1 .. Len(s)
  OBVIOUS
<1>3. {i \in DOMAIN s : s[i] \in N} \subseteq 1 .. Len(s)
  BY <1>2
<1>4. IsFiniteSet({i \in DOMAIN s : s[i] \in N})
  BY <1>1, <1>3, FS_Subset
<1> QED BY <1>4, FS_CardinalityType DEF Tally

\* One more note counts once.
LEMMA TallyAppend ==
  ASSUME NEW s \in Seq(Note), NEW d \in Note, NEW N
  PROVE  Tally(Append(s, d), N) = Tally(s, N) + (IF d \in N THEN 1 ELSE 0)
<1> DEFINE S == {i \in DOMAIN s : s[i] \in N}
           A == {i \in DOMAIN Append(s, d) : Append(s, d)[i] \in N}
<1>1. DOMAIN s = 1 .. Len(s) /\ DOMAIN Append(s, d) = 1 .. (Len(s) + 1) /\ Len(s) \in Nat
  OBVIOUS
<1>2. (\A i \in 1 .. Len(s) : Append(s, d)[i] = s[i]) /\ Append(s, d)[Len(s) + 1] = d
  OBVIOUS
<1>3. IsFiniteSet(S) /\ Cardinality(S) \in Nat /\ Len(s) + 1 \notin S
  <2>1. IsFiniteSet(S)
    BY TallyNat
  <2>2. Cardinality(S) \in Nat
    BY <2>1, FS_CardinalityType
  <2>3. Len(s) + 1 \notin S
    BY <1>1
  <2> QED BY <2>1, <2>2, <2>3
<1>4. CASE d \in N
  <2>1. A = S \cup {Len(s) + 1}
    BY <1>1, <1>2, <1>4
  <2>2. Cardinality(A) = Cardinality(S) + 1
    BY <1>3, <2>1, FS_AddElement
  <2> QED BY <1>4, <2>2 DEF Tally
<1>5. CASE d \notin N
  <2>1. A = S
    BY <1>1, <1>2, <1>5
  <2>2. Tally(Append(s, d), N) = Tally(s, N)
    BY <2>1 DEF Tally
  <2>3. Tally(s, N) \in Nat
    BY TallyNat
  <2> QED BY <1>5, <2>2, <2>3
<1> QED BY <1>4, <1>5

\* An allowed request is a decided one.
LEMMA TallyAllowed ==
  ASSUME NEW s \in Seq(Note)
  PROVE  Tally(s, {"Allowed"}) <= Tally(s, {"Allowed", "Denied"})
<1>1. {i \in DOMAIN s : s[i] \in {"Allowed"}} \subseteq {i \in DOMAIN s : s[i] \in {"Allowed", "Denied"}}
  OBVIOUS
<1> QED BY <1>1, TallyNat, FS_Subset DEF Tally

\* A step that adds no right to record: a call keeps its record of having been
\* attempted or done, and is called something only once.
Quiet(x) ==
  /\ Undecided(x)' => Undecided(x)
  /\ \/ pc'[x] = pc[x]
     \/ /\ pc[x] # "done" /\ pc'[x] # "attempted"
        /\ pc[x] = "attempted" => pc'[x] = "done"
  /\ kind'[x] = kind[x] \/ (pc[x] = "idle" /\ sent'[x] = None)
  /\ ran'[x] = ran[x]

\* Its answer, if one is given, is no, to a request without a record, or the
\* consent to unlock, or a yes whose record failed.
Unsent(x) ==
  \/ sent'[x] = sent[x]
  \/ sent'[x] = FALSE /\ Undecided(x)
  \/ sent'[x] = TRUE /\ (kind'[x] = "unlock" \/ <<x, "Allowed">> \in lost')

\* The records of one call, in terms of its log.
Records(x, l, decided) ==
  /\ ~decided => Tally(l, {"Allowed", "Denied"}) = 0
  /\ pc[x] # "done" => Tally(l, {"Ran", "NotRun"}) = 0
  /\ pc[x] \notin {"attempted", "done"} => Tally(l, {"Attempted"}) = 0
  /\ pc[x] = "attempted" => Tally(l, {"Attempted"}) = 1
  /\ ran[x] # None /\ kind[x] = "agent" => Tally(l, {"Attempted"}) = 1
  /\ Tally(l, {"Allowed", "Denied"}) <= 1
  /\ Tally(l, {"Ran", "NotRun"}) <= 1
  /\ sent[x] = FALSE => Tally(l, {"Allowed"}) = 0
  /\ sent[x] = TRUE /\ kind[x] # "unlock" => Tally(l, {"Allowed"}) = 1 \/ <<x, "Allowed">> \in lost

\* The two invariants about records, call by call.
LEMMA RecordsOfCalls ==
  RecordInv /\ OneDecision <=> \A x \in Call : Records(x, log[x], ~Undecided(x))
BY DEF RecordInv, OneDecision, Records, Count

\* The numbers in the log of a call.
LEMMA TallyTypes ==
  ASSUME NEW l \in Seq(Note)
  PROVE  /\ Tally(l, {"Allowed", "Denied"}) \in Nat /\ Tally(l, {"Ran", "NotRun"}) \in Nat
         /\ Tally(l, {"Attempted"}) \in Nat /\ Tally(l, {"Allowed"}) \in Nat
         /\ Tally(l, {"Allowed"}) <= Tally(l, {"Allowed", "Denied"})
BY TallyNat, TallyAllowed

\* A call without a new record keeps its records.
LEMMA QuietCall ==
  ASSUME TypeOK, PlaceInv, NEW x \in Call, Quiet(x), Unsent(x),
         Records(x, log[x], ~Undecided(x)), log'[x] = log[x], lost \subseteq lost'
  PROVE  Records(x, log[x], ~Undecided(x))'
<1>2. log[x] \in Seq(Note)
  BY DEF TypeOK
<1>3. Tally(log[x], {"Allowed", "Denied"}) \in Nat /\ Tally(log[x], {"Allowed"}) \in Nat
      /\ Tally(log[x], {"Allowed"}) <= Tally(log[x], {"Allowed", "Denied"})
  BY <1>2, TallyTypes
<1>4. ran[x] # None => pc[x] = "done"
  BY DEF PlaceInv
<1>5. Undecided(x) => Tally(log[x], {"Allowed"}) = 0
  BY <1>3 DEF Records
<1>6. sent'[x] = FALSE => Tally(log[x], {"Allowed"}) = 0
  BY <1>5 DEF Records, Unsent
<1>7. sent'[x] = TRUE => sent[x] = TRUE \/ kind'[x] = "unlock" \/ <<x, "Allowed">> \in lost'
  BY DEF Unsent
<1>8. sent'[x] = TRUE /\ kind'[x] # "unlock" =>
        Tally(log[x], {"Allowed"}) = 1 \/ <<x, "Allowed">> \in lost'
  BY <1>7, NoneAssumption DEF Records, Quiet
<1>9. ran'[x] # None /\ kind'[x] = "agent" => Tally(log[x], {"Attempted"}) = 1
  BY <1>4 DEF Records, Quiet
<1> QED BY <1>6, <1>8, <1>9 DEF Records, Quiet

\* One note of a decision, and the right to record is spent.
LEMMA DecisionCall ==
  ASSUME TypeOK, PlaceInv, NEW c \in Call, NEW d \in {"Allowed", "Denied"}, Quiet(c),
         Records(c, log[c], ~Undecided(c)), log'[c] = Append(log[c], d),
         Undecided(c), ~(Undecided(c)'),
         IF d = "Denied" THEN sent'[c] = sent[c] ELSE sent'[c] = TRUE, UNCHANGED lost
  PROVE  Records(c, log[c], ~Undecided(c))'
<1> DEFINE l == log[c]
           m == Append(l, d)
<1>1. l \in Seq(Note) /\ d \in Note
  BY DEF TypeOK, Note
<1> HIDE DEF l
<1>2. /\ Tally(m, {"Allowed", "Denied"}) = Tally(l, {"Allowed", "Denied"}) + 1
      /\ Tally(m, {"Ran", "NotRun"}) = Tally(l, {"Ran", "NotRun"}) + 0
      /\ Tally(m, {"Attempted"}) = Tally(l, {"Attempted"}) + 0
      /\ Tally(m, {"Allowed"}) = Tally(l, {"Allowed"}) + (IF d = "Allowed" THEN 1 ELSE 0)
  BY <1>1, TallyAppend
<1> HIDE DEF m
<1>3. /\ Tally(l, {"Allowed", "Denied"}) = 0 /\ Tally(l, {"Ran", "NotRun"}) \in Nat
      /\ Tally(l, {"Attempted"}) \in Nat /\ Tally(l, {"Allowed"}) = 0
  BY <1>1, TallyTypes DEF Records, l
<1>4. ran[c] # None => pc[c] = "done"
  BY DEF PlaceInv
<1>5. /\ Tally(m, {"Allowed", "Denied"}) = 1
      /\ Tally(m, {"Ran", "NotRun"}) = Tally(l, {"Ran", "NotRun"})
      /\ Tally(m, {"Attempted"}) = Tally(l, {"Attempted"})
      /\ Tally(m, {"Allowed"}) = (IF d = "Allowed" THEN 1 ELSE 0)
  BY <1>2, <1>3
<1>6. log'[c] = m
  BY DEF m, l
<1>7. sent'[c] = FALSE => Tally(m, {"Allowed"}) = 0
  BY <1>5
<1>8. sent'[c] = TRUE /\ kind'[c] # "unlock" => Tally(m, {"Allowed"}) = 1 \/ <<c, "Allowed">> \in lost'
  BY <1>3, <1>5, NoneAssumption DEF Records, Quiet, l
<1>9. ran'[c] # None /\ kind'[c] = "agent" => Tally(l, {"Attempted"}) = 1
  BY <1>4 DEF Records, Quiet, l
<1> QED BY <1>5, <1>6, <1>7, <1>8, <1>9 DEF Records, Quiet, l

\* The note of the outcome, with which the call is done.
LEMMA OutcomeCall ==
  ASSUME TypeOK, PlaceInv, NEW c \in Call, NEW d \in {"Ran", "NotRun"},
         Records(c, log[c], ~Undecided(c)), log'[c] = Append(log[c], d),
         Undecided(c)' => Undecided(c), sent'[c] = sent[c], kind'[c] = kind[c],
         pc[c] # "done", pc'[c] = "done", ran'[c] # None /\ kind[c] = "agent" => pc[c] = "attempted",
         UNCHANGED lost
  PROVE  Records(c, log[c], ~Undecided(c))'
<1> DEFINE l == log[c]
           m == Append(l, d)
<1>1. l \in Seq(Note) /\ d \in Note
  BY DEF TypeOK, Note
<1> HIDE DEF l
<1>2. /\ Tally(m, {"Allowed", "Denied"}) = Tally(l, {"Allowed", "Denied"}) + 0
      /\ Tally(m, {"Ran", "NotRun"}) = Tally(l, {"Ran", "NotRun"}) + 1
      /\ Tally(m, {"Attempted"}) = Tally(l, {"Attempted"}) + 0
      /\ Tally(m, {"Allowed"}) = Tally(l, {"Allowed"}) + 0
  BY <1>1, TallyAppend
<1> HIDE DEF m
<1>3. /\ Tally(l, {"Allowed", "Denied"}) \in Nat /\ Tally(l, {"Ran", "NotRun"}) = 0
      /\ Tally(l, {"Attempted"}) \in Nat /\ Tally(l, {"Allowed"}) \in Nat
  BY <1>1, TallyTypes DEF Records, l
<1>4. /\ Tally(m, {"Allowed", "Denied"}) = Tally(l, {"Allowed", "Denied"})
      /\ Tally(m, {"Ran", "NotRun"}) = 1
      /\ Tally(m, {"Attempted"}) = Tally(l, {"Attempted"})
      /\ Tally(m, {"Allowed"}) = Tally(l, {"Allowed"})
  BY <1>2, <1>3
<1>5. log'[c] = m
  BY DEF m, l
<1> QED BY <1>4, <1>5 DEF Records, l

\* The note of the outcome failed, and the call is done without.
LEMMA OutcomeLostCall ==
  ASSUME TypeOK, PlaceInv, NEW c \in Call,
         Records(c, log[c], ~Undecided(c)), log'[c] = log[c], lost \subseteq lost',
         Undecided(c)' => Undecided(c), sent'[c] = sent[c], kind'[c] = kind[c],
         pc[c] # "done", pc'[c] = "done", ran'[c] # None /\ kind[c] = "agent" => pc[c] = "attempted"
  PROVE  Records(c, log[c], ~Undecided(c))'
<1>1. Tally(log[c], {"Ran", "NotRun"}) = 0
  BY DEF Records
<1> QED BY <1>1 DEF Records

\* The note of the intent.
LEMMA AttemptCall ==
  ASSUME TypeOK, PlaceInv, NEW c \in Call,
         Records(c, log[c], ~Undecided(c)), log'[c] = Append(log[c], "Attempted"),
         Undecided(c)' => Undecided(c), sent'[c] = sent[c], kind'[c] = kind[c], ran'[c] = ran[c],
         pc[c] = "authorized", pc'[c] = "attempted", UNCHANGED lost
  PROVE  Records(c, log[c], ~Undecided(c))'
<1> DEFINE l == log[c]
           m == Append(l, "Attempted")
<1>1. l \in Seq(Note) /\ "Attempted" \in Note
  BY DEF TypeOK, Note
<1> HIDE DEF l
<1>2. /\ Tally(m, {"Allowed", "Denied"}) = Tally(l, {"Allowed", "Denied"}) + 0
      /\ Tally(m, {"Ran", "NotRun"}) = Tally(l, {"Ran", "NotRun"}) + 0
      /\ Tally(m, {"Attempted"}) = Tally(l, {"Attempted"}) + 1
      /\ Tally(m, {"Allowed"}) = Tally(l, {"Allowed"}) + 0
  BY <1>1, TallyAppend
<1> HIDE DEF m
<1>3. /\ Tally(l, {"Allowed", "Denied"}) \in Nat /\ Tally(l, {"Ran", "NotRun"}) \in Nat
      /\ Tally(l, {"Attempted"}) = 0 /\ Tally(l, {"Allowed"}) \in Nat
  BY <1>1, TallyTypes DEF Records, l
<1>4. /\ Tally(m, {"Allowed", "Denied"}) = Tally(l, {"Allowed", "Denied"})
      /\ Tally(m, {"Ran", "NotRun"}) = Tally(l, {"Ran", "NotRun"})
      /\ Tally(m, {"Attempted"}) = 1
      /\ Tally(m, {"Allowed"}) = Tally(l, {"Allowed"})
  BY <1>2, <1>3
<1>5. log'[c] = m
  BY DEF m, l
<1> QED BY <1>4, <1>5 DEF Records, l

\* A call that moves on, with every right to record where it was.
LEMMA QuietMove ==
  ASSUME TypeOK, NEW c \in Call, NEW place \in Places \ {"reaping", "attempted"}, Goto(c, place),
         UNCHANGED <<pending, after, old, kind, ran>>,
         place \in Early => pc[c] \in Early,
         pc[c] # "done", pc[c] = "attempted" => place = "done"
  PROVE  \A x \in Call : Quiet(x)
<1>1. \A x \in Call : pc'[x] = IF x = c THEN place ELSE pc[x]
  BY DEF TypeOK, Goto
<1>2. \A x \in Call : Undecided(x)' => Undecided(x)
  BY <1>1 DEF Undecided, Early, Places
<1> QED BY <1>1, <1>2 DEF Quiet, Places

RecordsInv == \A x \in Call : Records(x, log[x], ~Undecided(x))

\* A step without a record.
LEMMA QuietStep ==
  ASSUME TypeOK, PlaceInv, RecordsInv, UNCHANGED log, lost \subseteq lost',
         \A x \in Call : Quiet(x) /\ Unsent(x)
  PROVE  RecordsInv'
BY QuietCall DEF RecordsInv

\* A step that records the refusal of a request, if the vault has its key.
LEMMA DeniedStep ==
  ASSUME TypeOK, PlaceInv, RecordsInv, NEW c \in Call, Recorded(c, "Denied"), UNCHANGED sent,
         \A x \in Call : Quiet(x), Undecided(c), ~(Undecided(c)')
  PROVE  RecordsInv'
<1>1. CASE UNCHANGED log /\ lost \subseteq lost'
  BY <1>1, QuietStep DEF Unsent
<1>2. CASE log' = [log EXCEPT ![c] = Append(@, "Denied")] /\ UNCHANGED lost
  <2>1. log'[c] = Append(log[c], "Denied") /\ \A x \in Call : x # c => log'[x] = log[x]
    BY <1>2 DEF TypeOK
  <2>2. ASSUME NEW x \in Call, x # c PROVE Records(x, log[x], ~Undecided(x))'
    BY <1>2, <2>1, <2>2, QuietCall DEF RecordsInv, Unsent
  <2>3. Records(c, log[c], ~Undecided(c))'
    BY <1>2, <2>1, DecisionCall DEF RecordsInv
  <2> QED BY <2>2, <2>3 DEF RecordsInv
<1> QED BY <1>1, <1>2 DEF Recorded, Noted

\* A step that allows a request: true is sent where it is on record or its
\* record failed, or to unlock the vault.
LEMMA AllowedStep ==
  ASSUME TypeOK, PlaceInv, RecordsInv, NEW c \in Call, NEW v \in BOOLEAN, Recorded(c, "Allowed"),
         sent' = [sent EXCEPT ![c] = v], unlocked => v, v => unlocked \/ kind'[c] = "unlock",
         \A x \in Call : Quiet(x), Undecided(c), ~(Undecided(c)')
  PROVE  RecordsInv'
<1>0. sent'[c] = v /\ \A x \in Call : x # c => sent'[x] = sent[x]
  BY DEF TypeOK
<1>1. CASE ~unlocked
  <2>1. UNCHANGED <<log, lost>>
    BY <1>1 DEF Recorded
  <2>2. Unsent(c)
    BY <1>0, <1>1 DEF Unsent
  <2>3. \A x \in Call : Unsent(x)
    BY <1>0, <2>2 DEF Unsent
  <2> QED BY <2>1, <2>3, QuietStep
<1>3. CASE unlocked /\ UNCHANGED log /\ lost' = lost \cup {<<c, "Allowed">>}
  <2>1. \A x \in Call : Unsent(x)
    BY <1>0, <1>3 DEF Unsent
  <2> QED BY <1>3, <2>1, QuietStep
<1>2. CASE unlocked /\ log' = [log EXCEPT ![c] = Append(@, "Allowed")] /\ UNCHANGED lost
  <2>1. log'[c] = Append(log[c], "Allowed") /\ \A x \in Call : x # c => log'[x] = log[x]
    BY <1>2 DEF TypeOK
  <2>2. ASSUME NEW x \in Call, x # c PROVE Records(x, log[x], ~Undecided(x))'
    BY <1>0, <1>2, <2>1, <2>2, QuietCall DEF RecordsInv, Unsent
  <2>4. sent'[c] = TRUE
    BY <1>0, <1>2
  <2>3. Records(c, log[c], ~Undecided(c))'
    BY <1>2, <2>1, <2>4, DecisionCall DEF RecordsInv
  <2> QED BY <2>2, <2>3 DEF RecordsInv
<1> QED BY <1>1, <1>2, <1>3 DEF Recorded, Noted

\* A step that closes the record of a call.
LEMMA OutcomeStep ==
  ASSUME TypeOK, PlaceInv, RecordsInv, NEW c \in Call, NEW d \in {"Ran", "NotRun"},
         Noted(c, d), Goto(c, "done"),
         pc[c] # "done", UNCHANGED <<pending, after, old, kind, sent>>,
         \A x \in Call : x # c => ran'[x] = ran[x],
         ran'[c] # None /\ kind[c] = "agent" => pc[c] = "attempted"
  PROVE  RecordsInv'
<1>1. /\ (log'[c] = Append(log[c], d) /\ UNCHANGED lost) \/ log'[c] = log[c]
      /\ lost \subseteq lost' /\ \A x \in Call : x # c => log'[x] = log[x]
  BY DEF TypeOK, Noted
<1>2. \A x \in Call : pc'[x] = IF x = c THEN "done" ELSE pc[x]
  BY DEF TypeOK, Goto
<1>3. \A x \in Call : Undecided(x)' => Undecided(x)
  BY <1>2 DEF Undecided, Early
<1>4. ASSUME NEW x \in Call, x # c PROVE Records(x, log[x], ~Undecided(x))'
  <2>1. Quiet(x) /\ Unsent(x)
    BY <1>2, <1>3, <1>4 DEF Quiet, Unsent
  <2> QED BY <1>1, <1>4, <2>1, QuietCall DEF RecordsInv
<1>5. Records(c, log[c], ~Undecided(c))'
  BY <1>1, <1>2, <1>3, OutcomeCall, OutcomeLostCall DEF RecordsInv
<1> QED BY <1>4, <1>5 DEF RecordsInv

\* An entry that is removed and answered no: the right to record its end goes
\* to whoever removed it.
LEMMA RefusedStep ==
  ASSUME TypeOK, PlaceInv, RecordsInv, NEW c \in Call, c \in pending, pending' = pending \ {c},
         after'[c] # "none", sent'[c] = FALSE,
         \A x \in Call : x # c => after'[x] = after[x] /\ sent'[x] = sent[x],
         UNCHANGED <<pc, old, kind, ran, log, lost>>
  PROVE  RecordsInv'
<1>1. Undecided(c)
  BY DEF Undecided
<1>2. \A x \in Call : Undecided(x)' => Undecided(x)
  BY <1>1 DEF Undecided
<1>3. \A x \in Call : Quiet(x)
  BY <1>2 DEF Quiet
<1>4. \A x \in Call : Unsent(x)
  BY <1>1 DEF Unsent
<1> QED BY <1>3, <1>4, QuietStep


\* Records are made once: the steps of a call.
LEMMA CallRecordStep ==
  ASSUME TypeOK, PlaceInv, AnswerInv, TicketInv, RecordsInv, NEW c \in Call,
         \/ \E s \in Signature : Build(c, s)
         \/ \E k \in Kinds \ {"agent"}, s \in Signature : GateStart(c, k, s)
         \/ CallStep(c)
  PROVE  RecordsInv'
<1> USE DEF session, request, prompts
<1>0. pc \in [Call -> Places] /\ pending \in SUBSET Call /\ old \in [Call -> Call \cup {None}]
      /\ after \in [Call -> {"none", "record", "record, drop"}] /\ None \notin Call
      /\ kind \in [Call -> Kind \cup {None}] /\ ran \in [Call -> Nat \cup {None}] /\ epoch \in Nat
      /\ sent \in [Call -> BOOLEAN \cup {None}] /\ None \notin Nat
  BY NoneAssumption DEF TypeOK
<1>00. \A x \in Call : ran[x] # None => pc[x] = "done"
  BY DEF PlaceInv
<1>1. ASSUME NEW s \in Signature, Build(c, s) PROVE RecordsInv'
  <2>1. pc[c] = "idle" /\ Goto(c, "built") /\ UNCHANGED <<pending, after, old, ran, sent, log, lost>>
    BY <1>1 DEF Build
  <2>2. \A x \in Call : kind'[x] = kind[x] \/ x = c
    BY <1>0, <1>1 DEF Build
  <2>3. sent[c] = None
    BY <2>1 DEF AnswerInv, Early
  <2>4. \A x \in Call : pc'[x] = IF x = c THEN "built" ELSE pc[x]
    BY <1>0, <2>1 DEF Goto
  <2>5. \A x \in Call : Undecided(x)' => Undecided(x)
    BY <2>1, <2>4 DEF Undecided, Early
  <2>6. \A x \in Call : Quiet(x) /\ Unsent(x)
    BY <2>1, <2>2, <2>3, <2>4, <2>5 DEF Quiet, Unsent
  <2> QED BY <2>1, <2>6, QuietStep
<1>2. ASSUME NEW k \in Kinds \ {"agent"}, NEW s \in Signature, GateStart(c, k, s) PROVE RecordsInv'
  <2>1. pc[c] = "idle" /\ Goto(c, "gated") /\ UNCHANGED <<pending, after, old, ran, sent, log, lost>>
    BY <1>2 DEF GateStart
  <2>2. \A x \in Call : kind'[x] = kind[x] \/ x = c
    BY <1>0, <1>2 DEF GateStart
  <2>3. sent[c] = None
    BY <2>1 DEF AnswerInv, Early
  <2>4. \A x \in Call : pc'[x] = IF x = c THEN "gated" ELSE pc[x]
    BY <1>0, <2>1 DEF Goto
  <2>5. \A x \in Call : Undecided(x)' => Undecided(x)
    BY <2>1, <2>4 DEF Undecided, Early
  <2>6. \A x \in Call : Quiet(x) /\ Unsent(x)
    BY <2>1, <2>2, <2>3, <2>4, <2>5 DEF Quiet, Unsent
  <2> QED BY <2>1, <2>6, QuietStep
<1>3. CASE Authorize(c)
  <2>1. PICK place \in Places \ {"reaping", "attempted"} :
          Goto(c, place) /\ (place \in Early => pc[c] \in Early)
    BY <1>3 DEF Authorize, Places, Early
  <2>2. UNCHANGED <<pending, after, old, kind, ran, sent, log, lost>> /\ pc[c] # "done" /\ pc[c] # "attempted"
    BY <1>3 DEF Authorize
  <2>3. \A x \in Call : Unsent(x)
    BY <2>2 DEF Unsent
  <2> QED BY <2>1, <2>2, <2>3, QuietMove, QuietStep
<1>4. CASE OpsBeginBusy(c)
  <2>1. PICK place \in Places \ {"reaping", "attempted"} :
          Goto(c, place) /\ (place \in Early => pc[c] \in Early)
    BY <1>4 DEF OpsBeginBusy, Places, Early
  <2>2. UNCHANGED <<pending, after, old, kind, ran, sent, log, lost>> /\ pc[c] # "done" /\ pc[c] # "attempted"
    BY <1>4 DEF OpsBeginBusy
  <2>3. \A x \in Call : Unsent(x)
    BY <2>2 DEF Unsent
  <2> QED BY <2>1, <2>2, <2>3, QuietMove, QuietStep
<1>5. CASE OpsBegin(c)
  <2>1. PICK place \in Places \ {"reaping", "attempted"} :
          Goto(c, place) /\ (place \in Early => pc[c] \in Early)
    BY <1>5 DEF OpsBegin, Places, Early
  <2>2. UNCHANGED <<pending, after, old, kind, ran, sent, log, lost>> /\ pc[c] # "done" /\ pc[c] # "attempted"
    BY <1>5 DEF OpsBegin
  <2>3. \A x \in Call : Unsent(x)
    BY <2>2 DEF Unsent
  <2> QED BY <2>1, <2>2, <2>3, QuietMove, QuietStep
<1>6. CASE Insert(c)
  <2>1. pc[c] = "asking" /\ pending' = (pending \ Twins(c)) \cup {c} /\ Twins(c) \subseteq pending
        /\ UNCHANGED <<after, kind, ran, log, lost>>
    BY <1>6 DEF Insert, Twins
  <2>2. PICK place \in {"emitting", "superseding"} : \A x \in Call : pc'[x] = IF x = c THEN place ELSE pc[x]
    BY <1>0, <1>6 DEF Insert, Goto
  <2>3. \A e \in Call : old'[e] = old[e] \/ old'[e] \in Twins(c)
    BY <1>0, <1>6 DEF Insert
  <2>4. ASSUME NEW x \in Call PROVE Undecided(x)' => Undecided(x)
    <3>1. ASSUME NEW e \in Call, old'[e] = x PROVE Undecided(x)
      BY <2>1, <2>3, <3>1 DEF Undecided
    <3>2. x \in pending' => x \in pending \/ x = c
      BY <2>1
    <3>3. Undecided(c)
      BY <2>1 DEF Undecided, Early
    <3>4. pc'[x] \in Early \cup {"reaping"} => pc[x] \in Early \cup {"reaping"}
      BY <2>2 DEF Early
    <3> QED BY <2>1, <3>1, <3>2, <3>3, <3>4 DEF Undecided
  <2>5. \A x \in Call : Quiet(x)
    BY <2>1, <2>2, <2>4 DEF Quiet
  <2>6. \A x \in Call : sent'[x] = sent[x] \/ (sent'[x] = FALSE /\ x \in pending)
    BY <1>6, <2>1 DEF Insert
  <2>7. \A x \in Call : Unsent(x)
    BY <2>6 DEF Unsent, Undecided
  <2> QED BY <2>1, <2>5, <2>7, QuietStep
<1>7. CASE Superseded(c)
  <2>1. pc[c] = "superseding" /\ Recorded(old[c], "Denied") /\ UNCHANGED <<pending, after, kind, ran, sent>>
    BY <1>7 DEF Superseded
  <2>2. PICK o \in Call : o = old[c]
    BY <1>0, <2>1 DEF TicketInv
  <2>3. \A x \in Call : pc'[x] = (IF x = c THEN "emitting" ELSE pc[x])
                        /\ old'[x] = (IF x = c THEN None ELSE old[x])
    BY <1>0, <1>7 DEF Superseded, Goto
  <2>4. \A x \in Call : Quiet(x)
    <3>1. \A x \in Call : Undecided(x)' => Undecided(x)
      BY ZenonT(40), <1>0, <2>1, <2>3 DEF Undecided, Early
    <3> QED BY <2>1, <2>3, <3>1 DEF Quiet
  <2>5. Undecided(o)
    BY <2>2 DEF Undecided
  <2>6. ~(Undecided(o)')
    <3>1. o \notin pending /\ after[o] = "none" /\ pc[o] \notin Early \cup {"reaping"}
      BY <1>0, <2>2 DEF TicketInv
    <3>2. \A e \in Call : old[e] = o => e = c
      BY <1>0, <2>2 DEF TicketInv
    <3>3. \A e \in Call : old'[e] # o
      BY <1>0, <2>3, <3>2
    <3>4. pc'[o] \notin Early \cup {"reaping"}
      BY <2>3, <3>1 DEF Early
    <3> QED BY <2>1, <3>1, <3>3, <3>4 DEF Undecided
  <2>7. Recorded(o, "Denied")
    BY <2>1, <2>2
  <2> QED BY <2>1, <2>4, <2>5, <2>6, <2>7, DeniedStep
<1>8. CASE Emit(c)
  <2>1. PICK place \in Places \ {"reaping", "attempted"} :
          Goto(c, place) /\ (place \in Early => pc[c] \in Early)
    BY <1>8 DEF Emit, Places, Early, Return
  <2>2. UNCHANGED <<pending, after, old, kind, ran, sent, log, lost>> /\ pc[c] # "done" /\ pc[c] # "attempted"
    BY <1>8 DEF Emit
  <2>3. \A x \in Call : Unsent(x)
    BY <2>2 DEF Unsent
  <2> QED BY <2>1, <2>2, <2>3, QuietMove, QuietStep
<1>9. CASE Mirror(c)
  <2>1. PICK place \in Places \ {"reaping", "attempted"} :
          Goto(c, place) /\ (place \in Early => pc[c] \in Early)
    BY <1>9 DEF Mirror, Places, Early
  <2>2. UNCHANGED <<pending, after, old, kind, ran, sent, log, lost>> /\ pc[c] # "done" /\ pc[c] # "attempted"
    BY <1>9 DEF Mirror
  <2>3. \A x \in Call : Unsent(x)
    BY <2>2 DEF Unsent
  <2> QED BY <2>1, <2>2, <2>3, QuietMove, QuietStep
<1>10. CASE Decided(c)
  <2>1. PICK place \in Places \ {"reaping", "attempted"} :
          Goto(c, place) /\ (place \in Early => pc[c] \in Early)
    BY <1>10 DEF Decided, Places, Early, Return
  <2>2. UNCHANGED <<pending, after, old, kind, ran, sent, log, lost>> /\ pc[c] # "done" /\ pc[c] # "attempted"
    BY <1>10 DEF Decided
  <2>3. \A x \in Call : Unsent(x)
    BY <2>2 DEF Unsent
  <2> QED BY <2>1, <2>2, <2>3, QuietMove, QuietStep
<1>11. CASE TimeOut(c)
  <2>1. pc[c] = "waiting" /\ pending' = pending \ {c} /\ UNCHANGED <<after, old, kind, ran, sent, log, lost>>
    BY <1>11 DEF TimeOut
  <2>2. PICK place \in Places \ (Early \cup {"attempted"}) :
          Goto(c, place) /\ (place = "reaping" => c \in pending)
    BY <1>11 DEF TimeOut, Return, Places, Early
  <2>3. \A x \in Call : pc'[x] = IF x = c THEN place ELSE pc[x]
    BY <1>0, <2>2 DEF Goto
  <2>4. \A x \in Call : Undecided(x)' => Undecided(x)
    BY <2>1, <2>2, <2>3 DEF Undecided
  <2>5. \A x \in Call : Quiet(x) /\ Unsent(x)
    BY <2>1, <2>2, <2>3, <2>4 DEF Quiet, Unsent
  <2> QED BY <2>1, <2>5, QuietStep
<1>12. CASE Reap(c)
  <2>1. pc[c] = "reaping" /\ Recorded(c, "Denied") /\ UNCHANGED <<pending, after, old, kind, ran, sent>>
    BY <1>12 DEF Reap
  <2>2. PICK place \in Places \ (Early \cup {"attempted", "reaping"}) : Goto(c, place)
    BY <1>12 DEF Reap, Return, Places, Early
  <2>3. \A x \in Call : Quiet(x)
    BY <2>1, <2>2, QuietMove
  <2>4. Undecided(c)
    BY <2>1 DEF Undecided
  <2>5. pc'[c] \notin Early \cup {"reaping"}
    BY <1>0, <2>2 DEF Goto
  <2>6. c \notin pending /\ after[c] = "none" /\ \A e \in Call : old[e] # c
    BY <1>0, <2>1 DEF TicketInv
  <2>7. ~(Undecided(c)')
    BY <2>1, <2>5, <2>6 DEF Undecided
  <2> QED BY <2>1, <2>3, <2>4, <2>7, DeniedStep
<1>13. CASE RecordAttempted(c)
  <2>1. pc[c] = "authorized" /\ UNCHANGED <<pending, after, old, kind, ran, sent>>
    BY <1>13 DEF RecordAttempted
  <2>2. CASE Goto(c, "done") /\ UNCHANGED <<log, lost>>
    <3>1. \A x \in Call : Quiet(x)
      BY <2>1, <2>2, QuietMove DEF Places, Early
    <3> QED BY <2>1, <2>2, <3>1, QuietStep DEF Unsent
  <2>3. CASE Goto(c, "attempted") /\ log' = [log EXCEPT ![c] = Append(@, "Attempted")] /\ UNCHANGED lost
    <3>1. log'[c] = Append(log[c], "Attempted") /\ \A x \in Call : x # c => log'[x] = log[x]
      BY <2>3 DEF TypeOK
    <3>2. \A x \in Call : pc'[x] = IF x = c THEN "attempted" ELSE pc[x]
      BY <1>0, <2>3 DEF Goto
    <3>3. \A x \in Call : Undecided(x)' => Undecided(x)
      BY <2>1, <3>2 DEF Undecided, Early
    <3>4. ASSUME NEW x \in Call, x # c PROVE Records(x, log[x], ~Undecided(x))'
      <4>1. Quiet(x) /\ Unsent(x)
        BY <2>1, <3>2, <3>3, <3>4 DEF Quiet, Unsent
      <4> QED BY <2>3, <3>1, <3>4, <4>1, QuietCall DEF RecordsInv
    <3>5. Records(c, log[c], ~Undecided(c))'
      BY <2>1, <2>3, <3>1, <3>2, <3>3, AttemptCall DEF RecordsInv
    <3> QED BY <3>4, <3>5 DEF RecordsInv
  <2> QED BY <1>13, <2>2, <2>3 DEF RecordAttempted
<1>14. CASE Execute(c)
  <2>1. pc[c] = "attempted" /\ Goto(c, "done") /\ UNCHANGED <<pending, after, old, kind, sent>>
    BY <1>14 DEF Execute
  <2>2. CASE UNCHANGED <<ran, log, lost>>
    <3>1. \A x \in Call : Quiet(x)
      BY <2>1, <2>2, QuietMove DEF Places, Early
    <3> QED BY <2>1, <2>2, <3>1, QuietStep DEF Unsent
  <2>3. CASE ran' = [ran EXCEPT ![c] = epoch] /\ Noted(c, "Ran")
    <3>1. \A x \in Call : x # c => ran'[x] = ran[x]
      BY <1>0, <2>3
    <3> QED BY <2>1, <2>3, <3>1, OutcomeStep
  <2> QED BY <1>14, <2>2, <2>3 DEF Execute
<1>15. CASE RecordOutcome(c)
  <2>1. pc[c] = "refused" /\ Goto(c, "done") /\ UNCHANGED <<pending, after, old, kind, sent, ran>>
    BY <1>15 DEF RecordOutcome
  <2>2. CASE UNCHANGED <<log, lost>>
    <3>1. \A x \in Call : Quiet(x)
      BY <2>1, <2>2, QuietMove DEF Places, Early
    <3> QED BY <2>1, <2>2, <3>1, QuietStep DEF Unsent
  <2>3. CASE Noted(c, "NotRun")
    <3>1. ran'[c] = None
      BY <1>00, <2>1
    <3> QED BY <2>1, <2>3, <3>1, OutcomeStep
  <2> QED BY <1>15, <2>2, <2>3 DEF RecordOutcome, Recorded
<1>16. CASE GateEnds(c)
  <2>1. PICK place \in Places \ {"reaping", "attempted"} :
          Goto(c, place) /\ (place \in Early => pc[c] \in Early)
    BY <1>16 DEF GateEnds, Places, Early
  <2>2. UNCHANGED <<pending, after, old, kind, ran, sent, log, lost>> /\ pc[c] # "done" /\ pc[c] # "attempted"
    BY <1>16 DEF GateEnds
  <2>3. \A x \in Call : Unsent(x)
    BY <2>2 DEF Unsent
  <2> QED BY <2>1, <2>2, <2>3, QuietMove, QuietStep
<1>17. CASE Consume(c)
  <2>1. pc[c] = "passed" /\ kind[c] = "desktop" /\ UNCHANGED <<pending, after, old, kind, sent>>
    BY <1>17 DEF Consume
  <2>2. CASE Goto(c, "refused") /\ UNCHANGED <<ran, log, lost>>
    <3>1. \A x \in Call : Quiet(x)
      BY <2>1, <2>2, QuietMove DEF Places, Early
    <3> QED BY <2>1, <2>2, <3>1, QuietStep DEF Unsent
  <2>3. CASE ran' = [ran EXCEPT ![c] = epoch] /\ Goto(c, "done")
             /\ Noted(c, "Ran")
    <3>1. \A x \in Call : x # c => ran'[x] = ran[x]
      BY <1>0, <2>3
    <3> QED BY <2>1, <2>3, <3>1, OutcomeStep
  <2>4. PassApplies(c) => unlocked
    <3>1. unlocked \in BOOLEAN
      BY DEF TypeOK
    <3>2. (kind[c] = "unlock") = FALSE
      BY <2>1
    <3> QED BY <3>1, <3>2 DEF PassApplies
  <2> QED BY <1>17, <2>2, <2>3, <2>4 DEF Consume, Recorded
<1>18. CASE ConsumeUnlock(c)
  <2>1. pc[c] = "passed" /\ kind[c] = "unlock" /\ Goto(c, "done") /\ UNCHANGED <<pending, after, old, kind, sent>>
    BY <1>18 DEF ConsumeUnlock
  <2>2. CASE UNCHANGED <<ran, log, lost>>
    <3>1. \A x \in Call : Quiet(x)
      BY <2>1, <2>2, QuietMove DEF Places, Early
    <3> QED BY <2>1, <2>2, <3>1, QuietStep DEF Unsent
  <2>3. CASE ran' = [ran EXCEPT ![c] = epoch] /\ Noted(c, "Ran")
    <3>1. \A x \in Call : x # c => ran'[x] = ran[x]
      BY <1>0, <2>3
    <3> QED BY <2>1, <2>3, <3>1, OutcomeStep
  <2> QED BY <1>18, <2>2, <2>3 DEF ConsumeUnlock
<1> QED BY <1>1, <1>2, <1>3, <1>4, <1>5, <1>6, <1>7, <1>8, <1>9, <1>10, <1>11, <1>12, <1>13, <1>14, <1>15, <1>16, <1>17, <1>18 DEF CallStep

\* Records are made once: the user and the prompts.
LEMMA ResponderRecordStep ==
  ASSUME TypeOK, PlaceInv, AnswerInv, TicketInv, RecordsInv, NEW c \in Call,
         ResponderStep(c) \/ UserStep(c) \/ Deadline(c)
  PROVE  RecordsInv'
<1> USE DEF session, request, prompts
<1>0. pc \in [Call -> Places] /\ pending \in SUBSET Call /\ old \in [Call -> Call \cup {None}]
      /\ after \in [Call -> {"none", "record", "record, drop"}] /\ None \notin Call
      /\ kind \in [Call -> Kind \cup {None}] /\ ran \in [Call -> Nat \cup {None}] /\ epoch \in Nat
      /\ sent \in [Call -> BOOLEAN \cup {None}] /\ None \notin Nat
  BY NoneAssumption DEF TypeOK
<1>00. \A x \in Call : ran[x] # None => pc[x] = "done"
  BY DEF PlaceInv
<1>1. CASE RecordRefusal(c)
  <2>1. after[c] # "none" /\ Recorded(c, "Denied") /\ UNCHANGED <<pc, pending, old, kind, ran, sent>>
    BY <1>1 DEF RecordRefusal
  <2>2. \A x \in Call : after'[x] = IF x = c THEN "none" ELSE after[x]
    BY <1>0, <1>1 DEF RecordRefusal
  <2>3. Undecided(c)
    BY <2>1 DEF Undecided
  <2>4. \A x \in Call : Undecided(x)' => Undecided(x)
    BY <2>1, <2>2 DEF Undecided
  <2>5. \A x \in Call : Quiet(x)
    BY <2>1, <2>4 DEF Quiet
  <2>6. pc[c] \notin Early \cup {"reaping"} /\ c \notin pending /\ \A e \in Call : old[e] # c
    BY <1>0, <2>1 DEF TicketInv
  <2>7. ~(Undecided(c)')
    BY <2>1, <2>2, <2>6 DEF Undecided
  <2> QED BY <2>1, <2>3, <2>5, <2>7, DeniedStep
<1>2. CASE VerifyReturns(c)
  <2>1. UNCHANGED <<pc, pending, after, old, kind, ran, sent, log, lost>>
    BY <1>2 DEF VerifyReturns
  <2>2. \A x \in Call : Quiet(x) /\ Unsent(x)
    BY <2>1 DEF Quiet, Unsent, Undecided
  <2> QED BY <2>1, <2>2, QuietStep
<1>3. CASE FinishDiscarded(c)
  <2>1. UNCHANGED <<pc, pending, after, old, kind, ran, sent, log, lost>>
    BY <1>3 DEF FinishDiscarded
  <2>2. \A x \in Call : Quiet(x) /\ Unsent(x)
    BY <2>1 DEF Quiet, Unsent, Undecided
  <2> QED BY <2>1, <2>2, QuietStep
<1>4. CASE FinishVerified(c)
  <2>1. c \in pending /\ pending' = pending \ {c} /\ Recorded(c, "Allowed")
        /\ UNCHANGED <<pc, after, old, kind, ran>>
    BY <1>4 DEF FinishVerified, Answer
  <2>2. PICK v \in BOOLEAN : sent' = [sent EXCEPT ![c] = v] /\ v = (unlocked)
    BY <1>4 DEF FinishVerified, Answer, TypeOK
  <2>3. Undecided(c)
    BY <2>1 DEF Undecided
  <2>4. \A x \in Call : Undecided(x)' => Undecided(x)
    BY <2>1 DEF Undecided
  <2>5. \A x \in Call : Quiet(x)
    BY <2>1, <2>4 DEF Quiet
  <2>6. pc[c] \notin Early \cup {"reaping"} /\ after[c] = "none" /\ \A e \in Call : old[e] # c
    BY <1>0, <2>1 DEF TicketInv
  <2>7. ~(Undecided(c)')
    BY <2>1, <2>6 DEF Undecided
  <2>8. (unlocked => v) /\ (v => unlocked \/ kind'[c] = "unlock")
    BY <2>1, <2>2
  <2> QED BY <2>1, <2>2, <2>3, <2>5, <2>7, <2>8, AllowedStep
<1>5. CASE FinishRetryable(c)
  <2>1. UNCHANGED <<pc, pending, after, old, kind, ran, sent, log, lost>>
    BY <1>5 DEF FinishRetryable
  <2>2. \A x \in Call : Quiet(x) /\ Unsent(x)
    BY <2>1 DEF Quiet, Unsent, Undecided
  <2> QED BY <2>1, <2>2, QuietStep
<1>6. CASE FinishDenied(c)
  <2>1. c \in pending /\ pending' = pending \ {c} /\ after'[c] # "none" /\ sent'[c] = FALSE
        /\ (\A x \in Call : x # c => after'[x] = after[x] /\ sent'[x] = sent[x])
    BY <1>0, <1>6 DEF FinishDenied, Answer
  <2>2. UNCHANGED <<pc, old, kind, ran, log, lost>>
    BY <1>6 DEF FinishDenied
  <2> QED BY <2>1, <2>2, RefusedStep
<1>7. CASE Refuse(c)
  <2>1. c \in pending /\ pending' = pending \ {c} /\ after'[c] # "none" /\ sent'[c] = FALSE
        /\ (\A x \in Call : x # c => after'[x] = after[x] /\ sent'[x] = sent[x])
    BY <1>0, <1>7 DEF Refuse, Answer, Shown
  <2>2. UNCHANGED <<pc, old, kind, ran, log, lost>>
    BY <1>7 DEF Refuse
  <2> QED BY <2>1, <2>2, RefusedStep
<1>8. CASE RefuseFromTray(c)
  <2>1. UNCHANGED <<pc, old, kind, ran, log, lost>>
    BY <1>8 DEF RefuseFromTray
  <2>2. CASE UNCHANGED <<pending, sent, after>>
    <3>1. \A x \in Call : Quiet(x) /\ Unsent(x)
      BY <2>1, <2>2 DEF Quiet, Unsent, Undecided
    <3> QED BY <2>1, <3>1, QuietStep
  <2>3. CASE c \in pending /\ Answer(c, FALSE) /\ after' = [after EXCEPT ![c] = "record, drop"]
    <3>1. c \in pending /\ pending' = pending \ {c} /\ after'[c] # "none" /\ sent'[c] = FALSE
          /\ (\A x \in Call : x # c => after'[x] = after[x] /\ sent'[x] = sent[x])
      BY <1>0, <2>3 DEF Answer
    <3> QED BY <2>1, <3>1, RefusedStep
  <2> QED BY <1>8, <2>2, <2>3 DEF RefuseFromTray
<1>9. CASE RespondLate(c)
  <2>1. c \in pending /\ pending' = pending \ {c} /\ after'[c] # "none" /\ sent'[c] = FALSE
        /\ (\A x \in Call : x # c => after'[x] = after[x] /\ sent'[x] = sent[x])
    BY <1>0, <1>9 DEF RespondLate, Answer, Shown
  <2>2. UNCHANGED <<pc, old, kind, ran, log, lost>>
    BY <1>9 DEF RespondLate
  <2> QED BY <2>1, <2>2, RefusedStep
<1>10. CASE RespondClick(c)
  <2>1. c \in pending /\ pending' = pending \ {c} /\ Recorded(c, "Allowed")
        /\ UNCHANGED <<pc, after, old, kind, ran>>
    BY <1>10 DEF RespondClick, Answer, Shown
  <2>2. PICK v \in BOOLEAN : sent' = [sent EXCEPT ![c] = v] /\ v = (unlocked \/ kind[c] = "unlock")
    BY <1>10 DEF RespondClick, Answer, TypeOK
  <2>3. Undecided(c)
    BY <2>1 DEF Undecided
  <2>4. \A x \in Call : Undecided(x)' => Undecided(x)
    BY <2>1 DEF Undecided
  <2>5. \A x \in Call : Quiet(x)
    BY <2>1, <2>4 DEF Quiet
  <2>6. pc[c] \notin Early \cup {"reaping"} /\ after[c] = "none" /\ \A e \in Call : old[e] # c
    BY <1>0, <2>1 DEF TicketInv
  <2>7. ~(Undecided(c)')
    BY <2>1, <2>6 DEF Undecided
  <2>8. (unlocked => v) /\ (v => unlocked \/ kind'[c] = "unlock")
    BY <2>1, <2>2
  <2> QED BY <2>1, <2>2, <2>3, <2>5, <2>7, <2>8, AllowedStep
<1>11. CASE RespondBegin(c)
  <2>1. UNCHANGED <<pc, pending, after, old, kind, ran, sent, log, lost>>
    BY <1>11 DEF RespondBegin
  <2>2. \A x \in Call : Quiet(x) /\ Unsent(x)
    BY <2>1 DEF Quiet, Unsent, Undecided
  <2> QED BY <2>1, <2>2, QuietStep
<1>12. CASE Deadline(c)
  <2>1. UNCHANGED <<pc, pending, after, old, kind, ran, sent, log, lost>>
    BY <1>12 DEF Deadline
  <2>2. \A x \in Call : Quiet(x) /\ Unsent(x)
    BY <2>1 DEF Quiet, Unsent, Undecided
  <2> QED BY <2>1, <2>2, QuietStep
<1> QED BY <1>1, <1>2, <1>3, <1>4, <1>5, <1>6, <1>7, <1>8, <1>9, <1>10, <1>11, <1>12 DEF ResponderStep, UserStep

\* Records are made once: the session.
LEMMA SessionRecordStep ==
  ASSUME TypeOK, PlaceInv, RecordsInv, SessionStep
  PROVE  RecordsInv'
<1>1. UNCHANGED <<pc, after, old, kind, ran, log, lost>>
  BY SessionFrame
<1>2. pending' \subseteq pending /\ \A x \in Call : sent'[x] = sent[x] \/ (sent'[x] = FALSE /\ x \in pending)
  BY SessionFrame DEF ClearAll, ClearOps
<1>3. \A x \in Call : Undecided(x)' => Undecided(x)
  BY <1>1, <1>2 DEF Undecided
<1>4. \A x \in Call : Quiet(x) /\ Unsent(x)
  BY <1>1, <1>2, <1>3 DEF Quiet, Unsent, Undecided
<1> QED BY <1>1, <1>4, QuietStep

Begun == Places \ {"idle", "built", "gated"}

\* A step that leaves the operations alone: who is under way stays so, under
\* the same key, and no call goes back before its beginning.
Steady(d) ==
  /\ UnderWay(d)' <=> UnderWay(d)
  /\ UnderWay(d) => kind'[d] = kind[d] /\ sig'[d] = sig[d] /\ cancelled'[d] = cancelled[d]
  /\ expired[d] => expired'[d]
  /\ pc[d] \in Begun => pc'[d] \in Begun

\* Registrations in terms of the places a call has reached.
LEMMA OpsInvBegun ==
  ASSUME TypeOK
  PROVE  OpsInv <=>
           /\ \A c \in Call : owner[c] # c => pc[owner[c]] \in Begun
           /\ \A key \in DOMAIN ops : ops[key] # None => pc[ops[key].id] \in Begun
           /\ \A c \in Call : UnderWay(c) /\ cancelled[c] =>
                \A key \in DOMAIN ops : ops[key] # None => ops[key].id # owner[c]
<1>1. \A c \in Call : pc[owner[c]] \in Places
  BY DEF TypeOK
<1>2. \A key \in DOMAIN ops : ops[key] # None => pc[ops[key].id] \in Places
  BY DEF TypeOK, Operation
<1> QED BY <1>1, <1>2 DEF OpsInv, Begun

\* Steps that leave the operations alone keep them registered.
LEMMA SteadyStep ==
  ASSUME TypeOK, TypeOK', OpsInv, OpsHaveOwners, UNCHANGED <<ops, owner>>,
         \A d \in Call : Steady(d)
  PROVE  OpsInv' /\ OpsHaveOwners'
<1>0. /\ owner \in [Call -> Call]
      /\ \A key \in DOMAIN ops : ops[key] # None => ops[key].id \in Call /\ ops[key].attempt \in Call \cup {None}
  BY DEF TypeOK, Operation
<1>1. \A d \in Call : Late(d) => Late(d)'
  BY <1>0 DEF Late, Steady
<1>2. \A d \in Call : UnderWay(d) => Key(d)' = Key(d)
  BY DEF Key, Steady
<1>3. ASSUME NEW key \in DOMAIN ops, ops[key] # None, ops[key].attempt # None,
             NEW c \in Call, c = ops[key].attempt
      PROVE  UnderWay(c)' /\ Key(c)' = key /\ owner[c] = ops[key].id
  <2>1. UnderWay(c) /\ Key(c) = key /\ owner[c] = ops[key].id
    BY <1>3 DEF OpsHaveOwners
  <2> QED BY <1>2, <2>1 DEF Steady
<1>4. ASSUME NEW c \in Call, UnderWay(c)', ~Late(c)', ~cancelled'[c]
      PROVE  ops[Key(c)'] # None /\ ops[Key(c)'].attempt = c
  <2>1. UnderWay(c) /\ ~Late(c) /\ ~cancelled[c]
    BY <1>1, <1>4 DEF Steady
  <2> QED BY <1>2, <2>1 DEF OpsHaveOwners
<1>5. OpsHaveOwners'
  BY <1>0, <1>3, <1>4 DEF OpsHaveOwners
<1>6. /\ \A c \in Call : owner[c] # c => pc'[owner[c]] \in Begun
      /\ \A key \in DOMAIN ops : ops[key] # None => pc'[ops[key].id] \in Begun
  BY <1>0, OpsInvBegun DEF Steady
<1>7. \A c \in Call : UnderWay(c)' /\ cancelled'[c] =>
                \A key \in DOMAIN ops : ops[key] # None => ops[key].id # owner[c]
  BY OpsInvBegun DEF Steady
<1>8. OpsInv'
  BY <1>6, <1>7 DEF OpsInv, Begun
<1> QED BY <1>5, <1>8

\* The key of a call that has been made.
LEMMA KeyInDomain ==
  ASSUME TypeOK, PlaceInv, NEW d \in Call, pc[d] # "idle"
  PROVE  Key(d) \in DOMAIN ops
<1>1. kind[d] \in Kind /\ sig[d] \in Signature
  BY DEF PlaceInv
<1> QED BY <1>1 DEF Key, TypeOK

OpPlaces == {"asking", "superseding", "emitting", "waiting", "reaping", "prompting", "consented", "denied"}

\* A call moves on, under way or not as before.
LEMMA SteadyMove ==
  ASSUME TypeOK, TypeOK', OpsInv, OpsHaveOwners, NEW c \in Call, NEW place \in Begun, Goto(c, place),
         UNCHANGED <<kind, sig, expired, ops, owner>>,
         \A d \in Call : Gated(d) => cancelled'[d] = cancelled[d],
         Gated(c) => (pc[c] \in OpPlaces <=> place \in OpPlaces)
  PROVE  OpsInv' /\ OpsHaveOwners'
<1>1. \A d \in Call : pc'[d] = IF d = c THEN place ELSE pc[d]
  BY DEF TypeOK, Goto
<1>2. \A d \in Call : (UnderWay(d) <=> Gated(d) /\ pc[d] \in OpPlaces)
                      /\ (UnderWay(d)' <=> Gated(d) /\ pc'[d] \in OpPlaces)
  BY DEF UnderWay, OpPlaces, Gated
<1>3. \A d \in Call : Steady(d)
  BY <1>1, <1>2 DEF Steady
<1> QED BY <1>3, SteadyStep

\* Invalidation is for the prompts behind Approve, never for an operation's.
LEMMA InvalidatedSteady ==
  ASSUME TypeOK, AnswerInv, NEW S, Invalidated(S)
  PROVE  \A d \in Call : Gated(d) => cancelled'[d] = cancelled[d]
<1>1. \A d \in Call : cancelled'[d] = (cancelled[d] \/ (d \in S /\ gate[d] = "Verifying"))
  BY DEF Invalidated
<1>2. \A d \in Call : Gated(d) => gate[d] # "Verifying"
  BY DEF AnswerInv
<1>3. \A d \in Call : cancelled[d] \in BOOLEAN
  BY DEF TypeOK
<1> QED BY <1>1, <1>2, <1>3

\* Nobody moves, and no operation is cancelled.
LEMMA SteadyStay ==
  ASSUME TypeOK, TypeOK', OpsInv, OpsHaveOwners, UNCHANGED <<pc, kind, sig, ops, owner>>,
         \A d \in Call : Gated(d) => cancelled'[d] = cancelled[d],
         \A d \in Call : expired[d] => expired'[d]
  PROVE  OpsInv' /\ OpsHaveOwners'
<1>1. \A d \in Call : (UnderWay(d) => Gated(d)) /\ (UnderWay(d)' <=> UnderWay(d))
  BY DEF UnderWay, Gated
<1>2. \A d \in Call : Steady(d)
  BY <1>1 DEF Steady
<1> QED BY <1>2, SteadyStep

\* The call that a registered operation belongs to keeps it, unless its window
\* has closed.
LEMMA RetainedOps ==
  ASSUME TypeOK
  PROVE  /\ DOMAIN Retained = DOMAIN ops
         /\ \A key \in DOMAIN ops : Retained[key] = IF Live(key) THEN ops[key] ELSE None
BY DEF Retained

\* The step of a call that leaves its gate: another call of the same operation
\* keeps its registration.
LEMMA EndStep ==
  ASSUME TypeOK, TypeOK', PlaceInv, OpsInv, OpsHaveOwners, NEW c \in Call,
         pc[c] \in {"prompting", "consented", "denied"}, NEW place \in {"passed", "refused"}, Goto(c, place),
         UNCHANGED <<kind, sig, expired, owner, cancelled>>, OpsFinish(c) \/ OpsRetry(c)
  PROVE  OpsInv' /\ OpsHaveOwners'
<1>0. /\ owner \in [Call -> Call] /\ DOMAIN ops' = DOMAIN ops /\ None \notin Call
      /\ \A key \in DOMAIN ops : ops[key] # None =>
           ops[key] \in Operation /\ ops[key].id \in Call /\ ops[key].attempt \in Call \cup {None}
  BY ZenonT(40), NoneAssumption DEF TypeOK, Operation
<1>1. \A d \in Call : pc'[d] = IF d = c THEN place ELSE pc[d]
  BY DEF TypeOK, Goto
<1>2. Gated(c) /\ UnderWay(c)
  BY DEF PlaceInv, UnderWay
<1>3. /\ ~(UnderWay(c)')
      /\ \A d \in Call : d # c => (UnderWay(d)' <=> UnderWay(d))
      /\ \A d \in Call : Key(d)' = Key(d) /\ (Late(d)' <=> Late(d))
  BY <1>1 DEF UnderWay, Gated, Key, Late
<1>4. Key(c) \in DOMAIN ops
  BY KeyInDomain
<1>5. \A key \in DOMAIN ops : key # Key(c) => ops'[key] = ops[key]
  BY DEF OpsFinish, OpsRetry
<1>6. PICK o : o = ops[Key(c)]
  OBVIOUS
<1>7. \/ ops'[Key(c)] = o
      \/ o # None /\ o.id = owner[c] /\ ops'[Key(c)] = None
      \/ o # None /\ o.id = owner[c] /\ o.attempt = c /\ ops'[Key(c)] = [o EXCEPT !.attempt = None]
  BY <1>4, <1>6 DEF OpsFinish, OpsRetry
<1>8. o # None => [o EXCEPT !.attempt = None].id = o.id /\ [o EXCEPT !.attempt = None].attempt = None
  BY <1>0, <1>4, <1>6 DEF Operation
<1>9. o # None /\ o.attempt = c => ops'[Key(c)] # o
  <2>1. o # None /\ o.attempt = c => owner[c] = o.id
    BY <1>0, <1>4, <1>6 DEF OpsHaveOwners
  <2>2. CASE OpsFinish(c)
    <3>1. ops'[Key(c)] = IF o # None /\ o.id = owner[c] THEN None ELSE o
      BY <1>4, <1>6, <2>2 DEF OpsFinish
    <3> QED BY <2>1, <3>1
  <2>3. CASE OpsRetry(c)
    <3>1. ops'[Key(c)] = IF o # None /\ o.id = owner[c] /\ o.attempt = c
                         THEN [o EXCEPT !.attempt = None] ELSE o
      BY <1>4, <1>6, <2>3 DEF OpsRetry
    <3> QED BY <1>0, <1>8, <2>1, <3>1
  <2> QED BY <2>2, <2>3
<1>10. \A key \in DOMAIN ops : ops'[key] # None => ops[key] # None /\ ops'[key].id = ops[key].id
  BY <1>5, <1>6, <1>7, <1>8
<1>11. ASSUME NEW key \in DOMAIN ops, ops'[key] # None, ops'[key].attempt # None
       PROVE  ops'[key] = ops[key] /\ ops[key].attempt # c
  <2>1. CASE key = Key(c)
    BY <1>6, <1>7, <1>8, <1>9, <1>11, <2>1
  <2>2. CASE key # Key(c)
    <3>1. ops'[key] = ops[key]
      BY <1>5, <2>2
    <3> QED BY <1>0, <1>11, <2>2, <3>1 DEF OpsHaveOwners
  <2> QED BY <2>1, <2>2
<1>12. ASSUME NEW key \in DOMAIN ops, ops'[key] # None, ops'[key].attempt # None,
              NEW d \in Call, d = ops'[key].attempt
       PROVE  UnderWay(d)' /\ Key(d)' = key /\ owner[d] = ops'[key].id
  <2>1. ops'[key] = ops[key] /\ d # c
    BY <1>11, <1>12
  <2>2. UnderWay(d) /\ Key(d) = key /\ owner[d] = ops[key].id
    BY <1>12, <2>1 DEF OpsHaveOwners
  <2> QED BY <1>3, <2>1, <2>2
<1>13. ASSUME NEW d \in Call, UnderWay(d)', ~(Late(d)'), ~cancelled[d]
       PROVE  ops'[Key(d)'] # None /\ ops'[Key(d)'].attempt = d
  <2>1. d # c /\ UnderWay(d) /\ ~Late(d)
    BY <1>3, <1>13
  <2>2. ops[Key(d)] # None /\ ops[Key(d)].attempt = d
    BY <1>13, <2>1 DEF OpsHaveOwners
  <2>3. Key(d) \in DOMAIN ops
    BY <2>1, KeyInDomain DEF UnderWay
  <2>4. ops'[Key(d)] = ops[Key(d)]
    <3>1. CASE Key(d) # Key(c)
      BY <1>5, <2>3, <3>1
    <3>2. CASE Key(d) = Key(c)
      <4>1. o # None /\ o.attempt = d
        BY <1>6, <2>2, <3>2
      <4>2. SUFFICES ASSUME o.id = owner[c] PROVE FALSE
        BY <1>6, <1>7, <3>2
      <4>3. owner[d] = o.id
        BY <1>0, <2>2, <2>3, <4>1, <3>2, <1>6 DEF OpsHaveOwners
      <4>4. ~Late(c)
        BY <2>1, <4>2, <4>3 DEF Late
      <4>5. ~cancelled[c]
        BY <1>2, <1>4, <1>6, <4>1, <4>2 DEF OpsInv
      <4>6. o.attempt = c
        BY <1>2, <1>6, <4>4, <4>5 DEF OpsHaveOwners
      <4> QED BY <2>1, <4>1, <4>6
    <3> QED BY <3>1, <3>2
  <2> QED BY <1>3, <2>2, <2>4
<1>14. OpsHaveOwners'
  BY <1>0, <1>11, <1>12, <1>13 DEF OpsHaveOwners
<1>15. \A d \in Call : pc[d] \in Begun => pc'[d] \in Begun
  BY <1>1 DEF Begun, Places
<1>16. /\ \A d \in Call : owner[d] # d => pc'[owner[d]] \in Begun
       /\ \A key \in DOMAIN ops : ops'[key] # None => pc'[ops'[key].id] \in Begun
  BY <1>0, <1>10, <1>15, OpsInvBegun
<1>17. \A d \in Call : UnderWay(d)' /\ cancelled[d] =>
                \A key \in DOMAIN ops : ops'[key] # None => ops'[key].id # owner[d]
  BY <1>3, <1>10 DEF OpsInv
<1>18. OpsInv'
  BY <1>0, <1>16, <1>17 DEF OpsInv, Begun
<1> QED BY <1>14, <1>18

\* Retained operations keep every call that is still in its window.
LEMMA BusyStep ==
  ASSUME TypeOK, TypeOK', PlaceInv, OpsInv, OpsHaveOwners, NEW c \in Call, pc[c] = "gated",
         ops' = Retained, Goto(c, "refused"), UNCHANGED <<kind, sig, expired, owner, cancelled>>
  PROVE  OpsInv' /\ OpsHaveOwners'
<1>0. /\ owner \in [Call -> Call] /\ DOMAIN ops' = DOMAIN ops /\ None \notin Call
      /\ \A key \in DOMAIN ops : ops[key] # None =>
           ops[key].id \in Call /\ ops[key].attempt \in Call \cup {None}
  BY NoneAssumption DEF TypeOK, Operation
<1>1. \A d \in Call : pc'[d] = IF d = c THEN "refused" ELSE pc[d]
  BY DEF TypeOK, Goto
<1>2. \A d \in Call : (UnderWay(d)' <=> UnderWay(d)) /\ Key(d)' = Key(d) /\ (Late(d)' <=> Late(d))
  BY <1>1 DEF UnderWay, Gated, Key, Late
<1>3. \A key \in DOMAIN ops : ops'[key] = IF Live(key) THEN ops[key] ELSE None
  BY RetainedOps
<1>4. \A key \in DOMAIN ops : ops'[key] # None => ops'[key] = ops[key] /\ ops[key] # None
  BY <1>3
<1>5. ASSUME NEW key \in DOMAIN ops, ops'[key] # None, ops'[key].attempt # None,
              NEW d \in Call, d = ops'[key].attempt
       PROVE  UnderWay(d)' /\ Key(d)' = key /\ owner[d] = ops'[key].id
  <2>1. UnderWay(d) /\ Key(d) = key /\ owner[d] = ops[key].id
    BY <1>4, <1>5 DEF OpsHaveOwners
  <2> QED BY <1>2, <1>4, <1>5, <2>1
<1>6. ASSUME NEW d \in Call, UnderWay(d)', ~(Late(d)'), ~cancelled[d]
       PROVE  ops'[Key(d)'] # None /\ ops'[Key(d)'].attempt = d
  <2>1. UnderWay(d) /\ ~Late(d)
    BY <1>2, <1>6
  <2>2. ops[Key(d)] # None /\ ops[Key(d)].attempt = d
    BY <1>6, <2>1 DEF OpsHaveOwners
  <2>3. Key(d) \in DOMAIN ops
    BY <2>1, KeyInDomain DEF UnderWay
  <2>4. owner[d] = ops[Key(d)].id
    BY <1>0, <2>2, <2>3 DEF OpsHaveOwners
  <2>5. Live(Key(d))
    BY <2>1, <2>2, <2>4 DEF Live, Late
  <2> QED BY <1>2, <1>3, <2>2, <2>3, <2>5
<1>7. OpsHaveOwners'
  BY <1>0, <1>4, <1>5, <1>6 DEF OpsHaveOwners
<1>8. \A d \in Call : pc[d] \in Begun => pc'[d] \in Begun
  BY <1>1 DEF Begun, Places
<1>9. /\ \A d \in Call : owner[d] # d => pc'[owner[d]] \in Begun
      /\ \A key \in DOMAIN ops : ops'[key] # None => pc'[ops'[key].id] \in Begun
  BY <1>0, <1>4, <1>8, OpsInvBegun
<1>10. \A d \in Call : UnderWay(d)' /\ cancelled[d] =>
                \A key \in DOMAIN ops : ops'[key] # None => ops'[key].id # owner[d]
  BY <1>2, <1>4 DEF OpsInv
<1>11. OpsInv'
  BY <1>0, <1>9, <1>10 DEF OpsInv, Begun
<1> QED BY <1>7, <1>11

\* A call that registers its operation, or takes over one that a retry left.
LEMMA BeginStep ==
  ASSUME TypeOK, TypeOK', PlaceInv, PromptInv, OpsInv, OpsHaveOwners, NEW c \in Call, OpsBegin(c)
  PROVE  OpsInv' /\ OpsHaveOwners'
<1>0. /\ owner \in [Call -> Call] /\ DOMAIN ops' = DOMAIN ops /\ None \notin Call
      /\ \A key \in DOMAIN ops : ops[key] # None =>
           ops[key] \in Operation /\ ops[key].id \in Call /\ ops[key].attempt \in Call \cup {None}
  BY ZenonT(40), NoneAssumption DEF TypeOK, Operation
<1>1. pc[c] = "gated" /\ (Live(Key(c)) => ops[Key(c)].attempt = None)
      /\ UNCHANGED <<kind, sig, expired, cancelled>>
  BY DEF OpsBegin, request, session
<1>2. PICK op \in [id : Call, prot : BOOLEAN, attempt : {c}] :
        /\ IF Live(Key(c)) THEN op = [ops[Key(c)] EXCEPT !.attempt = c] ELSE op.id = c
        /\ ops' = [Retained EXCEPT ![Key(c)] = op]
        /\ owner' = [owner EXCEPT ![c] = op.id]
        /\ Goto(c, IF op.prot THEN "prompting" ELSE "asking")
  BY DEF OpsBegin
<1>3. Gated(c) /\ ~UnderWay(c) /\ ~cancelled[c] /\ Key(c) \in DOMAIN ops
  <2>1. Key(c) \in DOMAIN ops
    BY <1>1, KeyInDomain
  <2>2. Gated(c) /\ ~UnderWay(c)
    BY <1>1 DEF PlaceInv, UnderWay
  <2>3. ~cancelled[c]
    BY <1>1 DEF PromptInv
  <2> QED BY <2>1, <2>2, <2>3
<1>4. op.attempt = c /\ op.id \in Call /\ op # None
  BY <1>2, NoneAssumption
<1>5. Live(Key(c)) => ops[Key(c)] # None /\ op.id = ops[Key(c)].id
  BY <1>0, <1>2, <1>3 DEF Live, Operation
<1>6. PICK place \in {"prompting", "asking"} : \A d \in Call : pc'[d] = IF d = c THEN place ELSE pc[d]
  BY <1>2 DEF TypeOK, Goto
<1>7. /\ UnderWay(c)' /\ Key(c)' = Key(c)
      /\ \A d \in Call : d # c => (UnderWay(d)' <=> UnderWay(d)) /\ Key(d)' = Key(d)
  BY <1>1, <1>3, <1>6 DEF UnderWay, Gated, Key
<1>8. \A d \in Call : owner'[d] = IF d = c THEN op.id ELSE owner[d]
  BY <1>0, <1>2
<1>9. \A d \in Call : d # c => (Late(d)' <=> Late(d))
  BY <1>0, <1>1, <1>8 DEF Late
<1>10. \A key \in DOMAIN ops :
         ops'[key] = IF key = Key(c) THEN op ELSE IF Live(key) THEN ops[key] ELSE None
  BY <1>2, <1>3, RetainedOps
<1> HIDE DEF OpsHaveOwners
<1>11. ASSUME NEW key \in DOMAIN ops, ops'[key] # None, ops'[key].attempt # None,
              NEW d \in Call, d = ops'[key].attempt
       PROVE  UnderWay(d)' /\ Key(d)' = key /\ owner'[d] = ops'[key].id
  <2>1. CASE key = Key(c)
    BY <1>4, <1>7, <1>8, <1>10, <1>11, <2>1
  <2>2. CASE key # Key(c)
    <3>1. ops'[key] = ops[key] /\ ops[key] # None
      BY <1>10, <1>11, <2>2
    <3>2. UnderWay(d) /\ Key(d) = key /\ owner[d] = ops[key].id
      BY <1>11, <3>1 DEF OpsHaveOwners
    <3>3. d # c
      BY <1>3, <3>2
    <3> QED BY <1>7, <1>8, <3>1, <3>2, <3>3
  <2> QED BY <2>1, <2>2
<1>12. ASSUME NEW d \in Call, UnderWay(d)', ~(Late(d)'), ~cancelled[d]
       PROVE  ops'[Key(d)'] # None /\ ops'[Key(d)'].attempt = d
  <2>1. CASE d = c
    BY <1>3, <1>4, <1>7, <1>10, <2>1
  <2>2. CASE d # c
    <3>1. UnderWay(d) /\ ~Late(d)
      BY <1>7, <1>9, <1>12, <2>2
    <3>2. ops[Key(d)] # None /\ ops[Key(d)].attempt = d
      BY <1>12, <3>1 DEF OpsHaveOwners
    <3>3. Key(d) \in DOMAIN ops
      BY <3>1, KeyInDomain DEF UnderWay
    <3>4. owner[d] = ops[Key(d)].id
      BY <1>0, <3>2, <3>3 DEF OpsHaveOwners
    <3>5. Live(Key(d))
      BY <3>1, <3>2, <3>4 DEF Live, Late
    <3>6. Key(d) # Key(c)
      BY <1>0, <1>1, <3>2, <3>5
    <3>7. Key(d)' = Key(d)
      BY <1>7, <2>2
    <3> QED BY <1>10, <3>2, <3>3, <3>5, <3>6, <3>7
  <2> QED BY <2>1, <2>2
<1>13. OpsHaveOwners'
  <2>1. \A key \in DOMAIN ops : ops'[key] # None /\ ops'[key].attempt # None => ops'[key].attempt \in Call
    BY <1>0, <1>4, <1>10
  <2> QED BY <1>0, <1>1, <1>11, <1>12, <2>1 DEF OpsHaveOwners
<1>14. pc'[c] \in Begun /\ pc[c] \notin Begun /\ \A d \in Call : pc[d] \in Begun => d # c /\ pc'[d] \in Begun
  BY <1>1, <1>6 DEF Begun, Places
<1>15. pc'[op.id] \in Begun
  <2>1. CASE Live(Key(c))
    BY <1>3, <1>5, <1>14, <2>1, OpsInvBegun
  <2>2. CASE ~Live(Key(c))
    BY <1>2, <1>14, <2>2
  <2> QED BY <2>1, <2>2
<1>16. \A d \in Call : owner'[d] # d => pc'[owner'[d]] \in Begun
  BY <1>0, <1>8, <1>14, <1>15, OpsInvBegun
<1>17. \A key \in DOMAIN ops : ops'[key] # None => pc'[ops'[key].id] \in Begun
  BY <1>0, <1>10, <1>14, <1>15, OpsInvBegun
<1>18. ASSUME NEW d \in Call, UnderWay(d)', cancelled[d], NEW key \in DOMAIN ops, ops'[key] # None
       PROVE  ops'[key].id # owner'[d]
  <2>1. d # c /\ UnderWay(d) /\ owner'[d] = owner[d]
    BY <1>3, <1>7, <1>8, <1>18
  <2>2. CASE key # Key(c) \/ Live(key)
    <3>1. ops[key] # None /\ ops'[key].id = ops[key].id
      BY <1>5, <1>10, <1>18, <2>2
    <3> QED BY <1>18, <2>1, <3>1 DEF OpsInv
  <2>3. CASE key = Key(c) /\ ~Live(key)
    <3>1. ops'[key].id = c
      BY <1>2, <1>10, <2>3
    <3>2. owner[d] # c
      BY <1>14, <2>1, OpsInvBegun
    <3> QED BY <2>1, <3>1, <3>2
  <2> QED BY <2>2, <2>3
<1>19. OpsInv'
  BY <1>0, <1>1, <1>16, <1>17, <1>18 DEF OpsInv, Begun
<1> QED BY <1>13, <1>19

\* Operations keep their owners: the steps of a call.
LEMMA CallOpsStep ==
  ASSUME TypeOK, TypeOK', PlaceInv, AnswerInv, PromptInv, OpsInv, OpsHaveOwners, NEW c \in Call,
         \/ \E s \in Signature : Build(c, s)
         \/ \E k \in Kinds \ {"agent"}, s \in Signature : GateStart(c, k, s)
         \/ CallStep(c)
  PROVE  OpsInv' /\ OpsHaveOwners'
<1> USE DEF session, request, prompts
<1>0. pc \in [Call -> Places] /\ kind \in [Call -> Kind \cup {None}] /\ sig \in [Call -> Signature \cup {None}]
      /\ cancelled \in [Call -> BOOLEAN] /\ expired \in [Call -> BOOLEAN] /\ owner \in [Call -> Call]
  BY DEF TypeOK
<1>00. /\ pc[c] \in {"built", "mirroring", "authorized", "attempted"} => kind[c] = "agent"
       /\ pc[c] \in {"gated", "prompting", "passed", "consented", "denied"} => Gated(c)
  BY DEF PlaceInv
<1>1. ASSUME NEW s \in Signature, Build(c, s) PROVE OpsInv' /\ OpsHaveOwners'
  <2>1. pc[c] = "idle" /\ Goto(c, "built") /\ UNCHANGED <<expired, ops, owner, cancelled>>
    BY <1>1 DEF Build
  <2>2. \A x \in Call : x # c => kind'[x] = kind[x] /\ sig'[x] = sig[x]
    BY <1>0, <1>1 DEF Build
  <2>3. \A x \in Call : pc'[x] = IF x = c THEN "built" ELSE pc[x]
    BY <1>0, <2>1 DEF Goto
  <2>4. \A x \in Call : (UnderWay(x)' <=> UnderWay(x)) /\ (UnderWay(x) => x # c)
    BY <2>1, <2>2, <2>3 DEF UnderWay, Gated
  <2>5. \A x \in Call : Steady(x)
    BY <2>1, <2>2, <2>3, <2>4 DEF Steady, Begun
  <2> QED BY <2>1, <2>5, SteadyStep
<1>2. ASSUME NEW k \in Kinds \ {"agent"}, NEW s \in Signature, GateStart(c, k, s) PROVE OpsInv' /\ OpsHaveOwners'
  <2>1. pc[c] = "idle" /\ Goto(c, "gated") /\ UNCHANGED <<expired, ops, owner, cancelled>>
    BY <1>2 DEF GateStart
  <2>2. \A x \in Call : x # c => kind'[x] = kind[x] /\ sig'[x] = sig[x]
    BY <1>0, <1>2 DEF GateStart
  <2>3. \A x \in Call : pc'[x] = IF x = c THEN "gated" ELSE pc[x]
    BY <1>0, <2>1 DEF Goto
  <2>4. \A x \in Call : (UnderWay(x)' <=> UnderWay(x)) /\ (UnderWay(x) => x # c)
    BY <2>1, <2>2, <2>3 DEF UnderWay, Gated
  <2>5. \A x \in Call : Steady(x)
    BY <2>1, <2>2, <2>3, <2>4 DEF Steady, Begun
  <2> QED BY <2>1, <2>5, SteadyStep
<1>3. CASE Authorize(c)
  <2>1. PICK place \in Begun : Goto(c, place) /\ (Gated(c) => (pc[c] \in OpPlaces <=> place \in OpPlaces))
    BY <1>00, <1>3 DEF Authorize, Begun, Places, OpPlaces, Gated
  <2>2. UNCHANGED <<kind, sig, expired, ops, owner, cancelled>>
    BY <1>3 DEF Authorize
  <2> QED BY <2>1, <2>2, SteadyMove
<1>4. CASE OpsBeginBusy(c)
  <2>1. pc[c] = "gated" /\ ops' = Retained /\ Goto(c, "refused") /\ UNCHANGED <<kind, sig, expired, owner, cancelled>>
    BY <1>4 DEF OpsBeginBusy
  <2> QED BY <2>1, BusyStep
<1>5. CASE OpsBegin(c)
  BY <1>5, BeginStep
<1>6. CASE Insert(c)
  <2>1. PICK place \in Begun : Goto(c, place) /\ (Gated(c) => (pc[c] \in OpPlaces <=> place \in OpPlaces))
    BY <1>6 DEF Insert, Begun, Places, OpPlaces, Gated
  <2>2. UNCHANGED <<kind, sig, expired, ops, owner>>
    BY <1>6 DEF Insert
  <2>3. \A d \in Call : Gated(d) => cancelled'[d] = cancelled[d]
    BY <1>6, InvalidatedSteady DEF Insert
  <2> QED BY <2>1, <2>2, <2>3, SteadyMove
<1>7. CASE Superseded(c)
  <2>1. PICK place \in Begun : Goto(c, place) /\ (Gated(c) => (pc[c] \in OpPlaces <=> place \in OpPlaces))
    BY <1>00, <1>7 DEF Superseded, Begun, Places, OpPlaces, Gated
  <2>2. UNCHANGED <<kind, sig, expired, ops, owner, cancelled>>
    BY <1>7 DEF Superseded
  <2> QED BY <2>1, <2>2, SteadyMove
<1>8. CASE Emit(c)
  <2>1. PICK place \in Begun : Goto(c, place) /\ (Gated(c) => (pc[c] \in OpPlaces <=> place \in OpPlaces))
    BY <1>00, <1>8 DEF Emit, Begun, Places, OpPlaces, Gated, Return
  <2>2. UNCHANGED <<kind, sig, expired, ops, owner, cancelled>>
    BY <1>8 DEF Emit
  <2> QED BY <2>1, <2>2, SteadyMove
<1>9. CASE Mirror(c)
  <2>1. PICK place \in Begun : Goto(c, place) /\ (Gated(c) => (pc[c] \in OpPlaces <=> place \in OpPlaces))
    BY <1>00, <1>9 DEF Mirror, Begun, Places, OpPlaces, Gated
  <2>2. UNCHANGED <<kind, sig, expired, ops, owner, cancelled>>
    BY <1>9 DEF Mirror
  <2> QED BY <2>1, <2>2, SteadyMove
<1>10. CASE Decided(c)
  <2>1. PICK place \in Begun : Goto(c, place) /\ (Gated(c) => (pc[c] \in OpPlaces <=> place \in OpPlaces))
    BY <1>00, <1>10 DEF Decided, Begun, Places, OpPlaces, Gated, Return
  <2>2. UNCHANGED <<kind, sig, expired, ops, owner, cancelled>>
    BY <1>10 DEF Decided
  <2> QED BY <2>1, <2>2, SteadyMove
<1>11. CASE TimeOut(c)
  <2>1. PICK place \in Begun : Goto(c, place) /\ (Gated(c) => (pc[c] \in OpPlaces <=> place \in OpPlaces))
    BY <1>11 DEF TimeOut, Begun, Places, OpPlaces, Gated, Return
  <2>2. UNCHANGED <<kind, sig, expired, ops, owner>>
    BY <1>11 DEF TimeOut
  <2>3. \A d \in Call : Gated(d) => cancelled'[d] = cancelled[d]
    BY <1>11, InvalidatedSteady DEF TimeOut
  <2> QED BY <2>1, <2>2, <2>3, SteadyMove
<1>12. CASE Reap(c)
  <2>1. PICK place \in Begun : Goto(c, place) /\ (Gated(c) => (pc[c] \in OpPlaces <=> place \in OpPlaces))
    BY <1>00, <1>12 DEF Reap, Begun, Places, OpPlaces, Gated, Return
  <2>2. UNCHANGED <<kind, sig, expired, ops, owner, cancelled>>
    BY <1>12 DEF Reap
  <2> QED BY <2>1, <2>2, SteadyMove
<1>13. CASE RecordAttempted(c)
  <2>1. PICK place \in Begun : Goto(c, place) /\ (Gated(c) => (pc[c] \in OpPlaces <=> place \in OpPlaces))
    BY <1>00, <1>13 DEF RecordAttempted, Begun, Places, OpPlaces, Gated
  <2>2. UNCHANGED <<kind, sig, expired, ops, owner, cancelled>>
    BY <1>13 DEF RecordAttempted
  <2> QED BY <2>1, <2>2, SteadyMove
<1>14. CASE Execute(c)
  <2>1. PICK place \in Begun : Goto(c, place) /\ (Gated(c) => (pc[c] \in OpPlaces <=> place \in OpPlaces))
    BY <1>00, <1>14 DEF Execute, Begun, Places, OpPlaces, Gated
  <2>2. UNCHANGED <<kind, sig, expired, ops, owner, cancelled>>
    BY <1>14 DEF Execute
  <2> QED BY <2>1, <2>2, SteadyMove
<1>15. CASE RecordOutcome(c)
  <2>1. PICK place \in Begun : Goto(c, place) /\ (Gated(c) => (pc[c] \in OpPlaces <=> place \in OpPlaces))
    BY <1>00, <1>15 DEF RecordOutcome, Begun, Places, OpPlaces, Gated
  <2>2. UNCHANGED <<kind, sig, expired, ops, owner, cancelled>>
    BY <1>15 DEF RecordOutcome
  <2> QED BY <2>1, <2>2, SteadyMove
<1>16. CASE GateEnds(c)
  <2>1. pc[c] \in {"prompting", "consented", "denied"} /\ UNCHANGED <<kind, sig, expired, owner, cancelled>>
    BY <1>16 DEF GateEnds
  <2>2. PICK place \in {"passed", "refused"} : Goto(c, place)
    BY <1>16 DEF GateEnds
  <2>3. OpsFinish(c) \/ OpsRetry(c)
    BY <1>16 DEF GateEnds
  <2> QED BY <2>1, <2>2, <2>3, EndStep
<1>17. CASE Consume(c)
  <2>1. PICK place \in Begun : Goto(c, place) /\ (Gated(c) => (pc[c] \in OpPlaces <=> place \in OpPlaces))
    BY <1>00, <1>17 DEF Consume, Begun, Places, OpPlaces, Gated
  <2>2. UNCHANGED <<kind, sig, expired, ops, owner, cancelled>>
    BY <1>17 DEF Consume
  <2> QED BY <2>1, <2>2, SteadyMove
<1>18. CASE ConsumeUnlock(c)
  <2>1. PICK place \in Begun : Goto(c, place) /\ (Gated(c) => (pc[c] \in OpPlaces <=> place \in OpPlaces))
    BY <1>00, <1>18 DEF ConsumeUnlock, Begun, Places, OpPlaces, Gated
  <2>2. UNCHANGED <<kind, sig, expired, ops, owner, cancelled>>
    BY <1>18 DEF ConsumeUnlock
  <2> QED BY <2>1, <2>2, SteadyMove
<1> QED BY <1>1, <1>2, <1>3, <1>4, <1>5, <1>6, <1>7, <1>8, <1>9, <1>10, <1>11, <1>12, <1>13, <1>14, <1>15, <1>16, <1>17, <1>18 DEF CallStep

\* Operations keep their owners: the user, the prompts and the clock.
LEMMA ResponderOpsStep ==
  ASSUME TypeOK, TypeOK', PlaceInv, AnswerInv, PromptInv, OpsInv, OpsHaveOwners, NEW c \in Call,
         ResponderStep(c) \/ UserStep(c) \/ Deadline(c)
  PROVE  OpsInv' /\ OpsHaveOwners'
<1> USE DEF session, request, prompts
<1>0. pc \in [Call -> Places] /\ kind \in [Call -> Kind \cup {None}] /\ sig \in [Call -> Signature \cup {None}]
      /\ cancelled \in [Call -> BOOLEAN] /\ expired \in [Call -> BOOLEAN] /\ owner \in [Call -> Call]
  BY DEF TypeOK
<1>00. /\ pc[c] \in {"built", "mirroring", "authorized", "attempted"} => kind[c] = "agent"
       /\ pc[c] \in {"gated", "prompting", "passed", "consented", "denied"} => Gated(c)
  BY DEF PlaceInv
<1>1. CASE RecordRefusal(c)
  <2>1. UNCHANGED <<pc, kind, sig, ops, owner, cancelled, expired>>
    BY <1>1 DEF RecordRefusal
  <2> QED BY <2>1, SteadyStay
<1>2. CASE VerifyReturns(c)
  <2>1. UNCHANGED <<pc, kind, sig, ops, owner, cancelled, expired>>
    BY <1>2 DEF VerifyReturns
  <2> QED BY <2>1, SteadyStay
<1>3. CASE FinishDiscarded(c)
  <2>1. UNCHANGED <<pc, kind, sig, ops, owner, cancelled, expired>>
    BY <1>3 DEF FinishDiscarded
  <2> QED BY <2>1, SteadyStay
<1>4. CASE FinishVerified(c)
  <2>1. UNCHANGED <<pc, kind, sig, ops, owner, cancelled, expired>>
    BY <1>4 DEF FinishVerified
  <2> QED BY <2>1, SteadyStay
<1>5. CASE FinishRetryable(c)
  <2>1. UNCHANGED <<pc, kind, sig, ops, owner, cancelled, expired>>
    BY <1>5 DEF FinishRetryable
  <2> QED BY <2>1, SteadyStay
<1>6. CASE FinishDenied(c)
  <2>1. UNCHANGED <<pc, kind, sig, ops, owner, cancelled, expired>>
    BY <1>6 DEF FinishDenied
  <2> QED BY <2>1, SteadyStay
<1>7. CASE Refuse(c)
  <2>1. UNCHANGED <<pc, kind, sig, ops, owner, expired>>
    BY <1>7 DEF Refuse
  <2>2. \A d \in Call : Gated(d) => cancelled'[d] = cancelled[d]
    BY <1>7, InvalidatedSteady DEF Refuse
  <2> QED BY <2>1, <2>2, SteadyStay
<1>8. CASE RefuseFromTray(c)
  <2>1. UNCHANGED <<pc, kind, sig, ops, owner, expired>>
    BY <1>8 DEF RefuseFromTray
  <2>2. \A d \in Call : Gated(d) => cancelled'[d] = cancelled[d]
    BY <1>8, InvalidatedSteady DEF RefuseFromTray
  <2> QED BY <2>1, <2>2, SteadyStay
<1>9. CASE RespondLate(c)
  <2>1. UNCHANGED <<pc, kind, sig, ops, owner, expired>>
    BY <1>9 DEF RespondLate
  <2>2. \A d \in Call : Gated(d) => cancelled'[d] = cancelled[d]
    BY <1>9, InvalidatedSteady DEF RespondLate
  <2> QED BY <2>1, <2>2, SteadyStay
<1>10. CASE RespondClick(c)
  <2>1. UNCHANGED <<pc, kind, sig, ops, owner, cancelled, expired>>
    BY <1>10 DEF RespondClick
  <2> QED BY <2>1, SteadyStay
<1>11. CASE RespondBegin(c)
  <2>1. UNCHANGED <<pc, kind, sig, ops, owner, cancelled, expired>>
    BY <1>11 DEF RespondBegin
  <2> QED BY <2>1, SteadyStay
<1>12. CASE Deadline(c)
  <2>1. UNCHANGED <<pc, kind, sig, ops, owner, cancelled>> /\ \A d \in Call : expired[d] => expired'[d]
    BY <1>0, <1>12 DEF Deadline
  <2> QED BY <2>1, SteadyStay
<1> QED BY <1>1, <1>2, <1>3, <1>4, <1>5, <1>6, <1>7, <1>8, <1>9, <1>10, <1>11, <1>12 DEF ResponderStep, UserStep

\* Operations keep their owners: the session.
LEMMA SessionOpsStep ==
  ASSUME TypeOK, TypeOK', PlaceInv, AnswerInv, OpsInv, OpsHaveOwners, SessionStep
  PROVE  OpsInv' /\ OpsHaveOwners'
<1>0. UNCHANGED <<pc, kind, sig, owner, expired>>
  BY SessionFrame
<1>1. CASE ClearAll
  <2>1. UNCHANGED ops /\ \A d \in Call : Gated(d) => cancelled'[d] = cancelled[d]
    BY <1>1, InvalidatedSteady DEF ClearAll
  <2> QED BY <1>0, <2>1, SteadyStay
<1>2. CASE UNCHANGED <<ops, cancelled>>
  BY <1>0, <1>2, SteadyStay
<1>3. CASE ClearOps
  <2>1. DOMAIN ops' = DOMAIN ops /\ \A key \in DOMAIN ops : ops'[key] = None
    BY <1>3 DEF ClearOps
  <2>2. \A d \in Call : cancelled'[d] <=>
          (cancelled[d] \/ \E key \in DOMAIN ops : ops[key] # None /\ ops[key].attempt = d)
    BY <1>3 DEF ClearOps, TypeOK
  <2>3. \A d \in Call : (UnderWay(d)' <=> UnderWay(d)) /\ Key(d)' = Key(d) /\ (Late(d)' <=> Late(d))
    BY <1>0 DEF UnderWay, Gated, Key, Late
  <2>4. ASSUME NEW d \in Call, UnderWay(d), ~Late(d), ~cancelled'[d] PROVE FALSE
    <3>1. ~cancelled[d]
      BY <2>2, <2>4
    <3>2. ops[Key(d)] # None /\ ops[Key(d)].attempt = d
      BY <2>4, <3>1 DEF OpsHaveOwners
    <3>3. Key(d) \in DOMAIN ops
      BY <2>4, KeyInDomain DEF UnderWay
    <3> QED BY <2>2, <2>4, <3>2, <3>3
  <2>5. OpsHaveOwners'
    BY <2>1, <2>3, <2>4 DEF OpsHaveOwners
  <2>6. OpsInv'
    BY <1>0, <2>1 DEF OpsInv
  <2> QED BY <2>5, <2>6
<1> QED BY <1>1, <1>2, <1>3, SessionFrame

\* What the user, the prompts and the clock leave alone: the calls' places,
\* what they are and in which epoch they ran.
LEMMA ResponderFrame ==
  ASSUME PlaceInv, EpochInv, NEW c \in Call, ResponderStep(c) \/ UserStep(c) \/ Deadline(c)
  PROVE  PlaceInv' /\ EpochInv'
<1>1. UNCHANGED <<pc, kind, sig, saw, prot, owner, ran>>
  BY DEF ResponderStep, UserStep, RecordRefusal, VerifyReturns, FinishDiscarded, FinishVerified,
         FinishRetryable, FinishDenied, Refuse, RefuseFromTray, RespondLate, RespondClick, RespondBegin,
         Deadline, request, session, prompts
<1> QED BY <1>1 DEF PlaceInv, EpochInv, Gated

\* The records of the next state, as the two invariants.
LEMMA RecordsPrimed == RecordsInv' => RecordInv' /\ OneDecision'
BY DEF RecordsInv, RecordInv, OneDecision, Records, Count

\* The invariant holds when the desktop starts.
LEMMA ApprovalsInit == Init => ApprovalsInv
<1> SUFFICES ASSUME Init PROVE ApprovalsInv
  OBVIOUS
<1> USE NoneAssumption
<1>1. TypeOK
  <2>1. unlocked \in BOOLEAN /\ epoch \in Nat /\ pending \in SUBSET Call
    BY DEF Init
  <2>2. pc \in [Call -> Places] /\ kind \in [Call -> Kind \cup {None}] /\ sig \in [Call -> Signature \cup {None}]
        /\ saw \in [Call -> Nat] /\ owner \in [Call -> Call]
    BY DEF Init, Places
  <2>3. prot \in [Call -> BOOLEAN] /\ expired \in [Call -> BOOLEAN] /\ cancelled \in [Call -> BOOLEAN]
    BY DEF Init
  <2>4. gate \in [Call -> GateState] /\ old \in [Call -> Call \cup {None}] /\ sent \in [Call -> BOOLEAN \cup {None}]
    BY DEF Init, GateState
  <2>5. resp \in [Call -> {"none", "verifying", "Verified", "Retryable", "Denied"}]
        /\ after \in [Call -> {"none", "record", "record, drop"}]
    BY DEF Init
  <2>6. ops \in [Kind \X Signature -> Operation \cup {None}] /\ ran \in [Call -> Nat \cup {None}]
    BY DEF Init
  <2>7. log \in [Call -> Seq(Note)]
    BY DEF Init
  <2> QED BY <2>1, <2>2, <2>3, <2>4, <2>5, <2>6, <2>7 DEF TypeOK
<1>2. PlaceInv /\ AnswerInv /\ PromptInv
  BY DEF Init, PlaceInv, AnswerInv, PromptInv, Gated, Early, Kind
<1>3. ConsentInv /\ EpochInv
  BY DEF Init, ConsentInv, EpochInv
<1>4. TicketInv
  BY DEF Init, TicketInv
<1>5. RecordInv /\ OneDecision
  <2>1. ASSUME NEW x \in Call, NEW N PROVE Count(x, N) = 0
    <3>1. {i \in DOMAIN log[x] : log[x][i] \in N} = {}
      BY DEF Init
    <3> QED BY <3>1, FS_EmptySet DEF Count, Tally
  <2>2. \A x \in Call : sent[x] = None /\ ran[x] = None /\ pc[x] = "idle"
    BY DEF Init
  <2>3. None # TRUE /\ None # FALSE
    OBVIOUS
  <2>4. RecordInv
    BY <2>1, <2>2 DEF RecordInv
  <2>5. OneDecision
    <3>1. \A x \in Call : ~(sent[x] = TRUE) /\ ~(sent[x] = FALSE)
      BY <2>2, <2>3
    <3>2. \A x \in Call : Count(x, {"Allowed", "Denied"}) <= 1 /\ Count(x, {"Ran", "NotRun"}) <= 1
      BY <2>1
    <3> QED BY <3>1, <3>2 DEF OneDecision
  <2> QED BY <2>4, <2>5
<1>6. OpsInv /\ OpsHaveOwners
  BY DEF Init, OpsInv, OpsHaveOwners, UnderWay
<1> QED BY <1>1, <1>2, <1>3, <1>4, <1>5, <1>6 DEF ApprovalsInv

\* Every step of the calls, the user, the prompts, the clock and the session
\* keeps it.
LEMMA ApprovalsStep ==
  ASSUME ApprovalsInv, [Next]_vars
  PROVE  ApprovalsInv'
<1> USE DEF ApprovalsInv
<1>0. RecordsInv
  BY RecordsOfCalls DEF RecordsInv
<1>1. ASSUME NEW c \in Call,
             \/ \E s \in Signature : Build(c, s)
             \/ \E k \in Kinds \ {"agent"}, s \in Signature : GateStart(c, k, s)
             \/ CallStep(c)
      PROVE  ApprovalsInv'
  <2>1. TypeOK'
    BY <1>1, CallTypeStep
  <2>2. PlaceInv' /\ AnswerInv' /\ PromptInv'
    BY <1>1, CallPlaceStep, CallAnswerStep, CallPromptStep
  <2>3. ConsentInv' /\ EpochInv' /\ TicketInv'
    BY <1>1, CallConsentStep, CallEpochStep, CallTicketStep
  <2>4. RecordsInv'
    BY <1>0, <1>1, CallRecordStep
  <2>5. OpsInv' /\ OpsHaveOwners'
    BY <1>1, <2>1, CallOpsStep
  <2> QED BY <2>1, <2>2, <2>3, <2>4, <2>5, RecordsPrimed
<1>2. ASSUME NEW c \in Call, ResponderStep(c) \/ UserStep(c) \/ Deadline(c)
      PROVE  ApprovalsInv'
  <2>1. TypeOK'
    BY <1>2, ResponderTypeStep
  <2>2. PlaceInv' /\ EpochInv'
    BY <1>2, ResponderFrame
  <2>3. AnswerInv' /\ PromptInv' /\ ConsentInv' /\ TicketInv'
    BY <1>2, ResponderAnswerStep, ResponderPromptStep, ResponderConsentStep, ResponderTicketStep
  <2>4. RecordsInv'
    BY <1>0, <1>2, ResponderRecordStep
  <2>5. OpsInv' /\ OpsHaveOwners'
    BY <1>2, <2>1, ResponderOpsStep
  <2> QED BY <2>1, <2>2, <2>3, <2>4, <2>5, RecordsPrimed
<1>3. CASE SessionStep
  <2>1. TypeOK'
    BY <1>3, SessionTypeStep
  <2>2. PlaceInv' /\ EpochInv'
    BY <1>3, SessionFrame DEF PlaceInv, EpochInv, Gated
  <2>3. AnswerInv' /\ PromptInv' /\ ConsentInv' /\ TicketInv'
    BY <1>3, SessionAnswerStep, SessionPromptStep, SessionConsentStep, SessionTicketStep
  <2>4. RecordsInv'
    BY <1>0, <1>3, SessionRecordStep
  <2>5. OpsInv' /\ OpsHaveOwners'
    BY <1>3, <2>1, SessionOpsStep
  <2> QED BY <2>1, <2>2, <2>3, <2>4, <2>5, RecordsPrimed
<1>4. CASE UNCHANGED vars
  <2> USE <1>4 DEF vars, session, request, prompts
  <2>1. TypeOK'
    BY DEF TypeOK
  <2>2. PlaceInv' /\ AnswerInv' /\ PromptInv'
    BY DEF PlaceInv, AnswerInv, PromptInv, Gated
  <2>3. ConsentInv' /\ EpochInv' /\ TicketInv'
    BY DEF ConsentInv, EpochInv, TicketInv, Gated
  <2>4. RecordInv' /\ OneDecision'
    BY DEF RecordInv, OneDecision, Count, Undecided
  <2>5. OpsInv' /\ OpsHaveOwners'
    BY DEF OpsInv, OpsHaveOwners, UnderWay, Gated, Key, Late
  <2> QED BY <2>1, <2>2, <2>3, <2>4, <2>5
<1>5. Next => \/ \E c \in Call :
                   \/ \E s \in Signature : Build(c, s)
                   \/ \E k \in Kinds \ {"agent"}, s \in Signature : GateStart(c, k, s)
                   \/ CallStep(c) \/ ResponderStep(c) \/ UserStep(c) \/ Deadline(c)
              \/ SessionStep
  BY DEF Next, SessionStep
<1> QED BY <1>1, <1>2, <1>3, <1>4, <1>5

\* The invariant of the approvals holds in every reachable state, for any
\* number of calls, signatures and unlocks.
THEOREM ApprovalsInvariant == Spec => []ApprovalsInv
BY ApprovalsInit, ApprovalsStep, PTL DEF Spec

\* One decision on record for one request (ApprovalState, reap_timeout, respond,
\* clear_all), whichever of the user, the clock, the lock path and a newer twin
\* end it, and never one that contradicts the answer.
THEOREM ApprovalsOneDecision == Spec => []OneDecision
<1>1. ApprovalsInv => OneDecision
  BY DEF ApprovalsInv
<1> QED BY <1>1, ApprovalsInvariant, PTL

\* What is executed was consented to, behind the OS prompt when it is protected
\* (respond, desktop_presence_gate, with_gated_handle, call_tool).
THEOREM ApprovalsConsent == Spec => []ExecutedWithConsent
<1>1. ApprovalsInv => ExecutedWithConsent
  <2> SUFFICES ASSUME ApprovalsInv, NEW c \in Call, ran[c] # None
               PROVE  /\ Gated(c) /\ prot[c] => resp[c] = "Verified"
                      /\ ~(Gated(c) /\ prot[c]) => sent[c] = TRUE
                      /\ kind[c] = "agent" =>
                           /\ prot[c] => gate[c] = "Authenticated"
                           /\ Count(c, {"Attempted"}) = 1
    BY DEF ExecutedWithConsent
  <2>1. IF Gated(c) /\ prot[c] THEN resp[c] = "Verified" ELSE sent[c] = TRUE
    BY DEF ApprovalsInv, ConsentInv
  <2>2. kind[c] = "agent" => Count(c, {"Attempted"}) = 1
    BY DEF ApprovalsInv, RecordInv
  <2>3. sent[c] = TRUE /\ prot[c] => gate[c] = "Authenticated"
    BY DEF ApprovalsInv, AnswerInv
  <2>4. kind[c] = "agent" => ~Gated(c)
    BY DEF Gated
  <2> QED BY <2>1, <2>2, <2>3, <2>4
<1> QED BY <1>1, ApprovalsInvariant, PTL

\* A gated operation runs in the unlock it was confirmed in (with_gated_handle,
\* vault_unlock), wherever locks, unlocks and rollbacks fall.
THEOREM ApprovalsGatedEpoch == Spec => []GatedInItsEpoch
<1>1. ApprovalsInv => GatedInItsEpoch
  BY DEF ApprovalsInv, EpochInv, GatedInItsEpoch
<1> QED BY <1>1, ApprovalsInvariant, PTL

\* A prompt never outlives its request (invalidate_entry, DesktopOps::clear).
THEOREM ApprovalsPrompts == Spec => []PromptHasRequest
<1>1. ApprovalsInv => PromptHasRequest
  <2> SUFFICES ASSUME ApprovalsInv, NEW c \in Call, resp[c] = "verifying"
               PROVE  \/ c \in pending /\ gate[c] = "Verifying"
                      \/ cancelled[c] \/ Late(c)
                      \/ pc[c] = "prompting" /\ ops[Key(c)] # None /\ ops[Key(c)].attempt = c
    BY DEF PromptHasRequest
  <2>1. CASE gate[c] = "Verifying"
    BY <2>1 DEF ApprovalsInv, PromptInv
  <2>2. CASE pc[c] = "prompting"
    <3>1. UnderWay(c)
      BY <2>2 DEF ApprovalsInv, PlaceInv, UnderWay
    <3> QED BY <2>2, <3>1 DEF ApprovalsInv, OpsHaveOwners
  <2> QED BY <2>1, <2>2 DEF ApprovalsInv, PromptInv
<1> QED BY <1>1, ApprovalsInvariant, PTL

\* A desktop operation is verified by one call at a time, and a call under way
\* keeps its registration (DesktopOps::begin, finish, retry, clear).
THEOREM ApprovalsOpsHaveOwners == Spec => []OpsHaveOwners
<1>1. ApprovalsInv => OpsHaveOwners
  BY DEF ApprovalsInv
<1> QED BY <1>1, ApprovalsInvariant, PTL

=============================================================================
