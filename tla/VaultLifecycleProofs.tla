------------------------ MODULE VaultLifecycleProofs ------------------------
(***************************************************************************)
(* What the journal of a vault's lifecycle keeps true, for every number of *)
(* files, stores, passphrases, crashes, I/O errors, late errors, mistyped  *)
(* passphrases and lost keychain entries: until the removal of a           *)
(* rotation's journal reports an error although the journal is gone, every *)
(* file and all material can be decrypted at every point of every          *)
(* operation, and at rest there is one DEK.                                *)
(*                                                                         *)
(* A crash may drop an operation between any two of its steps, so what     *)
(* makes the vault recoverable is a fact about the disk alone: what each   *)
(* kind of journal says of the keyring, the bundle, the material and the   *)
(* files (DiskInv).  That a step keeps it depends on the steps taken       *)
(* before, which JobInv reads off the part of the plan still to do.        *)
(***************************************************************************)
EXTENDS VaultLifecycle, TLAPS

-----------------------------------------------------------------------------
(* The windows in which the code lets go of a rotation.  One is a          *)
(* condition on a behaviour: a handle out of step with the disk (a         *)
(* finding).  The other is in the statements: the one error after which    *)
(* rotate_key rolls back without a journal (commitFailed).                 *)

\* The handle of a rotation that could not be rolled back is out of step
\* with the disk.
Stale == JournalOp = "Rotate" \/ session.active # keyring.active

\* Such a handle is only locked: rotate_key says "unlock normal custody to
\* resume recovery".
StaleHandlesAreDropped == [][Unlocked /\ Stale => Lock]_vars

VaultSpec == Spec /\ StaleHandlesAreDropped

-----------------------------------------------------------------------------
(* Types.                                                                  *)

DiskTypeOK ==
  /\ salt \in Nat \cup {None} /\ keychain \in Kek \cup {None}
  /\ keyring \in Keyring \cup {None} /\ staged \in Keyring \cup {None}
  /\ journal \in LifecycleJournal \cup {None}
  /\ recovery \in Sealed \cup {None}
  /\ material \in [StoreNames -> SUBSET DekId]
  /\ files \in [File -> Sealed \cup {None}]
  /\ deks \in 0..MaxDek /\ salts \in Nat /\ keks \in Nat /\ late \in Nat

JobTypeOK ==
  /\ session \in Handle \cup {None} /\ job \in Operation \cup {None}
  /\ job # None /\ job.op # "unlock" => job.kek \in Kek

VaultTypeOK == DiskTypeOK /\ JobTypeOK

-----------------------------------------------------------------------------
(* The disk, whatever operation was interrupted on it.                     *)

FilesOn(v, d) ==
  \A f \in File : files[f] \in {None, [version |-> v, dek |-> d]}

\* Bundle, material and files are on the active DEK, the newest one.
Whole ==
  /\ keyring # None
  /\ keyring.active \in DOMAIN keyring.entries
  /\ keyring.active <= deks
  /\ \A v \in DOMAIN keyring.entries : v <= keyring.active
  /\ recovery = [version |-> keyring.active, dek |-> ActiveDek(keyring)]
  /\ FilesOn(keyring.active, ActiveDek(keyring))
  /\ \A s \in StoreNames : material[s] \subseteq {ActiveDek(keyring)}

\* No data yet.
Empty ==
  /\ \A f \in File : files[f] = None
  /\ \A s \in StoreNames : s # "identity" => material[s] = {}

\* Everything is on the old DEK or, if the keyring holds it, on the new one.
On(v) == [version |-> v, dek |-> Dek(keyring, v)]

Mixed(old, new, backup) ==
  LET live == {old, new} \cap DOMAIN keyring.entries IN
  /\ keyring # None /\ new = old + 1 /\ new <= deks
  /\ old \in DOMAIN keyring.entries
  /\ keyring.active \in live
  /\ \A v \in DOMAIN keyring.entries : v <= old \/ v = new
  /\ backup = On(old)
  /\ \E v \in live : recovery = On(v)
  /\ \A f \in File : files[f] = None \/ \E v \in live : files[f] = On(v)
  /\ \A s \in StoreNames : \A d \in material[s] :
       \E v \in live : d = Dek(keyring, v)

SameDeks(a, b) == a.active = b.active /\ Keys(a) = Keys(b)

StagedSame == staged # None => SameDeks(staged, keyring)

DiskInv ==
  /\ journal = None => Whole \/ (Empty /\ keyring = None)
  /\ BootstrapPending(FALSE) => Empty
  /\ BootstrapPending(TRUE) => Whole
  /\ JournalOp \in {"ChangePassphrase", "MoveToKeychain"} =>
       Whole /\ StagedSame
  /\ JournalOp = "Rotate" =>
       Mixed(journal.old_version, journal.new_version, journal.backup)

\* A handle knows the DEK of its version, if the keyring still holds it.
SessionInv ==
  session # None =>
    /\ keyring # None /\ ~BootstrapPending(FALSE)
    /\ session.active \in DOMAIN keyring.entries =>
         /\ session.active \in DOMAIN session.keys
         /\ session.keys[session.active] = Dek(keyring, session.active)

-----------------------------------------------------------------------------
(* The plan: the order of its steps, and what those that are no longer to  *)
(* do have achieved.                                                       *)

In(x, p) == \E k \in DOMAIN p : p[k] = x

ToDo(x) == In(x, job.plan)

\* Where in a plan a step stands; the stores share a place.
Rank(x) ==
  CASE x = "rm_keyring" -> 1
    [] x = "rm_recovery" -> 2
    [] x = "rm_identity" -> 3
    [] x = "rm_journal" -> 4
    [] x \in {"bootstrap_journal", "stage", "rotate_journal",
              "rollback_load"} -> 5
    [] x \in {"keyring", "change_journal", "move_journal",
              "add_active_dek"} -> 6
    [] x \in {"create_identity", "commit", "rotate_open",
              "rollback_open"} -> 7
    [] x = "files" -> 8
    [] x \in StoreNames -> 9
    [] x = "recovery" -> 10
    [] x \in {"phrase_journal", "backup"} -> 11
    [] x = "set_active" -> 12
    [] x = "remove_version" -> 13
    [] x = "unjournal" -> 14
    [] OTHER -> 0

\* A step of rank 0 may stand anywhere, and rollback_rotation activates the
\* old version twice, the first time before the rest.
InOrder(x, y) ==
  \/ Rank(x) = 0 \/ Rank(y) = 0 \/ x = "set_active"
  \/ Rank(x) < Rank(y)
  \/ {x, y} \subseteq StoreNames

Ordered(p) == \A i, j \in DOMAIN p : i < j => InOrder(p[i], p[j])

(* The steps of each operation.                                            *)

RemoveSteps ==
  {"rm_manifest", "rm_keyring", "rm_staged", "rm_recovery", "rm_identity",
   "unsalt", "rm_keychain", "rm_journal"}
CreateSteps ==
  {"bootstrap_journal", "salt", "keychain", "keyring", "create_identity",
   "manifest", "recovery", "phrase_journal", "audit", "unjournal"}
ChangeSteps == {"stage", "change_journal", "salt", "commit", "unjournal"}
MoveSteps ==
  {"stage", "move_journal", "keychain", "load_staged", "commit", "unsalt",
   "unjournal"}
RotateSteps ==
  {"rotate_journal", "add_active_dek", "rotate_open", "files", "recovery",
   "unjournal"} \cup StoreNames
RollbackSteps ==
  {"set_active", "rollback_open", "files", "backup", "remove_version"}
    \cup StoreNames
UnlockSteps ==
  {"open", "audit", "unjournal", "discard", "commit", "unsalt", "keychain",
   "replace", "rollback_load"} \cup RollbackSteps

StepsOf(op) ==
  CASE op = "bootstrap" -> RemoveSteps \cup CreateSteps
    [] op = "unlock" -> UnlockSteps
    [] op = "change" -> ChangeSteps
    [] op = "move" -> MoveSteps
    [] op = "rotate" -> RotateSteps
    [] op = "rollback" ->
         {"rollback_load", "reload", "unjournal"} \cup RollbackSteps

PlanInv ==
  job # None =>
    /\ Ordered(job.plan)
    /\ \A x : ToDo(x) => x \in StepsOf(job.op)
    /\ job.op \in {"bootstrap", "unlock"} <=> session = None

BootstrapInv ==
  job.op = "bootstrap" =>
    /\ job.custody # "recovery"
    /\ ToDo("rm_journal") =>
         /\ BootstrapPending(FALSE) /\ ToDo("bootstrap_journal")
         /\ ~ToDo("rm_keyring") => keyring = None
    /\ \A x \in {"rm_keyring", "rm_recovery", "rm_identity"} :
         ToDo(x) => ToDo("rm_journal")
    /\ \A x \in {"keyring", "create_identity", "recovery"} :
         ToDo(x) => ToDo("phrase_journal")
    /\ ToDo("bootstrap_journal") => ToDo("rm_journal") \/ journal = None
    /\ ToDo("bootstrap_journal") =>
         \A x \in {"keyring", "create_identity", "recovery",
                   "phrase_journal"} : ToDo(x)
    /\ ~ToDo("bootstrap_journal") /\ ToDo("phrase_journal") =>
         /\ BootstrapPending(FALSE) /\ job.dek \in 1..deks /\ job.new = 1
         /\ ~ToDo("keyring") => keyring = create(job.kek, job.dek, 1)
         /\ ~ToDo("create_identity") => material["identity"] = {job.dek}
         /\ ~ToDo("recovery") => recovery = [version |-> 1, dek |-> job.dek]
    /\ ~ToDo("phrase_journal") =>
         Whole /\ (journal = None \/ BootstrapPending(TRUE))

UnlockInv ==
  job.op = "unlock" =>
    /\ keyring # None /\ ~BootstrapPending(FALSE)
    /\ ToDo("commit") => JournalOp \in {"ChangePassphrase", "MoveToKeychain"}
    /\ ToDo("replace") \/ job.custody = "recovery" =>
         /\ Whole /\ JournalOp \in {"none", "Bootstrap"}
         /\ job.dek = ActiveDek(keyring)

ChangeInv ==
  job.op \in {"change", "move"} =>
    /\ Whole /\ JournalOp # "Rotate"
    /\ ~ToDo("stage") => StagedSame

RotateInv ==
  job.op = "rotate" =>
    /\ ToDo("rotate_journal") =>
         /\ journal = None /\ Whole
         /\ job.old = keyring.active
         /\ job.new = job.old + 1 /\ job.new <= deks
         /\ job.wrap = ActiveDek(keyring) /\ job.backup = recovery
         /\ session.active = job.old
         /\ \A x \in RotateSteps : ToDo(x)
    /\ ~ToDo("rotate_journal") /\ ToDo("unjournal") =>
         /\ JournalOp = "Rotate"
         /\ journal = [op |-> "Rotate", old_version |-> job.old,
                       new_version |-> job.new, backup |-> job.backup]
         /\ job.wrap = Dek(keyring, job.old)
         /\ ToDo("add_active_dek") =>
              /\ job.new \notin DOMAIN keyring.entries
              /\ session.active = job.old
              /\ \A x \in RotateSteps \ {"rotate_journal"} : ToDo(x)
         /\ ~ToDo("add_active_dek") =>
              /\ job.new \in DOMAIN keyring.entries /\ keyring.active = job.new
              /\ Dek(keyring, job.new) = job.dek
         /\ ~ToDo("files") => FilesOn(job.new, job.dek)
         /\ \A s \in StoreNames : ~ToDo(s) => material[s] \subseteq {job.dek}
         /\ ~ToDo("recovery") =>
              recovery = [version |-> job.new, dek |-> job.dek]
    /\ job.dek \in DekId
    /\ ToDo("unjournal") \/ \A x : ~ToDo(x)

RollbackInv ==
  job.op \in {"unlock", "rollback"} =>
    /\ ToDo("rollback_load") =>
         /\ JournalOp = "Rotate"
         /\ job.plan \in {<<"rollback_load", "reload">>,
                          <<"rollback_load", "open">>}
    /\ (\E x \in RollbackSteps : ToDo(x)) =>
         JournalOp = "Rotate" /\ ToDo("unjournal")
    /\ JournalOp = "Rotate" =>
         /\ job.old = journal.old_version /\ job.new = journal.new_version
         /\ job.backup = journal.backup
         /\ ~ToDo("rollback_load") =>
              /\ ToDo("unjournal")
              /\ ~ToDo("rollback_open") \/ Head(job.plan) # "set_active" =>
                   keyring.active = job.old
              /\ ~ToDo("files") => FilesOn(job.old, Dek(keyring, job.old))
              /\ \A s \in StoreNames :
                   ~ToDo(s) => material[s] \subseteq {Dek(keyring, job.old)}
              /\ ~ToDo("backup") => recovery = job.backup
              /\ ~ToDo("remove_version") =>
                   job.new \notin DOMAIN keyring.entries
              /\ ToDo("remove_version") \/ \A x \in RollbackSteps : ~ToDo(x)

JobInv ==
  job # None =>
    BootstrapInv /\ UnlockInv /\ ChangeInv /\ RotateInv /\ RollbackInv

VaultInv == VaultTypeOK /\ DiskInv /\ SessionInv /\ PlanInv /\ JobInv

-----------------------------------------------------------------------------
(* Plans.                                                                  *)

PlanStep == StepNames \cup StoreNames

LEMMA ConcatFacts ==
  ASSUME NEW S, NEW s \in Seq(S), NEW t \in Seq(S)
  PROVE  /\ s \o t \in Seq(S)
         /\ Len(s \o t) = Len(s) + Len(t)
         /\ \A k \in 1..Len(s) : (s \o t)[k] = s[k]
  OBVIOUS

LEMMA StoreNamesFacts ==
  /\ "identity" \in StoreNames
  /\ \A s \in StoreNames : s \notin StepNames
  /\ STORES \in Seq(PlanStep)
  /\ \A x : In(x, STORES) <=> x \in StoreNames
<1> DEFINE S == {Store[k] : k \in 1..Len(Store)} \cup {"identity"}
           one == <<"identity">>
<1>0. Store \in Seq(S) /\ Len(Store) \in Nat
  <2>1. Store \in Seq({Store[k] : k \in 1..Len(Store)})
    BY StoreAssumption
  <2> QED
    BY <2>1
<1>1. one \in Seq(S) /\ Len(one) = 1 /\ one[1] = "identity"
  OBVIOUS
<1>2. /\ STORES = one \o Store
      /\ \A x \in S : x \notin StepNames
  BY StoreAssumption DEF STORES, StepNames
<1> HIDE DEF S, one
<1>3. /\ STORES \in Seq(S) /\ Len(STORES) = 1 + Len(Store)
      /\ \A k \in 1..1 : STORES[k] = one[k]
  <2>1. /\ one \o Store \in Seq(S)
        /\ Len(one \o Store) = Len(one) + Len(Store)
        /\ \A k \in 1..Len(one) : (one \o Store)[k] = one[k]
    BY <1>0, <1>1, ConcatFacts, Zenon
  <2> QED
    BY <1>1, <1>2, <2>1, Zenon
<1>4. STORES[1] = "identity"
  BY <1>1, <1>3
<1>5. \A k \in 1..Len(STORES) : STORES[k] \in S
  BY <1>3
<1>6. "identity" \in StoreNames
  BY <1>0, <1>3, <1>4 DEF StoreNames
<1>7. \A s \in StoreNames : s \notin StepNames
  BY <1>5, <1>2 DEF StoreNames
<1>8. \A x : In(x, STORES) <=> x \in StoreNames
  BY <1>3 DEF In, StoreNames
<1>9. STORES \in Seq(StoreNames)
  BY <1>3 DEF StoreNames
<1> QED
  BY <1>6, <1>7, <1>8, <1>9 DEF PlanStep

LEMMA InConcat ==
  ASSUME NEW S, NEW s \in Seq(S), NEW t \in Seq(S)
  PROVE  /\ s \o t \in Seq(S)
         /\ \A x : In(x, s \o t) <=> In(x, s) \/ In(x, t)
<1>1. s \o t \in Seq(S) /\ Len(s \o t) = Len(s) + Len(t)
  OBVIOUS
<1>2. ASSUME NEW x, In(x, s \o t)
      PROVE  In(x, s) \/ In(x, t)
  <2>1. PICK k \in 1..Len(s \o t) : (s \o t)[k] = x
    BY <1>1, <1>2 DEF In
  <2>2. CASE k <= Len(s)
    BY <2>1, <2>2, <1>1 DEF In
  <2>3. CASE k > Len(s)
    <3>1. (s \o t)[k] = t[k - Len(s)] /\ k - Len(s) \in 1..Len(t)
      BY <2>1, <2>3, <1>1
    <3> QED
      BY <3>1, <2>1 DEF In
  <2> QED
    BY <2>1, <2>2, <2>3, <1>1
<1>3. ASSUME NEW x, In(x, s)
      PROVE  In(x, s \o t)
  <2>1. PICK k \in 1..Len(s) : s[k] = x
    BY <1>3 DEF In
  <2>2. k \in 1..Len(s \o t) /\ (s \o t)[k] = x
    BY <2>1, <1>1
  <2> QED
    BY <2>2, <1>1 DEF In
<1>4. ASSUME NEW x, In(x, t)
      PROVE  In(x, s \o t)
  <2>1. PICK k \in 1..Len(t) : t[k] = x
    BY <1>4 DEF In
  <2>2. k + Len(s) \in 1..Len(s \o t) /\ (s \o t)[k + Len(s)] = x
    BY <2>1, <1>1
  <2> QED
    BY <2>2, <1>1 DEF In
<1> QED
  BY <1>1, <1>2, <1>3, <1>4

LEMMA OrderedConcat ==
  ASSUME NEW S, NEW s \in Seq(S), NEW t \in Seq(S), Ordered(s), Ordered(t),
         \A x, y : In(x, s) /\ In(y, t) => InOrder(x, y)
  PROVE  Ordered(s \o t)
<1>1. s \o t \in Seq(S) /\ Len(s \o t) = Len(s) + Len(t)
  OBVIOUS
<1>2. \A k \in 1..Len(s) : (s \o t)[k] = s[k]
  BY <1>1
<1>3. \A k \in Len(s) + 1..Len(s \o t) :
        k - Len(s) \in 1..Len(t) /\ (s \o t)[k] = t[k - Len(s)]
  BY <1>1
<1> SUFFICES ASSUME NEW i \in 1..Len(s \o t), NEW j \in 1..Len(s \o t), i < j
             PROVE  InOrder((s \o t)[i], (s \o t)[j])
  BY <1>1 DEF Ordered
<1>4. CASE j <= Len(s)
  BY <1>2, <1>4, <1>1 DEF Ordered
<1>5. CASE i <= Len(s) /\ j > Len(s)
  <2>1. In((s \o t)[i], s)
    BY <1>2, <1>5, <1>1 DEF In
  <2>2. In((s \o t)[j], t)
    BY <1>3, <1>5, <1>1 DEF In
  <2> QED
    BY <2>1, <2>2
<1>6. CASE i > Len(s)
  BY <1>3, <1>6, <1>1 DEF Ordered
<1> QED
  BY <1>4, <1>5, <1>6, <1>1

LEMMA InTail ==
  ASSUME NEW S, NEW p \in Seq(S), p # <<>>
  PROVE  /\ Tail(p) \in Seq(S) /\ Head(p) \in S
         /\ \A x : In(x, p) <=> x = Head(p) \/ In(x, Tail(p))
         /\ Ordered(p) =>
              /\ Ordered(Tail(p))
              /\ \A x : In(x, Tail(p)) => InOrder(Head(p), x)
<1>1. /\ Tail(p) \in Seq(S) /\ Head(p) \in S /\ Len(p) >= 1
      /\ Len(Tail(p)) = Len(p) - 1 /\ Head(p) = p[1]
  OBVIOUS
<1>2. \A k \in 1..Len(Tail(p)) : k + 1 \in 1..Len(p) /\ Tail(p)[k] = p[k + 1]
  BY <1>1
<1>3. \A k \in 1..Len(p) :
        k = 1 \/ (k - 1 \in 1..Len(Tail(p)) /\ p[k] = Tail(p)[k - 1])
  BY <1>1, <1>2
<1>4. ASSUME NEW x
      PROVE  In(x, p) <=> x = Head(p) \/ In(x, Tail(p))
  <2>1. ASSUME In(x, p)
        PROVE  x = Head(p) \/ In(x, Tail(p))
    <3>1. PICK k \in 1..Len(p) : p[k] = x
      BY <2>1 DEF In
    <3>2. CASE k = 1
      BY <3>1, <3>2, <1>1
    <3>3. CASE k # 1
      <4>1. k - 1 \in 1..Len(Tail(p)) /\ Tail(p)[k - 1] = x
        BY <3>1, <3>3, <1>3
      <4>2. DOMAIN Tail(p) = 1..Len(Tail(p))
        BY <1>1
      <4> QED
        BY <4>1, <4>2 DEF In
    <3> QED
      BY <3>2, <3>3
  <2>2. ASSUME In(x, Tail(p))
        PROVE  In(x, p)
    <3>1. PICK k \in 1..Len(Tail(p)) : Tail(p)[k] = x
      BY <2>2, <1>1 DEF In
    <3>2. k + 1 \in 1..Len(p) /\ p[k + 1] = x
      BY <3>1, <1>2
    <3> QED
      BY <3>2 DEF In
  <2>3. In(Head(p), p)
    <3>1. 1 \in 1..Len(p) /\ p[1] = Head(p)
      BY <1>1
    <3> QED
      BY <3>1 DEF In
  <2> QED
    BY <2>1, <2>2, <2>3
<1>5. ASSUME Ordered(p)
      PROVE  Ordered(Tail(p))
  <2> SUFFICES ASSUME NEW i \in 1..Len(Tail(p)), NEW j \in 1..Len(Tail(p)), i < j
               PROVE  InOrder(Tail(p)[i], Tail(p)[j])
    BY <1>1 DEF Ordered
  <2>1. i + 1 \in 1..Len(p) /\ j + 1 \in 1..Len(p) /\ i + 1 < j + 1
    BY <1>1
  <2> QED
    BY <2>1, <1>2, <1>5 DEF Ordered
<1>6. ASSUME Ordered(p), NEW x, In(x, Tail(p))
      PROVE  InOrder(Head(p), x)
  <2>1. PICK k \in 1..Len(Tail(p)) : Tail(p)[k] = x
    BY <1>6, <1>1 DEF In
  <2>2. k + 1 \in 1..Len(p) /\ p[k + 1] = x /\ 1 \in 1..Len(p) /\ 1 < k + 1
    BY <2>1, <1>1, <1>2
  <2> QED
    BY <2>2, <1>1, <1>6 DEF Ordered
<1> QED
  BY <1>1, <1>4, <1>5, <1>6

LEMMA NothingIn ==
  ASSUME NEW S, NEW p \in Seq(S)
  PROVE  p = <<>> <=> \A x : ~In(x, p)
<1>1. CASE p = <<>>
  BY <1>1 DEF In
<1>2. CASE p # <<>>
  BY <1>2, InTail
<1> QED
  BY <1>1, <1>2

LEMMA Ranks ==
  /\ Rank("rm_keyring") = 1 /\ Rank("rm_recovery") = 2
  /\ Rank("rm_identity") = 3 /\ Rank("rm_journal") = 4
  /\ Rank("bootstrap_journal") = 5 /\ Rank("stage") = 5
  /\ Rank("rotate_journal") = 5 /\ Rank("rollback_load") = 5
  /\ Rank("keyring") = 6 /\ Rank("change_journal") = 6
  /\ Rank("move_journal") = 6 /\ Rank("add_active_dek") = 6
  /\ Rank("create_identity") = 7 /\ Rank("commit") = 7
  /\ Rank("rotate_open") = 7 /\ Rank("rollback_open") = 7
  /\ Rank("files") = 8
  /\ \A s \in StoreNames : Rank(s) = 9
  /\ Rank("recovery") = 10 /\ Rank("phrase_journal") = 11
  /\ Rank("backup") = 11 /\ Rank("set_active") = 12
  /\ Rank("remove_version") = 13 /\ Rank("unjournal") = 14
  /\ \A x \in {"rm_manifest", "rm_staged", "rm_keychain", "salt", "keychain",
               "manifest", "audit", "open", "discard", "unsalt", "replace",
               "load_staged", "reload"} : Rank(x) = 0
<1>1. \A s \in StoreNames : s \notin StepNames
  BY StoreNamesFacts
<1>2. \A x \in StepNames : x \notin StoreNames
  BY <1>1
<1>3. \A s \in StoreNames : Rank(s) = 9
  BY <1>1 DEF Rank, StepNames
<1>4. \A x \in {"rm_manifest", "rm_staged", "rm_keychain", "salt", "keychain",
               "manifest", "audit", "open", "discard", "unsalt", "replace",
               "load_staged", "reload"} : Rank(x) = 0
  BY <1>2 DEF Rank, StepNames
<1>5. /\ Rank("recovery") = 10 /\ Rank("phrase_journal") = 11
      /\ Rank("backup") = 11 /\ Rank("set_active") = 12
      /\ Rank("remove_version") = 13 /\ Rank("unjournal") = 14
  BY <1>2 DEF Rank, StepNames
<1>6. /\ Rank("rm_keyring") = 1 /\ Rank("rm_recovery") = 2
      /\ Rank("rm_identity") = 3 /\ Rank("rm_journal") = 4
      /\ Rank("bootstrap_journal") = 5 /\ Rank("stage") = 5
      /\ Rank("rotate_journal") = 5 /\ Rank("rollback_load") = 5
  BY <1>2 DEF Rank, StepNames
<1>7. /\ Rank("keyring") = 6 /\ Rank("change_journal") = 6
      /\ Rank("move_journal") = 6 /\ Rank("add_active_dek") = 6
      /\ Rank("create_identity") = 7 /\ Rank("commit") = 7
      /\ Rank("rotate_open") = 7 /\ Rank("rollback_open") = 7
      /\ Rank("files") = 8
  BY <1>2 DEF Rank, StepNames
<1> QED
  BY <1>3, <1>4, <1>5, <1>6, <1>7

\* A plan with exactly the steps of S, in order.
PlanOf(p, S) ==
  p \in Seq(PlanStep) /\ Ordered(p) /\ \A x : In(x, p) <=> x \in S

LEMMA PlanConcat ==
  ASSUME NEW p, NEW q, NEW S, NEW T, PlanOf(p, S), PlanOf(q, T),
         \A x \in S, y \in T : InOrder(x, y)
  PROVE  PlanOf(p \o q, S \cup T)
<1>1. p \in Seq(PlanStep) /\ q \in Seq(PlanStep) /\ Ordered(p) /\ Ordered(q)
  BY DEF PlanOf
<1>2. \A x, y : In(x, p) /\ In(y, q) => InOrder(x, y)
  BY DEF PlanOf
<1>3. Ordered(p \o q)
  BY <1>1, <1>2, OrderedConcat
<1>4. /\ p \o q \in Seq(PlanStep)
      /\ \A x : In(x, p \o q) <=> In(x, p) \/ In(x, q)
  BY <1>1, InConcat, Zenon
<1> QED
  BY <1>3, <1>4 DEF PlanOf

LEMMA StoresPlan == PlanOf(STORES, StoreNames)
<1>1. \A k \in DOMAIN STORES : STORES[k] \in StoreNames
  BY StoreNamesFacts DEF In
<1>2. Ordered(STORES)
  BY <1>1 DEF Ordered, InOrder
<1> QED
  BY <1>2, StoreNamesFacts DEF PlanOf

LEMMA ShortPlans ==
  /\ PlanOf(<<>>, {})
  /\ \A x \in PlanStep : PlanOf(<<x>>, {x})
BY DEF PlanOf, Ordered, In

LEMMA BootstrapRollbackPlan == PlanOf(BootstrapRollback, RemoveSteps)
<1>1. BootstrapRollback \in Seq(PlanStep)
  BY DEF BootstrapRollback, PlanStep, StepNames
<1>2. Ordered(BootstrapRollback)
  BY Ranks DEF BootstrapRollback, Ordered, InOrder
<1>3. \A x : In(x, BootstrapRollback) <=> x \in RemoveSteps
  BY DEF BootstrapRollback, In, RemoveSteps
<1> QED
  BY <1>1, <1>2, <1>3 DEF PlanOf

LEMMA FinishBootstrapPlan == PlanOf(FinishBootstrap, {"audit", "unjournal"})
<1>1. FinishBootstrap \in Seq(PlanStep)
  BY DEF FinishBootstrap, PlanStep, StepNames
<1>2. Ordered(FinishBootstrap)
  BY Ranks DEF FinishBootstrap, Ordered, InOrder
<1>3. \A x : In(x, FinishBootstrap) <=> x \in {"audit", "unjournal"}
  BY DEF FinishBootstrap, In
<1> QED
  BY <1>1, <1>2, <1>3 DEF PlanOf

LEMMA BootstrapPlanPlan ==
  ASSUME NEW custody
  PROVE  \E S \in SUBSET CreateSteps :
           /\ PlanOf(BootstrapPlan(custody), S)
           /\ {"bootstrap_journal", "keyring", "create_identity", "recovery",
               "phrase_journal"} \subseteq S
<1> DEFINE c == CustodyStep(custody)
           p == <<"bootstrap_journal", c, "keyring", "create_identity",
                  "manifest", "recovery", "phrase_journal">>
           T == {"bootstrap_journal", c, "keyring", "create_identity",
                 "manifest", "recovery", "phrase_journal"}
<1>1. c \in {"salt", "keychain"}
  BY DEF CustodyStep
<1> HIDE DEF c
<1>2. c \in PlanStep /\ Rank(c) = 0
  BY <1>1, Ranks DEF PlanStep, StepNames
<1>3. p \in Seq(PlanStep)
  BY <1>2 DEF PlanStep, StepNames
<1>4. Ordered(p)
  BY <1>2, Ranks DEF Ordered, InOrder
<1>5. \A x : In(x, p) <=> x \in T
  BY DEF In
<1>6. PlanOf(p, T)
  BY <1>3, <1>4, <1>5 DEF PlanOf
<1>7. \A x \in T, y \in {"audit", "unjournal"} : InOrder(x, y)
  BY <1>2, Ranks DEF InOrder
<1>8. BootstrapPlan(custody) = p \o FinishBootstrap
  BY DEF BootstrapPlan, c
<1> HIDE DEF p
<1>9. PlanOf(BootstrapPlan(custody), T \cup {"audit", "unjournal"})
  BY <1>6, <1>7, <1>8, FinishBootstrapPlan, PlanConcat
<1>10. T \cup {"audit", "unjournal"} \in SUBSET CreateSteps
  BY <1>1 DEF CreateSteps
<1> QED
  BY <1>9, <1>10

LEMMA ChangePlanPlan == PlanOf(ChangePlan, ChangeSteps)
<1>1. ChangePlan \in Seq(PlanStep)
  BY DEF ChangePlan, PlanStep, StepNames
<1>2. Ordered(ChangePlan)
  BY Ranks DEF ChangePlan, Ordered, InOrder
<1>3. \A x : In(x, ChangePlan) <=> x \in ChangeSteps
  BY DEF ChangePlan, In, ChangeSteps
<1> QED
  BY <1>1, <1>2, <1>3 DEF PlanOf

LEMMA MovePlanPlan == PlanOf(MovePlan, MoveSteps)
<1>1. MovePlan \in Seq(PlanStep)
  BY DEF MovePlan, PlanStep, StepNames
<1>2. Ordered(MovePlan)
  BY Ranks DEF MovePlan, Ordered, InOrder
<1>3. \A x : In(x, MovePlan) <=> x \in MoveSteps
  BY DEF MovePlan, In, MoveSteps
<1> QED
  BY <1>1, <1>2, <1>3 DEF PlanOf

LEMMA RotatePlanPlan == PlanOf(RotatePlan, RotateSteps)
<1> DEFINE p == <<"rotate_journal", "add_active_dek", "rotate_open", "files">>
           q == <<"recovery", "unjournal">>
           S == {"rotate_journal", "add_active_dek", "rotate_open", "files"}
           T == {"recovery", "unjournal"}
<1>1. PlanOf(p, S)
  <2>1. p \in Seq(PlanStep)
    BY DEF PlanStep, StepNames
  <2>2. Ordered(p)
    BY Ranks DEF Ordered, InOrder
  <2>3. \A x : In(x, p) <=> x \in S
    BY DEF In
  <2> QED
    BY <2>1, <2>2, <2>3 DEF PlanOf
<1>2. PlanOf(q, T)
  <2>1. q \in Seq(PlanStep)
    BY DEF PlanStep, StepNames
  <2>2. Ordered(q)
    BY Ranks DEF Ordered, InOrder
  <2>3. \A x : In(x, q) <=> x \in T
    BY DEF In
  <2> QED
    BY <2>1, <2>2, <2>3 DEF PlanOf
<1>3. /\ \A x \in S, y \in StoreNames : InOrder(x, y)
      /\ \A x \in S \cup StoreNames, y \in T : InOrder(x, y)
  BY Ranks DEF InOrder
<1>4. RotatePlan = (p \o STORES) \o q
  BY DEF RotatePlan
<1>5. RotateSteps = (S \cup StoreNames) \cup T
  BY DEF RotateSteps
<1> HIDE DEF p, q, S, T
<1>6. PlanOf(p \o STORES, S \cup StoreNames)
  BY <1>1, <1>3, StoresPlan, PlanConcat
<1> QED
  BY <1>2, <1>3, <1>4, <1>5, <1>6, PlanConcat

LEMMA RollbackPlanPlan ==
  ASSUME NEW x \in {"reload", "open"}
  PROVE  /\ PlanOf(RollbackPlan(TRUE) \o <<x>>,
                   RollbackSteps \cup {"unjournal", x})
         /\ PlanOf(RollbackPlan(FALSE) \o <<x>>,
                   {"backup", "set_active", "remove_version", "unjournal", x})
         /\ Head(RollbackPlan(TRUE) \o <<x>>) = "set_active"
<1> DEFINE p == <<"set_active", "rollback_open", "files">>
           q == <<"backup", "set_active", "remove_version", "unjournal">>
           S == {"set_active", "rollback_open", "files"}
           T == {"backup", "set_active", "remove_version", "unjournal"}
<1>1. PlanOf(p, S)
  <2>1. p \in Seq(PlanStep)
    BY DEF PlanStep, StepNames
  <2>2. Ordered(p)
    BY Ranks DEF Ordered, InOrder
  <2>3. \A y : In(y, p) <=> y \in S
    BY DEF In
  <2> QED
    BY <2>1, <2>2, <2>3 DEF PlanOf
<1>2. PlanOf(q, T)
  <2>1. q \in Seq(PlanStep)
    BY DEF PlanStep, StepNames
  <2>2. Ordered(q)
    BY Ranks DEF Ordered, InOrder
  <2>3. \A y : In(y, q) <=> y \in T
    BY DEF In
  <2> QED
    BY <2>1, <2>2, <2>3 DEF PlanOf
<1>3. PlanOf(<<x>>, {x})
  BY ShortPlans DEF PlanStep, StepNames
<1>4. /\ \A y \in S, z \in StoreNames : InOrder(y, z)
      /\ \A y \in S \cup StoreNames, z \in T : InOrder(y, z)
      /\ \A y, z \in {x} : InOrder(y, z)
      /\ \A y : \A z \in {x} : InOrder(y, z)
  BY Ranks DEF InOrder
<1>5. /\ RollbackPlan(TRUE) = (p \o STORES) \o q
      /\ RollbackPlan(FALSE) = <<>> \o q
  BY DEF RollbackPlan
<1>6. /\ RollbackSteps \cup {"unjournal", x} = ((S \cup StoreNames) \cup T) \cup {x}
      /\ {"backup", "set_active", "remove_version", "unjournal", x} = ({} \cup T) \cup {x}
  BY DEF RollbackSteps
<1>7. p \in Seq(PlanStep) /\ Len(p) >= 1 /\ p[1] = "set_active"
  BY <1>1 DEF PlanOf
<1> HIDE DEF p, q, S, T
<1>8. PlanOf(p \o STORES, S \cup StoreNames)
  BY <1>1, <1>4, StoresPlan, PlanConcat
<1>9. PlanOf(RollbackPlan(TRUE), (S \cup StoreNames) \cup T)
  <2>1. PlanOf((p \o STORES) \o q, (S \cup StoreNames) \cup T)
    BY <1>2, <1>4, <1>8, PlanConcat
  <2> QED
    BY <2>1, <1>5
<1>10. PlanOf(RollbackPlan(FALSE), {} \cup T)
  <2>1. PlanOf(<<>> \o q, {} \cup T)
    BY <1>2, ShortPlans, PlanConcat
  <2> QED
    BY <2>1, <1>5
<1>11. PlanOf(RollbackPlan(TRUE) \o <<x>>, ((S \cup StoreNames) \cup T) \cup {x})
  BY <1>3, <1>4, <1>9, PlanConcat
<1>12. PlanOf(RollbackPlan(FALSE) \o <<x>>, ({} \cup T) \cup {x})
  BY <1>3, <1>4, <1>10, PlanConcat
<1>13. Head(RollbackPlan(TRUE) \o <<x>>) = "set_active"
  <2>1. /\ STORES \in Seq(PlanStep) /\ q \in Seq(PlanStep)
        /\ <<x>> \in Seq(PlanStep)
    BY <1>2, <1>3, StoreNamesFacts DEF PlanOf
  <2>2. ASSUME NEW s \in Seq(PlanStep), NEW t \in Seq(PlanStep), Len(s) >= 1
        PROVE  /\ s \o t \in Seq(PlanStep) /\ Len(s \o t) >= 1
               /\ (s \o t)[1] = s[1] /\ Head(s \o t) = s[1]
    BY <2>2
  <2>3. p \o STORES \in Seq(PlanStep) /\ Len(p \o STORES) >= 1
        /\ (p \o STORES)[1] = "set_active"
    BY <1>7, <2>1, <2>2, Zenon
  <2>4. /\ RollbackPlan(TRUE) \in Seq(PlanStep) /\ Len(RollbackPlan(TRUE)) >= 1
        /\ RollbackPlan(TRUE)[1] = "set_active"
    <3> DEFINE r == p \o STORES
    <3>1. r \in Seq(PlanStep) /\ Len(r) >= 1 /\ r[1] = "set_active"
      BY <2>3
    <3> HIDE DEF r
    <3>2. /\ r \o q \in Seq(PlanStep) /\ Len(r \o q) >= 1
          /\ (r \o q)[1] = "set_active"
      BY <2>1, <2>2, <3>1, Zenon
    <3>3. RollbackPlan(TRUE) = r \o q
      BY <1>5 DEF r
    <3> QED
      BY <3>2, <3>3, Zenon
  <2> QED
    BY <2>1, <2>2, <2>4
<1> QED
  BY <1>6, <1>11, <1>12, <1>13

\* The plans of unlock: a finished or undone change, a pending rotation.
LEMMA UnlockPlans ==
  /\ \A x \in {"discard", "commit"} :
       /\ PlanOf(<<x, "unjournal", "open">>, {x, "unjournal", "open"})
       /\ PlanOf(<<x, "unsalt", "unjournal", "open">>,
                 {x, "unsalt", "unjournal", "open"})
  /\ \A x \in {"reload", "open"} :
       PlanOf(<<"rollback_load", x>>, {"rollback_load", x})
  /\ PlanOf(<<"keychain", "replace">>, {"keychain", "replace"})
<1>1. ASSUME NEW x \in {"discard", "commit"}
      PROVE  /\ PlanOf(<<x, "unjournal", "open">>, {x, "unjournal", "open"})
             /\ PlanOf(<<x, "unsalt", "unjournal", "open">>,
                       {x, "unsalt", "unjournal", "open"})
  <2>1. /\ <<x, "unjournal", "open">> \in Seq(PlanStep)
        /\ <<x, "unsalt", "unjournal", "open">> \in Seq(PlanStep)
    BY DEF PlanStep, StepNames
  <2>2. /\ Ordered(<<x, "unjournal", "open">>)
        /\ Ordered(<<x, "unsalt", "unjournal", "open">>)
    BY Ranks DEF Ordered, InOrder
  <2> QED
    BY <2>1, <2>2 DEF PlanOf, In
<1>2. ASSUME NEW x \in {"reload", "open"}
      PROVE  PlanOf(<<"rollback_load", x>>, {"rollback_load", x})
  <2>1. <<"rollback_load", x>> \in Seq(PlanStep)
    BY DEF PlanStep, StepNames
  <2>2. Ordered(<<"rollback_load", x>>)
    BY Ranks DEF Ordered, InOrder
  <2> QED
    BY <2>1, <2>2 DEF PlanOf, In
<1>3. PlanOf(<<"keychain", "replace">>, {"keychain", "replace"})
  <2>1. <<"keychain", "replace">> \in Seq(PlanStep)
    BY DEF PlanStep, StepNames
  <2>2. Ordered(<<"keychain", "replace">>)
    BY Ranks DEF Ordered, InOrder
  <2> QED
    BY <2>1, <2>2 DEF PlanOf, In
<1> QED
  BY <1>1, <1>2, <1>3

-----------------------------------------------------------------------------
(* A step of a plan.                                                       *)

\* The head of the plan is a step of the operation, and no other step to do
\* has to be taken before it.
LEMMA HeadOfPlan ==
  ASSUME VaultTypeOK, PlanInv, NEW h, Step(h)
  PROVE  /\ job # None /\ job \in Operation /\ job.plan \in Seq(PlanStep)
         /\ job.plan # <<>> /\ Head(job.plan) = h
         /\ ToDo(h) /\ h \in StepsOf(job.op)
         /\ \A x : ToDo(x) <=> x = h \/ In(x, Tail(job.plan))
         /\ \A x : In(x, Tail(job.plan)) => InOrder(h, x)
         /\ Ordered(Tail(job.plan))
<1>1. job # None /\ job \in Operation /\ job.plan # <<>> /\ Head(job.plan) = h
  BY DEF VaultTypeOK, JobTypeOK, Step
<1>2. job.plan \in Seq(PlanStep)
  BY <1>1 DEF Operation, PlanStep
<1>3. Ordered(job.plan) /\ \A x : ToDo(x) => x \in StepsOf(job.op)
  BY <1>1 DEF PlanInv
<1>4. /\ \A x : In(x, job.plan) <=> x = h \/ In(x, Tail(job.plan))
      /\ \A x : In(x, Tail(job.plan)) => InOrder(h, x)
      /\ Ordered(Tail(job.plan))
  BY <1>1, <1>2, <1>3, InTail, Zenon
<1> QED
  BY <1>1, <1>2, <1>3, <1>4 DEF ToDo

\* What a ranked step has behind it.
LEMMA Past ==
  ASSUME VaultTypeOK, PlanInv, NEW h, Step(h), h # "set_active", Rank(h) # 0
  PROVE  \A x : Rank(x) # 0 /\ Rank(x) <= Rank(h)
                  /\ ~(x \in StoreNames /\ h \in StoreNames) =>
                /\ ~In(x, Tail(job.plan))
                /\ x # h => ~ToDo(x)
<1> SUFFICES ASSUME NEW x, Rank(x) # 0, Rank(x) <= Rank(h),
                    ~(x \in StoreNames /\ h \in StoreNames)
             PROVE  /\ ~In(x, Tail(job.plan))
                    /\ x # h => ~ToDo(x)
  OBVIOUS
<1>1. Rank(x) \in Int /\ Rank(h) \in Int
  BY DEF Rank
<1>2. ~InOrder(h, x)
  BY <1>1 DEF InOrder
<1> QED
  BY <1>2, HeadOfPlan

LEMMA AdvancedJob ==
  ASSUME VaultTypeOK, PlanInv, NEW h, Step(h),
         job' = [job EXCEPT !.plan = Tail(@)]
  PROVE  /\ job' \in Operation /\ job' # None
         /\ job'.op = job.op /\ job'.plan = Tail(job.plan)
         /\ job'.custody = job.custody /\ job'.kek = job.kek
         /\ job'.dek = job.dek /\ job'.wrap = job.wrap /\ job'.old = job.old
         /\ job'.new = job.new /\ job'.backup = job.backup
<1>1. job \in Operation /\ job.plan \in Seq(PlanStep) /\ job.plan # <<>>
  BY HeadOfPlan
<1>2. Tail(job.plan) \in Seq(PlanStep)
  BY <1>1, InTail
<1>3. job' \in Operation
  BY <1>1, <1>2 DEF Operation, PlanStep
<1>4. job' # None
  BY <1>3, NoneAssumption
<1> QED
  BY <1>1, <1>3, <1>4 DEF Operation

LEMMA AdvancedPlan ==
  ASSUME VaultTypeOK, PlanInv, NEW h, Step(h), job' # None,
         job'.op = job.op, job'.plan = Tail(job.plan),
         session' = None <=> session = None
  PROVE  /\ PlanInv'
         /\ \A x : ToDo(x) <=> x = h \/ ToDo(x)'
         /\ \A x : ToDo(x)' <=> In(x, Tail(job.plan))
<1>1. /\ job # None
      /\ \A x : ToDo(x) <=> x = h \/ In(x, Tail(job.plan))
      /\ Ordered(Tail(job.plan))
  BY HeadOfPlan
<1>2. \A x : ToDo(x)' <=> In(x, Tail(job.plan))
  BY DEF ToDo
<1>3. /\ \A x : ToDo(x) => x \in StepsOf(job.op)
      /\ job.op \in {"bootstrap", "unlock"} <=> session = None
  BY <1>1 DEF PlanInv
<1>4. Ordered(job.plan)' /\ StepsOf(job.op)' = StepsOf(job.op)
  BY <1>1 DEF Ordered, StepsOf
<1> QED
  BY <1>1, <1>2, <1>3, <1>4 DEF PlanInv

\* A rotation that has written its journal and not yet removed it.
LEMMA RotationJournalled ==
  ASSUME VaultInv, NEW h, Step(h), job.op = "rotate", h # "rotate_journal"
  PROVE  /\ ~ToDo("rotate_journal") /\ ToDo("unjournal")
         /\ JournalOp = "Rotate"
         /\ journal = [op |-> "Rotate", old_version |-> job.old,
                       new_version |-> job.new, backup |-> job.backup]
<1>1. VaultTypeOK /\ PlanInv /\ JobInv
  BY DEF VaultInv
<1>2. job # None /\ ToDo(h) /\ h \in RotateSteps
  BY <1>1, HeadOfPlan DEF StepsOf
<1>3. h # "set_active" /\ Rank(h) # 0 /\ 5 <= Rank(h)
  BY <1>2, Ranks, StoreNamesFacts DEF RotateSteps, StepNames
<1>4. "rotate_journal" \notin StoreNames
  BY StoreNamesFacts DEF StepNames
<1>5. ~ToDo("rotate_journal")
  BY <1>1, <1>3, <1>4, Past, Ranks
<1>6. RotateInv
  BY <1>1, <1>2 DEF JobInv
<1>7. ToDo("unjournal")
  BY <1>2, <1>6 DEF RotateInv
<1> QED
  BY <1>5, <1>6, <1>7 DEF RotateInv

-----------------------------------------------------------------------------
(* The end of an operation: dropped, failed, or one step further.          *)

LEMMA Dropped ==
  ASSUME DiskTypeOK', DiskInv', SessionInv', session' \in Handle \cup {None},
         job' = None
  PROVE  VaultInv'
BY DEF VaultInv, VaultTypeOK, JobTypeOK, PlanInv, JobInv

LEMMA FailKeeps ==
  ASSUME VaultInv, NEW h, Step(h), Failed, DiskTypeOK', DiskInv', SessionInv',
         session' = session,
         job.op = "rotate" /\ h # "rotate_journal" => journal' = journal
  PROVE  VaultInv'
<1>1. VaultTypeOK /\ PlanInv
  BY DEF VaultInv
<1>2. /\ job # None /\ job \in Operation /\ Head(job.plan) = h
      /\ session \in Handle \cup {None}
  BY <1>1, HeadOfPlan DEF VaultTypeOK, JobTypeOK
<1>3. CASE ~(job.op = "rotate" /\ h # "rotate_journal")
  BY <1>2, <1>3, Dropped DEF Failed
<1>4. CASE job.op = "rotate" /\ h # "rotate_journal"
  <2> DEFINE p == <<"rollback_load", "reload">>
  <2>1. PlanOf(p, {"rollback_load", "reload"})
    BY UnlockPlans
  <2>2. job' = [job EXCEPT !.op = "rollback", !.plan = p]
    BY <1>2, <1>4 DEF Failed
  <2>3. p \in Seq(StepNames \cup StoreNames)
    BY <2>1 DEF PlanOf, PlanStep
  <2>4. p \in {<<"rollback_load", "reload">>, <<"rollback_load", "open">>}
    OBVIOUS
  <2> HIDE DEF p
  <2>5. /\ job' \in Operation /\ job'.op = "rollback" /\ job'.plan = p
        /\ job'.old = job.old /\ job'.new = job.new
        /\ job'.backup = job.backup /\ job'.kek = job.kek
    BY <1>2, <2>2, <2>3 DEF Operation
  <2>6. job' # None
    BY <2>5, NoneAssumption
  <2>7. \A x : ToDo(x)' <=> x \in {"rollback_load", "reload"}
    BY <2>1, <2>5 DEF PlanOf, ToDo
  <2>8. session # None /\ job.kek \in Kek
    BY <1>1, <1>2, <1>4 DEF PlanInv, VaultTypeOK, JobTypeOK
  <2>9. journal' = [op |-> "Rotate", old_version |-> job.old,
                    new_version |-> job.new, backup |-> job.backup]
    BY <1>4, RotationJournalled
  <2>10. (VaultTypeOK)'
    BY <1>2, <2>5, <2>8 DEF VaultTypeOK, JobTypeOK
  <2>11. PlanInv'
    <3>1. Ordered(job.plan)'
      BY <2>1, <2>5 DEF PlanOf, Ordered
    <3>2. \A x : ToDo(x)' => x \in StepsOf(job.op)'
      BY <2>5, <2>7 DEF StepsOf
    <3> QED
      BY <2>5, <2>8, <3>1, <3>2 DEF PlanInv
  <2>12. JournalOp' = "Rotate"
    BY <1>4, RotationJournalled DEF JournalOp
  <2>13. RollbackInv'
    <3>1. \A x \in RollbackSteps : ~ToDo(x)'
      BY <2>7, StoreNamesFacts DEF RollbackSteps, StepNames
    <3> QED
      BY <2>4, <2>5, <2>7, <2>9, <2>12, <3>1 DEF RollbackInv
  <2>14. JobInv'
    BY <2>5, <2>13 DEF JobInv, BootstrapInv, UnlockInv, ChangeInv, RotateInv
  <2> QED
    BY <2>10, <2>11, <2>14 DEF VaultInv
<1> QED
  BY <1>3, <1>4

\* What an action has to show to keep the invariant in a step of its plan.
LEMMA AdvanceKeeps ==
  ASSUME VaultInv, NEW h, Step(h), Advance, DiskTypeOK', DiskInv', SessionInv',
         session' = session,
         job.op = "rotate" /\ h # "rotate_journal" =>
           journal' = journal \/ late' = late,
         job' = [job EXCEPT !.plan = Tail(@)] => JobInv'
  PROVE  VaultInv'
<1>1. VaultTypeOK /\ PlanInv
  BY DEF VaultInv
<1>2. CASE job' = [job EXCEPT !.plan = Tail(@)]
  <2>1. /\ job' \in Operation /\ job' # None /\ job'.op = job.op
        /\ job'.plan = Tail(job.plan) /\ job'.kek = job.kek
    BY <1>1, <1>2, AdvancedJob
  <2>2. PlanInv'
    BY <1>1, <2>1, AdvancedPlan
  <2>3. JobTypeOK'
    BY <1>1, <2>1, HeadOfPlan DEF VaultTypeOK, JobTypeOK
  <2> QED
    BY <1>2, <2>2, <2>3 DEF VaultInv, VaultTypeOK
<1>3. CASE Failed /\ late' = late + 1
  <2>1. late' # late
    BY <1>1, <1>3 DEF VaultTypeOK, DiskTypeOK
  <2> QED
    BY <1>3, <2>1, FailKeeps
<1> QED
  BY <1>2, <1>3 DEF Advance, LateError

\* A step that changes neither what DiskInv is about nor the handle, and is
\* not one the invariant looks for in the plan.
Watched ==
  {"rm_keyring", "rm_recovery", "rm_identity", "rm_journal",
   "bootstrap_journal", "keyring", "create_identity", "recovery",
   "phrase_journal", "stage", "commit", "rotate_journal", "add_active_dek",
   "files", "unjournal", "rollback_load", "rollback_open", "set_active",
   "backup", "remove_version", "replace", "rotate_open"} \cup StoreNames

LEMMA QuietDisk ==
  ASSUME VaultInv, staged' \in {staged, None},
         UNCHANGED <<keyring, journal, material, recovery, files, deks, session>>
  PROVE  DiskInv' /\ SessionInv'
<1>1. UNCHANGED <<keyring, journal, material, recovery, files, deks, session>>
  OBVIOUS
<1>2. DiskInv /\ SessionInv
  BY DEF VaultInv
<1>3. /\ Whole' = Whole /\ Empty' = Empty /\ JournalOp' = JournalOp
      /\ \A b \in BOOLEAN : BootstrapPending(b)' = BootstrapPending(b)
  BY <1>1 DEF Whole, Empty, JournalOp, BootstrapPending, FilesOn, ActiveDek, Dek
<1>4. StagedSame => StagedSame'
  BY <1>1 DEF StagedSame, SameDeks, Keys, Dek
<1>5. Mixed(journal.old_version, journal.new_version, journal.backup)' =
        Mixed(journal.old_version, journal.new_version, journal.backup)
  BY <1>1 DEF Mixed, On, Dek
<1>6. DiskInv'
  BY <1>1, <1>2, <1>3, <1>4, <1>5 DEF DiskInv
<1>7. SessionInv'
  BY <1>1, <1>2, <1>3 DEF SessionInv, Dek
<1> QED
  BY <1>6, <1>7

LEMMA QuietJob ==
  ASSUME VaultInv, NEW h, Step(h), h \notin Watched, staged' \in {staged, None},
         UNCHANGED <<keyring, journal, material, recovery, files, deks>>,
         job.op = "rotate" => session' = session,
         job' = [job EXCEPT !.plan = Tail(@)]
  PROVE  JobInv'
<1>1. /\ UNCHANGED <<keyring, journal, material, recovery, files, deks>>
      /\ job.op = "rotate" => session' = session
  OBVIOUS
<1>2. VaultTypeOK /\ PlanInv /\ JobInv
  BY DEF VaultInv
<1>3. /\ job' # None /\ job # None
      /\ job'.op = job.op /\ job'.plan = Tail(job.plan)
      /\ job'.custody = job.custody /\ job'.kek = job.kek
      /\ job'.dek = job.dek /\ job'.wrap = job.wrap /\ job'.old = job.old
      /\ job'.new = job.new /\ job'.backup = job.backup
  BY <1>2, AdvancedJob, HeadOfPlan
<1>4. \A x : ToDo(x) <=> x = h \/ ToDo(x)'
  <2>1. \A x : ToDo(x)' <=> In(x, Tail(job.plan))
    BY <1>3 DEF ToDo
  <2> QED
    BY <1>2, <2>1, HeadOfPlan
<1>5. \A x \in Watched : ToDo(x)' <=> ToDo(x)
  BY <1>4
<1>6. /\ Whole' = Whole /\ JournalOp' = JournalOp
      /\ \A b \in BOOLEAN : BootstrapPending(b)' = BootstrapPending(b)
      /\ (StagedSame => StagedSame') /\ ActiveDek(keyring)' = ActiveDek(keyring)
      /\ create(job.kek, job.dek, 1)' = create(job.kek, job.dek, 1)
      /\ FilesOn(job.new, job.dek)' = FilesOn(job.new, job.dek)
      /\ FilesOn(job.old, Dek(keyring, job.old))' =
           FilesOn(job.old, Dek(keyring, job.old))
      /\ \A v : Dek(keyring, v)' = Dek(keyring, v)
  BY <1>1, <1>3 DEF Whole, JournalOp, BootstrapPending, FilesOn, ActiveDek, Dek,
       StagedSame, SameDeks, Keys, create
<1>7. BootstrapInv'
  <2>1. BootstrapInv
    BY <1>2, <1>3 DEF JobInv
  <2> QED
    BY <1>1, <1>3, <1>5, <1>6, <2>1 DEF BootstrapInv, Watched
<1>8. UnlockInv'
  <2>1. UnlockInv
    BY <1>2, <1>3 DEF JobInv
  <2> QED
    BY <1>1, <1>3, <1>5, <1>6, <2>1 DEF UnlockInv, Watched
<1>9. ChangeInv'
  <2>1. ChangeInv
    BY <1>2, <1>3 DEF JobInv
  <2> QED
    BY <1>1, <1>3, <1>5, <1>6, <2>1 DEF ChangeInv, Watched
<1>10. RotateInv'
  <2>1. RotateInv
    BY <1>2, <1>3 DEF JobInv
  <2>2. \A x \in RotateSteps : x \in Watched
    BY DEF RotateSteps, Watched
  <2>3. \A s \in StoreNames : s \in Watched
    BY DEF Watched
  <2>4. ToDo(h)
    BY <1>2, HeadOfPlan
  <2>5. job.op = "rotate" => ToDo("unjournal")'
    BY <1>5, <2>1, <2>4 DEF RotateInv, Watched
  <2> QED
    BY <1>1, <1>3, <1>5, <1>6, <2>1, <2>2, <2>3, <2>5 DEF RotateInv, Watched
<1>11. RollbackInv'
  <2>1. RollbackInv
    BY <1>2, <1>3 DEF JobInv
  <2>2. \A x \in RollbackSteps : x \in Watched
    BY DEF RollbackSteps, Watched
  <2>3. Head(job.plan) = h /\ h # "set_active" /\ h # "rollback_load"
    BY <1>2, HeadOfPlan DEF Watched
  <2>4. job.op \in {"unlock", "rollback"} => ~ToDo("rollback_load")
    BY <2>1, <2>3 DEF RollbackInv
  <2>5. \A s \in StoreNames : s \in Watched
    BY DEF Watched
  <2> QED
    BY <1>1, <1>3, <1>5, <1>6, <2>1, <2>2, <2>3, <2>4, <2>5
       DEF RollbackInv, Watched
<1> QED
  BY <1>7, <1>8, <1>9, <1>10, <1>11 DEF JobInv

LEMMA QuietKeeps ==
  ASSUME VaultInv, NEW h, Step(h), h \notin Watched, staged' \in {staged, None},
         UNCHANGED <<keyring, journal, material, recovery, files, deks, session>>,
         DiskTypeOK',
         \/ Advance
         \/ job' = [job EXCEPT !.plan = Tail(@)] /\ UNCHANGED bounds
         \/ Failed
  PROVE  VaultInv'
<1>1. DiskInv' /\ SessionInv'
  BY QuietDisk
<1>2. journal' = journal /\ session' = session
  OBVIOUS
<1>3. job' = [job EXCEPT !.plan = Tail(@)] => JobInv'
  BY QuietJob
<1>4. CASE Advance
  BY <1>1, <1>2, <1>3, <1>4, AdvanceKeeps
<1>5. CASE job' = [job EXCEPT !.plan = Tail(@)] /\ UNCHANGED bounds
  BY <1>1, <1>2, <1>3, <1>5, AdvanceKeeps DEF Advance
<1>6. CASE Failed
  BY <1>1, <1>2, <1>6, FailKeeps
<1> QED
  BY <1>4, <1>5, <1>6

LEMMA LateIsNat ==
  ASSUME VaultInv, Advance \/ UNCHANGED bounds
  PROVE  late' \in Nat
<1>1. late \in Nat
  BY DEF VaultInv, VaultTypeOK, DiskTypeOK
<1> QED
  BY <1>1 DEF Advance, LateError, bounds

-----------------------------------------------------------------------------
(* The steps that do not touch what the invariant is about.                *)

LEMMA QuietActions ==
  ASSUME VaultInv,
         \/ CreateManifest \/ EnsureAudit \/ OpenVault \/ WriteSalt
         \/ StoreKeychain \/ LoadStaged \/ DiscardStaged \/ RemoveSalt
  PROVE  VaultInv'
<1>1. VaultTypeOK /\ PlanInv /\ DiskTypeOK
  BY DEF VaultInv, VaultTypeOK
<1>2. \A x \in {"manifest", "audit", "open", "salt", "keychain", "load_staged",
                "discard", "unsalt"} : x \notin Watched
  BY StoreNamesFacts DEF Watched, StepNames
<1>3. CASE CreateManifest
  <2>1. Step("manifest") /\ Advance /\ UNCHANGED <<staged, session, made>>
        /\ UNCHANGED <<salt, keychain, keyring, journal, material, recovery, files>>
    BY <1>3 DEF CreateManifest
  <2>2. DiskTypeOK'
    BY <1>1, <2>1, LateIsNat DEF DiskTypeOK, made
  <2> QED
    BY <1>2, <2>1, <2>2, QuietKeeps DEF made
<1>4. CASE EnsureAudit
  <2>1. Step("audit") /\ Advance /\ UNCHANGED <<staged, session, made>>
        /\ UNCHANGED <<salt, keychain, keyring, journal, material, recovery, files>>
    BY <1>4 DEF EnsureAudit
  <2>2. DiskTypeOK'
    BY <1>1, <2>1, LateIsNat DEF DiskTypeOK, made
  <2> QED
    BY <1>2, <2>1, <2>2, QuietKeeps DEF made
<1>5. CASE OpenVault \/ LoadStaged
  <2>1. /\ Step("open") \/ Step("load_staged")
        /\ job' = [job EXCEPT !.plan = Tail(@)] \/ Failed
        /\ UNCHANGED <<staged, session, made, bounds>>
        /\ UNCHANGED <<salt, keychain, keyring, journal, material, recovery, files>>
    BY <1>5 DEF OpenVault, LoadStaged, Check, disk
  <2>2. DiskTypeOK'
    BY <1>1, <2>1, LateIsNat DEF DiskTypeOK, made
  <2> QED
    BY <1>2, <2>1, <2>2, QuietKeeps DEF made
<1>6. CASE WriteSalt
  <2>1. Step("salt") /\ Advance /\ UNCHANGED <<staged, session, made>>
        /\ UNCHANGED <<keychain, keyring, journal, material, recovery, files>>
        /\ salt' = job.kek.id
    BY <1>6 DEF WriteSalt
  <2>2. job # None /\ "salt" \in StepsOf(job.op) /\ job \in Operation
    BY <1>1, <2>1, HeadOfPlan
  <2>3. job.op # "unlock"
    BY <2>2, StoreNamesFacts
       DEF StepsOf, UnlockSteps, RollbackSteps, StepNames
  <2>4. salt' \in Nat \cup {None}
    BY <1>1, <2>1, <2>2, <2>3 DEF VaultTypeOK, JobTypeOK, Kek
  <2>5. DiskTypeOK'
    BY <1>1, <2>1, <2>4, LateIsNat DEF DiskTypeOK, made
  <2> QED
    BY <1>2, <2>1, <2>5, QuietKeeps DEF made
<1>7. CASE StoreKeychain
  <2>1. Step("keychain") /\ Advance /\ UNCHANGED <<staged, session, made>>
        /\ UNCHANGED <<salt, keyring, journal, material, recovery, files>>
        /\ keychain' = job.kek
    BY <1>7 DEF StoreKeychain
  <2>2. keychain' \in Kek \cup {None}
    BY <1>1, <2>1, HeadOfPlan DEF Operation
  <2>3. DiskTypeOK'
    BY <1>1, <2>1, <2>2, LateIsNat DEF DiskTypeOK, made
  <2> QED
    BY <1>2, <2>1, <2>3, QuietKeeps DEF made
<1>8. CASE DiscardStaged
  <2>1. Step("discard") /\ Advance /\ UNCHANGED <<session, made>>
        /\ UNCHANGED <<salt, keychain, keyring, journal, material, recovery, files>>
        /\ staged' = None
    BY <1>8 DEF DiscardStaged
  <2>2. DiskTypeOK'
    BY <1>1, <2>1, LateIsNat DEF DiskTypeOK, made
  <2> QED
    BY <1>2, <2>1, <2>2, QuietKeeps DEF made
<1>9. CASE RemoveSalt
  <2>1. Step("unsalt") /\ Advance /\ UNCHANGED <<staged, session, made>>
        /\ UNCHANGED <<keychain, keyring, journal, material, recovery, files>>
        /\ salt' = None
    BY <1>9 DEF RemoveSalt
  <2>2. DiskTypeOK'
    BY <1>1, <2>1, LateIsNat DEF DiskTypeOK, made
  <2> QED
    BY <1>2, <2>1, <2>2, QuietKeeps DEF made
<1> QED
  BY <1>3, <1>4, <1>5, <1>6, <1>7, <1>8, <1>9

-----------------------------------------------------------------------------
(* bootstrap.                                                              *)

BootstrapOnly ==
  {"rm_manifest", "rm_keyring", "rm_staged", "rm_recovery", "rm_identity",
   "rm_keychain", "rm_journal", "bootstrap_journal", "keyring",
   "create_identity", "phrase_journal"}

LEMMA StepNotStore == \A x \in StepNames : x \notin StoreNames
BY StoreNamesFacts

LEMMA BootstrapStep ==
  ASSUME VaultInv, NEW h, Step(h), h \in BootstrapOnly \/ job.op = "bootstrap"
  PROVE  /\ job # None /\ job \in Operation /\ job.op = "bootstrap"
         /\ session = None /\ BootstrapInv /\ ToDo(h)
         /\ h \in RemoveSteps \cup CreateSteps
<1>1. VaultTypeOK /\ PlanInv /\ JobInv
  BY DEF VaultInv
<1>2. /\ job # None /\ job \in Operation /\ ToDo(h) /\ h \in StepsOf(job.op)
  BY <1>1, HeadOfPlan
<1>3. job.op = "bootstrap"
  <2>1. job.op \in {"bootstrap", "unlock", "change", "move", "rotate", "rollback"}
    BY <1>2 DEF Operation
  <2>2. h \in BootstrapOnly => h \notin StoreNames
    BY StoreNamesFacts DEF BootstrapOnly, StepNames
  <2> QED
    BY <1>2, <2>1, <2>2 DEF BootstrapOnly, StepsOf, UnlockSteps, ChangeSteps,
         MoveSteps, RotateSteps, RollbackSteps
<1> QED
  BY <1>1, <1>2, <1>3 DEF PlanInv, JobInv, StepsOf

\* The bundle, the material and the files of a new vault are on its DEK once
\* its keyring, its identity and its bundle are written.
LEMMA NewVaultIsWhole ==
  ASSUME DiskTypeOK, Empty, NEW kek, NEW dek, keyring = create(kek, dek, 1),
         1 <= deks, material["identity"] = {dek}, keyring # None,
         recovery = [version |-> 1, dek |-> dek]
  PROVE  Whole
<1>1. /\ keyring.active = 1 /\ DOMAIN keyring.entries = {1}
      /\ ActiveDek(keyring) = dek
  BY DEF create, ActiveDek, Dek
<1>2. FilesOn(1, dek)
  BY DEF Empty, FilesOn
<1>3. \A s \in StoreNames : material[s] \subseteq {dek}
  BY DEF Empty
<1> QED
  BY <1>1, <1>2, <1>3 DEF Whole

LEMMA CreatedKeyring ==
  ASSUME NEW kek \in Kek \cup {None}, NEW dek \in DekId, NEW v \in Version
  PROVE  /\ create(kek, dek, v) \in Keyring /\ create(kek, dek, v) # None
         /\ create(kek, dek, v).active = v
         /\ DOMAIN create(kek, dek, v).entries = {v}
         /\ ActiveDek(create(kek, dek, v)) = dek
<1>1. [u \in {v} |-> [kek |-> kek, dek |-> dek]] \in Entries
  <2>1. [u \in {v} |-> [kek |-> kek, dek |-> dek]]
          \in [{v} -> [kek : Kek \cup {None}, dek : DekId]]
    OBVIOUS
  <2> QED
    BY <2>1 DEF Entries
<1>2. create(kek, dek, v) \in Keyring
  BY <1>1 DEF create, Keyring
<1>3. create(kek, dek, v) # None
  BY <1>2, NoneAssumption
<1> QED
  BY <1>2, <1>3 DEF create, ActiveDek, Dek

LEMMA CreateKeyringKeeps ==
  ASSUME VaultInv, CreateKeyring
  PROVE  VaultInv'
<1> DEFINE h == "keyring"
<1>1. /\ Step(h) /\ Advance /\ session' = session /\ UNCHANGED made
      /\ UNCHANGED <<salt, keychain, staged, journal, material, recovery, files>>
      /\ keyring' = create(job.kek, job.dek, 1)
  BY DEF CreateKeyring
<1>2. VaultTypeOK /\ PlanInv /\ DiskTypeOK /\ DiskInv
  BY DEF VaultInv, VaultTypeOK
<1>3. /\ job # None /\ job \in Operation /\ job.op = "bootstrap"
      /\ session = None /\ BootstrapInv /\ ToDo(h)
  BY <1>1, BootstrapStep DEF BootstrapOnly
<1>4. /\ \A x \in {"rm_keyring", "rm_recovery", "rm_identity", "rm_journal",
                   "bootstrap_journal"} : ~ToDo(x) /\ ~In(x, Tail(job.plan))
      /\ ~In(h, Tail(job.plan))
  BY <1>1, <1>2, Past, Ranks, StepNotStore DEF StepNames
<1>5. /\ ToDo("phrase_journal") /\ BootstrapPending(FALSE)
      /\ job.dek \in 1..deks /\ job.new = 1
      /\ ~ToDo("create_identity") => material["identity"] = {job.dek}
      /\ ~ToDo("recovery") => recovery = [version |-> 1, dek |-> job.dek]
      /\ job.custody # "recovery"
  BY <1>3, <1>4 DEF BootstrapInv
<1>6. job.dek \in DekId /\ 1 \in Version /\ job.kek \in Kek \cup {None}
  BY <1>2, <1>3, <1>5, BoundsAssumption DEF DiskTypeOK, DekId, Version, Operation
<1>7. keyring' \in Keyring /\ keyring' # None
  BY <1>1, <1>6, CreatedKeyring
<1>8. DiskTypeOK'
  BY <1>1, <1>2, <1>7, LateIsNat DEF DiskTypeOK, made
<1>9. DiskInv'
  BY <1>1, <1>2, <1>5 DEF DiskInv, Empty, BootstrapPending, JournalOp
<1>10. SessionInv'
  BY <1>1, <1>3 DEF SessionInv
<1>11. ASSUME job' = [job EXCEPT !.plan = Tail(@)]
       PROVE  JobInv'
  <2>1. /\ job' # None /\ job'.op = job.op /\ job'.plan = Tail(job.plan)
        /\ job'.custody = job.custody /\ job'.kek = job.kek
        /\ job'.dek = job.dek /\ job'.new = job.new
    BY <1>1, <1>2, <1>11, AdvancedJob
  <2>2. /\ \A x : ToDo(x) <=> x = h \/ ToDo(x)'
        /\ \A x : ToDo(x)' <=> In(x, Tail(job.plan))
    BY <1>1, <1>2, <2>1, AdvancedPlan
  <2>3. /\ BootstrapPending(FALSE)' /\ deks' = deks
        /\ keyring' = create(job'.kek, job'.dek, 1)
    BY <1>1, <1>5, <2>1 DEF BootstrapPending, made
  <2>4. ToDo("phrase_journal")'
    BY <1>5, <2>2
  <2>5. BootstrapInv'
    BY <1>1, <1>4, <1>5, <2>1, <2>2, <2>3, <2>4 DEF BootstrapInv
  <2> QED
    BY <1>3, <2>1, <2>5
       DEF JobInv, UnlockInv, ChangeInv, RotateInv, RollbackInv
<1> QED
  BY <1>1, <1>3, <1>8, <1>9, <1>10, <1>11, AdvanceKeeps

LEMMA CreateIdentityKeeps ==
  ASSUME VaultInv, CreateIdentity
  PROVE  VaultInv'
<1> DEFINE h == "create_identity"
<1>1. /\ Step(h) /\ session' = session /\ UNCHANGED made
      /\ UNCHANGED <<salt, keychain, keyring, staged, journal, recovery, files>>
      /\ \/ /\ material' = [material EXCEPT !["identity"] = {job.dek}]
            /\ Advance
         \/ /\ material' = material /\ UNCHANGED bounds /\ Failed
         \/ /\ material' = material /\ UNCHANGED bounds
            /\ material["identity"] = {job.dek}
            /\ job' = [job EXCEPT !.plan = Tail(@)]
  BY DEF CreateIdentity
<1>2. VaultTypeOK /\ PlanInv /\ DiskTypeOK /\ DiskInv
  BY DEF VaultInv, VaultTypeOK
<1>3. /\ job # None /\ job \in Operation /\ job.op = "bootstrap"
      /\ session = None /\ BootstrapInv /\ ToDo(h)
  BY <1>1, BootstrapStep DEF BootstrapOnly
<1>4. /\ \A x \in {"rm_keyring", "rm_recovery", "rm_identity", "rm_journal",
                   "bootstrap_journal", "keyring"} :
           ~ToDo(x) /\ ~In(x, Tail(job.plan))
      /\ ~In(h, Tail(job.plan))
  BY <1>1, <1>2, Past, Ranks, StepNotStore DEF StepNames
<1>5. /\ ToDo("phrase_journal") /\ BootstrapPending(FALSE)
      /\ job.dek \in 1..deks /\ job.new = 1
      /\ keyring = create(job.kek, job.dek, 1)
      /\ ~ToDo("recovery") => recovery = [version |-> 1, dek |-> job.dek]
      /\ job.custody # "recovery"
  BY <1>3, <1>4 DEF BootstrapInv
<1>6. job.dek \in DekId /\ "identity" \in StoreNames
  BY <1>2, <1>5, BoundsAssumption, StoreNamesFacts DEF DiskTypeOK, DekId
<1>7. material' \in [StoreNames -> SUBSET DekId]
  BY <1>1, <1>2, <1>6 DEF DiskTypeOK
<1>8. DiskTypeOK'
  BY <1>1, <1>2, <1>7, LateIsNat DEF DiskTypeOK, made
<1>9. DiskInv'
  <2>1. \A s \in StoreNames : s # "identity" => material'[s] = material[s]
    BY <1>1, <1>2 DEF DiskTypeOK
  <2>2. Empty'
    BY <1>1, <1>2, <1>5, <2>1 DEF DiskInv, Empty
  <2> QED
    BY <1>1, <1>5, <2>2 DEF DiskInv, BootstrapPending, JournalOp
<1>10. SessionInv'
  BY <1>1, <1>3 DEF SessionInv
<1>11. ASSUME job' = [job EXCEPT !.plan = Tail(@)], material'["identity"] = {job.dek}
       PROVE  JobInv'
  <2>1. /\ job' # None /\ job'.op = job.op /\ job'.plan = Tail(job.plan)
        /\ job'.custody = job.custody /\ job'.kek = job.kek
        /\ job'.dek = job.dek /\ job'.new = job.new
    BY <1>1, <1>2, <1>11, AdvancedJob
  <2>2. /\ \A x : ToDo(x) <=> x = h \/ ToDo(x)'
        /\ \A x : ToDo(x)' <=> In(x, Tail(job.plan))
    BY <1>1, <1>2, <2>1, AdvancedPlan
  <2>3. /\ BootstrapPending(FALSE)' /\ deks' = deks
        /\ keyring' = create(job'.kek, job'.dek, 1)
    BY <1>1, <1>5, <2>1 DEF BootstrapPending, made
  <2>4. ToDo("phrase_journal")'
    BY <1>5, <2>2
  <2>5. BootstrapInv'
    BY <1>1, <1>4, <1>5, <1>11, <2>1, <2>2, <2>3, <2>4 DEF BootstrapInv
  <2> QED
    BY <1>3, <2>1, <2>5
       DEF JobInv, UnlockInv, ChangeInv, RotateInv, RollbackInv
<1>12. CASE material' = [material EXCEPT !["identity"] = {job.dek}] /\ Advance
  <2>1. material'["identity"] = {job.dek}
    BY <1>2, <1>6, <1>12 DEF DiskTypeOK
  <2> QED
    BY <1>1, <1>3, <1>8, <1>9, <1>10, <1>11, <1>12, <2>1, AdvanceKeeps
<1>13. CASE Failed
  BY <1>1, <1>3, <1>8, <1>9, <1>10, <1>13, FailKeeps
<1>14. CASE /\ material' = material /\ UNCHANGED bounds
            /\ material["identity"] = {job.dek}
            /\ job' = [job EXCEPT !.plan = Tail(@)]
  <2>1. JobInv' /\ Advance
    BY <1>11, <1>14 DEF Advance
  <2> QED
    BY <1>1, <1>3, <1>8, <1>9, <1>10, <2>1, AdvanceKeeps
<1> QED
  BY <1>1, <1>12, <1>13, <1>14

LEMMA PhraseJournalKeeps ==
  ASSUME VaultInv, PhraseJournal
  PROVE  VaultInv'
<1> DEFINE h == "phrase_journal"
<1>1. /\ Step(h) /\ Advance /\ session' = session /\ UNCHANGED made
      /\ UNCHANGED <<salt, keychain, keyring, staged, material, recovery, files>>
      /\ journal' = [journal EXCEPT !.phrase = TRUE]
  BY DEF PhraseJournal
<1>2. VaultTypeOK /\ PlanInv /\ DiskTypeOK /\ DiskInv
  BY DEF VaultInv, VaultTypeOK
<1>3. /\ job # None /\ job \in Operation /\ job.op = "bootstrap"
      /\ session = None /\ BootstrapInv /\ ToDo(h)
  BY <1>1, BootstrapStep DEF BootstrapOnly
<1>4. /\ \A x \in {"rm_keyring", "rm_recovery", "rm_identity", "rm_journal",
                   "bootstrap_journal", "keyring", "create_identity",
                   "recovery"} : ~ToDo(x) /\ ~In(x, Tail(job.plan))
      /\ ~In(h, Tail(job.plan))
  BY <1>1, <1>2, Past, Ranks, StepNotStore DEF StepNames
<1>5. /\ BootstrapPending(FALSE)
      /\ job.dek \in 1..deks /\ job.new = 1
      /\ keyring = create(job.kek, job.dek, 1)
      /\ material["identity"] = {job.dek}
      /\ recovery = [version |-> 1, dek |-> job.dek]
      /\ job.custody # "recovery"
  BY <1>3, <1>4 DEF BootstrapInv
<1>6. keyring # None /\ 1 <= deks
  <2>1. job.dek \in DekId /\ 1 \in Version /\ job.kek \in Kek \cup {None}
    BY <1>2, <1>3, <1>5, BoundsAssumption
       DEF DiskTypeOK, DekId, Version, Operation
  <2>2. keyring # None
    BY <1>5, <2>1, CreatedKeyring
  <2> QED
    BY <1>2, <1>5, <2>2 DEF DiskTypeOK
<1>7. Whole
  BY <1>2, <1>5, <1>6, NewVaultIsWhole DEF DiskInv
<1>8. Whole'
  BY <1>1, <1>7 DEF Whole, FilesOn, ActiveDek, Dek, made
<1>9. journal' \in LifecycleJournal /\ journal'.op = "Bootstrap" /\ journal'.phrase = TRUE
  <2>1. journal \in LifecycleJournal /\ journal.op = "Bootstrap"
    BY <1>2, <1>5 DEF DiskTypeOK, BootstrapPending
  <2>2. journal \in [op : {"Bootstrap"}, custody : Custodies,
                     salt : Nat \cup {None}, kek : Kek, phrase : BOOLEAN]
    BY <2>1 DEF LifecycleJournal
  <2>3. journal' \in [op : {"Bootstrap"}, custody : Custodies,
                      salt : Nat \cup {None}, kek : Kek, phrase : BOOLEAN]
    BY <1>1, <2>2
  <2> QED
    BY <1>1, <2>2, <2>3 DEF LifecycleJournal
<1>10. BootstrapPending(TRUE)' /\ ~BootstrapPending(FALSE)'
  BY <1>9, NoneAssumption DEF BootstrapPending
<1>11. DiskTypeOK'
  BY <1>1, <1>2, <1>9, LateIsNat DEF DiskTypeOK, made
<1>12. DiskInv'
  BY <1>8, <1>9, <1>10, NoneAssumption DEF DiskInv, JournalOp
<1>13. SessionInv'
  BY <1>1, <1>3 DEF SessionInv
<1>14. ASSUME job' = [job EXCEPT !.plan = Tail(@)]
       PROVE  JobInv'
  <2>1. /\ job' # None /\ job'.op = job.op /\ job'.plan = Tail(job.plan)
        /\ job'.custody = job.custody
    BY <1>1, <1>2, <1>14, AdvancedJob
  <2>2. \A x : ToDo(x)' <=> In(x, Tail(job.plan))
    BY <1>1, <1>2, <2>1, AdvancedPlan
  <2>3. BootstrapInv'
    BY <1>4, <1>5, <1>8, <1>10, <2>1, <2>2 DEF BootstrapInv
  <2> QED
    BY <1>3, <2>1, <2>3
       DEF JobInv, UnlockInv, ChangeInv, RotateInv, RollbackInv
<1> QED
  BY <1>1, <1>3, <1>11, <1>12, <1>13, <1>14, AdvanceKeeps

LEMMA RemoveBootstrapFileKeeps ==
  ASSUME VaultInv, RemoveBootstrapFile
  PROVE  VaultInv'
<1>1. VaultTypeOK /\ PlanInv /\ DiskTypeOK /\ DiskInv
  BY DEF VaultInv, VaultTypeOK
<1>2. /\ Advance /\ session' = session /\ UNCHANGED made
      /\ UNCHANGED <<salt, journal, files>>
      /\ keyring' = IF Step("rm_keyring") THEN None ELSE keyring
      /\ staged' = IF Step("rm_staged") THEN None ELSE staged
      /\ recovery' = IF Step("rm_recovery") THEN None ELSE recovery
      /\ material' = IF Step("rm_identity")
                     THEN [material EXCEPT !["identity"] = {}] ELSE material
      /\ keychain' \in {keychain, None}
  BY DEF RemoveBootstrapFile
<1>3. PICK h \in {"rm_manifest", "rm_keyring", "rm_staged", "rm_recovery",
                  "rm_identity", "rm_keychain"} : Step(h)
  BY DEF RemoveBootstrapFile
<1>4. \A x : Step(x) <=> x = h
  BY <1>3 DEF Step
<1>5. "identity" \in StoreNames
  BY StoreNamesFacts
<1>6. /\ material' \in [StoreNames -> SUBSET DekId]
      /\ \A s \in StoreNames : s # "identity" => material'[s] = material[s]
  BY <1>1, <1>2, <1>5 DEF DiskTypeOK
<1>7. DiskTypeOK'
  BY <1>1, <1>2, <1>6, LateIsNat DEF DiskTypeOK, made
<1>8. CASE h \in {"rm_manifest", "rm_staged", "rm_keychain"}
  <2>1. h \notin Watched
    BY <1>8, StepNotStore DEF Watched, StepNames
  <2>2. /\ UNCHANGED <<keyring, journal, material, recovery, files, deks, session>>
        /\ staged' \in {staged, None}
    BY <1>2, <1>4, <1>8 DEF made
  <2> QED
    BY <1>2, <1>3, <1>7, <2>1, <2>2, QuietKeeps
<1>9. CASE h \in {"rm_keyring", "rm_recovery", "rm_identity"}
  <2>1. /\ job # None /\ job \in Operation /\ job.op = "bootstrap"
        /\ session = None /\ BootstrapInv /\ ToDo(h)
    BY <1>3, BootstrapStep DEF BootstrapOnly
  <2>2. /\ ToDo("rm_journal") /\ BootstrapPending(FALSE)
        /\ ToDo("bootstrap_journal") /\ job.custody # "recovery"
        /\ ~ToDo("rm_keyring") => keyring = None
        /\ \A x \in {"keyring", "create_identity", "recovery", "phrase_journal"} :
             ToDo(x)
    BY <1>9, <2>1 DEF BootstrapInv
  <2>3. Empty' /\ BootstrapPending(FALSE)'
    BY <1>1, <1>2, <1>6, <2>2 DEF DiskInv, Empty, BootstrapPending
  <2>4. DiskInv'
    BY <1>2, <2>2, <2>3 DEF DiskInv, BootstrapPending, JournalOp
  <2>5. SessionInv'
    BY <1>2, <2>1 DEF SessionInv
  <2>6. ASSUME job' = [job EXCEPT !.plan = Tail(@)]
        PROVE  JobInv'
    <3>1. /\ job' # None /\ job'.op = job.op /\ job'.plan = Tail(job.plan)
          /\ job'.custody = job.custody
      BY <1>1, <1>3, <2>6, AdvancedJob
    <3>2. \A x : ToDo(x) <=> x = h \/ ToDo(x)'
      BY <1>1, <1>2, <1>3, <3>1, AdvancedPlan
    <3>3. /\ ToDo("rm_journal")' /\ ToDo("bootstrap_journal")'
          /\ \A x \in {"keyring", "create_identity", "recovery",
                       "phrase_journal"} : ToDo(x)'
      BY <1>9, <2>2, <3>2
    <3>4. ~ToDo("rm_keyring")' => keyring' = None
      BY <1>2, <1>4, <2>2, <3>2
    <3>5. BootstrapInv'
      BY <2>2, <2>3, <3>1, <3>3, <3>4 DEF BootstrapInv
    <3> QED
      BY <2>1, <3>1, <3>5
         DEF JobInv, UnlockInv, ChangeInv, RotateInv, RollbackInv
  <2> QED
    BY <1>2, <1>3, <1>7, <2>1, <2>4, <2>5, <2>6, AdvanceKeeps
<1> QED
  BY <1>3, <1>8, <1>9

LEMMA RemoveBootstrapJournal ==
  ASSUME VaultInv, RemoveJournal, Step("rm_journal")
  PROVE  VaultInv'
<1> DEFINE h == "rm_journal"
<1>1. /\ Step(h) /\ Advance /\ session' = session /\ UNCHANGED made
      /\ UNCHANGED <<salt, keychain, keyring, staged, material, recovery, files>>
      /\ journal' = None
  BY DEF RemoveJournal
<1>2. VaultTypeOK /\ PlanInv /\ DiskTypeOK /\ DiskInv
  BY DEF VaultInv, VaultTypeOK
<1>3. /\ job # None /\ job \in Operation /\ job.op = "bootstrap"
      /\ session = None /\ BootstrapInv /\ ToDo(h)
  BY <1>1, BootstrapStep DEF BootstrapOnly
<1>4. /\ \A x \in {"rm_keyring", "rm_recovery", "rm_identity"} :
           ~ToDo(x) /\ ~In(x, Tail(job.plan))
      /\ ~In(h, Tail(job.plan))
  BY <1>1, <1>2, Past, Ranks, StepNotStore DEF StepNames
<1>5. /\ BootstrapPending(FALSE) /\ ToDo("bootstrap_journal")
      /\ keyring = None /\ job.custody # "recovery"
      /\ \A x \in {"keyring", "create_identity", "recovery", "phrase_journal"} :
           ToDo(x)
  BY <1>3, <1>4 DEF BootstrapInv
<1>6. DiskTypeOK'
  BY <1>1, <1>2, LateIsNat DEF DiskTypeOK, made
<1>7. DiskInv'
  BY <1>1, <1>2, <1>5 DEF DiskInv, Empty, BootstrapPending, JournalOp
<1>8. SessionInv'
  BY <1>1, <1>3 DEF SessionInv
<1>9. ASSUME job' = [job EXCEPT !.plan = Tail(@)]
      PROVE  JobInv'
  <2>1. /\ job' # None /\ job'.op = job.op /\ job'.plan = Tail(job.plan)
        /\ job'.custody = job.custody
    BY <1>1, <1>2, <1>9, AdvancedJob
  <2>2. /\ \A x : ToDo(x) <=> x = h \/ ToDo(x)'
        /\ \A x : ToDo(x)' <=> In(x, Tail(job.plan))
    BY <1>1, <1>2, <2>1, AdvancedPlan
  <2>3. /\ ToDo("bootstrap_journal")' /\ ~ToDo(h)'
        /\ \A x \in {"rm_keyring", "rm_recovery", "rm_identity"} : ~ToDo(x)'
        /\ \A x \in {"keyring", "create_identity", "recovery",
                     "phrase_journal"} : ToDo(x)'
    BY <1>4, <1>5, <2>2
  <2>4. BootstrapInv'
    BY <1>1, <1>5, <2>1, <2>3 DEF BootstrapInv
  <2> QED
    BY <1>3, <2>1, <2>4
       DEF JobInv, UnlockInv, ChangeInv, RotateInv, RollbackInv
<1> QED
  BY <1>1, <1>3, <1>6, <1>7, <1>8, <1>9, AdvanceKeeps

LEMMA BootstrapJournalKeeps ==
  ASSUME VaultInv, BootstrapJournal
  PROVE  VaultInv'
<1> DEFINE h == "bootstrap_journal"
<1>1. Step(h) /\ session' = session
  BY DEF BootstrapJournal
<1>2. /\ VaultTypeOK /\ PlanInv /\ DiskTypeOK /\ DiskInv /\ SessionInv
      /\ session \in Handle \cup {None}
  BY DEF VaultInv, VaultTypeOK, JobTypeOK
<1>3. /\ job # None /\ job \in Operation /\ job.op = "bootstrap"
      /\ session = None /\ BootstrapInv /\ ToDo(h)
  BY <1>1, BootstrapStep DEF BootstrapOnly
<1>4. CASE /\ job' = None /\ UNCHANGED <<disk, made, bounds>>
  <2>1. /\ UNCHANGED <<keyring, journal, material, recovery, files, deks, session>>
        /\ staged' \in {staged, None} /\ DiskTypeOK'
    BY <1>1, <1>2, <1>4 DEF disk, made, bounds, DiskTypeOK
  <2> QED
    BY <1>1, <1>2, <1>4, <2>1, QuietDisk, Dropped
<1>5. CASE ~VaultExists(job.custody)
  <2> DEFINE pass == job.custody = "passphrase"
             kek == IF pass THEN PassKek(job.kek.pass, salts + 1)
                    ELSE RandomKek(keks + 1)
  <2>1. /\ deks < MaxDek /\ deks' = deks + 1
        /\ salts' = IF pass THEN salts + 1 ELSE salts
        /\ keks' = IF pass THEN keks ELSE keks + 1
        /\ journal' = [op |-> "Bootstrap", custody |-> job.custody,
                       salt |-> IF pass THEN salts + 1 ELSE None,
                       kek |-> kek, phrase |-> FALSE]
        /\ UNCHANGED <<salt, keychain, keyring, staged, material, recovery, files>>
        /\ \/ /\ job' = [job EXCEPT !.plan = Tail(@), !.kek = kek,
                                    !.dek = deks + 1, !.new = 1]
              /\ UNCHANGED bounds
           \/ late' = late + 1 /\ Failed
    BY <1>5 DEF BootstrapJournal, LateError
  <2>2. /\ \A x \in {"rm_keyring", "rm_recovery", "rm_identity", "rm_journal"} :
             ~ToDo(x) /\ ~In(x, Tail(job.plan))
        /\ ~In(h, Tail(job.plan))
    BY <1>1, <1>2, Past, Ranks, StepNotStore DEF StepNames
  <2>3. /\ journal = None /\ job.custody # "recovery"
        /\ \A x \in {"keyring", "create_identity", "recovery",
                     "phrase_journal"} : ToDo(x)
    BY <1>3, <2>2 DEF BootstrapInv
  <2>4. Empty
    BY <1>2, <1>5, <2>3 DEF DiskInv, Whole, VaultExists
  <2>5. /\ job.kek \in Kek /\ job.custody \in Custodies
        /\ salts \in Nat /\ keks \in Nat /\ deks \in 0..MaxDek /\ late \in Nat
    BY <1>2, <1>3, <2>3 DEF VaultTypeOK, JobTypeOK, DiskTypeOK, Operation,
         HandleCustodies
  <2>6. kek \in Kek
    BY <2>5 DEF PassKek, RandomKek, Kek
  <2> HIDE DEF kek
  <2>7. journal' \in LifecycleJournal
    BY <2>1, <2>5, <2>6 DEF LifecycleJournal
  <2>8. journal' # None /\ JournalOp' = "Bootstrap" /\ BootstrapPending(FALSE)'
        /\ ~BootstrapPending(TRUE)'
    BY <2>1, <2>7, NoneAssumption DEF JournalOp, BootstrapPending
  <2>9. DiskTypeOK'
    <3>1. deks' \in 0..MaxDek /\ salts' \in Nat /\ keks' \in Nat
      BY <2>1, <2>5, BoundsAssumption
    <3>2. late' \in Nat
      BY <2>1, <2>5 DEF bounds
    <3> QED
      BY <1>2, <2>1, <2>7, <3>1, <3>2 DEF DiskTypeOK
  <2>10. DiskInv'
    BY <2>1, <2>4, <2>8 DEF DiskInv, Empty
  <2>11. SessionInv'
    BY <1>1, <1>3 DEF SessionInv
  <2>12. CASE Failed
    BY <1>1, <1>3, <2>9, <2>10, <2>11, <2>12, FailKeeps
  <2>13. CASE job' = [job EXCEPT !.plan = Tail(@), !.kek = kek,
                                 !.dek = deks + 1, !.new = 1]
    <3>1. job.plan \in Seq(PlanStep) /\ Tail(job.plan) \in Seq(PlanStep)
      BY <1>1, <1>2, HeadOfPlan, InTail
    <3>2. deks + 1 \in DekId /\ 1 \in Version
      BY <2>1, <2>5, BoundsAssumption DEF DekId, Version
    <3>3. /\ job' \in Operation /\ job'.op = "bootstrap"
          /\ job'.plan = Tail(job.plan) /\ job'.custody = job.custody
          /\ job'.kek = kek /\ job'.dek = deks + 1 /\ job'.new = 1
      BY <1>3, <2>6, <2>13, <3>1, <3>2 DEF Operation, PlanStep
    <3>4. job' # None
      BY <3>3, NoneAssumption
    <3>5. /\ PlanInv'
          /\ \A x : ToDo(x) <=> x = h \/ ToDo(x)'
          /\ \A x : ToDo(x)' <=> In(x, Tail(job.plan))
      BY <1>1, <1>2, <1>3, <3>3, <3>4, AdvancedPlan
    <3>6. /\ ~ToDo(h)' /\ ~ToDo("rm_journal")'
          /\ \A x \in {"rm_keyring", "rm_recovery", "rm_identity"} : ~ToDo(x)'
          /\ \A x \in {"keyring", "create_identity", "recovery",
                       "phrase_journal"} : ToDo(x)'
      BY <2>2, <2>3, <3>5
    <3>7. job'.dek \in 1..deks'
      BY <2>1, <2>5, <3>3
    <3>8. BootstrapInv'
      BY <2>3, <2>8, <3>3, <3>6, <3>7 DEF BootstrapInv
    <3>9. JobInv'
      BY <3>3, <3>8 DEF JobInv, UnlockInv, ChangeInv, RotateInv, RollbackInv
    <3>10. JobTypeOK'
      BY <1>1, <1>2, <2>6, <3>3 DEF JobTypeOK
    <3> QED
      BY <2>9, <2>10, <2>11, <3>5, <3>9, <3>10 DEF VaultInv, VaultTypeOK
  <2> QED
    BY <2>1, <2>12, <2>13
<1> QED
  BY <1>4, <1>5 DEF BootstrapJournal

-----------------------------------------------------------------------------
(* rotate_key.                                                             *)

\* What a rotation that has added its DEK can rely on.
LEMMA RotateFacts ==
  ASSUME VaultInv, NEW h, Step(h), job.op = "rotate", h # "rotate_journal",
         h # "add_active_dek"
  PROVE  /\ job # None /\ job \in Operation /\ session # None
         /\ session \in Handle
         /\ ToDo(h) /\ ToDo("unjournal") /\ ~ToDo("rotate_journal")
         /\ ~ToDo("add_active_dek") /\ h \in RotateSteps
         /\ JournalOp = "Rotate"
         /\ journal = [op |-> "Rotate", old_version |-> job.old,
                       new_version |-> job.new, backup |-> job.backup]
         /\ Mixed(job.old, job.new, job.backup)
         /\ job.wrap = Dek(keyring, job.old)
         /\ job.new \in DOMAIN keyring.entries /\ keyring.active = job.new
         /\ Dek(keyring, job.new) = job.dek /\ job.dek \in DekId
<1>1. /\ VaultTypeOK /\ PlanInv /\ JobInv /\ DiskInv
      /\ session \in Handle \cup {None}
  BY DEF VaultInv, VaultTypeOK, JobTypeOK
<1>2. job # None /\ job \in Operation /\ ToDo(h) /\ h \in RotateSteps
  BY <1>1, HeadOfPlan DEF StepsOf
<1>3. session # None
  BY <1>1, <1>2 DEF PlanInv
<1>4. /\ ~ToDo("rotate_journal") /\ ToDo("unjournal") /\ JournalOp = "Rotate"
      /\ journal = [op |-> "Rotate", old_version |-> job.old,
                    new_version |-> job.new, backup |-> job.backup]
  BY RotationJournalled
<1>5. h # "set_active" /\ Rank(h) # 0 /\ 6 <= Rank(h)
  BY <1>2, Ranks, StepNotStore DEF RotateSteps, StepNames
<1>6. ~ToDo("add_active_dek")
  BY <1>1, <1>5, Past, Ranks, StepNotStore DEF StepNames
<1>7. RotateInv
  BY <1>1, <1>2 DEF JobInv
<1>8. Mixed(job.old, job.new, job.backup)
  BY <1>1, <1>4 DEF DiskInv
<1> QED
  BY <1>1, <1>2, <1>3, <1>4, <1>6, <1>7, <1>8 DEF RotateInv

\* A rotation that has added its DEK, one step further: what it has to show.
LEMMA RotateAdvanced ==
  ASSUME VaultInv, NEW h, Step(h), job.op = "rotate", h # "rotate_journal",
         h # "add_active_dek", h # "unjournal",
         job' = [job EXCEPT !.plan = Tail(@)],
         UNCHANGED <<journal, keyring>>,
         ~ToDo("files")' => FilesOn(job.new, job.dek)',
         \A s \in StoreNames : ~ToDo(s)' => material'[s] \subseteq {job.dek},
         ~ToDo("recovery")' => recovery' = [version |-> job.new, dek |-> job.dek]
  PROVE  JobInv'
<1>1. VaultTypeOK /\ PlanInv
  BY DEF VaultInv
<1>2. /\ job' # None /\ job'.op = job.op /\ job'.plan = Tail(job.plan)
      /\ job'.dek = job.dek /\ job'.wrap = job.wrap /\ job'.old = job.old
      /\ job'.new = job.new /\ job'.backup = job.backup
  BY <1>1, AdvancedJob
<1>3. \A x : ToDo(x) <=> x = h \/ ToDo(x)'
  <2>1. \A x : ToDo(x)' <=> In(x, Tail(job.plan))
    BY <1>2 DEF ToDo
  <2> QED
    BY <1>1, <2>1, HeadOfPlan
<1>4. /\ ToDo("unjournal")' /\ ~ToDo("rotate_journal")' /\ ~ToDo("add_active_dek")'
  BY <1>3, RotateFacts
<1>5. /\ JournalOp' = JournalOp /\ \A v : Dek(keyring, v)' = Dek(keyring, v)
  BY DEF JournalOp, Dek
<1>6. RotateInv'
  BY <1>2, <1>4, <1>5, RotateFacts DEF RotateInv
<1> QED
  BY <1>2, <1>6 DEF JobInv, BootstrapInv, UnlockInv, ChangeInv, RollbackInv

LEMMA IssueRecoveryKeeps ==
  ASSUME VaultInv, IssueRecovery
  PROVE  VaultInv'
<1> DEFINE h == "recovery"
<1>1. /\ Step(h) /\ Advance /\ session' = session /\ UNCHANGED made
      /\ UNCHANGED <<salt, keychain, keyring, staged, journal, material, files>>
      /\ recovery' = [dek |-> job.dek, version |-> job.new]
  BY DEF IssueRecovery
<1>2. VaultTypeOK /\ PlanInv /\ DiskTypeOK /\ DiskInv /\ SessionInv /\ JobInv
  BY DEF VaultInv, VaultTypeOK
<1>3. /\ job # None /\ job \in Operation /\ h \in StepsOf(job.op) /\ ToDo(h)
  BY <1>1, <1>2, HeadOfPlan
<1>4. job.op \in {"bootstrap", "rotate"}
  <2>1. job.op \in {"bootstrap", "unlock", "change", "move", "rotate", "rollback"}
    BY <1>3 DEF Operation
  <2> QED
    BY <1>3, <2>1, StepNotStore DEF StepsOf, StepNames, UnlockSteps,
         ChangeSteps, MoveSteps, RollbackSteps
<1>5. CASE job.op = "bootstrap"
  <2>1. session = None /\ BootstrapInv
    BY <1>1, <1>5, BootstrapStep
  <2>2. /\ \A x \in {"rm_keyring", "rm_recovery", "rm_identity", "rm_journal",
                     "bootstrap_journal", "keyring", "create_identity"} :
             ~ToDo(x) /\ ~In(x, Tail(job.plan))
        /\ ~In(h, Tail(job.plan))
    BY <1>1, <1>2, Past, Ranks, StepNotStore DEF StepNames
  <2>3. /\ ToDo("phrase_journal") /\ BootstrapPending(FALSE)
        /\ job.dek \in 1..deks /\ job.new = 1
        /\ keyring = create(job.kek, job.dek, 1)
        /\ material["identity"] = {job.dek}
        /\ job.custody # "recovery"
    BY <1>3, <1>5, <2>1, <2>2 DEF BootstrapInv
  <2>4. job.dek \in DekId /\ job.new \in Version
    BY <1>2, <2>3, BoundsAssumption DEF DiskTypeOK, DekId, Version
  <2>5. DiskTypeOK'
    BY <1>1, <1>2, <2>4, LateIsNat DEF DiskTypeOK, Sealed, made
  <2>6. DiskInv'
    BY <1>1, <1>2, <2>3 DEF DiskInv, Empty, BootstrapPending, JournalOp
  <2>7. SessionInv'
    BY <1>1, <2>1 DEF SessionInv
  <2>8. ASSUME job' = [job EXCEPT !.plan = Tail(@)]
        PROVE  JobInv'
    <3>1. /\ job' # None /\ job'.op = job.op /\ job'.plan = Tail(job.plan)
          /\ job'.custody = job.custody /\ job'.kek = job.kek
          /\ job'.dek = job.dek /\ job'.new = job.new
      BY <1>1, <1>2, <2>8, AdvancedJob
    <3>2. /\ \A x : ToDo(x) <=> x = h \/ ToDo(x)'
          /\ \A x : ToDo(x)' <=> In(x, Tail(job.plan))
      BY <1>1, <1>2, <3>1, AdvancedPlan
    <3>3. /\ BootstrapPending(FALSE)' /\ deks' = deks
          /\ keyring' = create(job'.kek, job'.dek, 1)
          /\ recovery' = [version |-> 1, dek |-> job'.dek]
      BY <1>1, <2>3, <3>1 DEF BootstrapPending, made
    <3>4. ToDo("phrase_journal")'
      BY <2>3, <3>2
    <3>5. BootstrapInv'
      BY <1>1, <2>2, <2>3, <3>1, <3>2, <3>3, <3>4 DEF BootstrapInv
    <3> QED
      BY <1>5, <3>1, <3>5
         DEF JobInv, UnlockInv, ChangeInv, RotateInv, RollbackInv
  <2> QED
    BY <1>1, <1>5, <2>5, <2>6, <2>7, <2>8, AdvanceKeeps
<1>6. CASE job.op = "rotate"
  <2>1. /\ JournalOp = "Rotate" /\ Mixed(job.old, job.new, job.backup)
        /\ journal = [op |-> "Rotate", old_version |-> job.old,
                      new_version |-> job.new, backup |-> job.backup]
        /\ job.new \in DOMAIN keyring.entries /\ keyring.active = job.new
        /\ Dek(keyring, job.new) = job.dek /\ job.dek \in DekId
    BY <1>1, <1>6, RotateFacts
  <2>2. job.new \in Version
    BY <1>2, <2>1 DEF DiskTypeOK, Keyring, Mixed
  <2>3. DiskTypeOK'
    BY <1>1, <1>2, <2>1, <2>2, LateIsNat DEF DiskTypeOK, Sealed, made
  <2>4. recovery' = On(job.new)
    BY <1>1, <2>1 DEF On
  <2>5. \A v : On(v)' = On(v) /\ Dek(keyring, v)' = Dek(keyring, v)
    BY <1>1 DEF On, Dek
  <2>6. Mixed(journal.old_version, journal.new_version, journal.backup)'
    BY <1>1, <2>1, <2>4, <2>5 DEF Mixed, made
  <2>7. JournalOp' = "Rotate"
    BY <1>1, <2>1 DEF JournalOp
  <2>8. DiskInv'
    BY <2>6, <2>7 DEF DiskInv, JournalOp, BootstrapPending
  <2>9. SessionInv'
    BY <1>1, <1>2 DEF SessionInv, BootstrapPending, Dek
  <2>10. ASSUME job' = [job EXCEPT !.plan = Tail(@)]
         PROVE  JobInv'
    <3>1. \A x : ToDo(x) <=> x = h \/ ToDo(x)'
      BY <1>1, <1>2, <2>10, AdvancedJob, AdvancedPlan
    <3>2. RotateInv /\ ~ToDo("rotate_journal") /\ ToDo("unjournal")
      BY <1>1, <1>2, <1>3, <1>6, RotateFacts DEF JobInv
    <3>3. h \notin StoreNames
      BY StepNotStore DEF StepNames
    <3>4. /\ ~ToDo("files")' => FilesOn(job.new, job.dek)
          /\ \A s \in StoreNames : ~ToDo(s)' => material[s] \subseteq {job.dek}
      BY <1>6, <3>1, <3>2, <3>3 DEF RotateInv
    <3>5. FilesOn(job.new, job.dek)' = FilesOn(job.new, job.dek)
      <4>1. job'.new = job.new /\ job'.dek = job.dek
        BY <1>1, <1>2, <2>10, AdvancedJob
      <4> QED
        BY <1>1, <4>1 DEF FilesOn
    <3> QED
      BY <1>1, <1>6, <2>10, <3>4, <3>5, RotateAdvanced
  <2> QED
    BY <1>1, <1>6, <2>3, <2>8, <2>9, <2>10, AdvanceKeeps
<1> QED
  BY <1>4, <1>5, <1>6

-----------------------------------------------------------------------------
(* change_passphrase and move_to_os_keychain, and unlock where it finishes *)
(* or undoes them.                                                         *)

\* Without a Rotate journal, a vault that is bootstrapped is on one DEK.
LEMMA WholeUnlessRotating ==
  ASSUME DiskTypeOK, DiskInv, keyring # None, ~BootstrapPending(FALSE),
         JournalOp # "Rotate"
  PROVE  Whole
<1>1. CASE journal = None
  BY <1>1 DEF DiskInv
<1>2. CASE journal # None
  <2>1. journal \in LifecycleJournal
    BY <1>2 DEF DiskTypeOK
  <2>2. \/ journal.op = "Bootstrap" /\ journal.phrase \in BOOLEAN
        \/ journal.op \in {"ChangePassphrase", "MoveToKeychain", "Rotate"}
    BY <2>1 DEF LifecycleJournal
  <2> QED
    BY <1>2, <2>2 DEF DiskInv, JournalOp, BootstrapPending
<1> QED
  BY <1>1, <1>2

\* Without a Rotate journal, no part of a rollback is to do.
LEMMA NoRollback ==
  ASSUME VaultInv, NEW h, Step(h), job.op = "unlock", JournalOp # "Rotate",
         job' = [job EXCEPT !.plan = Tail(@)], journal' = journal
  PROVE  RollbackInv'
<1>1. VaultTypeOK /\ PlanInv /\ JobInv
  BY DEF VaultInv
<1>2. job # None /\ job' # None /\ job'.op = job.op /\ job'.plan = Tail(job.plan)
  BY <1>1, AdvancedJob, HeadOfPlan
<1>3. \A x : ToDo(x)' => ToDo(x)
  BY <1>1, <1>2, HeadOfPlan DEF ToDo
<1>4. RollbackInv
  BY <1>1, <1>2 DEF JobInv
<1>5. ~ToDo("rollback_load") /\ \A x \in RollbackSteps : ~ToDo(x)
  BY <1>4 DEF RollbackInv
<1>6. JournalOp' # "Rotate"
  BY DEF JournalOp
<1> QED
  BY <1>3, <1>5, <1>6 DEF RollbackInv

LEMMA WholeAgain ==
  ASSUME Whole, keyring' # None, SameDeks(keyring', keyring),
         UNCHANGED <<recovery, files, material, deks>>
  PROVE  Whole'
<1>1. /\ keyring'.active = keyring.active
      /\ DOMAIN keyring'.entries = DOMAIN keyring.entries
      /\ \A v \in DOMAIN keyring.entries : Dek(keyring', v) = Dek(keyring, v)
  <2>1. Keys(keyring') = Keys(keyring)
    BY DEF SameDeks
  <2>2. /\ DOMAIN Keys(keyring') = DOMAIN keyring'.entries
        /\ DOMAIN Keys(keyring) = DOMAIN keyring.entries
        /\ \A v \in DOMAIN keyring'.entries : Keys(keyring')[v] = Dek(keyring', v)
        /\ \A v \in DOMAIN keyring.entries : Keys(keyring)[v] = Dek(keyring, v)
    BY DEF Keys
  <2>3. DOMAIN keyring'.entries = DOMAIN keyring.entries
    BY <2>1, <2>2, Zenon
  <2>4. \A v \in DOMAIN keyring.entries : Dek(keyring', v) = Dek(keyring, v)
    BY <2>1, <2>2, <2>3, Zenon
  <2> QED
    BY <2>3, <2>4 DEF SameDeks
<1>2. ActiveDek(keyring') = ActiveDek(keyring)
  BY <1>1 DEF Whole, ActiveDek
<1>3. ActiveDek(keyring)' = ActiveDek(keyring')
  BY DEF ActiveDek, Dek
<1> QED
  BY <1>1, <1>2, <1>3 DEF Whole, FilesOn

LEMMA RewrappedKeyring ==
  ASSUME NEW kr \in Keyring, NEW kek \in Kek
  PROVE  /\ RewrappedUnder(kr, kek) \in Keyring
         /\ SameDeks(RewrappedUnder(kr, kek), kr)
<1> DEFINE new == RewrappedUnder(kr, kek)
           D == DOMAIN kr.entries
           R == [kek : Kek \cup {None}, dek : DekId]
<1>1. D \in SUBSET Version /\ kr.entries \in [D -> R]
      /\ kr = [active |-> kr.active, entries |-> kr.entries]
      /\ kr.active \in Version
  <2>1. PICK E \in SUBSET Version : kr.entries \in [E -> R]
    BY DEF Keyring, Entries
  <2> QED
    BY <2>1 DEF Keyring
<1>2. /\ new.active = kr.active
      /\ new.entries = [v \in D |-> [kr.entries[v] EXCEPT !.kek = kek]]
      /\ new = [active |-> new.active, entries |-> new.entries]
  BY <1>1 DEF RewrappedUnder
<1>3. \A v \in D : /\ [kr.entries[v] EXCEPT !.kek = kek] \in R
                   /\ [kr.entries[v] EXCEPT !.kek = kek].dek = kr.entries[v].dek
  BY <1>1
<1> HIDE DEF new, R
<1>4. new.entries \in [D -> R]
  BY <1>2, <1>3
<1>5. new \in Keyring
  BY <1>1, <1>2, <1>4 DEF Keyring, Entries, R
<1>6. DOMAIN new.entries = D /\ \A v \in D : new.entries[v].dek = kr.entries[v].dek
  BY <1>2, <1>3
<1>7. Keys(new) = Keys(kr)
  BY <1>6 DEF Keys, Dek
<1> QED
  BY <1>2, <1>5, <1>7 DEF SameDeks, new

LEMMA ChangeFacts ==
  ASSUME VaultInv, job # None, job.op \in {"change", "move"}
  PROVE  /\ job \in Operation /\ session # None /\ ChangeInv
         /\ Whole /\ JournalOp # "Rotate" /\ ~BootstrapPending(FALSE)
         /\ job.kek \in Kek
BY DEF VaultInv, VaultTypeOK, JobTypeOK, PlanInv, JobInv, ChangeInv, SessionInv

LEMMA StageRewrapKeeps ==
  ASSUME VaultInv, StageRewrap
  PROVE  VaultInv'
<1> DEFINE h == "stage"
<1>1. /\ Step(h) /\ Advance /\ session' = session /\ UNCHANGED made
      /\ UNCHANGED <<salt, keychain, keyring, journal, material, recovery, files>>
      /\ staged' = RewrappedUnder(keyring, job.kek)
  BY DEF StageRewrap
<1>2. VaultTypeOK /\ PlanInv /\ DiskTypeOK /\ DiskInv /\ SessionInv
  BY DEF VaultInv, VaultTypeOK
<1>3. job # None /\ job \in Operation /\ h \in StepsOf(job.op)
  BY <1>1, <1>2, HeadOfPlan
<1>4. job.op \in {"change", "move"}
  <2>1. job.op \in {"bootstrap", "unlock", "change", "move", "rotate", "rollback"}
    BY <1>3 DEF Operation
  <2> QED
    BY <1>3, <2>1, StepNotStore DEF StepsOf, StepNames, RemoveSteps,
         CreateSteps, UnlockSteps, RotateSteps, RollbackSteps
<1>5. /\ Whole /\ JournalOp # "Rotate" /\ ~BootstrapPending(FALSE)
      /\ job.kek \in Kek /\ keyring \in Keyring
  BY <1>2, <1>3, <1>4, ChangeFacts DEF DiskTypeOK, Whole
<1>6. staged' \in Keyring /\ SameDeks(staged', keyring)
  BY <1>1, <1>5, RewrappedKeyring
<1>7. StagedSame'
  BY <1>1, <1>6 DEF StagedSame, SameDeks, Keys, Dek
<1>8. Whole' /\ JournalOp' # "Rotate" /\ ~BootstrapPending(FALSE)'
  BY <1>1, <1>5 DEF Whole, FilesOn, ActiveDek, Dek, made, JournalOp, BootstrapPending
<1>9. DiskTypeOK'
  BY <1>1, <1>2, <1>6, LateIsNat DEF DiskTypeOK, made
<1>10. DiskInv'
  BY <1>7, <1>8 DEF DiskInv
<1>11. SessionInv'
  BY <1>1, <1>2, <1>8 DEF SessionInv, Dek
<1>12. ASSUME job' = [job EXCEPT !.plan = Tail(@)]
       PROVE  JobInv'
  <2>1. job' # None /\ job'.op = job.op
    BY <1>1, <1>2, <1>12, AdvancedJob
  <2> QED
    BY <1>4, <1>7, <1>8, <2>1
       DEF JobInv, BootstrapInv, UnlockInv, ChangeInv, RotateInv, RollbackInv
<1> QED
  BY <1>1, <1>4, <1>9, <1>10, <1>11, <1>12, AdvanceKeeps

LEMMA WriteChangeJournal ==
  ASSUME VaultInv, WriteJournal, Step("change_journal") \/ Step("move_journal")
  PROVE  VaultInv'
<1>1. /\ Advance /\ session' = session /\ UNCHANGED made
      /\ UNCHANGED <<salt, keychain, keyring, staged, material, recovery, files>>
  BY DEF WriteJournal
<1>2. PICK h \in {"change_journal", "move_journal"} : Step(h)
  OBVIOUS
<1>3. VaultTypeOK /\ PlanInv /\ DiskTypeOK /\ DiskInv /\ SessionInv
  BY DEF VaultInv, VaultTypeOK
<1>4. job # None /\ job \in Operation /\ h \in StepsOf(job.op) /\ Head(job.plan) = h
  BY <1>2, <1>3, HeadOfPlan
<1>5. job.op \in {"change", "move"}
  <2>1. job.op \in {"bootstrap", "unlock", "change", "move", "rotate", "rollback"}
    BY <1>4 DEF Operation
  <2> QED
    BY <1>4, <2>1, StepNotStore DEF StepsOf, StepNames, RemoveSteps,
         CreateSteps, UnlockSteps, RotateSteps, RollbackSteps
<1>6. Whole /\ ChangeInv /\ job.kek \in Kek
  BY <1>4, <1>5, ChangeFacts
<1>7. ~ToDo("stage") /\ ~In("stage", Tail(job.plan))
  BY <1>2, <1>3, Past, Ranks, StepNotStore DEF StepNames
<1>8. StagedSame
  BY <1>5, <1>6, <1>7 DEF ChangeInv
<1>9. \/ journal' = [op |-> "ChangePassphrase", old_salt |-> salt,
                     new_salt |-> job.kek.id]
      \/ journal' = [op |-> "MoveToKeychain"]
  BY <1>2, <1>4 DEF WriteJournal, Step
<1>10. /\ journal' \in LifecycleJournal
       /\ journal'.op \in {"ChangePassphrase", "MoveToKeychain"}
  <2>1. salt \in Nat \cup {None} /\ job.kek.id \in Nat \cup {None}
    BY <1>3, <1>6 DEF DiskTypeOK, Kek
  <2> QED
    BY <1>9, <2>1 DEF LifecycleJournal
<1>11. /\ JournalOp' \in {"ChangePassphrase", "MoveToKeychain"} /\ journal' # None
       /\ ~BootstrapPending(FALSE)' /\ ~BootstrapPending(TRUE)'
  BY <1>10, NoneAssumption DEF JournalOp, BootstrapPending
<1>12. Whole' /\ StagedSame'
  BY <1>1, <1>6, <1>8 DEF Whole, FilesOn, ActiveDek, Dek, made, StagedSame,
       SameDeks, Keys
<1>13. DiskTypeOK'
  BY <1>1, <1>3, <1>10, LateIsNat DEF DiskTypeOK, made
<1>14. DiskInv'
  BY <1>11, <1>12 DEF DiskInv
<1>15. SessionInv'
  BY <1>1, <1>3, <1>11 DEF SessionInv, Dek
<1>16. ASSUME job' = [job EXCEPT !.plan = Tail(@)]
       PROVE  JobInv'
  <2>1. job' # None /\ job'.op = job.op
    BY <1>2, <1>3, <1>16, AdvancedJob
  <2> QED
    BY <1>5, <1>11, <1>12, <2>1
       DEF JobInv, BootstrapInv, UnlockInv, ChangeInv, RotateInv, RollbackInv
<1> QED
  BY <1>1, <1>2, <1>5, <1>13, <1>14, <1>15, <1>16, AdvanceKeeps

LEMMA CommitStagedKeeps ==
  ASSUME VaultInv, CommitStaged
  PROVE  VaultInv'
<1> DEFINE h == "commit"
<1>1. /\ Step(h) /\ Advance /\ session' = session /\ UNCHANGED made
      /\ UNCHANGED <<salt, keychain, journal, material, recovery, files>>
      /\ staged # None /\ keyring' = staged /\ staged' = None
  BY DEF CommitStaged
<1>2. VaultTypeOK /\ PlanInv /\ DiskTypeOK /\ DiskInv /\ SessionInv /\ JobInv
  BY DEF VaultInv, VaultTypeOK
<1>3. job # None /\ job \in Operation /\ h \in StepsOf(job.op) /\ ToDo(h)
  BY <1>1, <1>2, HeadOfPlan
<1>4. job.op \in {"unlock", "change", "move"}
  <2>1. job.op \in {"bootstrap", "unlock", "change", "move", "rotate", "rollback"}
    BY <1>3 DEF Operation
  <2> QED
    BY <1>3, <2>1, StepNotStore DEF StepsOf, StepNames, RemoveSteps,
         CreateSteps, RotateSteps, RollbackSteps
<1>5. /\ Whole /\ StagedSame /\ JournalOp # "Rotate" /\ ~BootstrapPending(FALSE)
      /\ job.op = "unlock" => JournalOp \in {"ChangePassphrase", "MoveToKeychain"}
  <2>1. CASE job.op = "unlock"
    <3>1. UnlockInv
      BY <1>2, <1>3 DEF JobInv
    <3> QED
      BY <1>2, <1>3, <2>1, <3>1 DEF UnlockInv, DiskInv
  <2>2. CASE job.op \in {"change", "move"}
    <3>1. ~ToDo("stage")
      BY <1>1, <1>2, Past, Ranks, StepNotStore DEF StepNames
    <3> QED
      BY <1>3, <2>2, <3>1, ChangeFacts DEF ChangeInv
  <2> QED
    BY <1>4, <2>1, <2>2
<1>6. SameDeks(keyring', keyring) /\ keyring' # None
  BY <1>1, <1>5 DEF StagedSame
<1>7. Whole'
  BY <1>1, <1>5, <1>6, WholeAgain DEF made
<1>8. StagedSame' /\ JournalOp' = JournalOp /\ ~BootstrapPending(FALSE)'
  BY <1>1, <1>5 DEF StagedSame, JournalOp, BootstrapPending
<1>9. DiskTypeOK'
  BY <1>1, <1>2, LateIsNat DEF DiskTypeOK, made
<1>10. DiskInv'
  BY <1>5, <1>7, <1>8 DEF DiskInv
<1>11. SessionInv'
  <2> SUFFICES ASSUME session # None, session.active \in DOMAIN keyring'.entries
               PROVE  /\ session.active \in DOMAIN session.keys
                      /\ session.keys[session.active] = Dek(keyring', session.active)
    BY <1>1, <1>6, <1>8 DEF SessionInv, Dek
  <2> DEFINE v == session.active
  <2>1. Keys(keyring') = Keys(keyring)
    BY <1>6 DEF SameDeks
  <2>2. /\ DOMAIN Keys(keyring') = DOMAIN keyring'.entries
        /\ DOMAIN Keys(keyring) = DOMAIN keyring.entries
        /\ v \in DOMAIN keyring'.entries => Keys(keyring')[v] = Dek(keyring', v)
        /\ v \in DOMAIN keyring.entries => Keys(keyring)[v] = Dek(keyring, v)
    BY DEF Keys
  <2>3. v \in DOMAIN keyring.entries /\ Dek(keyring', v) = Dek(keyring, v)
    BY <2>1, <2>2, Zenon
  <2> QED
    BY <1>2, <2>3 DEF SessionInv
<1>12. ASSUME job' = [job EXCEPT !.plan = Tail(@)]
       PROVE  JobInv'
  <2>1. /\ job' # None /\ job'.op = job.op /\ job'.plan = Tail(job.plan)
        /\ job'.custody = job.custody
    BY <1>1, <1>2, <1>12, AdvancedJob
  <2>2. \A x : ToDo(x)' => ToDo(x)
    BY <1>1, <1>2, <2>1, HeadOfPlan DEF ToDo
  <2>3. CASE job.op = "unlock"
    <3>1. UnlockInv
      BY <1>2, <1>3 DEF JobInv
    <3>2. UnlockInv'
      BY <1>5, <1>6, <1>8, <2>1, <2>2, <2>3, <3>1 DEF UnlockInv
    <3>3. RollbackInv'
      BY <1>1, <1>5, <1>12, <2>3, NoRollback
    <3> QED
      BY <2>1, <2>3, <3>2, <3>3 DEF JobInv, BootstrapInv, ChangeInv, RotateInv
  <2>4. CASE job.op \in {"change", "move"}
    BY <1>5, <1>7, <1>8, <2>1, <2>4
       DEF JobInv, BootstrapInv, UnlockInv, ChangeInv, RotateInv, RollbackInv
  <2> QED
    BY <1>4, <2>3, <2>4
<1> QED
  BY <1>1, <1>4, <1>9, <1>10, <1>11, <1>12, AdvanceKeeps

LEMMA ReplaceKeyringKeeps ==
  ASSUME VaultInv, ReplaceKeyring
  PROVE  VaultInv'
<1> DEFINE h == "replace"
<1>1. /\ Step(h) /\ Advance /\ session' = session /\ UNCHANGED made
      /\ UNCHANGED <<salt, keychain, staged, journal, material, recovery, files>>
      /\ keyring' = create(job.kek, job.dek, keyring.active)
  BY DEF ReplaceKeyring
<1>2. VaultTypeOK /\ PlanInv /\ DiskTypeOK /\ DiskInv /\ SessionInv /\ JobInv
  BY DEF VaultInv, VaultTypeOK
<1>3. job # None /\ job \in Operation /\ h \in StepsOf(job.op) /\ ToDo(h)
  BY <1>1, <1>2, HeadOfPlan
<1>4. job.op = "unlock"
  <2>1. job.op \in {"bootstrap", "unlock", "change", "move", "rotate", "rollback"}
    BY <1>3 DEF Operation
  <2> QED
    BY <1>3, <2>1, StepNotStore DEF StepsOf, StepNames, RemoveSteps,
         CreateSteps, ChangeSteps, MoveSteps, RotateSteps, RollbackSteps
<1>5. UnlockInv /\ session = None
  BY <1>2, <1>3, <1>4 DEF JobInv, PlanInv
<1>6. /\ Whole /\ JournalOp \in {"none", "Bootstrap"} /\ ~BootstrapPending(FALSE)
      /\ job.dek = ActiveDek(keyring) /\ ~ToDo("commit")
  BY <1>3, <1>4, <1>5 DEF UnlockInv
<1>7. /\ job.dek \in DekId /\ keyring.active \in Version
      /\ job.kek \in Kek \cup {None}
  <2>1. keyring \in Keyring /\ keyring.active \in DOMAIN keyring.entries
    BY <1>2, <1>6 DEF DiskTypeOK, Whole
  <2>2. keyring.entries \in Entries
    BY <2>1 DEF Keyring
  <2>3. keyring.entries[keyring.active].dek \in DekId
    BY <2>1, <2>2 DEF Entries
  <2> QED
    BY <1>3, <1>6, <2>1, <2>3 DEF ActiveDek, Dek, Keyring, Operation
<1>8. /\ keyring' \in Keyring /\ keyring' # None
      /\ keyring'.active = keyring.active
      /\ DOMAIN keyring'.entries = {keyring.active}
      /\ ActiveDek(keyring') = ActiveDek(keyring)
  BY <1>1, <1>6, <1>7, CreatedKeyring
<1>9. ActiveDek(keyring)' = ActiveDek(keyring')
  BY DEF ActiveDek, Dek
<1>10. Whole'
  BY <1>1, <1>6, <1>8, <1>9 DEF Whole, FilesOn, made
<1>11. JournalOp' = JournalOp /\ ~BootstrapPending(FALSE)'
  BY <1>1, <1>6 DEF JournalOp, BootstrapPending
<1>12. DiskTypeOK'
  BY <1>1, <1>2, <1>8, LateIsNat DEF DiskTypeOK, made
<1>13. DiskInv'
  BY <1>6, <1>10, <1>11 DEF DiskInv
<1>14. SessionInv'
  BY <1>1, <1>5 DEF SessionInv
<1>15. ASSUME job' = [job EXCEPT !.plan = Tail(@)]
       PROVE  JobInv'
  <2>1. /\ job' # None /\ job'.op = job.op /\ job'.plan = Tail(job.plan)
        /\ job'.dek = job.dek
    BY <1>1, <1>2, <1>15, AdvancedJob
  <2>2. \A x : ToDo(x)' => ToDo(x)
    BY <1>1, <1>2, <2>1, HeadOfPlan DEF ToDo
  <2>3. UnlockInv'
    BY <1>6, <1>8, <1>9, <1>10, <1>11, <2>1, <2>2 DEF UnlockInv
  <2>4. RollbackInv'
    BY <1>1, <1>4, <1>6, <1>15, NoRollback
  <2> QED
    BY <1>4, <2>1, <2>3, <2>4 DEF JobInv, BootstrapInv, ChangeInv, RotateInv
<1> QED
  BY <1>1, <1>4, <1>12, <1>13, <1>14, <1>15, AdvanceKeeps

-----------------------------------------------------------------------------
(* rotate_key, up to the files.                                            *)

LEMMA KeyringDek ==
  ASSUME NEW kr \in Keyring, NEW v \in DOMAIN kr.entries
  PROVE  Dek(kr, v) \in DekId /\ v \in Version
BY DEF Keyring, Entries, Dek

LEMMA WriteRotateJournal ==
  ASSUME VaultInv, WriteJournal, Step("rotate_journal")
  PROVE  VaultInv'
<1> DEFINE h == "rotate_journal"
<1>1. /\ Step(h) /\ Advance /\ session' = session /\ UNCHANGED made
      /\ UNCHANGED <<salt, keychain, keyring, staged, material, recovery, files>>
  BY DEF WriteJournal
<1>2. VaultTypeOK /\ PlanInv /\ DiskTypeOK /\ DiskInv /\ SessionInv /\ JobInv
  BY DEF VaultInv, VaultTypeOK
<1>3. /\ job # None /\ job \in Operation /\ h \in StepsOf(job.op) /\ ToDo(h)
      /\ Head(job.plan) = h
  BY <1>1, <1>2, HeadOfPlan
<1>4. job.op = "rotate"
  <2>1. job.op \in {"bootstrap", "unlock", "change", "move", "rotate", "rollback"}
    BY <1>3 DEF Operation
  <2> QED
    BY <1>3, <2>1, StepNotStore DEF StepsOf, StepNames, RemoveSteps,
         CreateSteps, ChangeSteps, MoveSteps, UnlockSteps, RollbackSteps
<1>5. journal' = [op |-> "Rotate", old_version |-> job.old,
                  new_version |-> job.new, backup |-> job.backup]
  BY <1>3 DEF WriteJournal, Step
<1>6. RotateInv
  BY <1>2, <1>3 DEF JobInv
<1>7. /\ journal = None /\ Whole
      /\ job.old = keyring.active /\ job.new = job.old + 1 /\ job.new <= deks
      /\ job.wrap = ActiveDek(keyring) /\ job.backup = recovery
      /\ session.active = job.old /\ job.dek \in DekId
      /\ \A x \in RotateSteps : ToDo(x)
  BY <1>3, <1>4, <1>6 DEF RotateInv
<1>8. /\ job.old \in Version /\ job.new \in Version /\ job.backup \in Sealed
      /\ keyring \in Keyring /\ recovery \in Sealed
  <2>1. keyring \in Keyring
    BY <1>2, <1>7 DEF DiskTypeOK, Whole
  <2>2. keyring.active \in Version /\ ActiveDek(keyring) \in DekId
    BY <1>7, <2>1, KeyringDek DEF Whole, ActiveDek
  <2>3. recovery \in Sealed
    BY <1>7, <2>2 DEF Whole, Sealed
  <2>4. job.new \in Version
    BY <1>2, <1>7, <2>2, BoundsAssumption DEF Version, DiskTypeOK
  <2> QED
    BY <1>7, <2>1, <2>2, <2>3, <2>4
<1>9. journal' \in LifecycleJournal /\ journal' # None
  <2>1. journal' \in LifecycleJournal
    BY <1>5, <1>8 DEF LifecycleJournal
  <2> QED
    BY <2>1, NoneAssumption
<1>10. /\ JournalOp' = "Rotate" /\ ~BootstrapPending(FALSE)'
       /\ ~BootstrapPending(TRUE)'
  BY <1>5, <1>9 DEF JournalOp, BootstrapPending
<1>11. job.new \notin DOMAIN keyring.entries
  BY <1>7, <1>8 DEF Whole, Version
<1>12. \A v : On(v)' = On(v) /\ Dek(keyring, v)' = Dek(keyring, v)
  BY <1>1 DEF On, Dek
<1>13. Mixed(job.old, job.new, job.backup)
  BY <1>7 DEF Mixed, On, Whole, FilesOn, ActiveDek
<1>14. Mixed(journal.old_version, journal.new_version, journal.backup)'
  BY <1>1, <1>5, <1>12, <1>13 DEF Mixed, made
<1>15. DiskTypeOK'
  BY <1>1, <1>2, <1>9, LateIsNat DEF DiskTypeOK, made
<1>16. DiskInv'
  BY <1>9, <1>10, <1>14 DEF DiskInv
<1>17. SessionInv'
  BY <1>1, <1>2, <1>10 DEF SessionInv, Dek
<1>18. ASSUME job' = [job EXCEPT !.plan = Tail(@)]
       PROVE  JobInv'
  <2>1. /\ job' # None /\ job'.op = job.op /\ job'.plan = Tail(job.plan)
        /\ job'.dek = job.dek /\ job'.wrap = job.wrap /\ job'.old = job.old
        /\ job'.new = job.new /\ job'.backup = job.backup
    BY <1>1, <1>2, <1>18, AdvancedJob
  <2>2. /\ \A x : ToDo(x) <=> x = h \/ ToDo(x)'
        /\ \A x : ToDo(x)' <=> In(x, Tail(job.plan))
    BY <1>1, <1>2, <2>1, AdvancedPlan
  <2>3. ~ToDo(h)'
    BY <1>1, <1>2, <2>2, Past, Ranks, StepNotStore DEF StepNames
  <2>4. \A x \in RotateSteps \ {"rotate_journal"} : ToDo(x)'
    BY <1>7, <2>2
  <2>5. /\ ToDo("add_active_dek")' /\ ToDo("files")' /\ ToDo("recovery")'
        /\ ToDo("unjournal")' /\ \A s \in StoreNames : ToDo(s)'
    BY <2>4, StepNotStore DEF RotateSteps, StepNames
  <2>6. RotateInv'
    <3>1. job'.wrap = Dek(keyring, job.old)'
      BY <1>1, <1>7, <2>1, <1>12 DEF ActiveDek
    <3> QED
      BY <1>1, <1>5, <1>7, <1>10, <1>11, <2>1, <2>3, <2>4, <2>5, <3>1
         DEF RotateInv
  <2> QED
    BY <1>4, <2>1, <2>6
       DEF JobInv, BootstrapInv, UnlockInv, ChangeInv, RollbackInv
<1> QED
  BY <1>1, <1>15, <1>16, <1>17, <1>18, AdvanceKeeps

LEMMA NextVersionIs ==
  ASSUME NEW kr, NEW m \in DOMAIN kr.entries, DOMAIN kr.entries \subseteq Nat,
         \A u \in DOMAIN kr.entries : u <= m
  PROVE  NextVersion(kr) = m + 1
<1> DEFINE c == CHOOSE v \in DOMAIN kr.entries :
                  \A u \in DOMAIN kr.entries : u <= v
<1>1. c \in DOMAIN kr.entries /\ \A u \in DOMAIN kr.entries : u <= c
  OBVIOUS
<1>2. NextVersion(kr) = 1 + c
  BY DEF NextVersion
<1> HIDE DEF c
<1>3. c = m
  BY <1>1
<1> QED
  BY <1>2, <1>3

LEMMA WithActiveDekKeyring ==
  ASSUME NEW kr \in Keyring, NEW v \in Version, NEW kek \in Kek,
         NEW dek \in DekId
  PROVE  /\ WithActiveDek(kr, v, kek, dek) \in Keyring
         /\ WithActiveDek(kr, v, kek, dek).active = v
         /\ DOMAIN WithActiveDek(kr, v, kek, dek).entries =
              DOMAIN kr.entries \cup {v}
         /\ Dek(WithActiveDek(kr, v, kek, dek), v) = dek
         /\ \A u \in DOMAIN kr.entries : u # v =>
              Dek(WithActiveDek(kr, v, kek, dek), u) = Dek(kr, u)
<1> DEFINE E == [u \in DOMAIN kr.entries \cup {v} |->
                   IF u = v THEN [kek |-> kek, dek |-> dek] ELSE kr.entries[u]]
           R == [kek : Kek \cup {None}, dek : DekId]
           D == DOMAIN kr.entries
<1>1. D \in SUBSET Version /\ \A u \in D : kr.entries[u] \in R
  BY DEF Keyring, Entries
<1>2. E \in [D \cup {v} -> R] /\ D \cup {v} \in SUBSET Version
  BY <1>1
<1>3. E \in Entries
  BY <1>2 DEF Entries
<1>4. WithActiveDek(kr, v, kek, dek) = [active |-> v, entries |-> E]
  BY DEF WithActiveDek
<1>5. WithActiveDek(kr, v, kek, dek) \in Keyring
  BY <1>3, <1>4 DEF Keyring
<1> QED
  BY <1>4, <1>5 DEF Dek

LEMMA AddActiveDekKeeps ==
  ASSUME VaultInv, AddActiveDek
  PROVE  VaultInv'
<1> DEFINE h == "add_active_dek"
<1>1. /\ Step(h) /\ session' = session /\ UNCHANGED made
      /\ UNCHANGED <<salt, keychain, staged, journal, material, recovery, files>>
      /\ keyring' = WithActiveDek(keyring, NextVersion(keyring), job.kek, job.dek)
  BY DEF AddActiveDek
<1>2. VaultTypeOK /\ PlanInv /\ DiskTypeOK /\ DiskInv /\ SessionInv /\ JobInv
  BY DEF VaultInv, VaultTypeOK
<1>3. job # None /\ job \in Operation /\ h \in StepsOf(job.op) /\ ToDo(h)
  BY <1>1, <1>2, HeadOfPlan
<1>4. job.op = "rotate"
  <2>1. job.op \in {"bootstrap", "unlock", "change", "move", "rotate", "rollback"}
    BY <1>3 DEF Operation
  <2> QED
    BY <1>3, <2>1, StepNotStore DEF StepsOf, StepNames, RemoveSteps,
         CreateSteps, ChangeSteps, MoveSteps, UnlockSteps, RollbackSteps
<1>5. /\ ~ToDo("rotate_journal") /\ ToDo("unjournal") /\ JournalOp = "Rotate"
      /\ journal = [op |-> "Rotate", old_version |-> job.old,
                    new_version |-> job.new, backup |-> job.backup]
  BY <1>1, <1>4, RotationJournalled
<1>6. RotateInv
  BY <1>2, <1>3 DEF JobInv
<1>7. /\ job.new \notin DOMAIN keyring.entries /\ session.active = job.old
      /\ \A x \in RotateSteps \ {"rotate_journal"} : ToDo(x)
      /\ job.wrap = Dek(keyring, job.old) /\ job.dek \in DekId
  BY <1>3, <1>4, <1>5, <1>6 DEF RotateInv
<1>8. Mixed(job.old, job.new, job.backup)
  BY <1>2, <1>5 DEF DiskInv
<1>9. keyring \in Keyring /\ DOMAIN keyring.entries \subseteq Version
  BY <1>2, <1>8 DEF DiskTypeOK, Mixed, Keyring, Entries
<1>10. /\ job.new = job.old + 1 /\ job.new \in Version /\ job.kek \in Kek
       /\ job.old \in Version /\ job.old # job.new
  <2>1. job.old \in Version /\ job.new = job.old + 1 /\ job.new <= deks
    BY <1>8, <1>9 DEF Mixed
  <2>2. job.new \in Version /\ job.old # job.new
    BY <1>2, <2>1, BoundsAssumption DEF Version, DiskTypeOK
  <2> QED
    BY <1>2, <1>3, <1>4, <2>1, <2>2 DEF VaultTypeOK, JobTypeOK
<1>11. NextVersion(keyring) = job.new
  <2>1. DOMAIN keyring.entries \subseteq Nat /\ job.old \in DOMAIN keyring.entries
    BY <1>8, <1>9 DEF Mixed, Version
  <2>2. \A u \in DOMAIN keyring.entries : u <= job.old
    BY <1>7, <1>8 DEF Mixed
  <2> QED
    BY <1>10, <2>1, <2>2, NextVersionIs
<1>12. /\ keyring' \in Keyring /\ keyring'.active = job.new
       /\ DOMAIN keyring'.entries = DOMAIN keyring.entries \cup {job.new}
       /\ Dek(keyring', job.new) = job.dek
       /\ \A u \in DOMAIN keyring.entries :
            u # job.new => Dek(keyring', u) = Dek(keyring, u)
  BY <1>1, <1>7, <1>9, <1>10, <1>11, WithActiveDekKeyring
<1>13. keyring' # None
  BY <1>12, NoneAssumption
<1>14. Advance
  BY <1>11 DEF AddActiveDek
<1>15. DiskTypeOK'
  BY <1>1, <1>2, <1>12, <1>14, LateIsNat DEF DiskTypeOK, made
<1>16. \A u \in DOMAIN keyring.entries :
         /\ u \in DOMAIN keyring'.entries
         /\ Dek(keyring, u)' = Dek(keyring, u) /\ On(u)' = On(u)
  BY <1>7, <1>12 DEF On, Dek
<1>17. Mixed(journal.old_version, journal.new_version, journal.backup)'
  <2>1. /\ job.old \in DOMAIN keyring.entries /\ job.backup = On(job.old)
        /\ \A v \in DOMAIN keyring.entries : v <= job.old \/ v = job.new
        /\ job.new = job.old + 1 /\ job.new <= deks
        /\ recovery = On(job.old)
        /\ \A f \in File : files[f] = None \/ files[f] = On(job.old)
        /\ \A s \in StoreNames : \A d \in material[s] : d = Dek(keyring, job.old)
    BY <1>7, <1>8 DEF Mixed
  <2>2. /\ journal'.old_version = job.old /\ journal'.new_version = job.new
        /\ journal'.backup = job.backup
    BY <1>1, <1>5
  <2>3. \A v \in DOMAIN keyring'.entries : v <= job.old \/ v = job.new
    BY <1>12, <2>1
  <2>4. job.old \in DOMAIN keyring'.entries
    BY <1>16, <2>1
  <2>5. PICK o : o = job.old
    OBVIOUS
  <2>6. On(o)' = On(o) /\ Dek(keyring, o)' = Dek(keyring, o) /\ On(o) = On(job.old)
        /\ Dek(keyring, o) = Dek(keyring, job.old)
    BY <1>16, <2>1, <2>5
  <2>7. PICK n : n = job.new
    OBVIOUS
  <2>8. PICK b : b = job.backup
    OBVIOUS
  <2>9. Mixed(o, n, b)'
    BY <1>1, <1>12, <1>13, <2>1, <2>3, <2>4, <2>5, <2>6, <2>7, <2>8
       DEF Mixed, made
  <2> QED
    BY <2>2, <2>5, <2>7, <2>8, <2>9 DEF Mixed, On, Dek
<1>18. JournalOp' = "Rotate"
  BY <1>1, <1>5 DEF JournalOp
<1>19. DiskInv'
  BY <1>17, <1>18 DEF DiskInv, JournalOp, BootstrapPending
<1>20. SessionInv'
  <2>1. job.old \in DOMAIN keyring.entries
    BY <1>8 DEF Mixed
  <2>2. Dek(keyring', job.old) = Dek(keyring, job.old)
    BY <1>10, <1>12, <2>1
  <2> QED
    BY <1>1, <1>2, <1>5, <1>7, <1>13, <2>1, <2>2
       DEF SessionInv, BootstrapPending, Dek
<1>21. ASSUME job' = [job EXCEPT !.plan = Tail(@)]
       PROVE  JobInv'
  <2>1. /\ job' # None /\ job'.op = job.op /\ job'.plan = Tail(job.plan)
        /\ job'.dek = job.dek /\ job'.wrap = job.wrap /\ job'.old = job.old
        /\ job'.new = job.new /\ job'.backup = job.backup
    BY <1>1, <1>2, <1>21, AdvancedJob
  <2>2. /\ \A x : ToDo(x) <=> x = h \/ ToDo(x)'
        /\ \A x : ToDo(x)' <=> In(x, Tail(job.plan))
    BY <1>1, <1>2, <2>1, AdvancedPlan
  <2>3. ~ToDo(h)' /\ ~ToDo("rotate_journal")'
    BY <1>1, <1>2, <2>2, Past, Ranks, StepNotStore DEF StepNames
  <2>4. /\ ToDo("files")' /\ ToDo("recovery")' /\ ToDo("unjournal")'
        /\ \A s \in StoreNames : ToDo(s)'
    BY <1>7, <2>2, StepNotStore DEF RotateSteps, StepNames
  <2>5. /\ job'.wrap = Dek(keyring, job.old)' /\ Dek(keyring, job.new)' = job'.dek
    <3>1. job.old \in DOMAIN keyring.entries
      BY <1>8 DEF Mixed
    <3>2. Dek(keyring', job.old) = Dek(keyring, job.old)
      BY <1>10, <1>12, <3>1
    <3> QED
      BY <1>7, <1>12, <2>1, <3>2 DEF Dek
  <2>6. RotateInv'
    BY <1>1, <1>5, <1>7, <1>12, <1>18, <2>1, <2>3, <2>4, <2>5 DEF RotateInv
  <2> QED
    BY <1>4, <2>1, <2>6
       DEF JobInv, BootstrapInv, UnlockInv, ChangeInv, RollbackInv
<1> QED
  BY <1>1, <1>14, <1>15, <1>19, <1>20, <1>21, AdvanceKeeps

LEMMA RotateOpenKeeps ==
  ASSUME VaultInv, RotateOpen
  PROVE  VaultInv'
<1> DEFINE h == "rotate_open"
<1>1. /\ Step(h) /\ UNCHANGED made /\ UNCHANGED bounds
      /\ UNCHANGED <<keyring, staged, journal, material, recovery, files, session>>
      /\ UNCHANGED <<salt, keychain>>
      /\ job' = [job EXCEPT !.plan = Tail(@)] \/ Failed
  BY DEF RotateOpen, Check, disk
<1>2. VaultTypeOK /\ PlanInv /\ DiskTypeOK /\ JobInv
  BY DEF VaultInv, VaultTypeOK
<1>3. job # None /\ job \in Operation /\ h \in StepsOf(job.op)
  BY <1>1, <1>2, HeadOfPlan
<1>4. job.op = "rotate"
  <2>1. job.op \in {"bootstrap", "unlock", "change", "move", "rotate", "rollback"}
    BY <1>3 DEF Operation
  <2> QED
    BY <1>3, <2>1, StepNotStore DEF StepsOf, StepNames, RemoveSteps,
         CreateSteps, ChangeSteps, MoveSteps, UnlockSteps, RollbackSteps
<1>5. DiskTypeOK'
  BY <1>1, <1>2 DEF DiskTypeOK, made, bounds
<1>6. DiskInv' /\ SessionInv'
  BY <1>1, QuietDisk DEF made
<1>7. CASE job' = [job EXCEPT !.plan = Tail(@)]
  <2>1. /\ job' # None /\ job'.op = job.op /\ job'.plan = Tail(job.plan)
        /\ job'.dek = job.dek /\ job'.new = job.new
    BY <1>1, <1>2, <1>7, AdvancedJob
  <2>2. \A x : ToDo(x) <=> x = h \/ ToDo(x)'
    BY <1>1, <1>2, <2>1, AdvancedPlan
  <2>3. RotateInv /\ ~ToDo("rotate_journal") /\ ToDo("unjournal")
    BY <1>1, <1>2, <1>3, <1>4, RotateFacts DEF JobInv
  <2>4. h \notin StoreNames
    BY StepNotStore DEF StepNames
  <2>5. /\ ~ToDo("files")' => FilesOn(job.new, job.dek)
        /\ \A s \in StoreNames : ~ToDo(s)' => material[s] \subseteq {job.dek}
        /\ ~ToDo("recovery")' => recovery = [version |-> job.new, dek |-> job.dek]
    BY <1>4, <2>2, <2>3, <2>4 DEF RotateInv
  <2>6. FilesOn(job.new, job.dek)' = FilesOn(job.new, job.dek)
    BY <1>1, <2>1 DEF FilesOn
  <2>7. JobInv'
    BY <1>1, <1>4, <1>7, <2>5, <2>6, RotateAdvanced
  <2> QED
    BY <1>1, <1>5, <1>6, <1>7, <2>7, AdvanceKeeps DEF Advance
<1>8. CASE Failed
  BY <1>1, <1>5, <1>6, <1>8, FailKeeps
<1> QED
  BY <1>1, <1>7, <1>8

-----------------------------------------------------------------------------
(* rollback_rotation.                                                      *)

LEMMA RollbackFacts ==
  ASSUME VaultInv, NEW h, Step(h), job.op \in {"unlock", "rollback"},
         h \in RollbackSteps
  PROVE  /\ job # None /\ job \in Operation /\ RollbackInv /\ ToDo(h)
         /\ JournalOp = "Rotate" /\ ~ToDo("rollback_load")
         /\ ToDo("unjournal") /\ ToDo("remove_version")
         /\ job.old = journal.old_version /\ job.new = journal.new_version
         /\ job.backup = journal.backup
         /\ Mixed(job.old, job.new, job.backup)
         /\ h # "set_active" => keyring.active = job.old
         /\ job.old \in Version /\ job.new \in Version /\ job.old # job.new
         /\ job.backup \in Sealed /\ keyring \in Keyring
         /\ Dek(keyring, job.old) \in DekId
         /\ job.old \in DOMAIN keyring.entries
<1>1. VaultTypeOK /\ PlanInv /\ DiskTypeOK /\ DiskInv /\ JobInv
  BY DEF VaultInv, VaultTypeOK
<1>2. job # None /\ job \in Operation /\ ToDo(h) /\ Head(job.plan) = h
  BY <1>1, HeadOfPlan
<1>3. RollbackInv
  BY <1>1, <1>2 DEF JobInv
<1>4. JournalOp = "Rotate" /\ ToDo("unjournal")
  BY <1>2, <1>3 DEF RollbackInv
<1>5. ~ToDo("rollback_load")
  <2>1. h # "rollback_load"
    BY StepNotStore DEF RollbackSteps, StepNames
  <2> QED
    BY <1>2, <1>3, <2>1 DEF RollbackInv
<1>6. /\ job.old = journal.old_version /\ job.new = journal.new_version
      /\ job.backup = journal.backup
      /\ h # "set_active" => keyring.active = job.old
      /\ ToDo("remove_version")
  BY <1>2, <1>3, <1>4, <1>5 DEF RollbackInv
<1>7. Mixed(job.old, job.new, job.backup)
  BY <1>1, <1>4, <1>6 DEF DiskInv
<1>8. /\ job.old \in Version /\ job.new \in Version /\ job.backup \in Sealed
  <2>1. journal \in LifecycleJournal /\ journal.op = "Rotate"
    BY <1>1, <1>4 DEF DiskTypeOK, JournalOp
  <2> QED
    BY <1>6, <2>1 DEF LifecycleJournal
<1>9. keyring \in Keyring /\ job.old \in DOMAIN keyring.entries
      /\ job.new = job.old + 1
  BY <1>1, <1>7 DEF DiskTypeOK, Mixed
<1>10. Dek(keyring, job.old) \in DekId
  BY <1>9, KeyringDek
<1>11. job.old # job.new
  BY <1>8, <1>9 DEF Version
<1> QED
  BY <1>2, <1>3, <1>4, <1>5, <1>6, <1>7, <1>8, <1>9, <1>10, <1>11

\* A rollback one step further: what it has to show.
LEMMA RollbackAdvanced ==
  ASSUME VaultInv, NEW h, Step(h), job.op \in {"unlock", "rollback"},
         h \in RollbackSteps, job' = [job EXCEPT !.plan = Tail(@)],
         journal' = journal, keyring' # None, keyring'.active = job.old,
         ~ToDo("files")' =>
           \A f \in File : files'[f] \in
             {None, [version |-> job.old, dek |-> Dek(keyring', job.old)]},
         \A s \in StoreNames :
           ~ToDo(s)' => material'[s] \subseteq {Dek(keyring', job.old)},
         ~ToDo("backup")' => recovery' = job.backup,
         h = "remove_version" => job.new \notin DOMAIN keyring'.entries
  PROVE  JobInv'
<1>1. VaultTypeOK /\ PlanInv /\ JobInv
  BY DEF VaultInv
<1>2. /\ job # None /\ RollbackInv /\ JournalOp = "Rotate"
      /\ ~ToDo("rollback_load") /\ ToDo("unjournal") /\ ToDo("remove_version")
      /\ job.old = journal.old_version /\ job.new = journal.new_version
      /\ job.backup = journal.backup
  BY RollbackFacts
<1>3. /\ job' # None /\ job'.op = job.op /\ job'.plan = Tail(job.plan)
      /\ job'.custody = job.custody /\ job'.old = job.old
      /\ job'.new = job.new /\ job'.backup = job.backup
  BY <1>1, AdvancedJob
<1>4. /\ \A x : ToDo(x)' <=> In(x, Tail(job.plan))
      /\ \A x : ToDo(x) <=> x = h \/ ToDo(x)'
  BY <1>1, <1>3, HeadOfPlan DEF ToDo
<1>5. /\ JournalOp' = "Rotate" /\ ~BootstrapPending(FALSE)'
  BY <1>2 DEF JournalOp, BootstrapPending
<1>6. h # "unjournal"
  BY StepNotStore DEF RollbackSteps, StepNames
<1>7. /\ ToDo("unjournal")' /\ ~ToDo("rollback_load")'
  BY <1>2, <1>4, <1>6
<1>8. h # "remove_version" => ToDo("remove_version")'
  BY <1>2, <1>4
<1>9. h = "remove_version" => \A x \in RollbackSteps : ~ToDo(x)'
  <2> SUFFICES ASSUME h = "remove_version", NEW x \in RollbackSteps
               PROVE  ~In(x, Tail(job.plan))
    BY <1>4
  <2>1. Rank(x) # 0 /\ Rank(x) <= 13 /\ h \notin StoreNames
    BY Ranks, StepNotStore DEF RollbackSteps, StepNames
  <2> QED
    BY <1>1, <2>1, Past, Ranks
<1>10. FilesOn(job.old, Dek(keyring, job.old))' <=>
         \A f \in File : files'[f] \in
             {None, [version |-> job.old, dek |-> Dek(keyring', job.old)]}
  BY <1>3 DEF FilesOn, Dek
<1>11. Dek(keyring, job.old)' = Dek(keyring', job.old)
  BY <1>3 DEF Dek
<1>12. RollbackInv'
  BY <1>2, <1>3, <1>5, <1>7, <1>8, <1>9, <1>10, <1>11 DEF RollbackInv
<1>13. UnlockInv'
  <2>1. UnlockInv
    BY <1>1, <1>2 DEF JobInv
  <2>2. job.op = "unlock" =>
          /\ ~ToDo("commit") /\ ~ToDo("replace") /\ job.custody # "recovery"
    BY <1>2, <2>1 DEF UnlockInv
  <2> QED
    BY <1>3, <1>4, <1>5, <2>2 DEF UnlockInv
<1> QED
  BY <1>3, <1>12, <1>13 DEF JobInv, BootstrapInv, ChangeInv, RotateInv

-----------------------------------------------------------------------------
(* rewrap_all_files and rewrap_all_material, in a rotation and in a        *)
(* rollback.                                                               *)

LEMMA RewrapStep ==
  ASSUME VaultInv, NEW h, Step(h), h \in {"files"} \cup StoreNames
  PROVE  /\ job # None /\ job \in Operation /\ ToDo(h)
         /\ job.op \in {"rotate", "unlock", "rollback"}
         /\ h \in RollbackSteps /\ h # "rotate_journal"
         /\ h # "add_active_dek" /\ h # "unjournal" /\ h # "set_active"
         /\ h # "remove_version" /\ h # "backup" /\ h # "recovery"
         /\ JournalOp = "Rotate"
         /\ Mixed(journal.old_version, journal.new_version, journal.backup)
         /\ job.old = journal.old_version /\ job.new = journal.new_version
         /\ keyring \in Keyring /\ keyring.active \in DOMAIN keyring.entries
         /\ ActiveDek(keyring) \in DekId /\ keyring.active \in Version
<1>1. VaultTypeOK /\ PlanInv /\ DiskTypeOK
  BY DEF VaultInv, VaultTypeOK
<1>2. job # None /\ job \in Operation /\ ToDo(h) /\ h \in StepsOf(job.op)
  BY <1>1, HeadOfPlan
<1>3. /\ h \in RollbackSteps /\ h # "rotate_journal"
      /\ h # "add_active_dek" /\ h # "unjournal" /\ h # "set_active"
      /\ h # "remove_version" /\ h # "backup" /\ h # "recovery"
  BY StepNotStore DEF RollbackSteps, StepNames
<1>4. job.op \in {"rotate", "unlock", "rollback"}
  <2>1. job.op \in {"bootstrap", "unlock", "change", "move", "rotate", "rollback"}
    BY <1>2 DEF Operation
  <2>2. /\ h \notin RemoveSteps /\ h \notin CreateSteps
        /\ h \notin ChangeSteps /\ h \notin MoveSteps
    BY StepNotStore DEF RemoveSteps, CreateSteps, ChangeSteps, MoveSteps, StepNames
  <2> QED
    BY <1>2, <2>1, <2>2 DEF StepsOf
<1>5. /\ JournalOp = "Rotate"
      /\ job.old = journal.old_version /\ job.new = journal.new_version
      /\ Mixed(journal.old_version, journal.new_version, journal.backup)
  <2>1. CASE job.op = "rotate"
    BY <1>3, <2>1, RotateFacts
  <2>2. CASE job.op \in {"unlock", "rollback"}
    BY <1>3, <2>2, RollbackFacts
  <2> QED
    BY <1>4, <2>1, <2>2
<1>6. keyring \in Keyring /\ keyring.active \in DOMAIN keyring.entries
  BY <1>1, <1>5 DEF DiskTypeOK, Mixed
<1>7. ActiveDek(keyring) \in DekId /\ keyring.active \in Version
  BY <1>6, KeyringDek DEF ActiveDek
<1> QED
  BY <1>2, <1>3, <1>4, <1>5, <1>6, <1>7

LEMMA RewrapFileKeeps ==
  ASSUME VaultInv, NEW f \in File, RewrapFile(f)
  PROVE  VaultInv'
<1> DEFINE h == "files"
           new == [version |-> keyring.active, dek |-> ActiveDek(keyring)]
<1>1. /\ Step(h) /\ session' = session /\ UNCHANGED made /\ UNCHANGED bounds
      /\ UNCHANGED <<salt, keychain, keyring, staged, journal, material, recovery>>
      /\ \/ files' = [files EXCEPT ![f] = new] /\ job' = job
         \/ files' = files /\ Failed
  BY DEF RewrapFile
<1>2. /\ VaultTypeOK /\ PlanInv /\ DiskTypeOK /\ JobTypeOK /\ SessionInv /\ JobInv
      /\ DiskInv
  BY DEF VaultInv, VaultTypeOK
<1>3. /\ job # None /\ job.op \in {"rotate", "unlock", "rollback"} /\ ToDo(h)
      /\ JournalOp = "Rotate"
      /\ Mixed(journal.old_version, journal.new_version, journal.backup)
      /\ ActiveDek(keyring) \in DekId /\ keyring.active \in Version
  BY <1>1, RewrapStep
<1>4. CASE files' = files /\ Failed
  <2>1. DiskTypeOK'
    BY <1>1, <1>2, <1>4 DEF DiskTypeOK, made, bounds
  <2>2. DiskInv' /\ SessionInv'
    BY <1>1, <1>4, QuietDisk DEF made
  <2> QED
    BY <1>1, <1>4, <2>1, <2>2, FailKeeps
<1>5. CASE files' = [files EXCEPT ![f] = new] /\ job' = job
  <2>1. new \in Sealed
    BY <1>3 DEF Sealed
  <2>2. DiskTypeOK'
    BY <1>1, <1>2, <1>5, <2>1 DEF DiskTypeOK, made, bounds
  <2>3. \A v : On(v)' = On(v) /\ Dek(keyring, v)' = Dek(keyring, v)
    BY <1>1 DEF On, Dek
  <2>4. \A g \in File : files'[g] = files[g] \/ files'[g] = On(keyring.active)
    BY <1>2, <1>5 DEF DiskTypeOK, On, ActiveDek
  <2>5. Mixed(journal.old_version, journal.new_version, journal.backup)'
    BY <1>1, <1>3, <2>3, <2>4 DEF Mixed, made
  <2>6. JournalOp' = "Rotate"
    BY <1>1, <1>3 DEF JournalOp
  <2>7. DiskInv'
    BY <2>5, <2>6 DEF DiskInv, JournalOp, BootstrapPending
  <2>8. SessionInv'
    BY <1>1, <1>2 DEF SessionInv, BootstrapPending, Dek
  <2>9. \A x : ToDo(x)' <=> ToDo(x)
    BY <1>5 DEF ToDo
  <2>10. JobTypeOK' /\ PlanInv'
    BY <1>1, <1>2, <1>5 DEF JobTypeOK, PlanInv, ToDo, Ordered, StepsOf
  <2>11. JobInv'
    <3>1. RotateInv'
      <4>1. RotateInv
        BY <1>2, <1>3 DEF JobInv
      <4>2. job.op = "rotate" => ~ToDo("rotate_journal")
        BY <1>1, RotateFacts
      <4> QED
        BY <1>1, <1>3, <1>5, <2>3, <2>6, <2>9, <4>1, <4>2 DEF RotateInv
    <3>2. RollbackInv'
      <4>1. RollbackInv
        BY <1>2, <1>3 DEF JobInv
      <4> QED
        BY <1>1, <1>3, <1>5, <2>3, <2>6, <2>9, <4>1 DEF RollbackInv
    <3>3. UnlockInv'
      <4>1. UnlockInv
        BY <1>2, <1>3 DEF JobInv
      <4> QED
        BY <1>1, <1>3, <1>5, <2>6, <2>9, <4>1 DEF UnlockInv, BootstrapPending
    <3> QED
      BY <1>3, <1>5, <3>1, <3>2, <3>3 DEF JobInv, BootstrapInv, ChangeInv
  <2> QED
    BY <2>2, <2>7, <2>8, <2>10, <2>11 DEF VaultInv, VaultTypeOK
<1> QED
  BY <1>1, <1>4, <1>5

LEMMA KeysOfKeyring ==
  ASSUME NEW kr \in Keyring
  PROVE  /\ Keys(kr) \in UNION {[D -> DekId] : D \in SUBSET Version}
         /\ DOMAIN Keys(kr) = DOMAIN kr.entries
         /\ \A v \in DOMAIN kr.entries : Keys(kr)[v] = Dek(kr, v)
<1>1. DOMAIN kr.entries \in SUBSET Version
  BY DEF Keyring, Entries
<1>2. \A v \in DOMAIN kr.entries : Dek(kr, v) \in DekId
  BY KeyringDek
<1>3. Keys(kr) \in [DOMAIN kr.entries -> DekId]
  BY <1>2 DEF Keys
<1> QED
  BY <1>1, <1>3 DEF Keys

\* A handle that reopens the vault knows the DEK of the active version.
LEMMA ReopenedHandle ==
  ASSUME session \in Handle, keyring \in Keyring, ~BootstrapPending(FALSE),
         UNCHANGED <<keyring, journal>>,
         session' = [session EXCEPT !.keys = Keys(keyring),
                                    !.active = keyring.active]
  PROVE  session' \in Handle /\ session' # None /\ SessionInv'
<1>1. keyring.active \in Version
  BY DEF Keyring
<1>2. /\ Keys(keyring) \in UNION {[D -> DekId] : D \in SUBSET Version}
      /\ DOMAIN Keys(keyring) = DOMAIN keyring.entries
      /\ \A v \in DOMAIN keyring.entries : Keys(keyring)[v] = Dek(keyring, v)
  BY KeysOfKeyring
<1> DEFINE K == Keys(keyring)
<1> HIDE DEF K
<1>3. session' = [session EXCEPT !.keys = K, !.active = keyring.active]
  BY DEF K
<1>4. K \in UNION {[D -> DekId] : D \in SUBSET Version}
  BY <1>2 DEF K
<1>5. session' \in Handle /\ session'.keys = K /\ session'.active = keyring.active
  BY <1>1, <1>3, <1>4 DEF Handle
<1>6. session' # None /\ keyring' # None
  BY <1>5, NoneAssumption
<1>7. ~BootstrapPending(FALSE)'
  BY DEF BootstrapPending
<1>8. \A v \in DOMAIN keyring.entries : v \in DOMAIN K /\ K[v] = Dek(keyring', v)
  BY <1>2 DEF K
<1> QED
  BY <1>5, <1>6, <1>7, <1>8 DEF SessionInv, Dek

LEMMA SameDisk ==
  ASSUME DiskTypeOK, DiskInv, UNCHANGED disk, UNCHANGED made, late' \in Nat
  PROVE  DiskTypeOK' /\ DiskInv'
<1>1. UNCHANGED <<salt, keychain, keyring, staged, journal, material, recovery,
                  files, deks, salts, keks>>
  BY DEF disk, made
<1>2. DiskTypeOK'
  BY <1>1 DEF DiskTypeOK
<1>3. /\ Whole' = Whole /\ Empty' = Empty /\ JournalOp' = JournalOp
      /\ \A b \in BOOLEAN : BootstrapPending(b)' = BootstrapPending(b)
      /\ StagedSame' = StagedSame
  BY <1>1 DEF Whole, Empty, JournalOp, BootstrapPending, FilesOn, ActiveDek, Dek,
       StagedSame, SameDeks, Keys
<1>4. Mixed(journal.old_version, journal.new_version, journal.backup)' =
        Mixed(journal.old_version, journal.new_version, journal.backup)
  BY <1>1 DEF Mixed, On, Dek
<1> QED
  BY <1>1, <1>2, <1>3, <1>4 DEF DiskInv

LEMMA FilesRewrappedKeeps ==
  ASSUME VaultInv, FilesRewrapped
  PROVE  VaultInv'
<1> DEFINE h == "files"
<1>1. /\ Step(h) /\ UNCHANGED disk /\ UNCHANGED made /\ UNCHANGED bounds
      /\ UNCHANGED <<keyring, journal, material, recovery, files>>
      /\ job' = [job EXCEPT !.plan = Tail(@)]
      /\ \A f \in File : files[f] = None \/ files[f].version = keyring.active
      /\ session' = IF job.op = "rotate"
                    THEN [session EXCEPT !.keys = Keys(keyring),
                                         !.active = keyring.active]
                    ELSE session
  BY DEF FilesRewrapped, Outdated, disk
<1>2. /\ VaultTypeOK /\ PlanInv /\ DiskTypeOK /\ JobTypeOK /\ SessionInv /\ JobInv
      /\ DiskInv /\ late \in Nat
  BY DEF VaultInv, VaultTypeOK, DiskTypeOK
<1>3. /\ job # None /\ job.op \in {"rotate", "unlock", "rollback"} /\ ToDo(h)
      /\ h \in RollbackSteps /\ JournalOp = "Rotate" /\ keyring \in Keyring
      /\ Mixed(journal.old_version, journal.new_version, journal.backup)
      /\ job.old = journal.old_version /\ job.new = journal.new_version
  BY <1>1, RewrapStep
<1>4. DiskTypeOK' /\ DiskInv'
  <2>1. late' \in Nat
    BY <1>1, <1>2 DEF bounds
  <2> QED
    BY <1>1, <1>2, <2>1, SameDisk
<1>5. \A f \in File : files[f] = None \/ files[f] = On(keyring.active)
  <2>1. \A f \in File : files[f] = None \/ \E v : files[f] = On(v)
    BY <1>3 DEF Mixed
  <2>2. \A v : On(v).version = v
    BY DEF On
  <2> QED
    BY <1>1, <2>1, <2>2
<1>6. /\ job' \in Operation /\ job' # None /\ job'.op = job.op
      /\ job'.plan = Tail(job.plan) /\ job'.kek = job.kek
      /\ job'.dek = job.dek /\ job'.new = job.new
  BY <1>1, <1>2, AdvancedJob
<1>7. \A x : ToDo(x) <=> x = h \/ ToDo(x)'
  <2>1. \A x : ToDo(x)' <=> In(x, Tail(job.plan))
    BY <1>6 DEF ToDo
  <2> QED
    BY <1>1, <1>2, <2>1, HeadOfPlan
<1>8. h \notin StoreNames
  BY StepNotStore DEF StepNames
<1>9. CASE job.op = "rotate"
  <2>1. /\ session # None /\ session \in Handle
        /\ keyring.active = job.new /\ Dek(keyring, job.new) = job.dek
        /\ ~ToDo("rotate_journal") /\ ToDo("unjournal")
    BY <1>1, <1>9, RotateFacts
  <2>2. ~BootstrapPending(FALSE)
    BY <1>3 DEF JournalOp, BootstrapPending
  <2>3. session' \in Handle /\ session' # None /\ SessionInv'
    BY <1>1, <1>3, <1>9, <2>1, <2>2, ReopenedHandle
  <2>4. FilesOn(job.new, job.dek)'
    BY <1>1, <1>5, <1>6, <2>1 DEF FilesOn, On
  <2>5. RotateInv
    BY <1>2, <1>3 DEF JobInv
  <2>6. /\ \A s \in StoreNames : ~ToDo(s)' => material[s] \subseteq {job.dek}
        /\ ~ToDo("recovery")' => recovery = [version |-> job.new, dek |-> job.dek]
    BY <1>7, <1>8, <1>9, <2>1, <2>5 DEF RotateInv
  <2>7. JobInv'
    BY <1>1, <1>9, <2>4, <2>6, RotateAdvanced
  <2>8. PlanInv'
    BY <1>1, <1>2, <1>6, <2>1, <2>3, AdvancedPlan
  <2>9. JobTypeOK'
    BY <1>2, <1>3, <1>6, <2>3 DEF JobTypeOK
  <2> QED
    BY <1>4, <2>3, <2>7, <2>8, <2>9 DEF VaultInv, VaultTypeOK
<1>10. CASE job.op \in {"unlock", "rollback"}
  <2>1. session' = session
    BY <1>1, <1>10
  <2>2. keyring.active = job.old /\ RollbackInv /\ ~ToDo("rollback_load")
    BY <1>1, <1>3, <1>10, RollbackFacts
  <2>3. keyring' # None /\ keyring'.active = job.old
    BY <1>1, <1>3, <2>2 DEF Mixed
  <2>4. \A f \in File : files'[f] \in
          {None, [version |-> job.old, dek |-> Dek(keyring', job.old)]}
    BY <1>1, <1>5, <2>2 DEF On
  <2>5. /\ \A s \in StoreNames :
             ~ToDo(s)' => material'[s] \subseteq {Dek(keyring', job.old)}
        /\ ~ToDo("backup")' => recovery' = job.backup
    BY <1>1, <1>3, <1>7, <1>8, <1>10, <2>2 DEF RollbackInv
  <2>6. JobInv'
    BY <1>1, <1>3, <1>10, <2>3, <2>4, <2>5, RollbackAdvanced
  <2>7. SessionInv'
    BY <1>1, <1>2, <2>1 DEF SessionInv, BootstrapPending, Dek
  <2> QED
    BY <1>1, <1>4, <2>1, <2>6, <2>7, AdvanceKeeps DEF Advance
<1> QED
  BY <1>3, <1>9, <1>10

LEMMA RewrapStoreKeeps ==
  ASSUME VaultInv, NEW s \in StoreNames, RewrapStore(s)
  PROVE  VaultInv'
<1> DEFINE to == Rewrap.to
<1>1. /\ Step(s) /\ session' = session /\ UNCHANGED made
      /\ UNCHANGED <<salt, keychain, keyring, staged, journal, recovery, files>>
      /\ \/ material' = [material EXCEPT ![s] = IF @ = {} THEN {} ELSE {Rewrap.to}]
            /\ Advance
         \/ material' = material /\ UNCHANGED bounds /\ Failed
  BY DEF RewrapStore
<1>2. /\ VaultTypeOK /\ PlanInv /\ DiskTypeOK /\ SessionInv /\ JobInv /\ DiskInv
  BY DEF VaultInv, VaultTypeOK
<1>3. /\ job # None /\ job.op \in {"rotate", "unlock", "rollback"} /\ ToDo(s)
      /\ s \in RollbackSteps /\ JournalOp = "Rotate" /\ keyring \in Keyring
      /\ Mixed(journal.old_version, journal.new_version, journal.backup)
      /\ job.old = journal.old_version /\ job.new = journal.new_version
      /\ s # "rotate_journal" /\ s # "add_active_dek" /\ s # "unjournal"
      /\ s # "set_active" /\ s # "remove_version" /\ s # "backup"
      /\ s # "recovery" /\ s # "files"
  BY <1>1, RewrapStep, StepNotStore DEF StepNames
<1>4. CASE material' = material /\ UNCHANGED bounds /\ Failed
  <2>1. DiskTypeOK'
    BY <1>1, <1>2, <1>4 DEF DiskTypeOK, made, bounds
  <2>2. DiskInv' /\ SessionInv'
    BY <1>1, <1>4, QuietDisk DEF made
  <2> QED
    BY <1>1, <1>4, <2>1, <2>2, FailKeeps
<1>5. CASE /\ material' = [material EXCEPT ![s] = IF @ = {} THEN {} ELSE {Rewrap.to}]
           /\ Advance
  <2>1. /\ to \in DekId
        /\ \E v \in {job.old, job.new} \cap DOMAIN keyring.entries :
             to = Dek(keyring, v)
        /\ job.op = "rotate" => to = job.dek
        /\ job.op # "rotate" => to = Dek(keyring, job.old)
    <3>1. CASE job.op = "rotate"
      BY <1>1, <1>3, <3>1, RotateFacts DEF Rewrap
    <3>2. CASE job.op \in {"unlock", "rollback"}
      BY <1>1, <1>3, <3>2, RollbackFacts DEF Rewrap
    <3> QED
      BY <1>3, <3>1, <3>2
  <2> HIDE DEF to
  <2>2. /\ material' = [material EXCEPT ![s] = IF @ = {} THEN {} ELSE {to}]
    BY <1>5 DEF to
  <2>3. /\ material' \in [StoreNames -> SUBSET DekId]
        /\ material'[s] \subseteq {to}
        /\ \A t \in StoreNames : t # s => material'[t] = material[t]
    BY <1>2, <2>1, <2>2 DEF DiskTypeOK
  <2>4. DiskTypeOK'
    BY <1>1, <1>2, <1>5, <2>3, LateIsNat DEF DiskTypeOK, made
  <2>5. \A v : On(v)' = On(v) /\ Dek(keyring, v)' = Dek(keyring, v)
    BY <1>1 DEF On, Dek
  <2>6. \A t \in StoreNames : \A d \in material'[t] :
          \E v \in {journal.old_version, journal.new_version}
                     \cap DOMAIN keyring.entries : d = Dek(keyring, v)
    <3>1. \A d \in material'[s] :
            \E v \in {journal.old_version, journal.new_version}
                       \cap DOMAIN keyring.entries : d = Dek(keyring, v)
      BY <1>3, <2>1, <2>3
    <3>2. \A t \in StoreNames : t # s => \A d \in material'[t] :
            \E v \in {journal.old_version, journal.new_version}
                       \cap DOMAIN keyring.entries : d = Dek(keyring, v)
      BY <1>3, <2>3 DEF Mixed
    <3> QED
      BY <3>1, <3>2
  <2>7. Mixed(journal.old_version, journal.new_version, journal.backup)'
    BY <1>1, <1>3, <2>5, <2>6 DEF Mixed, made
  <2>8. JournalOp' = "Rotate"
    BY <1>1, <1>3 DEF JournalOp
  <2>9. DiskInv'
    BY <2>7, <2>8 DEF DiskInv, JournalOp, BootstrapPending
  <2>10. SessionInv'
    BY <1>1, <1>2 DEF SessionInv, BootstrapPending, Dek
  <2>11. ASSUME job' = [job EXCEPT !.plan = Tail(@)]
         PROVE  JobInv'
    <3>1. \A x : ToDo(x) <=> x = s \/ ToDo(x)'
      BY <1>1, <1>2, <2>11, AdvancedJob, AdvancedPlan
    <3>2. CASE job.op = "rotate"
      <4>1. RotateInv /\ ~ToDo("rotate_journal") /\ ToDo("unjournal")
        BY <1>1, <1>2, <1>3, <3>2, RotateFacts DEF JobInv
      <4>2. job'.new = job.new /\ job'.dek = job.dek
        BY <1>1, <1>2, <2>11, AdvancedJob
      <4>3. FilesOn(job.new, job.dek)' = FilesOn(job.new, job.dek)
        BY <1>1, <4>2 DEF FilesOn
      <4>4. /\ ~ToDo("files")' => FilesOn(job.new, job.dek)
            /\ \A t \in StoreNames : ~ToDo(t)' => material'[t] \subseteq {job.dek}
            /\ ~ToDo("recovery")' => recovery = [version |-> job.new, dek |-> job.dek]
        BY <1>3, <2>1, <2>3, <3>1, <3>2, <4>1 DEF RotateInv
      <4> QED
        BY <1>1, <1>3, <2>11, <3>2, <4>3, <4>4, RotateAdvanced
    <3>3. CASE job.op \in {"unlock", "rollback"}
      <4>1. /\ keyring.active = job.old /\ RollbackInv /\ ~ToDo("rollback_load")
        BY <1>1, <1>3, <3>3, RollbackFacts
      <4>2. keyring' # None /\ keyring'.active = job.old
        BY <1>1, <1>3, <4>1 DEF Mixed
      <4>3. /\ ~ToDo("files")' => FilesOn(job.old, Dek(keyring, job.old))
            /\ \A t \in StoreNames :
                 ~ToDo(t)' => material'[t] \subseteq {Dek(keyring, job.old)}
            /\ ~ToDo("backup")' => recovery = job.backup
        BY <1>3, <2>1, <2>3, <3>1, <3>3, <4>1 DEF RollbackInv
      <4>4. Dek(keyring', job.old) = Dek(keyring, job.old)
        BY <1>1
      <4> QED
        BY <1>1, <1>3, <2>11, <3>3, <4>2, <4>3, <4>4, RollbackAdvanced DEF FilesOn
    <3> QED
      BY <1>3, <3>2, <3>3
  <2> QED
    BY <1>1, <1>5, <2>4, <2>9, <2>10, <2>11, AdvanceKeeps
<1> QED
  BY <1>1, <1>4, <1>5

-----------------------------------------------------------------------------
(* The steps of a rollback only.                                           *)

LEMMA RollbackStep ==
  ASSUME VaultInv, NEW h, Step(h),
         h \in {"set_active", "rollback_open", "backup", "remove_version",
                "rollback_load"}
  PROVE  /\ job.op \in {"unlock", "rollback"} /\ job # None
         /\ h \notin StoreNames
         /\ h # "rollback_load" => h \in RollbackSteps
<1>1. VaultTypeOK /\ PlanInv
  BY DEF VaultInv, VaultTypeOK
<1>2. job # None /\ job \in Operation /\ h \in StepsOf(job.op)
  BY <1>1, HeadOfPlan
<1>3. job.op \in {"bootstrap", "unlock", "change", "move", "rotate", "rollback"}
  BY <1>2 DEF Operation
<1>4. h \notin StoreNames
  BY StepNotStore DEF StepNames
<1>5. /\ h \notin RemoveSteps /\ h \notin CreateSteps /\ h \notin ChangeSteps
      /\ h \notin MoveSteps /\ h \notin RotateSteps
  BY <1>4 DEF RemoveSteps, CreateSteps, ChangeSteps, MoveSteps, RotateSteps
<1> QED
  BY <1>2, <1>3, <1>4, <1>5 DEF StepsOf, RollbackSteps

\* What the steps behind a rollback have achieved stays: the files and the
\* material are on the old DEK, the bundle is the old one.
LEMMA RollbackRest ==
  ASSUME VaultInv, NEW h, Step(h), job.op \in {"unlock", "rollback"},
         h \in RollbackSteps, job' = [job EXCEPT !.plan = Tail(@)]
  PROVE  /\ \A x : ToDo(x) <=> x = h \/ ToDo(x)'
         /\ h # "files" /\ ~ToDo("files")' =>
              FilesOn(job.old, Dek(keyring, job.old))
         /\ \A s \in StoreNames : h # s /\ ~ToDo(s)' =>
              material[s] \subseteq {Dek(keyring, job.old)}
         /\ h # "backup" /\ ~ToDo("backup")' => recovery = job.backup
<1>1. VaultTypeOK /\ PlanInv
  BY DEF VaultInv
<1>2. /\ RollbackInv /\ JournalOp = "Rotate" /\ ~ToDo("rollback_load")
  BY RollbackFacts
<1>3. job'.plan = Tail(job.plan)
  BY <1>1, AdvancedJob
<1>4. \A x : ToDo(x) <=> x = h \/ ToDo(x)'
  BY <1>1, <1>3, HeadOfPlan DEF ToDo
<1> QED
  BY <1>2, <1>4 DEF RollbackInv

LEMMA RollbackOpenKeeps ==
  ASSUME VaultInv, RollbackOpen
  PROVE  VaultInv'
<1> DEFINE h == "rollback_open"
<1>1. /\ Step(h) /\ UNCHANGED made /\ UNCHANGED bounds
      /\ UNCHANGED <<keyring, staged, journal, material, recovery, files, session>>
      /\ UNCHANGED <<salt, keychain>>
      /\ job' = [job EXCEPT !.plan = Tail(@)] \/ Failed
  BY DEF RollbackOpen, Check, disk
<1>2. DiskTypeOK
  BY DEF VaultInv, VaultTypeOK
<1>3. /\ job.op \in {"unlock", "rollback"} /\ h \in RollbackSteps
      /\ h \notin StoreNames
  BY <1>1, RollbackStep
<1>4. DiskTypeOK'
  BY <1>1, <1>2 DEF DiskTypeOK, made, bounds
<1>5. DiskInv' /\ SessionInv'
  BY <1>1, QuietDisk DEF made
<1>6. CASE job' = [job EXCEPT !.plan = Tail(@)]
  <2>1. keyring' # None /\ keyring'.active = job.old
    BY <1>1, <1>3, RollbackFacts DEF Mixed
  <2>2. /\ ~ToDo("files")' => FilesOn(job.old, Dek(keyring, job.old))
        /\ \A s \in StoreNames :
             ~ToDo(s)' => material[s] \subseteq {Dek(keyring, job.old)}
        /\ ~ToDo("backup")' => recovery = job.backup
    BY <1>1, <1>3, <1>6, RollbackRest
  <2>3. JobInv'
    BY <1>1, <1>3, <1>6, <2>1, <2>2, RollbackAdvanced DEF FilesOn
  <2> QED
    BY <1>1, <1>3, <1>4, <1>5, <1>6, <2>3, AdvanceKeeps DEF Advance
<1>7. CASE Failed
  BY <1>1, <1>3, <1>4, <1>5, <1>7, FailKeeps
<1> QED
  BY <1>1, <1>6, <1>7

LEMMA RestoreRecoveryKeeps ==
  ASSUME VaultInv, RestoreRecovery
  PROVE  VaultInv'
<1> DEFINE h == "backup"
<1>1. /\ Step(h) /\ Advance /\ session' = session /\ UNCHANGED made
      /\ UNCHANGED <<salt, keychain, keyring, staged, journal, material, files>>
      /\ recovery' = job.backup
  BY DEF RestoreRecovery
<1>2. DiskTypeOK /\ SessionInv
  BY DEF VaultInv, VaultTypeOK
<1>3. /\ job.op \in {"unlock", "rollback"} /\ h \in RollbackSteps
      /\ h \notin StoreNames
  BY <1>1, RollbackStep
<1>4. /\ JournalOp = "Rotate" /\ Mixed(job.old, job.new, job.backup)
      /\ job.old = journal.old_version /\ job.new = journal.new_version
      /\ job.backup = journal.backup /\ job.backup \in Sealed
      /\ keyring.active = job.old
  BY <1>1, <1>3, RollbackFacts
<1>5. DiskTypeOK'
  BY <1>1, <1>2, <1>4, LateIsNat DEF DiskTypeOK, made
<1>6. \A v : On(v)' = On(v) /\ Dek(keyring, v)' = Dek(keyring, v)
  BY <1>1 DEF On, Dek
<1>7. Mixed(journal.old_version, journal.new_version, journal.backup)'
  BY <1>1, <1>4, <1>6 DEF Mixed, made
<1>8. JournalOp' = "Rotate"
  BY <1>1, <1>4 DEF JournalOp
<1>9. DiskInv'
  BY <1>7, <1>8 DEF DiskInv, JournalOp, BootstrapPending
<1>10. SessionInv'
  BY <1>1, <1>2 DEF SessionInv, BootstrapPending, Dek
<1>11. ASSUME job' = [job EXCEPT !.plan = Tail(@)]
       PROVE  JobInv'
  <2>1. keyring' # None /\ keyring'.active = job.old
    BY <1>1, <1>4 DEF Mixed
  <2>2. /\ ~ToDo("files")' => FilesOn(job.old, Dek(keyring, job.old))
        /\ \A s \in StoreNames :
             ~ToDo(s)' => material[s] \subseteq {Dek(keyring, job.old)}
    BY <1>1, <1>3, <1>11, RollbackRest
  <2> QED
    BY <1>1, <1>3, <1>11, <2>1, <2>2, RollbackAdvanced DEF FilesOn
<1> QED
  BY <1>1, <1>3, <1>5, <1>9, <1>10, <1>11, AdvanceKeeps

LEMMA SetActiveVersionKeeps ==
  ASSUME VaultInv, SetActiveVersion
  PROVE  VaultInv'
<1> DEFINE h == "set_active"
<1>1. /\ Step(h) /\ session' = session /\ UNCHANGED made
      /\ UNCHANGED <<salt, keychain, staged, journal, material, recovery, files>>
  BY DEF SetActiveVersion
<1>2. DiskTypeOK /\ SessionInv
  BY DEF VaultInv, VaultTypeOK
<1>3. /\ job.op \in {"unlock", "rollback"} /\ h \in RollbackSteps
      /\ h \notin StoreNames
  BY <1>1, RollbackStep
<1>4. /\ JournalOp = "Rotate" /\ Mixed(job.old, job.new, job.backup)
      /\ job.old = journal.old_version /\ job.new = journal.new_version
      /\ job.backup = journal.backup /\ keyring \in Keyring
      /\ job.old \in DOMAIN keyring.entries /\ job.old \in Version
  BY <1>1, <1>3, RollbackFacts
<1>5. Advance /\ keyring' = [keyring EXCEPT !.active = job.old]
  BY <1>4 DEF SetActiveVersion
<1>6. /\ keyring' \in Keyring /\ keyring'.active = job.old
      /\ keyring'.entries = keyring.entries
  BY <1>4, <1>5 DEF Keyring
<1>7. keyring' # None
  BY <1>6, NoneAssumption
<1>8. DiskTypeOK'
  BY <1>1, <1>2, <1>5, <1>6, LateIsNat DEF DiskTypeOK, made
<1>9. \A v : On(v)' = On(v) /\ Dek(keyring, v)' = Dek(keyring, v)
  BY <1>6 DEF On, Dek
<1>10. Mixed(journal.old_version, journal.new_version, journal.backup)'
  BY <1>1, <1>4, <1>6, <1>7, <1>9 DEF Mixed, made
<1>11. JournalOp' = "Rotate"
  BY <1>1, <1>4 DEF JournalOp
<1>12. DiskInv'
  BY <1>10, <1>11 DEF DiskInv, JournalOp, BootstrapPending
<1>13. SessionInv'
  BY <1>1, <1>2, <1>6, <1>7 DEF SessionInv, BootstrapPending, Dek
<1>14. ASSUME job' = [job EXCEPT !.plan = Tail(@)]
       PROVE  JobInv'
  <2>1. /\ ~ToDo("files")' => FilesOn(job.old, Dek(keyring, job.old))
        /\ \A s \in StoreNames :
             ~ToDo(s)' => material[s] \subseteq {Dek(keyring, job.old)}
        /\ ~ToDo("backup")' => recovery = job.backup
    BY <1>1, <1>3, <1>14, RollbackRest
  <2>2. Dek(keyring', job.old) = Dek(keyring, job.old)
    BY <1>6 DEF Dek
  <2> QED
    BY <1>1, <1>3, <1>6, <1>7, <1>14, <2>1, <2>2, RollbackAdvanced DEF FilesOn
<1> QED
  BY <1>1, <1>3, <1>5, <1>8, <1>12, <1>13, <1>14, AdvanceKeeps

LEMMA RemoveVersionKeeps ==
  ASSUME VaultInv, RemoveVersion
  PROVE  VaultInv'
<1> DEFINE h == "remove_version"
<1>1. /\ Step(h) /\ session' = session /\ UNCHANGED made
      /\ UNCHANGED <<salt, keychain, staged, journal, material, recovery, files>>
  BY DEF RemoveVersion
<1>2. VaultTypeOK /\ PlanInv /\ DiskTypeOK /\ SessionInv
  BY DEF VaultInv, VaultTypeOK
<1>3. /\ job.op \in {"unlock", "rollback"} /\ h \in RollbackSteps
      /\ h \notin StoreNames
  BY <1>1, RollbackStep
<1>4. /\ JournalOp = "Rotate" /\ Mixed(job.old, job.new, job.backup)
      /\ job.old = journal.old_version /\ job.new = journal.new_version
      /\ job.backup = journal.backup /\ keyring \in Keyring
      /\ job.old \in DOMAIN keyring.entries /\ job.old \in Version
      /\ keyring.active = job.old /\ job.old # job.new
      /\ RollbackInv /\ ~ToDo("rollback_load")
  BY <1>1, <1>3, RollbackFacts
<1>5. Advance /\ keyring' = WithoutVersion(keyring, job.new)
  BY <1>4 DEF RemoveVersion
<1>6. /\ keyring' \in Keyring /\ keyring'.active = job.old
      /\ DOMAIN keyring'.entries = DOMAIN keyring.entries \ {job.new}
      /\ \A v \in DOMAIN keyring'.entries : keyring'.entries[v] = keyring.entries[v]
  <2> DEFINE D == DOMAIN keyring.entries \ {job.new}
             E == [u \in D |-> keyring.entries[u]]
             R == [kek : Kek \cup {None}, dek : DekId]
  <2>1. D \in SUBSET Version /\ \A u \in D : keyring.entries[u] \in R
    BY <1>4 DEF Keyring, Entries
  <2>2. E \in Entries
    <3>1. E \in [D -> R]
      BY <2>1
    <3> HIDE DEF D, E
    <3> QED
      BY <2>1, <3>1 DEF Entries
  <2>3. keyring' = [keyring EXCEPT !.entries = E]
    BY <1>5 DEF WithoutVersion
  <2> HIDE DEF E
  <2>4. keyring' \in Keyring /\ keyring'.active = keyring.active /\ keyring'.entries = E
    BY <1>4, <2>2, <2>3 DEF Keyring
  <2> QED
    BY <1>4, <2>4 DEF E
<1>7. keyring' # None
  BY <1>6, NoneAssumption
<1>8. DiskTypeOK'
  BY <1>1, <1>2, <1>5, <1>6, LateIsNat DEF DiskTypeOK, made
<1>9. /\ ~ToDo("files") /\ ~ToDo("backup") /\ \A s \in StoreNames : ~ToDo(s)
  BY <1>1, <1>2, Past, Ranks, StepNotStore DEF StepNames
<1>10. /\ FilesOn(job.old, Dek(keyring, job.old)) /\ recovery = job.backup
       /\ \A s \in StoreNames : material[s] \subseteq {Dek(keyring, job.old)}
  BY <1>3, <1>4, <1>9 DEF RollbackInv
<1>11. Dek(keyring', job.old) = Dek(keyring, job.old)
       /\ job.old \in DOMAIN keyring'.entries
  BY <1>4, <1>6 DEF Dek
<1>12. Mixed(journal.old_version, journal.new_version, journal.backup)'
  <2>1. PICK o : o = job.old
    OBVIOUS
  <2>2. PICK n : n = job.new
    OBVIOUS
  <2>3. PICK b : b = job.backup
    OBVIOUS
  <2>4. Dek(keyring, o)' = Dek(keyring, o) /\ On(o)' = On(o)
    BY <1>11, <2>1 DEF Dek, On
  <2>5. /\ n = o + 1 /\ n <= deks /\ b = On(o)
        /\ \A v \in DOMAIN keyring'.entries : v <= o \/ v = n
        /\ o \in DOMAIN keyring'.entries /\ keyring'.active = o
        /\ recovery' = On(o)
        /\ \A f \in File : files'[f] = None \/ files'[f] = On(o)
        /\ \A s \in StoreNames : \A d \in material'[s] : d = Dek(keyring, o)
    BY <1>1, <1>4, <1>6, <1>10, <1>11, <2>1, <2>2, <2>3 DEF Mixed, On, FilesOn
  <2>6. Mixed(o, n, b)'
    BY <1>1, <1>7, <2>4, <2>5 DEF Mixed, made
  <2>7. journal'.old_version = o /\ journal'.new_version = n /\ journal'.backup = b
    BY <1>1, <1>4, <2>1, <2>2, <2>3
  <2> QED
    BY <2>6, <2>7 DEF Mixed, On, Dek
<1>13. JournalOp' = "Rotate"
  BY <1>1, <1>4 DEF JournalOp
<1>14. DiskInv'
  BY <1>12, <1>13 DEF DiskInv, JournalOp, BootstrapPending
<1>15. SessionInv'
  BY <1>1, <1>2, <1>6, <1>7 DEF SessionInv, BootstrapPending, Dek
<1>16. ASSUME job' = [job EXCEPT !.plan = Tail(@)]
       PROVE  JobInv'
  BY <1>1, <1>3, <1>6, <1>7, <1>10, <1>11, <1>16, RollbackAdvanced DEF FilesOn
<1> QED
  BY <1>1, <1>3, <1>5, <1>8, <1>14, <1>15, <1>16, AdvanceKeeps

\* An operation with a new plan.
LEMMA Planned ==
  ASSUME NEW p, NEW S, PlanOf(p, S), job' # None, job'.plan = p,
         S \subseteq StepsOf(job'.op),
         job'.op \in {"bootstrap", "unlock"} <=> session' = None
  PROVE  PlanInv' /\ \A x : ToDo(x)' <=> x \in S
<1>1. Ordered(p) /\ \A x : In(x, p) <=> x \in S
  BY DEF PlanOf
<1>2. \A x : ToDo(x)' <=> x \in S
  BY <1>1 DEF ToDo
<1>3. Ordered(job.plan)' /\ StepsOf(job.op)' = StepsOf(job'.op)
  BY <1>1 DEF Ordered, StepsOf
<1> QED
  BY <1>2, <1>3 DEF PlanInv

LEMMA RollbackLoadKeeps ==
  ASSUME VaultInv, RollbackLoad
  PROVE  VaultInv'
<1> DEFINE h == "rollback_load"
           has == job.new \in DOMAIN keyring.entries
<1>1. /\ Step(h) /\ UNCHANGED <<disk, made, bounds, session>>
      /\ UNCHANGED <<keyring, staged, journal, material, recovery, files, deks>>
      /\ Failed \/ job' = [job EXCEPT !.plan = RollbackPlan(has) \o Tail(@)]
  BY DEF RollbackLoad, disk, made
<1>2. /\ VaultTypeOK /\ PlanInv /\ DiskTypeOK /\ JobTypeOK /\ DiskInv /\ JobInv
      /\ late \in Nat
  BY DEF VaultInv, VaultTypeOK, DiskTypeOK
<1>3. /\ job.op \in {"unlock", "rollback"} /\ job # None /\ job \in Operation
      /\ ToDo(h) /\ RollbackInv /\ UnlockInv
  BY <1>1, <1>2, RollbackStep, HeadOfPlan DEF JobInv
<1>4. DiskTypeOK' /\ DiskInv' /\ SessionInv' /\ session' = session
  BY <1>1, <1>2, SameDisk, QuietDisk DEF bounds
<1>5. CASE Failed
  BY <1>1, <1>3, <1>4, <1>5, FailKeeps
<1>6. CASE job' = [job EXCEPT !.plan = RollbackPlan(has) \o Tail(@)]
  <2>1. PICK x \in {"reload", "open"} : job.plan = <<h, x>>
    BY <1>3 DEF RollbackInv
  <2>2. Tail(job.plan) = <<x>> /\ ToDo(x)
    BY <2>1 DEF ToDo, In
  <2>3. x \in StepsOf(job.op)
    BY <1>2, <1>3, <2>2 DEF PlanInv
  <2> DEFINE p == RollbackPlan(has) \o <<x>>
             S == IF has THEN RollbackSteps \cup {"unjournal", x}
                  ELSE {"backup", "set_active", "remove_version", "unjournal", x}
  <2>4. PlanOf(p, S)
    <3>1. CASE has
      <4>1. has = TRUE
        BY <3>1
      <4> QED
        BY <3>1, <4>1, RollbackPlanPlan
    <3>2. CASE ~has
      <4>1. has = FALSE
        BY <3>2
      <4> QED
        BY <3>2, <4>1, RollbackPlanPlan
    <3> QED
      BY <3>1, <3>2
  <2>5. has => Head(p) = "set_active"
    <3>1. has => has = TRUE
      OBVIOUS
    <3> QED
      BY <3>1, RollbackPlanPlan
  <2>6. S \subseteq StepsOf(job.op)
    BY <1>3, <2>3 DEF StepsOf, RollbackSteps, UnlockSteps
  <2>7. /\ "rollback_load" \notin S /\ "commit" \notin S /\ "replace" \notin S
        /\ "unjournal" \in S /\ "backup" \in S /\ "remove_version" \in S
        /\ has => "files" \in S /\ "rollback_open" \in S
                    /\ \A s \in StoreNames : s \in S
    BY StepNotStore DEF RollbackSteps, StepNames
  <2>8. job' = [job EXCEPT !.plan = p]
    BY <1>6, <2>2
  <2>9. p \in Seq(StepNames \cup StoreNames)
    BY <2>4 DEF PlanOf, PlanStep
  <2> HIDE DEF p, S
  <2>10. /\ job' \in Operation /\ job'.op = job.op /\ job'.plan = p
         /\ job'.custody = job.custody /\ job'.kek = job.kek
         /\ job'.old = job.old /\ job'.new = job.new
         /\ job'.backup = job.backup
    BY <1>3, <2>8, <2>9 DEF Operation
  <2>11. job' # None
    BY <2>10, NoneAssumption
  <2>12. job.op \in {"bootstrap", "unlock"} <=> session' = None
    BY <1>2, <1>3, <1>4 DEF PlanInv
  <2>13. PlanInv' /\ \A y : ToDo(y)' <=> y \in S
    BY <2>4, <2>6, <2>10, <2>11, <2>12, Planned
  <2>14. JobTypeOK'
    BY <1>2, <1>3, <1>4, <2>10 DEF JobTypeOK
  <2>15. /\ JournalOp = "Rotate" /\ job.old = journal.old_version
         /\ job.new = journal.new_version /\ job.backup = journal.backup
    BY <1>3 DEF RollbackInv
  <2>16. Mixed(job.old, job.new, job.backup)
    BY <1>2, <2>15 DEF DiskInv
  <2>17. JournalOp' = "Rotate" /\ ~BootstrapPending(FALSE)' /\ keyring' = keyring
         /\ keyring' # None
    BY <1>1, <2>15, <2>16 DEF JournalOp, BootstrapPending, Mixed
  <2>18. ~has => /\ keyring.active = job.old
                 /\ FilesOn(job.old, Dek(keyring, job.old))
                 /\ \A s \in StoreNames :
                      material[s] \subseteq {Dek(keyring, job.old)}
    BY <2>16 DEF Mixed, On, FilesOn
  <2>19. /\ FilesOn(job.old, Dek(keyring, job.old))' =
              FilesOn(job.old, Dek(keyring, job.old))
         /\ Dek(keyring, job.old)' = Dek(keyring, job.old)
    BY <1>1, <2>10 DEF FilesOn, Dek
  <2> HIDE DEF has
  <2>20. RollbackInv'
    BY <1>1, <2>5, <2>7, <2>10, <2>13, <2>15, <2>17, <2>18, <2>19 DEF RollbackInv
  <2>21. UnlockInv'
    BY <1>3, <2>7, <2>10, <2>13, <2>15, <2>17 DEF UnlockInv
  <2>22. JobInv'
    BY <1>3, <2>10, <2>20, <2>21
       DEF JobInv, BootstrapInv, ChangeInv, RotateInv
  <2> QED
    BY <1>4, <2>13, <2>14, <2>22 DEF VaultInv, VaultTypeOK
<1> QED
  BY <1>1, <1>5, <1>6

LEMMA ReloadKeeps ==
  ASSUME VaultInv, Reload
  PROVE  VaultInv'
<1> DEFINE h == "reload"
<1>1. /\ Step(h) /\ UNCHANGED <<disk, made, bounds>>
      /\ UNCHANGED <<keyring, staged, journal, material, recovery, files, deks>>
      /\ \/ /\ session' = [session EXCEPT !.keys = Keys(keyring),
                                          !.active = keyring.active]
            /\ job' = [job EXCEPT !.plan = Tail(@)]
         \/ session' = session /\ Failed
  BY DEF Reload, disk, made
<1>2. /\ VaultTypeOK /\ PlanInv /\ DiskTypeOK /\ JobTypeOK /\ DiskInv /\ JobInv
      /\ SessionInv /\ late \in Nat
  BY DEF VaultInv, VaultTypeOK, DiskTypeOK
<1>3. h \notin StoreNames /\ h \notin Watched
  BY StepNotStore DEF StepNames, Watched
<1>4. /\ job # None /\ job \in Operation /\ h \in StepsOf(job.op)
  BY <1>1, <1>2, HeadOfPlan
<1>5. job.op = "rollback"
  <2>1. job.op \in {"bootstrap", "unlock", "change", "move", "rotate", "rollback"}
    BY <1>4 DEF Operation
  <2>2. /\ h \notin RemoveSteps /\ h \notin CreateSteps /\ h \notin ChangeSteps
        /\ h \notin MoveSteps /\ h \notin RotateSteps /\ h \notin UnlockSteps
    BY <1>3 DEF RemoveSteps, CreateSteps, ChangeSteps, MoveSteps, RotateSteps,
         UnlockSteps, RollbackSteps
  <2> QED
    BY <1>4, <2>1, <2>2 DEF StepsOf
<1>6. session # None /\ session \in Handle
  BY <1>2, <1>4, <1>5 DEF PlanInv, JobTypeOK
<1>7. keyring \in Keyring /\ ~BootstrapPending(FALSE)
  BY <1>2, <1>6 DEF SessionInv, DiskTypeOK
<1>8. DiskTypeOK' /\ DiskInv'
  BY <1>1, <1>2, SameDisk DEF bounds
<1>9. CASE /\ session' = [session EXCEPT !.keys = Keys(keyring),
                                         !.active = keyring.active]
           /\ job' = [job EXCEPT !.plan = Tail(@)]
  <2>1. session' \in Handle /\ session' # None /\ SessionInv'
    BY <1>1, <1>6, <1>7, <1>9, ReopenedHandle
  <2>2. JobInv'
    BY <1>1, <1>3, <1>5, <1>9, QuietJob
  <2>3. /\ job' \in Operation /\ job' # None /\ job'.op = job.op
        /\ job'.plan = Tail(job.plan) /\ job'.kek = job.kek
    BY <1>1, <1>2, <1>9, AdvancedJob
  <2>4. PlanInv'
    BY <1>1, <1>2, <1>6, <2>1, <2>3, AdvancedPlan
  <2>5. JobTypeOK'
    BY <1>2, <1>4, <2>1, <2>3 DEF JobTypeOK
  <2> QED
    BY <1>8, <2>1, <2>2, <2>4, <2>5 DEF VaultInv, VaultTypeOK
<1>10. CASE session' = session /\ Failed
  <2>1. SessionInv'
    BY <1>1, <1>10, QuietDisk
  <2> QED
    BY <1>1, <1>5, <1>8, <1>10, <2>1, FailKeeps
<1> QED
  BY <1>1, <1>9, <1>10

-----------------------------------------------------------------------------
(* The journal is removed: everything is on one DEK.                       *)

\* The last ranked step has all others behind it.
LEMMA LastStep ==
  ASSUME VaultInv, Step("unjournal")
  PROVE  \A x : Rank(x) # 0 => /\ ~In(x, Tail(job.plan))
                               /\ x # "unjournal" => ~ToDo(x)
<1>1. VaultTypeOK /\ PlanInv
  BY DEF VaultInv
<1>2. Rank("unjournal") = 14 /\ "unjournal" \notin StoreNames
  BY Ranks, StepNotStore DEF StepNames
<1>3. \A x : Rank(x) <= 14
  BY DEF Rank
<1> QED
  BY <1>1, <1>2, <1>3, Past

LEMMA WholeAtLast ==
  ASSUME VaultInv, Step("unjournal")
  PROVE  Whole
<1> DEFINE h == "unjournal"
<1>1. /\ VaultTypeOK /\ PlanInv /\ JobInv /\ DiskTypeOK /\ DiskInv /\ SessionInv
  BY DEF VaultInv, VaultTypeOK
<1>2. /\ job # None /\ job \in Operation
      /\ BootstrapInv /\ UnlockInv /\ ChangeInv /\ RotateInv /\ RollbackInv
  BY <1>1, HeadOfPlan DEF JobInv
<1>3. job.op \in {"bootstrap", "unlock", "change", "move", "rotate", "rollback"}
  BY <1>2 DEF Operation
<1>4. /\ \A s \in StoreNames : ~ToDo(s)
      /\ \A x \in {"phrase_journal", "rollback_load", "files", "rollback_open",
                   "backup", "set_active", "remove_version", "recovery"} :
           ~ToDo(x)
  BY LastStep, Ranks, StepNotStore DEF StepNames
<1>5. CASE job.op = "bootstrap"
  BY <1>2, <1>4, <1>5 DEF BootstrapInv
<1>6. CASE job.op \in {"unlock", "rollback"} /\ JournalOp # "Rotate"
  <2>1. keyring # None /\ ~BootstrapPending(FALSE)
    BY <1>1, <1>2, <1>6 DEF UnlockInv, PlanInv, SessionInv
  <2> QED
    BY <1>1, <1>6, <2>1, WholeUnlessRotating
<1>7. CASE job.op \in {"unlock", "rollback"} /\ JournalOp = "Rotate"
  <2>1. /\ job.old = journal.old_version /\ job.new = journal.new_version
        /\ job.backup = journal.backup /\ keyring.active = job.old
        /\ FilesOn(job.old, Dek(keyring, job.old))
        /\ \A s \in StoreNames : material[s] \subseteq {Dek(keyring, job.old)}
        /\ recovery = job.backup /\ job.new \notin DOMAIN keyring.entries
    BY <1>2, <1>4, <1>7 DEF RollbackInv
  <2>2. Mixed(job.old, job.new, job.backup)
    BY <1>1, <1>7, <2>1 DEF DiskInv
  <2>3. journal \in LifecycleJournal /\ journal.op = "Rotate"
    BY <1>1, <1>7 DEF DiskTypeOK, JournalOp
  <2>4. job.old \in Nat /\ deks \in Nat
    BY <1>1, <2>1, <2>3 DEF LifecycleJournal, Version, DiskTypeOK
  <2> QED
    BY <2>1, <2>2, <2>4 DEF Mixed, Whole, On, ActiveDek
<1>8. CASE job.op \in {"change", "move"}
  BY <1>2, <1>8 DEF ChangeInv
<1>9. CASE job.op = "rotate"
  <2>1. /\ ToDo(h) /\ ~ToDo("rotate_journal")
        /\ Mixed(job.old, job.new, job.backup)
        /\ job.new \in DOMAIN keyring.entries /\ keyring.active = job.new
        /\ Dek(keyring, job.new) = job.dek
    BY <1>9, RotateFacts
  <2>2. /\ FilesOn(job.new, job.dek)
        /\ \A s \in StoreNames : material[s] \subseteq {job.dek}
        /\ recovery = [version |-> job.new, dek |-> job.dek]
    BY <1>2, <1>4, <1>9, <2>1 DEF RotateInv
  <2>3. /\ keyring # None /\ job.new = job.old + 1 /\ job.new <= deks
        /\ \A v \in DOMAIN keyring.entries : v <= job.old \/ v = job.new
        /\ job.old \in DOMAIN keyring.entries
    BY <2>1 DEF Mixed
  <2>4. keyring \in Keyring
    BY <1>1, <2>3 DEF DiskTypeOK
  <2>5. DOMAIN keyring.entries \subseteq Int
    BY <2>4 DEF Keyring, Entries, Version
  <2>6. \A v \in DOMAIN keyring.entries : v <= job.new
    BY <2>3, <2>5
  <2> QED
    BY <2>1, <2>2, <2>3, <2>6 DEF Whole, ActiveDek
<1> QED
  BY <1>3, <1>5, <1>6, <1>7, <1>8, <1>9

LEMMA RemoveJournalKeeps ==
  ASSUME VaultInv, RemoveJournal, Step("unjournal"),
         job.op = "rotate" => late' = late
  PROVE  VaultInv'
<1> DEFINE h == "unjournal"
<1>1. /\ Step(h) /\ Advance /\ session' = session /\ UNCHANGED made
      /\ UNCHANGED <<salt, keychain, keyring, staged, material, recovery, files>>
      /\ deks' = deks /\ journal' = None
  BY DEF RemoveJournal, made
<1>2. /\ VaultTypeOK /\ PlanInv /\ JobInv /\ DiskTypeOK /\ DiskInv /\ SessionInv
  BY DEF VaultInv, VaultTypeOK
<1>3. /\ job # None /\ job \in Operation
      /\ BootstrapInv /\ UnlockInv /\ ChangeInv /\ RotateInv /\ RollbackInv
  BY <1>1, <1>2, HeadOfPlan DEF JobInv
<1>4. Whole
  BY WholeAtLast
<1>5. Whole' /\ ActiveDek(keyring)' = ActiveDek(keyring)
  BY <1>1, <1>4 DEF Whole, FilesOn, ActiveDek, Dek
<1>6. DiskTypeOK'
  BY <1>1, <1>2, LateIsNat DEF DiskTypeOK, made
<1>7. JournalOp' = "none" /\ \A b \in BOOLEAN : ~BootstrapPending(b)'
  BY <1>1 DEF JournalOp, BootstrapPending
<1>8. DiskInv'
  BY <1>5, <1>7 DEF DiskInv
<1>9. SessionInv'
  BY <1>1, <1>2, <1>7 DEF SessionInv, Dek
<1>10. ASSUME job' = [job EXCEPT !.plan = Tail(@)]
       PROVE  JobInv'
  <2>1. /\ job' # None /\ job'.op = job.op /\ job'.plan = Tail(job.plan)
        /\ job'.custody = job.custody /\ job'.dek = job.dek
    BY <1>1, <1>2, <1>10, AdvancedJob
  <2>2. /\ \A x : ToDo(x) <=> x = h \/ ToDo(x)'
        /\ \A x : ToDo(x)' <=> In(x, Tail(job.plan))
    BY <1>1, <1>2, <2>1, AdvancedPlan
  <2>3. /\ \A s \in StoreNames : Rank(s) # 0
        /\ \A x \in {"rm_keyring", "rm_recovery", "rm_identity", "rm_journal",
                     "bootstrap_journal", "keyring", "create_identity",
                     "recovery", "phrase_journal", "commit", "stage",
                     "rollback_load", "rotate_journal", "add_active_dek",
                     "rotate_open", "files", "rollback_open", "backup",
                     "set_active", "remove_version", "unjournal"} : Rank(x) # 0
    BY Ranks
  <2>4. \A x : Rank(x) # 0 => ~ToDo(x)'
    BY <2>2, LastStep
  <2>5. BootstrapInv'
    BY <1>1, <1>3, <1>5, <2>1, <2>3, <2>4 DEF BootstrapInv
  <2>6. UnlockInv'
    BY <1>1, <1>3, <1>5, <1>7, <2>1, <2>2, <2>3, <2>4 DEF UnlockInv
  <2>7. ChangeInv'
    <3>1. ~ToDo("stage")
      BY <2>3, LastStep
    <3>2. StagedSame' = StagedSame
      BY <1>1 DEF StagedSame, SameDeks, Keys, Dek
    <3> QED
      BY <1>3, <1>5, <1>7, <2>1, <3>1, <3>2 DEF ChangeInv
  <2>8. RotateInv'
    <3>1. \A x \in RotateSteps : Rank(x) # 0
      BY <2>3 DEF RotateSteps
    <3>2. job.op = "rotate" => \A x : ToDo(x)' => x \in RotateSteps
      BY <1>2, <1>3, <2>2 DEF PlanInv, StepsOf
    <3> QED
      BY <1>3, <2>1, <2>3, <2>4, <3>1, <3>2 DEF RotateInv
  <2>9. RollbackInv'
    <3>1. \A x \in RollbackSteps : Rank(x) # 0
      BY <2>3 DEF RollbackSteps
    <3> QED
      BY <1>7, <2>3, <2>4, <3>1 DEF RollbackInv
  <2> QED
    BY <2>5, <2>6, <2>7, <2>8, <2>9 DEF JobInv
<1> QED
  BY <1>1, <1>6, <1>8, <1>9, <1>10, AdvanceKeeps

-----------------------------------------------------------------------------
(* An operation ends.                                                      *)

LEMMA FinishKeeps ==
  ASSUME VaultInv, Finish
  PROVE  VaultInv'
<1>1. /\ job # None /\ job.plan = <<>> /\ job' = None
      /\ UNCHANGED <<disk, made, bounds>>
      /\ UNCHANGED <<keyring, staged, journal, material, recovery, files, deks>>
  BY DEF Finish, disk, made
<1>2. /\ VaultTypeOK /\ PlanInv /\ JobInv /\ DiskTypeOK /\ DiskInv /\ SessionInv
      /\ JobTypeOK /\ late \in Nat
  BY DEF VaultInv, VaultTypeOK, DiskTypeOK
<1>3. /\ job \in Operation /\ BootstrapInv /\ UnlockInv
      /\ job.op \in {"bootstrap", "unlock", "change", "move", "rotate", "rollback"}
      /\ job.custody \in HandleCustodies
      /\ session \in Handle \cup {None}
  BY <1>1, <1>2 DEF JobInv, JobTypeOK, Operation
<1>4. \A x : ~ToDo(x)
  BY <1>1 DEF ToDo, In
<1>5. DiskTypeOK' /\ DiskInv'
  BY <1>1, <1>2, SameDisk DEF bounds
<1>6. CASE job.op \in {"bootstrap", "unlock"}
  <2> DEFINE K == IF job.custody = "recovery"
                  THEN [v \in {keyring.active} |-> job.dek] ELSE Keys(keyring)
  <2>1. session' = [custody |-> job.custody, keys |-> K,
                    active |-> keyring.active]
    BY <1>6 DEF Finish
  <2>2. keyring # None /\ ~BootstrapPending(FALSE)
    BY <1>3, <1>4, <1>6 DEF BootstrapInv, UnlockInv, Whole, BootstrapPending
  <2>3. keyring \in Keyring /\ keyring.active \in Version
    BY <1>2, <2>2 DEF DiskTypeOK, Keyring
  <2>4. job.custody = "recovery" =>
          /\ keyring.active \in DOMAIN keyring.entries
          /\ job.dek = Dek(keyring, keyring.active)
    BY <1>3, <1>6 DEF BootstrapInv, UnlockInv, Whole, ActiveDek
  <2>5. /\ K \in UNION {[D -> DekId] : D \in SUBSET Version}
        /\ keyring.active \in DOMAIN keyring.entries =>
             /\ keyring.active \in DOMAIN K
             /\ K[keyring.active] = Dek(keyring, keyring.active)
    <3>1. CASE job.custody = "recovery"
      <4>1. job.dek \in DekId
        BY <2>3, <2>4, <3>1, KeyringDek
      <4>2. K \in [{keyring.active} -> DekId]
        BY <3>1, <4>1
      <4>3. {keyring.active} \in SUBSET Version
        BY <2>3
      <4>4. DOMAIN K = {keyring.active} /\ K[keyring.active] = job.dek
        BY <3>1
      <4> HIDE DEF K
      <4> QED
        BY <2>4, <3>1, <4>2, <4>3, <4>4
    <3>2. CASE job.custody # "recovery"
      BY <2>3, <3>2, KeysOfKeyring
    <3> QED
      BY <3>1, <3>2
  <2> HIDE DEF K
  <2>6. session' \in Handle /\ session'.active = keyring.active
        /\ session'.keys = K
    BY <1>3, <2>1, <2>3, <2>5 DEF Handle
  <2>7. keyring' # None /\ ~BootstrapPending(FALSE)'
    BY <1>1, <2>2 DEF BootstrapPending
  <2>8. SessionInv'
    BY <1>1, <2>5, <2>6, <2>7 DEF SessionInv, Dek
  <2> QED
    BY <1>1, <1>5, <2>6, <2>8, Dropped
<1>7. CASE job.op = "move"
  <2>1. session' = [session EXCEPT !.custody = "os_keychain"]
    BY <1>7 DEF Finish
  <2>2. session # None /\ session \in Handle
    BY <1>1, <1>2, <1>3, <1>7 DEF PlanInv
  <2>3. session' \in Handle /\ session'.active = session.active
        /\ session'.keys = session.keys
    BY <2>1, <2>2 DEF Handle, HandleCustodies, Custodies
  <2>4. SessionInv'
    BY <1>1, <1>2, <2>2, <2>3 DEF SessionInv, BootstrapPending, Dek
  <2> QED
    BY <1>1, <1>5, <2>3, <2>4, Dropped
<1>8. CASE job.op \in {"change", "rotate", "rollback"}
  <2>1. session' = session
    BY <1>8 DEF Finish
  <2>2. SessionInv'
    BY <1>1, <1>2, <2>1 DEF SessionInv, BootstrapPending, Dek
  <2> QED
    BY <1>1, <1>3, <1>5, <2>1, <2>2, Dropped
<1> QED
  BY <1>3, <1>6, <1>7, <1>8

-----------------------------------------------------------------------------
(* An operation starts: the disk is as it was, the DEKs made may grow.     *)

LEMMA GrownDisk ==
  ASSUME VaultInv, UNCHANGED disk, session' = session, deks <= deks',
         deks' \in 0..MaxDek, salts' \in Nat, keks' \in Nat, late' \in Nat
  PROVE  DiskTypeOK' /\ DiskInv' /\ SessionInv'
<1>1. UNCHANGED <<salt, keychain, keyring, staged, journal, material, recovery,
                  files>>
  BY DEF disk
<1>2. DiskTypeOK /\ DiskInv /\ SessionInv
  BY DEF VaultInv, VaultTypeOK
<1>3. DiskTypeOK'
  BY <1>1, <1>2 DEF DiskTypeOK
<1>4. /\ Empty' = Empty /\ JournalOp' = JournalOp
      /\ \A b \in BOOLEAN : BootstrapPending(b)' = BootstrapPending(b)
      /\ StagedSame' = StagedSame /\ \A v : Dek(keyring, v)' = Dek(keyring, v)
  BY <1>1 DEF Empty, JournalOp, BootstrapPending, StagedSame, SameDeks, Keys, Dek
<1>5. deks \in Int /\ deks' \in Int
  BY <1>2 DEF DiskTypeOK
<1>6. Whole => Whole'
  <2>1. keyring # None => keyring.active \in Int
    BY <1>2 DEF DiskTypeOK, Keyring, Version
  <2> QED
    BY <1>1, <1>5, <2>1 DEF Whole, FilesOn, ActiveDek, Dek
<1>7. ASSUME JournalOp = "Rotate"
      PROVE  Mixed(journal.old_version, journal.new_version, journal.backup)'
  <2>1. journal.new_version \in Int
    BY <1>2, <1>7 DEF DiskTypeOK, JournalOp, LifecycleJournal, Version
  <2>2. Mixed(journal.old_version, journal.new_version, journal.backup)
    BY <1>2, <1>7 DEF DiskInv
  <2> QED
    BY <1>1, <1>5, <2>1, <2>2 DEF Mixed, On, Dek
<1>8. DiskInv'
  BY <1>1, <1>2, <1>4, <1>6, <1>7 DEF DiskInv
<1>9. SessionInv'
  BY <1>1, <1>2, <1>4 DEF SessionInv
<1> QED
  BY <1>3, <1>8, <1>9

LEMMA Started ==
  ASSUME VaultInv, UNCHANGED disk, session' = session, deks <= deks',
         deks' \in 0..MaxDek, salts' \in Nat, keks' \in Nat, late' \in Nat,
         NEW S, PlanOf(job'.plan, S), job' \in Operation,
         job'.op # "unlock" => job'.kek \in Kek,
         S \subseteq StepsOf(job'.op),
         job'.op \in {"bootstrap", "unlock"} <=> session = None,
         (\A x : ToDo(x)' <=> x \in S) => JobInv'
  PROVE  VaultInv'
<1>1. DiskTypeOK' /\ DiskInv' /\ SessionInv'
  BY GrownDisk
<1>2. job' # None /\ session \in Handle \cup {None}
  BY NoneAssumption DEF VaultInv, VaultTypeOK, JobTypeOK
<1>3. PlanInv' /\ \A x : ToDo(x)' <=> x \in S
  BY <1>2, Planned
<1>4. JobTypeOK'
  BY <1>2 DEF JobTypeOK
<1> QED
  BY <1>1, <1>3, <1>4 DEF VaultInv, VaultTypeOK

LEMMA StartedJob ==
  ASSUME NEW op \in {"bootstrap", "unlock", "change", "move"},
         NEW p, NEW S, PlanOf(p, S),
         NEW custody \in HandleCustodies, NEW kek \in Kek \cup {None}
  PROVE  /\ Job(op, p, custody, kek) \in Operation
         /\ Job(op, p, custody, kek).op = op
         /\ Job(op, p, custody, kek).plan = p
         /\ Job(op, p, custody, kek).custody = custody
         /\ Job(op, p, custody, kek).kek = kek
<1>1. p \in Seq(StepNames \cup StoreNames)
  BY DEF PlanOf, PlanStep
<1> QED
  BY <1>1 DEF Job, Operation

\* The counters at the start of an operation that makes no DEK.
LEMMA Counters ==
  ASSUME VaultInv
  PROVE  /\ deks \in 0..MaxDek /\ deks <= deks /\ salts \in Nat /\ keks \in Nat
         /\ late \in Nat /\ salts + 1 \in Nat /\ keks + 1 \in Nat
         /\ salt \in Nat \cup {None} /\ keychain \in Kek \cup {None}
BY DEF VaultInv, VaultTypeOK, DiskTypeOK

LEMMA BootstrapStartKeeps ==
  ASSUME VaultInv, NEW custody \in Custodies, NEW q \in Passphrase,
         BootstrapStart(custody, q)
  PROVE  VaultInv'
<1> DEFINE b == IF journal = None THEN <<>> ELSE BootstrapRollback
           R == IF journal = None THEN {} ELSE RemoveSteps
           p == b \o BootstrapPlan(custody)
           k == PassKek(q, None)
<1>1. /\ session = None
      /\ journal = None \/ BootstrapPending(FALSE)
      /\ job' = Job("bootstrap", p, custody, k)
      /\ UNCHANGED disk /\ session' = session /\ journal' = journal
      /\ UNCHANGED <<bounds, made>>
  BY DEF BootstrapStart, Start, Idle, disk
<1>2. deks' = deks /\ salts' = salts /\ keks' = keks /\ late' = late
  BY <1>1 DEF made, bounds
<1>3. PICK S \in SUBSET CreateSteps :
        /\ PlanOf(BootstrapPlan(custody), S)
        /\ {"bootstrap_journal", "keyring", "create_identity", "recovery",
            "phrase_journal"} \subseteq S
  BY BootstrapPlanPlan
<1>4. PlanOf(b, R)
  BY ShortPlans, BootstrapRollbackPlan
<1>5. \A x \in R, y \in S : InOrder(x, y)
  BY Ranks DEF RemoveSteps, CreateSteps, InOrder
<1>6. k \in Kek
  BY DEF PassKek, Kek
<1>7. /\ R \subseteq RemoveSteps
      /\ journal = None => "rm_journal" \notin R
      /\ journal # None => "rm_journal" \in R /\ "rm_keyring" \in R
      /\ \A x \in {"rm_keyring", "rm_recovery", "rm_identity"} :
           x \in R => "rm_journal" \in R
      /\ \A x \in {"rm_keyring", "rm_recovery", "rm_identity", "rm_journal"} :
           x \notin CreateSteps
  BY DEF RemoveSteps, CreateSteps
<1> HIDE DEF b, R, k
<1>8. PlanOf(p, R \cup S)
  BY <1>3, <1>4, <1>5, PlanConcat
<1> HIDE DEF p
<1>9. custody \in HandleCustodies /\ custody # "recovery"
  BY DEF HandleCustodies, Custodies
<1>10. /\ job' \in Operation /\ job'.op = "bootstrap" /\ job'.plan = p
       /\ job'.custody = custody /\ job'.kek = k
  BY <1>1, <1>6, <1>8, <1>9, StartedJob
<1>11. R \cup S \subseteq StepsOf("bootstrap")
  BY <1>3, <1>7 DEF StepsOf
<1>12. ASSUME \A x : ToDo(x)' <=> x \in R \cup S
       PROVE  JobInv'
  <2>1. BootstrapPending(FALSE)' <=> BootstrapPending(FALSE)
    BY <1>1 DEF BootstrapPending
  <2>2. \A x \in {"bootstrap_journal", "keyring", "create_identity", "recovery",
                  "phrase_journal"} : ToDo(x)'
    BY <1>3, <1>12
  <2>3. /\ ToDo("rm_journal")' <=> journal # None
        /\ journal # None => ToDo("rm_keyring")'
        /\ \A x \in {"rm_keyring", "rm_recovery", "rm_identity"} :
             ToDo(x)' => ToDo("rm_journal")'
    BY <1>3, <1>7, <1>12
  <2>4. BootstrapInv'
    BY <1>1, <1>9, <1>10, <2>1, <2>2, <2>3 DEF BootstrapInv
  <2> QED
    BY <1>10, <2>4 DEF JobInv, UnlockInv, ChangeInv, RotateInv, RollbackInv
<1> QED
  BY <1>1, <1>2, <1>6, <1>8, <1>10, <1>11, <1>12, Counters, Started

LEMMA BootstrapResumeKeeps ==
  ASSUME VaultInv, NEW custody \in Custodies, NEW q \in Passphrase,
         BootstrapResume(custody, q)
  PROVE  VaultInv'
<1> DEFINE S == {"audit", "unjournal"}
<1>1. PICK k : /\ journal.kek = k
               /\ job' = Job("bootstrap", FinishBootstrap, custody, k)
  BY DEF BootstrapResume, Start
<1>2. /\ session = None /\ BootstrapPending(TRUE)
      /\ UNCHANGED disk /\ session' = session
      /\ UNCHANGED <<keyring, journal, material, recovery, files, deks>>
      /\ UNCHANGED <<bounds, made>>
  BY DEF BootstrapResume, Start, Idle, disk, made
<1>3. deks' = deks /\ salts' = salts /\ keks' = keks /\ late' = late
  BY <1>2 DEF made, bounds
<1>4. DiskTypeOK /\ DiskInv
  BY DEF VaultInv, VaultTypeOK
<1>5. k \in Kek
  <2>1. journal \in LifecycleJournal /\ journal.op = "Bootstrap"
    BY <1>2, <1>4 DEF DiskTypeOK, BootstrapPending
  <2> QED
    BY <1>1, <2>1 DEF LifecycleJournal
<1>6. custody \in HandleCustodies /\ custody # "recovery"
  BY DEF HandleCustodies, Custodies
<1>7. /\ job' \in Operation /\ job'.op = "bootstrap"
      /\ job'.plan = FinishBootstrap
      /\ job'.custody = custody /\ job'.kek = k
  BY <1>1, <1>5, <1>6, FinishBootstrapPlan, StartedJob
<1>8. S \subseteq StepsOf("bootstrap")
  BY DEF StepsOf, CreateSteps
<1>9. ASSUME \A x : ToDo(x)' <=> x \in S
      PROVE  JobInv'
  <2>1. Whole
    BY <1>2, <1>4 DEF DiskInv
  <2>2. Whole' /\ BootstrapPending(TRUE)'
    BY <1>2, <2>1 DEF Whole, BootstrapPending, FilesOn, ActiveDek, Dek
  <2>3. BootstrapInv'
    BY <1>6, <1>7, <1>9, <2>2 DEF BootstrapInv
  <2> QED
    BY <1>7, <2>3 DEF JobInv, UnlockInv, ChangeInv, RotateInv, RollbackInv
<1> HIDE DEF S
<1>10. PlanOf(job'.plan, S)
  BY <1>7, FinishBootstrapPlan DEF S
<1> QED
  BY <1>2, <1>3, <1>5, <1>7, <1>8, <1>9, <1>10, Counters, Started

-----------------------------------------------------------------------------
(* unlock starts.                                                          *)

\* An unlock without a Rotate journal.
LEMMA UnlockStarted ==
  ASSUME VaultInv, session = None, UNCHANGED disk, session' = session,
         UNCHANGED <<deks, salts, bounds>>, keks' \in Nat,
         keyring # None, ~BootstrapPending(FALSE), JournalOp # "Rotate",
         NEW S, PlanOf(job'.plan, S), job' \in Operation, job'.op = "unlock",
         S \subseteq UnlockSteps \ (RollbackSteps \cup {"rollback_load"}),
         "commit" \in S => JournalOp \in {"ChangePassphrase", "MoveToKeychain"},
         "replace" \in S \/ job'.custody = "recovery" =>
           /\ JournalOp \in {"none", "Bootstrap"}
           /\ job'.dek = ActiveDek(keyring)
  PROVE  VaultInv'
<1>1. UNCHANGED <<keyring, journal, material, recovery, files, deks, late>>
  BY DEF disk, bounds
<1>2. deks' = deks /\ salts' = salts /\ late' = late
  BY <1>1
<1>3. Whole
  BY WholeUnlessRotating DEF VaultInv, VaultTypeOK
<1>4. Whole' /\ ActiveDek(keyring)' = ActiveDek(keyring)
  BY <1>1, <1>3 DEF Whole, FilesOn, ActiveDek, Dek
<1>5. JournalOp' = JournalOp /\ ~BootstrapPending(FALSE)' /\ keyring' # None
  BY <1>1 DEF JournalOp, BootstrapPending
<1>6. S \subseteq StepsOf(job'.op)
  BY DEF StepsOf
<1>7. ASSUME \A x : ToDo(x)' <=> x \in S
      PROVE  JobInv'
  <2>1. UnlockInv'
    BY <1>4, <1>5, <1>7 DEF UnlockInv
  <2>2. RollbackInv'
    BY <1>5, <1>7 DEF RollbackInv
  <2> QED
    BY <2>1, <2>2 DEF JobInv, BootstrapInv, ChangeInv, RotateInv
<1> QED
  BY <1>2, <1>6, <1>7, Counters, Started

\* An unlock that finds a Rotate journal rolls the rotation back.
LEMMA RollbackStarted ==
  ASSUME VaultInv, session = None, UNCHANGED disk, session' = session,
         UNCHANGED <<made, bounds>>, keyring # None, JournalOp = "Rotate",
         NEW custody \in Custodies, NEW kek \in Kek \cup {None},
         job' = [Job("unlock", <<"rollback_load", "open">>, custody, kek)
                 EXCEPT !.old = journal.old_version,
                        !.new = journal.new_version,
                        !.backup = journal.backup]
  PROVE  VaultInv'
<1> DEFINE p == <<"rollback_load", "open">>
           S == {"rollback_load", "open"}
<1>1. UNCHANGED <<keyring, journal>>
  BY DEF disk
<1>2. deks' = deks /\ salts' = salts /\ keks' = keks /\ late' = late
  BY DEF made, bounds
<1>3. PlanOf(p, S)
  BY UnlockPlans
<1>4. p \in Seq(StepNames \cup StoreNames)
  BY <1>3 DEF PlanOf, PlanStep
<1>5. journal \in LifecycleJournal /\ journal.op = "Rotate"
  BY DEF VaultInv, VaultTypeOK, DiskTypeOK, JournalOp
<1>6. /\ journal.old_version \in Version /\ journal.new_version \in Version
      /\ journal.backup \in Sealed
  BY <1>5 DEF LifecycleJournal
<1>7. custody # "recovery" /\ custody \in HandleCustodies
  BY DEF Custodies, HandleCustodies
<1>8. p \in {<<"rollback_load", "reload">>, <<"rollback_load", "open">>}
  OBVIOUS
<1> HIDE DEF p
<1>9. /\ job' \in Operation /\ job'.op = "unlock" /\ job'.plan = p
      /\ job'.custody = custody /\ job'.old = journal.old_version
      /\ job'.new = journal.new_version /\ job'.backup = journal.backup
  BY <1>4, <1>6, <1>7 DEF Job, Operation, p
<1>10. S \subseteq StepsOf("unlock")
  BY DEF StepsOf, UnlockSteps
<1>11. \A x \in RollbackSteps : x \notin S
  BY StepNotStore DEF RollbackSteps, StepNames
<1>12. JournalOp' = JournalOp /\ ~BootstrapPending(FALSE)' /\ keyring' # None
  BY <1>1 DEF JournalOp, BootstrapPending
<1>13. ASSUME \A x : ToDo(x)' <=> x \in S
       PROVE  JobInv'
  <2>1. /\ ToDo("rollback_load")' /\ ~ToDo("commit")' /\ ~ToDo("replace")'
        /\ \A x \in RollbackSteps : ~ToDo(x)'
    BY <1>11, <1>13
  <2>2. UnlockInv'
    BY <1>7, <1>9, <1>12, <2>1 DEF UnlockInv
  <2>3. RollbackInv'
    BY <1>1, <1>8, <1>9, <1>12, <2>1 DEF RollbackInv
  <2> QED
    BY <1>9, <2>2, <2>3 DEF JobInv, BootstrapInv, ChangeInv, RotateInv
<1> HIDE DEF S
<1> QED
  BY <1>2, <1>3, <1>9, <1>10, <1>13, Counters, Started

\* Which journals an unlock may find.
LEMMA Pending ==
  /\ JournalOp = "none" => ~BootstrapPending(FALSE)
  /\ BootstrapPending(TRUE) =>
       ~BootstrapPending(FALSE) /\ JournalOp = "Bootstrap"
  /\ JournalOp \in {"ChangePassphrase", "MoveToKeychain"} =>
       ~BootstrapPending(FALSE)
BY DEF JournalOp, BootstrapPending

\* finish_pending_bootstrap, if there is one.
LEMMA TailPlans ==
  LET tail == IF BootstrapPending(TRUE) THEN FinishBootstrap ELSE <<>>
      T == IF BootstrapPending(TRUE) THEN {"audit", "unjournal"} ELSE {}
  IN  /\ PlanOf(tail, T)
      /\ PlanOf(UnlockTail, {"open"} \cup T)
      /\ PlanOf(<<"keychain", "replace">> \o tail, {"keychain", "replace"} \cup T)
<1> DEFINE tail == IF BootstrapPending(TRUE) THEN FinishBootstrap ELSE <<>>
           T == IF BootstrapPending(TRUE) THEN {"audit", "unjournal"} ELSE {}
           S == {"keychain", "replace"}
           two == <<"keychain", "replace">>
           one == <<"open">>
<1>1. PlanOf(tail, T)
  BY ShortPlans, FinishBootstrapPlan
<1>2. UnlockTail = one \o tail
  BY DEF UnlockTail
<1>3. PlanOf(one, {"open"})
  BY ShortPlans DEF PlanStep, StepNames
<1>4. PlanOf(two, S)
  BY UnlockPlans
<1>5. /\ \A x \in {"open"}, y \in T : InOrder(x, y)
      /\ \A x \in S, y \in T : InOrder(x, y)
  BY Ranks DEF InOrder
<1> HIDE DEF tail, T, S, two, one
<1>6. PlanOf(UnlockTail, {"open"} \cup T)
  BY <1>1, <1>2, <1>3, <1>5, PlanConcat
<1>7. PlanOf(two \o tail, S \cup T)
  BY <1>1, <1>4, <1>5, PlanConcat
<1> QED
  BY <1>1, <1>6, <1>7 DEF tail, T, S, two

\* The steps of an unlock that is no rollback.
LEMMA PlainSteps ==
  {"open", "audit", "unjournal", "discard", "commit", "unsalt", "keychain",
   "replace"} \subseteq UnlockSteps \ (RollbackSteps \cup {"rollback_load"})
BY StepNotStore DEF UnlockSteps, RollbackSteps, StepNames

\* An unlock with a plan that is no rollback and needs no DEK.
LEMMA PlainUnlock ==
  ASSUME VaultInv, session = None, UNCHANGED <<disk, session, bounds, made>>,
         keyring # None, ~BootstrapPending(FALSE), JournalOp # "Rotate",
         NEW p, NEW S, PlanOf(p, S), NEW custody \in Custodies,
         NEW kek \in Kek \cup {None}, job' = Job("unlock", p, custody, kek),
         S \subseteq {"open", "audit", "unjournal", "discard", "commit",
                      "unsalt"},
         "commit" \in S => JournalOp \in {"ChangePassphrase", "MoveToKeychain"}
  PROVE  VaultInv'
<1>1. custody \in HandleCustodies /\ custody # "recovery"
  BY DEF Custodies, HandleCustodies
<1>2. /\ job' \in Operation /\ job'.op = "unlock" /\ job'.plan = p
      /\ job'.custody = custody
  BY <1>1, StartedJob
<1>3. /\ S \subseteq UnlockSteps \ (RollbackSteps \cup {"rollback_load"})
      /\ "replace" \notin S
  BY PlainSteps
<1>4. keks' \in Nat /\ session' = session /\ UNCHANGED <<deks, salts>>
  BY Counters DEF made
<1> QED
  BY <1>1, <1>2, <1>3, <1>4, UnlockStarted

LEMMA UnlockPassphraseKeeps ==
  ASSUME VaultInv, NEW q \in Passphrase, UnlockPassphrase(q)
  PROVE  VaultInv'
<1> DEFINE k == PassKek(q, salt)
           T == IF BootstrapPending(TRUE) THEN {"audit", "unjournal"} ELSE {}
<1>1. /\ session = None /\ UNCHANGED <<disk, session, bounds, made>>
      /\ Opens(keyring, k) \/ JournalOp = "ChangePassphrase"
  BY DEF UnlockPassphrase, Idle, Start
<1>2. k \in Kek \cup {None} /\ "passphrase" \in Custodies
  BY Counters DEF PassKek, Kek, Custodies
<1>3. DiskTypeOK /\ DiskInv
  BY DEF VaultInv, VaultTypeOK
<1>4. keyring # None
  BY <1>1, <1>3 DEF Opens, DiskInv, Whole
<1>5. /\ \A x \in {"discard", "commit"} :
           PlanOf(<<x, "unjournal", "open">>, {x, "unjournal", "open"})
      /\ PlanOf(UnlockTail, {"open"} \cup T)
  BY UnlockPlans, TailPlans
<1>6. CASE /\ JournalOp = "none" \/ BootstrapPending(TRUE)
           /\ job' = Job("unlock", UnlockTail, "passphrase", k)
  <2> DEFINE S == {"open"} \cup T
  <2>1. /\ S \subseteq {"open", "audit", "unjournal", "discard", "commit",
                        "unsalt"}
        /\ "commit" \notin S
    OBVIOUS
  <2>2. ~BootstrapPending(FALSE) /\ JournalOp # "Rotate"
    BY <1>6, Pending
  <2> HIDE DEF S, T, k
  <2> QED
    BY <1>1, <1>2, <1>4, <1>5, <1>6, <2>1, <2>2, PlainUnlock DEF S
<1>7. ASSUME NEW x \in {"discard", "commit"},
             JournalOp \in {"ChangePassphrase", "MoveToKeychain"},
             job' = Job("unlock", <<x, "unjournal", "open">>, "passphrase", k)
      PROVE  VaultInv'
  <2> DEFINE S == {x, "unjournal", "open"}
             p == <<x, "unjournal", "open">>
  <2>1. /\ S \subseteq {"open", "audit", "unjournal", "discard", "commit",
                        "unsalt"}
        /\ PlanOf(p, S)
    BY <1>5
  <2>2. ~BootstrapPending(FALSE) /\ JournalOp # "Rotate"
    BY <1>7, Pending
  <2>3. job' = Job("unlock", p, "passphrase", k)
    BY <1>7
  <2> HIDE DEF S, p, k
  <2> QED
    BY <1>1, <1>2, <1>4, <1>7, <2>1, <2>2, <2>3, PlainUnlock
<1>8. CASE /\ JournalOp = "Rotate"
           /\ job' = [Job("unlock", <<"rollback_load", "open">>, "passphrase", k)
                      EXCEPT !.old = journal.old_version,
                             !.new = journal.new_version,
                             !.backup = journal.backup]
  <2> HIDE DEF k
  <2> QED
    BY <1>1, <1>2, <1>4, <1>8, RollbackStarted
<1> HIDE DEF T
<1> QED
  BY <1>6, <1>7, <1>8 DEF UnlockPassphrase, Start

LEMMA UnlockFinishMoveKeeps ==
  ASSUME VaultInv, UnlockFinishMove
  PROVE  VaultInv'
<1>1. PICK x \in {"discard", "commit"} :
        job' = Job("unlock", <<x, "unsalt", "unjournal", "open">>,
                   "os_keychain", keychain)
  BY DEF UnlockFinishMove, Start
<1> DEFINE p == <<x, "unsalt", "unjournal", "open">>
           S == {x, "unsalt", "unjournal", "open"}
<1>2. /\ session = None /\ UNCHANGED <<disk, session, bounds, made>>
      /\ JournalOp = "MoveToKeychain"
  BY DEF UnlockFinishMove, Idle, Start
<1>3. /\ keychain \in Kek \cup {None} /\ "os_keychain" \in Custodies
      /\ JournalOp \in {"ChangePassphrase", "MoveToKeychain"}
  BY <1>2, Counters DEF Custodies
<1>4. keyring # None
  BY <1>2 DEF VaultInv, DiskInv, Whole
<1>5. ~BootstrapPending(FALSE) /\ JournalOp # "Rotate"
  BY <1>2, <1>3, Pending
<1>6. PlanOf(p, S) /\ S \subseteq {"open", "audit", "unjournal", "discard",
                                   "commit", "unsalt"}
  BY UnlockPlans
<1>7. job' = Job("unlock", p, "os_keychain", keychain)
  BY <1>1
<1> HIDE DEF p, S
<1> QED
  BY <1>2, <1>3, <1>4, <1>5, <1>6, <1>7, PlainUnlock

LEMMA UnlockKeychainKeeps ==
  ASSUME VaultInv, UnlockKeychain
  PROVE  VaultInv'
<1> DEFINE T == IF BootstrapPending(TRUE) THEN {"audit", "unjournal"} ELSE {}
           S == {"open"} \cup T
<1>1. /\ session = None /\ UNCHANGED <<disk, session, bounds, made>>
      /\ keyring # None
  BY DEF UnlockKeychain, Idle, Start, Opens
<1>2. keychain \in Kek \cup {None} /\ "os_keychain" \in Custodies
  BY Counters DEF Custodies
<1>3. CASE /\ JournalOp = "none" \/ BootstrapPending(TRUE)
           /\ job' = Job("unlock", UnlockTail, "os_keychain", keychain)
  <2>1. /\ S \subseteq {"open", "audit", "unjournal", "discard", "commit",
                        "unsalt"}
        /\ "commit" \notin S
    OBVIOUS
  <2>2. ~BootstrapPending(FALSE) /\ JournalOp # "Rotate"
    BY <1>3, Pending
  <2>3. PlanOf(UnlockTail, S)
    BY TailPlans
  <2> HIDE DEF S
  <2> QED
    BY <1>1, <1>2, <1>3, <2>1, <2>2, <2>3, PlainUnlock
<1>4. CASE /\ JournalOp = "Rotate"
           /\ job' = [Job("unlock", <<"rollback_load", "open">>, "os_keychain",
                          keychain)
                      EXCEPT !.old = journal.old_version,
                             !.new = journal.new_version,
                             !.backup = journal.backup]
  BY <1>1, <1>2, <1>4, RollbackStarted
<1> QED
  BY <1>3, <1>4 DEF UnlockKeychain, Start

LEMMA UnlockRecoveryKeeps ==
  ASSUME VaultInv, NEW d, UnlockRecovery(d)
  PROVE  VaultInv'
<1> DEFINE tail == IF BootstrapPending(TRUE) THEN FinishBootstrap ELSE <<>>
           T == IF BootstrapPending(TRUE) THEN {"audit", "unjournal"} ELSE {}
           two == <<"keychain", "replace">> \o tail
           S == {"keychain", "replace"} \cup T
           k == RandomKek(keks + 1)
<1>1. /\ session = None
      /\ JournalOp = "none" \/ BootstrapPending(TRUE)
      /\ recovery # None /\ recovery.dek = d /\ keyring # None
      /\ UNCHANGED disk /\ session' = session
      /\ UNCHANGED <<deks, salts, bounds>>
      /\ \/ /\ keks' = keks + 1
            /\ job' = [Job("unlock", two, "os_keychain", k) EXCEPT !.dek = d]
         \/ /\ keks' = keks
            /\ job' = [Job("unlock", tail, "recovery", None) EXCEPT !.dek = d]
  BY DEF UnlockRecovery, Idle, Start
<1>2. /\ ~BootstrapPending(FALSE) /\ JournalOp \in {"none", "Bootstrap"}
      /\ JournalOp # "Rotate"
  BY <1>1, Pending
<1>3. DiskTypeOK /\ DiskInv
  BY DEF VaultInv, VaultTypeOK
<1>4. Whole
  BY <1>1, <1>2, <1>3, WholeUnlessRotating
<1>5. d = ActiveDek(keyring) /\ d \in DekId
  <2>1. d = ActiveDek(keyring) /\ keyring.active \in DOMAIN keyring.entries
    BY <1>1, <1>4 DEF Whole
  <2>2. keyring \in Keyring
    BY <1>1, <1>3 DEF DiskTypeOK
  <2> QED
    BY <2>1, <2>2, KeyringDek DEF ActiveDek
<1>6. PlanOf(tail, T) /\ PlanOf(two, S)
  BY TailPlans
<1>7. /\ tail \in Seq(StepNames \cup StoreNames)
      /\ two \in Seq(StepNames \cup StoreNames)
  BY <1>6 DEF PlanOf, PlanStep
<1>8. /\ S \subseteq UnlockSteps \ (RollbackSteps \cup {"rollback_load"})
      /\ T \subseteq UnlockSteps \ (RollbackSteps \cup {"rollback_load"})
      /\ "commit" \notin S /\ "commit" \notin T
  BY PlainSteps
<1>9. k \in Kek /\ keks + 1 \in Nat /\ keks \in Nat
  BY Counters DEF RandomKek, Kek
<1> HIDE DEF tail, T, two, S, k
<1>10. CASE /\ keks' = keks + 1
            /\ job' = [Job("unlock", two, "os_keychain", k) EXCEPT !.dek = d]
  <2>1. /\ job' \in Operation /\ job'.op = "unlock" /\ job'.plan = two
        /\ job'.dek = d
    BY <1>5, <1>7, <1>9, <1>10 DEF Job, Operation, HandleCustodies, Custodies
  <2> QED
    BY <1>1, <1>2, <1>5, <1>6, <1>8, <1>9, <1>10, <2>1, UnlockStarted
<1>11. CASE /\ keks' = keks
            /\ job' = [Job("unlock", tail, "recovery", None) EXCEPT !.dek = d]
  <2>1. /\ job' \in Operation /\ job'.op = "unlock" /\ job'.plan = tail
        /\ job'.dek = d
    BY <1>5, <1>7, <1>11 DEF Job, Operation, HandleCustodies, Custodies
  <2> QED
    BY <1>1, <1>2, <1>5, <1>6, <1>8, <1>9, <1>11, <2>1, UnlockStarted
<1> QED
  BY <1>1, <1>10, <1>11

-----------------------------------------------------------------------------
(* Use of a handle that is in step with the disk.                          *)

LEMMA HandleFacts ==
  ASSUME VaultInv, Unlocked, ~Stale
  PROVE  /\ session # None /\ session \in Handle /\ Whole
         /\ JournalOp # "Rotate" /\ ~BootstrapPending(FALSE)
         /\ keyring # None /\ keyring \in Keyring
         /\ session.active = keyring.active /\ session.active \in Version
         /\ session.keys[session.active] = ActiveDek(keyring)
         /\ ActiveDek(keyring) \in DekId
<1>1. /\ VaultTypeOK /\ DiskTypeOK /\ JobTypeOK /\ DiskInv /\ SessionInv
  BY DEF VaultInv, VaultTypeOK
<1>2. /\ session # None /\ JournalOp # "Rotate"
      /\ session.active = keyring.active
  BY DEF Unlocked, Stale
<1>3. session \in Handle /\ keyring # None /\ ~BootstrapPending(FALSE)
  BY <1>1, <1>2 DEF JobTypeOK, SessionInv
<1>4. Whole /\ keyring \in Keyring
  BY <1>1, <1>2, <1>3, WholeUnlessRotating DEF DiskTypeOK
<1>5. keyring.active \in DOMAIN keyring.entries
  BY <1>4 DEF Whole
<1>6. /\ session.keys[session.active] = ActiveDek(keyring)
      /\ ActiveDek(keyring) \in DekId
  BY <1>1, <1>2, <1>4, <1>5, KeyringDek DEF SessionInv, ActiveDek
<1>7. session.active \in Version
  BY <1>3 DEF Handle
<1> QED
  BY <1>2, <1>3, <1>4, <1>6, <1>7

LEMMA ChangeStarted ==
  ASSUME VaultInv, Unlocked, ~Stale, UNCHANGED disk, session' = session,
         deks' = deks, UNCHANGED bounds, salts' \in Nat, keks' \in Nat,
         NEW op \in {"change", "move"}, NEW custody \in Custodies,
         NEW kek \in Kek,
         job' = Job(op, IF op = "change" THEN ChangePlan ELSE MovePlan, custody,
                    kek)
  PROVE  VaultInv'
<1> DEFINE p == IF op = "change" THEN ChangePlan ELSE MovePlan
           S == IF op = "change" THEN ChangeSteps ELSE MoveSteps
<1>1. PlanOf(p, S) /\ "stage" \in S
  BY ChangePlanPlan, MovePlanPlan DEF ChangeSteps, MoveSteps
<1>2. S \subseteq StepsOf(op)
  BY DEF StepsOf
<1>3. custody \in HandleCustodies
  BY DEF HandleCustodies
<1> HIDE DEF p, S
<1>4. /\ job' \in Operation /\ job'.op = op /\ job'.plan = p /\ job'.kek = kek
  BY <1>1, <1>3, StartedJob DEF p
<1>5. UNCHANGED <<keyring, journal, material, recovery, files, deks, late>>
  BY DEF disk, bounds
<1>6. /\ session # None /\ Whole /\ JournalOp # "Rotate"
  BY HandleFacts
<1>7. Whole' /\ JournalOp' = JournalOp
  BY <1>5, <1>6 DEF Whole, FilesOn, ActiveDek, Dek, JournalOp
<1>8. ASSUME \A x : ToDo(x)' <=> x \in S
      PROVE  JobInv'
  BY <1>1, <1>4, <1>6, <1>7, <1>8
     DEF JobInv, BootstrapInv, UnlockInv, ChangeInv, RotateInv, RollbackInv
<1>9. job'.op \in {"bootstrap", "unlock"} <=> session = None
  BY <1>4, <1>6
<1> QED
  BY <1>1, <1>2, <1>4, <1>5, <1>8, <1>9, Counters, Started

LEMMA ChangeStartKeeps ==
  ASSUME VaultInv, ~Stale, NEW p \in Passphrase, NEW q \in Passphrase,
         ChangeStart(p, q)
  PROVE  VaultInv'
<1>1. /\ Unlocked /\ UNCHANGED <<disk, bounds>> /\ session' = session
      /\ salts' = salts + 1 /\ deks' = deks /\ keks' = keks
      /\ job' = Job("change", ChangePlan, "passphrase", PassKek(q, salts + 1))
  BY DEF ChangeStart, Start
<1>2. salts + 1 \in Nat /\ keks \in Nat
  BY Counters
<1>3. PassKek(q, salts + 1) \in Kek /\ "passphrase" \in Custodies
  BY <1>2 DEF PassKek, Kek, Custodies
<1> QED
  BY <1>1, <1>2, <1>3, ChangeStarted

LEMMA MoveStartKeeps ==
  ASSUME VaultInv, ~Stale, NEW p \in Passphrase, MoveStart(p)
  PROVE  VaultInv'
<1>1. /\ Unlocked /\ UNCHANGED <<disk, bounds>> /\ session' = session
      /\ keks' = keks + 1 /\ deks' = deks /\ salts' = salts
      /\ job' = Job("move", MovePlan, "os_keychain", RandomKek(keks + 1))
  BY DEF MoveStart, Start
<1>2. keks + 1 \in Nat /\ salts \in Nat
  BY Counters
<1>3. RandomKek(keks + 1) \in Kek /\ "os_keychain" \in Custodies
  BY <1>2 DEF RandomKek, Kek, Custodies
<1> QED
  BY <1>1, <1>2, <1>3, ChangeStarted

LEMMA RotateStartKeeps ==
  ASSUME VaultInv, ~Stale, NEW p \in Passphrase, RotateStart(p)
  PROVE  VaultInv'
<1> DEFINE k == IF session.custody = "passphrase" THEN PassKek(p, salt)
                ELSE keychain
           w == session.keys[session.active]
<1>1. /\ Unlocked /\ UNCHANGED disk /\ session' = session
      /\ journal = None /\ deks < MaxDek
      /\ deks' = deks + 1 /\ UNCHANGED <<salts, keks, late>>
      /\ \/ session.custody = "passphrase" /\ salt # None
         \/ session.custody = "os_keychain" /\ keychain # None
      /\ job' = [Job("rotate", RotatePlan, session.custody, k)
                 EXCEPT !.dek = deks + 1, !.wrap = w,
                        !.old = keyring.active, !.new = keyring.active + 1,
                        !.backup = recovery]
  BY DEF RotateStart
<1>2. UNCHANGED <<keyring, journal, material, recovery, files>>
  BY <1>1 DEF disk
<1>3. /\ session # None /\ session \in Handle /\ Whole /\ keyring \in Keyring
      /\ session.active = keyring.active /\ session.active \in Version
      /\ w = ActiveDek(keyring) /\ ActiveDek(keyring) \in DekId
  BY <1>1, HandleFacts
<1>4. deks \in 0..MaxDek /\ MaxDek \in Nat
  BY Counters, BoundsAssumption
<1>5. k \in Kek
  BY <1>1, Counters DEF PassKek, Kek
<1>6. PlanOf(RotatePlan, RotateSteps)
  BY RotatePlanPlan
<1>7. RotatePlan \in Seq(StepNames \cup StoreNames)
  BY <1>6 DEF PlanOf, PlanStep
<1>8. /\ keyring.active \in Version /\ keyring.active <= deks
      /\ recovery = [version |-> keyring.active, dek |-> ActiveDek(keyring)]
  BY <1>3 DEF Whole
<1>9. /\ deks + 1 \in DekId /\ keyring.active + 1 \in Version
      /\ deks' \in 0..MaxDek /\ deks <= deks'
      /\ keyring.active + 1 <= deks'
  BY <1>1, <1>4, <1>8 DEF DekId, Version
<1>10. recovery \in Sealed
  BY <1>3, <1>8 DEF Sealed
<1>11. session.custody \in HandleCustodies
  BY <1>3 DEF Handle
<1> HIDE DEF k, w
<1>12. /\ job' \in Operation /\ job'.op = "rotate" /\ job'.plan = RotatePlan
       /\ job'.kek = k /\ job'.dek = deks + 1 /\ job'.wrap = w
       /\ job'.old = keyring.active /\ job'.new = keyring.active + 1
       /\ job'.backup = recovery
  BY <1>1, <1>3, <1>5, <1>7, <1>8, <1>9, <1>10, <1>11 DEF Job, Operation
<1>13. RotateSteps \subseteq StepsOf("rotate")
  BY DEF StepsOf
<1>14. ASSUME \A x : ToDo(x)' <=> x \in RotateSteps
       PROVE  JobInv'
  <2>1. Whole' /\ ActiveDek(keyring)' = ActiveDek(keyring)
    <3>1. keyring.active <= deks'
      BY <1>4, <1>8, <1>1 DEF Version
    <3> QED
      BY <1>2, <1>3, <3>1 DEF Whole, FilesOn, ActiveDek, Dek
  <2>2. ToDo("rotate_journal")' /\ ToDo("unjournal")'
    BY <1>14 DEF RotateSteps
  <2>3. RotateInv'
    BY <1>1, <1>2, <1>3, <1>9, <1>12, <1>14, <2>1, <2>2 DEF RotateInv
  <2> QED
    BY <1>12, <2>3 DEF JobInv, BootstrapInv, UnlockInv, ChangeInv, RollbackInv
<1>15. job'.op \in {"bootstrap", "unlock"} <=> session = None
  BY <1>3, <1>12
<1> QED
  BY <1>1, <1>5, <1>6, <1>9, <1>12, <1>13, <1>14, <1>15, Counters, Started

\* A handle that is in step with the disk adds data under the active DEK.
LEMMA WriteKeeps ==
  ASSUME VaultInv, Unlocked, ~Stale,
         \/ \E f \in File : WriteFile(f)
         \/ \E s \in StoreNames : SealMaterial(s)
  PROVE  VaultInv'
<1> DEFINE d == session.keys[session.active]
<1>1. /\ UNCHANGED <<salt, keychain, keyring, staged, journal, recovery, session>>
      /\ job = None /\ job' = None /\ UNCHANGED made /\ UNCHANGED bounds
      /\ \/ \E f \in File :
              /\ files' = [files EXCEPT ![f] = [version |-> session.active,
                                                dek |-> d]]
              /\ material' = material
         \/ \E s \in StoreNames :
              /\ material' = [material EXCEPT ![s] = @ \cup {d}]
              /\ files' = files
  BY DEF WriteFile, SealMaterial, Unlocked
<1>2. /\ session # None /\ session \in Handle /\ Whole
      /\ JournalOp # "Rotate" /\ ~BootstrapPending(FALSE)
      /\ session.active = keyring.active /\ session.active \in Version
      /\ d = ActiveDek(keyring) /\ ActiveDek(keyring) \in DekId
  BY HandleFacts
<1>3. DiskTypeOK /\ DiskInv /\ SessionInv
  BY DEF VaultInv, VaultTypeOK
<1> HIDE DEF d
<1>4. DiskTypeOK'
  <2>1. files' \in [File -> Sealed \cup {None}]
        /\ material' \in [StoreNames -> SUBSET DekId]
    BY <1>1, <1>2, <1>3 DEF DiskTypeOK, Sealed
  <2> QED
    BY <1>1, <1>3, <2>1 DEF DiskTypeOK, made, bounds
<1>5. Whole'
  <2>1. /\ ActiveDek(keyring)' = ActiveDek(keyring) /\ keyring' = keyring
        /\ deks' = deks /\ recovery' = recovery
    BY <1>1 DEF ActiveDek, Dek, made
  <2>2. /\ \A f \in File : files'[f] \in
             {None, [version |-> keyring.active, dek |-> ActiveDek(keyring)]}
        /\ \A s \in StoreNames : material'[s] \subseteq {ActiveDek(keyring)}
    BY <1>1, <1>2, <1>3 DEF Whole, FilesOn, DiskTypeOK
  <2> QED
    BY <1>2, <2>1, <2>2 DEF Whole, FilesOn
<1>6. /\ JournalOp' = JournalOp /\ StagedSame' = StagedSame
      /\ \A b \in BOOLEAN : BootstrapPending(b)' = BootstrapPending(b)
  BY <1>1 DEF JournalOp, BootstrapPending, StagedSame, SameDeks, Keys, Dek
<1>7. DiskInv'
  BY <1>1, <1>2, <1>3, <1>5, <1>6 DEF DiskInv
<1>8. SessionInv'
  BY <1>1, <1>3, <1>6 DEF SessionInv, Dek
<1> QED
  BY <1>1, <1>2, <1>4, <1>7, <1>8, Dropped

-----------------------------------------------------------------------------
(* The handle is dropped, or the environment strikes.                      *)

LEMMA LockOrCrashKeeps ==
  ASSUME VaultInv, Lock \/ Crash
  PROVE  VaultInv'
<1>1. /\ UNCHANGED <<disk, made>> /\ session' = None /\ job' = None
      /\ late' = late
  BY DEF Lock, Crash, Unlocked, bounds
<1>2. DiskTypeOK /\ DiskInv /\ late \in Nat
  BY DEF VaultInv, VaultTypeOK, DiskTypeOK
<1>3. DiskTypeOK' /\ DiskInv'
  BY <1>1, <1>2, SameDisk
<1> QED
  BY <1>1, <1>3, Dropped DEF SessionInv

LEMMA FaultKeeps ==
  ASSUME VaultInv, Fault
  PROVE  VaultInv'
<1>1. /\ Step(Head(job.plan)) /\ Failed /\ UNCHANGED <<disk, made>>
      /\ UNCHANGED <<keyring, staged, journal, material, recovery, files, deks,
                     session, late>>
  BY DEF Fault, Step, disk, made
<1>2. DiskTypeOK /\ DiskInv /\ late \in Nat
  BY DEF VaultInv, VaultTypeOK, DiskTypeOK
<1>3. DiskTypeOK' /\ DiskInv'
  BY <1>1, <1>2, SameDisk
<1>4. SessionInv' /\ session' = session /\ journal' = journal
  BY <1>1, QuietDisk
<1> QED
  BY <1>1, <1>3, <1>4, FailKeeps

LEMMA LoseKeychainKeeps ==
  ASSUME VaultInv, LoseKeychain
  PROVE  VaultInv'
<1>1. /\ UNCHANGED <<salt, keyring, staged, journal, material, recovery, files,
                     session, deks, salts, keks, late>>
      /\ keychain' = None /\ job' = None
  BY DEF LoseKeychain, Idle, made
<1>2. DiskTypeOK /\ session \in Handle \cup {None}
  BY DEF VaultInv, VaultTypeOK, JobTypeOK
<1>3. DiskTypeOK'
  BY <1>1, <1>2 DEF DiskTypeOK
<1>4. DiskInv' /\ SessionInv'
  BY <1>1, QuietDisk
<1> QED
  BY <1>1, <1>2, <1>3, <1>4, Dropped

LEMMA StutterKeeps ==
  ASSUME VaultInv, UNCHANGED vars
  PROVE  VaultInv'
<1>1. UNCHANGED <<salt, keychain, keyring, staged, journal, material, recovery,
                  files, session, job, deks, salts, keks, late>>
  BY DEF vars, disk, made, bounds
<1>2. VaultTypeOK /\ DiskInv /\ SessionInv /\ PlanInv /\ JobInv
  BY DEF VaultInv
<1>3. DiskInv' /\ SessionInv'
  BY <1>1, QuietDisk
<1>4. VaultTypeOK'
  BY <1>1, <1>2 DEF VaultTypeOK, DiskTypeOK, JobTypeOK
<1>5. PlanInv' /\ \A x : ToDo(x)' <=> ToDo(x)
  BY <1>1, <1>2 DEF PlanInv, ToDo, In, Ordered, StepsOf
<1>6. /\ Whole' = Whole /\ JournalOp' = JournalOp /\ StagedSame' = StagedSame
      /\ \A b \in BOOLEAN : BootstrapPending(b)' = BootstrapPending(b)
      /\ ActiveDek(keyring)' = ActiveDek(keyring)
      /\ create(job.kek, job.dek, 1)' = create(job.kek, job.dek, 1)
      /\ FilesOn(job.new, job.dek)' = FilesOn(job.new, job.dek)
      /\ FilesOn(job.old, Dek(keyring, job.old))' =
           FilesOn(job.old, Dek(keyring, job.old))
      /\ \A v : Dek(keyring, v)' = Dek(keyring, v)
  BY <1>1 DEF Whole, JournalOp, BootstrapPending, FilesOn, ActiveDek, Dek,
       StagedSame, SameDeks, Keys, create
<1>7. (BootstrapInv => BootstrapInv') /\ (UnlockInv => UnlockInv')
  BY <1>1, <1>5, <1>6 DEF BootstrapInv, UnlockInv
<1>8. (ChangeInv => ChangeInv') /\ (RotateInv => RotateInv')
  BY <1>1, <1>5, <1>6 DEF ChangeInv, RotateInv
<1>9. RollbackInv => RollbackInv'
  BY <1>1, <1>5, <1>6 DEF RollbackInv
<1>10. JobInv'
  BY <1>1, <1>2, <1>7, <1>8, <1>9 DEF JobInv
<1> QED
  BY <1>3, <1>4, <1>5, <1>10 DEF VaultInv

-----------------------------------------------------------------------------
(* The invariant.                                                          *)

LEMMA InitInv ==
  ASSUME Init
  PROVE  VaultInv
<1>1. DiskTypeOK
  BY BoundsAssumption DEF Init, DiskTypeOK
<1>2. DiskInv
  BY StoreNamesFacts DEF Init, DiskInv, Empty, BootstrapPending, JournalOp
<1> QED
  BY <1>1, <1>2 DEF Init, VaultInv, VaultTypeOK, JobTypeOK, SessionInv, PlanInv,
       JobInv

LEMMA RunStepKeeps ==
  ASSUME VaultInv, RunStep, Step("unjournal") /\ job.op = "rotate" => late' = late
  PROVE  VaultInv'
<1>1. CASE BootstrapJournal \/ CreateKeyring \/ CreateIdentity \/ PhraseJournal
             \/ RemoveBootstrapFile
  BY <1>1, BootstrapJournalKeeps, CreateKeyringKeeps, CreateIdentityKeeps,
     PhraseJournalKeeps, RemoveBootstrapFileKeeps
<1>2. CASE CreateManifest \/ EnsureAudit \/ OpenVault \/ WriteSalt
             \/ StoreKeychain \/ LoadStaged \/ DiscardStaged \/ RemoveSalt
  BY <1>2, QuietActions
<1>3. CASE IssueRecovery \/ ReplaceKeyring \/ StageRewrap \/ CommitStaged
             \/ AddActiveDek \/ RotateOpen \/ FilesRewrapped
  BY <1>3, IssueRecoveryKeeps, ReplaceKeyringKeeps, StageRewrapKeeps,
     CommitStagedKeeps, AddActiveDekKeeps, RotateOpenKeeps, FilesRewrappedKeeps
<1>4. CASE WriteJournal
  <2>1. Step("change_journal") \/ Step("move_journal") \/ Step("rotate_journal")
    BY <1>4 DEF WriteJournal
  <2> QED
    BY <1>4, <2>1, WriteChangeJournal, WriteRotateJournal
<1>5. CASE RemoveJournal
  <2>1. Step("unjournal") \/ Step("rm_journal")
    BY <1>5 DEF RemoveJournal
  <2> QED
    BY <1>5, <2>1, RemoveBootstrapJournal, RemoveJournalKeeps
<1>6. CASE \E f \in File : RewrapFile(f)
  BY <1>6, RewrapFileKeeps
<1>7. CASE \E s \in StoreNames : RewrapStore(s)
  BY <1>7, RewrapStoreKeeps
<1>8. CASE RollbackLoad \/ SetActiveVersion \/ RollbackOpen \/ RestoreRecovery
             \/ RemoveVersion \/ Reload \/ Finish
  BY <1>8, RollbackLoadKeeps, SetActiveVersionKeeps, RollbackOpenKeeps,
     RestoreRecoveryKeeps, RemoveVersionKeeps, ReloadKeeps, FinishKeeps
<1> QED
  BY <1>1, <1>2, <1>3, <1>4, <1>5, <1>6, <1>7, <1>8 DEF RunStep

LEMMA NextKeeps ==
  ASSUME VaultInv, [Next]_vars, [Unlocked /\ Stale => Lock]_vars,
         [Step("unjournal") /\ job.op = "rotate" => late' = late]_vars
  PROVE  VaultInv'
<1>1. CASE UNCHANGED vars
  BY <1>1, StutterKeeps
<1>2. CASE Next /\ ~UNCHANGED vars
  <2>1. /\ Unlocked /\ Stale => Lock
        /\ Step("unjournal") /\ job.op = "rotate" => late' = late
    BY <1>2
  <2>2. CASE Bootstrap
    BY <2>2, BootstrapStartKeeps, BootstrapResumeKeeps DEF Bootstrap
  <2>3. CASE Unlock
    BY <2>3, UnlockPassphraseKeeps, UnlockFinishMoveKeeps, UnlockKeychainKeeps,
       UnlockRecoveryKeeps DEF Unlock
  <2>4. ASSUME Unlocked, session' = session
        PROVE  ~Stale
    BY <2>1, <2>4 DEF Unlocked, Lock
  <2>5. CASE \E p, q \in Passphrase : ChangeStart(p, q)
    <3>1. PICK p \in Passphrase, q \in Passphrase : ChangeStart(p, q)
      BY <2>5
    <3>2. Unlocked /\ session' = session
      BY <3>1 DEF ChangeStart, Start
    <3> QED
      BY <2>4, <3>1, <3>2, ChangeStartKeeps
  <2>6. CASE \E p \in Passphrase : MoveStart(p)
    <3>1. PICK p \in Passphrase : MoveStart(p)
      BY <2>6
    <3>2. Unlocked /\ session' = session
      BY <3>1 DEF MoveStart, Start
    <3> QED
      BY <2>4, <3>1, <3>2, MoveStartKeeps
  <2>7. CASE \E p \in Passphrase : RotateStart(p)
    <3>1. PICK p \in Passphrase : RotateStart(p)
      BY <2>7
    <3>2. Unlocked /\ session' = session
      BY <3>1 DEF RotateStart
    <3> QED
      BY <2>4, <3>1, <3>2, RotateStartKeeps
  <2>8. CASE RunStep
    BY <2>1, <2>8, RunStepKeeps
  <2>9. CASE \/ \E f \in File : WriteFile(f)
             \/ \E s \in StoreNames : SealMaterial(s)
    <3>1. Unlocked /\ session' = session
      BY <2>9 DEF WriteFile, SealMaterial
    <3> QED
      BY <2>4, <2>9, <3>1, WriteKeeps
  <2>10. CASE Lock \/ Crash \/ Fault \/ LoseKeychain
    BY <2>10, LockOrCrashKeeps, FaultKeeps, LoseKeychainKeeps
  <2> QED
    BY <1>2, <2>2, <2>3, <2>5, <2>6, <2>7, <2>8, <2>9, <2>10 DEF Next
<1> QED
  BY <1>1, <1>2

\* Only an error behind an effect touches the two histories of late errors.
LEMMA LateOrQuiet ==
  ASSUME [Next]_vars
  PROVE  LateError \/ UNCHANGED <<late, commitFailed>>
<1> USE DEF bounds, Start, Check
<1>1. CASE UNCHANGED vars
  BY <1>1 DEF vars
<1>2. CASE Bootstrap
  BY <1>2 DEF Bootstrap, BootstrapStart, BootstrapResume
<1>3. CASE Unlock
  BY <1>3 DEF Unlock, UnlockPassphrase, UnlockFinishMove, UnlockKeychain,
       UnlockRecovery
<1>4. CASE \/ \E p, q \in Passphrase : ChangeStart(p, q)
           \/ \E p \in Passphrase : MoveStart(p) \/ RotateStart(p)
  BY <1>4 DEF ChangeStart, MoveStart, RotateStart
<1>5. CASE \/ \E f \in File : WriteFile(f)
           \/ \E s \in StoreNames : SealMaterial(s)
           \/ Lock \/ Crash \/ Fault \/ LoseKeychain
  BY <1>5 DEF WriteFile, SealMaterial, Lock, Crash, Fault, LoseKeychain
<1>6. CASE RunStep
  <2>1. CASE \/ BootstrapJournal \/ CreateKeyring \/ CreateIdentity
             \/ CreateManifest \/ IssueRecovery \/ PhraseJournal \/ EnsureAudit
             \/ RemoveBootstrapFile \/ ReplaceKeyring \/ OpenVault
    BY <2>1 DEF BootstrapJournal, CreateKeyring, CreateIdentity, CreateManifest,
         IssueRecovery, PhraseJournal, EnsureAudit, RemoveBootstrapFile,
         ReplaceKeyring, OpenVault, Advance
  <2>2. CASE \/ StageRewrap \/ WriteJournal \/ WriteSalt \/ StoreKeychain
             \/ LoadStaged \/ CommitStaged \/ DiscardStaged \/ RemoveSalt
             \/ RemoveJournal
    BY <2>2 DEF StageRewrap, WriteJournal, WriteSalt, StoreKeychain, LoadStaged,
         CommitStaged, DiscardStaged, RemoveSalt, RemoveJournal, Advance
  <2>3. CASE \/ AddActiveDek \/ RotateOpen \/ FilesRewrapped
             \/ \E f \in File : RewrapFile(f)
             \/ \E s \in StoreNames : RewrapStore(s)
    BY <2>3 DEF AddActiveDek, RotateOpen, FilesRewrapped, RewrapFile,
         RewrapStore, Advance
  <2>4. CASE \/ RollbackLoad \/ SetActiveVersion \/ RollbackOpen
             \/ RestoreRecovery \/ RemoveVersion \/ Reload \/ Finish
    BY <2>4 DEF RollbackLoad, SetActiveVersion, RollbackOpen, RestoreRecovery,
         RemoveVersion, Reload, Finish, Advance
  <2> QED
    BY <1>6, <2>1, <2>2, <2>3, <2>4 DEF RunStep
<1> QED
  BY <1>1, <1>2, <1>3, <1>4, <1>5, <1>6 DEF Next

\* While commitFailed is not set, it was not, and no late error fell on the
\* removal of a rotation's journal.
LEMMA CommitCertain ==
  ASSUME commitFailed \in BOOLEAN, [Next]_vars
  PROVE  /\ commitFailed' \in BOOLEAN
         /\ ~commitFailed' =>
              /\ ~commitFailed
              /\ Step("unjournal") /\ job.op = "rotate" => late' = late
<1>1. CASE UNCHANGED <<late, commitFailed>>
  BY <1>1
<1>2. CASE LateError
  <2>1. commitFailed' = (commitFailed \/ (job.op = "rotate" /\ Step("unjournal")))
    BY <1>2 DEF LateError
  <2> QED
    BY <2>1, Zenon
<1> QED
  BY <1>1, <1>2, LateOrQuiet

VaultHistory == commitFailed \in BOOLEAN /\ (~commitFailed => VaultInv)

\* The journal's invariant: whatever operation was interrupted where, the
\* disk, the handle and the plan fit each other, until rotate_key takes the
\* removal of its journal for failed although the journal is gone.
THEOREM VaultInvariant == VaultSpec => []VaultHistory
<1>1. Init => VaultHistory
  <2> SUFFICES ASSUME Init PROVE VaultHistory
    OBVIOUS
  <2>1. commitFailed = FALSE
    BY DEF Init
  <2> QED
    BY <2>1, InitInv DEF VaultHistory
<1>2. VaultHistory /\ [Next]_vars /\ [Unlocked /\ Stale => Lock]_vars
        => VaultHistory'
  <2> SUFFICES ASSUME VaultHistory, [Next]_vars, [Unlocked /\ Stale => Lock]_vars
               PROVE  VaultHistory'
    OBVIOUS
  <2>1. commitFailed' \in BOOLEAN
    BY CommitCertain DEF VaultHistory
  <2>2. ASSUME ~commitFailed' PROVE VaultInv'
    <3>1. ~commitFailed /\ (Step("unjournal") /\ job.op = "rotate" => late' = late)
      BY <2>2, CommitCertain DEF VaultHistory
    <3> QED
      BY <3>1, NextKeeps DEF VaultHistory
  <2> QED
    BY <2>1, <2>2 DEF VaultHistory
<1> QED
  BY <1>1, <1>2, PTL DEF VaultSpec, Spec, StaleHandlesAreDropped

-----------------------------------------------------------------------------
(* What it is for.                                                         *)

LEMMA WholeDecryptable ==
  ASSUME VaultInv, Whole
  PROVE  DataDecryptable
<1>1. /\ keyring.active \in DOMAIN keyring.entries
      /\ FilesOn(keyring.active, ActiveDek(keyring))
      /\ \A s \in StoreNames : material[s] \subseteq {ActiveDek(keyring)}
  BY DEF Whole
<1>2. \A f \in File : files[f] # None => Readable(f)
  BY <1>1 DEF FilesOn, Readable, ActiveDek
<1>3. \A s \in StoreNames :
        material[s] \subseteq {Dek(keyring, v) : v \in DOMAIN keyring.entries}
  BY <1>1 DEF ActiveDek
<1> QED
  BY <1>2, <1>3 DEF DataDecryptable

LEMMA MixedDecryptable ==
  ASSUME NEW o, NEW n, NEW b, Mixed(o, n, b)
  PROVE  DataDecryptable
<1>1. \A f \in File : files[f] # None => Readable(f)
  <2> SUFFICES ASSUME NEW f \in File, files[f] # None
               PROVE  Readable(f)
    OBVIOUS
  <2>1. PICK v \in DOMAIN keyring.entries : files[f] = On(v)
    BY DEF Mixed
  <2>2. files[f].version = v /\ files[f].dek = Dek(keyring, v)
    BY <2>1 DEF On
  <2> QED
    BY <2>2 DEF Readable
<1>2. \A s \in StoreNames :
        material[s] \subseteq {Dek(keyring, v) : v \in DOMAIN keyring.entries}
  BY DEF Mixed
<1> QED
  BY <1>1, <1>2 DEF DataDecryptable

LEMMA InvDecryptable ==
  ASSUME VaultInv
  PROVE  DataDecryptable
<1>1. DiskTypeOK /\ DiskInv
  BY DEF VaultInv, VaultTypeOK
<1>2. CASE keyring = None
  BY <1>2 DEF DataDecryptable, Initialised
<1>3. CASE BootstrapPending(FALSE)
  <2>1. Empty
    BY <1>1, <1>3 DEF DiskInv
  <2> QED
    BY <1>3, <2>1 DEF Empty, DataDecryptable, Initialised
<1>4. CASE JournalOp = "Rotate"
  BY <1>1, <1>4, MixedDecryptable DEF DiskInv
<1>5. CASE keyring # None /\ ~BootstrapPending(FALSE) /\ JournalOp # "Rotate"
  BY <1>1, <1>5, WholeUnlessRotating, WholeDecryptable
<1> QED
  BY <1>2, <1>3, <1>4, <1>5

\* Every file and all material can be decrypted with a DEK the keyring holds,
\* at every point of bootstrap, unlock, change_passphrase,
\* move_to_os_keychain, rotate_key and rollback_rotation, wherever crashes
\* and I/O errors interrupt them, up to the one error that sets commitFailed.
THEOREM DataStaysDecryptable == VaultSpec => [](~commitFailed => DataDecryptable)
<1>1. VaultHistory => (~commitFailed => DataDecryptable)
  BY InvDecryptable DEF VaultHistory
<1> QED
  BY <1>1, VaultInvariant, PTL

\* With no journal and no operation, the recovery bundle, all material and
\* all files are on the active DEK: remove_lifecycle comes after everything
\* it vouches for.  OneDekAtRest itself excepts the one error after which
\* rotate_key rolls back without a journal.
THEOREM AtRestOneDek == VaultSpec => []OneDekAtRest
<1>1. VaultHistory => OneDekAtRest
  <2> SUFFICES ASSUME VaultInv, journal = None, job = None, keyring # None
               PROVE  AllOnActiveDek
    BY DEF OneDekAtRest, VaultHistory
  <2>1. Whole
    BY DEF VaultInv, DiskInv
  <2>2. \A f \in File : files[f] # None => ~Outdated(f)
    BY <2>1 DEF Whole, FilesOn, Outdated
  <2> QED
    BY <2>1, <2>2 DEF Whole, AllOnActiveDek
<1> QED
  BY <1>1, VaultInvariant, PTL
=============================================================================
