--------------------------- MODULE AuditLogProofs ---------------------------
(***************************************************************************)
(* For every set of events and instances, every segment size and any       *)
(* amount of damage to the segments, the audit log implements an           *)
(* append-only trail (THEOREM AuditLogRefinesTrail) and what verify_chain  *)
(* accepts is the committed chain (THEOREM AuditOkMeansIntact). While      *)
(* nothing but crashes and errors happens, no committed record is lost     *)
(* (THEOREM AuditNothingLost) and the log is refused in the two states     *)
(* that are meant to be refused only (THEOREM AuditUndamagedIsAccepted).   *)
(***************************************************************************)
EXTENDS AuditLog, SequenceTheorems, WellFoundedInduction, TLAPS

----------------------------------------------------------------------------
(* Lemmas about records and checkpoints.                                   *)

\* sign_record yields a record whose MAC is one event longer than its
\* predecessor's.
LEMMA MacType ==
  ASSUME NEW r \in AuditRecord
  PROVE  /\ Mac(r) \in History
         /\ Len(Mac(r)) = Len(r.prev_mac) + 1
         /\ \A k \in 1..Len(r.prev_mac) : Mac(r)[k] = r.prev_mac[k]
         /\ Mac(r)[Len(r.prev_mac) + 1] = r.event
  BY DEF AuditRecord, Mac, History

\* The checkpoints record and rotate write are well-formed.
LEMMA CheckpointType ==
  ASSUME NEW cp \in Checkpoint, NEW mac \in History
  PROVE  Advanced(cp, mac) \in Checkpoint /\ Rotated(cp) \in Checkpoint
  BY DEF Advanced, Rotated, signed, Checkpoint

\* The checkpoint of a new log is a checkpoint.
LEMMA GenesisType == genesis \in Checkpoint
  BY DEF genesis, signed, Checkpoint, History, GENESIS_PREV

\* Truncating a segment keeps a prefix of its records.
LEMMA PrefixOfFile ==
  ASSUME NEW S, NEW f \in Seq(S), NEW n \in 0..Len(f)
  PROVE  /\ SubSeq(f, 1, n) \in Seq(S)
         /\ Len(SubSeq(f, 1, n)) = n
         /\ \A k \in 1..n : SubSeq(f, 1, n)[k] = f[k]
  BY SubSeqProperties

----------------------------------------------------------------------------
(* Type correctness.                                                       *)

\* Every variable keeps its type: segments hold records, the checkpoint is
\* one the code can have signed, and the lock holder's operation is one of
\* the crate's.
LEMMA TypeInit == Init => TypeOK
<1> SUFFICES ASSUME Init PROVE TypeOK
  OBVIOUS
<1>1. DOMAIN archives \in SUBSET Nat
       /\ archives \in [DOMAIN archives -> Seq(AuditRecord)]
  BY DEF Init
<1>2. job \in [op : JobOp, pc : JobPc, cp : Checkpoint \cup {NoCheckpoint},
               event : Event \cup {NoEvent}]
  BY DEF Init, NoJob, JobOp, JobPc
<1>3. unsynced \in SUBSET History /\ acked \in SUBSET Event
  BY DEF Init, History
<1>4. damage \in 0..MaxDamage
  BY BoundsAssumption DEF Init
<1>5. torn \in BOOLEAN /\ aside \in BOOLEAN
  BY DEF Init
<1> QED
  BY <1>1, <1>2, <1>3, <1>4, <1>5 DEF Init, TypeOK

\* Every checkpoint an operation writes is one the code can sign.
LEMMA WritesCheckpoint ==
  ASSUME TypeOK, JobIsCurrent,
         \/ CreateCheckpoint \/ RecoverCommit \/ RecoverRotation
         \/ RotateCheckpoint \/ RecordCommit
  PROVE  checkpoint' \in Checkpoint
<1> USE DEF TypeOK, JobIsCurrent, Working, JobOp, JobPc, NoJob, At
<1>1. CASE CreateCheckpoint
  BY <1>1, GenesisType DEF CreateCheckpoint
<1>2. CASE RecoverCommit
  <2>1. checkpoint \in Checkpoint
    BY <1>2 DEF RecoverCommit, Recovering
  <2>2. active \in Seq(AuditRecord)
    BY <1>2 DEF RecoverCommit, IsSuccessor, ActiveScans
  <2>3. ActiveHead(checkpoint) \in History
    <3>1. CASE active = <<>>
      BY <3>1, <2>1 DEF ActiveHead, EndMac, Checkpoint
    <3>2. CASE active # <<>>
      <4>1. active[Len(active)] \in AuditRecord
        BY <3>2, <2>2
      <4> QED BY <3>2, <4>1, MacType DEF ActiveHead, EndMac, Last
    <3> QED BY <3>1, <3>2
  <2> QED BY <1>2, <2>1, <2>3, CheckpointType DEF RecoverCommit
<1>3. CASE RecoverRotation
  <2>1. checkpoint \in Checkpoint
    BY <1>3 DEF RecoverRotation, Recovering
  <2> QED BY <1>3, <2>1, CheckpointType DEF RecoverRotation, Checkpoint
<1>4. CASE RotateCheckpoint
  <2>1. job.cp \in Checkpoint
    BY <1>4 DEF RotateCheckpoint
  <2> QED BY <1>4, <2>1, CheckpointType DEF RotateCheckpoint, Checkpoint
<1>5. CASE RecordCommit
  <2>1. SignedRecord \in AuditRecord /\ job.cp \in Checkpoint
    BY <1>5 DEF RecordCommit, SignedRecord, sign_record, AuditRecord, Checkpoint
  <2> QED BY <1>5, <2>1, MacType, CheckpointType DEF RecordCommit
<1> QED BY <1>1, <1>2, <1>3, <1>4, <1>5

\* Every step keeps the types; the operation under the lock must be current for it.
LEMMA TypeNext == TypeOK /\ JobIsCurrent /\ [Next]_vars => TypeOK'
<1> SUFFICES ASSUME TypeOK, JobIsCurrent, [Next]_vars
             PROVE  TypeOK'
  OBVIOUS
<1> USE DEF TypeOK, JobOp, JobPc, At, Goto, Release, Fail, NoJob, disk
<1>1. CASE UNCHANGED vars
  BY <1>1 DEF vars
<1>2. ASSUME NEW i \in Instance, CreateStart(i) PROVE TypeOK'
  BY <1>2 DEF CreateStart, Acquire
<1>3. ASSUME NEW i \in Instance, OpenStart(i) PROVE TypeOK'
  BY <1>3 DEF OpenStart, Acquire
<1>4. ASSUME NEW i \in Instance, NEW e \in Event, RecordStart(i, e)
      PROVE TypeOK'
  BY <1>4 DEF RecordStart, Acquire
<1>5. ASSUME NEW i \in Instance, Crash(i) PROVE TypeOK'
  BY <1>5 DEF Crash
<1>6. CASE CreateActive
  BY <1>6 DEF CreateActive
<1>7. CASE CreateCheckpoint
  BY <1>7, WritesCheckpoint DEF CreateCheckpoint
<1>8. CASE OpenArchives
  BY <1>8 DEF OpenArchives
<1>9. CASE OpenVerify
  BY <1>9 DEF OpenVerify
<1>10. CASE RecoverNothing
  BY <1>10 DEF RecoverNothing, Recovered
<1>11. CASE RecoverCommit
  BY <1>11, WritesCheckpoint DEF RecoverCommit, Recovered
<1>12. CASE RecoverRotationActive
  BY <1>12 DEF RecoverRotationActive
<1>13. CASE RecoverRotation
  BY <1>13, WritesCheckpoint DEF RecoverRotation, Recovered
<1>14. CASE RecoverRefused
  BY <1>14 DEF RecoverRefused
<1>15. CASE RecordSign
  BY <1>15 DEF RecordSign
<1>16. CASE RotateRename
  <2>1. CASE Fail
    BY <2>1
  <2>2. CASE job.cp.active_segment \notin DOMAIN archives
    <3>1. job.cp \in Checkpoint
      BY <1>16 DEF RotateRename, JobIsCurrent, Working
    <3>2. job.cp.active_segment \in Nat
      BY <3>1 DEF Checkpoint
    <3> DEFINE D == DOMAIN archives \cup {job.cp.active_segment}
    <3>3. archives' = [s \in D |-> IF s = job.cp.active_segment THEN active
                                   ELSE archives[s]]
      BY <1>16, <2>2 DEF RotateRename
    <3>4. DOMAIN archives' = D /\ D \in SUBSET Nat
      BY <3>2, <3>3
    <3>5. archives' \in [D -> Seq(AuditRecord)]
      BY <1>16, <3>3 DEF RotateRename
    <3> QED BY <1>16, <2>2, <3>4, <3>5 DEF RotateRename
  <2> QED BY <1>16, <2>1, <2>2 DEF RotateRename
<1>17. CASE RotateReplace
  <2>1. active' \in Seq(AuditRecord)
    BY <1>17 DEF RotateReplace
  <2>2. UNCHANGED <<aside, torn, unsynced, archives, checkpoint, holder, handles,
                    submitted, acked, damage>>
    BY <1>17 DEF RotateReplace
  <2>3. job' = [job EXCEPT !.pc = "rotate_checkpoint"]
    BY <1>17 DEF RotateReplace
  <2> QED BY <2>1, <2>2, <2>3
<1>18. CASE RotateCheckpoint
  BY <1>18, WritesCheckpoint DEF RotateCheckpoint
<1>19. CASE RecordAppend
  <2>1. SignedRecord \in AuditRecord
    BY <1>19 DEF RecordAppend, SignedRecord, sign_record, AuditRecord,
                 JobIsCurrent, Working, Checkpoint
  <2>2. Mac(SignedRecord) \in History
    BY <2>1, MacType
  <2>3. active' \in Seq(AuditRecord)
    BY <1>19, <2>1 DEF RecordAppend
  <2>4. unsynced' \in SUBSET History
    BY <1>19, <2>2 DEF RecordAppend
  <2> QED BY <1>19, <2>3, <2>4 DEF RecordAppend
<1>20. CASE RecordSync
  BY <1>20 DEF RecordSync
<1>21. CASE RecordCommit
  BY <1>21, WritesCheckpoint DEF RecordCommit
<1>22. CASE Return
  <2>1. holder \in Instance /\ job.op = "record" => job.event \in submitted
    BY <1>22 DEF Return, JobIsCurrent
  <2>2. holder \in Instance
    BY <1>22 DEF Return, JobIsCurrent
  <2>3. acked' \in SUBSET Event
    BY <1>22, <2>1, <2>2 DEF Return
  <2> QED BY <1>22, <2>2, <2>3 DEF Return
<1>23. CASE IoError
  BY <1>23 DEF IoError
<1>24. CASE AppendTorn
  <2>1. handles' \in SUBSET Instance
    BY <1>24 DEF AppendTorn
  <2>2. torn' \in BOOLEAN
    BY <1>24 DEF AppendTorn
  <2> QED BY <1>24, <2>1, <2>2 DEF AppendTorn
<1>27. CASE ReplaceInterrupted
  <2>1. handles' \in SUBSET Instance
    BY <1>27 DEF ReplaceInterrupted
  <2>2. aside' \in BOOLEAN
    BY <1>27 DEF ReplaceInterrupted
  <2> QED BY <1>27, <2>1, <2>2 DEF ReplaceInterrupted
<1>25. CASE DamageActive
  <2>1. active' \in Seq(AuditRecord) \cup {Missing}
    <3>1. active \in Seq(AuditRecord)
      BY <1>25 DEF DamageActive
    <3>2. \A n \in 0..Len(active) : SubSeq(active, 1, n) \in Seq(AuditRecord)
      BY <3>1, PrefixOfFile
    <3> QED BY <1>25, <3>2 DEF DamageActive
  <2>2. damage' \in 0..MaxDamage
    BY <1>25, BoundsAssumption DEF DamageActive
  <2>3. torn' \in BOOLEAN
    BY <1>25 DEF DamageActive
  <2> QED BY <1>25, <2>1, <2>2, <2>3 DEF DamageActive
<1>26. CASE DamageArchive
  <2>1. PICK s \in DOMAIN archives :
          \/ archives' = [t \in DOMAIN archives \ {s} |-> archives[t]]
          \/ \E n \in 0..Len(archives[s]) :
               archives' = [archives EXCEPT ![s] = SubSeq(@, 1, n)]
    BY <1>26 DEF DamageArchive
  <2>2. \A n \in 0..Len(archives[s]) :
          SubSeq(archives[s], 1, n) \in Seq(AuditRecord)
    BY PrefixOfFile
  <2>3. DOMAIN archives' \in SUBSET Nat
        /\ archives' \in [DOMAIN archives' -> Seq(AuditRecord)]
    <3>1. CASE archives' = [t \in DOMAIN archives \ {s} |-> archives[t]]
      BY <3>1
    <3>2. ASSUME NEW n \in 0..Len(archives[s]),
                 archives' = [archives EXCEPT ![s] = SubSeq(@, 1, n)]
          PROVE  DOMAIN archives' \in SUBSET Nat
                 /\ archives' \in [DOMAIN archives' -> Seq(AuditRecord)]
      BY <2>2, <3>2
    <3> QED BY <2>1, <3>1, <3>2
  <2>4. damage' \in 0..MaxDamage
    BY <1>26, BoundsAssumption DEF DamageArchive
  <2> QED BY <1>26, <2>3, <2>4 DEF DamageArchive
<1> QED
  BY <1>1, <1>2, <1>3, <1>4, <1>5, <1>6, <1>7, <1>8, <1>9, <1>10, <1>11,
     <1>12, <1>13, <1>14, <1>15, <1>16, <1>17, <1>18, <1>19, <1>20, <1>21,
     <1>22, <1>23, <1>24, <1>25, <1>26, <1>27 DEF Next, Step

----------------------------------------------------------------------------
(* The invariant is inductive.                                             *)

\* A checkpoint that counts its chain is followed by one that does.
LEMMA CountsNext == IInv /\ [Next]_vars => CountsAgree'
<1> SUFFICES ASSUME IInv, [Next]_vars
             PROVE  CountsAgree'
  OBVIOUS
<1> USE DEF IInv, CountsAgree
<1>1. CASE UNCHANGED checkpoint
  BY <1>1
<1>2. CASE CreateCheckpoint
  BY <1>2 DEF CreateCheckpoint, genesis, signed, GENESIS_PREV
<1>3. CASE RecoverCommit
  <2>1. /\ checkpoint \in Checkpoint /\ checkpoint # NoCheckpoint
        /\ active \in Seq(AuditRecord) /\ active # Missing
    BY <1>3 DEF RecoverCommit, Recovering, JobIsCurrent, TypeOK, IsSuccessor,
                ActiveScans, JobOp, NoJob
  <2>2. checkpoint' = Advanced(checkpoint, ActiveHead(checkpoint))
    BY <1>3 DEF RecoverCommit
  <2>3. Len(active) = checkpoint.active_record_count + 1
    BY <1>3, <2>1 DEF RecoverCommit, IsSuccessor, ActiveEntries, StartSequence,
                      Checkpoint
  <2>4. active[Len(active)].sequence = checkpoint.record_count
    BY <1>3, <2>1, <2>3
       DEF RecoverCommit, IsSuccessor, ActiveScans, ScansFrom, ActiveEntries,
           StartSequence, Checkpoint
  <2>5. active[Len(active)] \in AuditRecord
        /\ Len(active[Len(active)].prev_mac) = checkpoint.record_count
    BY <2>1, <2>3, <2>4 DEF TailIsSuccessor, Checkpoint
  <2>6. ActiveHead(checkpoint) = Mac(active[Len(active)])
    BY <2>1, <2>3 DEF ActiveHead, EndMac, Last, Checkpoint
  <2>7. Len(ActiveHead(checkpoint)) = checkpoint.record_count + 1
    BY <2>5, <2>6, MacType
  <2> QED BY <2>1, <2>2, <2>7 DEF Advanced, signed, Checkpoint
<1>4. CASE RecoverRotation \/ RotateCheckpoint
  <2>1. /\ checkpoint \in Checkpoint /\ checkpoint # NoCheckpoint
        /\ checkpoint' = Rotated(checkpoint)
    BY <1>4 DEF RecoverRotation, Recovering, RotateCheckpoint, At,
                JobIsCurrent, Working, TypeOK, JobOp, NoJob
  <2> QED BY <2>1 DEF Rotated, signed, Checkpoint
<1>5. CASE RecordCommit
  <2>1. /\ checkpoint \in Checkpoint /\ checkpoint # NoCheckpoint
        /\ job.cp = checkpoint /\ job.event \in Event
    BY <1>5 DEF RecordCommit, At, JobIsCurrent, Working, TypeOK
  <2>2. Mac(SignedRecord) = Append(checkpoint.head_mac, job.event)
    BY <2>1 DEF Mac, SignedRecord, sign_record
  <2>3. Len(Mac(SignedRecord)) = checkpoint.record_count + 1
    BY <2>1, <2>2 DEF Checkpoint, History
  <2> QED BY <1>5, <2>1, <2>3 DEF RecordCommit, Advanced, signed, Checkpoint
<1> QED
  BY <1>1, <1>2, <1>3, <1>4, <1>5
  DEF Next, Step, vars, disk, Fail, CreateStart, OpenStart, RecordStart, Crash,
      CreateActive, OpenArchives, OpenVerify, RecoverNothing,
      RecoverRotationActive, RecoverRefused, RecordSign, RotateRename,
      RotateReplace, RecordAppend, RecordSync, Return, IoError, AppendTorn, ReplaceInterrupted,
      DamageActive, DamageArchive

\* The operation under the lock is where its locals say it is.
LEMMA JobNext == IInv /\ [Next]_vars => JobIsCurrent'
<1> SUFFICES ASSUME IInv, [Next]_vars
             PROVE  JobIsCurrent'
  OBVIOUS
<1> USE DEF IInv, TypeOK, JobIsCurrent, Working, JobOp, JobPc, NoJob, At, Goto,
            Release, Fail, disk
<1>1. CASE UNCHANGED vars
  BY <1>1 DEF vars
<1>2. ASSUME NEW i \in Instance, CreateStart(i)
      PROVE  JobIsCurrent'
  <2>1. checkpoint = NoCheckpoint
    BY <1>2 DEF CreateStart, CheckpointMissing, AsideIsRefused
  <2> QED BY <1>2, <2>1 DEF CreateStart, Acquire
<1>3. ASSUME NEW i \in Instance, OpenStart(i)
      PROVE  JobIsCurrent'
  BY <1>3 DEF OpenStart, Acquire, CheckpointMissing
<1>4. ASSUME NEW i \in Instance, NEW e \in Event, RecordStart(i, e)
      PROVE  JobIsCurrent'
  BY <1>4 DEF RecordStart, Acquire, CheckpointMissing
<1>5. ASSUME NEW i \in Instance, Crash(i)
      PROVE  JobIsCurrent'
  BY <1>5 DEF Crash
<1>6. CASE CreateActive
  BY <1>6 DEF CreateActive
<1>7. CASE CreateCheckpoint
  <2>1. checkpoint' # NoCheckpoint
    BY <1>7, WritesCheckpoint, FileAssumption
  <2> QED BY <1>7, <2>1 DEF CreateCheckpoint
<1>8. CASE OpenArchives
  BY <1>8 DEF OpenArchives
<1>9. CASE OpenVerify
  BY <1>9 DEF OpenVerify
<1>10. CASE RecoverNothing
  BY <1>10 DEF RecoverNothing, Recovered, Recovering
<1>11. CASE RecoverCommit
  <2>1. checkpoint' # NoCheckpoint
    BY <1>11, WritesCheckpoint, FileAssumption
  <2> QED BY <1>11, <2>1 DEF RecoverCommit, Recovered, Recovering
<1>12. CASE RecoverRotationActive
  BY <1>12 DEF RecoverRotationActive, Recovering
<1>13. CASE RecoverRotation
  <2>1. checkpoint' # NoCheckpoint
    BY <1>13, WritesCheckpoint, FileAssumption
  <2> QED BY <1>13, <2>1 DEF RecoverRotation, Recovered, Recovering
<1>14. CASE RecoverRefused
  BY <1>14 DEF RecoverRefused, Recovering
<1>15. CASE RecordSign
  BY <1>15 DEF RecordSign
<1>16. CASE RotateRename
  BY <1>16 DEF RotateRename
<1>17. CASE RotateReplace
  BY <1>17 DEF RotateReplace
<1>18. CASE RotateCheckpoint
  <2>1. checkpoint' # NoCheckpoint
    BY <1>18, WritesCheckpoint, FileAssumption
  <2> QED BY <1>18, <2>1 DEF RotateCheckpoint
<1>19. CASE RecordAppend
  BY <1>19 DEF RecordAppend
<1>20. CASE RecordSync
  BY <1>20 DEF RecordSync
<1>21. CASE RecordCommit
  <2>1. checkpoint' # NoCheckpoint
    BY <1>21, WritesCheckpoint, FileAssumption
  <2> QED BY <1>21, <2>1 DEF RecordCommit
<1>22. CASE Return
  BY <1>22 DEF Return
<1>23. CASE IoError
  BY <1>23 DEF IoError
<1>24. CASE AppendTorn
  BY <1>24 DEF AppendTorn
<1>27. CASE ReplaceInterrupted
  BY <1>27 DEF ReplaceInterrupted
<1>25. CASE DamageActive
  BY <1>25 DEF DamageActive
<1>26. CASE DamageArchive
  BY <1>26 DEF DamageArchive
<1> QED
  BY <1>1, <1>2, <1>3, <1>4, <1>5, <1>6, <1>7, <1>8, <1>9, <1>10, <1>11,
     <1>12, <1>13, <1>14, <1>15, <1>16, <1>17, <1>18, <1>19, <1>20, <1>21,
     <1>22, <1>23, <1>24, <1>25, <1>26, <1>27
  DEF Next, Step

----------------------------------------------------------------------------
(* How the chain moves.                                                    *)

\* The committed chain is a sequence of events.
LEMMA ChainType == TypeOK => Chain \in History
  BY DEF TypeOK, Chain, Checkpoint, History

\* One more event on the chain is one more committed event.
LEMMA CommittedGrows ==
  ASSUME Chain \in History, NEW e \in Event, Chain' = Append(Chain, e)
  PROVE  /\ Committed' = Committed \cup {e}
         /\ Len(Chain') = Len(Chain) + 1
  BY DEF Committed, History

\* Only the two commits move the chain, and each appends one submitted event
\* that was not on it: record() its own, recovery the one whose record it
\* found in the active segment.
LEMMA ChainAdvances ==
  ASSUME IInv, RecordCommit \/ RecoverCommit
  PROVE  \E e \in submitted \ Committed :
           /\ Chain' = Append(Chain, e)
           /\ RecordCommit => e = job.event
           /\ RecoverCommit => /\ active # Missing
                               /\ \E k \in 1..Len(active) : active[k].event = e
<1> USE DEF IInv
<1>1. /\ checkpoint \in Checkpoint /\ checkpoint # NoCheckpoint
      /\ checkpoint' # NoCheckpoint
      /\ Chain = checkpoint.head_mac /\ Chain' = checkpoint'.head_mac
  <2>1. checkpoint # NoCheckpoint
    BY DEF RecordCommit, RecoverCommit, Recovering, At, JobIsCurrent, TypeOK,
           JobOp, NoJob
  <2>2. checkpoint' # NoCheckpoint
    BY WritesCheckpoint, FileAssumption
  <2> QED BY <2>1, <2>2 DEF Chain, TypeOK
<1>2. CASE RecordCommit
  <2>1. job.cp = checkpoint /\ job.op = "record" /\ job.pc = "commit"
    BY <1>2 DEF RecordCommit, At, JobIsCurrent, Working
  <2>2. Chain' = Append(Chain, job.event)
    BY <1>1, <1>2, <2>1
       DEF RecordCommit, Advanced, signed, Mac, SignedRecord, sign_record
  <2>3. job.event \in submitted \ Committed
    BY <2>1 DEF JobIsCurrent, CommittedOnce
  <2>4. ~RecoverCommit
    BY <2>1 DEF RecoverCommit, Recovering
  <2> QED BY <2>2, <2>3, <2>4
<1>3. CASE RecoverCommit
  <2>1. active \in Seq(AuditRecord) /\ active # Missing
    BY <1>3 DEF RecoverCommit, TypeOK, IsSuccessor, ActiveScans
  <2>2. Len(active) = checkpoint.active_record_count + 1
    BY <1>1, <1>3, <2>1
       DEF RecoverCommit, IsSuccessor, ActiveEntries, StartSequence, Checkpoint
  <2> DEFINE n == Len(active)
  <2>3. n \in 1..Len(active)
    BY <1>1, <2>2 DEF Checkpoint
  <2>4. active[n].sequence = checkpoint.record_count
    BY <1>1, <1>3, <2>1, <2>2, <2>3
       DEF RecoverCommit, IsSuccessor, ActiveScans, ScansFrom, ActiveEntries,
           StartSequence, Checkpoint
  <2>5. active[n].sequence = Len(Chain)
    BY <1>1, <2>4 DEF CountsAgree
  <2>6. /\ active[n].prev_mac = Chain
        /\ active[n].event \in submitted \ Committed
    BY <2>1, <2>3, <2>5, ChainType DEF TailIsSuccessor, History
  <2>7. checkpoint'.head_mac = Mac(active[n])
    BY <1>3, <2>1, <2>3
       DEF RecoverCommit, Advanced, signed, ActiveHead, EndMac, Last
  <2>8. Chain' = Append(Chain, active[n].event)
    BY <1>1, <2>6, <2>7 DEF Mac
  <2>9. ~RecordCommit
    BY <1>3 DEF RecordCommit, RecoverCommit, Recovering, At
  <2> QED BY <2>1, <2>3, <2>6, <2>8, <2>9
<1> QED BY <1>2, <1>3

\* No step but the two commits changes the committed chain.
LEMMA ChainKept ==
  ASSUME IInv, [Next]_vars, ~RecordCommit, ~RecoverCommit
  PROVE  Chain' = Chain
<1> USE DEF IInv, Chain
<1>1. CASE UNCHANGED checkpoint
  BY <1>1
<1>2. CASE CreateCheckpoint
  BY <1>2 DEF CreateCheckpoint, genesis, signed, GENESIS_PREV, At, JobIsCurrent
<1>3. CASE RecoverRotation \/ RotateCheckpoint
  <2>1. /\ checkpoint # NoCheckpoint
        /\ checkpoint' = Rotated(checkpoint)
    BY <1>3 DEF RecoverRotation, Recovering, RotateCheckpoint, At,
                JobIsCurrent, Working, TypeOK, JobOp, NoJob
  <2>2. checkpoint' # NoCheckpoint
    BY <1>3, WritesCheckpoint, FileAssumption
  <2> QED BY <2>1, <2>2 DEF Rotated, signed
<1> QED
  BY <1>1, <1>2, <1>3
  DEF Next, Step, vars, disk, Fail, CreateStart, OpenStart, RecordStart, Crash,
      CreateActive, OpenArchives, OpenVerify, RecoverNothing,
      RecoverRotationActive, RecoverRefused, RecordSign, RotateRename,
      RotateReplace, RecordAppend, RecordSync, Return, IoError, AppendTorn, ReplaceInterrupted,
      DamageActive, DamageArchive

----------------------------------------------------------------------------
(* What a step does to the active segment and to the recorded event.       *)

\* A record of the active segment was there before, or record() just signed
\* and appended it; truncation and rotation only take records away.
LEMMA ActiveRecords ==
  ASSUME IInv, [Next]_vars, active' # Missing, NEW k \in 1..Len(active')
  PROVE  \/ /\ active # Missing
            /\ k \in 1..Len(active)
            /\ active'[k] = active[k]
         \/ RecordAppend /\ active'[k] = SignedRecord
<1> USE DEF IInv, TypeOK
<1>1. CASE UNCHANGED active
  BY <1>1
<1>2. CASE active' = <<>>
  BY <1>2
<1>3. CASE RecordAppend
  BY <1>3 DEF RecordAppend
<1>4. CASE DamageActive
  <2>1. active \in Seq(AuditRecord) /\ active # Missing
    BY <1>4 DEF DamageActive
  <2>2. PICK n \in 0..Len(active) : active' = SubSeq(active, 1, n)
    BY <1>4 DEF DamageActive
  <2> QED BY <2>1, <2>2, PrefixOfFile
<1>5. CASE active' = Missing
  BY <1>5
<1> QED
  BY <1>1, <1>2, <1>3, <1>4, <1>5
  DEF Next, Step, vars, disk, Fail, CreateStart, OpenStart, RecordStart, Crash,
      CreateActive, CreateCheckpoint, OpenArchives, OpenVerify,
      RecoverNothing, RecoverCommit, RecoverRotationActive, RecoverRotation,
      RecoverRefused, RecordSign, RotateRename, RotateReplace,
      RotateCheckpoint, RecordSync, RecordCommit, Return, IoError,
      AppendTorn, ReplaceInterrupted, DamageArchive

\* A recorded event belongs to the call that submitted it, from RecordStart
\* until the operation ends.
LEMMA RecordedEvent ==
  ASSUME IInv, [Next]_vars, job'.op = "record"
  PROVE  \/ \E i \in Instance, e \in Event :
              RecordStart(i, e) /\ job'.event = e /\ job'.pc = "recover"
         \/ /\ job.op = "record"
            /\ job'.event = job.event
            /\ job'.pc # "done" => job.pc # "done"
            /\ job'.pc = "done" => job.pc = "done" \/ RecordCommit
            /\ job'.pc \in {"recover", "recover_checkpoint"} =>
                 job.pc \in {"recover", "recover_checkpoint"} /\ ~RecordAppend
<1> USE DEF IInv, TypeOK, At, Goto, Release, NoJob, Acquire
<1>1. CASE UNCHANGED job
  BY <1>1 DEF RecordAppend
<1>2. CASE RecoverNothing \/ RecoverCommit \/ RecoverRotation
  BY <1>2 DEF RecoverNothing, RecoverCommit, RecoverRotation, Recovered,
              Recovering
<1>3. CASE RecordAppend
  BY <1>3 DEF RecordAppend
<1>4. ASSUME NEW i \in Instance, NEW e \in Event, RecordStart(i, e)
      PROVE job'.event = e /\ job'.pc = "recover"
  BY <1>4 DEF RecordStart
<1>5. job' # NoJob
  OBVIOUS
<1>6. CASE RecordSign \/ RotateRename \/ RotateReplace \/ RotateCheckpoint
           \/ RecordSync \/ RecordCommit
  BY <1>5, <1>6 DEF RecordSign, RotateRename, RotateReplace, RotateCheckpoint,
                    RecordSync, RecordCommit, Fail, RecordAppend
<1>7. CASE RecoverRotationActive
  BY <1>7 DEF RecoverRotationActive, Recovering, RecordAppend
<1>8. CASE CreateActive \/ CreateCheckpoint \/ OpenArchives \/ OpenVerify
  BY <1>5, <1>8 DEF CreateActive, CreateCheckpoint, OpenArchives, OpenVerify,
                    Fail
<1>9. ~RecoverRefused /\ ~Return /\ ~IoError /\ ~AppendTorn /\ ~ReplaceInterrupted
  BY <1>5 DEF RecoverRefused, Return, IoError, AppendTorn, ReplaceInterrupted, Fail
<1>10. ASSUME NEW i \in Instance, CreateStart(i) \/ OpenStart(i) PROVE FALSE
  BY <1>10 DEF CreateStart, OpenStart
<1>11. ASSUME NEW i \in Instance, Crash(i) PROVE UNCHANGED job
  BY <1>5, <1>11 DEF Crash
<1>12. CASE DamageActive \/ DamageArchive \/ UNCHANGED vars
  BY <1>1, <1>12 DEF DamageActive, DamageArchive, vars
<1> QED
  BY <1>1, <1>2, <1>3, <1>4, <1>6, <1>7, <1>8, <1>9, <1>10, <1>11, <1>12
  DEF Next, Step

\* A submitted event stays submitted.
LEMMA SubmittedGrows == [Next]_vars => submitted \subseteq submitted'
  BY DEF Next, Step, vars, disk, Fail, CreateStart, OpenStart, RecordStart, Crash,
      CreateActive, CreateCheckpoint, OpenArchives, OpenVerify,
      RecoverNothing, RecoverCommit, RecoverRotationActive, RecoverRotation,
      RecoverRefused, RecordSign, RotateRename, RotateReplace,
      RotateCheckpoint, RecordSync, RecordCommit, Return, IoError,
      AppendTorn, ReplaceInterrupted, DamageArchive, RecordAppend, DamageActive

\* Whatever a step writes to the active segment beyond the chain is its successor.
LEMMA TailNext == IInv /\ [Next]_vars => TailIsSuccessor'
<1> SUFFICES ASSUME IInv, [Next]_vars, active' # Missing,
                    NEW k \in 1..Len(active')
             PROVE  (/\ active'[k].sequence = Len(active'[k].prev_mac)
                     /\ active'[k].event \in submitted'
                     /\ \/ active'[k].sequence < Len(Chain')
                        \/ /\ active'[k].prev_mac = Chain'
                           /\ active'[k].event \notin Committed')
  BY DEF TailIsSuccessor
<1>1. Chain \in History
  BY ChainType DEF IInv
<1>2. CASE RecordAppend /\ active'[k] = SignedRecord
  <2>1. /\ job.cp = checkpoint /\ checkpoint \in Checkpoint
        /\ checkpoint # NoCheckpoint /\ job.event \in submitted
        /\ job.event \notin Committed
    BY <1>2 DEF RecordAppend, At, IInv, TypeOK, JobIsCurrent, Working,
                CommittedOnce
  <2>2. ~RecordCommit /\ ~RecoverCommit
    BY <1>2 DEF RecordAppend, RecordCommit, RecoverCommit, Recovering, At
  <2>3. Chain' = Chain /\ Committed' = Committed
    BY <2>2, ChainKept DEF Committed
  <2>4. checkpoint.head_mac = Chain /\ checkpoint.record_count = Len(Chain)
    BY <2>1 DEF Chain, IInv, CountsAgree
  <2> QED BY <1>2, <2>1, <2>3, <2>4, SubmittedGrows DEF SignedRecord, sign_record
<1>3. CASE /\ active # Missing
           /\ k \in 1..Len(active)
           /\ active'[k] = active[k]
  <2>1. /\ active[k].sequence = Len(active[k].prev_mac)
        /\ active[k].event \in submitted'
        /\ \/ active[k].sequence < Len(Chain)
           \/ active[k].prev_mac = Chain /\ active[k].event \notin Committed
    BY <1>3, SubmittedGrows DEF IInv, TailIsSuccessor
  <2>2. CASE RecordCommit \/ RecoverCommit
    <3>1. PICK e \in submitted : Chain' = Append(Chain, e)
      BY <2>2, ChainAdvances
    <3>2. e \in Event
      BY <3>1 DEF IInv, TypeOK
    <3>3. Len(Chain') = Len(Chain) + 1
      BY <1>1, <3>1, <3>2, CommittedGrows
    <3>4. Len(Chain) \in Nat
      BY <1>1 DEF History
    <3>5. active[k].sequence \in Nat
      <4>1. active \in Seq(AuditRecord)
        BY <1>3 DEF IInv, TypeOK
      <4>2. active[k] \in AuditRecord
        BY <1>3, <4>1
      <4> QED BY <4>2 DEF AuditRecord
    <3> QED BY <1>3, <2>1, <3>3, <3>4, <3>5
  <2>3. CASE ~RecordCommit /\ ~RecoverCommit
    <3>1. Chain' = Chain /\ Committed' = Committed
      BY <2>3, ChainKept DEF Committed
    <3> QED BY <1>3, <2>1, <3>1
  <2> QED BY <2>2, <2>3
<1> QED BY <1>2, <1>3, ActiveRecords

\* No step commits an event a second time.
LEMMA OnceNext == IInv /\ [Next]_vars => CommittedOnce'
<1> SUFFICES ASSUME IInv, [Next]_vars
             PROVE  CommittedOnce'
  OBVIOUS
<1>1. Chain \in History /\ Committed \subseteq submitted
  BY ChainType DEF IInv, CommittedOnce
<1>2. submitted \subseteq submitted' /\ submitted \subseteq Event
  BY SubmittedGrows DEF IInv, TypeOK
<1>3. Committed' \subseteq submitted'
  <2>1. CASE RecordCommit \/ RecoverCommit
    <3>1. PICK e \in submitted : Chain' = Append(Chain, e)
      BY <2>1, ChainAdvances
    <3> QED BY <1>1, <1>2, <3>1, CommittedGrows
  <2>2. CASE ~RecordCommit /\ ~RecoverCommit
    BY <1>1, <1>2, <2>2, ChainKept DEF Committed
  <2> QED BY <2>1, <2>2
<1>4. ASSUME job'.op = "record", job'.pc # "done"
      PROVE  job'.event \notin Committed'
  <2>1. ASSUME NEW i \in Instance, NEW e \in Event, RecordStart(i, e),
               job'.event = e
        PROVE  job'.event \notin Committed'
    <3>1. holder = NoInstance /\ e \notin submitted /\ UNCHANGED checkpoint
      BY <2>1 DEF RecordStart, Acquire, disk
    <3>2. Committed' = Committed
      BY <3>1 DEF Committed, Chain
    <3> QED BY <1>1, <2>1, <3>1, <3>2
  <2>2. ASSUME job.op = "record", job'.event = job.event, job.pc # "done"
        PROVE  job'.event \notin Committed'
    <3>1. job.event \notin Committed
      BY <2>2 DEF IInv, CommittedOnce
    <3>2. ~RecordCommit
      BY <1>4 DEF RecordCommit, At, Goto, IInv, TypeOK
    <3>3. CASE RecoverCommit
      <4>1. PICK e \in submitted :
              /\ Chain' = Append(Chain, e)
              /\ active # Missing
              /\ \E k \in 1..Len(active) : active[k].event = e
        BY <3>3, ChainAdvances
      <4>2. e # job.event
        BY <2>2, <3>3, <4>1 DEF RecoverCommit, Recovering, IInv, CommittedOnce
      <4>3. Committed' = Committed \cup {e}
        BY <1>1, <1>2, <4>1, CommittedGrows
      <4> QED BY <2>2, <3>1, <4>2, <4>3
    <3>4. CASE ~RecoverCommit
      BY <2>2, <3>1, <3>2, <3>4, ChainKept DEF Committed
    <3> QED BY <3>3, <3>4
  <2> QED BY <1>4, <2>1, <2>2, RecordedEvent
<1>6. ASSUME job'.op = "record", job'.pc = "done"
      PROVE  job'.event \in Committed'
  <2>1. /\ job.op = "record" /\ job'.event = job.event
        /\ job.pc = "done" \/ RecordCommit
    BY <1>6, RecordedEvent
  <2>2. CASE RecordCommit
    <3>1. PICK e \in submitted : Chain' = Append(Chain, e) /\ e = job.event
      BY <2>2, ChainAdvances
    <3> QED BY <1>1, <1>2, <2>1, <3>1, CommittedGrows
  <2>3. CASE job.pc = "done"
    <3>1. ~RecordCommit /\ ~RecoverCommit
      BY <2>3 DEF RecordCommit, RecoverCommit, Recovering, At
    <3>2. job.event \in Committed
      BY <2>1, <2>3 DEF IInv, CommittedOnce
    <3> QED BY <2>1, <3>1, <3>2, ChainKept DEF Committed
  <2> QED BY <2>1, <2>2, <2>3
<1>5. ASSUME job'.op = "record",
             job'.pc \in {"recover", "recover_checkpoint"},
             active' # Missing, NEW k \in 1..Len(active')
      PROVE  active'[k].event # job'.event
  <2>1. ASSUME NEW i \in Instance, NEW e \in Event, RecordStart(i, e),
               job'.event = e
        PROVE  active'[k].event # job'.event
    <3>1. e \notin submitted /\ UNCHANGED active
      BY <2>1 DEF RecordStart, disk
    <3>2. active[k].event \in submitted
      BY <1>5, <3>1 DEF IInv, TailIsSuccessor
    <3> QED BY <2>1, <3>1, <3>2
  <2>2. ASSUME job.op = "record", job'.event = job.event, ~RecordAppend,
               job.pc \in {"recover", "recover_checkpoint"}
        PROVE  active'[k].event # job'.event
    <3>1. /\ active # Missing
          /\ k \in 1..Len(active)
          /\ active'[k] = active[k]
      BY <1>5, <2>2, ActiveRecords
    <3> QED BY <2>2, <3>1 DEF IInv, CommittedOnce
  <2> QED BY <1>5, <2>1, <2>2, RecordedEvent
<1> QED BY <1>3, <1>4, <1>5, <1>6 DEF CommittedOnce

\* A checkpoint goes aside only where the directory holds an archive or a
\* record, and stays aside.
LEMMA AsideNext == IInv /\ [Next]_vars => AsideIsRefused'
<1> SUFFICES ASSUME IInv, [Next]_vars
             PROVE  AsideIsRefused'
  OBVIOUS
<1> USE DEF IInv, TypeOK, JobIsCurrent, Working, JobOp, JobPc, NoJob, At, Goto,
            Release, Fail, disk, AsideIsRefused
<1>1. CASE UNCHANGED vars
  BY <1>1 DEF vars
<1>2. CASE UNCHANGED disk /\ job' = NoJob
  BY <1>2
<1>3. ASSUME NEW i \in Instance, CreateStart(i) PROVE AsideIsRefused'
  BY <1>3 DEF CreateStart, Acquire, CheckpointMissing
<1>4. ASSUME NEW i \in Instance, OpenStart(i) PROVE AsideIsRefused'
  BY <1>4 DEF OpenStart, Acquire, CheckpointMissing
<1>5. ASSUME NEW i \in Instance, NEW e \in Event, RecordStart(i, e)
      PROVE  AsideIsRefused'
  BY <1>5 DEF RecordStart, Acquire, CheckpointMissing
<1>6. ASSUME NEW i \in Instance, Crash(i) PROVE AsideIsRefused'
  BY <1>6 DEF Crash
<1>7. CASE CreateActive \/ CreateCheckpoint
  BY <1>7 DEF CreateActive, CreateCheckpoint
<1>8. CASE OpenArchives \/ OpenVerify
  BY <1>8 DEF OpenArchives, OpenVerify
<1>9. CASE RecoverNothing \/ RecoverCommit \/ RecoverRotation
  <2>1. job'.pc \in {"verify", "sign"} /\ UNCHANGED aside
    BY <1>9 DEF RecoverNothing, RecoverCommit, RecoverRotation, Recovered
  <2>2. ~aside
    BY <1>9 DEF RecoverNothing, RecoverCommit, RecoverRotation, Recovering
  <2> QED BY <2>1, <2>2
<1>10. ASSUME Recovering, IsInterruptedRotation(checkpoint)
       PROVE  DOMAIN archives # {}
  <2>1. checkpoint \in Checkpoint
    BY <1>10 DEF Recovering
  <2>2. checkpoint.active_segment \in Nat
    BY <2>1 DEF Checkpoint
  <2>3. checkpoint.active_segment \in DOMAIN archives
    BY <1>10, <2>2 DEF IsInterruptedRotation, Segments
  <2> QED BY <2>3
<1>11. CASE RecoverRotationActive
  BY <1>10, <1>11 DEF RecoverRotationActive, Recovering
<1>12. CASE RecordSign
  BY <1>12 DEF RecordSign
<1>13. CASE RotateRename
  <2>1. CASE job.cp.active_segment \notin DOMAIN archives
    <3>1. job.cp.active_segment \in DOMAIN archives'
      BY <1>13, <2>1 DEF RotateRename
    <3> QED BY <1>13, <2>1, <3>1 DEF RotateRename
  <2> QED BY <1>13, <2>1 DEF RotateRename
<1>14. CASE RotateReplace \/ RotateCheckpoint
  <2>1. UNCHANGED <<aside, archives>> /\ job'.pc \in {"rotate_checkpoint", "append"}
    BY <1>14 DEF RotateReplace, RotateCheckpoint
  <2>2. ~aside /\ DOMAIN archives # {}
    BY <1>14 DEF RotateReplace, RotateCheckpoint
  <2> QED BY <2>1, <2>2
<1>15. CASE RecordAppend
  <2>1. SignedRecord \in AuditRecord /\ active \in Seq(AuditRecord)
    BY <1>15 DEF RecordAppend, SignedRecord, sign_record, AuditRecord, Checkpoint
  <2>2. active' \in Seq(AuditRecord) /\ active' # <<>>
    BY <1>15, <2>1 DEF RecordAppend
  <2>3. active' \notin {Missing, <<>>}
    BY <2>2, FileAssumption
  <2> QED BY <1>15, <2>3 DEF RecordAppend
<1>16. CASE RecordSync \/ RecordCommit
  BY <1>16 DEF RecordSync, RecordCommit
<1>17. CASE RecoverRefused \/ Return \/ IoError \/ AppendTorn
  BY <1>17 DEF RecoverRefused, Return, IoError, AppendTorn
<1>18. CASE ReplaceInterrupted
  <2>1. DOMAIN archives # {} \/ active \notin {Missing, <<>>}
    <3>1. CASE Recovering /\ IsSuccessor(checkpoint)
      <4>1. checkpoint \in Checkpoint /\ active \in Seq(AuditRecord)
            /\ active # Missing
        BY <3>1 DEF Recovering, IsSuccessor, ActiveScans
      <4>2. Len(active) = checkpoint.active_record_count + 1
        BY <3>1, <4>1 DEF IsSuccessor, ActiveEntries, StartSequence, Checkpoint
      <4> QED BY <4>1, <4>2 DEF Checkpoint
    <3> QED BY <1>10, <1>18, <3>1 DEF ReplaceInterrupted, ReplacesCheckpoint
  <2>2. checkpoint # NoCheckpoint
    BY <1>18 DEF ReplaceInterrupted, ReplacesCheckpoint, Recovering
  <2> QED BY <1>18, <2>1, <2>2 DEF ReplaceInterrupted
<1>19. CASE DamageActive \/ DamageArchive
  <2>1. job = NoJob
    BY <1>19, SentinelAssumption DEF DamageActive, DamageArchive
  <2> QED BY <1>19, <2>1 DEF DamageActive, DamageArchive
<1> QED
  BY <1>1, <1>3, <1>4, <1>5, <1>6, <1>7, <1>8, <1>9, <1>11, <1>12, <1>13,
     <1>14, <1>15, <1>16, <1>17, <1>18, <1>19 DEF Next, Step

----------------------------------------------------------------------------
(* The theorems.                                                           *)

\* The invariant holds in an empty directory.
LEMMA IInvInit == Init => IInv
<1> SUFFICES ASSUME Init PROVE IInv
  OBVIOUS
<1>1. TypeOK
  BY TypeInit
<1>2. Chain = <<>> /\ Committed = {}
  BY DEF Init, Chain, Committed
<1>3. CountsAgree /\ JobIsCurrent
  BY DEF Init, NoJob, CountsAgree, JobIsCurrent, Working
<1>4. TailIsSuccessor /\ CommittedOnce
  BY <1>2 DEF Init, NoJob, TailIsSuccessor, CommittedOnce
<1>5. AsideIsRefused
  BY DEF Init, NoJob, AsideIsRefused
<1> QED BY <1>1, <1>3, <1>4, <1>5 DEF IInv

\* The inductive invariant holds in every reachable state: whatever crashes,
\* errors and damage occur, the active segment holds committed records and at
\* most successors of the chain, each of an event submitted and not yet
\* committed.
THEOREM AuditLogInvariant == Spec => []IInv
<1>1. IInv /\ [Next]_vars => IInv'
  <2> SUFFICES ASSUME IInv, [Next]_vars PROVE IInv'
    OBVIOUS
  <2>1. TypeOK'
    BY TypeNext DEF IInv
  <2> QED BY <2>1, CountsNext, JobNext, TailNext, OnceNext, AsideNext DEF IInv
<1> QED BY <1>1, IInvInit, PTL DEF Spec

\* Type correctness of the audit log in every reachable state.
THEOREM AuditLogTypeCorrect == Spec => []TypeOK
<1>1. IInv => TypeOK
  BY DEF IInv
<1> QED BY <1>1, AuditLogInvariant, PTL

\* A step of the log is a step of the abstract trail or leaves it alone.
LEMMA StepRefines ==
  ASSUME IInv, [Next]_vars
  PROVE  [Trail!TrailNext]_(Trail!trailVars)
<1> USE DEF Trail!TrailNext, Trail!trailVars
<1>1. CASE RecordCommit \/ RecoverCommit
  <2>1. PICK e \in submitted \ Committed : Chain' = Append(Chain, e)
    BY <1>1, ChainAdvances
  <2>2. UNCHANGED <<submitted, acked>>
    BY <1>1 DEF RecordCommit, RecoverCommit
  <2>3. Trail!Commit(e) /\ e \in Event
    BY <2>1, <2>2 DEF Trail!Commit, Trail!Committed, Committed, IInv, TypeOK
  <2> QED BY <2>3
<1>2. CASE ~RecordCommit /\ ~RecoverCommit
  <2>1. Chain' = Chain
    BY <1>2, ChainKept
  <2>2. ASSUME NEW i \in Instance, NEW e \in Event, RecordStart(i, e)
        PROVE  Trail!Submit(e)
    BY <2>1, <2>2 DEF RecordStart, Trail!Submit
  <2>3. CASE Return
    <3>1. CASE job.op = "record"
      <4>1. job.event \in Committed /\ job.event \in Event
        BY <2>3, <3>1
           DEF Return, IInv, CommittedOnce, JobIsCurrent, TypeOK
      <4>2. Trail!Acknowledge(job.event)
        BY <2>1, <2>3, <3>1, <4>1
           DEF Return, Trail!Acknowledge, Trail!Committed, Committed
      <4> QED BY <4>1, <4>2
    <3>2. CASE job.op # "record"
      BY <2>1, <2>3, <3>2 DEF Return
    <3> QED BY <3>1, <3>2
  <2>4. CASE UNCHANGED <<submitted, acked>>
    BY <2>1, <2>4
  <2> QED
    BY <1>2, <2>2, <2>3, <2>4
    DEF Next, Step, vars, disk, Fail, CreateStart, OpenStart, Crash,
        CreateActive, CreateCheckpoint, OpenArchives, OpenVerify,
        RecoverNothing, RecoverRotationActive, RecoverRotation,
        RecoverRefused, RecordSign, RotateRename, RotateReplace,
        RotateCheckpoint, RecordAppend, RecordSync, IoError, AppendTorn, ReplaceInterrupted,
        DamageActive, DamageArchive
<1> QED BY <1>1, <1>2

\* The audit log implements the abstract trail: committed events are only
\* ever appended, each once and only after record() received it, and record()
\* returns Ok only when the caller's own event is among them.
THEOREM AuditLogRefinesTrail == Spec => RefinesAuditTrail
<1>1. Init => Trail!TrailInit
  BY DEF Init, Trail!TrailInit, Chain
<1>2. IInv /\ [Next]_vars => [Trail!TrailNext]_(Trail!trailVars)
  BY StepRefines
<1> QED
  BY <1>1, <1>2, AuditLogInvariant, PTL
  DEF Spec, RefinesAuditTrail, Trail!TrailSpec

----------------------------------------------------------------------------
(* The inductive invariant of the directory.                               *)

\* The record is the one that stands at its place on the chain.
OfChain(r, chain) ==
  r.sequence < Len(chain) /\ Mac(r) = SubSeq(chain, 1, r.sequence + 1)

\* No archive holds a record that is not committed.
ArchivesAreOfChain ==
  \A s \in DOMAIN archives :
    \A k \in 1..Len(archives[s]) : OfChain(archives[s][k], Chain)

\* What is not committed in the active segment continues the chain, and
\* while record() is at work it is the record of that call.
ActiveIsOfChain ==
  active # Missing =>
    \A k \in 1..Len(active) :
      \/ OfChain(active[k], Chain)
      \/ /\ active[k].prev_mac = Chain
         /\ job.pc \in Working =>
              job.pc \in {"sync", "commit"} /\ active[k] = SignedRecord

\* What an operation knows of the active segment where it is in its code.
SegmentIsCurrent ==
  /\ job.pc = "archives" => job.cp = checkpoint
  /\ job.pc = "active" => active = Missing
  /\ job.pc \in {"checkpoint", "recover_checkpoint", "rotate_checkpoint"} =>
       active = <<>>
  /\ job.pc = "rename" => active # <<>>
  /\ job.pc = "replace" => active = Missing
  /\ job.pc \in {"sync", "commit"} =>
       active \notin {Missing, <<>>} /\ Last(active) = SignedRecord

\* Where the records of the archives before segment s end.
Before(s) ==
  IF s = 0 THEN [entries |-> 0, head_mac |-> GENESIS_PREV]
  ELSE [entries |-> Last(archives[s - 1]).sequence + 1,
        head_mac |-> Mac(Last(archives[s - 1]))]

\* The archives are a chain of files that each hold a record.
Linked ==
  \A s \in DOMAIN archives :
    /\ archives[s] # <<>>
    /\ ScansFrom(archives[s], Before(s).entries, Before(s).head_mac)

\* The active segment begins where the archives end.
MeetsBoundary(cp) ==
  /\ Before(cp.active_segment).entries = StartSequence(cp)
  /\ Before(cp.active_segment).head_mac = cp.active_start_prev_mac

\* No rotation is under way: the active segment holds the committed records
\* the checkpoint counts, and at most one more.
Settled(cp) ==
  /\ DOMAIN archives = Segments(cp.active_segment)
  /\ active # Missing
  /\ ScansFrom(active, StartSequence(cp), cp.active_start_prev_mac)
  /\ Len(active) \in {cp.active_record_count, cp.active_record_count + 1}
  /\ cp.head_mac = IF cp.active_record_count = 0
                   THEN cp.active_start_prev_mac
                   ELSE Mac(active[cp.active_record_count])

\* A rotation renamed the active segment and has not written its checkpoint.
Rotating(cp) ==
  /\ DOMAIN archives = Segments(cp.active_segment + 1)
  /\ active \in {Missing, <<>>}
  /\ Len(archives[cp.active_segment]) = cp.active_record_count
  /\ cp.head_mac = Mac(Last(archives[cp.active_segment]))

\* How far the operation under way has come with the directory.
Progress(cp) ==
  /\ job.pc \in {"verify", "sign", "rename", "append"} =>
       Settled(cp) /\ Len(active) = cp.active_record_count
  /\ job.pc \in {"sync", "commit"} =>
       Settled(cp) /\ Len(active) = cp.active_record_count + 1
  /\ job.pc \in {"recover_checkpoint", "replace", "rotate_checkpoint"} =>
       Rotating(cp)

\* The directory as crashes and I/O errors alone can leave it.
Whole ==
  damage = 0 =>
    /\ active = Missing \/ job.pc \in Working => ~torn
    /\ checkpoint = NoCheckpoint =>
         DOMAIN archives = {} /\ active \in {Missing, <<>>} /\ ~torn
    /\ checkpoint # NoCheckpoint =>
         /\ Linked
         /\ MeetsBoundary(checkpoint)
         /\ Settled(checkpoint) \/ (Rotating(checkpoint) /\ ~torn)
         /\ Progress(checkpoint)

\* The invariant behind the three invariants of the directory.
DirectoryInv ==
  /\ ArchivesAreOfChain
  /\ ActiveIsOfChain
  /\ SegmentIsCurrent
  /\ Whole
  /\ NothingLost

----------------------------------------------------------------------------
(* Lemmas about the directory.                                             *)

\* No operation is under way while nobody holds the lock.
LEMMA NoJobAtRest == IInv /\ holder = NoInstance => job = NoJob
  BY SentinelAssumption DEF IInv, JobIsCurrent

\* An empty segment has no bytes, so it is not rotated away.
LEMMA EmptyFileLen == FileLen(<<>>) = 0
<1> DEFINE Sum(f) == [n \in 0..Len(<<>>) |->
                        IF n = 0 THEN 0 ELSE f[n - 1] + Size[(<<>>)[n].event]]
           s == CHOOSE f : f = Sum(f)
<1>1. FileLen(<<>>) = s[Len(<<>>)]
  BY DEF FileLen
<1>2. 0..Len(<<>>) = {0}
  OBVIOUS
<1>3. [n \in {0} |-> 0] = Sum([n \in {0} |-> 0])
  BY <1>2
<1>4. s = Sum(s)
  <2> HIDE DEF Sum
  <2> QED BY <1>3
<1> QED BY <1>1, <1>2, <1>4

\* A record keeps its place when the chain grows.
LEMMA OfChainStays ==
  ASSUME NEW c \in History, NEW e \in Event, NEW r \in AuditRecord, OfChain(r, c)
  PROVE  OfChain(r, Append(c, e))
<1>1. r.sequence \in Nat /\ r.sequence + 1 <= Len(c)
  BY DEF OfChain, AuditRecord, History
<1>2. SubSeq(Append(c, e), 1, r.sequence + 1) = SubSeq(c, 1, r.sequence + 1)
  BY <1>1 DEF History
<1> QED BY <1>1, <1>2 DEF OfChain, History

\* The record that continues the chain stands at the end of the longer one.
LEMMA OfChainLast ==
  ASSUME NEW c \in History, NEW r \in AuditRecord,
         r.prev_mac = c, r.sequence = Len(c)
  PROVE  OfChain(r, Append(c, r.event))
<1>1. r.event \in Event
  BY DEF AuditRecord
<1>2. SubSeq(Append(c, r.event), 1, Len(c) + 1) = Append(c, r.event)
  BY <1>1 DEF History
<1> QED BY <1>1, <1>2 DEF OfChain, Mac, History

----------------------------------------------------------------------------
(* What an operation knows of the active segment.                          *)

\* Every step leaves the active segment as the next one expects it.
LEMMA SegmentNext ==
  IInv /\ SegmentIsCurrent /\ [Next]_vars => SegmentIsCurrent'
<1> SUFFICES ASSUME IInv, SegmentIsCurrent, [Next]_vars
             PROVE  SegmentIsCurrent'
  OBVIOUS
<1> USE DEF IInv, TypeOK, SegmentIsCurrent, JobIsCurrent, Working, JobOp, JobPc,
            NoJob, At, Goto, Release, Fail, disk
<1>1. CASE UNCHANGED vars
  BY <1>1 DEF vars, SignedRecord
<1>2. CASE job' = NoJob
  BY <1>2
<1>3. ASSUME NEW i \in Instance, CreateStart(i)
      PROVE  SegmentIsCurrent'
  BY <1>3 DEF CreateStart, Acquire
<1>4. ASSUME NEW i \in Instance, OpenStart(i)
      PROVE  SegmentIsCurrent'
  BY <1>4 DEF OpenStart, Acquire
<1>5. ASSUME NEW i \in Instance, NEW e \in Event, RecordStart(i, e)
      PROVE  SegmentIsCurrent'
  BY <1>5 DEF RecordStart, Acquire
<1>6. ASSUME NEW i \in Instance, Crash(i)
      PROVE  SegmentIsCurrent'
  BY <1>2, <1>6 DEF Crash, SignedRecord
<1>7. CASE CreateActive
  BY <1>7 DEF CreateActive
<1>8. CASE CreateCheckpoint
  BY <1>8 DEF CreateCheckpoint
<1>9. CASE OpenArchives
  BY <1>9 DEF OpenArchives
<1>10. CASE OpenVerify
  BY <1>10 DEF OpenVerify
<1>11. CASE RecoverNothing \/ RecoverCommit \/ RecoverRotation
  <2>1. job'.pc \in {"verify", "sign"}
    BY <1>11 DEF RecoverNothing, RecoverCommit, RecoverRotation, Recovered
  <2> QED BY <2>1
<1>12. CASE RecoverRotationActive
  BY <1>12 DEF RecoverRotationActive
<1>13. CASE RecordSign
  <2>1. ASSUME NeedsRotation PROVE active # <<>>
    BY <2>1, EmptyFileLen DEF NeedsRotation
  <2> QED BY <1>13, <2>1 DEF RecordSign
<1>14. CASE RotateRename
  BY <1>14 DEF RotateRename
<1>15. CASE RotateReplace
  BY <1>15 DEF RotateReplace
<1>16. CASE RotateCheckpoint
  BY <1>16 DEF RotateCheckpoint
<1>17. CASE RecordAppend
  <2>1. active \in Seq(AuditRecord) /\ active' = Append(active, SignedRecord)
    BY <1>17 DEF RecordAppend
  <2>2. SignedRecord \in AuditRecord
    BY <1>17 DEF RecordAppend, SignedRecord, sign_record, AuditRecord, Checkpoint
  <2>3. active' \in Seq(AuditRecord) /\ active' # <<>> /\ Last(active') = SignedRecord
    BY <2>1, <2>2 DEF Last
  <2>4. SignedRecord' = SignedRecord
    BY <1>17 DEF RecordAppend, SignedRecord
  <2>5. active' # Missing
    BY <2>3, FileAssumption
  <2>6. job'.pc = "sync"
    BY <1>17 DEF RecordAppend
  <2>7. Last(active)' = SignedRecord'
    BY <2>3, <2>4 DEF Last
  <2> QED BY <2>3, <2>5, <2>6, <2>7
<1>18. CASE RecordSync
  BY <1>18 DEF RecordSync, SignedRecord
<1>19. CASE RecordCommit
  BY <1>19 DEF RecordCommit
<1>20. CASE DamageActive \/ DamageArchive
  BY <1>2, <1>20, NoJobAtRest DEF DamageActive, DamageArchive
<1>21. CASE RecoverRefused \/ Return \/ IoError \/ AppendTorn \/ ReplaceInterrupted
  BY <1>2, <1>21 DEF RecoverRefused, Return, IoError, AppendTorn, ReplaceInterrupted
<1> QED
  BY <1>1, <1>3, <1>4, <1>5, <1>6, <1>7, <1>8, <1>9, <1>10, <1>11, <1>12, <1>13,
     <1>14, <1>15, <1>16, <1>17, <1>18, <1>19, <1>20, <1>21
  DEF Next, Step

----------------------------------------------------------------------------
(* Every stored record is of the chain.                                    *)

\* No step moves a committed record from its place on the chain.
LEMMA KeepsItsPlace ==
  ASSUME IInv, [Next]_vars, NEW r \in AuditRecord, OfChain(r, Chain)
  PROVE  OfChain(r, Chain')
<1>1. Chain \in History /\ submitted \subseteq Event
  BY ChainType DEF IInv, TypeOK
<1>2. CASE RecordCommit \/ RecoverCommit
  <2>1. PICK e \in submitted : Chain' = Append(Chain, e)
    BY <1>2, ChainAdvances
  <2> QED BY <1>1, <2>1, OfChainStays
<1>3. CASE ~RecordCommit /\ ~RecoverCommit
  BY <1>3, ChainKept
<1> QED BY <1>2, <1>3

\* A record that is not of the chain continues it.
LEMMA BeyondTheChain ==
  ASSUME IInv, ActiveIsOfChain, active # Missing, NEW k \in 1..Len(active)
  PROVE  /\ active[k] \in AuditRecord
         /\ \/ OfChain(active[k], Chain)
            \/ active[k].prev_mac = Chain /\ active[k].sequence = Len(Chain)
<1>1. active \in Seq(AuditRecord)
  BY DEF IInv, TypeOK
<1>2. active[k] \in AuditRecord
  BY <1>1
<1> QED BY <1>2 DEF IInv, TailIsSuccessor, ActiveIsOfChain

\* A segment that scans up to the checkpoint holds committed records only.
LEMMA ScannedIsOfChain ==
  ASSUME IInv, ActiveIsOfChain, checkpoint # NoCheckpoint,
         verify_active_against(checkpoint), NEW k \in 1..Len(active)
  PROVE  OfChain(active[k], Chain)
<1>1. active # Missing /\ active \in Seq(AuditRecord)
  BY DEF verify_active_against, ActiveScans, IInv, TypeOK
<1>2. checkpoint \in Checkpoint
  BY DEF IInv, TypeOK
<1>3. /\ active[k].sequence = StartSequence(checkpoint) + k - 1
      /\ StartSequence(checkpoint) + Len(active) = checkpoint.record_count
  BY DEF verify_active_against, ActiveScans, ScansFrom, ActiveEntries
<1>4. StartSequence(checkpoint) \in Int /\ Len(active) \in Nat
      /\ checkpoint.record_count \in Nat
  BY <1>1, <1>2 DEF StartSequence, Checkpoint
<1>5. checkpoint.record_count = Len(Chain)
  BY DEF IInv, CountsAgree, Chain
<1>6. active[k].sequence # Len(Chain)
  BY <1>3, <1>4, <1>5
<1> QED BY <1>1, <1>6, BeyondTheChain

\* The one record that recover_interrupted_commit accepts ends the new chain.
LEMMA RecoveredIsOfChain ==
  ASSUME IInv, ActiveIsOfChain, [Next]_vars, RecoverCommit,
         NEW k \in 1..Len(active)
  PROVE  OfChain(active[k], Chain')
<1>1. active # Missing /\ active \in Seq(AuditRecord)
  BY DEF RecoverCommit, IsSuccessor, ActiveScans, IInv, TypeOK
<1>2. checkpoint \in Checkpoint /\ checkpoint # NoCheckpoint
  BY DEF RecoverCommit, Recovering, IInv, TypeOK, JobIsCurrent, JobOp, NoJob
<1>3. Chain \in History
  BY ChainType DEF IInv
<1>4. CASE OfChain(active[k], Chain)
  BY <1>1, <1>4, BeyondTheChain, KeepsItsPlace
<1>5. CASE active[k].prev_mac = Chain /\ active[k].sequence = Len(Chain)
  <2>1. /\ active[k].sequence = StartSequence(checkpoint) + k - 1
        /\ StartSequence(checkpoint) + Len(active) = checkpoint.record_count + 1
    BY DEF RecoverCommit, IsSuccessor, ActiveScans, ScansFrom, ActiveEntries
  <2>2. StartSequence(checkpoint) \in Int /\ Len(active) \in Nat
        /\ checkpoint.record_count \in Nat
    BY <1>1, <1>2 DEF StartSequence, Checkpoint
  <2>3. checkpoint.record_count = Len(Chain)
    BY <1>2 DEF IInv, CountsAgree, Chain
  <2>4. k = Len(active)
    <3>1. StartSequence(checkpoint) + k - 1 = checkpoint.record_count
      BY <1>5, <2>1, <2>3
    <3>2. k \in Int
      BY <2>2
    <3> QED BY <2>1, <2>2, <3>1, <3>2
  <2>5. checkpoint' # NoCheckpoint
    BY WritesCheckpoint, FileAssumption DEF IInv
  <2>6. Chain' = Mac(active[k])
    BY <1>1, <2>4, <2>5
       DEF RecoverCommit, Chain, Advanced, signed, ActiveHead, EndMac, Last
  <2>7. Chain' = Append(Chain, active[k].event)
    BY <1>5, <2>6 DEF Mac
  <2> QED BY <1>1, <1>3, <1>5, <2>7, OfChainLast
<1> QED BY <1>1, <1>4, <1>5, BeyondTheChain

\* Rotation and damage bring no record into an archive but committed ones.
LEMMA ArchivesNext ==
  IInv /\ ArchivesAreOfChain /\ ActiveIsOfChain /\ [Next]_vars
    => ArchivesAreOfChain'
<1> SUFFICES ASSUME IInv, ArchivesAreOfChain, ActiveIsOfChain, [Next]_vars,
                    NEW s \in DOMAIN archives', NEW k \in 1..Len(archives'[s])
             PROVE  OfChain(archives'[s][k], Chain')
  BY DEF ArchivesAreOfChain
<1>1. archives \in [DOMAIN archives -> Seq(AuditRecord)]
  BY DEF IInv, TypeOK
<1>2. CASE /\ s \in DOMAIN archives /\ k \in 1..Len(archives[s])
           /\ archives'[s][k] = archives[s][k]
  <2>1. archives[s] \in Seq(AuditRecord)
    BY <1>1, <1>2
  <2>2. archives[s][k] \in AuditRecord
    BY <1>2, <2>1
  <2>3. OfChain(archives[s][k], Chain)
    BY <1>2 DEF ArchivesAreOfChain
  <2> QED BY <1>2, <2>2, <2>3, KeepsItsPlace
<1>3. CASE RotateRename
  <2>1. CASE Fail
    BY <1>2, <2>1 DEF Fail, disk
  <2>2. CASE ~Fail
    <3>1. /\ archives' = [t \in DOMAIN archives \cup {job.cp.active_segment} |->
                            IF t = job.cp.active_segment THEN active
                            ELSE archives[t]]
          /\ active # Missing
      BY <1>3, <2>2 DEF RotateRename
    <3>2. CASE s # job.cp.active_segment
      BY <1>2, <3>1, <3>2
    <3>3. CASE s = job.cp.active_segment
      <4>1. archives'[s] = active /\ k \in 1..Len(active)
        BY <3>1, <3>3
      <4>2. job.pc = "rename"
        BY <1>3 DEF RotateRename, At
      <4>3. OfChain(active[k], Chain)
        BY <3>1, <4>1, <4>2 DEF ActiveIsOfChain, Working
      <4>4. active[k] \in AuditRecord
        BY <3>1, <4>1, BeyondTheChain
      <4> QED BY <4>1, <4>3, <4>4, KeepsItsPlace
    <3> QED BY <3>2, <3>3
  <2> QED BY <2>1, <2>2
<1>4. CASE DamageArchive
  <2>1. PICK d \in DOMAIN archives :
          \/ archives' = [t \in DOMAIN archives \ {d} |-> archives[t]]
          \/ \E n \in 0..Len(archives[d]) :
               archives' = [archives EXCEPT ![d] = SubSeq(@, 1, n)]
    BY <1>4 DEF DamageArchive
  <2>2. CASE archives' = [t \in DOMAIN archives \ {d} |-> archives[t]]
    BY <1>2, <2>2
  <2>3. ASSUME NEW n \in 0..Len(archives[d]),
               archives' = [archives EXCEPT ![d] = SubSeq(@, 1, n)]
        PROVE  OfChain(archives'[s][k], Chain')
    <3>1. archives[d] \in Seq(AuditRecord) /\ s \in DOMAIN archives
      BY <1>1, <2>3
    <3>2. CASE s # d
      BY <1>2, <2>3, <3>1, <3>2
    <3>3. CASE s = d
      <4>1. archives'[s] = SubSeq(archives[d], 1, n)
        BY <2>3, <3>3
      <4>2. /\ Len(archives'[s]) = n
            /\ \A j \in 1..n : archives'[s][j] = archives[d][j]
        BY <3>1, <4>1, PrefixOfFile
      <4>3. k \in 1..Len(archives[d])
        BY <3>1, <4>2
      <4> QED BY <1>2, <3>1, <3>3, <4>2, <4>3
    <3> QED BY <3>2, <3>3
  <2> QED BY <2>1, <2>2, <2>3
<1>5. CASE UNCHANGED archives
  BY <1>2, <1>5
<1> QED
  BY <1>3, <1>4, <1>5
  DEF Next, Step, vars, disk, Fail, CreateStart, OpenStart, RecordStart, Crash,
      CreateActive, CreateCheckpoint, OpenArchives, OpenVerify,
      RecoverNothing, RecoverCommit, RecoverRotationActive, RecoverRotation,
      RecoverRefused, RecordSign, RotateReplace, RotateCheckpoint,
      RecordAppend, RecordSync, RecordCommit, Return, IoError, AppendTorn, ReplaceInterrupted,
      DamageActive

\* Where record() is at work after a step, it was before or has just recovered.
LEMMA WorkBegins ==
  ASSUME IInv, [Next]_vars, job'.pc \in Working
  PROVE  \/ /\ job.pc \in Working /\ job.cp = checkpoint
            /\ SignedRecord' = SignedRecord \/ RotateCheckpoint
            /\ job'.pc \in {"sync", "commit"} =>
                 RecordAppend \/ job.pc \in {"sync", "commit"}
            /\ job'.pc \notin {"sync", "commit"} =>
                 job.pc \notin {"sync", "commit"}
         \/ RecoverNothing \/ RecoverCommit \/ RecoverRotation
<1> USE DEF IInv, TypeOK, JobIsCurrent, Working, JobOp, JobPc, NoJob, At, Goto,
            Release, Fail, disk, SignedRecord
<1>1. CASE UNCHANGED vars
  BY <1>1 DEF vars
<1>2. job' # NoJob
  OBVIOUS
<1>3. ASSUME NEW i \in Instance, CreateStart(i) PROVE FALSE
  BY <1>3 DEF CreateStart, Acquire
<1>4. ASSUME NEW i \in Instance, OpenStart(i) PROVE FALSE
  BY <1>4 DEF OpenStart, Acquire
<1>5. ASSUME NEW i \in Instance, NEW e \in Event, RecordStart(i, e) PROVE FALSE
  BY <1>5 DEF RecordStart, Acquire
<1>6. ASSUME NEW i \in Instance, Crash(i) PROVE UNCHANGED job
  BY <1>2, <1>6 DEF Crash
<1>7. ~(CreateActive \/ CreateCheckpoint \/ OpenArchives \/ OpenVerify)
  BY DEF CreateActive, CreateCheckpoint, OpenArchives, OpenVerify
<1>8. ~RecoverRotationActive /\ ~RecordCommit
  BY DEF RecoverRotationActive, RecordCommit
<1>9. CASE RecordSign \/ RotateRename \/ RotateReplace
  <2>1. job.pc \in {"sign", "rename", "replace"}
    BY <1>9 DEF RecordSign, RotateRename, RotateReplace
  <2>2. /\ job'.pc \in {"rename", "append", "replace", "rotate_checkpoint"}
        /\ job'.cp = job.cp /\ job'.event = job.event
    BY <1>2, <1>9 DEF RecordSign, RotateRename, RotateReplace
  <2> QED BY <2>1, <2>2
<1>10. CASE RotateCheckpoint
  BY <1>10 DEF RotateCheckpoint
<1>11. CASE RecordAppend \/ RecordSync
  BY <1>11 DEF RecordAppend, RecordSync
<1>12. CASE DamageActive \/ DamageArchive
  BY <1>12 DEF DamageActive, DamageArchive
<1>13. ~(RecoverRefused \/ Return \/ IoError \/ AppendTorn \/ ReplaceInterrupted)
  BY <1>2 DEF RecoverRefused, Return, IoError, AppendTorn, ReplaceInterrupted
<1> QED
  BY <1>1, <1>3, <1>4, <1>5, <1>6, <1>7, <1>8, <1>9, <1>10, <1>11, <1>12, <1>13
  DEF Next, Step

\* Only the record that record() signed reaches beyond the chain.
LEMMA ActiveNext ==
  IInv /\ SegmentIsCurrent /\ ActiveIsOfChain /\ [Next]_vars => ActiveIsOfChain'
<1> SUFFICES ASSUME IInv, SegmentIsCurrent, ActiveIsOfChain, [Next]_vars,
                    active' # Missing, NEW k \in 1..Len(active')
             PROVE  \/ OfChain(active'[k], Chain')
                    \/ /\ active'[k].prev_mac = Chain'
                       /\ job'.pc \in Working =>
                            /\ job'.pc \in {"sync", "commit"}
                            /\ active'[k] = SignedRecord'
  BY DEF ActiveIsOfChain
<1>1. CASE RecordAppend /\ active'[k] = SignedRecord
  <2>1. job.cp = checkpoint /\ checkpoint # NoCheckpoint /\ job'.pc = "sync"
        /\ SignedRecord' = SignedRecord
    BY <1>1 DEF RecordAppend, At, Goto, IInv, TypeOK, JobIsCurrent, Working,
                SignedRecord
  <2>2. ~RecordCommit /\ ~RecoverCommit
    BY <1>1 DEF RecordAppend, RecordCommit, RecoverCommit, Recovering, At
  <2>3. SignedRecord.prev_mac = Chain'
    BY <2>1, <2>2, ChainKept DEF SignedRecord, sign_record, Chain
  <2> QED BY <1>1, <2>1, <2>3
<1>2. CASE /\ active # Missing
           /\ k \in 1..Len(active)
           /\ active'[k] = active[k]
  <2>1. active[k] \in AuditRecord
    BY <1>2, BeyondTheChain
  <2>2. CASE OfChain(active[k], Chain)
    BY <1>2, <2>1, <2>2, KeepsItsPlace
  <2>3. CASE /\ active[k].prev_mac = Chain
             /\ active[k].sequence = Len(Chain)
             /\ job.pc \in Working =>
                  job.pc \in {"sync", "commit"} /\ active[k] = SignedRecord
    <3>1. CASE RecoverCommit
      BY <1>2, <3>1, RecoveredIsOfChain
    <3>2. CASE RecordCommit
      <4>1. active[k] = SignedRecord /\ job.cp = checkpoint
        BY <2>3, <3>2 DEF RecordCommit, At, Working, IInv, JobIsCurrent
      <4>2. checkpoint' # NoCheckpoint
        BY <3>2, WritesCheckpoint, FileAssumption DEF IInv
      <4>3. Chain' = Mac(active[k])
        BY <3>2, <4>1, <4>2 DEF RecordCommit, Chain, Advanced, signed
      <4>4. Chain' = Append(Chain, active[k].event)
        BY <2>3, <4>3 DEF Mac
      <4>5. Chain \in History
        BY ChainType DEF IInv
      <4> QED BY <1>2, <2>1, <2>3, <4>4, <4>5, OfChainLast
    <3>3. CASE ~RecoverCommit /\ ~RecordCommit
      <4>1. Chain' = Chain
        BY <3>3, ChainKept
      <4>2. ASSUME job'.pc \in Working
            PROVE  /\ job'.pc \in {"sync", "commit"}
                   /\ active[k] = SignedRecord'
        <5>1. ~RecoverNothing
          <6> SUFFICES ASSUME RecoverNothing PROVE FALSE
            OBVIOUS
          <6>1. checkpoint # NoCheckpoint /\ verify_active_against(checkpoint)
            BY DEF RecoverNothing, Recovering, IInv, TypeOK, JobIsCurrent, JobOp,
                   NoJob
          <6>2. OfChain(active[k], Chain)
            BY <1>2, <6>1, ScannedIsOfChain
          <6> QED BY <2>1, <2>3, <6>2 DEF OfChain, AuditRecord
        <5>2. ~RecoverRotation
          <6> SUFFICES ASSUME RecoverRotation PROVE FALSE
            OBVIOUS
          <6>1. active = <<>>
            BY <1>2 DEF RecoverRotation, SegmentIsCurrent, IsInterruptedRotation
          <6> QED BY <1>2, <6>1
        <5>3. /\ job.pc \in Working
              /\ SignedRecord' = SignedRecord \/ RotateCheckpoint
              /\ job'.pc \notin {"sync", "commit"} =>
                   job.pc \notin {"sync", "commit"}
          BY <3>3, <4>2, <5>1, <5>2, WorkBegins
        <5>4. ~RotateCheckpoint
          BY <1>2 DEF RotateCheckpoint, At, SegmentIsCurrent
        <5> QED BY <2>3, <5>3, <5>4
      <4> QED BY <1>2, <2>3, <4>1, <4>2
    <3> QED BY <3>1, <3>2, <3>3
  <2>4. \/ OfChain(active[k], Chain)
        \/ /\ active[k].prev_mac = Chain
           /\ active[k].sequence = Len(Chain)
           /\ job.pc \in Working =>
                job.pc \in {"sync", "commit"} /\ active[k] = SignedRecord
    BY <1>2, BeyondTheChain DEF ActiveIsOfChain
  <2> QED BY <2>2, <2>3, <2>4
<1> QED BY <1>1, <1>2, ActiveRecords

----------------------------------------------------------------------------
(* The directory stays whole.                                              *)

\* The records of an archive up to the active segment.
LEMMA LinkedEnd ==
  ASSUME IInv, Linked, checkpoint # NoCheckpoint, MeetsBoundary(checkpoint),
         Rotating(checkpoint)
  PROVE  /\ checkpoint.active_record_count > 0
         /\ Last(archives[checkpoint.active_segment]).sequence + 1
              = checkpoint.record_count
<1> DEFINE n == checkpoint.active_segment
           f == archives[n]
<1>1. checkpoint \in Checkpoint
  BY DEF IInv, TypeOK
<1>2. n \in Nat /\ n \in DOMAIN archives
  BY <1>1 DEF Rotating, Segments, Checkpoint
<1>3. f \in Seq(AuditRecord) /\ f # <<>>
  BY <1>2 DEF IInv, TypeOK, Linked
<1>4. ScansFrom(f, StartSequence(checkpoint), checkpoint.active_start_prev_mac)
  BY <1>2 DEF Linked, MeetsBoundary
<1>5. Len(f) = checkpoint.active_record_count /\ Len(f) \in Nat /\ Len(f) > 0
  BY <1>3 DEF Rotating
<1>6. f[Len(f)].sequence = StartSequence(checkpoint) + Len(f) - 1
  BY <1>4, <1>5 DEF ScansFrom
<1> QED BY <1>1, <1>5, <1>6 DEF Last, StartSequence, Checkpoint

\* The checkpoint that ends a rotation describes the new, empty segment.
LEMMA RotatedSettles ==
  ASSUME IInv, Linked, checkpoint # NoCheckpoint, MeetsBoundary(checkpoint),
         Rotating(checkpoint), checkpoint' = Rotated(checkpoint),
         active = <<>>, UNCHANGED <<active, archives>>
  PROVE  /\ MeetsBoundary(checkpoint)'
         /\ Settled(checkpoint)'
         /\ Len(active)' = checkpoint'.active_record_count
<1> DEFINE n == checkpoint.active_segment
<1>1. checkpoint \in Checkpoint /\ n \in Nat
  BY DEF IInv, TypeOK, Checkpoint
<1>2. /\ checkpoint'.record_count = checkpoint.record_count
      /\ checkpoint'.head_mac = checkpoint.head_mac
      /\ checkpoint'.active_segment = n + 1
      /\ checkpoint'.active_record_count = 0
      /\ checkpoint'.active_start_prev_mac = checkpoint.head_mac
  BY DEF Rotated, signed
<1>3. StartSequence(checkpoint') = checkpoint.record_count
  BY <1>1, <1>2 DEF StartSequence, Checkpoint
<1>4. /\ Before(n + 1).entries = checkpoint.record_count
      /\ Before(n + 1).head_mac = checkpoint.head_mac
  BY <1>1, LinkedEnd DEF Before, Rotating
<1>5. Before(checkpoint.active_segment)' = Before(n + 1)
  BY <1>2 DEF Before
<1>6. MeetsBoundary(checkpoint)'
  BY <1>2, <1>3, <1>4, <1>5 DEF MeetsBoundary
<1>7. active' = <<>> /\ <<>> \in Seq(AuditRecord) /\ Len(active)' = 0
  OBVIOUS
<1>8. active' # Missing
  BY <1>7, FileAssumption
<1>9. Settled(checkpoint)'
  BY <1>2, <1>7, <1>8 DEF Settled, ScansFrom, Rotating
<1> QED BY <1>2, <1>6, <1>7, <1>9

\* The checkpoint that commits the last record of the active segment.
LEMMA AdvancedSettles ==
  ASSUME IInv, checkpoint # NoCheckpoint, MeetsBoundary(checkpoint),
         Settled(checkpoint),
         Len(active) = checkpoint.active_record_count + 1,
         checkpoint' = Advanced(checkpoint, Mac(Last(active))),
         UNCHANGED <<active, archives>>
  PROVE  /\ MeetsBoundary(checkpoint)'
         /\ Settled(checkpoint)'
         /\ Len(active)' = checkpoint'.active_record_count
<1>1. checkpoint \in Checkpoint
  BY DEF IInv, TypeOK
<1>2. /\ checkpoint'.record_count = checkpoint.record_count + 1
      /\ checkpoint'.head_mac = Mac(Last(active))
      /\ checkpoint'.active_segment = checkpoint.active_segment
      /\ checkpoint'.active_record_count = checkpoint.active_record_count + 1
      /\ checkpoint'.active_start_prev_mac = checkpoint.active_start_prev_mac
  BY DEF Advanced, signed
<1>3. StartSequence(checkpoint') = StartSequence(checkpoint)
  BY <1>1, <1>2 DEF StartSequence, Checkpoint
<1>4. Before(checkpoint.active_segment)' = Before(checkpoint.active_segment)
  BY <1>2 DEF Before
<1>5. MeetsBoundary(checkpoint)'
  BY <1>2, <1>3, <1>4 DEF MeetsBoundary
<1>6. checkpoint'.active_record_count # 0
  BY <1>1, <1>2 DEF Checkpoint
<1>7. checkpoint'.head_mac = Mac(active'[checkpoint'.active_record_count])
  BY <1>2 DEF Last
<1>8. Settled(checkpoint)'
  BY <1>2, <1>3, <1>6, <1>7 DEF Settled
<1> QED BY <1>2, <1>5, <1>8

\* A segment that verifies against the checkpoint belongs to a settled
\* directory, and so does one with a successor; an interrupted rotation is
\* what its files say it is.
LEMMA RecoveryReads ==
  ASSUME IInv, Linked, checkpoint # NoCheckpoint, MeetsBoundary(checkpoint),
         Settled(checkpoint) \/ Rotating(checkpoint)
  PROVE  /\ verify_active_against(checkpoint) =>
              /\ Settled(checkpoint)
              /\ Len(active) = checkpoint.active_record_count
         /\ IsSuccessor(checkpoint) =>
              /\ Settled(checkpoint)
              /\ Len(active) = checkpoint.active_record_count + 1
         /\ IsInterruptedRotation(checkpoint) => Rotating(checkpoint)
<1>1. checkpoint \in Checkpoint
  BY DEF IInv, TypeOK
<1> DEFINE start == StartSequence(checkpoint)
           count == checkpoint.active_record_count
<1>2. count \in Nat /\ start + count = checkpoint.record_count /\ start \in Int
  BY <1>1 DEF StartSequence, Checkpoint
<1>3. ASSUME active # Missing PROVE Len(active) \in Nat
  BY <1>3 DEF IInv, TypeOK
<1>4. CASE Rotating(checkpoint)
  <2>1. count > 0
    BY <1>4, LinkedEnd
  <2>2. ASSUME active # Missing PROVE Len(active) = 0
    BY <1>4, <2>2 DEF Rotating
  <2>3. ~verify_active_against(checkpoint)
    BY <1>2, <2>1, <2>2 DEF verify_active_against, ActiveScans, ActiveEntries
  <2>4. ~IsSuccessor(checkpoint)
    BY <1>2, <2>1, <2>2 DEF IsSuccessor, ActiveScans, ActiveEntries
  <2> QED BY <1>4, <2>3, <2>4
<1>5. CASE Settled(checkpoint)
  <2>1. verify_active_against(checkpoint) => Len(active) = count
    BY <1>2, <1>3 DEF verify_active_against, ActiveScans, ActiveEntries
  <2>2. IsSuccessor(checkpoint) => Len(active) = count + 1
    BY <1>2, <1>3 DEF IsSuccessor, ActiveScans, ActiveEntries
  <2>3. ~IsInterruptedRotation(checkpoint)
    <3>1. checkpoint.active_segment \in Nat
      BY <1>1 DEF Checkpoint
    <3>2. Segments(checkpoint.active_segment)
            # Segments(checkpoint.active_segment + 1)
      BY <3>1 DEF Segments
    <3> QED BY <1>5, <3>2 DEF Settled, IsInterruptedRotation
  <2> QED BY <1>5, <2>1, <2>2, <2>3
<1> QED BY <1>4, <1>5

\* The invariants of the directory do not look at the lock or the callers.
LEMMA SameDirectory ==
  ASSUME UNCHANGED <<active, archives, checkpoint>>
  PROVE  /\ Linked' = Linked
         /\ MeetsBoundary(checkpoint)' = MeetsBoundary(checkpoint)
         /\ Settled(checkpoint)' = Settled(checkpoint)
         /\ Rotating(checkpoint)' = Rotating(checkpoint)
<1>1. Linked' = Linked
  BY DEF Linked, Before
<1>2. MeetsBoundary(checkpoint)' = MeetsBoundary(checkpoint)
  BY DEF MeetsBoundary, Before
<1>3. Settled(checkpoint)' = Settled(checkpoint)
  BY DEF Settled
<1>4. Rotating(checkpoint)' = Rotating(checkpoint)
  BY DEF Rotating
<1> QED BY <1>1, <1>2, <1>3, <1>4

\* The links between the archives do not depend on the other files.
LEMMA SameArchives ==
  ASSUME UNCHANGED archives
  PROVE  Linked' = Linked
  BY DEF Linked, Before

\* An operation that is neither verifying nor at work claims nothing.
LEMMA WholeAtRest ==
  ASSUME Whole, UNCHANGED <<active, torn, archives, checkpoint>>, damage' = damage,
         job'.pc \notin Working \cup {"verify", "recover_checkpoint"}
  PROVE  Whole'
<1>1. Progress(checkpoint)'
  BY DEF Progress, Working
<1> QED BY <1>1, SameDirectory DEF Whole

\* The steps that create the log.
LEMMA CreateWhole ==
  ASSUME IInv, SegmentIsCurrent, Whole, CreateActive \/ CreateCheckpoint
  PROVE  Whole'
<1> SUFFICES ASSUME damage' = 0 PROVE Whole'
  BY DEF Whole
<1>1. damage = 0 /\ checkpoint = NoCheckpoint
  BY DEF CreateActive, CreateCheckpoint, At, IInv, JobIsCurrent
<1>2. DOMAIN archives = {} /\ ~torn
  BY <1>1 DEF Whole
<1>3. CASE CreateActive
  BY <1>1, <1>2, <1>3
     DEF CreateActive, Whole, Goto, IInv, TypeOK, Working
<1>4. CASE CreateCheckpoint
  <2>1. active = <<>> /\ checkpoint' = genesis /\ UNCHANGED <<active, archives, torn>>
    BY <1>4 DEF CreateCheckpoint, At, SegmentIsCurrent
  <2>2. checkpoint' # NoCheckpoint
    BY <2>1, GenesisType, FileAssumption
  <2>3. <<>> \in Seq(AuditRecord)
    OBVIOUS
  <2>4. active' # Missing
    BY <2>1, <2>3, FileAssumption
  <2>5. DOMAIN archives' = {} /\ Linked'
    BY <1>2, <2>1 DEF Linked
  <2>6. /\ checkpoint'.record_count = 0 /\ checkpoint'.active_segment = 0
        /\ checkpoint'.active_record_count = 0
        /\ checkpoint'.head_mac = GENESIS_PREV
        /\ checkpoint'.active_start_prev_mac = GENESIS_PREV
        /\ StartSequence(checkpoint') = 0
    BY <2>1 DEF genesis, signed, StartSequence
  <2>7. MeetsBoundary(checkpoint)'
    BY <2>6 DEF MeetsBoundary, Before
  <2>8. Settled(checkpoint)'
    BY <2>1, <2>4, <2>5, <2>6 DEF Settled, ScansFrom, Segments
  <2>9. job'.pc = "done"
    BY <1>4 DEF CreateCheckpoint, Goto, IInv, TypeOK
  <2>10. Progress(checkpoint)'
    BY <2>9 DEF Progress
  <2> QED BY <1>2, <2>1, <2>2, <2>4, <2>5, <2>7, <2>8, <2>9, <2>10
          DEF Whole, Working
<1> QED BY <1>3, <1>4

\* What Whole says of an undamaged directory with a checkpoint.
LEMMA WholeParts ==
  ASSUME Whole, damage = 0, checkpoint # NoCheckpoint
  PROVE  /\ Linked
         /\ MeetsBoundary(checkpoint)
         /\ Settled(checkpoint) \/ (Rotating(checkpoint) /\ ~torn)
         /\ Progress(checkpoint)
         /\ active = Missing \/ job.pc \in Working => ~torn
  BY DEF Whole

\* recover_interrupted_commit finishes what a crash interrupted.
LEMMA RecoverWhole ==
  ASSUME IInv, SegmentIsCurrent, Whole,
         \/ RecoverNothing \/ RecoverCommit
         \/ RecoverRotationActive \/ RecoverRotation
  PROVE  Whole'
<1> SUFFICES ASSUME damage' = 0 PROVE Whole'
  BY DEF Whole
<1>1. damage = 0 /\ checkpoint # NoCheckpoint /\ checkpoint \in Checkpoint
  BY DEF RecoverNothing, RecoverCommit, RecoverRotationActive, RecoverRotation,
         Recovering, IInv, TypeOK, JobIsCurrent, JobOp, NoJob
<1>2. /\ Linked
      /\ MeetsBoundary(checkpoint)
      /\ Settled(checkpoint) \/ (Rotating(checkpoint) /\ ~torn)
      /\ Progress(checkpoint)
      /\ active = Missing => ~torn
  BY <1>1, WholeParts
<1>3. CASE RecoverNothing
  <2>1. Settled(checkpoint) /\ Len(active) = checkpoint.active_record_count
    BY <1>1, <1>2, <1>3, RecoveryReads DEF RecoverNothing
  <2>2. UNCHANGED <<active, archives, checkpoint, torn>> /\ ~torn
        /\ active # Missing
    BY <1>3 DEF RecoverNothing, disk, verify_active_against, ActiveScans
  <2>3. job'.pc \in {"verify", "sign"}
    BY <1>3 DEF RecoverNothing, Recovered, IInv, TypeOK
  <2>4. Settled(checkpoint)' /\ MeetsBoundary(checkpoint)' /\ Linked'
    BY <1>2, <2>1, <2>2, SameDirectory
  <2>5. Progress(checkpoint)'
    BY <2>1, <2>2, <2>3, <2>4 DEF Progress
  <2> QED BY <1>1, <2>2, <2>4, <2>5 DEF Whole
<1>4. CASE RecoverCommit
  <2>1. Settled(checkpoint) /\ Len(active) = checkpoint.active_record_count + 1
    BY <1>1, <1>2, <1>4, RecoveryReads DEF RecoverCommit
  <2>2. UNCHANGED <<active, archives, torn>> /\ ~torn /\ active # Missing
    BY <1>4 DEF RecoverCommit, IsSuccessor, ActiveScans
  <2>3. active \in Seq(AuditRecord) /\ active # <<>>
    BY <1>1, <2>1, <2>2 DEF IInv, TypeOK, Checkpoint
  <2>4. checkpoint' = Advanced(checkpoint, Mac(Last(active)))
    BY <1>4, <2>3 DEF RecoverCommit, ActiveHead, EndMac
  <2>5. job'.pc \in {"verify", "sign"}
    BY <1>4 DEF RecoverCommit, Recovered, IInv, TypeOK
  <2>6. checkpoint' # NoCheckpoint
    BY <1>4, WritesCheckpoint, FileAssumption DEF IInv
  <2>7. /\ MeetsBoundary(checkpoint)' /\ Settled(checkpoint)'
        /\ Len(active)' = checkpoint'.active_record_count
    BY <1>1, <1>2, <2>1, <2>2, <2>4, AdvancedSettles
  <2>8. Linked' /\ Progress(checkpoint)'
    BY <1>2, <2>2, <2>5, <2>7, SameArchives DEF Progress
  <2> QED BY <2>2, <2>6, <2>7, <2>8 DEF Whole
<1>5. CASE RecoverRotationActive
  <2>1. active = Missing /\ ~torn
    BY <1>2, <1>5 DEF RecoverRotationActive
  <2>2. Rotating(checkpoint)
    BY <1>2, <2>1 DEF Settled
  <2>3. UNCHANGED <<archives, checkpoint, torn>> /\ active' = <<>>
    BY <1>5 DEF RecoverRotationActive
  <2>4. job'.pc = "recover_checkpoint"
    BY <1>5 DEF RecoverRotationActive, Goto, IInv, TypeOK
  <2>5. Rotating(checkpoint)'
    BY <2>2, <2>3 DEF Rotating
  <2>6. MeetsBoundary(checkpoint)' /\ Linked'
    BY <1>2, <2>3, SameArchives DEF MeetsBoundary, Before
  <2>7. Progress(checkpoint)'
    BY <2>4, <2>5 DEF Progress
  <2> QED BY <1>1, <2>1, <2>3, <2>5, <2>6, <2>7 DEF Whole
<1>6. CASE RecoverRotation
  <2>1. Rotating(checkpoint) /\ active = <<>> /\ ~torn
    <3>1. CASE job.pc = "recover_checkpoint"
      <4>1. Rotating(checkpoint) /\ active = <<>>
        BY <1>2, <3>1 DEF Progress, SegmentIsCurrent
      <4>2. ~Settled(checkpoint)
        <5>1. checkpoint.active_segment \in Nat
          BY <1>1 DEF Checkpoint
        <5>2. Segments(checkpoint.active_segment)
                # Segments(checkpoint.active_segment + 1)
          BY <5>1 DEF Segments
        <5> QED BY <4>1, <5>2 DEF Settled, Rotating
      <4> QED BY <1>2, <4>1, <4>2
    <3>2. CASE job.pc # "recover_checkpoint"
      <4>1. IsInterruptedRotation(checkpoint) /\ active # Missing
        BY <1>6, <3>2 DEF RecoverRotation
      <4>2. active = <<>> /\ ~torn
        BY <4>1 DEF IsInterruptedRotation
      <4> QED BY <1>1, <1>2, <4>1, <4>2, RecoveryReads
    <3> QED BY <3>1, <3>2
  <2>2. checkpoint' = Rotated(checkpoint) /\ UNCHANGED <<active, archives, torn>>
    BY <1>6 DEF RecoverRotation
  <2>3. checkpoint' # NoCheckpoint
    BY <1>6, WritesCheckpoint, FileAssumption DEF IInv
  <2>4. job'.pc \in {"verify", "sign"}
    BY <1>6 DEF RecoverRotation, Recovered, IInv, TypeOK
  <2>5. /\ MeetsBoundary(checkpoint)' /\ Settled(checkpoint)'
        /\ Len(active)' = checkpoint'.active_record_count
    BY <1>1, <1>2, <2>1, <2>2, RotatedSettles
  <2>6. Linked' /\ Progress(checkpoint)'
    BY <1>2, <2>2, <2>4, <2>5, SameArchives DEF Progress
  <2> QED BY <2>1, <2>2, <2>3, <2>5, <2>6 DEF Whole
<1> QED BY <1>3, <1>4, <1>5, <1>6

\* A file followed by the record that continues it still scans.
LEMMA ScanAppends ==
  ASSUME NEW f \in Seq(AuditRecord), NEW q \in Int, NEW m, ScansFrom(f, q, m),
         NEW r \in AuditRecord, r.sequence = q + Len(f),
         r.prev_mac = IF Len(f) = 0 THEN m ELSE Mac(f[Len(f)])
  PROVE  ScansFrom(Append(f, r), q, m)
<1> DEFINE g == Append(f, r)
<1>1. /\ Len(g) = Len(f) + 1 /\ g[Len(f) + 1] = r /\ Len(f) \in Nat
      /\ \A i \in 1..Len(f) : g[i] = f[i]
  OBVIOUS
<1> HIDE DEF g
<1>2. ASSUME NEW i \in 1..Len(f)
      PROVE  /\ g[i].sequence = q + i - 1
             /\ g[i].prev_mac = IF i = 1 THEN m ELSE Mac(g[i - 1])
  <2>1. g[i] = f[i] /\ (i # 1 => g[i - 1] = f[i - 1])
    BY <1>1
  <2>2. /\ f[i].sequence = q + i - 1
        /\ f[i].prev_mac = IF i = 1 THEN m ELSE Mac(f[i - 1])
    BY DEF ScansFrom
  <2> QED BY <2>1, <2>2
<1>3. /\ g[Len(f) + 1].sequence = q + (Len(f) + 1) - 1
      /\ g[Len(f) + 1].prev_mac = IF Len(f) + 1 = 1 THEN m ELSE Mac(g[Len(f)])
  <2>1. r.sequence = q + (Len(f) + 1) - 1
    BY <1>1
  <2>2. Len(f) # 0 => g[Len(f)] = f[Len(f)]
    BY <1>1
  <2> QED BY <1>1, <2>1, <2>2
<1>4. ScansFrom(g, q, m)
  <2> SUFFICES ASSUME NEW i \in 1..Len(g)
               PROVE  /\ g[i].sequence = q + i - 1
                      /\ g[i].prev_mac = IF i = 1 THEN m ELSE Mac(g[i - 1])
    BY DEF ScansFrom
  <2>1. CASE i \in 1..Len(f)
    BY <1>2, <2>1
  <2>2. CASE i = Len(f) + 1
    <3>1. i - 1 = Len(f)
      BY <1>1, <2>2
    <3> QED BY <1>3, <2>2, <3>1
  <2> QED BY <1>1, <2>1, <2>2
<1> QED BY <1>4 DEF g

\* record() rotates, appends and commits.
LEMMA RecordWhole ==
  ASSUME IInv, SegmentIsCurrent, Whole,
         \/ (RecordSign /\ ~Fail) \/ (RotateRename /\ ~Fail) \/ RotateReplace
         \/ RotateCheckpoint \/ RecordAppend \/ RecordSync \/ RecordCommit
  PROVE  Whole'
<1> SUFFICES ASSUME damage' = 0 PROVE Whole'
  BY DEF Whole
<1>1. /\ damage = 0 /\ checkpoint # NoCheckpoint /\ checkpoint \in Checkpoint
      /\ job.op = "record" /\ job.pc \in Working /\ job.cp = checkpoint
      /\ job.event \in Event
  <2>1. damage = 0 /\ job.op = "record" /\ job.pc \in Working
    BY DEF RecordSign, RotateRename, RotateReplace, RotateCheckpoint, RecordAppend,
           RecordSync, RecordCommit, At, Working
  <2> QED BY <2>1 DEF IInv, TypeOK, JobIsCurrent
<1>2. /\ Linked
      /\ MeetsBoundary(checkpoint)
      /\ Progress(checkpoint)
      /\ ~torn
  BY <1>1, WholeParts
<1>3. checkpoint.active_segment \in Nat /\ checkpoint.active_record_count \in Nat
  BY <1>1 DEF Checkpoint
<1>4. CASE RecordSign /\ ~Fail
  <2>1. UNCHANGED <<active, archives, checkpoint, torn>> /\ active # Missing
        /\ job.pc = "sign" /\ job'.pc \in {"rename", "append"}
    BY <1>4 DEF RecordSign, At, Goto, disk, IInv, TypeOK
  <2>2. Settled(checkpoint) /\ Len(active) = checkpoint.active_record_count
    BY <1>2, <2>1 DEF Progress
  <2>3. Settled(checkpoint)' /\ MeetsBoundary(checkpoint)' /\ Linked'
    BY <1>2, <2>1, <2>2, SameDirectory
  <2>4. Progress(checkpoint)'
    BY <2>1, <2>2, <2>3 DEF Progress
  <2> QED BY <1>1, <1>2, <2>1, <2>3, <2>4 DEF Whole
<1>5. CASE RotateRename /\ ~Fail
  <2> DEFINE n == checkpoint.active_segment
  <2>1. job.pc = "rename" /\ active # <<>> /\ active # Missing
    BY <1>5 DEF RotateRename, At, SegmentIsCurrent
  <2>2. Settled(checkpoint) /\ Len(active) = checkpoint.active_record_count
    BY <1>2, <2>1 DEF Progress
  <2>3. /\ archives' = [s \in DOMAIN archives \cup {n} |->
                          IF s = n THEN active ELSE archives[s]]
        /\ active' = Missing /\ UNCHANGED <<checkpoint, torn>>
        /\ job'.pc = "replace"
    BY <1>1, <1>5 DEF RotateRename, Goto, IInv, TypeOK
  <2>4. DOMAIN archives = Segments(n) /\ DOMAIN archives' = Segments(n + 1)
    BY <1>3, <2>2, <2>3 DEF Settled, Segments
  <2>5. archives'[n] = active /\ \A s \in Segments(n) : archives'[s] = archives[s]
    BY <1>3, <2>3, <2>4 DEF Segments
  <2>6. ASSUME NEW s \in 0..n
        PROVE  /\ s = 0 \/ archives'[s - 1] = archives[s - 1]
               /\ s < n => archives'[s] = archives[s] /\ s \in DOMAIN archives
    BY <1>3, <2>4, <2>5 DEF Segments
  <2>7. ASSUME NEW s \in 0..n PROVE Before(s)' = Before(s)
    BY <2>6 DEF Before
  <2>8. Linked'
    <3> SUFFICES ASSUME NEW s \in DOMAIN archives'
                 PROVE  (/\ archives[s] # <<>>
                         /\ ScansFrom(archives[s], Before(s).entries,
                                      Before(s).head_mac))'
      BY DEF Linked
    <3>1. s \in 0..n /\ Before(s)' = Before(s)
      BY <1>3, <2>4, <2>7 DEF Segments
    <3>2. CASE s = n
      <4>1. ScansFrom(active, Before(n).entries, Before(n).head_mac)
        BY <1>2, <2>2 DEF Settled, MeetsBoundary
      <4> QED BY <2>1, <2>5, <3>1, <3>2, <4>1
    <3>3. CASE s # n
      <4>1. archives'[s] = archives[s] /\ s \in DOMAIN archives
        BY <1>3, <2>6, <3>1, <3>3
      <4>2. /\ archives[s] # <<>>
            /\ ScansFrom(archives[s], Before(s).entries, Before(s).head_mac)
        BY <1>2, <4>1 DEF Linked
      <4> QED BY <3>1, <4>1, <4>2
    <3> QED BY <3>2, <3>3
  <2>9. MeetsBoundary(checkpoint)'
    <3>1. Before(checkpoint.active_segment)' = Before(n)
      BY <1>3, <2>3, <2>7
    <3> QED BY <1>2, <2>3, <3>1 DEF MeetsBoundary
  <2>10. Rotating(checkpoint)'
    <3>1. active \in Seq(AuditRecord)
      BY <2>1 DEF IInv, TypeOK
    <3>2. checkpoint.active_record_count # 0
      BY <2>1, <2>2, <3>1
    <3>3. checkpoint.head_mac = Mac(Last(active))
      BY <2>2, <3>2 DEF Settled, Last
    <3>4. /\ Len(archives'[n]) = checkpoint.active_record_count
          /\ checkpoint.head_mac = Mac(Last(archives'[n]))
      BY <2>2, <2>5, <3>3
    <3> QED BY <2>3, <2>4, <3>4 DEF Rotating
  <2>11. Progress(checkpoint)'
    BY <2>3, <2>10 DEF Progress
  <2> QED BY <1>1, <1>2, <2>3, <2>8, <2>9, <2>10, <2>11 DEF Whole
<1>6. CASE RotateReplace
  <2>1. job.pc = "replace" /\ Rotating(checkpoint)
    BY <1>2, <1>6 DEF RotateReplace, At, Progress
  <2>2. UNCHANGED <<archives, checkpoint, torn>> /\ active' = <<>>
        /\ job'.pc = "rotate_checkpoint"
    BY <1>6 DEF RotateReplace, Goto, IInv, TypeOK
  <2>3. Rotating(checkpoint)'
    BY <2>1, <2>2 DEF Rotating
  <2>4. MeetsBoundary(checkpoint)' /\ Linked'
    BY <1>2, <2>2, SameArchives DEF MeetsBoundary, Before
  <2>5. Progress(checkpoint)'
    BY <2>2, <2>3 DEF Progress
  <2> QED BY <1>1, <1>2, <2>2, <2>3, <2>4, <2>5 DEF Whole
<1>7. CASE RotateCheckpoint
  <2>1. job.pc = "rotate_checkpoint" /\ Rotating(checkpoint) /\ active = <<>>
    BY <1>2, <1>7 DEF RotateCheckpoint, At, Progress, SegmentIsCurrent
  <2>2. /\ checkpoint' = Rotated(checkpoint) /\ UNCHANGED <<active, archives, torn>>
        /\ job'.pc = "append"
    BY <1>1, <1>7 DEF RotateCheckpoint, IInv, TypeOK
  <2>3. checkpoint' # NoCheckpoint
    BY <1>7, WritesCheckpoint, FileAssumption DEF IInv
  <2>4. /\ MeetsBoundary(checkpoint)' /\ Settled(checkpoint)'
        /\ Len(active)' = checkpoint'.active_record_count
    BY <1>1, <1>2, <2>1, <2>2, RotatedSettles
  <2>5. Linked' /\ Progress(checkpoint)'
    BY <1>2, <2>2, <2>4, SameArchives DEF Progress
  <2> QED BY <1>2, <2>2, <2>3, <2>4, <2>5 DEF Whole
<1>8. CASE RecordAppend
  <2>1. job.pc = "append" /\ active # Missing
    BY <1>8 DEF RecordAppend, At
  <2>2. Settled(checkpoint) /\ Len(active) = checkpoint.active_record_count
    BY <1>2, <2>1 DEF Progress
  <2>3. /\ UNCHANGED <<archives, checkpoint, torn>>
        /\ active' = Append(active, SignedRecord) /\ job'.pc = "sync"
    BY <1>8 DEF RecordAppend, Goto, IInv, TypeOK
  <2>4. active \in Seq(AuditRecord)
    BY <2>1 DEF IInv, TypeOK
  <2>5. /\ SignedRecord \in AuditRecord
        /\ SignedRecord.sequence = checkpoint.record_count
        /\ SignedRecord.prev_mac = checkpoint.head_mac
    BY <1>1 DEF SignedRecord, sign_record, AuditRecord, Checkpoint
  <2>6. /\ StartSequence(checkpoint) \in Int
        /\ checkpoint.record_count = StartSequence(checkpoint) + Len(active)
    BY <1>1, <2>2 DEF StartSequence, Checkpoint
  <2>7. checkpoint.head_mac =
          IF Len(active) = 0 THEN checkpoint.active_start_prev_mac
          ELSE Mac(active[Len(active)])
    BY <2>2 DEF Settled
  <2>8. ScansFrom(active', StartSequence(checkpoint),
                  checkpoint.active_start_prev_mac)
    <3>1. ScansFrom(active, StartSequence(checkpoint),
                    checkpoint.active_start_prev_mac)
      BY <2>2 DEF Settled
    <3> QED BY <2>3, <2>4, <2>5, <2>6, <2>7, <3>1, ScanAppends
  <2>9. /\ active' \in Seq(AuditRecord)
        /\ Len(active') = checkpoint.active_record_count + 1
        /\ checkpoint.active_record_count # 0 =>
             active'[checkpoint.active_record_count]
               = active[checkpoint.active_record_count]
    BY <1>3, <2>2, <2>3, <2>4, <2>5
  <2>10. active' # Missing
    BY <2>9, FileAssumption
  <2>11. Settled(checkpoint)'
    BY <2>2, <2>3, <2>8, <2>9, <2>10 DEF Settled
  <2>12. MeetsBoundary(checkpoint)' /\ Linked'
    BY <1>2, <2>3, SameArchives DEF MeetsBoundary, Before
  <2>13. Progress(checkpoint)'
    BY <2>3, <2>9, <2>11 DEF Progress
  <2> QED BY <1>1, <1>2, <2>3, <2>11, <2>12, <2>13 DEF Whole
<1>9. CASE RecordSync
  <2>1. /\ UNCHANGED <<active, archives, checkpoint, torn>> /\ job.pc = "sync"
        /\ job'.pc = "commit"
    BY <1>9 DEF RecordSync, At, Goto, IInv, TypeOK
  <2>2. Settled(checkpoint) /\ Len(active) = checkpoint.active_record_count + 1
    BY <1>2, <2>1 DEF Progress
  <2>3. Settled(checkpoint)' /\ MeetsBoundary(checkpoint)' /\ Linked'
    BY <1>2, <2>1, <2>2, SameDirectory
  <2>4. Progress(checkpoint)'
    BY <2>1, <2>2, <2>3 DEF Progress
  <2> QED BY <1>1, <1>2, <2>1, <2>3, <2>4 DEF Whole
<1>10. CASE RecordCommit
  <2>1. job.pc = "commit" /\ Last(active) = SignedRecord
    BY <1>10 DEF RecordCommit, At, SegmentIsCurrent
  <2>2. Settled(checkpoint) /\ Len(active) = checkpoint.active_record_count + 1
    BY <1>2, <2>1 DEF Progress
  <2>3. /\ checkpoint' = Advanced(checkpoint, Mac(Last(active)))
        /\ UNCHANGED <<active, archives, torn>> /\ job'.pc = "done"
    BY <1>1, <1>10, <2>1 DEF RecordCommit, Goto, IInv, TypeOK
  <2>4. checkpoint' # NoCheckpoint
    BY <1>10, WritesCheckpoint, FileAssumption DEF IInv
  <2>5. MeetsBoundary(checkpoint)' /\ Settled(checkpoint)'
    BY <1>1, <1>2, <2>2, <2>3, AdvancedSettles
  <2>6. Linked' /\ Progress(checkpoint)'
    BY <1>2, <2>3, SameArchives DEF Progress
  <2> QED BY <1>2, <2>3, <2>4, <2>5, <2>6 DEF Whole
<1> QED BY <1>4, <1>5, <1>6, <1>7, <1>8, <1>9, <1>10

\* Crashes and errors leave a whole directory, wherever they fall.
LEMMA WholeNext == IInv /\ SegmentIsCurrent /\ Whole /\ [Next]_vars => Whole'
<1> SUFFICES ASSUME IInv, SegmentIsCurrent, Whole, [Next]_vars PROVE Whole'
  OBVIOUS
<1>1. CASE /\ UNCHANGED <<active, torn, archives, checkpoint>> /\ damage' = damage
           /\ job'.pc \notin Working \cup {"verify", "recover_checkpoint"}
  BY <1>1, WholeAtRest
<1>2. CASE UNCHANGED <<active, torn, archives, checkpoint, job, damage>>
  <2>1. Progress(checkpoint)' = Progress(checkpoint)
    BY <1>2, SameDirectory DEF Progress
  <2> QED BY <1>2, <2>1, SameDirectory DEF Whole
<1>3. CASE Fail
  BY <1>1, <1>3 DEF Fail, Release, NoJob, disk, Working
<1>4. ASSUME NEW i \in Instance, CreateStart(i) \/ OpenStart(i) PROVE Whole'
  BY <1>1, <1>4 DEF CreateStart, OpenStart, Acquire, disk, Working
<1>5. ASSUME NEW i \in Instance, NEW e \in Event, RecordStart(i, e) PROVE Whole'
  BY <1>1, <1>5 DEF RecordStart, Acquire, disk, Working
<1>6. ASSUME NEW i \in Instance, Crash(i) PROVE Whole'
  BY <1>1, <1>2, <1>6 DEF Crash, Release, NoJob, disk, Working
<1>7. CASE OpenArchives \/ OpenVerify
  BY <1>1, <1>3, <1>7 DEF OpenArchives, OpenVerify, Goto, disk, Working, IInv, TypeOK
<1>8. CASE RecoverRefused \/ IoError
  BY <1>3, <1>8 DEF RecoverRefused, IoError
<1>9. CASE Return
  BY <1>1, <1>9 DEF Return, Release, NoJob, disk, Working
<1>10. CASE UNCHANGED vars
  BY <1>2, <1>10 DEF vars, disk
<1>11. CASE AppendTorn
  <2> SUFFICES ASSUME damage' = 0 PROVE Whole'
    BY DEF Whole
  <2>1. /\ damage = 0 /\ active # Missing /\ job.pc = "append"
        /\ checkpoint # NoCheckpoint
    BY <1>11 DEF AppendTorn, At, IInv, JobIsCurrent
  <2>2. /\ UNCHANGED <<active, archives, checkpoint>> /\ job'.pc = "idle"
    BY <1>11 DEF AppendTorn, Release, NoJob
  <2>3. Linked /\ MeetsBoundary(checkpoint) /\ Progress(checkpoint)
    BY <2>1, WholeParts
  <2>4. Settled(checkpoint)
    BY <2>1, <2>3 DEF Progress
  <2>5. Linked' /\ MeetsBoundary(checkpoint)' /\ Settled(checkpoint)'
    BY <2>2, <2>3, <2>4, SameDirectory
  <2>6. Progress(checkpoint)'
    BY <2>2 DEF Progress
  <2> QED BY <2>1, <2>2, <2>5, <2>6 DEF Whole, Working
<1>17. CASE ReplaceInterrupted
  BY <1>1, <1>17 DEF ReplaceInterrupted, Release, NoJob, Working
<1>12. CASE DamageActive \/ DamageArchive
  <2>1. damage' # 0
    BY <1>12 DEF DamageActive, DamageArchive, IInv, TypeOK
  <2> QED BY <2>1 DEF Whole
<1>13. CASE CreateActive \/ CreateCheckpoint
  BY <1>13, CreateWhole
<1>14. CASE \/ RecoverNothing \/ RecoverCommit
            \/ RecoverRotationActive \/ RecoverRotation
  BY <1>14, RecoverWhole
<1>15. CASE RecordSign \/ RotateRename
  BY <1>3, <1>15, RecordWhole
<1>16. CASE RotateReplace \/ RotateCheckpoint \/ RecordAppend \/ RecordSync
            \/ RecordCommit
  BY <1>16, RecordWhole
<1> QED
  BY <1>4, <1>5, <1>6, <1>7, <1>8, <1>9, <1>10, <1>11, <1>12, <1>13, <1>14,
     <1>15, <1>16, <1>17
  DEF Next, Step

----------------------------------------------------------------------------
(* No committed record is lost.                                            *)

\* While nothing outside the program touches the directory, a record stays in
\* some segment.
LEMMA StoredStays ==
  ASSUME IInv, SegmentIsCurrent, [Next]_vars, damage' = 0
  PROVE  Stored \subseteq Stored'
<1>1. CASE UNCHANGED <<active, archives>>
  BY <1>1 DEF Stored
<1>2. CASE active \in {Missing, <<>>} /\ UNCHANGED archives
  <2>1. Stored \subseteq UNION {{Mac(archives[s][k]) : k \in 1..Len(archives[s])} :
                                  s \in DOMAIN archives}
    BY <1>2 DEF Stored
  <2> QED BY <1>2, <2>1 DEF Stored
<1>3. CASE RecordAppend
  <2>1. active # Missing /\ active \in Seq(AuditRecord) /\ UNCHANGED archives
        /\ active' = Append(active, SignedRecord)
    BY <1>3 DEF RecordAppend, IInv, TypeOK
  <2>2. SignedRecord \in AuditRecord
    BY <1>3 DEF RecordAppend, SignedRecord, sign_record, AuditRecord, Checkpoint,
                At, IInv, TypeOK, JobIsCurrent, Working
  <2>3. /\ active' \in Seq(AuditRecord) /\ Len(active') = Len(active) + 1
        /\ Len(active) \in Nat
        /\ \A k \in 1..Len(active) : active'[k] = active[k]
    BY <2>1, <2>2
  <2>4. active' # Missing
    BY <2>3, FileAssumption
  <2>5. \A k \in 1..Len(active) : k \in 1..Len(active')
    BY <2>3
  <2> QED BY <2>1, <2>3, <2>4, <2>5 DEF Stored
<1>4. CASE RotateRename /\ ~Fail
  <2> DEFINE n == job.cp.active_segment
  <2>1. /\ active # Missing /\ n \notin DOMAIN archives
        /\ archives' = [s \in DOMAIN archives \cup {n} |->
                          IF s = n THEN active ELSE archives[s]]
    BY <1>4 DEF RotateRename
  <2>2. DOMAIN archives' = DOMAIN archives \cup {n} /\ archives'[n] = active
        /\ \A s \in DOMAIN archives : archives'[s] = archives[s]
    BY <2>1
  <2> HIDE DEF n
  <2>3. ASSUME NEW k \in 1..Len(active) PROVE Mac(active[k]) \in Stored'
    <3>1. n \in DOMAIN archives' /\ k \in 1..Len(archives'[n])
          /\ Mac(active[k]) = Mac(archives'[n][k])
      BY <2>2
    <3> QED BY <3>1 DEF Stored
  <2>4. ASSUME NEW s \in DOMAIN archives, NEW k \in 1..Len(archives[s])
        PROVE  Mac(archives[s][k]) \in Stored'
    <3>1. s \in DOMAIN archives' /\ k \in 1..Len(archives'[s])
          /\ Mac(archives[s][k]) = Mac(archives'[s][k])
      BY <2>2
    <3> QED BY <3>1 DEF Stored
  <2> QED BY <2>1, <2>3, <2>4 DEF Stored
<1>5. CASE CreateActive \/ RecoverRotationActive \/ RotateReplace
  BY <1>2, <1>5
     DEF CreateActive, RecoverRotationActive, RotateReplace, At, SegmentIsCurrent
<1>6. ~DamageActive /\ ~DamageArchive
  BY DEF DamageActive, DamageArchive, IInv, TypeOK
<1>7. CASE Fail \/ UNCHANGED vars
  BY <1>1, <1>7 DEF Fail, vars, disk
<1>8. CASE RotateRename
  BY <1>4, <1>7, <1>8
<1> QED
  BY <1>1, <1>3, <1>5, <1>6, <1>7, <1>8
  DEF Next, Step, disk, CreateStart, OpenStart, RecordStart, Crash,
      CreateCheckpoint, OpenArchives, OpenVerify, RecoverNothing, RecoverCommit,
      RecoverRotation, RecoverRefused, RecordSign, RotateCheckpoint, RecordSync,
      RecordCommit, Return, IoError, AppendTorn, ReplaceInterrupted

\* A commit commits to a record that is stored.
LEMMA CommitIsStored ==
  ASSUME IInv, SegmentIsCurrent, RecordCommit \/ RecoverCommit
  PROVE  Chain' \in Stored'
<1>1. checkpoint' # NoCheckpoint
  BY WritesCheckpoint, FileAssumption DEF IInv
<1>2. active # Missing /\ active \in Seq(AuditRecord) /\ UNCHANGED active
  BY DEF RecordCommit, RecoverCommit, IsSuccessor, ActiveScans, At,
         SegmentIsCurrent, IInv, TypeOK
<1>3. active # <<>> /\ Chain' = Mac(active[Len(active)])
  <2>1. CASE RecordCommit
    <3>1. active # <<>> /\ active[Len(active)] = SignedRecord
      BY <2>1 DEF RecordCommit, At, SegmentIsCurrent, Last
    <3> QED BY <1>1, <2>1, <3>1 DEF RecordCommit, Chain, Advanced, signed
  <2>2. CASE RecoverCommit
    <3>1. checkpoint \in Checkpoint
      BY <2>2 DEF RecoverCommit, Recovering, IInv, TypeOK, JobIsCurrent, JobOp,
                  NoJob
    <3>2. Len(active) = checkpoint.active_record_count + 1
      BY <1>2, <2>2, <3>1
         DEF RecoverCommit, IsSuccessor, ActiveEntries, StartSequence, Checkpoint
    <3>3. active # <<>>
      BY <1>2, <3>1, <3>2 DEF Checkpoint
    <3> QED BY <1>1, <2>2, <3>3
            DEF RecoverCommit, Chain, Advanced, signed, ActiveHead, EndMac, Last
  <2> QED BY <2>1, <2>2
<1>4. Len(active) \in 1..Len(active)
  BY <1>2, <1>3
<1> QED BY <1>2, <1>3, <1>4 DEF Stored

\* Every record that the checkpoint commits to stays in some segment.
LEMMA LostNext ==
  IInv /\ SegmentIsCurrent /\ NothingLost /\ [Next]_vars => NothingLost'
<1> SUFFICES ASSUME IInv, SegmentIsCurrent, NothingLost, [Next]_vars,
                    damage' = 0, NEW k \in 1..Len(Chain')
             PROVE  SubSeq(Chain', 1, k) \in Stored'
  BY DEF NothingLost, StoresChain
<1>1. damage = 0
  BY DEF Next, Step, vars, disk, Fail, CreateStart, OpenStart, RecordStart, Crash,
         CreateActive, CreateCheckpoint, OpenArchives, OpenVerify,
         RecoverNothing, RecoverCommit, RecoverRotationActive, RecoverRotation,
         RecoverRefused, RecordSign, RotateRename, RotateReplace,
         RotateCheckpoint, RecordAppend, RecordSync, RecordCommit, Return,
         IoError, AppendTorn, ReplaceInterrupted, DamageActive, DamageArchive, IInv, TypeOK
<1>2. Stored \subseteq Stored'
  BY StoredStays
<1>3. Chain \in History /\ submitted \subseteq Event
  BY ChainType DEF IInv, TypeOK
<1>4. \A j \in 1..Len(Chain) : SubSeq(Chain, 1, j) \in Stored
  BY <1>1 DEF NothingLost, StoresChain
<1>5. CASE RecordCommit \/ RecoverCommit
  <2>1. PICK e \in submitted : Chain' = Append(Chain, e)
    BY <1>5, ChainAdvances
  <2>2. Len(Chain') = Len(Chain) + 1 /\ Len(Chain) \in Nat
    BY <1>3, <2>1 DEF History
  <2>3. CASE k \in 1..Len(Chain)
    <3>1. SubSeq(Chain', 1, k) = SubSeq(Chain, 1, k)
      BY <1>3, <2>1, <2>3 DEF History
    <3> QED BY <1>2, <1>4, <2>3, <3>1
  <2>4. CASE k = Len(Chain')
    <3>1. SubSeq(Chain', 1, k) = Chain'
      BY <1>3, <2>1, <2>2, <2>4 DEF History
    <3> QED BY <1>5, <3>1, CommitIsStored
  <2> QED BY <2>2, <2>3, <2>4
<1>6. CASE ~RecordCommit /\ ~RecoverCommit
  BY <1>2, <1>4, <1>6, ChainKept
<1> QED BY <1>5, <1>6

----------------------------------------------------------------------------
(* Scans of the whole directory.                                           *)

\* A nonempty set of naturals has a least element: what stands for induction
\* on the number of segments.
LEMMA LeastNatural ==
  ASSUME NEW T, T \subseteq Nat, T # {}
  PROVE  \E x \in T : \A y \in T : x <= y
<1> DEFINE R == {p \in Nat \X Nat : p[1] < p[2]}
<1>1. R = OpToRel(<, Nat)
  BY DEF OpToRel
<1>2. IsWellFoundedOn(R, Nat)
  BY <1>1, NatLessThanWellFounded
<1>3. PICK x \in T : \A y \in T : ~(<<y, x>> \in R)
  <2> HIDE DEF R
  <2> QED BY <1>2, WFMin
<1>4. ASSUME NEW y \in T PROVE x <= y
  <2>1. ~(y < x)
    <3> SUFFICES ASSUME y < x PROVE FALSE
      OBVIOUS
    <3>1. <<y, x>> \in R
      OBVIOUS
    <3> QED BY <1>3, <3>1
  <2> QED BY <2>1
<1> QED BY <1>4

\* A scan of no archives ends where the log begins.
LEMMA ScannedNone ==
  ScannedArchives(0) = [entries |-> 0, head_mac |-> GENESIS_PREV]
<1>1. {s \in Segments(0) : archives[s] # <<>>} = {}
  BY DEF Segments
<1> QED BY <1>1 DEF ScannedArchives

\* An archive with records is where a scan that includes it last ends.
LEMMA ScannedFull ==
  ASSUME NEW n \in Nat, archives[n] # <<>>
  PROVE  ScannedArchives(n + 1) =
           [entries |-> Last(archives[n]).sequence + 1,
            head_mac |-> Mac(Last(archives[n]))]
<1> DEFINE nonempty == {s \in Segments(n + 1) : archives[s] # <<>>}
           top == CHOOSE t \in nonempty : \A u \in nonempty : u <= t
<1>1. n \in nonempty /\ \A u \in nonempty : u <= n /\ u \in Nat
  BY DEF Segments
<1>2. top = n
  <2>1. top \in nonempty /\ \A u \in nonempty : u <= top
    <3> HIDE DEF nonempty
    <3> QED BY <1>1
  <2> HIDE DEF top, nonempty
  <2>2. n <= top /\ top <= n /\ top \in Nat
    BY <1>1, <2>1
  <2> QED BY <2>2
<1>3. nonempty # {}
  BY <1>1
<1>4. ScannedArchives(n + 1) =
        [entries |-> Last(archives[top]).sequence + 1,
         head_mac |-> Mac(Last(archives[top]))]
  BY <1>3 DEF ScannedArchives
<1> QED BY <1>2, <1>4

\* An archive without records moves no scan.
LEMMA ScannedEmpty ==
  ASSUME NEW n \in Nat, archives[n] = <<>>
  PROVE  ScannedArchives(n + 1) = ScannedArchives(n)
<1>1. {s \in Segments(n + 1) : archives[s] # <<>>}
        = {s \in Segments(n) : archives[s] # <<>>}
  BY DEF Segments
<1> QED BY <1>1 DEF ScannedArchives

\* Linked archives scan, and end where the next segment begins.
LEMMA LinkedScans ==
  ASSUME NEW n \in Nat, Linked, Segments(n) \subseteq DOMAIN archives
  PROVE  /\ ArchivesScan(n)
         /\ ScannedArchives(n) = Before(n)
<1>1. ASSUME NEW m \in 0..n
      PROVE  ScannedArchives(m) = Before(m)
  <2>1. CASE m = 0
    BY <2>1, ScannedNone DEF Before
  <2>2. CASE m # 0
    <3>1. m - 1 \in Nat /\ m - 1 \in Segments(n) /\ (m - 1) + 1 = m
      BY <2>2 DEF Segments
    <3>2. archives[m - 1] # <<>>
      BY <3>1 DEF Linked
    <3>3. ScannedArchives((m - 1) + 1) =
            [entries |-> Last(archives[m - 1]).sequence + 1,
             head_mac |-> Mac(Last(archives[m - 1]))]
      BY <3>1, <3>2, ScannedFull
    <3> QED BY <2>2, <3>1, <3>3 DEF Before
  <2> QED BY <2>1, <2>2
<1>2. ArchivesScan(n)
  <2> SUFFICES ASSUME NEW s \in Segments(n)
               PROVE  ScansFrom(archives[s], ScannedArchives(s).entries,
                                ScannedArchives(s).head_mac)
    BY DEF ArchivesScan
  <2>1. s \in 0..n /\ s \in DOMAIN archives
    BY DEF Segments
  <2> QED BY <1>1, <2>1 DEF Linked
<1> QED BY <1>1, <1>2

\* An undamaged directory is accepted wherever the code looks at it.
LEMMA WholeIsAccepted ==
  IInv /\ SegmentIsCurrent /\ Whole => UndamagedLogIsAccepted
<1> SUFFICES ASSUME IInv, SegmentIsCurrent, Whole, damage = 0, ~torn, ~aside
             PROVE  /\ handles # {} => ~CheckpointMissing
                    /\ At("open", "archives") => verify_committed_archives(job.cp)
                    /\ Recovering => \/ verify_active_against(checkpoint)
                                     \/ IsSuccessor(checkpoint)
                                     \/ IsInterruptedRotation(checkpoint)
                    /\ At("open", "verify") => verify_against(checkpoint)
                    /\ At("record", "rename") =>
                         job.cp.active_segment \notin DOMAIN archives
  BY DEF UndamagedLogIsAccepted
<1>1. CASE checkpoint = NoCheckpoint
  BY <1>1 DEF IInv, TypeOK, JobIsCurrent, At, Recovering, JobOp, NoJob
<1>2. CASE checkpoint # NoCheckpoint
  <2>12. ~CheckpointMissing
    BY <1>2 DEF CheckpointMissing
  <2> DEFINE n == checkpoint.active_segment
             count == checkpoint.active_record_count
             start == StartSequence(checkpoint)
  <2>1. /\ checkpoint \in Checkpoint /\ n \in Nat /\ count \in Nat /\ start \in Int
        /\ start + count = checkpoint.record_count
    BY <1>2 DEF IInv, TypeOK, Checkpoint, StartSequence
  <2>2. /\ Linked /\ MeetsBoundary(checkpoint) /\ Progress(checkpoint)
        /\ Settled(checkpoint) \/ Rotating(checkpoint)
    BY <1>2, WholeParts
  <2>3. DOMAIN archives \in {Segments(n), Segments(n + 1)}
        /\ Segments(n) \subseteq DOMAIN archives
    BY <2>1, <2>2 DEF Settled, Rotating, Segments
  <2>4. ArchivesMeetBoundary(checkpoint)
    BY <2>1, <2>2, <2>3, LinkedScans DEF ArchivesMeetBoundary, MeetsBoundary
  <2>5. At("open", "archives") => verify_committed_archives(job.cp)
    BY <2>3, <2>4 DEF At, SegmentIsCurrent, verify_committed_archives
  <2>6. ASSUME Settled(checkpoint), Len(active) = count
        PROVE  verify_active_against(checkpoint)
    <3>1. active \in Seq(AuditRecord) /\ active # Missing
      BY <2>6 DEF Settled, IInv, TypeOK
    <3>2. ActiveHead(checkpoint) = checkpoint.head_mac
      BY <2>6, <3>1 DEF ActiveHead, EndMac, Last, Settled
    <3> QED BY <2>1, <2>6, <3>1, <3>2
            DEF verify_active_against, ActiveScans, ActiveEntries, Settled
  <2>7. ASSUME Settled(checkpoint), Len(active) = count + 1
        PROVE  IsSuccessor(checkpoint)
    <3>1. active \in Seq(AuditRecord) /\ active # Missing /\ active # <<>>
      BY <2>1, <2>7 DEF Settled, IInv, TypeOK
    <3> DEFINE r == active[Len(active)]
    <3>2. r \in AuditRecord /\ Len(active) \in 1..Len(active)
      BY <3>1
    <3>3. r.prev_mac = checkpoint.head_mac
      <4>1. r.prev_mac = IF Len(active) = 1 THEN checkpoint.active_start_prev_mac
                         ELSE Mac(active[Len(active) - 1])
        BY <2>7, <3>2 DEF Settled, ScansFrom
      <4>2. Len(active) - 1 = count
        BY <2>1, <2>7
      <4> QED BY <2>1, <2>7, <4>1, <4>2 DEF Settled
    <3>4. Len(Mac(r)) = Len(checkpoint.head_mac) + 1 /\ r.prev_mac \in History
      BY <3>2, <3>3, MacType DEF AuditRecord
    <3>5. Mac(r) # checkpoint.head_mac
      BY <3>3, <3>4 DEF History
    <3>6. ActiveHead(checkpoint) # checkpoint.head_mac
      BY <3>1, <3>5 DEF ActiveHead, EndMac, Last
    <3>7. ActiveEntries(checkpoint) = checkpoint.record_count + 1
      BY <2>1, <2>7 DEF ActiveEntries
    <3> QED BY <2>7, <3>1, <3>6, <3>7 DEF IsSuccessor, ActiveScans, Settled
  <2>8. ASSUME Rotating(checkpoint)
        PROVE  IsInterruptedRotation(checkpoint)
    <3>1. ArchivesScan(n + 1) /\ ScannedArchives(n + 1) = Before(n + 1)
      BY <2>1, <2>2, <2>8, LinkedScans DEF Rotating
    <3>2. /\ Before(n + 1).entries = checkpoint.record_count
          /\ Before(n + 1).head_mac = checkpoint.head_mac
      BY <1>2, <2>1, <2>2, <2>8, LinkedEnd DEF Before, Rotating
    <3> QED BY <2>8, <3>1, <3>2 DEF IsInterruptedRotation, Rotating
  <2>9. \/ verify_active_against(checkpoint)
        \/ IsSuccessor(checkpoint)
        \/ IsInterruptedRotation(checkpoint)
    BY <2>2, <2>6, <2>7, <2>8 DEF Settled
  <2>10. At("open", "verify") => verify_against(checkpoint)
    BY <2>2, <2>4, <2>6 DEF At, Progress, verify_against, Settled
  <2>11. At("record", "rename") => job.cp.active_segment \notin DOMAIN archives
    <3> SUFFICES ASSUME At("record", "rename")
                 PROVE  job.cp.active_segment \notin DOMAIN archives
      OBVIOUS
    <3>1. job.cp = checkpoint
      BY DEF At, IInv, JobIsCurrent, Working
    <3>2. DOMAIN archives = Segments(n)
      BY <2>2 DEF At, Progress, Settled
    <3> QED BY <2>1, <3>1, <3>2 DEF Segments
  <2> QED BY <2>5, <2>9, <2>10, <2>11, <2>12
<1> QED BY <1>1, <1>2

\* A scan of archives counts.
LEMMA ScannedIsNatural ==
  ASSUME IInv, NEW n \in Nat, Segments(n) \subseteq DOMAIN archives,
         NEW m \in 0..n
  PROVE  ScannedArchives(m).entries \in Nat
<1> DEFINE T == {s \in 0..n : ScannedArchives(s).entries \notin Nat}
<1> SUFFICES ASSUME T # {} PROVE FALSE
  OBVIOUS
<1>1. PICK t \in T : \A y \in T : t <= y
  <2>1. T \subseteq Nat
    OBVIOUS
  <2> HIDE DEF T
  <2> QED BY <2>1, LeastNatural
<1>2. t # 0
  BY <1>1, ScannedNone
<1>3. t - 1 \in Nat /\ t - 1 \in 0..n /\ t - 1 \in Segments(n) /\ (t - 1) + 1 = t
  BY <1>1, <1>2 DEF Segments
<1>4. t - 1 \notin T
  BY <1>1, <1>3
<1>5. ScannedArchives(t - 1).entries \in Nat
  BY <1>3, <1>4
<1>6. archives[t - 1] \in Seq(AuditRecord)
  BY <1>3 DEF IInv, TypeOK
<1>7. CASE archives[t - 1] = <<>>
  <2>1. ScannedArchives((t - 1) + 1) = ScannedArchives(t - 1)
    BY <1>3, <1>7, ScannedEmpty
  <2> QED BY <1>1, <1>3, <1>5, <2>1
<1>8. CASE archives[t - 1] # <<>>
  <2>1. Last(archives[t - 1]) \in AuditRecord
    BY <1>6, <1>8 DEF Last
  <2>2. ScannedArchives((t - 1) + 1) =
          [entries |-> Last(archives[t - 1]).sequence + 1,
           head_mac |-> Mac(Last(archives[t - 1]))]
    BY <1>3, <1>8, ScannedFull
  <2> QED BY <1>1, <1>3, <2>1, <2>2 DEF AuditRecord
<1> QED BY <1>7, <1>8

\* Archives that scan hold a record for every number below the last.
LEMMA ScannedNumbers ==
  ASSUME IInv, NEW n \in Nat, Segments(n) \subseteq DOMAIN archives,
         ArchivesScan(n), NEW j \in Nat, j < ScannedArchives(n).entries
  PROVE  \E s \in Segments(n) : \E k \in 1..Len(archives[s]) :
           archives[s][k].sequence = j
<1> DEFINE T == {s \in 0..n : j < ScannedArchives(s).entries}
<1>1. T \subseteq Nat /\ n \in T
  OBVIOUS
<1>2. PICK m \in T : \A y \in T : m <= y
  <2> HIDE DEF T
  <2>1. T # {}
    BY <1>1
  <2> QED BY <1>1, <2>1, LeastNatural
<1>3. m # 0
  <2>1. ScannedArchives(0).entries = 0
    BY ScannedNone
  <2> QED BY <1>2, <2>1
<1> DEFINE s == m - 1
           f == archives[s]
<1>4. s \in Nat /\ s \in Segments(n) /\ s + 1 = m /\ s \in 0..n
  BY <1>2, <1>3 DEF Segments
<1>5. ~(j < ScannedArchives(s).entries)
  <2>1. s \notin T
    BY <1>2, <1>4
  <2> QED BY <1>4, <2>1
<1>6. f \in Seq(AuditRecord) /\ f # <<>>
  <2>1. f \in Seq(AuditRecord)
    BY <1>4 DEF IInv, TypeOK
  <2>2. f # <<>>
    BY <1>2, <1>4, <1>5, ScannedEmpty
  <2> QED BY <2>1, <2>2
<1>7. ScansFrom(f, ScannedArchives(s).entries, ScannedArchives(s).head_mac)
  BY <1>4 DEF ArchivesScan
<1> DEFINE e == ScannedArchives(s).entries
<1>8. ScannedArchives(m).entries = f[Len(f)].sequence + 1
  <2>1. ScannedArchives(s + 1) = [entries |-> Last(archives[s]).sequence + 1,
                                  head_mac |-> Mac(Last(archives[s]))]
    <3> HIDE DEF s
    <3> QED BY <1>4, <1>6, ScannedFull
  <2>2. ScannedArchives(s + 1).entries = Last(archives[s]).sequence + 1
    BY <2>1
  <2> QED BY <1>4, <2>2 DEF Last
<1>9. Len(f) \in Nat /\ Len(f) >= 1 /\ f[1] \in AuditRecord /\ f[Len(f)] \in AuditRecord
  BY <1>6
<1>10. /\ \A k \in 1..Len(f) : f[k].sequence = e + k - 1
       /\ j < f[Len(f)].sequence + 1
  BY <1>2, <1>7, <1>8 DEF ScansFrom
<1> HIDE DEF f, e, T
<1>11. e \in Nat
  BY <1>4, ScannedIsNatural DEF e, Segments
<1>12. f[Len(f)].sequence = e + Len(f) - 1
  BY <1>9, <1>10
<1>13. e <= j /\ j <= e + Len(f) - 1
  <2>1. j < (e + Len(f) - 1) + 1
    BY <1>10, <1>12
  <2>2. ~(j < e)
    BY <1>5 DEF e
  <2> QED BY <1>9, <1>11, <2>1, <2>2
<1> DEFINE k == j - e + 1
<1>14. k \in 1..Len(f) /\ e + k - 1 = j
  BY <1>9, <1>11, <1>13
<1>15. f[k].sequence = j
  <2> HIDE DEF k
  <2> QED BY <1>10, <1>14
<1> HIDE DEF k, s
<1> QED BY <1>4, <1>14, <1>15 DEF f

\* What verify_chain accepts is the committed chain, whole and alone.
LEMMA AcceptedIsIntact ==
  IInv /\ ArchivesAreOfChain /\ ActiveIsOfChain => OkMeansIntact
<1> SUFFICES ASSUME IInv, ArchivesAreOfChain, ActiveIsOfChain,
                    checkpoint # NoCheckpoint, verify_against(checkpoint)
             PROVE  /\ StoresChain
                    /\ \A mac \in Stored :
                         \E k \in 1..Len(Chain) : mac = SubSeq(Chain, 1, k)
  BY DEF OkMeansIntact, CheckpointMissing
<1> DEFINE n == checkpoint.active_segment
           start == StartSequence(checkpoint)
<1>1. /\ checkpoint \in Checkpoint /\ n \in Nat /\ start \in Int
      /\ Chain \in History /\ Len(Chain) \in Nat
      /\ checkpoint.record_count = Len(Chain)
  BY ChainType DEF IInv, TypeOK, Checkpoint, StartSequence, CountsAgree, Chain, History
<1>2. /\ DOMAIN archives = Segments(n) /\ ArchivesScan(n)
      /\ ScannedArchives(n).entries = start
      /\ verify_active_against(checkpoint)
  BY DEF verify_against, ArchivesMeetBoundary
<1>3. active # Missing /\ active \in Seq(AuditRecord) /\ Len(active) \in Nat
      /\ start + Len(active) = Len(Chain)
      /\ \A k \in 1..Len(active) : active[k].sequence = start + k - 1
  BY <1>1, <1>2 DEF verify_active_against, ActiveScans, ActiveEntries, ScansFrom,
                    IInv, TypeOK
<1>4. ASSUME NEW r \in AuditRecord, OfChain(r, Chain)
      PROVE  /\ r.sequence + 1 \in 1..Len(Chain)
             /\ Mac(r) = SubSeq(Chain, 1, r.sequence + 1)
  BY <1>1, <1>4 DEF OfChain, AuditRecord
<1>5. ASSUME NEW k \in 1..Len(active)
      PROVE  active[k] \in AuditRecord /\ OfChain(active[k], Chain)
  BY <1>2, <1>3, ScannedIsOfChain
<1>6. ASSUME NEW s \in DOMAIN archives, NEW k \in 1..Len(archives[s])
      PROVE  archives[s][k] \in AuditRecord /\ OfChain(archives[s][k], Chain)
  <2>1. archives[s] \in Seq(AuditRecord)
    BY DEF IInv, TypeOK
  <2> QED BY <2>1 DEF ArchivesAreOfChain
<1>7. ASSUME NEW mac \in Stored
      PROVE  \E k \in 1..Len(Chain) : mac = SubSeq(Chain, 1, k)
  <2>1. \/ \E k \in 1..Len(active) : mac = Mac(active[k])
        \/ \E s \in DOMAIN archives : \E k \in 1..Len(archives[s]) :
             mac = Mac(archives[s][k])
    BY <1>3 DEF Stored
  <2>2. CASE \E k \in 1..Len(active) : mac = Mac(active[k])
    <3>1. PICK k \in 1..Len(active) : mac = Mac(active[k])
      BY <2>2
    <3> QED BY <1>4, <1>5, <3>1
  <2>3. CASE \E s \in DOMAIN archives : \E k \in 1..Len(archives[s]) :
               mac = Mac(archives[s][k])
    <3>1. PICK s \in DOMAIN archives : \E k \in 1..Len(archives[s]) :
            mac = Mac(archives[s][k])
      BY <2>3
    <3>2. PICK k \in 1..Len(archives[s]) : mac = Mac(archives[s][k])
      BY <3>1
    <3> QED BY <1>4, <1>6, <3>2
  <2> QED BY <2>1, <2>2, <2>3
<1>8. ASSUME NEW i \in 1..Len(Chain)
      PROVE  SubSeq(Chain, 1, i) \in Stored
  <2> DEFINE j == i - 1
  <2>1. j \in Nat /\ j < Len(Chain) /\ j + 1 = i
    BY <1>1
  <2>2. CASE j < start
    <3>1. PICK s \in Segments(n) : \E k \in 1..Len(archives[s]) :
            archives[s][k].sequence = j
      <4>1. Segments(n) \subseteq DOMAIN archives /\ j < ScannedArchives(n).entries
        BY <1>2, <2>2
      <4> HIDE DEF j, n
      <4> QED BY <1>1, <1>2, <2>1, <4>1, ScannedNumbers
    <3>2. PICK k \in 1..Len(archives[s]) : archives[s][k].sequence = j
      BY <3>1
    <3>3. s \in DOMAIN archives
      BY <1>2
    <3>4. Mac(archives[s][k]) = SubSeq(Chain, 1, i)
      BY <1>4, <1>6, <2>1, <3>2, <3>3
    <3>5. SubSeq(Chain, 1, i) \in {Mac(archives[s][q]) : q \in 1..Len(archives[s])}
      BY <3>2, <3>4
    <3> QED BY <3>3, <3>5 DEF Stored
  <2>3. CASE ~(j < start)
    <3> DEFINE k == j - start + 1
    <3>1. k \in 1..Len(active) /\ start + k - 1 = j
      BY <1>1, <1>3, <2>1, <2>3
    <3> HIDE DEF k
    <3>2. active[k].sequence = j
      BY <1>3, <3>1
    <3>3. Mac(active[k]) = SubSeq(Chain, 1, i)
      BY <1>4, <1>5, <2>1, <3>1, <3>2
    <3> QED BY <1>3, <3>1, <3>3 DEF Stored
  <2> QED BY <2>2, <2>3
<1> QED BY <1>7, <1>8 DEF StoresChain

----------------------------------------------------------------------------
(* The theorems about the directory.                                       *)

\* The directory's invariant holds in every reachable state: archives hold
\* committed records only, the active segment at most one more, and as long as
\* nothing but crashes, torn writes and I/O errors happens, the files are in
\* one of the few states that append, rotation and recovery pass through.
THEOREM AuditDirectoryInvariant == Spec => []DirectoryInv
<1>1. Init => DirectoryInv
  <2> SUFFICES ASSUME Init PROVE DirectoryInv
    OBVIOUS
  <2>1. Chain = <<>> /\ job.pc = "idle"
    BY DEF Init, Chain, NoJob
  <2>2. ArchivesAreOfChain /\ ActiveIsOfChain /\ SegmentIsCurrent
    BY <2>1 DEF Init, ArchivesAreOfChain, ActiveIsOfChain, SegmentIsCurrent
  <2>3. Whole
    BY DEF Init, Whole
  <2>4. NothingLost
    BY <2>1 DEF NothingLost, StoresChain
  <2> QED BY <2>2, <2>3, <2>4 DEF DirectoryInv
<1>2. IInv /\ DirectoryInv /\ [Next]_vars => DirectoryInv'
  BY SegmentNext, ArchivesNext, ActiveNext, WholeNext, LostNext DEF DirectoryInv
<1> QED BY <1>1, <1>2, AuditLogInvariant, PTL DEF Spec

\* Whatever crash, I/O error or torn write happens, wherever in append,
\* rotation or recovery, every record the checkpoint commits to stays in some
\* segment.
THEOREM AuditNothingLost == Spec => []NothingLost
<1>1. DirectoryInv => NothingLost
  BY DEF DirectoryInv
<1> QED BY <1>1, AuditDirectoryInvariant, PTL

\* After any sequence of crashes and I/O errors, unless one of them tore a line
\* or left the checkpoint aside on Windows, the checkpoint is in place, open
\* and record find a directory that verifies or that
\* recover_interrupted_commit finishes, and rotation finds its archive name
\* free.
THEOREM AuditUndamagedIsAccepted == Spec => []UndamagedLogIsAccepted
<1>1. IInv /\ DirectoryInv => UndamagedLogIsAccepted
  BY WholeIsAccepted DEF DirectoryInv
<1> QED BY <1>1, AuditLogInvariant, AuditDirectoryInvariant, PTL

\* A log that verify_chain accepts holds every committed record and no other,
\* after any truncation or removal of segments and any recovery on what was
\* left.
THEOREM AuditOkMeansIntact == Spec => []OkMeansIntact
<1>1. IInv /\ DirectoryInv => OkMeansIntact
  BY AcceptedIsIntact DEF DirectoryInv
<1> QED BY <1>1, AuditLogInvariant, AuditDirectoryInvariant, PTL
=============================================================================
