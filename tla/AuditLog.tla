------------------------------ MODULE AuditLog ------------------------------
(***************************************************************************)
(* crates/sv-audit: the authenticated, append-only audit log.              *)
(*                                                                         *)
(* The state is the vault directory (active segment, archives, checkpoint, *)
(* advisory write lock) and the operation in progress under that lock.     *)
(* Every durable effect (append, fsync, rename, atomic replace) is a step  *)
(* of its own, so that a process crash or an I/O error can fall between    *)
(* any two of them.                                                        *)
(*                                                                         *)
(* Data abstraction.  A MAC is ideal: the MAC of a record is the sequence  *)
(* of the events it commits to, so equal MACs mean equal histories and no  *)
(* party without the key can make a new one.  Key bytes, JSON, hex,        *)
(* redaction and file names are left out; a record's size is Size[event].  *)
(***************************************************************************)
EXTENDS Integers, Sequences, FiniteSets

CONSTANTS
  Event,           \* audit events; one record() call submits each at most once
  Instance,        \* AuditLog values bound to the directory, in any process
  Size,            \* bytes of the record line of an event
  MaxBytes,        \* max_bytes, the rotation threshold
  MaxVerifyBytes,  \* MAX_ACTIVE_VERIFY_BYTES
  MaxDamage,       \* bound on the external damage to the directory
  Windows,         \* the build's rename does not replace an existing file
  NoInstance, NoCheckpoint, Missing, NoEvent

ASSUME SizeAssumption == Size \in [Event -> Nat \ {0}]
ASSUME BoundsAssumption ==
  MaxBytes \in Nat /\ MaxVerifyBytes \in Nat /\ MaxDamage \in Nat
ASSUME WindowsAssumption == Windows \in BOOLEAN
ASSUME SentinelAssumption ==
  /\ NoInstance \notin Instance
  /\ NoEvent \notin Event

VARIABLES
  (* the vault directory *)
  active,      \* audit.jsonl: Missing or a sequence of records
  torn,        \* audit.jsonl ends in an incomplete record
  unsynced,    \* MACs of records written to audit.jsonl and not yet fsynced
  archives,    \* audit-<segment>.jsonl by segment number
  checkpoint,  \* audit.head.json
  aside,       \* the checkpoint is under its backup name only
  (* the processes *)
  holder,      \* the instance holding .audit-write.lock
  job,         \* its operation: what it does, where it is, what it loaded
  handles,     \* instances whose create or open succeeded
  (* history *)
  submitted,   \* events handed to record()
  acked,       \* events whose record() returned Ok
  damage       \* how often the directory was damaged

disk == <<active, torn, unsynced, archives, checkpoint, aside>>
vars == <<disk, holder, job, handles, submitted, acked, damage>>

----------------------------------------------------------------------------
(* Records, checkpoints and the chain they form.                           *)

History == Seq(Event)

GENESIS_PREV == <<>>

AuditRecord == [sequence : Nat, prev_mac : History, event : Event]

\* The MAC of a record covers its predecessor's MAC and its event.
Mac(record) == Append(record.prev_mac, record.event)

sign_record(sequence, prev_mac, event) ==
  [sequence |-> sequence, prev_mac |-> prev_mac, event |-> event]

Checkpoint ==
  [record_count : Nat, head_mac : History, active_segment : Nat,
   active_record_count : Nat, active_start_prev_mac : History]

ASSUME FileAssumption ==
  NoCheckpoint \notin Checkpoint /\ Missing \notin Seq(AuditRecord)

signed(count, head_mac, segment, active_count, start_prev_mac) ==
  [record_count |-> count, head_mac |-> head_mac, active_segment |-> segment,
   active_record_count |-> active_count,
   active_start_prev_mac |-> start_prev_mac]

genesis == signed(0, GENESIS_PREV, 0, 0, GENESIS_PREV)

\* The checkpoint after one more record of the active segment.
Advanced(cp, mac) ==
  signed(cp.record_count + 1, mac, cp.active_segment,
         cp.active_record_count + 1, cp.active_start_prev_mac)

\* The checkpoint after the active segment became an archive.
Rotated(cp) ==
  signed(cp.record_count, cp.head_mac, cp.active_segment + 1, 0, cp.head_mac)

StartSequence(cp) == cp.record_count - cp.active_record_count

Last(file) == file[Len(file)]

\* verify_record along one file: sequence numbers and MACs follow on.
ScansFrom(file, sequence, prev_mac) ==
  \A i \in 1..Len(file) :
    /\ file[i].sequence = sequence + i - 1
    /\ file[i].prev_mac = IF i = 1 THEN prev_mac ELSE Mac(file[i - 1])

\* metadata.len() of a file.
FileLen(file) ==
  LET sum[n \in 0..Len(file)] ==
        IF n = 0 THEN 0 ELSE sum[n - 1] + Size[file[n].event]
  IN  sum[Len(file)]

EndMac(file, prev_mac) == IF file = <<>> THEN prev_mac ELSE Mac(Last(file))

----------------------------------------------------------------------------
(* Scans of the directory.                                                 *)

Segments(n) == 0..(n - 1)

\* Where a scan of archives 0..n-1 ends: entries read and last MAC.
ScannedArchives(n) ==
  LET nonempty == {s \in Segments(n) : archives[s] # <<>>}
  IN  IF nonempty = {}
      THEN [entries |-> 0, head_mac |-> GENESIS_PREV]
      ELSE LET s == CHOOSE t \in nonempty : \A u \in nonempty : u <= t
           IN  [entries |-> Last(archives[s]).sequence + 1,
                head_mac |-> Mac(Last(archives[s]))]

ArchivesScan(n) ==
  \A s \in Segments(n) :
    ScansFrom(archives[s], ScannedArchives(s).entries,
              ScannedArchives(s).head_mac)

\* scan_paths_from on audit.jsonl from the boundary the checkpoint names.
ActiveScans(cp) ==
  /\ active # Missing
  /\ ~torn
  /\ ScansFrom(active, StartSequence(cp), cp.active_start_prev_mac)

ActiveEntries(cp) == StartSequence(cp) + Len(active)

ActiveHead(cp) == EndMac(active, cp.active_start_prev_mac)

verify_active_against(cp) ==
  /\ ActiveScans(cp)
  /\ ActiveEntries(cp) = cp.record_count
  /\ ActiveHead(cp) = cp.head_mac

\* Archives 0..n-1 are a valid chain that ends where the checkpoint says the
\* active segment begins.
ArchivesMeetBoundary(cp) ==
  /\ ArchivesScan(cp.active_segment)
  /\ ScannedArchives(cp.active_segment).entries = StartSequence(cp)
  /\ ScannedArchives(cp.active_segment).head_mac = cp.active_start_prev_mac

verify_committed_archives(cp) ==
  /\ DOMAIN archives \in {Segments(cp.active_segment),
                          Segments(cp.active_segment + 1)}
  /\ ArchivesMeetBoundary(cp)

\* A plausible fault: full verification trusts the archives.
verify_against_active_only(cp) ==
  /\ DOMAIN archives = Segments(cp.active_segment)
  /\ verify_active_against(cp)

verify_against(cp) ==
  /\ DOMAIN archives = Segments(cp.active_segment)
  /\ ArchivesMeetBoundary(cp)
  /\ verify_active_against(cp)

\* recover_interrupted_commit: the three states it knows how to finish.
IsSuccessor(cp) ==
  /\ ActiveScans(cp)
  /\ ActiveEntries(cp) = cp.record_count + 1
  /\ ActiveHead(cp) # cp.head_mac

\* A plausible fault: recovery expects the new active file to exist.
IsInterruptedRotationWithFile(cp) ==
  /\ DOMAIN archives = Segments(cp.active_segment + 1)
  /\ ArchivesScan(cp.active_segment + 1)
  /\ ScannedArchives(cp.active_segment + 1).entries = cp.record_count
  /\ ScannedArchives(cp.active_segment + 1).head_mac = cp.head_mac
  /\ active = <<>> /\ ~torn

IsInterruptedRotation(cp) ==
  /\ DOMAIN archives = Segments(cp.active_segment + 1)
  /\ ArchivesScan(cp.active_segment + 1)
  /\ ScannedArchives(cp.active_segment + 1).entries = cp.record_count
  /\ ScannedArchives(cp.active_segment + 1).head_mac = cp.head_mac
  /\ active = Missing \/ (active = <<>> /\ ~torn)

----------------------------------------------------------------------------
(* Initial state and the lock.                                             *)

NoJob == [op |-> "none", pc |-> "idle", cp |-> NoCheckpoint, event |-> NoEvent]

Init ==
  /\ active = Missing
  /\ torn = FALSE
  /\ unsynced = {}
  /\ archives = [s \in {} |-> <<>>]
  /\ checkpoint = NoCheckpoint
  /\ aside = FALSE
  /\ holder = NoInstance
  /\ job = NoJob
  /\ handles = {}
  /\ submitted = {}
  /\ acked = {}
  /\ damage = 0

\* AuditWriteLock::acquire takes the lock or fails with Busy, which changes
\* nothing.
Acquire(i, op, pc, event) ==
  /\ holder = NoInstance
  /\ holder' = i
  /\ job' = [op |-> op, pc |-> pc, cp |-> checkpoint, event |-> event]

At(op, pc) == job.op = op /\ job.pc = pc

Goto(pc) == job' = [job EXCEPT !.pc = pc]

\* Dropping the lock guard, on success or on an error return.
Release == holder' = NoInstance /\ job' = NoJob

Fail == Release /\ UNCHANGED <<disk, handles, submitted, acked, damage>>

----------------------------------------------------------------------------
(* create_with_max_bytes.                                                  *)

\* No file has the checkpoint's name.
CheckpointMissing == checkpoint = NoCheckpoint \/ aside

\* Refused with AlreadyExists unless the directory holds nothing but, at
\* most, the empty active file of an interrupted creation.
CreateStart(i) ==
  /\ i \notin handles
  /\ CheckpointMissing
  /\ DOMAIN archives = {}
  /\ active \in {Missing, <<>>}
  /\ Acquire(i, "create",
             IF active = Missing THEN "active" ELSE "checkpoint", NoEvent)
  /\ UNCHANGED <<disk, handles, submitted, acked, damage>>

CreateActive ==
  /\ At("create", "active")
  /\ active' = <<>>
  /\ Goto("checkpoint")
  /\ UNCHANGED <<aside, torn, unsynced, archives, checkpoint, holder, handles,
                 submitted, acked, damage>>

CreateCheckpoint ==
  /\ At("create", "checkpoint")
  /\ checkpoint' = genesis
  /\ aside' = FALSE
  /\ Goto("done")
  /\ UNCHANGED <<active, torn, unsynced, archives, holder, handles,
                 submitted, acked, damage>>

----------------------------------------------------------------------------
(* open_with_max_bytes and record up to the point where both have called   *)
(* recover_interrupted_commit.                                             *)

OpenStart(i) ==
  /\ i \notin handles
  /\ ~CheckpointMissing
  /\ Acquire(i, "open", "archives", NoEvent)
  /\ UNCHANGED <<disk, handles, submitted, acked, damage>>

OpenArchives ==
  /\ At("open", "archives")
  /\ \/ /\ verify_committed_archives(job.cp)
        /\ Goto("recover")
        /\ UNCHANGED <<disk, holder, handles, submitted, acked, damage>>
     \/ /\ ~verify_committed_archives(job.cp)
        /\ Fail

RecordStart(i, e) ==
  /\ i \in handles
  /\ ~CheckpointMissing
  /\ e \notin submitted
  /\ Acquire(i, "record", "recover", e)
  /\ submitted' = submitted \cup {e}
  /\ UNCHANGED <<disk, handles, acked, damage>>

\* A plausible fault: record() takes what recovery committed for its own.
RecoveredAsOwn(cp) ==
  job' = [job EXCEPT !.pc = IF job.op = "open" THEN "verify"
                            ELSE IF cp # job.cp THEN "done" ELSE "sign",
                     !.cp = cp]

\* What follows recover_interrupted_commit: record() loads the checkpoint
\* again and goes on when it returned true; open verifies everything.
Recovered(cp) ==
  job' = [job EXCEPT !.pc = IF job.op = "open" THEN "verify" ELSE "sign",
                     !.cp = cp]

Recovering == job.pc = "recover"

RecoverNothing ==
  /\ Recovering
  /\ verify_active_against(checkpoint)
  /\ Recovered(checkpoint)
  /\ UNCHANGED <<disk, holder, handles, submitted, acked, damage>>

\* Exactly one valid successor: its record was appended, its checkpoint was
\* not written.
RecoverCommit ==
  /\ Recovering
  /\ IsSuccessor(checkpoint)
  /\ checkpoint' = Advanced(checkpoint, ActiveHead(checkpoint))
  /\ Recovered(checkpoint')
  /\ UNCHANGED <<aside, active, torn, unsynced, archives, holder, handles,
                 submitted, acked, damage>>

RecoverRotationActive ==
  /\ Recovering
  /\ active = Missing
  /\ IsInterruptedRotation(checkpoint)
  /\ active' = <<>>
  /\ Goto("recover_checkpoint")
  /\ UNCHANGED <<aside, torn, unsynced, archives, checkpoint, holder, handles,
                 submitted, acked, damage>>

RecoverRotation ==
  /\ \/ job.pc = "recover_checkpoint"
     \/ /\ Recovering
        /\ active # Missing
        /\ ~verify_active_against(checkpoint)
        /\ ~IsSuccessor(checkpoint)
        /\ IsInterruptedRotation(checkpoint)
  /\ checkpoint' = Rotated(checkpoint)
  /\ Recovered(checkpoint')
  /\ UNCHANGED <<aside, active, torn, unsynced, archives, holder, handles,
                 submitted, acked, damage>>

\* recover_interrupted_commit returned false: record() verifies the active
\* segment, open verifies the whole log, and both refuse what fails.
RecoverRefused ==
  /\ Recovering
  /\ ~verify_active_against(checkpoint)
  /\ ~IsSuccessor(checkpoint)
  /\ ~IsInterruptedRotation(checkpoint)
  /\ Fail

OpenVerify ==
  /\ At("open", "verify")
  /\ \/ /\ verify_against(checkpoint)
        /\ Goto("done")
        /\ UNCHANGED <<disk, holder, handles, submitted, acked, damage>>
     \/ /\ ~verify_against(checkpoint)
        /\ Fail

----------------------------------------------------------------------------
(* record: sign, rotate when the segment is full, append, fsync, commit.   *)

NeedsRotation ==
  /\ FileLen(active) > 0
  /\ FileLen(active) + Size[job.event] >
       (IF MaxBytes < MaxVerifyBytes THEN MaxBytes ELSE MaxVerifyBytes)

RecordSign ==
  /\ At("record", "sign")
  /\ active # Missing
  /\ \/ /\ Size[job.event] <= MaxVerifyBytes
        /\ Goto(IF NeedsRotation THEN "rename" ELSE "append")
        /\ UNCHANGED <<disk, holder, handles, submitted, acked, damage>>
     \/ /\ Size[job.event] > MaxVerifyBytes
        /\ Fail

RotateRename ==
  /\ At("record", "rename")
  /\ active # Missing
  /\ \/ /\ job.cp.active_segment \notin DOMAIN archives
        /\ archives' = [s \in DOMAIN archives \cup {job.cp.active_segment} |->
                          IF s = job.cp.active_segment THEN active
                          ELSE archives[s]]
        /\ active' = Missing
        /\ Goto("replace")
        /\ UNCHANGED <<aside, torn, unsynced, checkpoint, holder, handles,
                       submitted, acked, damage>>
     \/ /\ job.cp.active_segment \in DOMAIN archives
        /\ Fail

RotateReplace ==
  /\ At("record", "replace")
  /\ active' = <<>>
  /\ Goto("rotate_checkpoint")
  /\ UNCHANGED <<aside, torn, unsynced, archives, checkpoint, holder, handles,
                 submitted, acked, damage>>

RotateCheckpoint ==
  /\ At("record", "rotate_checkpoint")
  /\ checkpoint' = Rotated(job.cp)
  /\ job' = [job EXCEPT !.pc = "append", !.cp = Rotated(job.cp)]
  /\ UNCHANGED <<aside, active, torn, unsynced, archives, holder, handles,
                 submitted, acked, damage>>

SignedRecord ==
  sign_record(job.cp.record_count, job.cp.head_mac, job.event)

\* A plausible fault: the active file is opened for writing, not appending.
RecordAppendTruncating ==
  /\ At("record", "append")
  /\ active # Missing
  /\ active' = <<SignedRecord>>
  /\ unsynced' = unsynced \cup {Mac(SignedRecord)}
  /\ Goto("sync")
  /\ UNCHANGED <<aside, torn, archives, checkpoint, holder, handles,
                 submitted, acked, damage>>

RecordAppend ==
  /\ At("record", "append")
  /\ active # Missing
  /\ active' = Append(active, SignedRecord)
  /\ unsynced' = unsynced \cup {Mac(SignedRecord)}
  /\ Goto("sync")
  /\ UNCHANGED <<aside, torn, archives, checkpoint, holder, handles,
                 submitted, acked, damage>>

RecordSync ==
  /\ At("record", "sync")
  /\ active # Missing
  /\ unsynced' = unsynced \ {Mac(active[k]) : k \in 1..Len(active)}
  /\ Goto("commit")
  /\ UNCHANGED <<aside, active, torn, archives, checkpoint, holder, handles,
                 submitted, acked, damage>>

RecordCommit ==
  /\ At("record", "commit")
  /\ checkpoint' = Advanced(job.cp, Mac(SignedRecord))
  /\ Goto("done")
  /\ UNCHANGED <<aside, active, torn, unsynced, archives, holder, handles,
                 submitted, acked, damage>>

\* The operation returns Ok and its guards drop.
Return ==
  /\ job.pc = "done"
  /\ acked' = IF job.op = "record" THEN acked \cup {job.event} ELSE acked
  /\ handles' = handles \cup {holder}
  /\ Release
  /\ UNCHANGED <<disk, submitted, damage>>

----------------------------------------------------------------------------
(* Failures.                                                               *)

\* Any system call of the operation fails and the error is returned.  At
\* "done" it is the directory fsync after the checkpoint's rename.
IoError ==
  /\ holder # NoInstance
  /\ Fail

\* write_all stops inside the line: by an error, or because the process died.
AppendTorn ==
  /\ At("record", "append")
  /\ active # Missing
  /\ torn' = TRUE
  /\ Release
  /\ handles' \in {handles, handles \ {holder}}
  /\ UNCHANGED <<aside, active, unsynced, archives, checkpoint, submitted,
                 acked, damage>>

\* The steps that replace an existing checkpoint.
ReplacesCheckpoint ==
  \/ job.pc \in {"rotate_checkpoint", "recover_checkpoint", "commit"}
  \/ Recovering /\ IsSuccessor(checkpoint)
  \/ /\ Recovering
     /\ active # Missing
     /\ ~verify_active_against(checkpoint)
     /\ IsInterruptedRotation(checkpoint)

\* On Windows install_temp_file first renames the old checkpoint to a backup
\* and then the new one into place: between the two the process dies, or the
\* second rename and the one that takes the first back both fail.  Nothing
\* reads the backup again.
ReplaceInterrupted ==
  /\ Windows
  /\ ReplacesCheckpoint
  /\ aside' = TRUE
  /\ Release
  /\ handles' \in {handles, handles \ {holder}}
  /\ UNCHANGED <<active, torn, unsynced, archives, checkpoint, submitted,
                 acked, damage>>

\* The process of an instance dies, or drops it; the OS frees its lock.
Crash(i) ==
  /\ i \in handles \/ i = holder
  /\ handles' = handles \ {i}
  /\ IF holder = i THEN Release ELSE UNCHANGED <<holder, job>>
  /\ UNCHANGED <<disk, submitted, acked, damage>>

\* Something outside the program removes or truncates a segment while no
\* operation runs.  The checkpoint is out of scope, and so is damage while it
\* is aside: the crate documents that it only detects changes relative to it.
DamageActive ==
  /\ holder = NoInstance
  /\ ~aside
  /\ damage < MaxDamage
  /\ active # Missing
  /\ \/ active' = Missing
     \/ \E n \in 0..Len(active) : active' = SubSeq(active, 1, n)
  /\ torn' = FALSE
  /\ damage' = damage + 1
  /\ UNCHANGED <<aside, unsynced, archives, checkpoint, holder, job, handles,
                 submitted, acked>>

DamageArchive ==
  /\ holder = NoInstance
  /\ ~aside
  /\ damage < MaxDamage
  /\ \E s \in DOMAIN archives :
       \/ archives' = [t \in DOMAIN archives \ {s} |-> archives[t]]
       \/ \E n \in 0..Len(archives[s]) :
            archives' = [archives EXCEPT ![s] = SubSeq(@, 1, n)]
  /\ damage' = damage + 1
  /\ UNCHANGED <<aside, active, torn, unsynced, checkpoint, holder, job,
                 handles, submitted, acked>>

----------------------------------------------------------------------------
Step ==
  \/ CreateActive \/ CreateCheckpoint
  \/ OpenArchives \/ OpenVerify
  \/ RecoverNothing \/ RecoverCommit \/ RecoverRotationActive
  \/ RecoverRotation \/ RecoverRefused
  \/ RecordSign \/ RotateRename \/ RotateReplace \/ RotateCheckpoint
  \/ RecordAppend \/ RecordSync \/ RecordCommit
  \/ Return

Next ==
  \/ \E i \in Instance :
       \/ CreateStart(i)
       \/ OpenStart(i)
       \/ \E e \in Event : RecordStart(i, e)
       \/ Crash(i)
  \/ Step
  \/ IoError
  \/ AppendTorn
  \/ ReplaceInterrupted
  \/ DamageActive
  \/ DamageArchive

Spec == Init /\ [][Next]_vars

----------------------------------------------------------------------------
(* Properties.                                                             *)

JobOp == {"none", "create", "open", "record"}
JobPc == {"idle", "active", "checkpoint", "archives", "recover",
          "recover_checkpoint", "verify", "sign", "rename", "replace",
          "rotate_checkpoint", "append", "sync", "commit", "done"}

\* Every variable has its type; archives are numbered by naturals.
TypeOK ==
  /\ active \in Seq(AuditRecord) \cup {Missing}
  /\ torn \in BOOLEAN
  /\ unsynced \in SUBSET History
  /\ DOMAIN archives \in SUBSET Nat
  /\ archives \in [DOMAIN archives -> Seq(AuditRecord)]
  /\ checkpoint \in Checkpoint \cup {NoCheckpoint}
  /\ aside \in BOOLEAN
  /\ holder \in Instance \cup {NoInstance}
  /\ job \in [op : JobOp, pc : JobPc, cp : Checkpoint \cup {NoCheckpoint},
              event : Event \cup {NoEvent}]
  /\ handles \in SUBSET Instance
  /\ submitted \in SUBSET Event
  /\ acked \in SUBSET Event
  /\ damage \in 0..MaxDamage

\* The committed chain: the history the checkpoint's head MAC stands for.
Chain == IF checkpoint = NoCheckpoint THEN <<>> ELSE checkpoint.head_mac

\* Every record stored in some segment, by its MAC.
Stored ==
  (IF active = Missing THEN {} ELSE {Mac(active[k]) : k \in 1..Len(active)})
    \cup UNION {{Mac(archives[s][k]) : k \in 1..Len(archives[s])} :
                  s \in DOMAIN archives}

StoresChain == \A k \in 1..Len(Chain) : SubSeq(Chain, 1, k) \in Stored

\* Whatever crash, I/O error or torn write happens, and wherever in append,
\* rotation or recovery it happens, every record the checkpoint commits to
\* stays in some segment (rotate moves the file before it writes the
\* checkpoint; recovery must not rebuild over it).
NothingLost == damage = 0 => StoresChain

\* A log that verify_chain accepts holds every committed record and no other,
\* even after segments were truncated or removed, and even if recovery ran
\* on the damaged directory.
OkMeansIntact ==
  ~CheckpointMissing /\ verify_against(checkpoint) =>
    /\ StoresChain
    /\ \A mac \in Stored : \E k \in 1..Len(Chain) : mac = SubSeq(Chain, 1, k)

\* The log fails closed on corruption and in two interrupted states only.
\* After any sequence of crashes and I/O errors, unless one of them tore a
\* line or, on Windows, left the checkpoint aside (install_temp_file calls
\* that "intentionally fail-closed"): a checkpoint once written is in place,
\* open and record find a state that verifies or that
\* recover_interrupted_commit finishes, and rotation finds its archive name
\* free.
UndamagedLogIsAccepted ==
  damage = 0 /\ ~torn /\ ~aside =>
    /\ handles # {} => ~CheckpointMissing
    /\ At("open", "archives") => verify_committed_archives(job.cp)
    /\ Recovering => \/ verify_active_against(checkpoint)
                     \/ IsSuccessor(checkpoint)
                     \/ IsInterruptedRotation(checkpoint)
    /\ At("open", "verify") => verify_against(checkpoint)
    /\ At("record", "rename") => job.cp.active_segment \notin DOMAIN archives

Trail == INSTANCE AuditTrail WITH log <- Chain

\* The log implements AuditTrail: events are committed one at a time, each
\* submitted before and committed once, the committed chain is never
\* shortened or rewritten (also not by recovery on a damaged directory), and
\* record() returns Ok only when the caller's own event is on the chain.
RefinesAuditTrail == Trail!TrailSpec

----------------------------------------------------------------------------
(* The inductive invariant behind RefinesAuditTrail.                       *)

Committed == {Chain[k] : k \in 1..Len(Chain)}

\* The checkpoint counts the chain it names.
CountsAgree ==
  checkpoint # NoCheckpoint =>
    /\ checkpoint.record_count = Len(checkpoint.head_mac)
    /\ checkpoint.active_record_count <= checkpoint.record_count

\* Where an operation is in its code determines what it may rely on.
Working == {"sign", "rename", "replace", "rotate_checkpoint", "append",
            "sync", "commit"}

JobIsCurrent ==
  /\ job.op # "none" => holder \in Instance
  /\ job.op = "none" => job = NoJob
  /\ job.op = "create" =>
       /\ job.pc \in {"active", "checkpoint", "done"}
       /\ job.pc # "done" => checkpoint = NoCheckpoint
  /\ job.op = "open" =>
       job.pc \in {"archives", "recover", "recover_checkpoint", "verify",
                   "done"}
  /\ job.op = "record" =>
       /\ job.pc \in Working \cup {"recover", "recover_checkpoint", "done"}
       /\ job.event \in submitted
  /\ job.op \in {"open", "record"} \/ job.pc = "done" \/ handles # {} =>
       checkpoint # NoCheckpoint
  /\ job.pc = "archives" => job.cp # NoCheckpoint
  /\ job.pc \in Working => job.cp = checkpoint

\* A record in the active segment is committed or is the one successor of the
\* chain, of an event submitted and not committed before.
TailIsSuccessor ==
  active # Missing =>
    \A k \in 1..Len(active) :
      /\ active[k].sequence = Len(active[k].prev_mac)
      /\ active[k].event \in submitted
      /\ \/ active[k].sequence < Len(Chain)
         \/ active[k].prev_mac = Chain /\ active[k].event \notin Committed

\* No event is committed before it is submitted, and the event being recorded
\* is on the chain once the operation is done and not before, nor, until it is
\* appended, in the active segment.
CommittedOnce ==
  /\ Committed \subseteq submitted
  /\ job.op = "record" =>
       (job.event \in Committed <=> job.pc = "done")
  /\ job.op = "record" /\ job.pc \in {"recover", "recover_checkpoint"}
       /\ active # Missing =>
       \A k \in 1..Len(active) : active[k].event # job.event

\* A checkpoint is left aside only by an operation that gave up, in a
\* directory that creation refuses: it holds an archive or a record.
AsideIsRefused ==
  /\ aside => /\ checkpoint # NoCheckpoint
              /\ job = NoJob
              /\ DOMAIN archives # {} \/ active \notin {Missing, <<>>}
  /\ job.pc \in {"sync", "commit"} => active \notin {Missing, <<>>}
  /\ job.pc \in {"replace", "rotate_checkpoint", "recover_checkpoint"} =>
       DOMAIN archives # {}

IInv ==
  /\ TypeOK
  /\ CountsAgree
  /\ JobIsCurrent
  /\ TailIsSuccessor
  /\ CommittedOnce
  /\ AsideIsRefused
=============================================================================
