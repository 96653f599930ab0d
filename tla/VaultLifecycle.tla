--------------------------- MODULE VaultLifecycle ---------------------------
(***************************************************************************)
(* crates/sv-core: the life of one vault directory - bootstrap, unlock     *)
(* with passphrase, OS keychain or recovery phrase, change of passphrase,  *)
(* move to the OS keychain, key rotation with its rollback - and the       *)
(* lifecycle journal that finishes or undoes an interrupted operation.     *)
(*                                                                         *)
(* Every durable write is a step of its own.  An operation first makes its *)
(* checks and then carries a plan, the steps it still has to take, in      *)
(* job.plan; a crash drops the operation, an I/O error makes it fail.      *)
(* VaultLock admits one handle at a time, so at most one operation runs.   *)
(*                                                                         *)
(* Data abstraction.  Keys are ideal: a DEK is a number, a KEK is the      *)
(* passphrase and salt it is derived from or the number of a random key,   *)
(* and only the key something is sealed under opens it.  The phrase of a   *)
(* recovery bundle is named by the DEK it restores.  Legacy vaults (no     *)
(* keyring, or the unscoped keychain entry) are left out.                  *)
(***************************************************************************)
EXTENDS Integers, Sequences, FiniteSets

CONSTANTS
  File,        \* names of the vault's data files
  Store,       \* the material stores after identity, in rewrap order
  Passphrase,  \* passphrases the user knows
  MaxDek, MaxSalt, MaxKey,  \* bounds on DEKs, salts and random KEKs made
  MaxCrashes,  \* bound on process crashes
  MaxFaults,   \* bound on I/O errors, before or after an effect
  MaxLate,     \* bound on I/O errors after an effect (a failed fsync)
  MaxTypos,    \* bound on rotations started with a wrong passphrase
  MaxLosses,   \* bound on keychain entries lost
  None

ASSUME BoundsAssumption ==
  {MaxDek, MaxSalt, MaxKey, MaxCrashes, MaxFaults, MaxLate, MaxTypos,
   MaxLosses} \subseteq Nat

\* The steps of a plan that are not the rewrap of a store.
StepNames ==
  {"rm_manifest", "rm_keyring", "rm_staged", "rm_recovery", "rm_identity",
   "rm_keychain", "rm_journal", "bootstrap_journal", "salt", "keychain",
   "keyring", "create_identity", "manifest", "recovery", "phrase_journal",
   "audit", "unjournal", "open", "discard", "commit", "unsalt", "replace",
   "stage", "change_journal", "move_journal", "load_staged",
   "rotate_journal", "add_active_dek", "rotate_open", "files",
   "rollback_load", "set_active", "rollback_open", "backup",
   "remove_version", "reload"}

ASSUME StoreAssumption ==
  /\ Store \in Seq(STRING)
  /\ \A k \in 1..Len(Store) : Store[k] \notin StepNames

STORES == <<"identity">> \o Store
StoreNames == {STORES[k] : k \in 1..Len(STORES)}

(* What the variables hold, each time or None.                             *)

Custodies == {"passphrase", "os_keychain"}
HandleCustodies == Custodies \cup {"recovery"}

DekId == 1..MaxDek
Version == 1..MaxDek
Kek == [pass : Passphrase \cup {None}, id : Nat \cup {None}]
Entries ==
  UNION {[D -> [kek : Kek \cup {None}, dek : DekId]] : D \in SUBSET Version}
Keyring == [active : Version, entries : Entries]
Sealed == [version : Version, dek : DekId]
Handle ==
  [custody : HandleCustodies, active : Version,
   keys : UNION {[D -> DekId] : D \in SUBSET Version}]
LifecycleJournal ==
  [op : {"Bootstrap"}, custody : Custodies, salt : Nat \cup {None},
   kek : Kek, phrase : BOOLEAN]
    \cup [op : {"ChangePassphrase"}, old_salt : Nat \cup {None},
          new_salt : Nat \cup {None}]
    \cup [op : {"MoveToKeychain"}]
    \cup [op : {"Rotate"}, old_version : Version, new_version : Version,
          backup : Sealed]
Operation ==
  [op : {"bootstrap", "unlock", "change", "move", "rotate", "rollback"},
   plan : Seq(StepNames \cup StoreNames), custody : HandleCustodies,
   kek : Kek \cup {None},
   dek : DekId \cup {None}, wrap : DekId \cup {None},
   old : Version \cup {None}, new : Version \cup {None},
   backup : Sealed \cup {None}]

ASSUME NoneAssumption ==
  /\ None \notin Passphrase /\ None \notin Nat /\ None \notin Kek
  /\ None \notin Keyring /\ None \notin Sealed /\ None \notin Handle
  /\ None \notin LifecycleJournal /\ None \notin Operation

VARIABLES
  (* the vault directory and the OS keychain *)
  salt,       \* master.salt
  keychain,   \* the vault-scoped KEK in the OS keychain
  keyring,    \* keyring.svault: the active version, and per version a
              \* DEK and the KEK it is wrapped under
  staged,     \* the staged keyring
  journal,    \* .lifecycle.json
  material,   \* per store, the DEKs its entries are sealed under
  manifest,   \* manifest.json exists
  audit,      \* the audit log exists
  recovery,   \* the recovery bundle: the DEK it restores and its version
  files,      \* per data file, the DEK version and DEK it is sealed under
  (* the process *)
  session,    \* the unlocked VaultHandle
  job,        \* the operation in progress
  (* the user *)
  phrases,    \* recovery phrases returned to the user
  (* counters *)
  deks, salts, keks, crashes, faults, late, typos, losses,
  (* history *)
  commitFailed \* rotate_key was told that the removal of its journal failed
               \* after the journal was gone

disk == <<salt, keychain, keyring, staged, journal, material, manifest, audit,
          recovery, files>>
made == <<deks, salts, keks>>
bounds == <<crashes, faults, late, typos, losses, commitFailed>>
vars == <<disk, session, job, phrases, made, bounds>>

----------------------------------------------------------------------------
(* Keys, the keyring and what opens what.                                  *)

PassKek(p, s) == [pass |-> p, id |-> s]
RandomKek(n) == [pass |-> None, id |-> n]

\* keyring::load: every entry must unwrap under the KEK.
Opens(kr, kek) ==
  /\ kr # None
  /\ kr.active \in DOMAIN kr.entries
  /\ \A v \in DOMAIN kr.entries : kr.entries[v].kek = kek

Dek(kr, v) == kr.entries[v].dek
ActiveDek(kr) == Dek(kr, kr.active)
Keys(kr) == [v \in DOMAIN kr.entries |-> Dek(kr, v)]

create(kek, dek, v) ==
  [active |-> v, entries |-> [u \in {v} |-> [kek |-> kek, dek |-> dek]]]

RewrappedUnder(kr, kek) ==
  [kr EXCEPT !.entries = [v \in DOMAIN @ |-> [@[v] EXCEPT !.kek = kek]]]

WithActiveDek(kr, v, kek, dek) ==
  [active |-> v,
   entries |-> [u \in DOMAIN kr.entries \cup {v} |->
                  IF u = v THEN [kek |-> kek, dek |-> dek]
                  ELSE kr.entries[u]]]

WithoutVersion(kr, v) ==
  [kr EXCEPT !.entries = [u \in DOMAIN @ \ {v} |-> @[u]]]

NextVersion(kr) ==
  1 + (CHOOSE v \in DOMAIN kr.entries : \A u \in DOMAIN kr.entries : u <= v)

\* load_authenticated_identity and Vault::open_existing.
VaultOpens(dek) == manifest /\ material["identity"] = {dek}

BootstrapPending(done) ==
  journal # None /\ journal.op = "Bootstrap" /\ journal.phrase = done

JournalOp == IF journal = None THEN "none" ELSE journal.op

----------------------------------------------------------------------------
(* Operations and their plans.                                             *)

Init ==
  /\ salt = None /\ keychain = None /\ keyring = None /\ staged = None
  /\ journal = None /\ recovery = None
  /\ material = [s \in StoreNames |-> {}]
  /\ manifest = FALSE /\ audit = FALSE
  /\ files = [f \in File |-> None]
  /\ session = None /\ job = None
  /\ phrases = {}
  /\ deks = 0 /\ salts = 0 /\ keks = 0
  /\ crashes = 0 /\ faults = 0 /\ late = 0 /\ typos = 0 /\ losses = 0
  /\ commitFailed = FALSE

Job(op, plan, custody, kek) ==
  [op |-> op, plan |-> plan, custody |-> custody, kek |-> kek, dek |-> None,
   wrap |-> None, old |-> None, new |-> None, backup |-> None]

Idle == session = None /\ job = None
Unlocked == session # None /\ job = None

Start(newJob) == job' = newJob /\ UNCHANGED <<disk, session, phrases, bounds>>

Step(name) == job # None /\ job.plan # <<>> /\ Head(job.plan) = name

\* The operation returns an error.  A failed rotation rolls back first, unless
\* it failed to write its journal.
Failed ==
  job' = IF job.op = "rotate" /\ Head(job.plan) # "rotate_journal"
         THEN [job EXCEPT !.op = "rollback",
                          !.plan = <<"rollback_load", "reload">>]
         ELSE None

\* The step took effect, the fsync behind the effect fails and the operation
\* with it.
LateError ==
  /\ late < MaxLate /\ faults + late < MaxFaults
  /\ late' = late + 1
  /\ commitFailed' = (commitFailed \/ (job.op = "rotate" /\ Step("unjournal")))
  /\ Failed
  /\ UNCHANGED <<crashes, faults, typos, losses>>

\* The step took effect and the operation goes on, or not.
Advance ==
  \/ job' = [job EXCEPT !.plan = Tail(@)] /\ UNCHANGED bounds
  \/ LateError

\* A step that only reads and checks.
Check(name, ok) ==
  /\ Step(name)
  /\ \/ ok /\ job' = [job EXCEPT !.plan = Tail(@)]
     \/ ~ok /\ Failed
  /\ UNCHANGED <<disk, session, phrases, made, bounds>>

FinishBootstrap == <<"audit", "unjournal">>

CustodyStep(custody) == IF custody = "passphrase" THEN "salt" ELSE "keychain"

BootstrapPlan(custody) ==
  <<"bootstrap_journal", CustodyStep(custody), "keyring", "create_identity",
    "manifest", "recovery", "phrase_journal">> \o FinishBootstrap

BootstrapRollback ==
  <<"rm_manifest", "rm_keyring", "rm_staged", "rm_recovery", "rm_identity",
    "unsalt", "rm_keychain", "rm_journal">>

\* A plausible fault: the salt is replaced before the journal is written.
ChangePlanSaltFirst ==
  <<"stage", "salt", "change_journal", "commit", "unjournal">>

ChangePlan == <<"stage", "change_journal", "salt", "commit", "unjournal">>

MovePlan == <<"stage", "move_journal", "keychain", "load_staged", "commit",
              "unsalt", "unjournal">>

\* A plausible fault: the journal goes before the recovery bundle is replaced.
RotatePlanEarlyCommit ==
  <<"rotate_journal", "add_active_dek", "rotate_open", "files">> \o STORES
    \o <<"unjournal", "recovery">>

RotatePlan == <<"rotate_journal", "add_active_dek", "rotate_open", "files">>
                \o STORES \o <<"recovery", "unjournal">>

\* A plausible fault: the rollback forgets the files.
RollbackPlanNoFiles(hasNew) ==
  (IF hasNew THEN <<"set_active", "rollback_open">> \o STORES ELSE <<>>)
    \o <<"backup", "set_active", "remove_version", "unjournal">>

RollbackPlan(hasNew) ==
  (IF hasNew THEN <<"set_active", "rollback_open", "files">> \o STORES
   ELSE <<>>)
    \o <<"backup", "set_active", "remove_version", "unjournal">>

----------------------------------------------------------------------------
(* bootstrap.                                                              *)

\* The directory holds a vault, or the keychain an entry for it.
VaultExists(custody) ==
  manifest \/ keyring # None \/ (custody = "os_keychain" /\ keychain # None)

BootstrapStart(custody, p) ==
  /\ Idle
  /\ \/ journal = None /\ ~VaultExists(custody)
     \/ BootstrapPending(FALSE)
  /\ Start(Job("bootstrap",
               (IF journal = None THEN <<>> ELSE BootstrapRollback)
                 \o BootstrapPlan(custody),
               custody, PassKek(p, None)))
  /\ UNCHANGED made

\* A bootstrap that had completed up to handing out the phrase is resumed.
BootstrapResume(custody, p) ==
  LET kek == IF custody = "passphrase" THEN PassKek(p, journal.salt)
             ELSE keychain
  IN  /\ Idle
      /\ BootstrapPending(TRUE)
      /\ journal.custody = custody
      /\ Opens(keyring, kek)
      /\ VaultOpens(ActiveDek(keyring))
      /\ journal.kek = kek
      /\ Start(Job("bootstrap", FinishBootstrap, custody, kek))
      /\ UNCHANGED made

\* The keys are made and the journal is written, unless something is left
\* that the rollback did not remove.
BootstrapJournal ==
  /\ Step("bootstrap_journal")
  /\ \/ /\ VaultExists(job.custody)
        /\ job' = None
        /\ UNCHANGED <<disk, made, bounds>>
     \/ /\ ~VaultExists(job.custody)
        /\ deks < MaxDek /\ salts < MaxSalt /\ keks < MaxKey
        /\ deks' = deks + 1
        /\ LET pass == job.custody = "passphrase"
               kek == IF pass THEN PassKek(job.kek.pass, salts + 1)
                      ELSE RandomKek(keks + 1)
           IN  /\ salts' = IF pass THEN salts + 1 ELSE salts
               /\ keks' = IF pass THEN keks ELSE keks + 1
               /\ journal' = [op |-> "Bootstrap", custody |-> job.custody,
                              salt |-> IF pass THEN salts + 1 ELSE None,
                              kek |-> kek, phrase |-> FALSE]
               /\ \/ /\ job' = [job EXCEPT !.plan = Tail(@), !.kek = kek,
                                           !.dek = deks + 1, !.new = 1]
                     /\ UNCHANGED bounds
                  \/ LateError
        /\ UNCHANGED <<salt, keychain, keyring, staged, material, manifest,
                       audit, recovery, files>>
  /\ UNCHANGED <<session, phrases>>

CreateKeyring ==
  /\ Step("keyring")
  /\ keyring' = create(job.kek, job.dek, 1)
  /\ Advance
  /\ UNCHANGED <<salt, keychain, staged, journal, material, manifest, audit,
                 recovery, files, session, phrases, made>>

\* load_or_create_identity.
CreateIdentity ==
  /\ Step("create_identity")
  /\ \/ /\ material["identity"] = {}
        /\ material' = [material EXCEPT !["identity"] = {job.dek}]
        /\ Advance
     \/ /\ material["identity"] # {}
        /\ UNCHANGED <<material, bounds>>
        /\ IF material["identity"] = {job.dek}
           THEN job' = [job EXCEPT !.plan = Tail(@)] ELSE Failed
  /\ UNCHANGED <<salt, keychain, keyring, staged, journal, manifest, audit,
                 recovery, files, session, phrases, made>>

CreateManifest ==
  /\ Step("manifest")
  /\ manifest' = TRUE
  /\ Advance
  /\ UNCHANGED <<salt, keychain, keyring, staged, journal, material, audit,
                 recovery, files, session, phrases, made>>

\* issue_recovery_phrase_for_version, in bootstrap and in rotate_key.
IssueRecovery ==
  /\ Step("recovery")
  /\ recovery' = [dek |-> job.dek, version |-> job.new]
  /\ Advance
  /\ UNCHANGED <<salt, keychain, keyring, staged, journal, material, manifest,
                 audit, files, session, phrases, made>>

PhraseJournal ==
  /\ Step("phrase_journal")
  /\ journal' = [journal EXCEPT !.phrase = TRUE]
  /\ Advance
  /\ UNCHANGED <<salt, keychain, keyring, staged, material, manifest, audit,
                 recovery, files, session, phrases, made>>

EnsureAudit ==
  /\ Step("audit")
  /\ audit' = TRUE
  /\ Advance
  /\ UNCHANGED <<salt, keychain, keyring, staged, journal, material, manifest,
                 recovery, files, session, phrases, made>>

\* rollback_incomplete_bootstrap removes what the journal's bootstrap wrote,
\* the keychain entry only if it is the one the journal fingerprints.
RemoveBootstrapFile ==
  /\ \E name \in {"rm_manifest", "rm_keyring", "rm_staged", "rm_recovery",
                  "rm_identity", "rm_keychain"} : Step(name)
  /\ manifest' = (manifest /\ ~Step("rm_manifest"))
  /\ keyring' = IF Step("rm_keyring") THEN None ELSE keyring
  /\ staged' = IF Step("rm_staged") THEN None ELSE staged
  /\ recovery' = IF Step("rm_recovery") THEN None ELSE recovery
  /\ material' = IF Step("rm_identity")
                 THEN [material EXCEPT !["identity"] = {}] ELSE material
  /\ keychain' = IF Step("rm_keychain") /\ journal.custody = "os_keychain"
                    /\ keychain = journal.kek
                 THEN None ELSE keychain
  /\ Advance
  /\ UNCHANGED <<salt, journal, audit, files, session, phrases, made>>

----------------------------------------------------------------------------
(* unlock and unlock_with_recovery.                                        *)

\* finish_pending_bootstrap.
UnlockTail ==
  <<"open">> \o (IF BootstrapPending(TRUE) THEN FinishBootstrap ELSE <<>>)

\* recover_lifecycle_for_unlock with passphrase custody.  Here and below, an
\* attempt refused before it wrote anything is no step.
UnlockPassphrase(p) ==
  LET kek == PassKek(p, salt) IN
  /\ Idle
  /\ salt # None
  /\ UNCHANGED made
  /\ \/ /\ JournalOp = "none" \/ BootstrapPending(TRUE)
        /\ Opens(keyring, kek)
        /\ Start(Job("unlock", UnlockTail, "passphrase", kek))
     \/ /\ JournalOp = "ChangePassphrase"
        /\ \/ /\ salt = journal.old_salt
              /\ Opens(keyring, kek)
              /\ Start(Job("unlock", <<"discard", "unjournal", "open">>,
                           "passphrase", kek))
           \/ /\ salt = journal.new_salt
              /\ salt # journal.old_salt
              /\ Opens(keyring, kek)
              /\ Start(Job("unlock", <<"discard", "unjournal", "open">>,
                           "passphrase", kek))
           \/ /\ salt = journal.new_salt
              /\ salt # journal.old_salt
              /\ ~Opens(keyring, kek)
              /\ Opens(staged, kek)
              /\ Start(Job("unlock", <<"commit", "unjournal", "open">>,
                           "passphrase", kek))
     \/ /\ JournalOp = "MoveToKeychain"
        /\ keychain = None \/ ~(Opens(keyring, keychain)
                                  \/ Opens(staged, keychain))
        /\ Opens(keyring, kek)
        /\ Start(Job("unlock", <<"discard", "unjournal", "open">>,
                     "passphrase", kek))
     \/ /\ JournalOp = "Rotate"
        /\ Opens(keyring, kek)
        /\ Start([Job("unlock", <<"rollback_load", "open">>, "passphrase",
                      kek)
                  EXCEPT !.old = journal.old_version,
                         !.new = journal.new_version,
                         !.backup = journal.backup])

\* recover_move_to_keychain finds the keychain's KEK, whichever custody the
\* caller asked for, and finish_move_to_keychain goes forward.
UnlockFinishMove ==
  /\ Idle
  /\ JournalOp = "MoveToKeychain"
  /\ keychain # None
  /\ Opens(keyring, keychain) \/ Opens(staged, keychain)
  /\ Start(Job("unlock",
               <<IF Opens(keyring, keychain) THEN "discard" ELSE "commit",
                 "unsalt", "unjournal", "open">>, "os_keychain", keychain))
  /\ UNCHANGED made

UnlockKeychain ==
  /\ Idle
  /\ keychain # None
  /\ Opens(keyring, keychain)
  /\ UNCHANGED made
  /\ \/ /\ JournalOp = "none" \/ BootstrapPending(TRUE)
        /\ salt = None
        /\ Start(Job("unlock", UnlockTail, "os_keychain", keychain))
     \/ /\ JournalOp = "Rotate"
        /\ Start([Job("unlock", <<"rollback_load", "open">>, "os_keychain",
                      keychain)
                  EXCEPT !.old = journal.old_version,
                         !.new = journal.new_version,
                         !.backup = journal.backup])

\* The phrase of DEK d.  Without a passphrase salt, and with a keychain that
\* does not open the keyring, the recovered DEK gets a new keychain KEK.
UnlockRecovery(d) ==
  LET repair == salt = None /\ (keychain = None \/ ~Opens(keyring, keychain))
      tail == IF BootstrapPending(TRUE) THEN FinishBootstrap ELSE <<>>
  IN  /\ Idle
      /\ JournalOp = "none" \/ BootstrapPending(TRUE)
      /\ recovery # None /\ recovery.dek = d
      /\ keyring # None /\ keyring.active = recovery.version
      /\ VaultOpens(d)
      /\ \/ /\ repair
            /\ keks < MaxKey
            /\ keks' = keks + 1
            /\ Start([Job("unlock", <<"keychain", "replace">> \o tail,
                          "os_keychain", RandomKek(keks + 1))
                      EXCEPT !.dek = d])
         \/ /\ ~repair
            /\ Start([Job("unlock", tail, "recovery", None) EXCEPT !.dek = d])
            /\ UNCHANGED keks
      /\ UNCHANGED <<deks, salts>>

\* keyring::replace_with_single_active_dek.
ReplaceKeyring ==
  /\ Step("replace")
  /\ keyring' = create(job.kek, job.dek, keyring.active)
  /\ Advance
  /\ UNCHANGED <<salt, keychain, staged, journal, material, manifest, audit,
                 recovery, files, session, phrases, made>>

OpenVault == Check("open", /\ Opens(keyring, job.kek)
                           /\ VaultOpens(ActiveDek(keyring)))

----------------------------------------------------------------------------
(* change_passphrase and move_to_os_keychain, on an unlocked handle.       *)

ChangeStart(p, q) ==
  /\ Unlocked
  /\ session.custody = "passphrase"
  /\ salt # None
  /\ Opens(keyring, PassKek(p, salt))
  /\ salts < MaxSalt
  /\ salts' = salts + 1
  /\ Start(Job("change", ChangePlan, "passphrase", PassKek(q, salts + 1)))
  /\ UNCHANGED <<deks, keks>>

MoveStart(p) ==
  /\ Unlocked
  /\ session.custody = "passphrase"
  /\ salt # None
  /\ Opens(keyring, PassKek(p, salt))
  /\ keks < MaxKey
  /\ keks' = keks + 1
  /\ Start(Job("move", MovePlan, "os_keychain", RandomKek(keks + 1)))
  /\ UNCHANGED <<deks, salts>>

StageRewrap ==
  /\ Step("stage")
  /\ staged' = RewrappedUnder(keyring, job.kek)
  /\ Advance
  /\ UNCHANGED <<salt, keychain, keyring, journal, material, manifest, audit,
                 recovery, files, session, phrases, made>>

\* write_lifecycle replaces whatever journal there is.
WriteJournal ==
  /\ \/ /\ Step("change_journal")
        /\ journal' = [op |-> "ChangePassphrase", old_salt |-> salt,
                       new_salt |-> job.kek.id]
     \/ /\ Step("move_journal")
        /\ journal' = [op |-> "MoveToKeychain"]
     \/ /\ Step("rotate_journal")
        /\ journal' = [op |-> "Rotate", old_version |-> job.old,
                       new_version |-> job.new, backup |-> job.backup]
  /\ Advance
  /\ UNCHANGED <<salt, keychain, keyring, staged, material, manifest, audit,
                 recovery, files, session, phrases, made>>

WriteSalt ==
  /\ Step("salt")
  /\ salt' = job.kek.id
  /\ Advance
  /\ UNCHANGED <<keychain, keyring, staged, journal, material, manifest,
                 audit, recovery, files, session, phrases, made>>

StoreKeychain ==
  /\ Step("keychain")
  /\ keychain' = job.kek
  /\ Advance
  /\ UNCHANGED <<salt, keyring, staged, journal, material, manifest, audit,
                 recovery, files, session, phrases, made>>

LoadStaged == Check("load_staged", Opens(staged, job.kek))

CommitStaged ==
  /\ Step("commit")
  /\ staged # None
  /\ keyring' = staged
  /\ staged' = None
  /\ Advance
  /\ UNCHANGED <<salt, keychain, journal, material, manifest, audit, recovery,
                 files, session, phrases, made>>

DiscardStaged ==
  /\ Step("discard")
  /\ staged' = None
  /\ Advance
  /\ UNCHANGED <<salt, keychain, keyring, journal, material, manifest, audit,
                 recovery, files, session, phrases, made>>

RemoveSalt ==
  /\ Step("unsalt")
  /\ salt' = None
  /\ Advance
  /\ UNCHANGED <<keychain, keyring, staged, journal, material, manifest,
                 audit, recovery, files, session, phrases, made>>

RemoveJournal ==
  /\ Step("unjournal") \/ Step("rm_journal")
  /\ journal' = None
  /\ Advance
  /\ UNCHANGED <<salt, keychain, keyring, staged, material, manifest, audit,
                 recovery, files, session, phrases, made>>

----------------------------------------------------------------------------
(* rotate_key and rollback_rotation.                                       *)

\* The KEK is loaded from the keychain, where it is verified, or derived from
\* the passphrase given, where it is not.
RotateStart(p) ==
  LET kek == IF session.custody = "passphrase" THEN PassKek(p, salt)
             ELSE keychain
      typo == ~Opens(keyring, kek)
  IN  /\ Unlocked
      /\ \/ session.custody = "passphrase" /\ salt # None
         \/ session.custody = "os_keychain" /\ keychain # None /\ ~typo
      /\ journal = None
      /\ deks < MaxDek
      /\ deks' = deks + 1
      /\ typos' = typos + (IF typo THEN 1 ELSE 0)
      /\ typos' <= MaxTypos
      /\ job' = [Job("rotate", RotatePlan, session.custody, kek)
                 EXCEPT !.dek = deks + 1,
                        !.wrap = session.keys[session.active],
                        !.old = keyring.active, !.new = keyring.active + 1,
                        !.backup = recovery]
      /\ UNCHANGED <<disk, session, phrases, salts, keks, crashes, faults,
                     late, losses, commitFailed>>

AddActiveDek ==
  /\ Step("add_active_dek")
  /\ keyring' = WithActiveDek(keyring, NextVersion(keyring), job.kek, job.dek)
  /\ \/ NextVersion(keyring) = job.new /\ Advance
     \/ NextVersion(keyring) # job.new /\ Failed /\ UNCHANGED bounds
  /\ UNCHANGED <<salt, keychain, staged, journal, material, manifest, audit,
                 recovery, files, session, phrases, made>>

RotateOpen == Check("rotate_open", Opens(keyring, job.kek) /\ manifest)

\* rewrap_all_files: files already at the active version are skipped.
Outdated(f) == files[f] # None /\ files[f].version # keyring.active

Readable(f) ==
  /\ files[f].version \in DOMAIN keyring.entries
  /\ Dek(keyring, files[f].version) = files[f].dek

RewrapFile(f) ==
  /\ Step("files")
  /\ Outdated(f)
  /\ \/ /\ Readable(f)
        /\ files' = [files EXCEPT ![f] = [version |-> keyring.active,
                                          dek |-> ActiveDek(keyring)]]
        /\ UNCHANGED <<job, bounds>>
     \/ /\ ~Readable(f)
        /\ Failed
        /\ UNCHANGED <<files, bounds>>
  /\ UNCHANGED <<salt, keychain, keyring, staged, journal, material, manifest,
                 audit, recovery, session, phrases, made>>

\* Every file is at the active version; a rotation now uses the new vault.
FilesRewrapped ==
  /\ Step("files")
  /\ \A f \in File : ~Outdated(f)
  /\ job' = [job EXCEPT !.plan = Tail(@)]
  /\ session' = IF job.op = "rotate"
                THEN [session EXCEPT !.keys = Keys(keyring),
                                     !.active = keyring.active]
                ELSE session
  /\ UNCHANGED <<disk, phrases, made, bounds>>

\* rewrap_all_material, one store: entries under the old key are resealed,
\* entries under the new key are left, anything else is an error.
Rewrap ==
  IF job.op = "rotate"
  THEN [from |-> job.wrap, to |-> job.dek]
  ELSE [from |-> Dek(keyring, job.new), to |-> Dek(keyring, job.old)]

RewrapStore(s) ==
  /\ Step(s)
  /\ \/ /\ material[s] \subseteq {Rewrap.from, Rewrap.to}
        /\ material' = [material EXCEPT ![s] = IF @ = {} THEN {}
                                               ELSE {Rewrap.to}]
        /\ Advance
     \/ /\ ~(material[s] \subseteq {Rewrap.from, Rewrap.to})
        /\ Failed
        /\ UNCHANGED <<material, bounds>>
  /\ UNCHANGED <<salt, keychain, keyring, staged, journal, manifest, audit,
                 recovery, files, session, phrases, made>>

\* The keyring must open under the KEK; the rest depends on whether the new
\* DEK got into it.
RollbackLoad ==
  /\ Step("rollback_load")
  /\ \/ /\ Opens(keyring, job.kek)
        /\ job.new \in DOMAIN keyring.entries =>
             /\ job.old \in DOMAIN keyring.entries
             /\ \E v \in {job.old, job.new} :
                  material["identity"] = {Dek(keyring, v)}
        /\ job' = [job EXCEPT !.plan =
                     RollbackPlan(job.new \in DOMAIN keyring.entries)
                       \o Tail(@)]
     \/ /\ ~Opens(keyring, job.kek)
           \/ /\ job.new \in DOMAIN keyring.entries
              /\ \/ job.old \notin DOMAIN keyring.entries
                 \/ \A v \in {job.old, job.new} :
                      material["identity"] # {Dek(keyring, v)}
        /\ Failed
  /\ UNCHANGED <<disk, session, phrases, made, bounds>>

SetActiveVersion ==
  /\ Step("set_active")
  /\ \/ /\ job.old \in DOMAIN keyring.entries
        /\ keyring' = [keyring EXCEPT !.active = job.old]
        /\ Advance
     \/ /\ job.old \notin DOMAIN keyring.entries
        /\ Failed
        /\ UNCHANGED <<keyring, bounds>>
  /\ UNCHANGED <<salt, keychain, staged, journal, material, manifest, audit,
                 recovery, files, session, phrases, made>>

RollbackOpen == Check("rollback_open", Opens(keyring, job.kek) /\ manifest)

RestoreRecovery ==
  /\ Step("backup")
  /\ recovery' = job.backup
  /\ Advance
  /\ UNCHANGED <<salt, keychain, keyring, staged, journal, material, manifest,
                 audit, files, session, phrases, made>>

RemoveVersion ==
  /\ Step("remove_version")
  /\ \/ /\ keyring.active # job.new
        /\ keyring' = WithoutVersion(keyring, job.new)
        /\ Advance
     \/ /\ keyring.active = job.new
        /\ Failed
        /\ UNCHANGED <<keyring, bounds>>
  /\ UNCHANGED <<salt, keychain, staged, journal, material, manifest, audit,
                 recovery, files, session, phrases, made>>

\* After a successful rollback the handle reopens the vault.
Reload ==
  /\ Step("reload")
  /\ \/ /\ Opens(keyring, job.kek) /\ manifest
        /\ session' = [session EXCEPT !.keys = Keys(keyring),
                                      !.active = keyring.active]
        /\ job' = [job EXCEPT !.plan = Tail(@)]
     \/ /\ ~(Opens(keyring, job.kek) /\ manifest)
        /\ Failed
        /\ UNCHANGED session
  /\ UNCHANGED <<disk, phrases, made, bounds>>

----------------------------------------------------------------------------
(* The end of an operation, use of the handle, failures.                   *)

Finish ==
  /\ job # None
  /\ job.plan = <<>>
  /\ job' = None
  /\ session' =
       CASE job.op \in {"bootstrap", "unlock"} ->
              [custody |-> job.custody,
               keys |-> IF job.custody = "recovery"
                        THEN [v \in {keyring.active} |-> job.dek]
                        ELSE Keys(keyring),
               active |-> keyring.active]
         [] job.op = "move" -> [session EXCEPT !.custody = "os_keychain"]
         [] OTHER -> session
  /\ phrases' = IF job.op \in {"bootstrap", "rotate"}
                THEN phrases \cup {recovery.dek} ELSE phrases
  /\ UNCHANGED <<disk, made, bounds>>

WriteFile(f) ==
  /\ Unlocked
  /\ files' = [files EXCEPT ![f] = [version |-> session.active,
                                    dek |-> session.keys[session.active]]]
  /\ UNCHANGED <<salt, keychain, keyring, staged, journal, material, manifest,
                 audit, recovery, session, job, phrases, made, bounds>>

\* transit_create_key, signing_create_key, broker_create.
SealMaterial(s) ==
  /\ Unlocked
  /\ s # "identity"
  /\ material' = [material EXCEPT ![s] =
                    @ \cup {session.keys[session.active]}]
  /\ UNCHANGED <<salt, keychain, keyring, staged, journal, manifest, audit,
                 recovery, files, session, job, phrases, made, bounds>>

\* The handle is dropped and with it VaultLock.
Lock ==
  /\ Unlocked
  /\ session' = None
  /\ UNCHANGED <<disk, job, phrases, made, bounds>>

Crash ==
  /\ job # None
  /\ crashes < MaxCrashes
  /\ crashes' = crashes + 1
  /\ session' = None
  /\ job' = None
  /\ UNCHANGED <<disk, phrases, made, faults, late, typos, losses, commitFailed>>

Fault ==
  /\ job # None
  /\ job.plan # <<>>
  /\ faults + late < MaxFaults
  /\ faults' = faults + 1
  /\ Failed
  /\ UNCHANGED <<disk, session, phrases, made, crashes, late, typos, losses,
                 commitFailed>>

\* The user or the OS drops the keychain entry.
LoseKeychain ==
  /\ Idle
  /\ keychain # None
  /\ losses < MaxLosses
  /\ losses' = losses + 1
  /\ keychain' = None
  /\ UNCHANGED <<salt, keyring, staged, journal, material, manifest, audit,
                 recovery, files, session, job, phrases, made, crashes,
                 faults, late, typos, commitFailed>>

----------------------------------------------------------------------------
Unlock ==
  \/ \E p \in Passphrase : UnlockPassphrase(p)
  \/ UnlockFinishMove
  \/ UnlockKeychain
  \/ \E d \in phrases : UnlockRecovery(d)

Bootstrap ==
  \E custody \in Custodies, p \in Passphrase :
    BootstrapStart(custody, p) \/ BootstrapResume(custody, p)

RunStep ==
  \/ BootstrapJournal \/ CreateKeyring \/ CreateIdentity \/ CreateManifest
  \/ IssueRecovery \/ PhraseJournal \/ EnsureAudit \/ RemoveBootstrapFile
  \/ ReplaceKeyring \/ OpenVault
  \/ StageRewrap \/ WriteJournal \/ WriteSalt \/ StoreKeychain \/ LoadStaged
  \/ CommitStaged \/ DiscardStaged \/ RemoveSalt \/ RemoveJournal
  \/ AddActiveDek \/ RotateOpen \/ FilesRewrapped
  \/ \E f \in File : RewrapFile(f)
  \/ \E s \in StoreNames : RewrapStore(s)
  \/ RollbackLoad \/ SetActiveVersion \/ RollbackOpen \/ RestoreRecovery
  \/ RemoveVersion \/ Reload \/ Finish

Next ==
  \/ Bootstrap
  \/ Unlock
  \/ \E p, q \in Passphrase : ChangeStart(p, q)
  \/ \E p \in Passphrase : MoveStart(p) \/ RotateStart(p)
  \/ RunStep
  \/ \E f \in File : WriteFile(f)
  \/ \E s \in StoreNames : SealMaterial(s)
  \/ Lock \/ Crash \/ Fault \/ LoseKeychain

Spec == Init /\ [][Next]_vars

\* An operation runs on, and the user goes on trying to unlock with what they
\* have.
FairSpec == Spec /\ WF_vars(RunStep) /\ WF_vars(Unlock)

----------------------------------------------------------------------------
(* Properties.                                                             *)

\* A vault the user can be asked to unlock: its bootstrap reached the journal
\* entry that holds the recovery phrase, or ended.
Initialised ==
  keyring # None /\ recovery # None /\ ~BootstrapPending(FALSE)

\* Every data file can be decrypted with a DEK the keyring holds at that
\* file's version, at every point of every operation, and identity, transit,
\* signing and broker material is sealed under DEKs the keyring still holds,
\* whatever rewrap_all_files, rewrap_all_material and remove_version were
\* interrupted at.
DataDecryptable ==
  /\ keyring # None => \A f \in File : files[f] # None => Readable(f)
  /\ Initialised => \A s \in StoreNames :
       material[s] \subseteq {Dek(keyring, v) : v \in DOMAIN keyring.entries}

AllOnActiveDek ==
  /\ recovery = [dek |-> ActiveDek(keyring), version |-> keyring.active]
  /\ \A s \in StoreNames : material[s] \subseteq {ActiveDek(keyring)}
  /\ \A f \in File : files[f] # None => ~Outdated(f)

\* When no operation runs and no journal is pending, the recovery bundle, all
\* material and all files are on the keyring's active DEK: no interrupted
\* rotation, rollback, custody move or recovery repair leaves a mixture.  One
\* error is excepted: once the fsync behind the journal's unlink has failed in
\* rotate_key, the rollback it starts runs without a journal, and a crash in
\* it leaves one.
OneDekAtRest ==
  journal = None /\ job = None /\ keyring # None /\ ~commitFailed =>
    AllOnActiveDek

\* "Until this durable replacement succeeds, an interrupted transaction rolls
\* every artifact back to the old DEK": a Rotate journal leaves the disk only
\* in a step after which everything is on one DEK.
RotationEndsWhole ==
  [][JournalOp = "Rotate" /\ JournalOp' # "Rotate" => AllOnActiveDek]_vars

\* "unlock normal custody to resume recovery": while a Rotate journal is
\* pending, the passphrase or (if nobody removed it) the keychain entry opens
\* the keyring, which rollback_rotation needs.
RotationResumes ==
  JournalOp = "Rotate" /\ losses = 0 =>
    \/ \E p \in Passphrase : Opens(keyring, PassKek(p, salt))
    \/ Opens(keyring, keychain)

\* Nothing of a vault is left for the next bootstrap to trip over.
NothingLeft ==
  /\ salt = None /\ keychain = None /\ keyring = None /\ staged = None
  /\ recovery = None /\ ~manifest /\ material["identity"] = {}

\* Whatever crash or I/O error interrupts bootstrap, unlock, passphrase
\* change, custody move, rotation or rollback, a user who goes on trying the
\* credentials they have gets the vault open again, unless the keychain entry
\* is lost or rotate_key met the error that OneDekAtRest excepts; and a
\* bootstrap that did not come to its phrase is still journalled or was
\* rolled back without a trace.
Reopens ==
  /\ [](Initialised => <>(session # None \/ losses > 0 \/ commitFailed))
  /\ [](journal = None /\ job = None => Initialised \/ NothingLeft)
=============================================================================
