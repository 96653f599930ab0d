------------------------------ MODULE Storage ------------------------------
(***************************************************************************)
(* The container store of sv-storage: folders, sealed files and the        *)
(* authenticated manifest that gives each folder its security mode. Every  *)
(* durable step (a rename, a mkdir, an unlink) is an action, so the        *)
(* process may die, or an operation return an error, between any two. The  *)
(* vault lock of sv-core admits one handle, and the operations of a handle *)
(* run one after the other. People and programs outside may edit the       *)
(* manifest, which they cannot authenticate, and move blobs.               *)
(***************************************************************************)
EXTENDS Integers, FiniteSets

CONSTANTS
    Container, File,    \* names that is_valid_container_name, is_valid_file_name accept
    Mode,               \* the SecurityMode values of the instance
    DefaultMode,             \* the default mode of a manifest
    Value,              \* plaintexts
    MaxVersion,         \* bound on the key versions
    MaxKept,            \* bound on the copies of the manifest outside
    NoRule, NoDigest, NoAnswer

ASSUME StorageAssumption ==
    /\ DefaultMode \in Mode
    /\ NoRule \notin Mode
    /\ MaxVersion \in Nat \ {0}
    /\ MaxKept \in Nat
    /\ NoDigest \notin [Container -> Mode \cup {NoRule}]
    /\ NoAnswer \notin Container \X File \X Value

VARIABLES
    dirs,       \* the container folders
    files,      \* path -> blob, for the paths that hold one
    manifest,   \* the rules, and whether their tag is valid, stale or absent
    active,     \* the active key version; the handle holds all up to it
    opened,     \* a handle is open
    op,         \* the create or delete that is under way
    reviewed,   \* the digest an operator has confirmed
    answer,     \* what the last read_file returned
    agreed,     \* history: the mode a container was created or reviewed with
    written,    \* history: what was ever written where
    kept,       \* the authentic manifests of which somebody outside has a copy
    latest,     \* history: the rules that were written last with a valid tag
    replayed    \* history: containers whose rule an older manifest put back

manifestHistory == <<kept, latest, replayed>>
storageVars ==
    <<dirs, files, manifest, active, opened, op, reviewed, answer, agreed, written,
      manifestHistory>>

Paths == Container \X File
NoOp == [kind |-> "none"]
NoRules == [c \in Container |-> NoRule]

StorageInit ==
    /\ dirs = {}
    /\ files = <<>>
    /\ manifest = [rules |-> NoRules, tag |-> "valid"]
    /\ active = 1
    /\ opened = TRUE
    /\ op = NoOp
    /\ reviewed = NoDigest
    /\ answer = NoAnswer
    /\ agreed = NoRules
    /\ written = {}
    /\ kept = {}
    /\ latest = NoRules
    /\ replayed = {}

-----------------------------------------------------------------------------

\* A plausible fault: the blob is bound to its file name alone.
aad_for_name(c, f) == <<CHOOSE d \in Container : TRUE, f>>

aad_for(c, f) == <<c, f>>

\* A handle that runs no operation, and a manifest read_manifest accepts.
Ready == opened /\ op = NoOp
Authentic == manifest.tag = "valid"

\* container_rule_index, with the default where there is no rule.
effective(rules, c) == IF rules[c] = NoRule THEN DefaultMode ELSE rules[c]
container_mode(c) == effective(manifest.rules, c)

list_files(c) == {f \in File : <<c, f>> \in DOMAIN files}
list_containers ==
    {[name |-> c, mode |-> container_mode(c), file_count |-> Cardinality(list_files(c))]
        : c \in dirs}

\* write_manifest: temporary file, sync and rename, with a tag for these rules.
\* The writer settles the rules of the containers in settled.
write_manifest(rules, settled) ==
    /\ manifest' = [rules |-> rules, tag |-> "valid"]
    /\ latest' = rules
    /\ replayed' = replayed \ settled
    /\ UNCHANGED kept

without(S) == [p \in DOMAIN files \ S |-> files[p]]

-----------------------------------------------------------------------------

\* create_container: the rule is durable before the folder is visible.
create_container(c, m) ==
    /\ Ready /\ Authentic
    /\ c \notin dirs
    /\ write_manifest([manifest.rules EXCEPT ![c] = m], {c})
    /\ op' = [kind |-> "create", container |-> c, mode |-> m]
    /\ UNCHANGED <<dirs, files, active, opened, reviewed, answer, agreed, written>>

make_directory ==
    /\ opened /\ op.kind = "create"
    /\ dirs' = dirs \cup {op.container}
    /\ agreed' = [agreed EXCEPT ![op.container] = op.mode]
    /\ op' = NoOp
    /\ UNCHANGED <<files, manifest, active, opened, reviewed, answer, written,
                   manifestHistory>>

\* delete_container: the folder goes entry by entry, then its rule.
delete_container(c) ==
    /\ Ready
    /\ op' = [kind |-> "delete", container |-> c]
    /\ UNCHANGED <<dirs, files, manifest, active, opened, reviewed, answer, agreed,
                   written, manifestHistory>>

remove_dir_all ==
    /\ opened /\ op.kind = "delete" /\ op.container \in dirs
    /\ \/ \E f \in list_files(op.container) :
            files' = without({<<op.container, f>>}) /\ UNCHANGED <<dirs, agreed>>
       \/ /\ list_files(op.container) = {}
          /\ dirs' = dirs \ {op.container}
          /\ agreed' = [agreed EXCEPT ![op.container] = NoRule]
          /\ UNCHANGED files
    /\ UNCHANGED <<manifest, active, opened, op, reviewed, answer, written,
                   manifestHistory>>

remove_rule ==
    /\ opened /\ op.kind = "delete" /\ op.container \notin dirs
    /\ IF Authentic
       THEN write_manifest([manifest.rules EXCEPT ![op.container] = NoRule], {op.container})
       ELSE UNCHANGED <<manifest, manifestHistory>>
    /\ op' = NoOp
    /\ UNCHANGED <<dirs, files, active, opened, reviewed, answer, agreed, written>>

\* The operation returns an error where it stands: a full disk, a denied call.
op_fails ==
    /\ op # NoOp
    /\ op' = NoOp
    /\ UNCHANGED <<dirs, files, manifest, active, opened, reviewed, answer, agreed,
                   written, manifestHistory>>

-----------------------------------------------------------------------------

sealed(c, f, v) == [aad |-> aad_for(c, f), value |-> v, version |-> active]

\* aead_open authenticates the key version and the logical path.
decrypts(c, f) ==
    /\ <<c, f>> \in DOMAIN files
    /\ files[<<c, f>>].version <= active
    /\ files[<<c, f>>].aad = aad_for(c, f)

put_blob(c, f, v) ==
    files' = [p \in DOMAIN files \cup {<<c, f>>} |->
                IF p = <<c, f>> THEN sealed(c, f, v) ELSE files[p]]

write_file(c, f, v) ==
    /\ Ready /\ c \in dirs
    /\ put_blob(c, f, v)
    /\ written' = written \cup {<<c, f, v>>}
    /\ UNCHANGED <<dirs, manifest, active, opened, op, reviewed, answer, agreed,
                   manifestHistory>>

read_file(c, f) ==
    /\ Ready /\ c \in dirs
    /\ answer' = IF decrypts(c, f) THEN <<c, f, files[<<c, f>>].value>> ELSE NoAnswer
    /\ UNCHANGED <<dirs, files, manifest, active, opened, op, reviewed, agreed, written,
                   manifestHistory>>

delete_file(c, f) ==
    /\ Ready /\ c \in dirs
    /\ files' = without({<<c, f>>})
    /\ UNCHANGED <<dirs, manifest, active, opened, op, reviewed, answer, agreed, written,
                   manifestHistory>>

\* A file under an older key is read and written again under the active one.
rewrap_file(c, f) ==
    /\ Ready /\ c \in dirs
    /\ decrypts(c, f) /\ files[<<c, f>>].version # active
    /\ put_blob(c, f, files[<<c, f>>].value)
    /\ UNCHANGED <<dirs, manifest, active, opened, op, reviewed, answer, agreed, written,
                   manifestHistory>>

\* The handle is opened again with one more key, as a rotation of sv-core does.
new_version ==
    /\ Ready /\ active < MaxVersion
    /\ active' = active + 1
    /\ UNCHANGED <<dirs, files, manifest, opened, op, reviewed, answer, agreed, written,
                   manifestHistory>>

-----------------------------------------------------------------------------

\* The process dies, or the vault is locked.
drop_handle ==
    /\ opened
    /\ opened' = FALSE
    /\ op' = NoOp
    /\ answer' = NoAnswer
    /\ UNCHANGED <<dirs, files, manifest, active, reviewed, agreed, written,
                   manifestHistory>>

\* open_existing_with_keys_and_manifest_key verifies the manifest first.
open_existing ==
    /\ ~opened /\ Authentic
    /\ opened' = TRUE
    /\ UNCHANGED <<dirs, files, manifest, active, op, reviewed, answer, agreed, written,
                   manifestHistory>>

\* manifest_migration_digest: an operator reads the rules and confirms them.
review ==
    /\ ~opened
    /\ reviewed' = manifest.rules
    /\ UNCHANGED <<dirs, files, manifest, active, opened, op, answer, agreed, written,
                   manifestHistory>>

digest_matches == reviewed = manifest.rules

\* migrate_legacy_manifest: the reviewed rules, and only those, get a tag. A
\* manifest that has one already must verify and is left alone.
migrate_legacy_manifest ==
    /\ ~opened
    /\ digest_matches
    /\ manifest.tag = "none"
    /\ write_manifest(manifest.rules, Container)
    /\ agreed' = [c \in Container |->
                    IF c \in dirs THEN effective(reviewed, c) ELSE agreed[c]]
    /\ UNCHANGED <<dirs, files, active, opened, op, reviewed, answer, written>>

\* Outside this program: an editor changes a rule and keeps or strips the tag.
edit_manifest(c, m) ==
    /\ manifest.rules[c] # m
    /\ \E tag \in {"stale", "none"} :
        manifest' = [rules |-> [manifest.rules EXCEPT ![c] = m], tag |-> tag]
    /\ UNCHANGED <<dirs, files, active, opened, op, reviewed, answer, agreed, written,
                   manifestHistory>>

\* Outside this program: manifest.json is copied, and an older copy put back. The
\* tag covers no version or nonce, so verify_manifest_integrity accepts the copy.
keep_manifest ==
    /\ Authentic /\ Cardinality(kept) < MaxKept
    /\ kept' = kept \cup {manifest.rules}
    /\ UNCHANGED <<dirs, files, manifest, active, opened, op, reviewed, answer, agreed,
                   written, latest, replayed>>

restore_manifest(rules) ==
    /\ rules \in kept
    /\ manifest' = [rules |-> rules, tag |-> "valid"]
    /\ replayed' = replayed \cup {c \in Container : rules[c] # latest[c]}
    /\ UNCHANGED <<dirs, files, active, opened, op, reviewed, answer, agreed, written,
                   kept, latest>>

\* Outside this program: a blob is copied over the file of another path.
copy_blob(p, q) ==
    /\ p \in DOMAIN files /\ q[1] \in dirs /\ p # q
    /\ files' = [r \in DOMAIN files \cup {q} |-> IF r = q THEN files[p] ELSE files[r]]
    /\ UNCHANGED <<dirs, manifest, active, opened, op, reviewed, answer, agreed, written,
                   manifestHistory>>

\* A plausible fault: the folder is made first and its rule written after.
directory_first ==
    \/ \E c \in Container, m \in Mode :
        /\ Ready /\ Authentic /\ c \notin dirs
        /\ dirs' = dirs \cup {c}
        /\ agreed' = [agreed EXCEPT ![c] = m]
        /\ op' = [kind |-> "create", container |-> c, mode |-> m]
        /\ UNCHANGED <<files, manifest, active, opened, reviewed, answer, written,
                       manifestHistory>>
    \/ /\ opened /\ op.kind = "create"
       /\ write_manifest([manifest.rules EXCEPT ![op.container] = op.mode], {op.container})
       /\ op' = NoOp
       /\ UNCHANGED <<dirs, files, active, opened, reviewed, answer, agreed, written>>

creation ==
    \/ \E c \in Container, m \in Mode : create_container(c, m)
    \/ make_directory

StorageNext ==
    \/ creation
    \/ \E c \in Container : delete_container(c)
    \/ remove_dir_all
    \/ remove_rule
    \/ op_fails
    \/ \E c \in Container, f \in File :
        \/ read_file(c, f)
        \/ delete_file(c, f)
        \/ rewrap_file(c, f)
        \/ \E v \in Value : write_file(c, f, v)
    \/ new_version
    \/ drop_handle
    \/ open_existing
    \/ review
    \/ migrate_legacy_manifest
    \/ \E c \in Container, m \in Mode \cup {NoRule} : edit_manifest(c, m)
    \/ keep_manifest
    \/ \E rules \in kept : restore_manifest(rules)
    \/ \E p, q \in Paths : copy_blob(p, q)

StorageSpec == StorageInit /\ [][StorageNext]_storageVars

-----------------------------------------------------------------------------

\* Whatever crash, error, unauthenticated edit or migration came before, a
\* container that can be seen under an authentic manifest has the mode it was
\* created with, or the one an operator reviewed: "the opposite order could
\* expose a protected container as default-mode" (create_container). The
\* exception: an older authentic manifest put back verifies, and a container
\* whose rule it changes has the older mode until it is created, deleted or
\* reviewed again; the containers whose rule it leaves alone keep theirs.
VisibleContainersKeepTheirMode ==
    Authentic => \A info \in list_containers :
                    info.name \in replayed \/ info.mode = agreed[info.name]

\* A read returns something that was written under that very path, however
\* blobs were moved about and keys rotated in between (write_file: "a blob
\* renamed across containers will fail to decrypt").
ReadsWhatWasWritten == answer # NoAnswer => answer \in written
=============================================================================
