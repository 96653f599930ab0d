---------------------------- MODULE Remediation ----------------------------
(***************************************************************************)
(* The crate that rewrites a project's own files: a plan of redactions is  *)
(* applied item by item, an interrupted run is resumed from its journal, a *)
(* redaction is undone from its recovery record, and a wholly sensitive    *)
(* file is ingested and removed. The vault keeps snapshots, records and a  *)
(* journal; the tree belongs to other programs as well, which write to it  *)
(* between any two steps. The run can die at any step.                     *)
(***************************************************************************)
EXTENDS Integers, Sequences, FiniteSets

CONSTANTS
    Doc,            \* relative paths under the project root, as numbers
    WholeDocs,      \* those whose name is on the allowlist of check_eligibility
    Findings,       \* documents with a span that holds a finding, as numbers
    Text,           \* what a document can hold apart from its spans
    Inode,          \* identities a file can have
    Identified,     \* whether the platform shows the identity of a file
    MaxForeign,     \* bound on the writes of other programs
    MaxRounds,      \* bound on the plans and the calls
    NoDoc           \* no file at a path

ASSUME RemediationAssumption ==
    /\ Doc \subseteq Nat /\ Findings \subseteq Doc \X Nat /\ WholeDocs \subseteq Doc
    /\ IsFiniteSet(Findings) /\ IsFiniteSet(Findings) /\ Cardinality(Inode) > 1 /\ Identified \subseteq BOOLEAN
    /\ MaxForeign \in Nat /\ MaxRounds \in Nat

VARIABLES
    tree,           \* the file at each path
    identified,     \* FileIdentity::capture_from_path succeeds
    plan,           \* the items of the approved plan, in order
    managed,        \* the approved managed-file plan, as a set of at most one
    snapshots,      \* vault: stored originals
    recoveries,     \* vault: recovery records
    rewriteJournal, \* vault: the latest state of each path in the plan's journal
    manifests,      \* paths whose manifest is in the tree
    run,            \* the call in progress
    foreign,        \* writes of other programs so far
    rounds,         \* plans and calls so far
    gone            \* history: what a call overwrote or removed after its check

remediationVars ==
    <<tree, identified, plan, managed, snapshots, recoveries, rewriteJournal, manifests,
      run, foreign, rounds, gone>>

vaultVars == <<snapshots, recoveries, rewriteJournal>>
planVars == <<identified, plan, managed>>

NoRun == [stage |-> "idle"]
Original(t) == [text |-> t, blank |-> {}]
redacted(c, m) == [c EXCEPT !.blank = @ \cup {m}]

\* The record of an ingested file has no span.
WholeFile == -1
Undone(r) == IF r.span = WholeFile THEN r.content ELSE redacted(r.content, r.span)

RemediationInit ==
    /\ tree \in [Doc -> {[content |-> Original(CHOOSE t \in Text : TRUE),
                        inode |-> CHOOSE i \in Inode : TRUE]}]
    /\ identified \in Identified
    /\ plan = <<>> /\ managed = {}
    /\ snapshots = {} /\ recoveries = {} /\ rewriteJournal = [d \in Doc |-> "none"]
    /\ manifests = {}
    /\ run = NoRun
    /\ foreign = 0 /\ rounds = 0 /\ gone = {}

Unoccupied == run.stage = "idle"
BeginRound == Unoccupied /\ rounds < MaxRounds /\ rounds' = rounds + 1
RunAt(s) == run.stage = s
Goto(s) == run' = [run EXCEPT !.stage = s]
There(d) == tree[d] # NoDoc

-----------------------------------------------------------------------------
(* Plans: each item is bound to the identity and the bytes of its file.    *)

Snapshot(d, m) ==
    [doc |-> d, mark |-> m, inode |-> tree[d].inode, content |-> tree[d].content]
PlannedBefore(a, b) == a.doc < b.doc \/ (a.doc = b.doc /\ a.mark < b.mark)

\* The items sorted: no two of them have one document and one span.
Sorted(I) ==
    {p \in [1..Cardinality(I) -> I] :
        \A i, j \in DOMAIN p : i < j => PlannedBefore(p[i], p[j])}

\* A span that holds a marker is refused, an overlap as well: spans of one
\* document are apart. A plan has a journal of its own.
build(S) ==
    /\ BeginRound
    /\ \A s \in S : There(s[1]) /\ s[2] \notin tree[s[1]].content.blank
    /\ plan' \in Sorted({Snapshot(s[1], s[2]) : s \in S})
    /\ rewriteJournal' = [d \in Doc |-> "none"]
    /\ UNCHANGED <<tree, identified, managed, snapshots, recoveries, manifests, run,
                   foreign, gone>>

check_eligibility(d) == d \in WholeDocs

build_managed(d) ==
    /\ BeginRound
    /\ check_eligibility(d) /\ There(d)
    /\ managed' = {Snapshot(d, WholeFile)}
    /\ UNCHANGED <<tree, identified, plan, vaultVars, manifests, run, foreign, gone>>

-----------------------------------------------------------------------------
(* The pipeline of one item.                                               *)

Item == Head(run.items)
ItemDoc == Item.doc

same_identity(item) == identified => tree[item.doc].inode = item.inode
same_bytes(item) == tree[item.doc].content = item.content

\* The next item, whatever became of this one.
NextItem ==
    run' = IF Tail(run.items) = <<>> THEN NoRun
           ELSE [run EXCEPT !.stage = "verify", !.items = Tail(@), !.raced = FALSE]

execute(dry) ==
    /\ BeginRound /\ plan # <<>>
    /\ run' = [stage |-> "verify", items |-> plan, dry |-> dry, raced |-> FALSE,
               seen |-> [d \in Doc |-> "none"]]
    /\ UNCHANGED <<tree, planVars, vaultVars, manifests, foreign, gone>>

\* The journal is the one read when the call began.
resume ==
    /\ BeginRound /\ plan # <<>>
    /\ run' = [stage |-> "verify", items |-> plan, dry |-> FALSE, raced |-> FALSE,
               seen |-> rewriteJournal]
    /\ UNCHANGED <<tree, planVars, vaultVars, manifests, foreign, gone>>

Skips(d) == run.seen[d] \in {"replaced", "rolled_back"}

\* Steps (1) to (3), and on a resumed item straight to the replace.
verify ==
    /\ RunAt("verify") /\ There(ItemDoc) /\ ~Skips(ItemDoc)
    /\ same_identity(Item) /\ same_bytes(Item) /\ ~run.dry
    /\ run' = [run EXCEPT !.stage = IF run.seen[ItemDoc] = "stored" THEN "recheck"
                                    ELSE "snapshot",
                          !.raced = FALSE]
    /\ UNCHANGED <<tree, planVars, vaultVars, manifests, foreign, rounds, gone>>

\* A file that is skipped, stale, locked by another or a dry run, or whose
\* detector is not the pinned one.
pass_over ==
    /\ RunAt("verify")
    /\ NextItem
    /\ UNCHANGED <<tree, planVars, vaultVars, manifests, foreign, rounds, gone>>

Keeping == RunAt("snapshot") \/ RunAt("record") \/ RunAt("journal")

store_snapshot ==
    /\ RunAt("snapshot")
    /\ snapshots' = snapshots \cup {<<ItemDoc, Item.content>>}
    /\ Goto("record")
    /\ UNCHANGED <<tree, planVars, recoveries, rewriteJournal, manifests, foreign,
                   rounds, gone>>

store_recovery ==
    /\ RunAt("record")
    /\ recoveries' = recoveries \cup
           {[doc |-> ItemDoc, content |-> Item.content, span |-> Item.mark]}
    /\ Goto("journal")
    /\ UNCHANGED <<tree, planVars, snapshots, rewriteJournal, manifests, foreign,
                   rounds, gone>>

\* append_journal reads the journal and writes it anew; one that cannot be
\* read is taken for an empty one.
Appended(d, s) ==
    {[rewriteJournal EXCEPT ![d] = s], [e \in Doc |-> IF e = d THEN s ELSE "none"]}

journal_stored ==
    /\ RunAt("journal")
    /\ rewriteJournal' \in Appended(ItemDoc, "stored")
    /\ Goto("recheck")
    /\ UNCHANGED <<tree, planVars, snapshots, recoveries, manifests, foreign, rounds,
                   gone>>

\* The sink fails: the file is untouched and the next item follows.
sink_fails ==
    /\ Keeping
    /\ NextItem
    /\ UNCHANGED <<tree, planVars, vaultVars, manifests, foreign, rounds, gone>>

\* A plausible fault: the file is not read again after the vault's steps.
unchecked(item) == TRUE

\* The content once more, and not the identity.
unchanged(item) == same_bytes(item)

recheck ==
    /\ RunAt("recheck") /\ There(ItemDoc)
    /\ unchanged(Item)
    /\ run' = [run EXCEPT !.stage = "replace", !.raced = FALSE]
    /\ UNCHANGED <<tree, planVars, vaultVars, manifests, foreign, rounds, gone>>

\* Stale, locked or unreadable.
recheck_fails ==
    /\ RunAt("recheck")
    /\ NextItem
    /\ UNCHANGED <<tree, planVars, vaultVars, manifests, foreign, rounds, gone>>

\* What is lost with a file at a path, unless others wrote to it since the
\* check: that window is one the code leaves open.
Lost(d) ==
    IF There(d) /\ ~run.raced THEN {<<d, tree[d].content>>} ELSE {}

\* The new file is made before the old one is gone.
NewInode(d) == IF There(d) THEN Inode \ {tree[d].inode} ELSE Inode

replace_atomic(d, c) ==
    /\ gone' = gone \cup Lost(d)
    /\ \E i \in NewInode(d) : tree' = [tree EXCEPT ![d] = [content |-> c, inode |-> i]]

replace ==
    /\ RunAt("replace")
    /\ replace_atomic(ItemDoc, redacted(Item.content, Item.mark))
    /\ Goto("done")
    /\ UNCHANGED <<planVars, vaultVars, manifests, foreign, rounds>>

\* The write fails, or setting the permissions does; the item is over.
replace_fails ==
    /\ RunAt("replace")
    /\ NextItem
    /\ UNCHANGED <<tree, planVars, vaultVars, manifests, foreign, rounds, gone>>

\* The journal and the audit; a failure is only reported.
journal_replaced ==
    /\ RunAt("done")
    /\ rewriteJournal' \in Appended(ItemDoc, "replaced") \cup {rewriteJournal}
    /\ NextItem
    /\ UNCHANGED <<tree, planVars, snapshots, recoveries, manifests, foreign, rounds,
                   gone>>

ApplyStep ==
    \/ verify \/ pass_over
    \/ store_snapshot \/ store_recovery \/ journal_stored \/ sink_fails
    \/ recheck \/ recheck_fails \/ replace \/ replace_fails \/ journal_replaced

-----------------------------------------------------------------------------
(* restore: only a file exactly as the rewrite left it is put back.        *)

restorable(r) == tree[r.doc].content = redacted(r.content, r.span)

restore(r) ==
    /\ BeginRound
    /\ r \in recoveries /\ r.span # WholeFile
    /\ <<r.doc, r.content>> \in snapshots
    /\ There(r.doc) /\ restorable(r)
    /\ run' = [stage |-> "restore", record |-> r, raced |-> FALSE]
    /\ UNCHANGED <<tree, planVars, vaultVars, manifests, foreign, gone>>

\* A write that fails ends the call as a crash does.
put_back ==
    /\ RunAt("restore")
    /\ replace_atomic(run.record.doc, run.record.content)
    /\ Goto("restored")
    /\ UNCHANGED <<planVars, vaultVars, manifests, foreign, rounds>>

journal_rolled_back ==
    /\ RunAt("restored")
    /\ rewriteJournal' \in Appended(run.record.doc, "rolled_back") \cup {rewriteJournal}
    /\ run' = NoRun
    /\ UNCHANGED <<tree, planVars, snapshots, recoveries, manifests, foreign, rounds,
                   gone>>

RestoreStep == put_back \/ journal_rolled_back

-----------------------------------------------------------------------------
(* ingest_managed_file: the file is read once, and removed at the end.     *)

Managed == run.managed

ingest(item) ==
    /\ BeginRound /\ item \in managed
    /\ check_eligibility(item.doc)
    /\ There(item.doc) /\ same_identity(item) /\ same_bytes(item)
    /\ run' = [stage |-> "i_snapshot", managed |-> item, raced |-> FALSE]
    /\ UNCHANGED <<tree, planVars, vaultVars, manifests, foreign, gone>>

ingest_store ==
    /\ RunAt("i_snapshot")
    /\ snapshots' = snapshots \cup {<<Managed.doc, Managed.content>>}
    /\ Goto("i_record")
    /\ UNCHANGED <<tree, planVars, recoveries, rewriteJournal, manifests, foreign,
                   rounds, gone>>

\* Its journal entries are read by no resume.
ingest_record ==
    /\ RunAt("i_record")
    /\ recoveries' = recoveries \cup
           {[doc |-> Managed.doc, content |-> Managed.content, span |-> WholeFile]}
    /\ Goto("i_manifest")
    /\ UNCHANGED <<tree, planVars, snapshots, rewriteJournal, manifests, foreign,
                   rounds, gone>>

ingest_manifest ==
    /\ RunAt("i_manifest")
    /\ manifests' = manifests \cup {Managed.doc}
    /\ Goto("i_check")
    /\ UNCHANGED <<tree, planVars, vaultVars, foreign, rounds, gone>>

startup_check(ok) ==
    /\ RunAt("i_check")
    /\ IF ok THEN Goto("i_remove") /\ UNCHANGED manifests
       ELSE run' = NoRun /\ manifests' \in {manifests, manifests \ {Managed.doc}}
    /\ UNCHANGED <<tree, planVars, vaultVars, foreign, rounds, gone>>

\* The manifest stays when the removal fails.
remove_file ==
    /\ RunAt("i_remove")
    /\ \/ /\ There(Managed.doc)
          /\ gone' = gone \cup Lost(Managed.doc)
          /\ tree' = [tree EXCEPT ![Managed.doc] = NoDoc]
       \/ UNCHANGED <<tree, gone>>
    /\ run' = NoRun
    /\ UNCHANGED <<planVars, vaultVars, manifests, foreign, rounds>>

ingest_fails ==
    /\ RunAt("i_snapshot") \/ RunAt("i_record") \/ RunAt("i_manifest")
    /\ run' = NoRun
    /\ UNCHANGED <<tree, planVars, vaultVars, manifests, foreign, rounds, gone>>

IngestStep ==
    \/ ingest_store \/ ingest_record \/ ingest_manifest
    \/ \E ok \in BOOLEAN : startup_check(ok)
    \/ remove_file \/ ingest_fails

-----------------------------------------------------------------------------
(* What the crate does not control.                                        *)

Crash ==
    /\ ~Unoccupied
    /\ run' = NoRun
    /\ UNCHANGED <<tree, planVars, vaultVars, manifests, foreign, rounds, gone>>

\* The path the call in progress is about.
Working(d) ==
    \/ "items" \in DOMAIN run /\ d = ItemDoc
    \/ "record" \in DOMAIN run /\ d = run.record.doc
    \/ "managed" \in DOMAIN run /\ d = Managed.doc

\* Another program writes a file, in place or as a new one, or deletes it.
ForeignWrite(d, f) ==
    /\ foreign < MaxForeign
    /\ foreign' = foreign + 1
    /\ tree' = [tree EXCEPT ![d] = f]
    /\ run' = IF Working(d) THEN [run EXCEPT !.raced = TRUE] ELSE run
    /\ UNCHANGED <<planVars, vaultVars, manifests, rounds, gone>>

RemediationNext ==
    \/ \E S \in SUBSET Findings \ {{}} : build(S)
    \/ \E d \in Doc : build_managed(d)
    \/ \E dry \in BOOLEAN : execute(dry)
    \/ resume
    \/ ApplyStep
    \/ \E r \in recoveries : restore(r)
    \/ RestoreStep
    \/ \E item \in managed : ingest(item)
    \/ IngestStep
    \/ Crash
    \/ \E d \in Doc :
        \/ There(d) /\ ForeignWrite(d, NoDoc)
        \/ \E t \in Text, i \in Inode :
              ForeignWrite(d, [content |-> Original(t), inode |-> i])

RemediationSpec == RemediationInit /\ [][RemediationNext]_remediationVars

-----------------------------------------------------------------------------
(* Properties.                                                             *)

\* The bytes can be had from the vault: a record names them, and the
\* snapshot it refers to is there.
Recoverable(d, c) ==
    \E r \in recoveries :
        /\ r.doc = d /\ <<d, r.content>> \in snapshots
        /\ c \in {r.content, Undone(r)}

\* Whatever apply, resume, restore or an ingestion overwrites or removes can
\* be had back from the vault, whichever step the run dies at and whatever
\* other programs write before the last check: apply_item stores the snapshot,
\* the record and the journal entry first and reads the file again.
OriginalsAreKept == \A g \in gone : Recoverable(g[1], g[2])

=============================================================================
