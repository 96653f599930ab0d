# Sovereign Vault: formal models

TLA+ models of the parts of Sovereign Vault whose correctness depends on crashes,
interleavings and timing, the TLC runs that check them on small instances, and
TLAPS proofs of the results that hold for every value of the constants.

Source references are to the repository's files (`src/` prefix as in PROJECT.json,
where "map" gives the lines behind every definition).

## 1. The system

Sovereign Vault is a local-first secret store. A vault is one directory; its data
files are sealed under a data key (DEK) that a keyring file holds wrapped under a
key-encryption key (KEK) derived from a passphrase or kept in the OS keychain. A
desktop application unlocks the vault, serves agents over MCP on loopback ports,
and asks the human for consent: by a click in a modal, or behind the native
presence prompt where the system has one. Everything is recorded in a chained,
authenticated audit log.

| component | state it keeps | operations | what makes it correct |
| --- | --- | --- | --- |
| audit log (`sv-audit`) | `audit.jsonl`, archived segments, checkpoint, advisory lock | create, open, record, rotate, recover, verify | committed records survive crashes and rotation; recovery adopts one successor, never rewrites the chain; verification accepts nothing less than the committed chain |
| vault lifecycle (`sv-core` lib, keyring) | salt, keyring, staged keyring, journal, recovery bundle, manifest, keychain entry | bootstrap, unlock (passphrase, keychain, recovery), change passphrase, move to keychain, rotate, roll back | every artifact stays decryptable; an interrupted operation is finished or undone as a whole; the owner always gets in again |
| presence (`sv-presence`, `-windows`) | one prompt slot, a bounded queue, cancel signals | begin, verify, invalidate, drop | one prompt at a time; `Verified` only for a prompt the user confirmed for this attempt, before it was invalidated; no permit is lost |
| desktop approvals and gates (`apps/desktop`) | pending requests, `DesktopOps`, tray rows | request, supersede, respond, reap, gate, consume, clear | one decision per request, recorded before it is sent unless the record fails; nothing executes without it or, for gated commands, in another session |
| desktop session (`apps/desktop`) | shared handle, session epoch and timer, servers, remediation plans | publish unlocked/locked, roll back, monitor, start/stop servers | a lock ends what the session authorised; nothing runs on a locked vault |
| desktop commands (`apps/desktop`) | remediation plans, scan reports | read, write, export, delete, scan, reveal, plan, execute, restore | what cannot be undone was confirmed by a person in the very unlock it was done in (`DestructionIsConfirmed` compares the two epochs) |
| OTP challenges (`apps/desktop`) | challenges by request signature | request, issue, reveal, answer, expire, clear | a protected code counts only with presence since the store was last cleared, in the same unlock or in one that `rollback_unlock` took back; the table is bounded |
| wake requests, leases (`apps/desktop`) | queue, rate counters, approvals, leases | request, answer, prepare, check out | whoever is told to wait has a request before a person; a lease is spent once |
| MCP server (`sv-mcp`), headless gateway (`apps/cli`) | shared handle, rate limiter, connections | pair, build request, authorise, record intent, execute, filter, record outcome | an intent is on record before an effect; nobody's absence is taken for consent |
| agent registry (`sv-core`) | one authenticated list | create, import, revoke, authenticate, refresh the Default agent | replaced as a whole |
| storage (`sv-storage`) | container directories, manifest, sealed files | create/delete container, write/read/delete/rewrap file, migrate | under an authentic manifest a container has the mode agreed for it, unless an older authentic manifest was put back; a blob is read only where it was written |
| broker (`sv-core`) | one request at a time | validate, resolve, screen, send, cap, redact | the credential leaves only for a listed place and does not come back |
| remediation (`sv-remediate`) | plan, journal, recovery records, snapshots | plan, apply, resume, restore, ingest | what is overwritten or removed can be had back |
| policy (`sv-runtime`) | the active snapshot | validate, activate, evaluate, diff | deny overrides, effects only ratchet |
| references (`sv-runtime`) | handles with leases, locators | create, authorise, settle, drop, revoke, map, exchange | uses are counted exactly, revocation is final |
| exposure (`sv-exposure`) | an index of git history, one query of alerts | collect, classify, fetch pages, correlate | "nothing found" stands for a complete search |
| privacy filter, scanner, patterns | none | pure evaluation | agreement with what they are meant to compute |

How they interact. `call_tool` (MCP) takes the shared handle to build a request,
releases it, awaits the desktop's `authorize`, records the intent, and takes the
handle again to execute. `authorize` and the desktop's own gated commands wait in
`ApprovalState::pending` or in the presence coordinator without holding the handle.
The lock path (a command or the session monitor) holds the handle while it clears the
registries and stops the servers. Every decision is appended to the audit log
with a key derived from the handle, so a locked vault records nothing. The handle
is locked before the registries, never after them.

The behaviours that are hard here: a crash between two durable writes of a multi-file
operation, and during the recovery from one; errors reported for effects that
happened; consent awaited for minutes while lock and unlock publish new
sessions; deadline, user, superseding request and lock path competing for one entry;
native prompts that answer late or never; futures dropped at an await.
PROJECT.json "hazards" lists them with their lines.

## 2. Modules

| module | models | run | status |
| --- | --- | --- | --- |
| `AuditTrail`, `AuditLog`, `AuditLogProofs` | `sv-audit` and what it promises | `audit_log` | checked, all three invariants and the refinement proved |
| `VaultLifecycle`, `VaultLifecycleProofs` | `sv-core` lifecycle, keyring, recovery bundle | `vault_*` | checked, both invariants proved |
| `PresenceContract`, `Presence`, `PresenceProofs` | `sv-presence` and its back ends | `presence`, `presence_ends` | checked, safety and refinement proved |
| `DesktopApprovals`, `DesktopApprovalsProofs` | approvals, gates, lock path; relies on `PresenceContract` | `desktop_*` | checked, all five invariants proved |
| `Session` | session timer, monitor, servers, unlocks and their rollback | `services` | checked, invariant proved in `DesktopServicesProofs` |
| `Otp`, `OtpProofs` | one-time codes | `services` | checked, both invariants proved |
| `Wake` | wake queue, approvals, leases | `services` | checked, both invariants proved in `DesktopServicesProofs` |
| `Commands` | the desktop's own commands across their prompts | `services` | checked, invariant proved in `DesktopServicesProofs` |
| `Agents`, `Gateway` | agent registry; connections and calls of the MCP server, desktop and headless. `Gateway` EXTENDS `Agents`: its connections authenticate against the registry that other actors edit | `services`, `mcp_revocation` | checked, both invariants proved in `GatewayProofs` |
| `Storage` | containers, manifest, sealed files | `services` | checked, both invariants proved in `LibraryProofs` |
| `Policy`, `Glob` | policy documents, store, evaluation, diff; glob matcher | `libraries` | checked, both invariants proved in `LibraryProofs` |
| `References` | reference handles, leases, locators | `libraries` | checked, invariant and action property proved in `LibraryProofs` |
| `Broker` | one brokered request | `libraries` | checked, both invariants proved in `LibraryProofs` |
| `Remediation` | rewriting, resuming, restoring and ingesting project files | `libraries` | checked, invariant proved in `LibraryProofs` |
| `Exposure` | history index, classification of a finding, query of GitHub alerts | `libraries` | checked |
| `Identifiers`, `Privacy`, `Patterns`, `Scan`, `PureCalls` | checksums, privacy filter, pattern packs, scanner, and the calls that compare them with a reference | `libraries` | checked |

`DesktopApprovals` composes the approval registry, the desktop operations, the tray,
the session epoch and the call path of the MCP server; the presence coordinator
appears in it only through its contract (`VerifyReturns`), which `Presence` is
shown to keep. `Otp`, `Wake` and `Commands` use the gate of `DesktopApprovals`, which there is a
choice bound to the epoch it began in: what `GatedInItsEpoch` shows of the gate.

`MCLibraries` and `MCServices` hold several components that share no state. A variable
`focus`, chosen initially, names the one component that takes steps, so TLC visits
the union of their state spaces and not the product. A property of one component is
an invariant of the whole because the others stay in their initial state.

What is left is in reach of TLC only (end of section 5).

## 3. What each module models

### AuditLog

Variables are the files of the directory (`active`, `archives`, `checkpoint`), the holder of
the advisory lock, and the operation that runs under it (`job`, with its place in the
code). A MAC is ideal: it is the history of events it authenticates, so equal MACs
mean equal histories. `create`, `open`, `record`, `rotate` and
`recover_interrupted_commit` are split at every durable write. `Crash` may come
between any two of them, `IoError` fails any of them, `AppendTorn` leaves part of a line,
`DamageActive` and `DamageArchive` are what something else may do to the files.
With `Windows` set, `install_temp_file` is not atomic: `ReplaceInterrupted` ends an
operation between the two renames and leaves the checkpoint under its backup name
(`aside`). The code calls that state "intentionally fail-closed", and in the model
open, record and create refuse it for good; `UndamagedLogIsAccepted` names it as one of the two
interrupted states in which the log is refused (the other is a torn line). The damage actions
leave a directory in that state alone, since nothing reads it any more. Sizes are abstract; the instance has records below, above the rotation threshold and above
the verification limit.

`AuditTrail` is the promise: a sequence of committed events that only grows by
submitted events, one at a time, each once. `Acknowledge(e)` is possible only for an
event in that sequence and adds it to `acked`; in `AuditLog` the Ok of `record` adds the event
of the call that returns. The refinement mapping takes the committed sequence from the checkpoint's MAC.

### VaultLifecycle

The variables are the files of the vault and the keychain entry. An operation first
makes its checks and then carries the rest of its steps in `job.plan`; each step is
one durable write of the code, in the code's order. `Crash` drops the operation,
`Fault` makes the next step fail and runs the code's error path (for a rotation: the
rollback, which may fail as well); `LateError` does so after the step took effect, as a failed fsync behind a rename or an
unlink does. `commitFailed` is history: `remove_lifecycle` reported an error in `rotate_key` although the journal was gone. The
rollback that starts then has no journal, and a crash in it leaves a mixture of DEKs, so `OneDekAtRest` and the first part of `Reopens`
except it by name. The journal is modelled with what recovery reads
from it. Keys are numbers and only the key something is sealed under opens it.
`StepNames` lists the steps; a store to be rewrapped is a step of its own, and no store has the name of
another step (`StoreAssumption`).

### Presence

An attempt is one `begin_attempt`/`verify` pair; its caller and its blocking back-end
thread are separate processes. The semaphore is external: a permit, handed to the
head of a FIFO queue on release. `select!` is biased in the code and in the
model: cancellation and deadline are looked at before a result. `Abandon` drops the
caller's future at any await, with the destructors' effects. `PresenceContract` says
what callers may rely on.

### DesktopApprovals

A call is an agent's request, a gated desktop operation or a keychain unlock. A section
of code under the handle or under a leaf lock is one action; the lock path, which
keeps the handle over several awaits, is `locker` and its three steps. `sent` is the
answer the entry was removed with: it may not have reached the channel when the
window closes, so `TimeOut` can still win against it. Deadlines are flags that
the clock sets at any moment. `record_with_handle` passes over a failed open or append: `Noted` writes the
record or puts it in `lost` (at most `MaxLost` of them), and the answer is sent either way; the intent of an agent's
call is the record that must not fail. `Unlock` needs a locked vault: the lock file of `sv-core`
refuses a second handle. `owner` carries the operation id that a retry
inherits. Left out: payloads, labels, notifications.

### Session

The timer's fields are written with `try_lock`, so each write may be skipped, and read with
`try_lock`, so a read may fail and count as zero. The handle, the monitor task, the servers
and up to two unlock commands (passphrase, recovery or init) interleave at every release of the
handle: an unlock publishes the handle, restarts the monitor and starts the servers without
it, and rolls back when that fails. `openedAt` and `lastHuman` are history: when the session
really was opened and touched. `DefaultLimits` stands for the values a timer is made with. `SessionsAreWatched` relates them to what the monitor can see.

### Otp

One action per critical section of the store: a request without or with a code, the insertion
of a fresh challenge after the store was given back, the two halves of a reveal around its verification,
expiry, the timer that closes a card, lock and unlock. `OtpRollback` is `rollback_unlock`: an unlock whose servers did not start is
locked again and the store is not cleared, so a released code can be used in the next unlock. `locks` is history: the epochs of the last
lock that drained the store and of the last one that did not. Codes are ideal but may be guessed: a request may
present any identity issued so far.

### Wake

The rate counters, the queue, the approvals and the leases are behind locks of their own; a
call gives one back before it takes the next, so a request is admitted, queued and counted
in three steps, and an approval is peeked, gated and consumed in four.

### Commands

A command looks under the handle, asks where the mode calls for it, and works under the handle again.
The containers, plans and reports may change between the two, and so may the session. History in a command's record: the
epochs in which a person consented to it and the epoch it worked in. Which
commands need a prompt, the fallback for a container whose mode cannot be read, and the second look at a plan
are the code's.

### Agents and Gateway

The registry is read, edited and replaced as a whole; only the refresh of the Default agent at the start
of the servers does this without the handle. A connection pairs once, and its calls are built under the handle, held
against scopes and rate, authorised, put on record, executed under the handle again, and
answered. In the headless gateway authorisation is the mode test of `serve.rs`.

### Storage

Every durable step (rename, mkdir, unlink) is an action, so the process may die or return an error between
any two. The manifest carries a tag that is valid, stale or absent. Outside, an editor may change rules but
not authenticate them, somebody may keep a copy of an authentic manifest (at most `MaxKept`) and put it back later, and a file manager may copy blobs. The
tag covers no version or nonce, so a manifest that was put back verifies and its containers have their earlier modes. `agreed`,
`written`, `latest` (the rules written last) and `replayed` (the containers for which a manifest that was put back held another rule) are
history; `VisibleContainersKeepTheirMode` excepts the last and says that all other containers keep their mode.

### Policy, References, Broker

`Policy` evaluates one rule per step, so the store can swap the snapshot meanwhile; `diff` is
a set of changes. Selectors keep the code's three kinds (exact, glob, unread).
`References` has the registry's check and count under one lock, leases that are settled or dropped, and the
ledger of locators. `Broker` follows one request from validation to the redacted answer, with a name
service that changes its answers and a server that sends what it likes; the address tests are
the code's, checked at both ends of every range.

### Remediation

`tree` is the project, which other programs write as well. `apply_item` is one action per vault write, the second
look at the file and the replacement; `execute`, `resume`, `restore` and the ingestion of
whole files run in rounds, and `Crash` ends a round anywhere. `gone` is history: what was
overwritten or removed.

### Exposure

Git is external: `RevList` prints commits, then every root tree without a path and what is new in it with one. The
code reads that output as it does: a line without a path is a commit. Classification is one call. The query
of the alerts is one request per step, while GitHub's lists change; `steady` is history: no alert left a
list that was still to be read.

### Identifiers, Privacy, Patterns, Scan

Pure functions over short texts of character codes. `PureCalls` makes one call per behaviour and compares: checksums
with what a checksum is for, kept findings with the candidates, the table of the glob matcher with the
relation, the scan's report with the tree. A file of the tree may be hidden by a rule of git, by a `.ignore` file
(which `respect_gitignore` does not switch off) or be in a directory the walkers cannot read. Regular expressions are external: an expression is a length of digit run.

Definitions whose comment begins "A plausible fault" are variants of the
definition that follows. They are used by no specification; each shows, by replacing that
definition, that a property can be violated.

## 4. Runs

| run | instance | checks |
| --- | --- | --- |
| `audit_log` | 2 log instances, 5 events (one over the rotation threshold, one over the limit), segments of 2 units, one external damage, replacement as on Windows, symmetric | `NothingLost`, `UndamagedLogIsAccepted`, `OkMeansIntact`, refinement of `AuditTrail` |
| `vault_lifecycle` | 1 file, 2 stores, 2 passphrases, 3 DEKs, 2 salts, 2 random KEKs, 2 crashes, 1 I/O error before or after an effect, 1 lost keychain entry | `DataDecryptable`, `OneDekAtRest`, `Reopens` |
| `vault_rotate_typo` (violation) | 1 mistyped passphrase | `RotationResumes` fails |
| `vault_overwritten_journal` (violation) | 2 I/O errors | `RotationEndsWhole` fails |
| `presence` | 3 attempts, 1 queue place, symmetric | `SlotOwned`, `QueueBounded`, `KeepsContract` |
| `presence_ends` | 2 attempts, 1 queue place | `VerifyReturns`, `SlotComesFree` |
| `desktop_calls` | 2 calls of one kind and one signature, symmetric, 2 epochs, 1 lost record | `OneDecision`, `ExecutedWithConsent`, `PromptHasRequest`, `OpsHaveOwners` |
| `desktop_ends` | 1 call of any kind, 3 epochs, 1 lost record | `GatedInItsEpoch`, `CallsEnd` |
| `desktop_epoch` (violation) | 1 agent call, 3 epochs | an approval is used after a lock and an unlock |
| `libraries` | see below | `DenyOverrides`, `SilentDiffDecidesAlike`, `UsesAccounted`, `RevocationIsFinal`, `LeavesOnlyForListed`, `SecretStaysOut`, `OriginalsAreKept`, `ChecksumsSound`, `FindingsAreMasked`, `BestSecretsReported`, `NothingPassedOver`, `AbsenceIsSearched` |
| `services` | see below | `VisibleContainersKeepTheirMode`, `ReadsWhatWasWritten`, `EffectsAreOnRecord`, `HeadlessTouchesDirectOnly`, `AcceptedWithPresence`, `PendingChallengesBounded`, `SessionsAreWatched`, `DestructionIsConfirmed`, `QueuedIsPending`, `LeasesAreSpentOnce` |
| `mcp_revocation` (violation) | the gateway of `services` | a call is executed for a revoked agent |

Every property of a passing run has a mutant in PROJECT.json: a variant of one mapped definition, as a
plausible bug would have it, under which TLC finds the property violated.

Bounds. Two log instances are enough because the advisory lock leaves one operation
at a time and instances share only the directory; segments of two records make the log
rotate twice. Two crashes reach a crash inside the recovery from a crash; three DEKs
allow a second rotation after an undone one. One I/O error, before or after the effect of any step, is the limit under
which the rotation's guarantees hold (`DataDecryptable` too): with two, the rotation and its rollback both
fail, which is what `vault_overwritten_journal` shows. In `presence` three attempts
are one with the slot, one queued and one turned away. In `desktop_calls` two calls
meet in one signature, which is the only thing calls share besides the session (`OneKind` keeps calls of
different kinds apart, and `Unfinished` stops at states in which every call, prompt and record has ended); the
view `Look` leaves out what no action and no property of the run reads any more, such as the deadline of a call nobody waits for or a tray row whose request is over; every epoch is an unlock or a lock, so two of
them already change the epoch under a waiting call. Symmetry is used only in runs
without liveness; in `services` one exchange of all pairs of interchangeable elements at once, which is enough because a behaviour has one service in focus. Deadlock checking is off: every bounded model comes to rest when
its bounds are used up, and the programs may be idle.

In `libraries`: policies of up to two rules in both priority orders, five requests; two tokens, three leases, two
locators of two resources; three allowlists, eight requests, addresses at both ends of
every blocked range; three findings in two documents, one of them to be ingested, one foreign write, four rounds; digit
strings of three digits and every check digit of longer identifiers (for Verhoeff nine digits, which read every row of its permutation), texts of up to four pieces,
patterns and values of up to four characters, trees of two files; histories of two commits with two blobs and a nested directory, up to five alerts on pages of two, two changes during a query. In `services`: two containers and one file of
each, two key versions, one kept manifest, visited in two parts whose product is out of reach (`manifests`: every history of the manifest, over empty folders; `blobs`: every
history of the blobs, under a manifest only the program writes; the proofs have no such split); two connections, two agents, two modes; two signatures, requests, reveals and challenges with one place in the
store (OtpProofs has no such bound); two unlockers, two sessions, three epochs, two units of time; two commands, one container, one plan, one scan; two wake calls,
two targets. Two callers are enough for each critical section, because what a caller carries across a
release is compared with a store that one other caller can already have changed in
every way; the third place in time (check, change, use) comes from the interleaving and not from a third caller.

Findings. The `violation` runs show disagreements between code and its comments or
documents; PROJECT.json "findings" quotes both sides. In short: a mistyped passphrase given to `rotate_key` leaves a
rotation no credential can resume; a passphrase change after a failed rollback
replaces the rotation's journal; an agent's approval is tested against the epoch
before, not under, the handle; and a revoked agent keeps the connections it has.

Other differences met while translating, which have no run of their own:

* `sv-audit` (lib.rs:982): recovery checkpoints a record it can read and that may never have been synced, against the comment at line 985.
* `VaultLifecycle` with `MaxFaults = 2`: after a rollback that fails behind `remove_version` the open handle still seals under the removed DEK, and `DataDecryptable` fails.
  With one error, `OneDekAtRest` would fail without its exception: the fsync after the journal's unlink (lib.rs:1384) reports an error and the process dies in the rollback this starts.
* `sv-audit` on Windows (lib.rs:1319): a crash between the two renames of a replaced checkpoint leaves a log that nothing opens again, by design.
* Desktop lib.rs:2705: an approval is sent although its record could not be written. Desktop lib.rs:3491: `rollback_unlock` locks without `clear_all`.
* `sv-storage` (lib.rs:803): an older authentic `manifest.json` that is put back verifies.
* Desktop lib.rs:1085: a tray row can be inserted for a request that is over, and the monitor's lock leaves the rows (adr 0022, line 101).
* Desktop lib.rs:3799: the monitor locks a locked vault on every tick, and each time moves the epoch, against the comment above the `continue`. The automatic lock
  leaves `pending_plans` and `active_scans`; `rollback_unlock` may lock a session a later unlock opened.
* Desktop `vault_read_file_impl`: the mode the consent was asked for is not compared when the handle is taken again. `scan_store` names a file with a separator, which
  storage refuses; `remediate_execute` keeps its plan when the ingestion fails.
* OTP: a fresh challenge that was admitted before a lockout replaces the locked-out one.
* `sv-mcp`: connections survive `stop_servers`; `enforce_scopes` stops at the first scope that matches even when its ceiling fails and a later one would do; the mode
  found when a call is built is not looked up again when it executes.
* `agents.rs`: `ensure_default_agent` reads and writes without the handle, so an edit between the two is lost.
* `sv-runtime`: nine selector fields are accepted and never read; `host_of` takes the port for the host; `has_risk_increase` does not see an added allow rule;
  the unreachable-allow warning looks at earlier denies only although order does not matter; a locator's `max_uses` cannot be set. `diff` compares
  registrations (servers, profiles, routes) by id only (diff.rs:274): `SilentDiffDecidesAlike` is about decisions, and a changed registration under the same id is not reported.
* `sv-privacy`: overlaps are resolved from the left, by start before priority, against "higher wins when two findings overlap" (lib.rs:93): a phone number that starts first wins
  over the CPF in it. Of a finding that is dropped the tail past the kept span stays in the clear: `a@b.coa@b.co` becomes a placeholder and `@b.co`. `FindingsAreMasked` says exactly that.
* `sv-scan`, against "every file the scan did not examine is accounted for" (lib.rs:11): files in a directory the walkers cannot read are neither listed nor counted (walk.rs:68, 172, 249);
  with `respect_gitignore` off a credential file hidden by a `.ignore` file is only counted, since the second pass does not run (walk.rs:130); a skipped always-scan file may be listed twice,
  and each such entry hides one ignored file from `files_ignored`, as a followed link does.
* `sv-core` broker: the client does not call `no_proxy()` (broker.rs:413), and a proxy from the environment, which is outside the model, would resolve the name itself; the names of response
  headers are not redacted (broker.rs:479), only their values.
* `sv-exposure`: `git rev-list --objects` prints root trees without a path, so `collect_blobs` (git.rs:190) takes them for commits and gives them the objects
  that follow. No blob is ever put down to a commit that a remote-tracking ref names, and in the model no classification is `FoundOnRemote`: a pushed
  secret has the urgency `BeforePush`, against "Found in an object reachable from a remote-tracking ref" (urgency.rs:30). `git reflog` abbreviates ids unless `core.abbrev` says otherwise,
  so reflog roots (git.rs:87) are usually not searched, and no limit says so. Blobs that are not UTF-8 count as searched. An alert that leaves a list
  between two pages, or is reopened during the query, can be missed by an answer that is `Known`, against "Alerts are paginated completely" (github.rs:45); `AbsenceIsSearched` claims nothing of alerts
  for such a query (`steady`), and nothing of the urgency `Now`.
* `sv-remediate`: with two items in one file, a run resumed after the first may replace the second without a record of its own, because the journal is keyed by
  path; a crash between the replacement and the journal leaves the item `Stale`; an unreadable journal is taken for an empty one; ingestion
  removes what was written after its one read.

Fairness. `VaultLifecycle`: a running operation goes on, and a user who has
credentials keeps trying them (`Reopens` is about such a user). `Presence`: the async runtime
polls what can proceed and deadlines pass; nothing makes a user answer a prompt.
`SlotComesFree` assumes, in its own statement, that prompts end. `DesktopApprovals`:
tasks that can proceed do, deadlines pass, `verify` returns (what `VerifyReturns` of
`Presence` shows), the lock path is not interrupted. The user, the commands and the
monitor owe nothing. All fairness is weak: a mutex of the runtime queues its
waiters, and the bounded number of locks and unlocks means a waiting task finds the handle free.
`MCLibraries` and `MCServices` assume no fairness: all their properties are safety.

## 5. Proofs

`AuditLogProofs` proves, for any set of events and instances and any sizes:

* `AuditLogInvariant`: `Spec => []IInv`. The properties are not inductive by themselves:
  recovery adopts what it finds in the active file, so one must know that anything there
  beyond the chain is exactly its next record, of an event submitted and not yet
  committed (`TailIsSuccessor`, `CommittedOnce`); that the operation under the lock works on
  the checkpoint on disk (`JobIsCurrent`); and that the checkpoint's counters
  are those of its chain (`CountsAgree`); that a recording has its event on the chain exactly when it is about to return Ok; and that a checkpoint left aside
  lies in a directory creation refuses (`AsideIsRefused`). One lemma per conjunct, one step per action.
* `AuditLogTypeCorrect`: type correctness, from it.
* `AuditLogRefinesTrail`: the log implements `AuditTrail`. Only `RecordCommit` and
  `RecoverCommit` change the chain (`ChainKept`), and both append one event that was
  submitted and not committed (`ChainAdvances`).
* `AuditDirectoryInvariant`: `Spec => []DirectoryInv`. The files in detail: an archive holds records of the committed chain, the active
  segment those and at most the one successor. While no one damaged the directory it is `Whole`: each archive goes on where the ones before it end (`Linked`), and the rest of the chain is in the active file
  (`Settled`) or has just been renamed away from it (`Rotating`).
* `AuditNothingLost`, `AuditUndamagedIsAccepted`, `AuditOkMeansIntact` (`NothingLost`, `UndamagedLogIsAccepted`, `OkMeansIntact`), from it. What a scan over
  any number of segments computes is an induction on that number, and the provers cannot instantiate an induction theorem. `LeastNatural`, every
  nonempty set of naturals has a least element, takes its place: a scan that goes wrong goes wrong at a first segment, and the one before it is right.

`PresenceProofs` proves, for any set of attempts and any queue limit:

* `PresenceInvariant`: `Spec => []IInv`. `SlotOwned` needs to know that the waiters in the
  queue are distinct, still waiting and without the permit (`Waiters`); `QueueBounded`
  needs the counter to equal the number of places taken, including those of callers being
  turned away (`PlacesCounted`); both need the order of an attempt's steps (`Progress`).
* `PresenceSlotOwned`, `PresenceQueueBounded`: the two safety invariants.
* `PresenceKeepsContract`: the coordinator implements `PresenceContract`.

`OtpProofs` proves, for any number of signatures, requests, reveals and unlocks:

* `OtpAcceptedWithPresence`. `AcceptedWithPresence` speaks of the moment of acceptance; the invariant adds that an open gate was
  verified since the store was last drained, in the unlock that is going on or before one that was rolled back (`GatesAreOfThisUnlock`). It survives a lock because the lock drains the store or is
  remembered as one that did not, a late
  answer because the finisher compares the epoch under the handle, and a replacement because a fresh challenge starts closed.
* `OtpPendingBounded`: the bound holds because it is looked at again when a challenge is inserted; all other steps only drop challenges.

`DesktopApprovalsProofs` proves, for any number of calls, operations, prompts, locks and retries:

* `ApprovalsInvariant`. The heart is `TicketInv`: of the four places a request can be in (pending, taken by a responder, taken by
  the reaper, superseded) exactly one holds the right to record its end, so the removal from the pending map is what decides a race between
  an answer, a timeout, a lock and a retry. `RecordInv` ties what the log holds of a call, or lost of it, to whether that right is still out; it counts
  notes (`Tally`), and appending a note counts once. `ConsentInv` and `EpochInv` carry what a responder read under one lock to where it
  uses it under the next. `OpsInv` says that a registered id belongs to a call that has begun, and that a cancelled call
  has lost its id for good: a retry that inherits the id cannot give it back.
* From it `ApprovalsOneDecision`, `ApprovalsConsent` (`ExecutedWithConsent`), `ApprovalsGatedEpoch` (`GatedInItsEpoch`), `ApprovalsPrompts`
  (`PromptHasRequest`) and `ApprovalsOpsHaveOwners`.

`VaultLifecycleProofs` proves, for any files, stores and passphrases and any number of crashes, I/O errors before or after an effect,
mistyped passphrases and lost keychain entries:

* `VaultInvariant`. A crash may drop an operation between any two steps, so the core is a fact about the disk alone (`DiskInv`): with no journal,
  a finished bootstrap, a passphrase change or a custody move, everything is on the active DEK (`Whole`), and a staged keyring holds the same DEKs as the real one;
  with an unfinished bootstrap there is no data; with a `Rotate` journal everything is on the old DEK or on the new one if the keyring holds it, and the
  journal's backup is the old bundle (`Mixed`). That a step keeps this depends on the steps before it. `JobInv` reads them off the plan: what is no longer to do
  (`ToDo`) has been achieved. `Ordered` says that plans are in the code's order, which is what lets a step conclude from its own turn that others are behind it (`Past`).
  Each plan is shown to be ordered and to consist of exactly its steps, the rotation's for any sequence of stores. One lemma per action; the three ways a step may end
  (it goes on, it fails, it fails after its effect) are dealt with once, in `AdvanceKeeps` and `FailKeeps`.
* `DataStaysDecryptable` (`DataDecryptable`) and `AtRestOneDek` (`OneDekAtRest`), from it.

These three are theorems of `VaultSpec`, which is `Spec` with one window closed in which the code itself lets go of a rotation (section 4, findings):
`StaleHandlesAreDropped`, a handle left over from a rotation whose rollback failed too is locked and not used (`rotate_key` asks for that, "unlock normal custody to resume
recovery", and nothing enforces it). Without it both invariants fail. Every behaviour of the run `vault_lifecycle` satisfies it: with one I/O error a rotation and its rollback do not both
fail. The error after which a rotation is rolled back without its journal is a step of the specification the theorems are about: `VaultHistory`, the invariant of `VaultInvariant`, says `~commitFailed => VaultInv`, and the theorems hold up to that error. What is left of `DataDecryptable` after it is model-checked only, in the run `vault_lifecycle`.

`DesktopServicesProofs` proves, for any number of unlocks, commands, plans, agents and leases and any limits:

* `SessionInvariant`, `SessionWatched`. `TimerLags`: each field of the timer that a skipped `try_lock` left behind is never ahead of the truth
  it stands for. `FirstMonitorToCome`: while an unlock has published the handle and not yet started a monitor, that unlock is still under way.
* `CommandsInvariant`, `CommandsDestructionConfirmed`: a command past its prompt holds the consent of the epoch it captured, and one that has worked the consent of the epoch it worked in (`Gated`), and a plan that
  is pending was used for nothing yet (`PlansUnspent`).
* `WakeInvariant`, `WakeQueuedPending`, `WakeLeasesSpentOnce`: what is queued is pending and once only (`QueueInv`), each lease stems
  from an approval (`LeasesApproved`), and numbers are not reused (`LeasesNumbered`).

`GatewayProofs` proves `GatewayInvariant`, `GatewayEffectsOnRecord` and `GatewayHeadlessDirectOnly`, for any agents, connections and calls: the
invariant follows a call from its authorization to its effect and says what the log already holds of it at each stage, while the registry is edited under it.

`LibraryProofs` proves one invariant for each library:

* `ReferencesInvariant`, `ReferencesUsesAccounted` and the action property `ReferencesRevocationFinal`: every lease that was handed out
  is one of a registered handle, so the count of a handle is the number of its leases that are out or spent.
* `StorageInvariant`, `StorageModesKept`, `StorageReadsWritten`: what the operation under way has already written (`OpInv`), that the manifest written last
  gives the containers in sight the modes agreed for them and an authentic one agrees with it wherever none was put back that differs (`ModeInv`), and that a blob opens only at the path and under the key it was sealed for (`BlobInv`).
* `PolicyInvariant`, `PolicyDenyOverrides`, `PolicySilentDiff`: the loop invariant `WalkInv` states the accumulated exposure, consent
  and routes as those of the rules seen so far, so the order of the rules does not matter. An empty diff means the same rules up to
  order (`SilentDiffHidesNothing`), and the decision depends on them as a set.
* `BrokerInvariant`, `BrokerSecretStaysOut`: which pieces of the request and of the answer can hold the secret at each stage, and how much has been buffered.
* `BrokerScreened`, `BrokerLeavesOnlyForListed`: a call past its screening keeps the addresses it was screened with, whatever the name
  service answers (`ScreenedInv`). The rest is about the operators: every reserved range, written as CIDR prefixes, is refused by the
  octet tests of `is_blocked_v4` and `is_blocked_v6` (`PrivateIsBlocked`), and a path that `path_prefix_matches` accepts has every segment
  of the prefix at the same place (`MatchIsUnder`), with `LeastNatural` for the next separator and for the first entry that matches.
* `RemediationInvariant`, `RemediationOriginalsKept`: items of one document are bound to the same bytes, so a journal entry "stored" made for
  one of them is true of the others (`StoredIsKept`): a resumed run may go straight to the replacement. Each stage of a call knows what it has
  stored and, unless another program wrote to the path meanwhile, that the file is what it read (`ApplyInv`, `RestoreInv`, `IngestInv`).

The assumptions are the named ones of the modules, each evaluated by TLC on the runs: sizes and limits are natural numbers, sets of signatures, leases
and findings are finite, the markers for "nothing" differ from real values (`NoneAssumption`, `ReferencesAssumption`); no material store is named like a
step of a plan (`StoreAssumption`); policy documents are of
the shape the parser makes (`PolicyAssumption`: sequences of rules, classes and consents as numbers); a request of an agent does not
hold the secret it asks the broker to use (`BrokerAssumption`): it is given a handle and never sees it; allowlists have the type `BrokerAllow`, paths are sequences of characters and addresses are
four octets or eight segments of 16 bits (`BrokerTypes`).

Only model-checked:

* everything about liveness (`Reopens`, `VerifyReturns`, `SlotComesFree`, `CallsEnd`), which is beyond the prover;
* `AbsenceIsSearched`, which rests on sorted listings and flattened sequences, defined by recursion over their elements;
* the pure functions of `PureCalls`, which would need induction over texts;
* the properties of the violation runs, which do not hold.

## 6. What is not modelled

Cryptography is ideal: a MAC is what it authenticates, a sealed blob opens under its key only, tokens and codes are fresh.
The user interface, the clients, the evaluation programs and the loopback HTTP gateway keep no vault state of their own, and
of the command line only the headless gateway does. Of `sv-exposure`, the queries of one request (visibility, push protection) and the search for a token are left out. Regular
expressions, character encodings and entropy are inputs of the scanner's model. Left out inside modelled parts: vaults of the legacy format in
`VaultLifecycle`, the parsing of policy documents, the framing of JSON-RPC, the arithmetic of the transit and signing tools, the import of broker secrets,
`diff.rs` and `trust.rs` of `sv-remediate`, and the desktop's settings, status and listing commands.
