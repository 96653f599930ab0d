------------------------------ MODULE Commands ------------------------------
(***************************************************************************)
(* The desktop's own commands on containers, files, scans and remediation  *)
(* plans. A command looks up the container's mode under the handle, gives  *)
(* the handle back, asks for consent where the mode calls for it, takes    *)
(* the handle again and works. The consent itself is the gate of           *)
(* DesktopApprovals, here a choice bound to the epoch it began in.         *)
(***************************************************************************)
EXTENDS Integers, FiniteSets

CONSTANTS
    Cmd,            \* commands in flight
    Vessel,         \* container names
    Plan,           \* plan ids, each planned once
    Scan,           \* scan ids
    ScanVessel,     \* SCAN_CONTAINER
    CommandModes,   \* the modes of the instance
    MaxCmdEpoch,    \* bound on the locks and unlocks
    NoMode

ASSUME CommandsAssumption ==
    /\ ScanVessel \in Vessel
    /\ CommandModes \subseteq {"DIRECT", "ANONYMIZED", "APPROVAL", "OTP", "ZKP", "NATIVE"}
    /\ NoMode \notin CommandModes
    /\ MaxCmdEpoch \in Nat

VARIABLES
    isOpen, cmdEpoch,   \* the handle, and the epoch of the session timer
    vessels,    \* the mode of each container there is
    plans,      \* pending_plans: what is known of the plans built and not consumed
    planned,    \* plan ids used
    reports,    \* the scan reports on disk, in the folder of ScanVessel
    live,       \* active_scans: the reports whose salt this process still has
    cmds,       \* the commands
    ingested    \* history: how often the file of a plan was moved into the vault

commandVars ==
    <<isOpen, cmdEpoch, vessels, plans, planned, reports, live, cmds, ingested>>

Waiting == [stage |-> "idle"]

CommandsInit ==
    /\ isOpen = FALSE /\ cmdEpoch = 0
    /\ vessels = [k \in Vessel |-> NoMode]
    /\ plans = <<>> /\ planned = {}
    /\ reports = {} /\ live = {}
    /\ cmds = [c \in Cmd |-> Waiting]
    /\ ingested = [p \in Plan |-> 0]

Let(c, r) == cmds' = [cmds EXCEPT ![c] = r]

-----------------------------------------------------------------------------
(* What needs consent.                                                     *)

OnFile == {"read", "write", "export", "delete"}
OnPlan == {"execute", "restore"}
Destructive == {"delete", "drop", "execute"}

\* A plausible fault: a mode that could not be looked up needs no confirmation.
delete_mode_known(m) == IF m \in {"DIRECT", "ANONYMIZED"} THEN "APPROVAL" ELSE m

\* Deletion is confirmed for every mode.
delete_mode(m) == IF m \in {"DIRECT", "ANONYMIZED", NoMode} THEN "APPROVAL" ELSE m

\* The mode require_desktop_consent is asked about.
AskedMode(kind, m) == IF kind \in {"delete", "drop"} THEN delete_mode(m) ELSE m

Unsupported(m) == m \in {"ZKP", "NATIVE"}

desktop_consent_required_for(kind, m) ==
    \/ m \in {"APPROVAL", "OTP"}
    \/ kind \in {"read", "export"} /\ m = "ANONYMIZED"

-----------------------------------------------------------------------------

\* container_mode_in: a locked vault, like a missing container, has no mode.
container_mode_in(k) == IF isOpen THEN vessels[k] ELSE NoMode

\* The plan, unless its time is over.
live_plan(p) == p \in DOMAIN plans /\ ~plans[p].expired

\* A command on a container is gated or not by the mode it finds. An agent's
\* lease that does not fit ends the command here, and changes nothing.
Look(c, kind, k) ==
    /\ cmds[c] = Waiting
    /\ LET m == AskedMode(kind, container_mode_in(k))
           new == [stage |-> "asking", kind |-> kind, target |-> k]
       IN  /\ ~Unsupported(m)
           /\ Let(c, IF desktop_consent_required_for(kind, m)
                     THEN new ELSE [new EXCEPT !.stage = "ungated"])
    /\ UNCHANGED <<isOpen, cmdEpoch, vessels, plans, planned, reports, live, ingested>>

\* A command that is gated whatever the modes.
LookGated(c, kind, t) ==
    /\ cmds[c] = Waiting
    /\ Let(c, [stage |-> "asking", kind |-> kind, target |-> t])
    /\ UNCHANGED <<isOpen, cmdEpoch, vessels, plans, planned, reports, live, ingested>>

(* The commands up to their prompts; Work has what they do after them.     *)
vault_read_file(c, k) == Look(c, "read", k)
vault_write_file(c, k) == Look(c, "write", k)
vault_export_file(c, k) == Look(c, "export", k)
vault_delete_file(c, k) == Look(c, "delete", k)
vault_delete_container(c, k) == Look(c, "drop", k)
scan_reveal(c, s) == LookGated(c, "reveal", s)
remediate_execute(c, p) == live_plan(p) /\ LookGated(c, "execute", p)
remediate_restore(c, p) == live_plan(p) /\ LookGated(c, "restore", p)

\* desktop_presence_gate captures the epoch, and compares it when a person has
\* answered. History: the epochs in which a person has consented.
EnterGate(c) ==
    /\ cmds[c].stage = "asking"
    /\ Let(c, [stage |-> "gate", kind |-> cmds[c].kind, target |-> cmds[c].target,
               epoch |-> cmdEpoch, consented |-> {}])
    /\ UNCHANGED <<isOpen, cmdEpoch, vessels, plans, planned, reports, live, ingested>>

LeaveGate(c, consent) ==
    /\ cmds[c].stage = "gate"
    /\ Let(c, IF consent /\ cmds[c].epoch = cmdEpoch
              THEN [cmds[c] EXCEPT !.stage = "passed", !.consented = {cmdEpoch}]
              ELSE Waiting)
    /\ UNCHANGED <<isOpen, cmdEpoch, vessels, plans, planned, reports, live, ingested>>

-----------------------------------------------------------------------------
(* The work, under the handle.                                             *)

\* The plan is looked up again after the prompt.
found_again(p) == live_plan(p)

Dropped(p) == [q \in DOMAIN plans \ {p} |-> plans[q]]

\* The command fails when its target is gone, and may fail for other reasons.
Feasible(c) ==
    CASE cmds[c].kind \in OnPlan -> found_again(cmds[c].target)
      [] cmds[c].kind \in OnFile \cup {"drop"} -> vessels[cmds[c].target] # NoMode
      [] cmds[c].kind = "reveal" -> cmds[c].target \in live \cap reports

\* What is remembered of a command that has worked, until it answers: the epoch
\* it worked in, and those in which a person had consented to it.
Done(c, consented) ==
    [stage |-> "done", kind |-> cmds[c].kind, epoch |-> cmdEpoch, consented |-> consented]

\* An ingest that ends with a status, good or bad, consumes the plan, one that
\* returns an error does not. A restore consumes it. The folder of a container
\* goes with the reports in it.
Work(c, consented) ==
    LET t == cmds[c].target
        kind == cmds[c].kind
    IN  \/ /\ Feasible(c)
           /\ Let(c, Done(c, consented))
           /\ vessels' = IF kind = "drop" THEN [vessels EXCEPT ![t] = NoMode] ELSE vessels
           /\ plans' = IF kind \in OnPlan THEN Dropped(t) ELSE plans
           /\ reports' = IF kind = "drop" /\ t = ScanVessel THEN {} ELSE reports
           /\ \/ kind = "execute" /\ ingested' = [ingested EXCEPT ![t] = @ + 1]
              \/ UNCHANGED ingested
        \/ /\ Let(c, Waiting)
           /\ UNCHANGED <<vessels, plans, reports, ingested>>

\* with_gated_handle.
WorkGated(c) ==
    /\ cmds[c].stage = "passed"
    /\ IF isOpen /\ cmdEpoch = cmds[c].epoch
       THEN Work(c, cmds[c].consented)
       ELSE Let(c, Waiting) /\ UNCHANGED <<vessels, plans, reports, ingested>>
    /\ UNCHANGED <<isOpen, cmdEpoch, planned, live>>

\* with_handle: no epoch to compare.
WorkUngated(c) ==
    /\ cmds[c].stage = "ungated"
    /\ IF isOpen
       THEN Work(c, {})
       ELSE Let(c, Waiting) /\ UNCHANGED <<vessels, plans, reports, ingested>>
    /\ UNCHANGED <<isOpen, cmdEpoch, planned, live>>

Answer(c) ==
    /\ cmds[c].stage = "done"
    /\ Let(c, Waiting)
    /\ UNCHANGED <<isOpen, cmdEpoch, vessels, plans, planned, reports, live, ingested>>

-----------------------------------------------------------------------------
(* Commands that hold the handle once and need no consent.                 *)

vault_create_container(k, m) ==
    /\ isOpen
    /\ vessels[k] = NoMode
    /\ vessels' = [vessels EXCEPT ![k] = m]
    /\ UNCHANGED <<isOpen, cmdEpoch, plans, planned, reports, live, cmds, ingested>>

\* The report is written beside the sealed files, in clear, and a folder that
\* is not there yet is made without a rule, so that it has the default mode.
scan_run(s) ==
    /\ isOpen
    /\ s \notin reports \cup live
    /\ vessels' = [vessels EXCEPT ![ScanVessel] = IF @ = NoMode THEN "DIRECT" ELSE @]
    /\ reports' = reports \cup {s}
    /\ live' = live \cup {s}
    /\ UNCHANGED <<isOpen, cmdEpoch, plans, planned, cmds, ingested>>

\* A plan is built from a report on disk.
remediate_plan_file(p) ==
    /\ isOpen
    /\ reports # {}
    /\ p \notin planned
    /\ planned' = planned \cup {p}
    /\ plans' = [q \in DOMAIN plans \cup {p} |->
                    IF q = p THEN [expired |-> FALSE, epoch |-> cmdEpoch] ELSE plans[q]]
    /\ UNCHANGED <<isOpen, cmdEpoch, vessels, reports, live, cmds, ingested>>

\* PLAN_TTL_SECS have passed.
PlanExpires(p) ==
    /\ p \in DOMAIN plans /\ ~plans[p].expired
    /\ plans' = [plans EXCEPT ![p].expired = TRUE]
    /\ UNCHANGED <<isOpen, cmdEpoch, vessels, planned, reports, live, cmds, ingested>>

-----------------------------------------------------------------------------
(* The session.                                                            *)

OpenVault ==
    /\ ~isOpen /\ cmdEpoch < MaxCmdEpoch
    /\ isOpen' = TRUE
    /\ cmdEpoch' = cmdEpoch + 1
    /\ UNCHANGED <<vessels, plans, planned, reports, live, cmds, ingested>>

\* perform_vault_lock drops the plans, the monitor's lock keeps them.
CloseVault(manual) ==
    /\ isOpen /\ cmdEpoch < MaxCmdEpoch
    /\ isOpen' = FALSE
    /\ cmdEpoch' = cmdEpoch + 1
    /\ plans' = IF manual THEN <<>> ELSE plans
    /\ UNCHANGED <<vessels, planned, reports, live, cmds, ingested>>

CommandsNext ==
    \/ \E c \in Cmd :
        \/ \E k \in Vessel :
            \/ vault_read_file(c, k)
            \/ vault_write_file(c, k)
            \/ vault_export_file(c, k)
            \/ vault_delete_file(c, k)
            \/ vault_delete_container(c, k)
        \/ \E s \in Scan : scan_reveal(c, s)
        \/ \E p \in Plan : remediate_execute(c, p) \/ remediate_restore(c, p)
        \/ EnterGate(c)
        \/ \E consent \in BOOLEAN : LeaveGate(c, consent)
        \/ WorkGated(c)
        \/ WorkUngated(c)
        \/ Answer(c)
    \/ \E k \in Vessel, m \in CommandModes : vault_create_container(k, m)
    \/ \E s \in Scan : scan_run(s)
    \/ \E p \in Plan : remediate_plan_file(p) \/ PlanExpires(p)
    \/ OpenVault
    \/ \E manual \in BOOLEAN : CloseVault(manual)

CommandsSpec == CommandsInit /\ [][CommandsNext]_commandVars

-----------------------------------------------------------------------------

Worked == {c \in Cmd : cmds[c].stage = "done"}

\* Whatever cannot be undone was confirmed by a person in the very unlock it
\* was done in, even when the mode could not be looked up or changed, or the
\* vault was locked and opened again, while the command waited; and a plan
\* moves its file at most once, although two commands may hold the same plan
\* across their prompts ("a retry requires rebuilding and re-approving").
DestructionIsConfirmed ==
    /\ \A c \in Worked :
        cmds[c].kind \in Destructive => cmds[c].epoch \in cmds[c].consented
    /\ \A p \in Plan : ingested[p] <= 1
=============================================================================
