----------------------- MODULE DesktopServicesProofs -----------------------
(***************************************************************************)
(* The services the desktop keeps for a session: the session timer and its *)
(* monitor, the desktop's own commands, and the wake requests with their   *)
(* leases. An invariant of each, for any number of unlocks, commands,      *)
(* agents and calls in flight.                                             *)
(***************************************************************************)
EXTENDS Session, Commands, Wake, FiniteSetTheorems, TLAPS

-----------------------------------------------------------------------------
(* The session.                                                            *)

UnlockerRecords ==
    [stage : {"idle", "verifying", "created", "starting", "binding", "installing",
              "started", "failed"},
     kind : {"none", "unlock", "init"}, epoch : Nat, keys : Nat]

SessionTypeOK ==
    /\ now \in Nat /\ session \in Nat /\ opens \in Nat /\ epoch \in Nat
    /\ unlocked_at \in Nat \cup {NoTime} /\ last_activity \in Nat
    /\ limits \in Limits
    /\ monitor \in {"none", "sleeping", "locking", "stopping"}
    /\ guard \in BOOLEAN
    /\ servers \in Nat
    /\ unlockers \in [Unlocker -> UnlockerRecords]
    /\ openedAt \in Nat /\ lastHuman \in Nat

\* The timer may hold an older time than the true one, never a later one.
TimerLags ==
    /\ openedAt <= now /\ lastHuman <= now
    /\ unlocked_at # NoTime => unlocked_at <= openedAt
    /\ last_activity <= openedAt \/ last_activity <= lastHuman

InProgress == {"created", "starting", "binding", "installing", "started", "failed"}

\* While no monitor was ever started, whoever published the open session is
\* still in progress, whoever installed the servers is about to start the
\* monitor, and the creation of a vault, which starts it first, has not got
\* further than that.
FirstMonitorToCome ==
    monitor = "none" =>
        /\ session # 0 => \E u \in Unlocker : unlockers[u].stage \in InProgress
        /\ servers # 0 => \E u \in Unlocker : unlockers[u].stage = "started"
        /\ \A u \in Unlocker :
              unlockers[u].kind = "init" =>
                  unlockers[u].stage \in {"idle", "verifying", "created"}

SessionInv == SessionTypeOK /\ TimerLags /\ FirstMonitorToCome

\* Where the timer's writes are skipped, what it still holds is older.
LEMMA SessionTimes ==
    ASSUME SessionInv, SessionNext
    PROVE  SessionTypeOK' /\ TimerLags'
<1> USE SessionAssumption DEF SessionInv, SessionTypeOK, TimerLags
<1>1. AtRest \in UnlockerRecords
  BY DEF AtRest, UnlockerRecords
<1>2. CASE touch_human_activity
  BY <1>2 DEF touch_human_activity
<1>3. CASE \E l \in Limits : session_set_limits(l)
  BY <1>3 DEF session_set_limits
<1>4. CASE \E contended \in BOOLEAN : MonitorTick(contended)
  BY <1>4 DEF MonitorTick
<1>5. CASE MonitorLock
  BY <1>5 DEF MonitorLock, set_locked
<1>6. CASE MonitorStopsServers
  BY <1>6 DEF MonitorStopsServers
<1>7. CASE ManualLock
  BY <1>7 DEF ManualLock, set_locked
<1>8. CASE Tick
  BY <1>8 DEF Tick
<1>9. ASSUME NEW u \in Unlocker, NEW kind \in {"unlock", "init"},
             NEW stage \in {"starting", "created"}, publish_unlocked(u, kind, stage)
      PROVE  SessionTypeOK' /\ TimerLags'
  <2>1. [AtRest EXCEPT !.stage = stage, !.kind = kind] \in UnlockerRecords
    BY DEF AtRest, UnlockerRecords
  <2>2. unlockers' \in [Unlocker -> UnlockerRecords]
    BY <1>9, <2>1 DEF publish_unlocked, Goes
  <2> QED BY <1>9, <2>2 DEF publish_unlocked, set_unlocked
<1>10. ASSUME NEW u \in Unlocker, NEW kind \in {"unlock", "init"}, BeginVerified(u, kind)
       PROVE  SessionTypeOK' /\ TimerLags'
  <2>1. [AtRest EXCEPT !.stage = "verifying", !.kind = kind, !.epoch = epoch] \in UnlockerRecords
    BY DEF AtRest, UnlockerRecords
  <2> QED BY <1>10, <2>1 DEF BeginVerified, Goes
<1>11. ASSUME NEW u \in Unlocker, RefuseUnlock(u) \/ Rollback(u)
       PROVE  SessionTypeOK' /\ TimerLags'
  BY <1>1, <1>11 DEF RefuseUnlock, Rollback, set_locked, Goes
<1>12. ASSUME NEW u \in Unlocker,
              StopServers(u) \/ ReadKeys(u) \/ StartFails(u) \/ Install(u) \/ RestartMonitor(u)
       PROVE  SessionTypeOK' /\ TimerLags'
  <2>1. unlockers[u] \in UnlockerRecords
    OBVIOUS
  <2>2. \A s \in InProgress : [unlockers[u] EXCEPT !.stage = s] \in UnlockerRecords
    BY <2>1 DEF UnlockerRecords, InProgress
  <2>3. [unlockers[u] EXCEPT !.stage = "installing", !.keys = session] \in UnlockerRecords
    BY <2>1 DEF UnlockerRecords
  <2>4. Fails(u) \in UnlockerRecords /\ unlockers[u].keys \in Nat
    BY <1>1, <2>1, <2>2 DEF Fails, InProgress, UnlockerRecords
  <2>5. unlockers' \in [Unlocker -> UnlockerRecords]
    BY <1>1, <1>12, <2>2, <2>3, <2>4
       DEF InProgress, StopServers, ReadKeys, StartFails, Install, RestartMonitor, Goes
  <2>6. monitor' \in {"none", "sleeping", "locking", "stopping"} /\ guard' \in BOOLEAN
        /\ servers' \in Nat
    <3>1. CASE StopServers(u) \/ ReadKeys(u) \/ StartFails(u) \/ Install(u)
      BY <2>4, <3>1 DEF StopServers, ReadKeys, StartFails, Install
    <3>2. CASE RestartMonitor(u)
      BY <3>2 DEF RestartMonitor
    <3> QED BY <1>12, <3>1, <3>2
  <2>7. UNCHANGED <<now, session, opens, epoch, unlocked_at, last_activity, limits,
                    openedAt, lastHuman>>
    BY <1>12 DEF StopServers, ReadKeys, StartFails, Install, RestartMonitor
  <2> QED BY <2>5, <2>6, <2>7
<1> QED BY <1>2, <1>3, <1>4, <1>5, <1>6, <1>7, <1>8, <1>9, <1>10, <1>11, <1>12
        DEF SessionNext, vault_unlock, vault_unlock_recovery, vault_init

\* No step takes the monitor away, and the step that ends an unlock without one
\* leaves neither a session nor servers that depend on it.
LEMMA SessionMonitors ==
    ASSUME SessionInv, SessionNext
    PROVE  FirstMonitorToCome'
<1> SUFFICES ASSUME monitor' = "none"
             PROVE  FirstMonitorToCome'
  BY DEF FirstMonitorToCome
<1>0. \A u \in Unlocker : unlockers[u] \in UnlockerRecords
  BY DEF SessionInv, SessionTypeOK
<1>1. monitor = "none"
  BY DEF SessionNext, touch_human_activity, session_set_limits, MonitorTick, MonitorLock,
         MonitorStopsServers, ManualLock, Tick, BeginVerified, RefuseUnlock, vault_unlock,
         vault_unlock_recovery, vault_init, publish_unlocked, StopServers, ReadKeys,
         StartFails, Install, Rollback, RestartMonitor
<1>2. FirstMonitorToCome /\ unlockers \in [Unlocker -> UnlockerRecords]
  BY DEF SessionInv, SessionTypeOK
<1> USE <1>1 DEF FirstMonitorToCome
<1>3. CASE UNCHANGED <<session, servers, unlockers>>
  BY <1>2, <1>3
<1>4. CASE ManualLock
  BY <1>2, <1>4 DEF ManualLock
<1>5. ASSUME NEW u \in Unlocker, NEW kind \in {"unlock", "init"},
             BeginVerified(u, kind) \/ RefuseUnlock(u)
      PROVE  FirstMonitorToCome'
  <2>1. unlockers[u].stage \in {"idle", "verifying"}
    BY <1>5 DEF BeginVerified, RefuseUnlock, Stage
  <2>2. unlockers'[u].stage \in {"idle", "verifying"}
        /\ \A v \in Unlocker \ {u} : unlockers'[v] = unlockers[v]
    <3>1. CASE BeginVerified(u, kind)
      BY <1>2, <3>1 DEF BeginVerified, Goes, AtRest
    <3>2. CASE RefuseUnlock(u)
      BY <1>2, <3>2 DEF RefuseUnlock, Goes, AtRest
    <3> QED BY <1>5, <3>1, <3>2
  <2>3. UNCHANGED <<session, servers>>
    BY <1>5 DEF BeginVerified, RefuseUnlock
  <2> QED BY <1>2, <2>1, <2>2, <2>3 DEF InProgress
<1>6. ASSUME NEW u \in Unlocker, NEW kind, NEW stage,
             \/ kind = "unlock" /\ stage = "starting"
             \/ kind = "init" /\ stage = "created",
             Stage(u, "idle") \/ Stage(u, "verifying"), publish_unlocked(u, kind, stage)
      PROVE  FirstMonitorToCome'
  <2>1. unlockers'[u].stage = stage /\ unlockers'[u].kind = kind
        /\ \A v \in Unlocker \ {u} : unlockers'[v] = unlockers[v]
    BY <1>2, <1>6 DEF publish_unlocked, Goes, AtRest
  <2>2. UNCHANGED servers
    BY <1>6 DEF publish_unlocked
  <2> QED BY <1>2, <1>6, <2>1, <2>2 DEF InProgress, Stage
<1>7. ASSUME NEW u \in Unlocker, StopServers(u) \/ ReadKeys(u) \/ StartFails(u)
      PROVE  FirstMonitorToCome'
  <2>1. unlockers[u].stage \in {"starting", "binding", "installing"} /\ unlockers[u].kind # "init"
    BY <1>2, <1>7 DEF StopServers, ReadKeys, StartFails, Stage
  <2>2. /\ unlockers'[u].stage \in InProgress \ {"started"}
        /\ unlockers'[u].kind = unlockers[u].kind
        /\ \A v \in Unlocker \ {u} : unlockers'[v] = unlockers[v]
    <3>1. \A s, k : /\ [unlockers[u] EXCEPT !.stage = s].stage = s
                    /\ [unlockers[u] EXCEPT !.stage = s].kind = unlockers[u].kind
                    /\ [unlockers[u] EXCEPT !.stage = s, !.keys = k].stage = s
                    /\ [unlockers[u] EXCEPT !.stage = s, !.keys = k].kind = unlockers[u].kind
      BY <1>0 DEF UnlockerRecords
    <3>2. CASE StopServers(u)
      BY <1>2, <3>1, <3>2 DEF StopServers, Goes, InProgress
    <3>3. CASE ReadKeys(u)
      BY <1>2, <2>1, <3>1, <3>3 DEF ReadKeys, Goes, InProgress, Fails
    <3>4. CASE StartFails(u)
      BY <1>2, <2>1, <3>1, <3>4 DEF StartFails, Goes, InProgress, Fails
    <3> QED BY <1>7, <3>2, <3>3, <3>4
  <2>3. session' = session /\ servers' \in {0, servers}
    BY <1>7 DEF StopServers, ReadKeys, StartFails
  <2> QED BY <1>2, <2>1, <2>2, <2>3 DEF InProgress
<1>8. ASSUME NEW u \in Unlocker, Install(u)
      PROVE  FirstMonitorToCome'
  <2>1. unlockers[u].kind # "init"
    BY <1>2, <1>8 DEF Install, Stage
  <2>2. /\ unlockers'[u].stage = "started" /\ unlockers'[u].kind # "init"
        /\ \A v \in Unlocker \ {u} : unlockers'[v] = unlockers[v]
        /\ session' = session
    <3>1. /\ [unlockers[u] EXCEPT !.stage = "started"].stage = "started"
          /\ [unlockers[u] EXCEPT !.stage = "started"].kind = unlockers[u].kind
      BY <1>0 DEF UnlockerRecords
    <3> QED BY <1>2, <1>8, <2>1, <3>1 DEF Install, Goes
  <2> QED BY <1>2, <2>2 DEF InProgress
<1>9. ASSUME NEW u \in Unlocker, Rollback(u)
      PROVE  FirstMonitorToCome'
  <2>1. unlockers[u].stage = "failed" /\ session' = 0 /\ servers' = servers
        /\ unlockers' = [unlockers EXCEPT ![u] = AtRest]
    BY <1>9 DEF Rollback, Stage, Goes
  <2>2. AtRest.kind = "none"
    BY DEF AtRest
  <2> QED BY <1>2, <2>1, <2>2
<1>10. ASSUME NEW u \in Unlocker, RestartMonitor(u)
       PROVE  FALSE
  BY <1>10 DEF RestartMonitor
<1>11. CASE \/ touch_human_activity
            \/ \E l \in Limits : session_set_limits(l)
            \/ \E contended \in BOOLEAN : MonitorTick(contended)
            \/ Tick
  BY <1>3, <1>11 DEF touch_human_activity, session_set_limits, MonitorTick, Tick
<1>12. CASE MonitorLock \/ MonitorStopsServers
  BY <1>12 DEF MonitorLock, MonitorStopsServers
<1> QED BY <1>4, <1>5, <1>6, <1>7, <1>8, <1>9, <1>10, <1>11, <1>12
        DEF SessionNext, vault_unlock, vault_unlock_recovery, vault_init, Verified

\* The session's invariant.
THEOREM SessionInvariant == SessionSpec => []SessionInv
<1>1. SessionInit => SessionInv
  <2> SUFFICES ASSUME SessionInit PROVE SessionInv
    OBVIOUS
  <2>1. AtRest \in UnlockerRecords /\ AtRest.kind = "none"
    BY DEF AtRest, UnlockerRecords
  <2>2. SessionTypeOK
    BY <2>1, SessionAssumption DEF SessionInit, SessionTypeOK
  <2>3. TimerLags
    BY DEF SessionInit, TimerLags
  <2>4. FirstMonitorToCome
    BY <2>1 DEF SessionInit, FirstMonitorToCome
  <2> QED BY <2>2, <2>3, <2>4 DEF SessionInv
<1>2. SessionInv /\ [SessionNext]_sessionVars => SessionInv'
  <2>1. CASE SessionNext
    BY <2>1, SessionTimes, SessionMonitors DEF SessionInv
  <2>2. CASE UNCHANGED sessionVars
    BY <2>2 DEF sessionVars, SessionInv, SessionTypeOK, TimerLags, FirstMonitorToCome
  <2> QED BY <2>1, <2>2
<1> QED BY <1>1, <1>2, PTL DEF SessionSpec

\* No unlock outlives its limits unseen: whatever unlocks, locks, failed starts
\* and replacements of the monitor interleave and whatever writes of the timer
\* are skipped, an open session and a running server are watched or about to
\* be, and a session over a limit is due.
THEOREM SessionWatched == SessionSpec => []SessionsAreWatched
<1>1. SessionInv => SessionsAreWatched
  <2> SUFFICES ASSUME SessionInv PROVE SessionsAreWatched
    OBVIOUS
  <2>1. session # 0 \/ servers # 0 => monitor # "none" \/ Unfinished
    BY DEF SessionInv, FirstMonitorToCome, InProgress, Unfinished
  <2>2. (\/ now - openedAt >= limits[2]
         \/ now - Latest(openedAt, lastHuman) >= limits[1]) => due
    <3>1. limits[1] \in Nat /\ limits[2] \in Nat
      BY SessionAssumption DEF SessionInv, SessionTypeOK
    <3> QED BY <3>1 DEF SessionInv, SessionTypeOK, TimerLags, Latest, due
  <2> QED BY <2>1, <2>2 DEF SessionsAreWatched
<1> QED BY <1>1, SessionInvariant, PTL

-----------------------------------------------------------------------------
(* The desktop's commands.                                                 *)

Kinds == {"read", "write", "export", "delete", "drop", "reveal", "execute", "restore"}
Targets == Vessel \cup Plan \cup Scan
VesselModes == CommandModes \cup {"DIRECT", NoMode}

Asking == [stage : {"asking", "ungated"}, kind : Kinds, target : Targets]
AtGate == [stage : {"gate", "passed"}, kind : Kinds, target : Targets, epoch : Nat,
           consented : SUBSET Nat]
Finished == [stage : {"done"}, kind : Kinds, epoch : Nat, consented : SUBSET Nat]
CmdRecords == {Waiting} \cup Asking \cup AtGate \cup Finished

CommandsTypeOK ==
    /\ cmdEpoch \in Nat
    /\ vessels \in [Vessel -> VesselModes]
    /\ DOMAIN plans \subseteq Plan
    /\ cmds \in [Cmd -> CmdRecords]
    /\ ingested \in [Plan -> Nat]

\* Nothing destructive is under way without a gate, past the gate without the
\* consent of the epoch it captured, or done without the consent of its epoch.
Gated(r) ==
    /\ r.stage = "ungated" => r.kind \notin Destructive
    /\ r.stage = "passed" => r.epoch \in r.consented
    /\ r.stage = "done" /\ r.kind \in Destructive => r.epoch \in r.consented

\* A plan that is pending was used for nothing yet, and one whose file was
\* moved is not planned again.
PlansUnspent ==
    \A p \in Plan :
        /\ p \in DOMAIN plans => ingested[p] = 0
        /\ p \in DOMAIN plans => p \in planned
        /\ p \notin planned => ingested[p] = 0
        /\ ingested[p] <= 1

CommandsInv ==
    /\ CommandsTypeOK
    /\ \A c \in Cmd : Gated(cmds[c])
    /\ PlansUnspent

\* The record of a command, by its stage.
LEMMA CmdByStage ==
    ASSUME NEW r \in CmdRecords
    PROVE  /\ r.stage \in {"asking", "ungated"} => r \in Asking
           /\ r.stage \in {"gate", "passed"} => r \in AtGate
BY DEF CmdRecords, Waiting, Asking, AtGate, Finished

\* A step that sets one command to a gated record, and leaves the plans alone.
LEMMA LetKeeps ==
    ASSUME CommandsInv, NEW c \in Cmd, NEW r \in CmdRecords, Let(c, r), Gated(r),
           UNCHANGED <<cmdEpoch, vessels, plans, planned, ingested>>
    PROVE  CommandsInv'
<1>1. cmds' \in [Cmd -> CmdRecords]
  BY DEF CommandsInv, CommandsTypeOK, Let
<1>2. \A d \in Cmd : cmds'[d] = IF d = c THEN r ELSE cmds[d]
  BY DEF CommandsInv, CommandsTypeOK, Let
<1>3. \A d \in Cmd : Gated(cmds'[d])
  BY <1>2 DEF CommandsInv
<1>4. CommandsTypeOK' /\ PlansUnspent'
  BY <1>1 DEF CommandsInv, CommandsTypeOK, PlansUnspent
<1> QED BY <1>3, <1>4 DEF CommandsInv

\* A command that deletes is asked about a mode that calls for consent, also
\* when its container has no mode or cannot be looked at (delete_mode).
LEMMA DeletionAsks ==
    ASSUME CommandsInv, NEW k \in Vessel, NEW kind \in {"delete", "drop"},
           ~Unsupported(AskedMode(kind, container_mode_in(k)))
    PROVE  desktop_consent_required_for(kind, AskedMode(kind, container_mode_in(k)))
<1>1. container_mode_in(k) \in VesselModes
  BY DEF CommandsInv, CommandsTypeOK, container_mode_in, VesselModes
<1>2. VesselModes \subseteq
        {"DIRECT", "ANONYMIZED", "APPROVAL", "OTP", "ZKP", "NATIVE", NoMode}
  BY CommandsAssumption DEF VesselModes
<1> QED BY <1>1, <1>2 DEF AskedMode, delete_mode, Unsupported, desktop_consent_required_for

\* Up to the prompt and out of it, a command destroys nothing.
LEMMA PromptsKeep ==
    ASSUME CommandsInv, NEW c \in Cmd,
           \/ \E k \in Vessel : \/ vault_read_file(c, k) \/ vault_write_file(c, k)
                               \/ vault_export_file(c, k) \/ vault_delete_file(c, k)
                               \/ vault_delete_container(c, k)
           \/ \E s \in Scan : scan_reveal(c, s)
           \/ \E p \in Plan : remediate_execute(c, p) \/ remediate_restore(c, p)
           \/ EnterGate(c)
           \/ \E consent \in BOOLEAN : LeaveGate(c, consent)
           \/ Answer(c)
    PROVE  CommandsInv'
<1>0. Waiting \in CmdRecords /\ Gated(Waiting)
  BY DEF CmdRecords, Waiting, Gated
<1>1. cmds[c] \in CmdRecords /\ cmdEpoch \in Nat
  BY DEF CommandsInv, CommandsTypeOK
<1>2. ASSUME NEW k \in Vessel, NEW kind \in Kinds \ {"execute"}, Look(c, kind, k)
      PROVE  CommandsInv'
  <2> DEFINE m == AskedMode(kind, container_mode_in(k))
             new == [stage |-> "asking", kind |-> kind, target |-> k]
             r == IF desktop_consent_required_for(kind, m)
                  THEN new ELSE [new EXCEPT !.stage = "ungated"]
  <2>1. new \in Asking /\ [new EXCEPT !.stage = "ungated"] \in Asking
    BY DEF Asking, Targets
  <2>2. ~Unsupported(m)
    BY <1>2 DEF Look
  <2>3. CASE desktop_consent_required_for(kind, m)
    <3>1. Let(c, new) /\ Gated(new)
      BY <1>2, <2>3 DEF Look, Gated
    <3> HIDE DEF new
    <3> QED BY <1>2, <2>1, <3>1, LetKeeps DEF Look, CmdRecords
  <2>4. CASE ~desktop_consent_required_for(kind, m)
    <3> DEFINE ungated == [new EXCEPT !.stage = "ungated"]
    <3>1. kind \notin Destructive
      BY <2>2, <2>4, DeletionAsks DEF Destructive, Kinds
    <3>2. Let(c, ungated)
      BY <1>2, <2>4 DEF Look
    <3>3. Gated(ungated)
      BY <3>1 DEF Gated
    <3> HIDE DEF new, ungated
    <3> QED BY <1>2, <2>1, <3>2, <3>3, LetKeeps DEF Look, CmdRecords, ungated
  <2> QED BY <2>3, <2>4
<1>3. ASSUME NEW kind \in Kinds, NEW t \in Targets, LookGated(c, kind, t)
      PROVE  CommandsInv'
  <2> DEFINE new == [stage |-> "asking", kind |-> kind, target |-> t]
  <2>1. new \in CmdRecords /\ Gated(new)
    BY DEF Asking, CmdRecords, Gated
  <2> QED BY <1>3, <2>1, LetKeeps DEF LookGated
<1>4. CASE EnterGate(c)
  <2> DEFINE new == [stage |-> "gate", kind |-> cmds[c].kind, target |-> cmds[c].target,
                     epoch |-> cmdEpoch, consented |-> {}]
  <2>1. cmds[c] \in Asking
    BY <1>1, <1>4, CmdByStage DEF EnterGate
  <2>2. new \in CmdRecords /\ Gated(new)
    BY <1>1, <2>1 DEF Asking, AtGate, CmdRecords, Gated
  <2> QED BY <1>4, <2>2, LetKeeps DEF EnterGate
<1>5. ASSUME NEW consent \in BOOLEAN, LeaveGate(c, consent)
      PROVE  CommandsInv'
  <2> DEFINE new == [cmds[c] EXCEPT !.stage = "passed", !.consented = {cmdEpoch}]
  <2>1. cmds[c] \in AtGate
    BY <1>1, <1>5, CmdByStage DEF LeaveGate
  <2>2. new \in CmdRecords /\ new.epoch = cmds[c].epoch /\ new.consented = {cmdEpoch}
        /\ new.stage = "passed"
    BY <1>1, <2>1 DEF AtGate, CmdRecords
  <2>3. (Let(c, new) /\ cmds[c].epoch = cmdEpoch) \/ Let(c, Waiting)
    BY <1>5 DEF LeaveGate
  <2> HIDE DEF new
  <2>4. cmds[c].epoch = cmdEpoch => Gated(new)
    BY <2>2 DEF Gated
  <2> QED BY <1>0, <1>5, <2>2, <2>3, <2>4, LetKeeps DEF LeaveGate
<1>6. CASE Answer(c)
  BY <1>0, <1>6, LetKeeps DEF Answer
<1>7. ASSUME NEW p \in Plan, remediate_execute(c, p) \/ remediate_restore(c, p)
      PROVE  CommandsInv'
  BY <1>3, <1>7 DEF remediate_execute, remediate_restore, Kinds, Targets
<1>8. ASSUME NEW s \in Scan, scan_reveal(c, s)
      PROVE  CommandsInv'
  BY <1>3, <1>8 DEF scan_reveal, Kinds, Targets
<1>9. ASSUME NEW k \in Vessel,
             \/ vault_read_file(c, k) \/ vault_write_file(c, k) \/ vault_export_file(c, k)
             \/ vault_delete_file(c, k) \/ vault_delete_container(c, k)
      PROVE  CommandsInv'
  BY <1>2, <1>9 DEF vault_read_file, vault_write_file, vault_export_file,
                    vault_delete_file, vault_delete_container, Kinds
<1> QED BY <1>4, <1>5, <1>6, <1>7, <1>8, <1>9

\* The work of a command, whose plan is found again under the handle and gone
\* when it is done.
LEMMA WorkKeeps ==
    ASSUME CommandsInv, NEW c \in Cmd, NEW consented \in SUBSET Nat,
           cmds[c] \in Asking \cup AtGate,
           \/ Work(c, consented) /\ (cmds[c].kind \in Destructive => cmdEpoch \in consented)
           \/ Let(c, Waiting) /\ UNCHANGED <<vessels, plans, reports, ingested>>,
           UNCHANGED <<cmdEpoch, planned>>
    PROVE  CommandsInv'
<1> DEFINE t == cmds[c].target
           kind == cmds[c].kind
<1>0. Waiting \in CmdRecords /\ Gated(Waiting)
  BY DEF CmdRecords, Waiting, Gated
<1>1. CASE Let(c, Waiting) /\ UNCHANGED <<vessels, plans, reports, ingested>>
  BY <1>0, <1>1, LetKeeps
<1>2. CASE /\ Feasible(c)
           /\ Let(c, Done(c, consented))
           /\ kind \in Destructive => cmdEpoch \in consented
           /\ vessels' = IF kind = "drop" THEN [vessels EXCEPT ![t] = NoMode] ELSE vessels
           /\ plans' = IF kind \in OnPlan THEN Dropped(t) ELSE plans
           /\ \/ kind = "execute" /\ ingested' = [ingested EXCEPT ![t] = @ + 1]
              \/ UNCHANGED ingested
  <2>1. kind \in Kinds /\ t \in Targets
    BY DEF Asking, AtGate
  <2>2. Done(c, consented) \in CmdRecords /\ Gated(Done(c, consented))
    <3>1. Done(c, consented) \in Finished
      BY <2>1 DEF Done, Finished, CommandsInv, CommandsTypeOK
    <3> QED BY <1>2, <3>1 DEF Done, CmdRecords, Gated
  <2>3. cmds' \in [Cmd -> CmdRecords] /\ \A d \in Cmd : Gated(cmds'[d])
    <3>1. \A d \in Cmd : cmds'[d] = IF d = c THEN Done(c, consented) ELSE cmds[d]
      BY <1>2 DEF CommandsInv, CommandsTypeOK, Let
    <3>2. cmds' \in [Cmd -> CmdRecords]
      BY <1>2, <2>2 DEF CommandsInv, CommandsTypeOK, Let
    <3> QED BY <2>2, <3>1, <3>2 DEF CommandsInv
  <2>4. vessels' \in [Vessel -> VesselModes]
    BY <1>2 DEF CommandsInv, CommandsTypeOK, VesselModes
  <2>5. CASE kind \in OnPlan
    <3>1. t \in DOMAIN plans
      BY <1>2, <2>5 DEF Feasible, found_again, live_plan, OnPlan, OnFile
    <3>2. DOMAIN plans' = DOMAIN plans \ {t}
      BY <1>2, <2>5 DEF Dropped
    <3>3. t \in Plan /\ t \in planned /\ ingested[t] = 0 /\ ingested \in [Plan -> Nat]
      BY <3>1 DEF CommandsInv, CommandsTypeOK, PlansUnspent
    <3>4. /\ ingested' \in [Plan -> Nat]
          /\ ingested'[t] <= 1
          /\ \A p \in Plan \ {t} : ingested'[p] = ingested[p]
      <4>1. ingested' = [ingested EXCEPT ![t] = ingested[t] + 1] \/ ingested' = ingested
        BY <1>2
      <4> HIDE DEF t, kind
      <4>2. CASE ingested' = [ingested EXCEPT ![t] = ingested[t] + 1]
        BY <3>3, <4>2
      <4>3. CASE ingested' = ingested
        BY <3>3, <4>3
      <4> QED BY <4>1, <4>2, <4>3
    <3>5. CommandsTypeOK'
      BY <2>3, <2>4, <3>2, <3>4 DEF CommandsInv, CommandsTypeOK
    <3>6. PlansUnspent'
      BY <3>2, <3>3, <3>4 DEF CommandsInv, PlansUnspent
    <3> QED BY <2>3, <3>5, <3>6 DEF CommandsInv
  <2>6. CASE kind \notin OnPlan
    <3>1. UNCHANGED <<plans, ingested>>
      BY <1>2, <2>6 DEF OnPlan
    <3>2. CommandsTypeOK'
      BY <2>3, <2>4, <3>1 DEF CommandsInv, CommandsTypeOK
    <3>3. PlansUnspent'
      BY <3>1 DEF CommandsInv, PlansUnspent
    <3> QED BY <2>3, <3>2, <3>3 DEF CommandsInv
  <2> QED BY <2>5, <2>6
<1> QED BY <1>1, <1>2 DEF Work

\* What holds the handle once and needs no consent: containers, scans, plans
\* and the session.
LEMMA UngatedKeeps ==
    ASSUME CommandsInv,
           \/ \E k \in Vessel, m \in CommandModes : vault_create_container(k, m)
           \/ \E s \in Scan : scan_run(s)
           \/ \E p \in Plan : remediate_plan_file(p) \/ PlanExpires(p)
           \/ OpenVault
           \/ \E manual \in BOOLEAN : CloseVault(manual)
    PROVE  CommandsInv'
<1>1. SUFFICES ASSUME cmds' = cmds, ingested' = ingested, cmdEpoch' \in Nat,
                      vessels' \in [Vessel -> VesselModes],
                      DOMAIN plans' \subseteq Plan, planned \subseteq planned',
                      \A p \in DOMAIN plans' : p \in planned' /\ ingested[p] = 0
               PROVE  CommandsInv'
  <2> DEFINE Goal == /\ cmds' = cmds /\ ingested' = ingested /\ cmdEpoch' \in Nat
                     /\ vessels' \in [Vessel -> VesselModes]
                     /\ DOMAIN plans' \subseteq Plan /\ planned \subseteq planned'
                     /\ \A p \in DOMAIN plans' : p \in planned' /\ ingested[p] = 0
  <2>1. /\ cmdEpoch \in Nat /\ vessels \in [Vessel -> VesselModes]
        /\ DOMAIN plans \subseteq Plan
        /\ \A p \in DOMAIN plans : p \in planned /\ ingested[p] = 0
        /\ \A p \in Plan : p \notin planned => ingested[p] = 0
    BY DEF CommandsInv, CommandsTypeOK, PlansUnspent
  <2>2. ASSUME NEW k \in Vessel, NEW m \in CommandModes, vault_create_container(k, m)
        PROVE  Goal
    BY <2>1, <2>2 DEF vault_create_container, VesselModes
  <2>3. ASSUME NEW s \in Scan, scan_run(s)
        PROVE  Goal
    <3>1. vessels' \in [Vessel -> VesselModes]
      BY <2>1, <2>3, CommandsAssumption DEF scan_run, VesselModes
    <3> QED BY <2>1, <2>3, <3>1 DEF scan_run
  <2>4. ASSUME NEW p \in Plan, remediate_plan_file(p)
        PROVE  Goal
    <3>1. DOMAIN plans' = DOMAIN plans \cup {p}
      BY <2>4 DEF remediate_plan_file
    <3> QED BY <2>1, <2>4, <3>1 DEF remediate_plan_file
  <2>5. ASSUME NEW p \in Plan, PlanExpires(p)
        PROVE  Goal
    <3>1. DOMAIN plans' = DOMAIN plans
      BY <2>5 DEF PlanExpires
    <3> QED BY <2>1, <2>5, <3>1 DEF PlanExpires
  <2>6. CASE OpenVault
    BY <2>1, <2>6 DEF OpenVault
  <2>7. ASSUME NEW manual \in BOOLEAN, CloseVault(manual)
        PROVE  Goal
    <3>1. DOMAIN plans' \subseteq DOMAIN plans
      <4>1. DOMAIN <<>> = {}
        OBVIOUS
      <4> QED BY <2>7, <4>1 DEF CloseVault
    <3> QED BY <2>1, <2>7, <3>1 DEF CloseVault
  <2> QED BY <2>2, <2>3, <2>4, <2>5, <2>6, <2>7
<1>2. CommandsTypeOK'
  BY <1>1 DEF CommandsInv, CommandsTypeOK
<1>3. PlansUnspent'
  BY <1>1 DEF CommandsInv, PlansUnspent
<1> QED BY <1>1, <1>2, <1>3 DEF CommandsInv

\* The invariant of the desktop's commands.
THEOREM CommandsInvariant == CommandsSpec => []CommandsInv
<1>1. CommandsInit => CommandsInv
  <2> SUFFICES ASSUME CommandsInit PROVE CommandsInv
    OBVIOUS
  <2>1. Waiting \in CmdRecords /\ Gated(Waiting)
    BY DEF CmdRecords, Waiting, Gated
  <2>2. DOMAIN plans = {}
    BY DEF CommandsInit
  <2>3. CommandsTypeOK
    BY <2>1, <2>2 DEF CommandsInit, CommandsTypeOK, VesselModes
  <2>4. PlansUnspent
    BY <2>2 DEF CommandsInit, PlansUnspent
  <2> QED BY <2>1, <2>3, <2>4 DEF CommandsInit, CommandsInv
<1>2. CommandsInv /\ [CommandsNext]_commandVars => CommandsInv'
  <2> SUFFICES ASSUME CommandsInv, [CommandsNext]_commandVars PROVE CommandsInv'
    OBVIOUS
  <2>1. ASSUME NEW c \in Cmd, WorkGated(c)
        PROVE  CommandsInv'
    <3>1. cmds[c] \in AtGate /\ cmds[c].epoch \in cmds[c].consented
      BY <2>1, CmdByStage DEF WorkGated, CommandsInv, CommandsTypeOK, Gated
    <3>2. cmds[c].consented \in SUBSET Nat
      BY <3>1 DEF AtGate
    <3> QED BY <2>1, <3>1, <3>2, WorkKeeps DEF WorkGated
  <2>2. ASSUME NEW c \in Cmd, WorkUngated(c)
        PROVE  CommandsInv'
    <3>1. cmds[c] \in Asking /\ cmds[c].kind \notin Destructive
      BY <2>2, CmdByStage DEF WorkUngated, CommandsInv, CommandsTypeOK, Gated
    <3> QED BY <2>2, <3>1, WorkKeeps DEF WorkUngated
  <2>3. CASE UNCHANGED commandVars
    BY <2>3 DEF commandVars, CommandsInv, CommandsTypeOK, PlansUnspent
  <2> QED BY <2>1, <2>2, <2>3, PromptsKeep, UngatedKeeps DEF CommandsNext
<1> QED BY <1>1, <1>2, PTL DEF CommandsSpec

\* Whatever cannot be undone was confirmed in the very unlock it was done in,
\* also when the mode could not be looked up or changed, or the vault was locked
\* and opened again, meanwhile; and a plan moves its file at most once, although
\* two commands may hold the same plan across their prompts.
THEOREM CommandsDestructionConfirmed == CommandsSpec => []DestructionIsConfirmed
<1>1. CommandsInv => DestructionIsConfirmed
  BY DEF CommandsInv, Gated, PlansUnspent, DestructionIsConfirmed, Worked
<1> QED BY <1>1, CommandsInvariant, PTL

-----------------------------------------------------------------------------
(* Wake requests and leases.                                               *)

WakeSignatures == Waker \X Target

WakeRequests == [id : Nat, signature : WakeSignatures, expired : BOOLEAN]
Authorized == [signature : WakeSignatures, session : Nat, expired : BOOLEAN]
AccessLeases ==
    [id : Nat, signature : WakeSignatures, errand : Errand, session : Nat,
     used : BOOLEAN, expired : BOOLEAN]
Checkouts == [id : Nat, signature : WakeSignatures, session : Nat, good : BOOLEAN]

Admitted == [stage : {"admitted"}, agent : Waker, target : Target]
Counting == [stage : {"counting"}, agent : Waker]
Peeking == [stage : {"asking", "refusing"}, id : Nat]
Presenting == [stage : {"verifying", "passed"}, id : Nat, epoch : Nat]
Issuing == [stage : {"issuing"}, signature : WakeSignatures, errand : Errand]

WakeCalls ==
    {NoWakeCall} \cup Admitted \cup Counting \cup Peeking \cup Presenting \cup Issuing

WakeTypeOK ==
    /\ requests \subseteq WakeRequests
    /\ wakeIds \in Nat
    /\ rate \in [Waker -> Nat]
    /\ auths \subseteq Authorized
    /\ leases \subseteq AccessLeases
    /\ leaseIds \in Nat
    /\ handleOpen \in BOOLEAN /\ wakeEpoch \in Nat
    /\ calls \in [WakeCall -> WakeCalls]
    /\ approvals \subseteq WakeSignatures \X Nat
    /\ spent \subseteq Checkouts

\* One pending request for each signature that coalesces, and room kept.
QueueInv ==
    /\ IsFiniteSet(requests)
    /\ \A r, s \in requests : r.signature = s.signature => r = s
    /\ Signatures(requests) = by_signature
    /\ Cardinality(requests) <= MaxWakes

ApprovedSignatures == {p[1] : p \in approvals}

\* What lets an operation through goes back to an approval, all the way from
\* the approval's entry to the lease.
LeasesApproved ==
    /\ \A x \in auths : x.signature \in ApprovedSignatures
    /\ \A c \in WakeCall :
          calls[c].stage = "issuing" => calls[c].signature \in ApprovedSignatures
    /\ \A l \in leases : l.signature \in ApprovedSignatures
    /\ \A x \in spent : x.good => x.signature \in ApprovedSignatures

\* Lease numbers are not used twice, and a lease that may still be tried was
\* not tried before.
LeasesNumbered ==
    /\ \A l \in leases : l.id <= leaseIds
    /\ \A l, m \in leases : l.id = m.id => l = m
    /\ \A x \in spent : x.id <= leaseIds
    /\ \A l \in leases, x \in spent : ~l.used => x.id # l.id
    /\ \A x, y \in spent : x.id = y.id => x = y

WakeInv == WakeTypeOK /\ QueueInv /\ LeasesApproved /\ LeasesNumbered

\* The record of a call, by its stage.
LEMMA WakeByStage ==
    ASSUME NEW r \in WakeCalls
    PROVE  /\ r.stage = "admitted" => r \in Admitted
           /\ r.stage = "counting" => r \in Counting
           /\ r.stage \in {"asking", "refusing"} => r \in Peeking
           /\ r.stage \in {"verifying", "passed"} => r \in Presenting
           /\ r.stage = "issuing" => r \in Issuing
BY DEF WakeCalls, NoWakeCall, Admitted, Counting, Peeking, Presenting, Issuing

\* Taking requests away takes their signatures away, and no other (prune,
\* respond).
LEMMA QueueShrinks ==
    ASSUME QueueInv, NEW R \in SUBSET requests
    PROVE  /\ IsFiniteSet(requests \ R)
           /\ \A r, s \in requests \ R : r.signature = s.signature => r = s
           /\ Signatures(requests \ R) = by_signature \ Signatures(R)
           /\ Cardinality(requests \ R) <= MaxWakes
<1>1. IsFiniteSet(requests \ R) /\ Cardinality(requests \ R) <= Cardinality(requests)
  BY FS_Subset DEF QueueInv
<1>2. Cardinality(requests) \in Nat /\ Cardinality(requests \ R) \in Nat
  BY <1>1, FS_CardinalityType DEF QueueInv
<1>3. Cardinality(requests \ R) <= MaxWakes
  BY <1>1, <1>2, WakeAssumption DEF QueueInv
<1>4. Signatures(requests \ R) = by_signature \ Signatures(R)
  BY DEF QueueInv, Signatures
<1> QED BY <1>1, <1>3, <1>4 DEF QueueInv

\* A new request for a signature that does not coalesce, while there is room.
LEMMA QueueGrows ==
    ASSUME NEW R, IsFiniteSet(R), NEW r, r.signature \notin Signatures(R),
           \A s, t \in R : s.signature = t.signature => s = t,
           Cardinality(R) < MaxWakes
    PROVE  /\ IsFiniteSet(R \cup {r})
           /\ \A s, t \in R \cup {r} : s.signature = t.signature => s = t
           /\ Signatures(R \cup {r}) = Signatures(R) \cup {r.signature}
           /\ Cardinality(R \cup {r}) <= MaxWakes
<1>1. r \notin R
  BY DEF Signatures
<1>2. IsFiniteSet(R \cup {r}) /\ Cardinality(R \cup {r}) = Cardinality(R) + 1
  BY <1>1, FS_AddElement
<1>3. Cardinality(R) \in Nat
  BY FS_CardinalityType
<1>4. Cardinality(R \cup {r}) <= MaxWakes
  BY <1>2, <1>3, WakeAssumption
<1>5. Signatures(R \cup {r}) = Signatures(R) \cup {r.signature}
  BY DEF Signatures
<1>6. \A s, t \in R \cup {r} : s.signature = t.signature => s = t
  BY DEF Signatures
<1> QED BY <1>2, <1>4, <1>5, <1>6

\* As many requests as signatures.
LEMMA OneRequestEach ==
    ASSUME QueueInv
    PROVE  Cardinality(requests) = Cardinality(by_signature)
<1> DEFINE f == [r \in requests |-> r.signature]
<1>1. f \in Bijection(requests, by_signature)
  BY DEF QueueInv, Signatures, Bijection, Injection, Surjection, IsInjective
<1>2. ExistsBijection(requests, by_signature)
  BY <1>1 DEF ExistsBijection
<1> QED BY <1>2, FS_Bijection DEF QueueInv

\* Every step keeps the types of the queue, the approvals and the leases.
LEMMA WakeTypes ==
    ASSUME WakeTypeOK, WakeNext
    PROVE  WakeTypeOK'
<1> USE DEF WakeTypeOK
<1>0. NoWakeCall \in WakeCalls /\ \A c \in WakeCall : calls[c] \in WakeCalls
  BY DEF WakeCalls
<1>1. ASSUME NEW c \in WakeCall, NEW a \in Waker, NEW t \in Target, WakeAdmit(c, a, t)
      PROVE  WakeTypeOK'
  <2>1. [stage |-> "admitted", agent |-> a, target |-> t] \in WakeCalls
    BY DEF Admitted, WakeCalls
  <2> QED BY <1>1, <2>1 DEF WakeAdmit, Turn
<1>2. ASSUME NEW c \in WakeCall, NEW a \in Waker, NEW t \in Target, NEW e \in Errand,
             WakePrepare(c, a, t, e)
      PROVE  WakeTypeOK'
  <2>1. [stage |-> "issuing", signature |-> wake_signature(a, t), errand |-> e] \in WakeCalls
    BY DEF Issuing, WakeCalls, WakeSignatures, wake_signature
  <2> QED BY <1>2, <2>1 DEF WakePrepare, Turn
<1>3. ASSUME NEW c \in WakeCall, WakeEnqueue(c)
      PROVE  WakeTypeOK'
  <2> DEFINE sig == wake_signature(calls[c].agent, calls[c].target)
             counting == [stage |-> "counting", agent |-> calls[c].agent]
             new == [id |-> wakeIds + 1, signature |-> sig, expired |-> FALSE]
  <2>1. calls[c] \in Admitted
    BY <1>0, <1>3, WakeByStage DEF WakeEnqueue, At
  <2>2. counting \in WakeCalls
    BY <2>1 DEF Admitted, Counting, WakeCalls
  <2>3. new \in WakeRequests
    BY <2>1 DEF Admitted, WakeRequests, WakeSignatures, wake_signature
  <2>4. requests' \subseteq WakeRequests /\ wakeIds' \in Nat
    <3>1. \/ requests' = requests \ Expired /\ wakeIds' = wakeIds
          \/ requests' = (requests \ Expired) \cup {new} /\ wakeIds' = wakeIds + 1
      BY <1>3 DEF WakeEnqueue
    <3> HIDE DEF new
    <3> QED BY <2>3, <3>1
  <2>5. calls' \in [WakeCall -> WakeCalls]
    <3>1. Turn(c, counting) \/ Turn(c, NoWakeCall)
      BY <1>3 DEF WakeEnqueue
    <3> HIDE DEF counting
    <3> QED BY <1>0, <2>2, <3>1 DEF Turn
  <2> QED BY <1>3, <2>4, <2>5 DEF WakeEnqueue
<1>4. ASSUME NEW c \in WakeCall, WakeCount(c)
      PROVE  WakeTypeOK'
  <2>1. calls[c].agent \in Waker
    BY <1>0, <1>4, WakeByStage DEF WakeCount, At, Counting
  <2>2. rate' \in [Waker -> Nat]
    BY <1>4, <2>1 DEF WakeCount
  <2> QED BY <1>0, <1>4, <2>2 DEF WakeCount, Turn
<1>5. ASSUME NEW c \in WakeCall, NEW id \in 1 .. wakeIds, NEW approved \in BOOLEAN,
             WakePeek(c, id, approved)
      PROVE  WakeTypeOK'
  <2>1. [stage |-> IF approved THEN "asking" ELSE "refusing", id |-> id] \in WakeCalls
    BY DEF Peeking, WakeCalls
  <2> QED BY <1>5, <2>1 DEF WakePeek, Turn
<1>6. ASSUME NEW c \in WakeCall, WakeRefuse(c)
      PROVE  WakeTypeOK'
  <2>1. requests' \subseteq requests
    BY <1>6 DEF WakeRefuse, Consume
  <2> QED BY <1>0, <1>6, <2>1 DEF WakeRefuse, Turn
<1>7. ASSUME NEW c \in WakeCall, WakeGate(c)
      PROVE  WakeTypeOK'
  <2>1. calls[c] \in Peeking
    BY <1>0, <1>7, WakeByStage DEF WakeGate, At
  <2>2. [stage |-> "verifying", id |-> calls[c].id, epoch |-> wakeEpoch] \in WakeCalls
    BY <2>1 DEF Peeking, Presenting, WakeCalls
  <2> QED BY <1>0, <1>7, <2>2 DEF WakeGate, Turn
<1>8. ASSUME NEW c \in WakeCall, NEW consent \in BOOLEAN, WakeGateEnds(c, consent)
      PROVE  WakeTypeOK'
  <2>1. calls[c] \in Presenting
    BY <1>0, <1>8, WakeByStage DEF WakeGateEnds, At
  <2>2. [calls[c] EXCEPT !.stage = "passed"] \in WakeCalls
    BY <2>1 DEF Presenting, WakeCalls
  <2> QED BY <1>0, <1>8, <2>2 DEF WakeGateEnds, Turn
<1>9. ASSUME NEW c \in WakeCall, WakeApprove(c)
      PROVE  WakeTypeOK'
  <2>1. calls' \in [WakeCall -> WakeCalls]
    BY <1>0, <1>9 DEF WakeApprove, Turn
  <2>2. CASE UNCHANGED <<requests, auths, approvals>>
    BY <1>9, <2>1, <2>2 DEF WakeApprove
  <2>3. ASSUME NEW r \in requests, Consume(r),
               auths' = {x \in auths : x.signature # r.signature} \cup
                    {[signature |-> r.signature, session |-> wakeEpoch,
                      expired |-> FALSE]},
               approvals' = approvals \cup {<<r.signature, wakeEpoch>>}
        PROVE  WakeTypeOK'
    <3>1. r.signature \in WakeSignatures
      BY DEF WakeRequests
    <3>2. auths' \subseteq Authorized
      <4>1. [signature |-> r.signature, session |-> wakeEpoch, expired |-> FALSE] \in Authorized
        BY <3>1 DEF Authorized
      <4> QED BY <2>3, <4>1
    <3>3. requests' \subseteq requests
      BY <2>3 DEF Consume
    <3>4. approvals' \subseteq WakeSignatures \X Nat
      BY <2>3, <3>1
    <3> QED BY <1>9, <2>1, <3>2, <3>3, <3>4 DEF WakeApprove
  <2> QED BY <1>9, <2>2, <2>3 DEF WakeApprove, Peeked
<1>10. ASSUME NEW c \in WakeCall, WakeIssue(c)
       PROVE  WakeTypeOK'
  <2> DEFINE new == [id |-> leaseIds + 1, signature |-> calls[c].signature,
                     errand |-> calls[c].errand, session |-> wakeEpoch, used |-> FALSE,
                     expired |-> FALSE]
  <2>1. calls[c] \in Issuing
    BY <1>0, <1>10, WakeByStage DEF WakeIssue, At
  <2>2. new \in AccessLeases
    BY <2>1 DEF Issuing, AccessLeases
  <2>3. leases' \subseteq AccessLeases /\ leaseIds' \in Nat
    <3>1. leaseIds' = leaseIds + 1 /\ leases' = leases \cup {new}
      BY <1>10 DEF WakeIssue
    <3> HIDE DEF new
    <3> QED BY <2>2, <3>1
  <2> QED BY <1>0, <1>10, <2>3 DEF WakeIssue, Turn
<1>11. ASSUME NEW id \in 1 .. leaseIds, NEW a \in Waker, NEW t \in Target, NEW e \in Errand,
              checkout(id, wake_signature(a, t), e)
       PROVE  WakeTypeOK'
  <2>1. PICK l \in leases :
          \/ leases' = leases \ {l} /\ UNCHANGED spent
          \/ /\ leases' = (leases \ {l}) \cup consumed(l, Fitting(l, wake_signature(a, t), e))
             /\ spent' = spent \cup
                    {[id |-> id, signature |-> wake_signature(a, t), session |-> wakeEpoch,
                      good |-> Fitting(l, wake_signature(a, t), e)]}
    BY <1>11 DEF checkout
  <2>2. [l EXCEPT !.used = TRUE] \in AccessLeases
    <3>1. l \in AccessLeases
      OBVIOUS
    <3> QED BY <3>1 DEF AccessLeases
  <2>3. [id |-> id, signature |-> wake_signature(a, t), session |-> wakeEpoch,
         good |-> Fitting(l, wake_signature(a, t), e)] \in Checkouts
    BY DEF Checkouts, WakeSignatures, wake_signature, Fitting
  <2>4. leases' \subseteq AccessLeases
    BY <2>1, <2>2 DEF consumed
  <2>5. spent' \subseteq Checkouts
    BY <2>1, <2>3
  <2> QED BY <1>11, <2>4, <2>5 DEF checkout
<1>12. CASE WakeTime
  <2>1. /\ \A r \in requests : [r EXCEPT !.expired = TRUE] \in WakeRequests
        /\ \A x \in auths : [x EXCEPT !.expired = TRUE] \in Authorized
        /\ \A l \in leases : [l EXCEPT !.expired = TRUE] \in AccessLeases
    <3>1. \A r \in WakeRequests : [r EXCEPT !.expired = TRUE] \in WakeRequests
      BY DEF WakeRequests
    <3>2. \A x \in Authorized : [x EXCEPT !.expired = TRUE] \in Authorized
      BY DEF Authorized
    <3>3. \A l \in AccessLeases : [l EXCEPT !.expired = TRUE] \in AccessLeases
      BY DEF AccessLeases
    <3> QED BY <3>1, <3>2, <3>3
  <2>2. requests' \subseteq WakeRequests /\ auths' \subseteq Authorized
        /\ leases' \subseteq AccessLeases
    BY <1>12, <2>1 DEF WakeTime
  <2>3. rate' \in [Waker -> Nat]
    BY <1>12 DEF WakeTime
  <2> QED BY <1>12, <2>2, <2>3 DEF WakeTime
<1>13. CASE WakeSession
  BY <1>13 DEF WakeSession
<1> QED BY <1>1, <1>2, <1>3, <1>4, <1>5, <1>6, <1>7, <1>8, <1>9, <1>10, <1>11, <1>12, <1>13
        DEF WakeNext

\* Pruning, coalescing, queueing, refusing, approving and expiring keep one
\* request for each signature.
LEMMA WakeQueueKept ==
    ASSUME WakeTypeOK, QueueInv, WakeNext
    PROVE  QueueInv'
<1>1. CASE UNCHANGED <<requests, by_signature>>
  BY <1>1 DEF QueueInv, Signatures
<1>2. ASSUME NEW r \in requests, Consume(r)
      PROVE  QueueInv'
  <2>1. Signatures({r}) = {r.signature}
    BY DEF Signatures
  <2> QED BY <1>2, <2>1, QueueShrinks DEF Consume, QueueInv, Signatures
<1>3. ASSUME NEW c \in WakeCall, WakeEnqueue(c)
      PROVE  QueueInv'
  <2> DEFINE sig == wake_signature(calls[c].agent, calls[c].target)
             kept == requests \ Expired
             known == forgotten(by_signature)
             new == [id |-> wakeIds', signature |-> sig, expired |-> FALSE]
  <2>1. /\ IsFiniteSet(kept)
        /\ \A r, s \in kept : r.signature = s.signature => r = s
        /\ Signatures(kept) = known
        /\ Cardinality(kept) <= MaxWakes
    BY QueueShrinks DEF Expired, forgotten
  <2>2. CASE requests' = kept /\ by_signature' = known
    BY <2>1, <2>2 DEF QueueInv, Signatures
  <2>3. CASE /\ sig \notin known /\ Cardinality(kept) < MaxWakes
             /\ requests' = kept \cup {new} /\ by_signature' = known \cup {sig}
    <3>1. new.signature = sig
      OBVIOUS
    <3> HIDE DEF kept, known, new, sig
    <3>2. /\ IsFiniteSet(kept \cup {new})
          /\ \A s, t \in kept \cup {new} : s.signature = t.signature => s = t
          /\ Signatures(kept \cup {new}) = Signatures(kept) \cup {new.signature}
          /\ Cardinality(kept \cup {new}) <= MaxWakes
      BY <2>1, <2>3, <3>1, QueueGrows
    <3> QED BY <2>1, <2>3, <3>1, <3>2 DEF QueueInv, Signatures
  <2> QED BY <1>3, <2>2, <2>3 DEF WakeEnqueue
<1>4. ASSUME NEW r \in requests, UNCHANGED by_signature,
             requests' = (requests \ {r}) \cup {[r EXCEPT !.expired = TRUE]}
      PROVE  QueueInv'
  <2> DEFINE old == [r EXCEPT !.expired = TRUE]
  <2>1. old.signature = r.signature
    BY DEF WakeTypeOK, WakeRequests
  <2> HIDE DEF old
  <2>2. Signatures({r}) = {r.signature}
    BY DEF Signatures
  <2>3. /\ IsFiniteSet(requests \ {r})
        /\ \A s, t \in requests \ {r} : s.signature = t.signature => s = t
        /\ Signatures(requests \ {r}) = by_signature \ {r.signature}
    BY <2>2, QueueShrinks
  <2>4. Cardinality(requests \ {r}) < MaxWakes
    <3>1. Cardinality(requests \ {r}) = Cardinality(requests) - 1 /\ Cardinality(requests) \in Nat
      BY FS_RemoveElement, FS_CardinalityType DEF QueueInv
    <3> QED BY <3>1, WakeAssumption DEF QueueInv
  <2>5. /\ IsFiniteSet((requests \ {r}) \cup {old})
        /\ \A s, t \in (requests \ {r}) \cup {old} : s.signature = t.signature => s = t
        /\ Signatures((requests \ {r}) \cup {old}) = Signatures(requests \ {r}) \cup {old.signature}
        /\ Cardinality((requests \ {r}) \cup {old}) <= MaxWakes
    BY <2>1, <2>3, <2>4, QueueGrows
  <2>6. r.signature \in by_signature
    BY DEF QueueInv, Signatures
  <2>7. Signatures((requests \ {r}) \cup {old}) = by_signature
    <3>1. (by_signature \ {r.signature}) \cup {r.signature} = by_signature
      BY <2>6
    <3>2. Signatures((requests \ {r}) \cup {old}) = Signatures(requests \ {r}) \cup {r.signature}
      BY <2>1, <2>5
    <3> QED BY <2>3, <3>1, <3>2
  <2> QED BY <1>4, <2>5, <2>7 DEF QueueInv, Signatures, old
<1>5. ASSUME NEW c \in WakeCall, WakeRefuse(c) \/ WakeApprove(c)
      PROVE  QueueInv'
  BY <1>1, <1>2, <1>5 DEF WakeRefuse, WakeApprove, Peeked
<1>6. CASE WakeTime
  BY <1>1, <1>4, <1>6 DEF WakeTime
<1>7. ASSUME NEW c \in WakeCall,
             \/ \E a \in Waker, t \in Target :
                  WakeAdmit(c, a, t) \/ \E e \in Errand : WakePrepare(c, a, t, e)
             \/ WakeCount(c)
             \/ \E id \in 1 .. wakeIds, approved \in BOOLEAN : WakePeek(c, id, approved)
             \/ WakeGate(c)
             \/ \E consent \in BOOLEAN : WakeGateEnds(c, consent)
             \/ WakeIssue(c)
      PROVE  QueueInv'
  BY <1>1, <1>7 DEF WakeAdmit, WakePrepare, WakeCount, WakePeek, WakeGate, WakeGateEnds,
                    WakeIssue
<1>8. CASE WakeSession
  BY <1>1, <1>8 DEF WakeSession
<1>9. CASE \E id \in 1 .. leaseIds, a \in Waker, t \in Target, e \in Errand :
              checkout(id, wake_signature(a, t), e)
  BY <1>1, <1>9 DEF checkout
<1> QED BY <1>3, <1>5, <1>6, <1>7, <1>8, <1>9 DEF WakeNext

\* A step that leaves leases and approvals alone, and starts no issue.
LEMMA LeasesUntouched ==
    ASSUME LeasesApproved, LeasesNumbered, UNCHANGED <<leases, leaseIds, approvals, spent>>,
           \A x \in auths' : x.signature \in ApprovedSignatures,
           \A c \in WakeCall : calls'[c].stage = "issuing" =>
                calls'[c].signature \in ApprovedSignatures
    PROVE  LeasesApproved' /\ LeasesNumbered'
BY DEF LeasesApproved, LeasesNumbered, ApprovedSignatures

\* Approving, preparing, issuing, trying and expiring keep every lease that may
\* still be tried untried, and approved.
LEMMA WakeLeasesKept ==
    ASSUME WakeTypeOK, LeasesApproved, LeasesNumbered, WakeNext
    PROVE  LeasesApproved' /\ LeasesNumbered'
<1>0. NoWakeCall.stage = "idle" /\ calls \in [WakeCall -> WakeCalls]
  BY DEF NoWakeCall, WakeTypeOK
<1>1. ASSUME NEW c \in WakeCall, NEW r, Turn(c, r),
             r.stage = "issuing" => r.signature \in ApprovedSignatures,
             UNCHANGED <<leases, leaseIds, approvals, spent, auths>>
      PROVE  LeasesApproved' /\ LeasesNumbered'
  <2>1. \A d \in WakeCall : calls'[d] = IF d = c THEN r ELSE calls[d]
    BY <1>0, <1>1 DEF Turn
  <2> QED BY <1>1, <2>1, LeasesUntouched DEF LeasesApproved
<1>2. ASSUME NEW c \in WakeCall, NEW a \in Waker, NEW t \in Target, WakeAdmit(c, a, t)
      PROVE  LeasesApproved' /\ LeasesNumbered'
  BY <1>1, <1>2 DEF WakeAdmit
<1>3. ASSUME NEW c \in WakeCall, NEW a \in Waker, NEW t \in Target, NEW e \in Errand,
             WakePrepare(c, a, t, e)
      PROVE  LeasesApproved' /\ LeasesNumbered'
  <2> DEFINE x == [signature |-> wake_signature(a, t), session |-> wakeEpoch, expired |-> FALSE]
             r == [stage |-> "issuing", signature |-> wake_signature(a, t), errand |-> e]
  <2>1. x \in auths
    BY <1>3 DEF WakePrepare, has_authorized_wake
  <2>2. wake_signature(a, t) \in ApprovedSignatures
    <3>1. x.signature \in ApprovedSignatures
      BY <2>1 DEF LeasesApproved
    <3> QED BY <3>1
  <2>3. r.signature = wake_signature(a, t) /\ Turn(c, r)
    BY <1>3 DEF WakePrepare
  <2> HIDE DEF r
  <2> QED BY <1>1, <1>3, <2>2, <2>3 DEF WakePrepare
<1>4. ASSUME NEW c \in WakeCall, WakeEnqueue(c)
      PROVE  LeasesApproved' /\ LeasesNumbered'
  <2> DEFINE counting == [stage |-> "counting", agent |-> calls[c].agent]
  <2>1. Turn(c, counting) \/ Turn(c, NoWakeCall)
    BY <1>4 DEF WakeEnqueue
  <2>2. counting.stage = "counting"
    OBVIOUS
  <2>3. UNCHANGED <<leases, leaseIds, approvals, spent, auths>>
    BY <1>4 DEF WakeEnqueue
  <2> HIDE DEF counting
  <2> QED BY <1>0, <1>1, <2>1, <2>2, <2>3
<1>5. ASSUME NEW c \in WakeCall, WakeCount(c) \/ WakeRefuse(c)
      PROVE  LeasesApproved' /\ LeasesNumbered'
  <2>1. Turn(c, NoWakeCall) /\ UNCHANGED <<leases, leaseIds, approvals, spent, auths>>
    BY <1>5 DEF WakeCount, WakeRefuse
  <2> QED BY <1>0, <1>1, <2>1
<1>6. ASSUME NEW c \in WakeCall, NEW id \in 1 .. wakeIds, NEW approved \in BOOLEAN,
             WakePeek(c, id, approved)
      PROVE  LeasesApproved' /\ LeasesNumbered'
  <2> DEFINE r == [stage |-> IF approved THEN "asking" ELSE "refusing", id |-> id]
  <2>1. Turn(c, r) /\ r.stage # "issuing"
    BY <1>6 DEF WakePeek
  <2>2. UNCHANGED <<leases, leaseIds, approvals, spent, auths>>
    BY <1>6 DEF WakePeek
  <2> HIDE DEF r
  <2> QED BY <1>1, <2>1, <2>2
<1>7. ASSUME NEW c \in WakeCall, WakeGate(c)
      PROVE  LeasesApproved' /\ LeasesNumbered'
  <2> DEFINE r == [stage |-> "verifying", id |-> calls[c].id, epoch |-> wakeEpoch]
  <2>1. (Turn(c, r) \/ Turn(c, NoWakeCall)) /\ r.stage # "issuing"
    BY <1>7 DEF WakeGate
  <2>2. UNCHANGED <<leases, leaseIds, approvals, spent, auths>>
    BY <1>7 DEF WakeGate
  <2> HIDE DEF r
  <2> QED BY <1>0, <1>1, <2>1, <2>2
<1>8. ASSUME NEW c \in WakeCall, NEW consent \in BOOLEAN, WakeGateEnds(c, consent)
      PROVE  LeasesApproved' /\ LeasesNumbered'
  <2> DEFINE r == [calls[c] EXCEPT !.stage = "passed"]
  <2>1. calls[c] \in Presenting
    BY <1>0, <1>8, WakeByStage DEF WakeGateEnds, At
  <2>2. r.stage # "issuing"
    BY <2>1 DEF Presenting
  <2>3. Turn(c, r) \/ Turn(c, NoWakeCall)
    BY <1>8 DEF WakeGateEnds
  <2>4. UNCHANGED <<leases, leaseIds, approvals, spent, auths>>
    BY <1>8 DEF WakeGateEnds
  <2> HIDE DEF r
  <2> QED BY <1>0, <1>1, <2>2, <2>3, <2>4
<1>9. ASSUME NEW c \in WakeCall, WakeApprove(c)
      PROVE  LeasesApproved' /\ LeasesNumbered'
  <2>1. Turn(c, NoWakeCall) /\ UNCHANGED <<leases, leaseIds, spent>>
    BY <1>9 DEF WakeApprove
  <2>2. CASE UNCHANGED <<auths, approvals>>
    BY <1>0, <1>1, <2>1, <2>2
  <2>3. ASSUME NEW r \in requests,
               auths' = {x \in auths : x.signature # r.signature} \cup
                    {[signature |-> r.signature, session |-> wakeEpoch,
                      expired |-> FALSE]},
               approvals' = approvals \cup {<<r.signature, wakeEpoch>>}
        PROVE  LeasesApproved' /\ LeasesNumbered'
    <3>1. ApprovedSignatures' = ApprovedSignatures \cup {r.signature}
      <4> DEFINE given == <<r.signature, wakeEpoch>>
      <4>1. given[1] = r.signature /\ approvals' = approvals \cup {given}
        BY <2>3
      <4> HIDE DEF given
      <4> QED BY <4>1 DEF ApprovedSignatures
    <3>2. \A x \in auths' : x.signature \in ApprovedSignatures'
      BY <2>3, <3>1 DEF LeasesApproved
    <3>3. \A d \in WakeCall : calls'[d].stage = "issuing" =>
                calls'[d].signature \in ApprovedSignatures'
      <4>1. \A d \in WakeCall : calls'[d] = IF d = c THEN NoWakeCall ELSE calls[d]
        BY <1>0, <2>1 DEF Turn
      <4> QED BY <1>0, <3>1, <4>1 DEF LeasesApproved
    <3>4. LeasesApproved'
      BY <2>1, <3>1, <3>2, <3>3 DEF LeasesApproved
    <3> QED BY <2>1, <3>4 DEF LeasesNumbered
  <2> QED BY <1>9, <2>2, <2>3 DEF WakeApprove, Peeked
<1>10. ASSUME NEW c \in WakeCall, WakeIssue(c)
       PROVE  LeasesApproved' /\ LeasesNumbered'
  <2> DEFINE new == [id |-> leaseIds + 1, signature |-> calls[c].signature,
                     errand |-> calls[c].errand, session |-> wakeEpoch, used |-> FALSE,
                     expired |-> FALSE]
  <2>1. /\ leases' = leases \cup {new} /\ leaseIds' = leaseIds + 1
        /\ UNCHANGED <<auths, approvals, spent>>
        /\ calls' = [calls EXCEPT ![c] = NoWakeCall]
    BY <1>10 DEF WakeIssue, Turn
  <2>2. new.id = leaseIds + 1 /\ new.signature = calls[c].signature
    OBVIOUS
  <2> HIDE DEF new
  <2>3. new.signature \in ApprovedSignatures
    BY <1>10, <2>2 DEF WakeIssue, At, LeasesApproved
  <2>4. LeasesApproved'
    BY <1>0, <2>1, <2>3 DEF LeasesApproved, ApprovedSignatures
  <2>5. /\ \A l \in leases : l.id \in Nat
        /\ \A x \in spent : x.id \in Nat
        /\ leaseIds \in Nat
    BY DEF WakeTypeOK, AccessLeases, Checkouts
  <2>6. LeasesNumbered'
    BY <2>1, <2>2, <2>5 DEF LeasesNumbered
  <2> QED BY <2>4, <2>6
<1>11. ASSUME NEW id \in 1 .. leaseIds, NEW a \in Waker, NEW t \in Target, NEW e \in Errand,
              checkout(id, wake_signature(a, t), e)
       PROVE  LeasesApproved' /\ LeasesNumbered'
  <2> DEFINE sig == wake_signature(a, t)
  <2>1. UNCHANGED <<auths, approvals, calls, leaseIds>>
    BY <1>11 DEF checkout
  <2>2. CASE \E l \in leases : leases' = leases \ {l} /\ UNCHANGED spent
    BY <2>1, <2>2 DEF LeasesApproved, LeasesNumbered, ApprovedSignatures
  <2>3. ASSUME NEW l \in leases, l.id = id, ~l.used,
               leases' = (leases \ {l}) \cup consumed(l, Fitting(l, sig, e)),
               spent' = spent \cup
                    {[id |-> id, signature |-> sig, session |-> wakeEpoch,
                      good |-> Fitting(l, sig, e)]}
        PROVE  LeasesApproved' /\ LeasesNumbered'
    <3> DEFINE x == [id |-> id, signature |-> sig, session |-> wakeEpoch,
                     good |-> Fitting(l, sig, e)]
               tried == [l EXCEPT !.used = TRUE]
    <3>1. tried.id = id /\ tried.used /\ tried.signature = l.signature
      BY <2>3 DEF WakeTypeOK, AccessLeases
    <3>2. x.id = id /\ x.signature = sig /\ (x.good => l.signature = sig)
      BY DEF Fitting
    <3>3. leases' \subseteq (leases \ {l}) \cup {tried}
      BY <2>3 DEF consumed
    <3>4. spent' = spent \cup {x}
      BY <2>3
    <3> HIDE DEF x, tried, sig
    <3>5. LeasesApproved'
      BY <2>1, <3>1, <3>2, <3>3, <3>4 DEF LeasesApproved, ApprovedSignatures
    <3>6. \A y \in spent : y.id # id
      BY <2>3 DEF LeasesNumbered
    <3>7. \A m \in leases \ {l} : m.id # id
      BY <2>3 DEF LeasesNumbered
    <3>8. id <= leaseIds
      BY DEF WakeTypeOK
    <3>9. LeasesNumbered'
      BY <2>1, <3>1, <3>2, <3>3, <3>4, <3>6, <3>7, <3>8 DEF LeasesNumbered
    <3> QED BY <3>5, <3>9
  <2> QED BY <1>11, <2>2, <2>3 DEF checkout
<1>12. CASE WakeTime
  <2>1. UNCHANGED <<leaseIds, calls, approvals, spent>>
    BY <1>12 DEF WakeTime
  <2>2. CASE UNCHANGED <<auths, leases>>
    BY <2>1, <2>2, LeasesUntouched DEF LeasesApproved
  <2>3. ASSUME NEW x \in auths, UNCHANGED leases,
               auths' = (auths \ {x}) \cup {[x EXCEPT !.expired = TRUE]}
        PROVE  LeasesApproved' /\ LeasesNumbered'
    <3>1. [x EXCEPT !.expired = TRUE].signature = x.signature
      BY DEF WakeTypeOK, Authorized
    <3> QED BY <2>1, <2>3, <3>1, LeasesUntouched DEF LeasesApproved
  <2>4. ASSUME NEW l \in leases, UNCHANGED auths,
               leases' = (leases \ {l}) \cup {[l EXCEPT !.expired = TRUE]}
        PROVE  LeasesApproved' /\ LeasesNumbered'
    <3> DEFINE old == [l EXCEPT !.expired = TRUE]
    <3>1. old.id = l.id /\ old.used = l.used /\ old.signature = l.signature
      BY DEF WakeTypeOK, AccessLeases
    <3> HIDE DEF old
    <3>2. leases' = (leases \ {l}) \cup {old}
      BY <2>4 DEF old
    <3>3. LeasesApproved'
      BY <2>1, <2>4, <3>1, <3>2 DEF LeasesApproved, ApprovedSignatures
    <3>4. LeasesNumbered'
      BY <2>1, <3>1, <3>2 DEF LeasesNumbered
    <3> QED BY <3>3, <3>4
  <2> QED BY <1>12, <2>2, <2>3, <2>4 DEF WakeTime
<1>13. CASE WakeSession
  BY <1>13, LeasesUntouched DEF WakeSession, LeasesApproved
<1> QED BY <1>2, <1>3, <1>4, <1>5, <1>6, <1>7, <1>8, <1>9, <1>10, <1>11, <1>12, <1>13
        DEF WakeNext

\* The invariant of wake requests and leases.
THEOREM WakeInvariant == WakeSpec => []WakeInv
<1>1. WakeInit => WakeInv
  <2> SUFFICES ASSUME WakeInit PROVE WakeInv
    OBVIOUS
  <2>1. WakeTypeOK
    BY DEF WakeInit, WakeTypeOK, WakeCalls
  <2>2. QueueInv
    BY FS_EmptySet, WakeAssumption DEF WakeInit, QueueInv, Signatures
  <2>3. LeasesApproved
    BY DEF WakeInit, LeasesApproved, NoWakeCall
  <2>4. LeasesNumbered
    BY DEF WakeInit, LeasesNumbered
  <2> QED BY <2>1, <2>2, <2>3, <2>4 DEF WakeInv
<1>2. WakeInv /\ [WakeNext]_wakeVars => WakeInv'
  <2>1. CASE WakeNext
    BY <2>1, WakeTypes, WakeQueueKept, WakeLeasesKept DEF WakeInv
  <2>2. CASE UNCHANGED wakeVars
    BY <2>2 DEF wakeVars, WakeInv, WakeTypeOK, QueueInv, Signatures, LeasesApproved,
                LeasesNumbered, ApprovedSignatures
  <2> QED BY <2>1, <2>2
<1> QED BY <1>1, <1>2, PTL DEF WakeSpec

\* Every signature that coalesces has exactly one request before a person, and
\* the queue keeps its bound, however requests, expiries, refusals and
\* approvals interleave.
THEOREM WakeQueuedPending == WakeSpec => []QueuedIsPending
<1>1. WakeInv => QueuedIsPending
  BY OneRequestEach DEF WakeInv, QueueInv, QueuedIsPending
<1> QED BY <1>1, WakeInvariant, PTL

\* A lease is tried once, fitting or not, and what it lets through was approved
\* by a person, although the session may move between the check of an approval
\* and the issue of its lease.
THEOREM WakeLeasesSpentOnce == WakeSpec => []LeasesAreSpentOnce
<1>1. WakeInv => LeasesAreSpentOnce
  BY DEF WakeInv, LeasesApproved, LeasesNumbered, ApprovedSignatures, LeasesAreSpentOnce
<1> QED BY <1>1, WakeInvariant, PTL
=============================================================================
