------------------------------ MODULE Session ------------------------------
(***************************************************************************)
(* The desktop's session: the handle and its epoch, the timer that bounds  *)
(* an unlock, the monitor task that locks when the timer runs out, and the *)
(* local servers, which are started after the handle is published and      *)
(* without holding it. Commands and the monitor run on several threads.    *)
(* The timer's fields are written and read with try_lock, so a write may   *)
(* be skipped and a read may fail.                                         *)
(***************************************************************************)
EXTENDS Integers

CONSTANTS
    Unlocker,       \* unlock, recovery and init commands in flight
    Limits,         \* <<idle, absolute>> limits a person may set
    DefaultLimits,  \* DEFAULT_IDLE_TIMEOUT_SECS, DEFAULT_ABSOLUTE_SESSION_SECS
    MaxTime,        \* bound on the clock
    MaxSessions,    \* bound on the unlocks
    MaxEpoch,       \* bound on the epoch
    NoTime

ASSUME SessionAssumption ==
    /\ Limits \subseteq (Nat \ {0}) \X (Nat \ {0})
    /\ DefaultLimits \in Limits
    /\ NoTime \notin Nat
    /\ MaxTime \in Nat /\ MaxSessions \in Nat /\ MaxEpoch \in Nat

VARIABLES
    now,            \* the clock
    session,        \* the number of the open session, 0 when locked
    opens,          \* sessions opened so far
    epoch,          \* SessionTimer::epoch
    unlocked_at, last_activity, limits,     \* the rest of the SessionTimer
    monitor,        \* where the monitor task stands
    guard,          \* the monitor holds the handle while it stops the servers
    servers,        \* the session whose keys the running servers have, or 0
    unlockers,
    openedAt, lastHuman     \* history: when it really was unlocked, and touched

sessionVars ==
    <<now, session, opens, epoch, unlocked_at, last_activity, limits, monitor, guard,
      servers, unlockers, openedAt, lastHuman>>

AtRest == [stage |-> "idle", kind |-> "none", epoch |-> 0, keys |-> 0]

SessionInit ==
    /\ now = 0
    /\ session = 0 /\ opens = 0 /\ epoch = 0
    /\ unlocked_at = NoTime /\ last_activity = 0
    /\ limits = DefaultLimits
    /\ monitor = "none" /\ guard = FALSE
    /\ servers = 0
    /\ unlockers = [u \in Unlocker |-> AtRest]
    /\ openedAt = 0 /\ lastHuman = 0

-----------------------------------------------------------------------------
(* The timer.                                                              *)

set_unlocked ==
    /\ epoch < MaxEpoch
    /\ epoch' = epoch + 1
    /\ unlocked_at' \in {now, unlocked_at}
    /\ last_activity' \in {now, last_activity}

set_locked ==
    /\ epoch < MaxEpoch
    /\ epoch' = epoch + 1
    /\ unlocked_at' \in {NoTime, unlocked_at}
    /\ UNCHANGED last_activity

\* A command of a person, on an open or a locked vault.
touch_human_activity ==
    /\ lastHuman' = now
    /\ last_activity' \in {now, last_activity}
    /\ UNCHANGED <<now, session, opens, epoch, unlocked_at, limits, monitor, guard,
                   servers, unlockers, openedAt>>

\* Smaller limits are set at once, a larger one under an open handle, once a
\* person's presence is verified.
session_set_limits(l) ==
    /\ l[1] > limits[1] \/ l[2] > limits[2] => session # 0 /\ ~guard
    /\ limits' = l
    /\ UNCHANGED <<now, session, opens, epoch, unlocked_at, last_activity, monitor,
                   guard, servers, unlockers, openedAt, lastHuman>>

\* A plausible fault: a time that is not known counts as no time passed.
due_if_known ==
    /\ unlocked_at # NoTime
    /\ now - last_activity >= limits[1] \/ now - unlocked_at >= limits[2]

\* remaining_secs and its reading by the monitor: no time at all counts as 0.
due ==
    \/ unlocked_at = NoTime
    \/ now - last_activity >= limits[1]
    \/ now - unlocked_at >= limits[2]

-----------------------------------------------------------------------------
(* The monitor: one task, which every completed unlock replaces.           *)

\* A tick: the remaining time is read before the handle is taken, and a
\* contended timer counts as run out.
MonitorTick(contended) ==
    /\ monitor = "sleeping"
    /\ monitor' = IF due \/ contended THEN "locking" ELSE "sleeping"
    /\ UNCHANGED <<now, session, opens, epoch, unlocked_at, last_activity, limits, guard,
                   servers, unlockers, openedAt, lastHuman>>

\* perform_vault_lock_internal, up to the shutdown of the servers.
MonitorLock ==
    /\ monitor = "locking" /\ ~guard
    /\ session' = 0
    /\ set_locked
    /\ guard' = TRUE
    /\ monitor' = "stopping"
    /\ UNCHANGED <<now, opens, limits, servers, unlockers, openedAt, lastHuman>>

MonitorStopsServers ==
    /\ monitor = "stopping"
    /\ servers' = 0
    /\ guard' = FALSE
    /\ monitor' = "sleeping"
    /\ UNCHANGED <<now, session, opens, epoch, unlocked_at, last_activity, limits,
                   unlockers, openedAt, lastHuman>>

\* perform_vault_lock, which holds the handle to its end.
ManualLock ==
    /\ ~guard
    /\ session' = 0
    /\ set_locked
    /\ servers' = 0
    /\ UNCHANGED <<now, opens, limits, monitor, guard, unlockers, openedAt, lastHuman>>

-----------------------------------------------------------------------------
(* An unlock.                                                              *)

Stage(u, s) == unlockers[u].stage = s
Goes(u, r) == unlockers' = [unlockers EXCEPT ![u] = r]

\* The keychain unlock and the creation of a vault verify presence first, in
\* the epoch they start in.
BeginVerified(u, kind) ==
    /\ Stage(u, "idle")
    /\ Goes(u, [AtRest EXCEPT !.stage = "verifying", !.kind = kind, !.epoch = epoch])
    /\ UNCHANGED <<now, session, opens, epoch, unlocked_at, last_activity, limits, monitor,
                   guard, servers, openedAt, lastHuman>>

\* The state changed during the verification, or the vault exists already.
RefuseUnlock(u) ==
    /\ Stage(u, "verifying") /\ ~guard
    /\ \/ session # 0
       \/ epoch # unlockers[u].epoch
       \/ unlockers[u].kind = "init" /\ opens > 0
    /\ Goes(u, AtRest)
    /\ UNCHANGED <<now, session, opens, epoch, unlocked_at, last_activity, limits, monitor,
                   guard, servers, openedAt, lastHuman>>

\* publish_unlocked. The lock file of the vault admits one open handle.
publish_unlocked(u, kind, stage) ==
    /\ ~guard
    /\ session = 0 /\ opens < MaxSessions
    /\ opens' = opens + 1
    /\ session' = opens'
    /\ set_unlocked
    /\ openedAt' = now
    /\ Goes(u, [AtRest EXCEPT !.stage = stage, !.kind = kind])
    /\ UNCHANGED <<now, limits, monitor, guard, servers, lastHuman>>

Verified(u, kind) ==
    Stage(u, "verifying") /\ unlockers[u].kind = kind /\ unlockers[u].epoch = epoch

\* From the keychain, or with a passphrase, which needs no verification.
vault_unlock(u) ==
    /\ Verified(u, "unlock") \/ Stage(u, "idle")
    /\ publish_unlocked(u, "unlock", "starting")

vault_unlock_recovery(u) ==
    /\ Stage(u, "idle")
    /\ publish_unlocked(u, "unlock", "starting")

\* A new vault is watched before its servers start.
vault_init(u) ==
    /\ opens = 0 /\ Verified(u, "init")
    /\ publish_unlocked(u, "init", "created")

\* start_servers stops what runs, binds the ports, then reads the keys.
StopServers(u) ==
    /\ Stage(u, "starting")
    /\ servers' = 0
    /\ Goes(u, [unlockers[u] EXCEPT !.stage = "binding"])
    /\ UNCHANGED <<now, session, opens, epoch, unlocked_at, last_activity, limits, monitor,
                   guard, openedAt, lastHuman>>

\* A failed start is rolled back, except for a new vault, whose recovery phrase
\* is still to be shown.
Fails(u) ==
    IF unlockers[u].kind = "init" THEN AtRest ELSE [unlockers[u] EXCEPT !.stage = "failed"]

ReadKeys(u) ==
    /\ Stage(u, "binding") /\ ~guard
    /\ Goes(u, IF session = 0
               THEN Fails(u)
               ELSE [unlockers[u] EXCEPT !.stage = "installing", !.keys = session])
    /\ UNCHANGED <<now, session, opens, epoch, unlocked_at, last_activity, limits, monitor,
                   guard, servers, openedAt, lastHuman>>

\* A taken port, an unreadable agent registry.
StartFails(u) ==
    /\ Stage(u, "binding") \/ Stage(u, "installing")
    /\ Goes(u, Fails(u))
    /\ UNCHANGED <<now, session, opens, epoch, unlocked_at, last_activity, limits, monitor,
                   guard, servers, openedAt, lastHuman>>

Install(u) ==
    /\ Stage(u, "installing")
    /\ servers' = unlockers[u].keys
    /\ Goes(u, IF unlockers[u].kind = "init" THEN AtRest
               ELSE [unlockers[u] EXCEPT !.stage = "started"])
    /\ UNCHANGED <<now, session, opens, epoch, unlocked_at, last_activity, limits, monitor,
                   guard, openedAt, lastHuman>>

\* rollback_unlock: whichever session is open by now is locked.
Rollback(u) ==
    /\ Stage(u, "failed") /\ ~guard
    /\ session' = 0
    /\ set_locked
    /\ Goes(u, AtRest)
    /\ UNCHANGED <<now, opens, limits, monitor, guard, servers, openedAt, lastHuman>>

\* restart_session_monitor aborts the old task wherever it waits.
RestartMonitor(u) ==
    /\ \/ Stage(u, "started") /\ Goes(u, AtRest)
       \/ Stage(u, "created") /\ Goes(u, [unlockers[u] EXCEPT !.stage = "starting"])
    /\ monitor' = "sleeping"
    /\ guard' = FALSE
    /\ UNCHANGED <<now, session, opens, epoch, unlocked_at, last_activity, limits, servers,
                   openedAt, lastHuman>>

Tick ==
    /\ now < MaxTime
    /\ now' = now + 1
    /\ UNCHANGED <<session, opens, epoch, unlocked_at, last_activity, limits, monitor,
                   guard, servers, unlockers, openedAt, lastHuman>>

SessionNext ==
    \/ touch_human_activity
    \/ \E l \in Limits : session_set_limits(l)
    \/ \E contended \in BOOLEAN : MonitorTick(contended)
    \/ MonitorLock
    \/ MonitorStopsServers
    \/ ManualLock
    \/ \E u \in Unlocker :
        \/ \E kind \in {"unlock", "init"} : BeginVerified(u, kind)
        \/ RefuseUnlock(u)
        \/ vault_unlock(u)
        \/ vault_unlock_recovery(u)
        \/ vault_init(u)
        \/ StopServers(u)
        \/ ReadKeys(u)
        \/ StartFails(u)
        \/ Install(u)
        \/ Rollback(u)
        \/ RestartMonitor(u)
    \/ Tick

SessionSpec == SessionInit /\ [][SessionNext]_sessionVars

-----------------------------------------------------------------------------

\* An unlock that still has to start the monitor or to roll back.
Unfinished ==
    \E u \in Unlocker :
        unlockers[u].stage \in
            {"created", "starting", "binding", "installing", "started", "failed"}

Latest(s, t) == IF s > t THEN s ELSE t

\* No unlock outlives its limits unseen: an open session, and a server on a
\* locked vault, have a monitor or an unlock in progress that will have one,
\* and a session that has really exceeded a limit is due for it, whatever
\* writes of the timer were skipped and however unlocks, locks, failed starts
\* and the replacement of the monitor interleave ("a chatty agent must not
\* keep the vault unlocked forever").
SessionsAreWatched ==
    /\ session # 0 \/ servers # 0 => monitor # "none" \/ Unfinished
    /\ session # 0 /\ (\/ now - openedAt >= limits[2]
                       \/ now - Latest(openedAt, lastHuman) >= limits[1]) => due

=============================================================================
