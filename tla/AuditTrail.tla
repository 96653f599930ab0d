----------------------------- MODULE AuditTrail -----------------------------
(***************************************************************************)
(* What an audit log promises its callers, whatever files it keeps: one    *)
(* append-only sequence of events.  An event enters it only after a caller *)
(* submitted it, enters it once, and never leaves; a caller is told Ok     *)
(* only of an event that is in it.                                         *)
(***************************************************************************)
EXTENDS Naturals, Sequences

CONSTANT Event

VARIABLES
  submitted,   \* events some caller handed to record()
  log,         \* the committed events, in order
  acked        \* the events whose callers were told Ok

trailVars == <<submitted, log, acked>>

Committed == {log[k] : k \in 1..Len(log)}

TrailInit ==
  /\ submitted = {}
  /\ log = <<>>
  /\ acked = {}

Submit(e) ==
  /\ e \notin submitted
  /\ submitted' = submitted \cup {e}
  /\ UNCHANGED <<log, acked>>

Commit(e) ==
  /\ e \in submitted \ Committed
  /\ log' = Append(log, e)
  /\ UNCHANGED <<submitted, acked>>

Acknowledge(e) ==
  /\ e \in Committed
  /\ acked' = acked \cup {e}
  /\ UNCHANGED <<submitted, log>>

TrailNext ==
  \E e \in Event : Submit(e) \/ Commit(e) \/ Acknowledge(e)

TrailSpec == TrailInit /\ [][TrailNext]_trailVars
=============================================================================
