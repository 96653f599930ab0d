-------------------------- MODULE PresenceContract --------------------------
(***************************************************************************)
(* What a caller of PresenceCoordinator::verify may rely on: one native    *)
(* prompt at a time, an attempt answered at most once, and "Verified" only *)
(* for an attempt whose own prompt the user confirmed and that nobody had  *)
(* invalidated by then.                                                    *)
(***************************************************************************)
CONSTANTS Attempt, Denial, None

VARIABLES
  prompt,     \* the attempt whose prompt is open
  confirmed,  \* attempts whose prompt ended with a confirmation
  cancelled,  \* attempts invalidated, expired or dropped
  answer      \* what verify returned

Init ==
  /\ prompt = None
  /\ confirmed = {}
  /\ cancelled = {}
  /\ answer = [a \in Attempt |-> None]

Open(a) ==
  /\ prompt = None
  /\ a \notin confirmed
  /\ prompt' = a
  /\ UNCHANGED <<confirmed, cancelled, answer>>

Close(a) ==
  /\ prompt = a
  /\ prompt' = None
  /\ confirmed' \in {confirmed, confirmed \cup {a}}
  /\ UNCHANGED <<cancelled, answer>>

Cancel(a) ==
  /\ cancelled' = cancelled \cup {a}
  /\ UNCHANGED <<prompt, confirmed, answer>>

Verify(a) ==
  /\ answer[a] = None
  /\ a \in confirmed \ cancelled
  /\ answer' = [answer EXCEPT ![a] = "Verified"]
  /\ UNCHANGED <<prompt, confirmed, cancelled>>

Deny(a, d) ==
  /\ answer[a] = None
  /\ answer' = [answer EXCEPT ![a] = d]
  /\ cancelled' \in {cancelled, cancelled \cup {a}}
  /\ UNCHANGED <<prompt, confirmed>>

Next ==
  \E a \in Attempt :
    \/ Open(a) \/ Close(a) \/ Cancel(a) \/ Verify(a)
    \/ \E d \in Denial : Deny(a, d)

Spec == Init /\ [][Next]_<<prompt, confirmed, cancelled, answer>>
=============================================================================
