------------------------- MODULE MCDesktopApprovals -------------------------
(* DesktopApprovals with interchangeable calls.                            *)
EXTENDS DesktopApprovals, TLC

Symmetry == Permutations(Call)

\* Only calls of one kind meet in a signature, so only such are made together.
OneKind ==
  \A c, d \in Call : kind[c] # None /\ kind[d] # None => kind[c] = kind[d]

\* Once every call has ended, with its prompt and its records, what the session
\* does is of no further interest.
Unfinished ==
  \E c \in Call : pc[c] # "done" \/ gate[c] = "Verifying" \/ after[c] # "none"
                  \/ c \in pending

(* What the run tells apart.  In the last epoch of the bound an unlock can *)
(* no longer be rolled back, and how many are starting makes no            *)
(* difference.  The epoch a call captured is only compared with the        *)
(* current one, which never returns to it.  The other parts of the state   *)
(* are left out once no action and no property of the run reads them.      *)

\* Somebody still looks at the deadline of c.
DeadlineCounts(c) ==
  \/ \E d \in Call : owner[d] = c /\
       \/ d \in pending \/ UnderWay(d) \/ resp[d] = "verifying"
       \/ gate[d] = "Verifying"
       \/ pc[d] \in {"asking", "superseding", "emitting", "mirroring", "waiting"}
  \/ \E key \in DOMAIN ops : ops[key] # None /\ ops[key].id = c

\* Of a prompt that the call is past, that it is over and whether it verified.
PromptOf(c) ==
  IF Gated(c) /\ pc[c] # "prompting" /\ resp[c] \in {"Retryable", "Denied"}
  THEN "over" ELSE resp[c]

Look ==
  <<unlocked, epoch, locker, IF epoch = MaxEpoch THEN 0 ELSE starting, seen,
    kind, sig, prot, owner, pc, pending, gate, old, sent, after, ops, log, lost,
    tray \cap pending,
    [c \in Call |-> PromptOf(c)],
    {c \in Call : expired[c] /\ DeadlineCounts(c)},
    {c \in Call : cancelled[c] /\ (resp[c] = "verifying" \/ UnderWay(c))},
    {c \in Call : saw[c] = epoch /\ pc[c] # "done"},
    {c \in Call : ran[c] # None}>>
=============================================================================
