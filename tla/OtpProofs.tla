----------------------------- MODULE OtpProofs -----------------------------
(***************************************************************************)
(* A protected code is accepted only with a verification of presence made  *)
(* in the same unlock, or in one whose start was rolled back, and the      *)
(* store of challenges keeps its bound, for any number of signatures,      *)
(* requests and reveals in flight.                                         *)
(***************************************************************************)
EXTENDS Otp, FiniteSetTheorems, TLAPS

Locks == [cleared : Nat, rolledBack : Nat]

Challenges ==
    [id : 1 .. MaxIds, protected : BOOLEAN, failed : Nat, expired : BOOLEAN,
     lockout : {"none", "open", "over"},
     gate : {"pending", "authenticated"} \cup Reveal]

OtpTypeOK ==
    /\ store \in [Key -> Challenges \cup {NoChallenge}]
    /\ nextId \in 0 .. MaxIds
    /\ reqs \in [Req -> {Idle} \cup [stage : {"fresh"}, key : Key]]
    /\ reveals \in [Reveal -> {Idle} \cup
          [stage : {"verifying"}, key : Key, id : 1 .. MaxIds, epoch : Nat]]
    /\ vaultOpen \in BOOLEAN
    /\ vaultEpoch \in Nat
    /\ startups \in Nat
    /\ locks \in Locks
    /\ verified \in [1 .. MaxIds -> Nat]
    /\ accepted \in [id : 0 .. MaxIds, protected : BOOLEAN, verified : Nat, epoch : Nat,
                    locks : Locks]

\* Every lock lies in the past, and no open vault is in the epoch of a lock.
LocksArePast ==
    /\ locks.cleared <= vaultEpoch /\ locks.rolledBack <= vaultEpoch
    /\ vaultOpen => locks.cleared < vaultEpoch

\* A presence verified in epoch e still counts: in the unlock that is going on,
\* or past a rollback, and never past a lock that drained the store.
Counts(e) ==
    /\ e > locks.cleared /\ e <= vaultEpoch
    /\ (vaultOpen /\ e = vaultEpoch) \/ e < locks.rolledBack

\* A challenge whose gate is open was verified, and that still counts.
GatesAreOfThisUnlock ==
    \A k \in Key :
        (store[k] # NoChallenge /\ store[k].gate = "authenticated") =>
            Counts(verified[store[k].id])

OtpInv == OtpTypeOK /\ LocksArePast /\ GatesAreOfThisUnlock /\ AcceptedWithPresence

USE DEF otpSession

-----------------------------------------------------------------------------

\* Pruning drops challenges and changes none (prune_expired).
LEMMA PrunedFacts ==
    ASSUME OtpTypeOK
    PROVE  /\ pruned(store) \in [Key -> Challenges \cup {NoChallenge}]
           /\ \A k \in Key : pruned(store)[k] \in {NoChallenge, store[k]}
BY DEF OtpTypeOK, pruned

\* A wrong code changes no identity and opens no gate (record_failure).
LEMMA FailureFacts ==
    ASSUME NEW chal \in Challenges
    PROVE  /\ record_failure(chal) \in Challenges
           /\ record_failure(chal).id = chal.id
           /\ record_failure(chal).gate \in {"pending", chal.gate}
<1>1. chal.failed + 1 \in Nat
  BY DEF Challenges
<1>2. CASE chal.failed + 1 >= MaxAttempts
  BY <1>1, <1>2 DEF record_failure, Challenges
<1>3. CASE ~(chal.failed + 1 >= MaxAttempts)
  BY <1>1, <1>3 DEF record_failure, Challenges
<1> QED BY <1>2, <1>3

\* A step that only drops challenges, or leaves them as they are, keeps the
\* gates, whatever it does to requests and reveals.
LEMMA DroppingKeepsGates ==
    ASSUME OtpInv,
           \A k \in Key : store'[k] \in {NoChallenge, store[k]},
           UNCHANGED <<otpSession, verified>>
    PROVE  GatesAreOfThisUnlock'
BY DEF OtpInv, GatesAreOfThisUnlock, Counts

\* A challenge that is not open may be put in place of another.
LEMMA ReplacingKeepsGates ==
    ASSUME OtpInv, NEW k \in Key, NEW chal,
           \A j \in Key \ {k} : store'[j] \in {NoChallenge, store[j]},
           store'[k] = chal, chal.gate # "authenticated",
           UNCHANGED <<otpSession, verified>>
    PROVE  GatesAreOfThisUnlock'
BY DEF OtpInv, GatesAreOfThisUnlock, Counts

-----------------------------------------------------------------------------
(* One lemma per operation.                                                *)

\* A request without a code (handle_otp) keeps the invariant.
LEMMA RequestWithoutCodeKeeps ==
    ASSUME OtpInv, NEW r \in Req, NEW k \in Key, RequestWithoutCode(r, k)
    PROVE  OtpInv'
<1>1. /\ store' \in [Key -> Challenges \cup {NoChallenge}]
      /\ \A j \in Key : store'[j] \in {NoChallenge, store[j]}
  BY PrunedFacts DEF RequestWithoutCode, OtpInv
<1>2. OtpTypeOK'
  BY <1>1 DEF OtpInv, OtpTypeOK, RequestWithoutCode
<1>3. GatesAreOfThisUnlock'
  BY <1>1, DroppingKeepsGates DEF RequestWithoutCode
<1> QED BY <1>2, <1>3 DEF OtpInv, LocksArePast, AcceptedWithPresence, RequestWithoutCode

\* An answer with a code, accepted or counted as a failure, keeps the invariant.
LEMMA RequestWithCodeKeeps ==
    ASSUME OtpInv, NEW r \in Req, NEW k \in Key, NEW code, RequestWithCode(r, k, code)
    PROVE  OtpInv'
<1> DEFINE s == pruned(store)
           chal == s[k]
<1>1. /\ s \in [Key -> Challenges \cup {NoChallenge}]
      /\ \A j \in Key : s[j] \in {NoChallenge, store[j]}
  BY PrunedFacts DEF OtpInv
<1>2. UNCHANGED <<nextId, reveals, otpSession, verified>>
  BY DEF RequestWithCode
<1>a. chal # NoChallenge => chal \in Challenges /\ chal = store[k]
  BY <1>1
<1>3. CASE /\ store' = s
           /\ reqs' \in {reqs, [reqs EXCEPT ![r] = [stage |-> "fresh", key |-> k]]}
           /\ accepted' = accepted
  <2>1. OtpTypeOK'
    BY <1>1, <1>2, <1>3 DEF OtpInv, OtpTypeOK
  <2>2. GatesAreOfThisUnlock'
    BY <1>1, <1>2, <1>3, DroppingKeepsGates
  <2> QED BY <1>2, <1>3, <2>1, <2>2 DEF OtpInv, LocksArePast, AcceptedWithPresence
<1>4. CASE /\ chal # NoChallenge /\ validate(chal, code) /\ vaultOpen
           /\ store' = [s EXCEPT ![k] = NoChallenge]
           /\ accepted' = [id |-> chal.id, protected |-> chal.protected,
                           verified |-> verified[chal.id], epoch |-> vaultEpoch,
                           locks |-> locks]
           /\ reqs' = reqs
  <2>1. chal \in Challenges /\ chal = store[k]
    BY <1>4, <1>a
  <2>2. chal.id \in 1 .. MaxIds /\ chal.protected \in BOOLEAN
    BY <2>1 DEF Challenges
  <2>3. accepted' \in [id : 0 .. MaxIds, protected : BOOLEAN, verified : Nat, epoch : Nat,
                    locks : Locks]
    BY <1>4, <2>2, OtpAssumption DEF OtpInv, OtpTypeOK
  <2>4. OtpTypeOK'
    BY <1>1, <1>2, <1>4, <2>3 DEF OtpInv, OtpTypeOK
  <2>5. GatesAreOfThisUnlock'
    BY <1>1, <1>2, <1>4, DroppingKeepsGates
  <2>6. chal.protected => Counts(verified[chal.id])
    BY <1>4, <2>1 DEF validate, OtpInv, GatesAreOfThisUnlock
  <2>7. AcceptedWithPresence'
    BY <1>4, <2>6 DEF AcceptedWithPresence, Counts
  <2> QED BY <1>2, <2>4, <2>5, <2>7 DEF OtpInv, LocksArePast
<1>5. CASE /\ chal # NoChallenge /\ store' = [s EXCEPT ![k] = record_failure(chal)]
           /\ reqs' = reqs /\ accepted' = accepted
  <2>1. chal \in Challenges /\ chal = store[k]
    BY <1>5, <1>a
  <2>2. /\ record_failure(chal) \in Challenges
        /\ record_failure(chal).id = chal.id
        /\ record_failure(chal).gate \in {"pending", chal.gate}
    BY <2>1, FailureFacts
  <2>3. OtpTypeOK'
    BY <1>1, <1>2, <1>5, <2>2 DEF OtpInv, OtpTypeOK
  <2>4. GatesAreOfThisUnlock'
    BY <1>1, <1>2, <1>5, <2>1, <2>2 DEF OtpInv, GatesAreOfThisUnlock, Counts
  <2> QED BY <1>2, <1>5, <2>3, <2>4 DEF OtpInv, LocksArePast, AcceptedWithPresence
<1> QED BY <1>3, <1>4, <1>5 DEF RequestWithCode

\* A fresh challenge (handle_otp_fresh) keeps the invariant: it starts closed.
LEMMA IssueFreshKeeps ==
    ASSUME OtpInv, NEW r \in Req, NEW protected \in BOOLEAN, IssueFresh(r, protected)
    PROVE  OtpInv'
<1> DEFINE s == pruned(store)
           k == reqs[r].key
           chal == Challenge(nextId', protected)
<1>1. /\ s \in [Key -> Challenges \cup {NoChallenge}]
      /\ \A j \in Key : s[j] \in {NoChallenge, store[j]}
  BY PrunedFacts DEF OtpInv
<1>2. k \in Key
  BY DEF OtpInv, OtpTypeOK, IssueFresh, Idle
<1>3. nextId' \in 1 .. MaxIds
  BY OtpAssumption DEF OtpInv, OtpTypeOK, IssueFresh
<1>4. chal \in Challenges /\ chal.gate = "pending"
  BY <1>3 DEF Challenge, Challenges
<1>5. store' \in {s, [s EXCEPT ![k] = chal]}
  BY DEF IssueFresh
<1>6. OtpTypeOK'
  <2>1. store' \in [Key -> Challenges \cup {NoChallenge}]
    BY <1>1, <1>2, <1>4, <1>5
  <2> QED BY <1>3, <2>1 DEF OtpInv, OtpTypeOK, IssueFresh
<1>7. GatesAreOfThisUnlock'
  <2>1. CASE store' = s
    BY <1>1, <2>1, DroppingKeepsGates DEF IssueFresh
  <2>2. CASE store' = [s EXCEPT ![k] = chal]
    <3>1. store'[k] = chal /\ \A j \in Key \ {k} : store'[j] \in {NoChallenge, store[j]}
      BY <1>1, <1>2, <2>2
    <3> QED BY <1>2, <1>4, <3>1, ReplacingKeepsGates DEF IssueFresh
  <2> QED BY <1>5, <2>1, <2>2
<1> QED BY <1>6, <1>7 DEF OtpInv, LocksArePast, AcceptedWithPresence, IssueFresh

\* The start of a reveal keeps the invariant: it opens no gate.
LEMMA BeginRevealKeeps ==
    ASSUME OtpInv, NEW v \in Reveal, NEW k \in Key, BeginReveal(v, k)
    PROVE  OtpInv'
<1> DEFINE s == pruned(store)
           chal == [s[k] EXCEPT !.gate = v]
<1>1. /\ s \in [Key -> Challenges \cup {NoChallenge}]
      /\ \A j \in Key : s[j] \in {NoChallenge, store[j]}
  BY PrunedFacts DEF OtpInv
<1>2. s[k] \in Challenges
  BY <1>1 DEF BeginReveal
<1>3. chal \in Challenges /\ chal.gate # "authenticated"
  BY <1>2, OtpAssumption DEF Challenges
<1>4. store' = [s EXCEPT ![k] = chal]
  BY DEF BeginReveal
<1>5. OtpTypeOK'
  <2>1. store' \in [Key -> Challenges \cup {NoChallenge}]
    BY <1>1, <1>3, <1>4
  <2>2. s[k].id \in 1 .. MaxIds
    BY <1>2 DEF Challenges
  <2> QED BY <2>1, <2>2 DEF OtpInv, OtpTypeOK, BeginReveal
<1>6. GatesAreOfThisUnlock'
  <2>1. store'[k] = chal /\ \A j \in Key \ {k} : store'[j] \in {NoChallenge, store[j]}
    BY <1>1, <1>4
  <2> QED BY <1>3, <2>1, ReplacingKeepsGates DEF BeginReveal
<1> QED BY <1>5, <1>6 DEF OtpInv, LocksArePast, AcceptedWithPresence, BeginReveal

\* The end of a reveal keeps the invariant: the epoch is compared under the handle.
LEMMA FinishRevealKeeps ==
    ASSUME OtpInv, NEW v \in Reveal, NEW outcome, FinishReveal(v, outcome)
    PROVE  OtpInv'
<1> DEFINE k == reveals[v].key
           chal == store[k]
<1>1. k \in Key
  BY DEF OtpInv, OtpTypeOK, FinishReveal, Idle
<1>2. /\ reveals' = [reveals EXCEPT ![v] = Idle]
      /\ UNCHANGED <<nextId, reqs, otpSession, accepted>>
  BY DEF FinishReveal
<1>3. CASE /\ store' \in {store, [store EXCEPT ![k] = NoChallenge]}
           /\ verified' = verified
  <2>1. /\ store' \in [Key -> Challenges \cup {NoChallenge}]
        /\ \A j \in Key : store'[j] \in {NoChallenge, store[j]}
    BY <1>1, <1>3 DEF OtpInv, OtpTypeOK
  <2>2. OtpTypeOK'
    BY <1>2, <1>3, <2>1 DEF OtpInv, OtpTypeOK
  <2>3. GatesAreOfThisUnlock'
    BY <1>2, <1>3, <2>1, DroppingKeepsGates
  <2> QED BY <1>2, <2>2, <2>3 DEF OtpInv, LocksArePast, AcceptedWithPresence
<1>4. CASE /\ chal # NoChallenge
           /\ store' = [store EXCEPT ![k].gate = "pending"]
           /\ verified' = verified
  <2> DEFINE closed == [chal EXCEPT !.gate = "pending"]
  <2>0. chal \in Challenges
    BY <1>1, <1>4 DEF OtpInv, OtpTypeOK
  <2>1. closed \in Challenges /\ closed.gate = "pending"
    BY <2>0 DEF Challenges
  <2>2. store' = [store EXCEPT ![k] = closed]
    BY <1>4
  <2>3. /\ store' \in [Key -> Challenges \cup {NoChallenge}]
        /\ store'[k] = closed
        /\ \A j \in Key \ {k} : store'[j] = store[j]
    BY <1>1, <2>1, <2>2 DEF OtpInv, OtpTypeOK
  <2>4. OtpTypeOK'
    BY <1>2, <1>4, <2>3 DEF OtpInv, OtpTypeOK
  <2>5. GatesAreOfThisUnlock'
    BY <1>1, <1>2, <1>4, <2>1, <2>3, ReplacingKeepsGates
  <2> QED BY <1>2, <2>4, <2>5 DEF OtpInv, LocksArePast, AcceptedWithPresence
<1>5. CASE /\ chal # NoChallenge /\ vaultOpen
           /\ store' = [store EXCEPT ![k].gate = "authenticated"]
           /\ verified' = [verified EXCEPT ![chal.id] = vaultEpoch]
  <2> DEFINE released == [chal EXCEPT !.gate = "authenticated"]
  <2>1. chal \in Challenges
    BY <1>1, <1>5 DEF OtpInv, OtpTypeOK
  <2>2. released \in Challenges /\ released.id = chal.id /\ chal.id \in 1 .. MaxIds
    BY <2>1 DEF Challenges
  <2>3. store' = [store EXCEPT ![k] = released]
    BY <1>5
  <2>4. /\ store' \in [Key -> Challenges \cup {NoChallenge}]
        /\ store'[k] = released
        /\ \A j \in Key \ {k} : store'[j] = store[j]
    BY <1>1, <2>2, <2>3 DEF OtpInv, OtpTypeOK
  <2>5. /\ verified' \in [1 .. MaxIds -> Nat]
        /\ verified'[chal.id] = vaultEpoch
        /\ \A i \in 1 .. MaxIds : verified'[i] \in {verified[i], vaultEpoch}
    BY <1>5, <2>2 DEF OtpInv, OtpTypeOK
  <2>6. OtpTypeOK'
    BY <1>2, <2>4, <2>5 DEF OtpInv, OtpTypeOK
  <2>7. GatesAreOfThisUnlock'
    <3>0. Counts(vaultEpoch)
      BY <1>5 DEF OtpInv, OtpTypeOK, LocksArePast, Counts
    <3>1. SUFFICES ASSUME NEW j \in Key, store'[j] # NoChallenge,
                          store'[j].gate = "authenticated"
                   PROVE  Counts(verified'[store'[j].id])
      BY <1>2, <1>5 DEF GatesAreOfThisUnlock, Counts, otpSession
    <3>2. CASE j = k
      BY <2>2, <2>4, <2>5, <3>0, <3>2
    <3>3. CASE j # k
      <4>1. store'[j] = store[j] /\ Counts(verified[store[j].id])
        BY <2>4, <3>1, <3>3 DEF OtpInv, GatesAreOfThisUnlock
      <4>2. store[j].id \in 1 .. MaxIds
        BY <3>1, <4>1 DEF OtpInv, OtpTypeOK, Challenges
      <4> QED BY <2>5, <3>0, <4>1, <4>2
    <3> QED BY <3>2, <3>3
  <2> QED BY <1>2, <2>6, <2>7 DEF OtpInv, LocksArePast, AcceptedWithPresence
<1> QED BY <1>3, <1>4, <1>5 DEF FinishReveal

\* Time and the timer of a card close codes and open nothing.
LEMMA TimeKeeps ==
    ASSUME OtpInv, NEW k \in Key, Expire(k) \/ LockoutEnds(k) \/ CloseExpired(k)
    PROVE  OtpInv'
<1>1. store[k] # NoChallenge /\ store[k] \in Challenges
  BY DEF OtpInv, OtpTypeOK, Expire, LockoutEnds, CloseExpired
<1>2. UNCHANGED <<nextId, reqs, reveals, otpSession, verified, accepted>>
  BY DEF Expire, LockoutEnds, CloseExpired
<1>3. PICK chal \in Challenges \cup {NoChallenge} :
        /\ store' = [store EXCEPT ![k] = chal]
        /\ chal # NoChallenge => chal.gate = store[k].gate /\ chal.id = store[k].id
  <2>1. CASE Expire(k)
    <3>1. store' = [store EXCEPT ![k] = [store[k] EXCEPT !.expired = TRUE]]
      BY <2>1 DEF Expire
    <3>2. [store[k] EXCEPT !.expired = TRUE] \in Challenges
      BY <1>1 DEF Challenges
    <3>3. /\ [store[k] EXCEPT !.expired = TRUE].gate = store[k].gate
          /\ [store[k] EXCEPT !.expired = TRUE].id = store[k].id
      BY <1>1 DEF Challenges
    <3> QED BY <3>1, <3>2, <3>3
  <2>2. CASE LockoutEnds(k)
    <3>1. store' = [store EXCEPT ![k] = [store[k] EXCEPT !.lockout = "over"]]
      BY <2>2 DEF LockoutEnds
    <3>2. [store[k] EXCEPT !.lockout = "over"] \in Challenges
      BY <1>1 DEF Challenges
    <3>3. /\ [store[k] EXCEPT !.lockout = "over"].gate = store[k].gate
          /\ [store[k] EXCEPT !.lockout = "over"].id = store[k].id
      BY <1>1 DEF Challenges
    <3> QED BY <3>1, <3>2, <3>3
  <2>3. CASE CloseExpired(k)
    BY <2>3 DEF CloseExpired
  <2> QED BY <2>1, <2>2, <2>3
<1>4. /\ store' \in [Key -> Challenges \cup {NoChallenge}]
      /\ store'[k] = chal
      /\ \A j \in Key \ {k} : store'[j] = store[j]
  BY <1>3 DEF OtpInv, OtpTypeOK
<1>5. OtpTypeOK'
  BY <1>2, <1>4 DEF OtpInv, OtpTypeOK
<1>6. GatesAreOfThisUnlock'
  BY <1>1, <1>2, <1>3, <1>4 DEF OtpInv, GatesAreOfThisUnlock, Counts
<1> QED BY <1>2, <1>5, <1>6 DEF OtpInv, LocksArePast, AcceptedWithPresence

\* Locks, unlocks and rollbacks keep the invariant: a lock drains the store, and
\* what a rollback leaves in it was verified before the rollback.
LEMMA SessionKeeps ==
    ASSUME OtpInv, OtpLock \/ OtpUnlock \/ OtpServed \/ OtpRollback
    PROVE  OtpInv'
<1>1. UNCHANGED <<nextId, reqs, reveals, verified, accepted>>
  BY DEF OtpLock, OtpUnlock, OtpServed, OtpRollback
<1>2. /\ vaultEpoch \in Nat /\ startups \in Nat /\ locks \in Locks
      /\ locks.cleared \in Nat /\ locks.rolledBack \in Nat
      /\ verified \in [1 .. MaxIds -> Nat]
      /\ store \in [Key -> Challenges \cup {NoChallenge}]
  BY DEF OtpInv, OtpTypeOK, Locks
<1>3. AcceptedWithPresence'
  BY <1>1 DEF OtpInv, AcceptedWithPresence
<1>4. ASSUME OtpTypeOK', LocksArePast', GatesAreOfThisUnlock' PROVE OtpInv'
  BY <1>3, <1>4 DEF OtpInv
<1>5. ASSUME /\ vaultEpoch' \in Nat /\ startups' \in Nat /\ locks' \in Locks /\ vaultOpen' \in BOOLEAN
             /\ store' \in [Key -> Challenges \cup {NoChallenge}]
      PROVE  OtpTypeOK'
  BY <1>1, <1>5 DEF OtpInv, OtpTypeOK
<1>6. \A k \in Key : store[k] # NoChallenge => verified[store[k].id] \in Nat
  BY <1>2 DEF Challenges
<1>7. CASE OtpLock
  <2>1. /\ vaultEpoch' = vaultEpoch + 1 /\ vaultOpen' = FALSE /\ startups' = startups
        /\ locks' = [locks EXCEPT !.cleared = vaultEpoch + 1]
        /\ store' = [k \in Key |-> NoChallenge]
    BY <1>7 DEF OtpLock
  <2>2. locks' \in Locks /\ locks'.cleared = vaultEpoch + 1 /\ locks'.rolledBack = locks.rolledBack
    BY <1>2, <2>1 DEF Locks
  <2>0. vaultEpoch' \in Nat /\ startups' \in Nat /\ store' \in [Key -> Challenges \cup {NoChallenge}]
    BY <1>2, <2>1
  <2>9. vaultOpen' \in BOOLEAN
    BY <2>1
  <2>3. OtpTypeOK'
    BY <1>5, <2>0, <2>2, <2>9
  <2>4. LocksArePast'
    BY <1>2, <2>1, <2>2 DEF OtpInv, LocksArePast
  <2>5. GatesAreOfThisUnlock'
    BY <2>1 DEF GatesAreOfThisUnlock
  <2> QED BY <1>4, <2>3, <2>4, <2>5
<1>8. CASE OtpUnlock
  <2>1. /\ ~vaultOpen /\ vaultEpoch' = vaultEpoch + 1 /\ vaultOpen' = TRUE
        /\ startups' = startups + 1 /\ locks' = locks /\ store' = store
    BY <1>8 DEF OtpUnlock
  <2>2. OtpTypeOK'
    BY <1>2, <1>5, <2>1
  <2>3. LocksArePast'
    BY <1>2, <2>1 DEF OtpInv, LocksArePast
  <2>4. \A e \in Nat : Counts(e) => Counts(e)'
    BY <1>2, <2>1 DEF Counts
  <2>5. GatesAreOfThisUnlock'
    BY <1>1, <1>6, <2>1, <2>4 DEF OtpInv, GatesAreOfThisUnlock, Counts
  <2> QED BY <1>4, <2>2, <2>3, <2>5
<1>9. CASE OtpServed
  <2>1. startups' \in Nat /\ UNCHANGED <<vaultOpen, vaultEpoch, locks, store>>
    BY <1>2, <1>9 DEF OtpServed
  <2>2. OtpTypeOK'
    BY <2>1, <1>1 DEF OtpInv, OtpTypeOK
  <2>3. LocksArePast' /\ GatesAreOfThisUnlock'
    BY <1>1, <2>1 DEF OtpInv, LocksArePast, GatesAreOfThisUnlock, Counts
  <2> QED BY <1>4, <2>2, <2>3
<1>10. CASE OtpRollback
  <2>1. /\ vaultEpoch' = vaultEpoch + 1 /\ vaultOpen' = FALSE /\ startups' \in Nat
        /\ locks' = [locks EXCEPT !.rolledBack = vaultEpoch + 1] /\ store' = store
    BY <1>2, <1>10 DEF OtpRollback
  <2>2. locks' \in Locks /\ locks'.rolledBack = vaultEpoch + 1 /\ locks'.cleared = locks.cleared
    BY <1>2, <2>1 DEF Locks
  <2>0. vaultEpoch' \in Nat /\ startups' \in Nat /\ store' \in [Key -> Challenges \cup {NoChallenge}]
    BY <1>2, <2>1
  <2>9. vaultOpen' \in BOOLEAN
    BY <2>1
  <2>3. OtpTypeOK'
    BY <1>5, <2>0, <2>2, <2>9
  <2>4. LocksArePast'
    BY <1>2, <2>1, <2>2 DEF OtpInv, LocksArePast
  <2>5. \A e \in Nat : Counts(e) => Counts(e)'
    BY <1>2, <2>1, <2>2 DEF Counts
  <2>6. GatesAreOfThisUnlock'
    BY <1>1, <1>6, <2>1, <2>5 DEF OtpInv, GatesAreOfThisUnlock, Counts
  <2> QED BY <1>4, <2>3, <2>4, <2>6
<1> QED BY <1>7, <1>8, <1>9, <1>10

-----------------------------------------------------------------------------

\* The inductive invariant holds in every reachable state: types, open gates
\* only in the unlock that opened them or past a rollback, and what acceptance
\* promises.
THEOREM OtpInvariant == OtpSpec => []OtpInv
<1>1. OtpInit => OtpInv
  <2>1. OtpInit => OtpTypeOK
    BY OtpAssumption DEF OtpInit, OtpTypeOK, Locks
  <2> QED BY <2>1 DEF OtpInit, OtpInv, LocksArePast, GatesAreOfThisUnlock, AcceptedWithPresence
<1>2. OtpInv /\ [OtpNext]_otpVars => OtpInv'
  <2> SUFFICES ASSUME OtpInv, [OtpNext]_otpVars PROVE OtpInv'
    OBVIOUS
  <2>1. ASSUME NEW r \in Req, NEW k \in Key, RequestWithoutCode(r, k) PROVE OtpInv'
    BY <2>1, RequestWithoutCodeKeeps
  <2>2. ASSUME NEW r \in Req, NEW k \in Key, NEW code, RequestWithCode(r, k, code)
        PROVE  OtpInv'
    BY <2>2, RequestWithCodeKeeps
  <2>3. ASSUME NEW r \in Req, NEW p \in BOOLEAN, IssueFresh(r, p) PROVE OtpInv'
    BY <2>3, IssueFreshKeeps
  <2>4. ASSUME NEW v \in Reveal, NEW k \in Key, BeginReveal(v, k) PROVE OtpInv'
    BY <2>4, BeginRevealKeeps
  <2>5. ASSUME NEW v \in Reveal, NEW outcome, FinishReveal(v, outcome) PROVE OtpInv'
    BY <2>5, FinishRevealKeeps
  <2>6. ASSUME NEW k \in Key, Expire(k) \/ LockoutEnds(k) \/ CloseExpired(k)
        PROVE  OtpInv'
    BY <2>6, TimeKeeps
  <2>7. CASE OtpLock \/ OtpUnlock \/ OtpServed \/ OtpRollback
    BY <2>7, SessionKeeps
  <2>9. CASE UNCHANGED otpVars
    BY <2>9 DEF otpVars, OtpInv, OtpTypeOK, LocksArePast, GatesAreOfThisUnlock, Counts,
                AcceptedWithPresence
  <2> QED BY <2>1, <2>2, <2>3, <2>4, <2>5, <2>6, <2>7, <2>9 DEF OtpNext
<1> QED BY <1>1, <1>2, PTL DEF OtpSpec

\* The code of a protected challenge is accepted only with a verification of
\* presence made for it since the last lock that drained the store, and in the
\* same unlock or in one that was rolled back (handle_otp, reveal_otp,
\* rollback_unlock).
THEOREM OtpAcceptedWithPresence == OtpSpec => []AcceptedWithPresence
BY OtpInvariant, PTL DEF OtpInv

-----------------------------------------------------------------------------
(* The bound on the store.                                                 *)

\* There are finitely many pending challenges.
LEMMA PendingFinite == IsFiniteSet(Pending)
BY OtpAssumption, FS_Subset DEF Pending

\* A step that issues nothing keeps the bound.
LEMMA FewerPending ==
    ASSUME PendingChallengesBounded,
           \A k \in Key : store'[k] # NoChallenge => store[k] # NoChallenge
    PROVE  PendingChallengesBounded'
<1>1. Pending' \subseteq Pending
  BY DEF Pending
<1>2. IsFiniteSet(Pending') /\ Cardinality(Pending') <= Cardinality(Pending)
  BY <1>1, PendingFinite, FS_Subset
<1>3. Cardinality(Pending') \in Nat /\ Cardinality(Pending) \in Nat
  BY <1>2, PendingFinite, FS_CardinalityType
<1> QED BY <1>2, <1>3, OtpAssumption DEF PendingChallengesBounded

\* A fresh challenge takes the place of one, or there was room for it when it
\* was inserted (handle_otp_fresh looks at the bound again).
LEMMA IssueKeepsBound ==
    ASSUME OtpTypeOK, PendingChallengesBounded,
           NEW r \in Req, NEW protected \in BOOLEAN, IssueFresh(r, protected)
    PROVE  PendingChallengesBounded'
<1> DEFINE s == pruned(store)
           k == reqs[r].key
           P == {j \in Key : s[j] # NoChallenge}
<1>1. /\ s \in [Key -> Challenges \cup {NoChallenge}]
      /\ \A j \in Key : s[j] \in {NoChallenge, store[j]}
  BY PrunedFacts
<1>2. k \in Key
  BY DEF OtpTypeOK, IssueFresh, Idle
<1>3. store' = IF can_admit_challenge(s, k)
               THEN [s EXCEPT ![k] = Challenge(nextId', protected)] ELSE s
  BY DEF IssueFresh
<1>4. CASE ~can_admit_challenge(s, k)
  <2>1. store' = s
    BY <1>3, <1>4
  <2> QED BY <1>1, <2>1, FewerPending
<1>5. CASE s[k] # NoChallenge /\ can_admit_challenge(s, k)
  <2>1. store[k] # NoChallenge
    BY <1>1, <1>2, <1>5
  <2>2. \A j \in Key \ {k} : store'[j] = s[j]
    BY <1>1, <1>2, <1>3, <1>5
  <2>3. \A j \in Key : store'[j] # NoChallenge => store[j] # NoChallenge
    BY <1>1, <2>1, <2>2
  <2> QED BY <2>3, FewerPending
<1>6. CASE s[k] = NoChallenge /\ can_admit_challenge(s, k)
  <2>1. Cardinality(P) < MaxPending
    BY <1>6 DEF can_admit_challenge
  <2>2. IsFiniteSet(P) /\ Cardinality(P) \in Nat
    BY OtpAssumption, FS_Subset, FS_CardinalityType
  <2>3. Pending' \subseteq P \cup {k}
    <3>1. \A j \in Key \ {k} : store'[j] = s[j]
      BY <1>1, <1>2, <1>3, <1>6
    <3> QED BY <3>1 DEF Pending
  <2>4. /\ IsFiniteSet(P \cup {k})
        /\ Cardinality(P \cup {k}) \in {Cardinality(P), Cardinality(P) + 1}
    BY <2>2, FS_AddElement
  <2>5. IsFiniteSet(Pending') /\ Cardinality(Pending') <= Cardinality(P \cup {k})
    BY <2>3, <2>4, FS_Subset
  <2>6. Cardinality(Pending') \in Nat
    BY <2>5, FS_CardinalityType
  <2> QED BY <2>1, <2>2, <2>4, <2>5, <2>6, OtpAssumption DEF PendingChallengesBounded
<1> QED BY <1>4, <1>5, <1>6

\* The store of challenges never exceeds OTP_MAX_PENDING, whatever the number
\* of requests between admission and insertion (handle_otp_fresh).
THEOREM OtpPendingBounded == OtpSpec => []PendingChallengesBounded
<1>1. OtpInit => PendingChallengesBounded
  <2> SUFFICES ASSUME OtpInit PROVE PendingChallengesBounded
    OBVIOUS
  <2>1. Pending = {}
    BY DEF OtpInit, Pending
  <2> QED BY <2>1, FS_EmptySet, OtpAssumption DEF PendingChallengesBounded
<1>2. OtpInv /\ PendingChallengesBounded /\ [OtpNext]_otpVars
        => PendingChallengesBounded'
  <2> SUFFICES ASSUME OtpInv, PendingChallengesBounded, [OtpNext]_otpVars
               PROVE  PendingChallengesBounded'
    OBVIOUS
  <2>0. /\ store \in [Key -> Challenges \cup {NoChallenge}]
        /\ pruned(store) \in [Key -> Challenges \cup {NoChallenge}]
        /\ \A k \in Key : pruned(store)[k] \in {NoChallenge, store[k]}
    BY PrunedFacts DEF OtpInv, OtpTypeOK
  <2>1. ASSUME NEW r \in Req, NEW k \in Key, RequestWithoutCode(r, k)
        PROVE  PendingChallengesBounded'
    BY <2>0, <2>1, FewerPending DEF RequestWithoutCode
  <2>2. ASSUME NEW r \in Req, NEW k \in Key, NEW code, RequestWithCode(r, k, code)
        PROVE  PendingChallengesBounded'
    <3>1. \/ store' = pruned(store)
          \/ store' = [pruned(store) EXCEPT ![k] = NoChallenge]
          \/ /\ pruned(store)[k] # NoChallenge
             /\ store' = [pruned(store) EXCEPT ![k] = record_failure(pruned(store)[k])]
      BY <2>2 DEF RequestWithCode
    <3>2. \A j \in Key : store'[j] # NoChallenge => store[j] # NoChallenge
      BY <2>0, <3>1
    <3> QED BY <3>2, FewerPending
  <2>3. ASSUME NEW r \in Req, NEW p \in BOOLEAN, IssueFresh(r, p)
        PROVE  PendingChallengesBounded'
    BY <2>3, IssueKeepsBound DEF OtpInv
  <2>4. ASSUME NEW v \in Reveal, NEW k \in Key, BeginReveal(v, k)
        PROVE  PendingChallengesBounded'
    <3>1. /\ pruned(store)[k] # NoChallenge
          /\ store' = [pruned(store) EXCEPT ![k] = [pruned(store)[k] EXCEPT !.gate = v]]
      BY <2>4 DEF BeginReveal
    <3>2. \A j \in Key : store'[j] # NoChallenge => store[j] # NoChallenge
      BY <2>0, <3>1
    <3> QED BY <3>2, FewerPending
  <2>5. ASSUME NEW v \in Reveal, NEW outcome, FinishReveal(v, outcome)
        PROVE  PendingChallengesBounded'
    <3> DEFINE k == reveals[v].key
    <3>1. \/ store' = store
          \/ store' = [store EXCEPT ![k] = NoChallenge]
          \/ \E g : /\ store[k] # NoChallenge
                   /\ store' = [store EXCEPT ![k] = [store[k] EXCEPT !.gate = g]]
      BY <2>5 DEF FinishReveal
    <3>2. \A j \in Key : store'[j] # NoChallenge => store[j] # NoChallenge
      BY <2>0, <3>1
    <3> QED BY <3>2, FewerPending
  <2>6. ASSUME NEW k \in Key, Expire(k) \/ LockoutEnds(k) \/ CloseExpired(k)
        PROVE  PendingChallengesBounded'
    <3>1. /\ store[k] # NoChallenge
          /\ \E chal : store' = [store EXCEPT ![k] = chal]
      BY <2>6 DEF Expire, LockoutEnds, CloseExpired
    <3>2. \A j \in Key : store'[j] # NoChallenge => store[j] # NoChallenge
      BY <2>0, <3>1
    <3> QED BY <3>2, FewerPending
  <2>7. CASE OtpLock
    BY <2>7, FewerPending DEF OtpLock
  <2>8. CASE OtpUnlock \/ OtpServed \/ OtpRollback \/ UNCHANGED otpVars
    BY <2>8, FewerPending DEF OtpUnlock, OtpServed, OtpRollback, otpVars
  <2> QED BY <2>1, <2>2, <2>3, <2>4, <2>5, <2>6, <2>7, <2>8 DEF OtpNext
<1> QED BY <1>1, <1>2, OtpInvariant, PTL DEF OtpSpec
=============================================================================
