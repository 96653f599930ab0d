-------------------------------- MODULE Otp --------------------------------
(***************************************************************************)
(* One-time codes of the desktop: an agent's request that needs a code is  *)
(* answered with otp_required while the code goes to the screen, at once   *)
(* or, on a machine that can verify a person's presence, after such a      *)
(* verification; the agent then sends the same request with the code. The  *)
(* store of challenges is behind one lock, which a request that needs a    *)
(* fresh challenge gives back and takes again, and a reveal holds before   *)
(* and after its verification but not during it.                           *)
(***************************************************************************)
EXTENDS Integers, FiniteSets

CONSTANTS
    Key,            \* request signatures
    Req,            \* requests in flight
    Reveal,         \* reveals in flight
    MaxAttempts,    \* OTP_MAX_ATTEMPTS
    MaxPending,     \* OTP_MAX_PENDING
    MaxIds,         \* bound on the challenges issued
    MaxOtpEpoch,    \* bound on the unlocks
    NoChallenge

ASSUME OtpAssumption ==
    /\ MaxAttempts \in Nat \ {0}
    /\ MaxPending \in Nat \ {0}
    /\ MaxIds \in Nat /\ MaxOtpEpoch \in Nat
    /\ IsFiniteSet(Key)
    /\ {"pending", "authenticated"} \cap Reveal = {}

VARIABLES
    store,      \* otp_pending: the challenge of each signature
    nextId,     \* next_id: modal ids, which also stand for the codes
    reqs,       \* requests between their two critical sections
    reveals,    \* reveals whose verification is under way
    vaultOpen, vaultEpoch,  \* the handle, and the epoch of the session timer
    startups,   \* unlocks whose servers are being started
    locks,      \* history: the epochs of the latest lock of each sort
    verified,   \* history: id -> epoch in which presence released its code
    accepted    \* history: the latest acceptance

otpSession == <<vaultOpen, vaultEpoch, startups, locks>>
otpVars ==
    <<store, nextId, reqs, reveals, otpSession, verified, accepted>>

Pending == {k \in Key : store[k] # NoChallenge}
Idle == [stage |-> "idle"]

OtpInit ==
    /\ store = [k \in Key |-> NoChallenge]
    /\ nextId = 0
    /\ reqs = [r \in Req |-> Idle]
    /\ reveals = [v \in Reveal |-> Idle]
    /\ vaultOpen = TRUE
    /\ vaultEpoch = 1 /\ startups = 1
    /\ locks = [cleared |-> 0, rolledBack |-> 0]
    /\ verified = [i \in 1 .. MaxIds |-> 0]
    /\ accepted = [id |-> 0, protected |-> FALSE, verified |-> 0, epoch |-> 0,
                   locks |-> locks]

-----------------------------------------------------------------------------

Challenge(id, protected) ==
    [id |-> id, protected |-> protected, failed |-> 0, expired |-> FALSE,
     lockout |-> "none", gate |-> "pending"]

is_locked_out(chal) == chal.lockout = "open"

\* prune_expired: an expired challenge stays while its lockout is open.
pruned(s) ==
    [k \in Key |->
        IF s[k] # NoChallenge /\ s[k].expired /\ ~is_locked_out(s[k])
        THEN NoChallenge ELSE s[k]]

\* A plausible fault: the bound is not looked at again.
can_admit_always(s, k) == TRUE

can_admit_challenge(s, k) ==
    s[k] # NoChallenge \/ Cardinality({j \in Key : s[j] # NoChallenge}) < MaxPending

\* A plausible fault: the right code is enough.
validate_code(chal, code) == ~chal.expired /\ code = chal.id

validate(chal, code) ==
    /\ ~chal.expired /\ ~is_locked_out(chal)
    /\ chal.protected => chal.gate = "authenticated"
    /\ code = chal.id

\* A wrong code; the last one locks out, and disqualifies a reveal under way.
record_failure(chal) ==
    IF chal.failed + 1 >= MaxAttempts
    THEN [chal EXCEPT !.failed = @ + 1, !.lockout = "open", !.gate = "pending"]
    ELSE [chal EXCEPT !.failed = @ + 1]

-----------------------------------------------------------------------------

\* handle_otp without a code: an existing challenge is reused or, locked out,
\* denied; otherwise a fresh one is to be issued once the lock is given back.
RequestWithoutCode(r, k) ==
    /\ reqs[r] = Idle
    /\ store' = pruned(store)
    /\ reqs' = IF can_admit_challenge(store', k) /\ store'[k] = NoChallenge
               THEN [reqs EXCEPT ![r] = [stage |-> "fresh", key |-> k]]
               ELSE reqs
    /\ UNCHANGED <<nextId, reveals, otpSession, verified, accepted>>

\* handle_otp with a code, which holds the handle before the store.
RequestWithCode(r, k, code) ==
    /\ reqs[r] = Idle
    /\ LET s == pruned(store)
           chal == s[k]
       IN  \/ /\ chal = NoChallenge
              /\ store' = s
              /\ reqs' = IF can_admit_challenge(s, k)
                         THEN [reqs EXCEPT ![r] = [stage |-> "fresh", key |-> k]]
                         ELSE reqs
              /\ UNCHANGED accepted
           \/ /\ chal # NoChallenge /\ is_locked_out(chal)
              /\ store' = s
              /\ UNCHANGED <<reqs, accepted>>
           \/ /\ chal # NoChallenge /\ ~is_locked_out(chal) /\ validate(chal, code)
              /\ IF vaultOpen
                 THEN /\ store' = [s EXCEPT ![k] = NoChallenge]
                      /\ accepted' = [id |-> chal.id, protected |-> chal.protected,
                                      verified |-> verified[chal.id],
                                      epoch |-> vaultEpoch, locks |-> locks]
                 ELSE store' = s /\ UNCHANGED accepted
              /\ UNCHANGED reqs
           \/ /\ chal # NoChallenge /\ ~is_locked_out(chal) /\ ~validate(chal, code)
              /\ store' = [s EXCEPT ![k] = record_failure(chal)]
              /\ UNCHANGED <<reqs, accepted>>
    /\ UNCHANGED <<nextId, reveals, otpSession, verified>>

\* handle_otp_fresh: whatever is in the store for this signature by now is
\* replaced. A machine without presence shows the code at once.
IssueFresh(r, protected) ==
    /\ reqs[r].stage = "fresh"
    /\ nextId < MaxIds
    /\ nextId' = nextId + 1
    /\ LET s == pruned(store)
           k == reqs[r].key
       IN  store' = IF can_admit_challenge(s, k)
                    THEN [s EXCEPT ![k] = Challenge(nextId', protected)]
                    ELSE s
    /\ reqs' = [reqs EXCEPT ![r] = Idle]
    /\ UNCHANGED <<reveals, otpSession, verified, accepted>>

-----------------------------------------------------------------------------

\* reveal_otp up to the verification; gate.begin refuses a second attempt.
BeginReveal(v, k) ==
    /\ reveals[v] = Idle
    /\ LET s == pruned(store)
       IN  /\ s[k] # NoChallenge
           /\ s[k].protected
           /\ s[k].gate = "pending"
           /\ store' = [s EXCEPT ![k].gate = v]
           /\ reveals' = [reveals EXCEPT ![v] =
                [stage |-> "verifying", key |-> k, id |-> s[k].id, epoch |-> vaultEpoch]]
    /\ UNCHANGED <<nextId, reqs, otpSession, verified, accepted>>

\* The finisher, under the handle and the store. An answer that comes back to
\* a locked or unlocked-again vault, to another challenge or to a lockout
\* reveals nothing.
FinishReveal(v, outcome) ==
    /\ reveals[v].stage = "verifying"
    /\ LET k == reveals[v].key
           chal == store[k]
           same == chal # NoChallenge /\ chal.id = reveals[v].id
           mine == same /\ chal.gate = v
           moved == ~vaultOpen \/ vaultEpoch # reveals[v].epoch
           gone == [store EXCEPT ![k] = NoChallenge]
           open == ~moved /\ same /\ ~is_locked_out(chal)
       IN  \/ /\ moved
              /\ store' = IF mine THEN gone ELSE store
              /\ UNCHANGED verified
           \/ /\ ~moved /\ ~open
              /\ UNCHANGED <<store, verified>>
           \/ /\ open /\ outcome = "verified" /\ mine /\ ~chal.expired
              /\ store' = [store EXCEPT ![k].gate = "authenticated"]
              /\ verified' = [verified EXCEPT ![chal.id] = vaultEpoch]
           \/ /\ open /\ outcome = "verified" /\ mine /\ chal.expired
              /\ store' = [store EXCEPT ![k].gate = "pending"]
              /\ UNCHANGED verified
           \/ /\ open /\ outcome = "verified" /\ ~mine
              /\ UNCHANGED <<store, verified>>
           \/ /\ open /\ outcome = "retryable"
              /\ store' = IF mine THEN [store EXCEPT ![k].gate = "pending"] ELSE store
              /\ UNCHANGED verified
           \/ /\ open /\ outcome = "denied"
              /\ store' = IF mine THEN gone ELSE store
              /\ UNCHANGED verified
    /\ reveals' = [reveals EXCEPT ![v] = Idle]
    /\ UNCHANGED <<nextId, reqs, otpSession, accepted>>

-----------------------------------------------------------------------------

\* Time: the code's life ends before a lockout that was opened meanwhile.
Expire(k) ==
    /\ store[k] # NoChallenge /\ ~store[k].expired
    /\ store' = [store EXCEPT ![k].expired = TRUE]
    /\ UNCHANGED <<nextId, reqs, reveals, otpSession, verified, accepted>>

LockoutEnds(k) ==
    /\ store[k] # NoChallenge /\ store[k].expired /\ is_locked_out(store[k])
    /\ store' = [store EXCEPT ![k].lockout = "over"]
    /\ UNCHANGED <<nextId, reqs, reveals, otpSession, verified, accepted>>

\* The timer of a challenge closes its card, and drops it unless locked out.
CloseExpired(k) ==
    /\ store[k] # NoChallenge /\ store[k].expired /\ ~is_locked_out(store[k])
    /\ store' = [store EXCEPT ![k] = NoChallenge]
    /\ UNCHANGED <<nextId, reqs, reveals, otpSession, verified, accepted>>

\* perform_vault_lock: the store is drained under the handle (clear_all).
OtpLock ==
    /\ vaultOpen /\ vaultEpoch < MaxOtpEpoch
    /\ vaultOpen' = FALSE
    /\ vaultEpoch' = vaultEpoch + 1
    /\ locks' = [locks EXCEPT !.cleared = vaultEpoch']
    /\ store' = [k \in Key |-> NoChallenge]
    /\ UNCHANGED <<startups, nextId, reqs, reveals, verified, accepted>>

OtpUnlock ==
    /\ ~vaultOpen
    /\ vaultOpen' = TRUE
    /\ vaultEpoch' = vaultEpoch + 1
    /\ startups' = startups + 1
    /\ UNCHANGED <<locks, store, nextId, reqs, reveals, verified, accepted>>

\* The servers of an unlock have started ...
OtpServed ==
    /\ startups > 0
    /\ startups' = startups - 1
    /\ UNCHANGED <<vaultOpen, vaultEpoch, locks>>
    /\ UNCHANGED <<store, nextId, reqs, reveals, verified, accepted>>

\* ... or have not, and rollback_unlock locks without draining the store.
OtpRollback ==
    /\ startups > 0 /\ vaultEpoch < MaxOtpEpoch
    /\ startups' = startups - 1
    /\ vaultOpen' = FALSE
    /\ vaultEpoch' = vaultEpoch + 1
    /\ locks' = [locks EXCEPT !.rolledBack = vaultEpoch']
    /\ UNCHANGED <<store, nextId, reqs, reveals, verified, accepted>>

OtpNext ==
    \/ \E r \in Req, k \in Key :
        \/ RequestWithoutCode(r, k)
        \/ \E code \in 0 .. nextId : RequestWithCode(r, k, code)
    \/ \E r \in Req, protected \in BOOLEAN : IssueFresh(r, protected)
    \/ \E v \in Reveal, k \in Key : BeginReveal(v, k)
    \/ \E v \in Reveal, outcome \in {"verified", "retryable", "denied"} :
        FinishReveal(v, outcome)
    \/ \E k \in Key : Expire(k) \/ LockoutEnds(k) \/ CloseExpired(k)
    \/ OtpLock
    \/ OtpUnlock \/ OtpServed \/ OtpRollback

OtpSpec == OtpInit /\ [][OtpNext]_otpVars

-----------------------------------------------------------------------------

\* The code of a protected challenge is accepted only after a verification of
\* presence bound to that very challenge has ended well since the last lock
\* that drained the store, even when it is guessed, and however replacements,
\* lockouts, late answers, locks and unlocks interleave with it; and in the
\* unlock it is accepted in, but for one way out: an unlock whose servers did
\* not start is locked again without clear_all, and a code released in it
\* passes into the next unlock.
AcceptedWithPresence ==
    accepted.protected =>
        /\ accepted.verified > accepted.locks.cleared
        /\ \/ accepted.verified = accepted.epoch
           \/ accepted.verified < accepted.locks.rolledBack

\* "Concurrent new requests cannot exceed the bounded pending-challenge store"
\* (handle_otp_fresh), although they are admitted in one critical section and
\* inserted in another.
PendingChallengesBounded == Cardinality(Pending) <= MaxPending

=============================================================================
