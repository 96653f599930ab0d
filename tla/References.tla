----------------------------- MODULE References -----------------------------
(***************************************************************************)
(* Opaque references of crates/sv-runtime/src/references: the registry     *)
(* with its two-phase resolution and the leases it hands to a broker, and  *)
(* the ledger that exchanges published locators.                           *)
(*                                                                         *)
(* A token, and its keyed hash, is the identity it carries: tokens come    *)
(* from the operating system's generator and are modelled as fresh.        *)
(***************************************************************************)
EXTENDS Integers, Sequences, FiniteSets

CONSTANTS
    Token,       \* references that create may return
    Entry,       \* what a caller asks create to register
    Context,     \* who resolves a reference, for what and to where
    Lease,       \* leases that authorize_material_use may return
    Locator,     \* published locators
    Resource,    \* internal resources
    U32Max,      \* the largest use count
    MaxTime,     \* the clock's bound
    NoEntry

ASSUME ReferencesAssumption ==
    /\ U32Max \in Nat
    /\ MaxTime \in Nat
    /\ IsFiniteSet(Lease)
    /\ \A e \in Entry : e.max_uses \in Nat \cup {NoEntry} /\ e.revoked \in BOOLEAN
    /\ NoEntry \notin Nat \cup Token
    /\ NoEntry \notin [asked : Entry, use_count : Nat, revoked : BOOLEAN]
    /\ NoEntry \notin [resource : Resource, revoked : BOOLEAN]
    /\ NoEntry \notin [revoked : BOOLEAN, use_count : Nat]

VARIABLES
    entries,     \* token -> registered entry, its use count and revocation
    leases,      \* lease -> the token it was authorized for and how it ended
    records,     \* locator -> the resource it names and its revocation
    resources,   \* resource -> aggregate state
    now          \* the injected clock

registryVars == <<entries, leases>>
ledgerVars == <<records, resources>>
referenceVars == <<entries, leases, records, resources, now>>

Unused == [token |-> NoEntry, state |-> "unused"]

ReferencesInit ==
    /\ entries = [t \in Token |-> NoEntry]
    /\ leases = [l \in Lease |-> Unused]
    /\ records = [l \in Locator |-> NoEntry]
    /\ resources = [r \in Resource |-> NoEntry]
    /\ now = 0

Tick == /\ now < MaxTime
        /\ now' = now + 1
        /\ UNCHANGED <<registryVars, ledgerVars>>

-----------------------------------------------------------------------------
(* The registry.                                                           *)

\* create gives the entry a fresh hash and a use count of zero; what the
\* caller says of revocation and expiry is taken as it is.
Create(t, e) ==
    /\ entries[t] = NoEntry
    /\ entries' = [entries EXCEPT ![t] =
          [asked |-> e, use_count |-> 0, revoked |-> e.revoked]]
    /\ UNCHANGED <<leases, ledgerVars, now>>

\* check, in the order of its tests: the first that fails names the error.
Checked(t, c) ==
    LET e == entries[t].asked IN
    CASE entries[t].revoked -> "ReferenceInvalid"
      [] ~entries[t].revoked /\ now >= e.expires_at -> "ReferenceExpired"
      [] OTHER ->
           IF \/ e.owner # NoEntry /\ c.principal # e.owner
              \/ e.session # NoEntry /\ c.session # e.session
              \/ c.operation \notin e.operations
              \/ e.audience # {} /\ c.destination \notin e.audience
           THEN "ReferenceAudienceDenied"
           ELSE IF e.max_uses # NoEntry /\ entries[t].use_count >= e.max_uses
           THEN "ReferenceExpired"
           ELSE "Ok"

\* Phase two: check and count under one lock, then hand out the lease.
AuthorizeMaterialUse(t, c, l) ==
    /\ entries[t] # NoEntry
    /\ leases[l] = Unused
    /\ Checked(t, c) = "Ok"
    /\ entries[t].use_count < U32Max
    /\ entries' = [entries EXCEPT ![t].use_count = @ + 1]
    /\ leases' = [leases EXCEPT ![l] = [token |-> t, state |-> "out"]]
    /\ UNCHANGED <<ledgerVars, now>>

\* A plausible fault: every settled lease returns its use.
GivesBackAlways(outcome) == TRUE

\* Only a use without an external action is returned to the handle.
GivesBack(outcome) == outcome = "ConsumedNotExecuted"

Settle(l, outcome) ==
    /\ leases[l].state = "out"
    /\ leases' = [leases EXCEPT ![l].state = outcome]
    /\ entries' =
          IF GivesBack(outcome)
          THEN [entries EXCEPT ![leases[l].token].use_count =
                   IF @ = 0 THEN 0 ELSE @ - 1]
          ELSE entries
    /\ UNCHANGED <<ledgerVars, now>>

\* A lease dropped without settlement keeps its use: it may have executed.
DropLease(l) ==
    /\ leases[l].state = "out"
    /\ leases' = [leases EXCEPT ![l].state = "dropped"]
    /\ UNCHANGED <<entries, ledgerVars, now>>

Revoke(t) ==
    /\ entries[t] # NoEntry
    /\ entries' = [entries EXCEPT ![t].revoked = TRUE]
    /\ UNCHANGED <<leases, ledgerVars, now>>

-----------------------------------------------------------------------------
(* The locator ledger.                                                     *)

Fresh == [revoked |-> FALSE, use_count |-> 0]

\* A plausible fault: mapping a second locator starts the resource afresh.
KnownOrFresh(r) == Fresh

\* entry().or_insert_with(): a resource that is known keeps its state. Its cap
\* is None: nothing in the crate sets another.
KeptOrFresh(r) == IF resources[r] = NoEntry THEN Fresh ELSE resources[r]

Map(l, r) ==
    /\ records[l] = NoEntry
    /\ records' = [records EXCEPT ![l] = [resource |-> r, revoked |-> FALSE]]
    /\ resources' = [resources EXCEPT ![r] = KeptOrFresh(r)]
    /\ UNCHANGED <<registryVars, now>>

RevokeEntry(l) ==
    /\ records[l] # NoEntry
    /\ records' = [records EXCEPT ![l].revoked = TRUE]
    /\ UNCHANGED <<resources, registryVars, now>>

RevokeResource(r) ==
    /\ resources[r] # NoEntry
    /\ resources' = [resources EXCEPT ![r].revoked = TRUE]
    /\ UNCHANGED <<records, registryVars, now>>

\* exchange: unknown, revoked and revoked resource fail alike; a use is
\* consumed before the token is minted.
Exchangeable(l) ==
    /\ records[l] # NoEntry
    /\ ~records[l].revoked
    /\ ~resources[records[l].resource].revoked
    /\ resources[records[l].resource].use_count < U32Max

Exchange(l) ==
    /\ Exchangeable(l)
    /\ resources' = [resources EXCEPT ![records[l].resource].use_count = @ + 1]
    /\ UNCHANGED <<records, registryVars, now>>

RegistryNext ==
    \/ Tick
    \/ \E t \in Token, e \in Entry : Create(t, e)
    \/ \E t \in Token, c \in Context, l \in Lease : AuthorizeMaterialUse(t, c, l)
    \/ \E l \in Lease, o \in {"ConsumedNotExecuted", "ExecutedUnknown", "Completed"} :
          Settle(l, o)
    \/ \E l \in Lease : DropLease(l)
    \/ \E t \in Token : Revoke(t)

LedgerNext ==
    \/ \E l \in Locator, r \in Resource : Map(l, r)
    \/ \E l \in Locator : RevokeEntry(l) \/ Exchange(l)
    \/ \E r \in Resource : RevokeResource(r)

ReferencesNext == RegistryNext \/ LedgerNext

ReferencesSpec == ReferencesInit /\ [][ReferencesNext]_referenceVars

-----------------------------------------------------------------------------
\* The leases of a token whose use was not given back: the ones out, and those
\* after which an external action happened or may have happened.
Spent(t) == {l \in Lease : /\ leases[l].token = t
                           /\ leases[l].state # "ConsumedNotExecuted"}

\* A handle is never redeemed more often than it was issued for, whatever the
\* order in which leases are authorized, settled and dropped, and its counter
\* is exactly the number of uses that were not given back
\* (authorize_material_use, settle and the drop of a lease).
UsesAccounted ==
    \A t \in Token : entries[t] # NoEntry =>
        /\ entries[t].use_count = Cardinality(Spent(t))
        /\ entries[t].asked.max_uses # NoEntry =>
              Cardinality(Spent(t)) <= entries[t].asked.max_uses

\* Revocation of a resource is final: no locator, mapped before or after it,
\* exchanges for the resource again, its count of exchanges is never reset,
\* and a published locator never comes to name another resource.
RevocationIsFinal ==
    [][/\ \A r \in Resource : resources[r] # NoEntry =>
             /\ resources[r].revoked =>
                   resources'[r].revoked /\ resources'[r].use_count = resources[r].use_count
             /\ resources'[r].use_count >= resources[r].use_count
       /\ \A l \in Locator : records[l] # NoEntry =>
             records'[l].resource = records[l].resource]_referenceVars
=============================================================================
