--------------------------- MODULE LibraryProofs ---------------------------
(***************************************************************************)
(* The libraries: opaque references and the locator ledger, the container  *)
(* store, the policy, the broker and the rewriting of project files. An    *)
(* invariant of each, for any number of handles, leases, containers and    *)
(* files, and for any documents, requests, findings and other writers.     *)
(***************************************************************************)
EXTENDS References, Storage, Policy, Broker, Remediation, FiniteSetTheorems,
        SequenceTheorems, WellFoundedInduction, TLAPS

-----------------------------------------------------------------------------
(* The registry of references.                                             *)

Registered == [asked : Entry, use_count : Nat, revoked : BOOLEAN]

LeaseStates ==
    {"unused", "out", "dropped", "ConsumedNotExecuted", "ExecutedUnknown", "Completed"}

RegistryTypeOK ==
    /\ entries \in [Token -> Registered \cup {NoEntry}]
    /\ leases \in [Lease -> [token : Token \cup {NoEntry}, state : LeaseStates]]

\* A lease that was handed out is one of a registered handle.
LeasesHaveHandles ==
    \A l \in Lease :
        /\ leases[l].state = "unused" => leases[l].token = NoEntry
        /\ leases[l].state # "unused" =>
              leases[l].token \in Token /\ entries[leases[l].token] # NoEntry

RegistryInv == RegistryTypeOK /\ LeasesHaveHandles /\ UsesAccounted

\* The leases of a handle are finitely many.
LEMMA SpentFinite ==
    ASSUME NEW t
    PROVE  IsFiniteSet(Spent(t)) /\ Cardinality(Spent(t)) \in Nat
BY FS_Subset, FS_CardinalityType, ReferencesAssumption DEF Spent

\* Authorizing, settling and dropping leases keep the account of every handle.
LEMMA RegistryStep ==
    ASSUME RegistryInv, RegistryNext
    PROVE  RegistryInv'
<1> USE DEF RegistryInv
<1>0. /\ entries \in [Token -> Registered \cup {NoEntry}]
      /\ leases \in [Lease -> [token : Token \cup {NoEntry}, state : LeaseStates]]
      /\ NoEntry \notin Token /\ NoEntry \notin Registered
      /\ \A t \in Token : entries[t] # NoEntry => entries[t] \in Registered
  BY ReferencesAssumption DEF RegistryTypeOK, Registered
<1>1. CASE Tick
  <2>1. entries' = entries /\ leases' = leases
    BY <1>1 DEF Tick, registryVars
  <2> QED BY <2>1 DEF RegistryTypeOK, LeasesHaveHandles, UsesAccounted, Spent
<1>2. ASSUME NEW t \in Token, NEW e \in Entry, Create(t, e)
      PROVE  RegistryInv'
  <2> DEFINE new == [asked |-> e, use_count |-> 0, revoked |-> e.revoked]
  <2>1. new \in Registered /\ new.use_count = 0 /\ new.asked = e
    BY ReferencesAssumption DEF Registered
  <2>2. entries' = [entries EXCEPT ![t] = new] /\ leases' = leases /\ entries[t] = NoEntry
    BY <1>2 DEF Create
  <2> HIDE DEF new
  <2>3. RegistryTypeOK'
    BY <1>0, <2>1, <2>2 DEF RegistryTypeOK
  <2>4. LeasesHaveHandles'
    BY <1>0, <2>1, <2>2 DEF LeasesHaveHandles
  <2>5. \A u : Spent(u)' = Spent(u)
    BY <2>2 DEF Spent
  <2>6. Spent(t) = {}
    BY <1>0, <2>2 DEF Spent, LeasesHaveHandles
  <2>7. Cardinality(Spent(t)) = 0
    BY <2>6, FS_EmptySet
  <2>8. e.max_uses # NoEntry => 0 <= e.max_uses
    BY ReferencesAssumption
  <2>9. UsesAccounted'
    <3> SUFFICES ASSUME NEW u \in Token, entries'[u] # NoEntry
                 PROVE  /\ entries'[u].use_count = Cardinality(Spent(u)')
                        /\ entries'[u].asked.max_uses # NoEntry =>
                              Cardinality(Spent(u)') <= entries'[u].asked.max_uses
      BY DEF UsesAccounted
    <3>1. CASE u = t
      <4>1. entries'[u] = new
        BY <1>0, <2>2, <3>1
      <4> QED BY <2>1, <2>5, <2>7, <2>8, <3>1, <4>1
    <3>2. CASE u # t
      <4>1. entries'[u] = entries[u]
        BY <1>0, <2>2, <3>2
      <4> QED BY <2>5, <4>1 DEF UsesAccounted
    <3> QED BY <3>1, <3>2
  <2> QED BY <2>3, <2>4, <2>9
<1>3. ASSUME NEW t \in Token, NEW c \in Context, NEW l \in Lease, AuthorizeMaterialUse(t, c, l)
      PROVE  RegistryInv'
  <2> DEFINE new == [entries[t] EXCEPT !.use_count = @ + 1]
             out == [token |-> t, state |-> "out"]
  <2>1. entries[t] # NoEntry /\ entries[t] \in Registered /\ leases[l] = Unused
    BY <1>0, <1>3 DEF AuthorizeMaterialUse
  <2>2. entries' = [entries EXCEPT ![t] = new] /\ leases' = [leases EXCEPT ![l] = out]
    BY <1>3 DEF AuthorizeMaterialUse
  <2>3. /\ new \in Registered /\ new.use_count = entries[t].use_count + 1
        /\ new.asked = entries[t].asked
    BY <2>1 DEF Registered
  <2>4. /\ out \in [token : Token \cup {NoEntry}, state : LeaseStates]
        /\ out.token = t /\ out.state = "out"
    BY DEF LeaseStates
  <2> HIDE DEF new, out
  <2>5. RegistryTypeOK'
    BY <1>0, <2>2, <2>3, <2>4 DEF RegistryTypeOK
  <2>6. LeasesHaveHandles'
    BY <1>0, <2>2, <2>3, <2>4 DEF LeasesHaveHandles
  <2>7. l \notin Spent(t) /\ Spent(t)' = Spent(t) \cup {l}
    BY <1>0, <2>1, <2>2, <2>4 DEF Spent, Unused
  <2>8. \A u \in Token \ {t} : Spent(u)' = Spent(u)
    BY <1>0, <2>1, <2>2, <2>4 DEF Spent, Unused
  <2>9. Cardinality(Spent(t)') = Cardinality(Spent(t)) + 1 /\ Cardinality(Spent(t)) \in Nat
    BY <2>7, SpentFinite, FS_AddElement
  <2>10. entries[t].use_count = Cardinality(Spent(t))
    BY <2>1 DEF UsesAccounted
  <2>11. entries[t].asked.max_uses # NoEntry =>
            entries[t].asked.max_uses \in Nat /\ ~(entries[t].use_count >= entries[t].asked.max_uses)
    <3>1. entries[t].asked \in Entry
      BY <2>1 DEF Registered
    <3>2. Checked(t, c) = "Ok"
      BY <1>3 DEF AuthorizeMaterialUse
    <3>3. entries[t].asked.max_uses # NoEntry => ~(entries[t].use_count >= entries[t].asked.max_uses)
      BY <3>2 DEF Checked
    <3> QED BY <3>1, <3>3, ReferencesAssumption
  <2>12. UsesAccounted'
    <3> SUFFICES ASSUME NEW u \in Token, entries'[u] # NoEntry
                 PROVE  /\ entries'[u].use_count = Cardinality(Spent(u)')
                        /\ entries'[u].asked.max_uses # NoEntry =>
                              Cardinality(Spent(u)') <= entries'[u].asked.max_uses
      BY DEF UsesAccounted
    <3>1. CASE u = t
      <4>1. entries'[u] = new
        BY <1>0, <2>2, <3>1
      <4> QED BY <2>3, <2>9, <2>10, <2>11, <3>1, <4>1
    <3>2. CASE u # t
      <4>1. entries'[u] = entries[u] /\ Spent(u)' = Spent(u)
        BY <1>0, <2>2, <2>8, <3>2
      <4> QED BY <4>1 DEF UsesAccounted
    <3> QED BY <3>1, <3>2
  <2> QED BY <2>5, <2>6, <2>12
<1>4. ASSUME NEW l \in Lease, NEW s \in LeaseStates \ {"unused", "ConsumedNotExecuted"},
             leases[l].state = "out", leases' = [leases EXCEPT ![l].state = s],
             entries' = entries
      PROVE  RegistryInv'
  <2> DEFINE old == [leases[l] EXCEPT !.state = s]
  <2>1. /\ old \in [token : Token \cup {NoEntry}, state : LeaseStates]
        /\ old.token = leases[l].token /\ old.state = s
    BY <1>0
  <2>2. leases' = [leases EXCEPT ![l] = old]
    BY <1>4
  <2> HIDE DEF old
  <2>3. \A u : Spent(u)' = Spent(u)
    BY <1>0, <1>4, <2>1, <2>2 DEF Spent
  <2>4. RegistryTypeOK' /\ LeasesHaveHandles'
    BY <1>0, <1>4, <2>1, <2>2 DEF RegistryTypeOK, LeasesHaveHandles
  <2> QED BY <1>4, <2>3, <2>4 DEF UsesAccounted
<1>5. ASSUME NEW l \in Lease, Settle(l, "ConsumedNotExecuted")
      PROVE  RegistryInv'
  <2>0. leases[l].state = "out" /\ leases[l].token \in Token /\ entries[leases[l].token] # NoEntry
    BY <1>5 DEF Settle, LeasesHaveHandles
  <2> PICK t \in Token : t = leases[l].token
    BY <2>0
  <2> DEFINE old == [leases[l] EXCEPT !.state = "ConsumedNotExecuted"]
             new == [entries[t] EXCEPT !.use_count = IF @ = 0 THEN 0 ELSE @ - 1]
  <2>1. /\ leases[l].state = "out"
        /\ leases' = [leases EXCEPT ![l] = old]
        /\ entries' = [entries EXCEPT ![t] = new]
    BY <1>5 DEF Settle, GivesBack
  <2>2. /\ old \in [token : Token \cup {NoEntry}, state : LeaseStates]
        /\ old.token = t /\ old.state = "ConsumedNotExecuted"
    BY <1>0 DEF LeaseStates
  <2>3. t \in Token /\ entries[t] # NoEntry /\ entries[t] \in Registered
    BY <1>0, <2>0
  <2>4. l \in Spent(t)
    BY <2>1 DEF Spent
  <2>5. /\ Cardinality(Spent(t) \ {l}) = Cardinality(Spent(t)) - 1
        /\ Cardinality(Spent(t) \ {l}) \in Nat /\ Cardinality(Spent(t)) \in Nat
    <3>1. IsFiniteSet(Spent(t)) /\ Cardinality(Spent(t)) \in Nat
      BY SpentFinite
    <3>2. IsFiniteSet(Spent(t) \ {l}) /\ Cardinality(Spent(t) \ {l}) = Cardinality(Spent(t)) - 1
      BY <2>4, <3>1, FS_RemoveElement
    <3> QED BY <3>1, <3>2, FS_CardinalityType
  <2>6. entries[t].use_count = Cardinality(Spent(t))
    BY <2>3 DEF UsesAccounted
  <2>7. entries[t].use_count # 0
    BY <2>5, <2>6
  <2>8. /\ new \in Registered /\ new.use_count = entries[t].use_count - 1
        /\ new.asked = entries[t].asked
    BY <2>3, <2>7 DEF Registered
  <2>9. /\ Spent(t)' = Spent(t) \ {l}
        /\ \A u \in Token \ {t} : Spent(u)' = Spent(u)
    <3> HIDE DEF old
    <3> QED BY <1>0, <2>1, <2>2 DEF Spent
  <2>10. entries[t].asked.max_uses # NoEntry =>
            /\ entries[t].asked.max_uses \in Nat
            /\ Cardinality(Spent(t)) <= entries[t].asked.max_uses
    <3>1. entries[t].asked \in Entry
      BY <2>3 DEF Registered
    <3> QED BY <2>3, <3>1, ReferencesAssumption DEF UsesAccounted
  <2> HIDE DEF old, new
  <2>11. RegistryTypeOK'
    BY <1>0, <2>1, <2>2, <2>3, <2>8 DEF RegistryTypeOK
  <2>12. LeasesHaveHandles'
    BY <1>0, <2>1, <2>2, <2>3, <2>8 DEF LeasesHaveHandles
  <2>13. UsesAccounted'
    <3> SUFFICES ASSUME NEW u \in Token, entries'[u] # NoEntry
                 PROVE  /\ entries'[u].use_count = Cardinality(Spent(u)')
                        /\ entries'[u].asked.max_uses # NoEntry =>
                              Cardinality(Spent(u)') <= entries'[u].asked.max_uses
      BY DEF UsesAccounted
    <3>1. CASE u = t
      <4>1. entries'[u] = new
        BY <1>0, <2>1, <3>1
      <4>2. Spent(u)' = Spent(t) \ {l}
        BY <2>9, <3>1
      <4>3. entries'[u].use_count = Cardinality(Spent(t)) - 1
            /\ entries'[u].asked = entries[t].asked
        BY <2>6, <2>8, <4>1
      <4> QED BY <2>5, <2>10, <4>2, <4>3
    <3>2. CASE u # t
      <4>1. entries'[u] = entries[u] /\ Spent(u)' = Spent(u)
        BY <1>0, <2>1, <2>9, <3>2
      <4> QED BY <4>1 DEF UsesAccounted
    <3> QED BY <3>1, <3>2
  <2> QED BY <2>11, <2>12, <2>13
<1>6. ASSUME NEW l \in Lease,
             NEW o \in {"ConsumedNotExecuted", "ExecutedUnknown", "Completed"}, Settle(l, o)
      PROVE  RegistryInv'
  BY <1>4, <1>5, <1>6 DEF Settle, GivesBack, LeaseStates
<1>7. ASSUME NEW l \in Lease, DropLease(l)
      PROVE  RegistryInv'
  BY <1>4, <1>7 DEF DropLease, LeaseStates
<1>8. ASSUME NEW t \in Token, Revoke(t)
      PROVE  RegistryInv'
  <2> DEFINE new == [entries[t] EXCEPT !.revoked = TRUE]
  <2>1. entries' = [entries EXCEPT ![t] = new] /\ leases' = leases /\ entries[t] # NoEntry
    BY <1>8 DEF Revoke
  <2>2. /\ new \in Registered /\ new.use_count = entries[t].use_count
        /\ new.asked = entries[t].asked
    BY <1>0, <2>1 DEF Registered
  <2> HIDE DEF new
  <2>3. \A u : Spent(u)' = Spent(u)
    BY <2>1 DEF Spent
  <2>4. RegistryTypeOK' /\ LeasesHaveHandles'
    BY <1>0, <2>1, <2>2 DEF RegistryTypeOK, LeasesHaveHandles
  <2>5. UsesAccounted'
    <3>1. \A u \in Token : entries'[u] = IF u = t THEN new ELSE entries[u]
      BY <1>0, <2>1
    <3> QED BY <2>1, <2>2, <2>3, <3>1 DEF UsesAccounted
  <2> QED BY <2>4, <2>5
<1> QED BY <1>1, <1>2, <1>3, <1>6, <1>7, <1>8 DEF RegistryNext

-----------------------------------------------------------------------------
(* The ledger of locators.                                                 *)

LocatorRecords == [resource : Resource, revoked : BOOLEAN]
ResourceStates == [revoked : BOOLEAN, use_count : Nat]

\* A mapped locator names a resource the ledger knows.
LedgerInv ==
    /\ records \in [Locator -> LocatorRecords \cup {NoEntry}]
    /\ resources \in [Resource -> ResourceStates \cup {NoEntry}]
    /\ \A l \in Locator : records[l] # NoEntry => resources[records[l].resource] # NoEntry

\* What a step may never undo in the ledger.
LedgerOnward ==
    /\ \A r \in Resource : resources[r] # NoEntry =>
          /\ resources[r].revoked =>
                resources'[r].revoked /\ resources'[r].use_count = resources[r].use_count
          /\ resources'[r].use_count >= resources[r].use_count
    /\ \A l \in Locator : records[l] # NoEntry =>
          records'[l].resource = records[l].resource

\* A step that sets one resource to a state that is no earlier one.
LEMMA ResourceMoves ==
    ASSUME LedgerInv, NEW r \in Resource, NEW new \in ResourceStates,
           resources' = [resources EXCEPT ![r] = new],
           resources[r] # NoEntry =>
                /\ resources[r].revoked => new.revoked /\ new.use_count = resources[r].use_count
                /\ new.use_count >= resources[r].use_count,
           \A l \in Locator : records[l] # NoEntry => records'[l].resource = records[l].resource
    PROVE  LedgerOnward /\ resources' \in [Resource -> ResourceStates \cup {NoEntry}]
           /\ \A q \in Resource : resources[q] # NoEntry \/ q = r => resources'[q] # NoEntry
<1>1. \A q \in Resource : resources'[q] = IF q = r THEN new ELSE resources[q]
  BY DEF LedgerInv
<1>2. NoEntry \notin ResourceStates
  BY ReferencesAssumption DEF ResourceStates
<1>3. \A q \in Resource : resources[q] # NoEntry => resources[q].use_count \in Nat
  BY DEF LedgerInv, ResourceStates
<1>4. LedgerOnward
  BY <1>1, <1>3 DEF LedgerOnward
<1> QED BY <1>1, <1>2, <1>4 DEF LedgerInv

\* Mapping, exchanging and revoking move the ledger onward.
LEMMA LedgerStep ==
    ASSUME LedgerInv, LedgerNext
    PROVE  LedgerInv' /\ LedgerOnward
<1>0. /\ NoEntry \notin LocatorRecords /\ NoEntry \notin ResourceStates
      /\ records \in [Locator -> LocatorRecords \cup {NoEntry}]
      /\ resources \in [Resource -> ResourceStates \cup {NoEntry}]
  BY ReferencesAssumption DEF LocatorRecords, ResourceStates, LedgerInv
<1>1. ASSUME NEW l \in Locator, NEW r \in Resource, Map(l, r)
      PROVE  LedgerInv' /\ LedgerOnward
  <2> DEFINE new == [resource |-> r, revoked |-> FALSE]
  <2>1. new \in LocatorRecords /\ new.resource = r
    BY DEF LocatorRecords
  <2>2. records[l] = NoEntry /\ records' = [records EXCEPT ![l] = new]
        /\ resources' = [resources EXCEPT ![r] = KeptOrFresh(r)]
    BY <1>1 DEF Map
  <2> HIDE DEF new
  <2>3. KeptOrFresh(r) \in ResourceStates
    BY <1>0 DEF KeptOrFresh, Fresh, ResourceStates
  <2>4. resources[r] # NoEntry => KeptOrFresh(r) = resources[r]
    BY DEF KeptOrFresh
  <2>5. resources[r] # NoEntry => resources[r].use_count \in Nat
    BY <1>0 DEF ResourceStates
  <2>6. \A k \in Locator : records'[k] = IF k = l THEN new ELSE records[k]
    BY <1>0, <2>2
  <2>7. resources[r] # NoEntry =>
          /\ resources[r].revoked =>
                KeptOrFresh(r).revoked /\ KeptOrFresh(r).use_count = resources[r].use_count
          /\ KeptOrFresh(r).use_count >= resources[r].use_count
    BY <2>4, <2>5
  <2>8. LedgerOnward /\ resources' \in [Resource -> ResourceStates \cup {NoEntry}]
        /\ \A q \in Resource : resources[q] # NoEntry \/ q = r => resources'[q] # NoEntry
    BY <2>2, <2>3, <2>6, <2>7, ResourceMoves
  <2>9. records' \in [Locator -> LocatorRecords \cup {NoEntry}]
    BY <1>0, <2>1, <2>2
  <2>10. \A k \in Locator : records'[k] # NoEntry => resources'[records'[k].resource] # NoEntry
    <3>1. \A k \in Locator : records[k] # NoEntry => records[k].resource \in Resource
      BY <1>0 DEF LocatorRecords
    <3> QED BY <2>1, <2>6, <2>8, <3>1 DEF LedgerInv
  <2> QED BY <2>8, <2>9, <2>10 DEF LedgerInv
<1>2. ASSUME NEW l \in Locator, RevokeEntry(l)
      PROVE  LedgerInv' /\ LedgerOnward
  <2> DEFINE new == [records[l] EXCEPT !.revoked = TRUE]
  <2>1. records[l] # NoEntry /\ records' = [records EXCEPT ![l] = new] /\ resources' = resources
    BY <1>2 DEF RevokeEntry
  <2>2. new \in LocatorRecords /\ new.resource = records[l].resource
    BY <1>0, <2>1 DEF LocatorRecords
  <2> HIDE DEF new
  <2>3. \A k \in Locator : records'[k] = IF k = l THEN new ELSE records[k]
    BY <1>0, <2>1
  <2>4. \A r \in Resource : resources[r] # NoEntry => resources[r].use_count \in Nat
    BY <1>0 DEF ResourceStates
  <2>5. LedgerOnward
    BY <2>1, <2>2, <2>3, <2>4 DEF LedgerOnward
  <2> QED BY <1>0, <2>1, <2>2, <2>3, <2>5 DEF LedgerInv
<1>3. ASSUME NEW r \in Resource, NEW new \in ResourceStates, resources[r] # NoEntry,
             resources' = [resources EXCEPT ![r] = new], records' = records,
             resources[r].revoked => new.revoked /\ new.use_count = resources[r].use_count,
             new.use_count >= resources[r].use_count
      PROVE  LedgerInv' /\ LedgerOnward
  <2>1. LedgerOnward /\ resources' \in [Resource -> ResourceStates \cup {NoEntry}]
        /\ \A q \in Resource : resources[q] # NoEntry \/ q = r => resources'[q] # NoEntry
    BY <1>3, ResourceMoves
  <2>2. \A k \in Locator : records[k] # NoEntry => records[k].resource \in Resource
    BY <1>0 DEF LocatorRecords
  <2> QED BY <1>3, <2>1, <2>2 DEF LedgerInv
<1>4. ASSUME NEW r \in Resource, RevokeResource(r)
      PROVE  LedgerInv' /\ LedgerOnward
  <2> DEFINE new == [resources[r] EXCEPT !.revoked = TRUE]
  <2>1. resources[r] # NoEntry /\ resources' = [resources EXCEPT ![r] = new] /\ records' = records
    BY <1>4 DEF RevokeResource
  <2>2. resources[r] \in ResourceStates
    BY <1>0, <2>1
  <2>3. new \in ResourceStates /\ new.revoked = TRUE /\ new.use_count = resources[r].use_count
        /\ resources[r].use_count \in Nat
    BY <2>2 DEF ResourceStates
  <2> HIDE DEF new
  <2>4. new.use_count >= resources[r].use_count
    BY <2>3
  <2> QED BY <1>3, <2>1, <2>3, <2>4
<1>5. ASSUME NEW l \in Locator, Exchange(l)
      PROVE  LedgerInv' /\ LedgerOnward
  <2> DEFINE r == records[l].resource
             new == [resources[r] EXCEPT !.use_count = @ + 1]
  <2>1. /\ records[l] # NoEntry /\ ~resources[r].revoked
        /\ resources' = [resources EXCEPT ![r] = new] /\ records' = records
    BY <1>5 DEF Exchange, Exchangeable
  <2>2. r \in Resource /\ resources[r] # NoEntry
    BY <1>0, <2>1 DEF LedgerInv, LocatorRecords
  <2>3. resources[r] \in ResourceStates
    BY <1>0, <2>2
  <2>4. new \in ResourceStates /\ new.use_count = resources[r].use_count + 1
        /\ resources[r].use_count \in Nat
    BY <2>3 DEF ResourceStates
  <2> HIDE DEF new, r
  <2>5. new.use_count >= resources[r].use_count
    BY <2>4
  <2> QED BY <1>3, <2>1, <2>2, <2>4, <2>5
<1> QED BY <1>1, <1>2, <1>4, <1>5 DEF LedgerNext

\* The invariants of the registry and of the ledger.
THEOREM ReferencesInvariant == ReferencesSpec => [](RegistryInv /\ LedgerInv)
<1>1. ReferencesInit => RegistryInv /\ LedgerInv
  <2> SUFFICES ASSUME ReferencesInit PROVE RegistryInv /\ LedgerInv
    OBVIOUS
  <2>1. RegistryTypeOK
    BY DEF ReferencesInit, RegistryTypeOK, Unused, LeaseStates
  <2>2. LeasesHaveHandles
    BY DEF ReferencesInit, LeasesHaveHandles, Unused
  <2>3. UsesAccounted /\ LedgerInv
    BY DEF ReferencesInit, UsesAccounted, LedgerInv
  <2> QED BY <2>1, <2>2, <2>3 DEF RegistryInv
<1>2. RegistryInv /\ LedgerInv /\ [ReferencesNext]_referenceVars => (RegistryInv /\ LedgerInv)'
  <2> SUFFICES ASSUME RegistryInv, LedgerInv, [ReferencesNext]_referenceVars
               PROVE  RegistryInv' /\ LedgerInv'
    OBVIOUS
  <2>1. UNCHANGED ledgerVars => LedgerInv'
    BY DEF ledgerVars, LedgerInv
  <2>2. UNCHANGED registryVars => RegistryInv'
    BY DEF registryVars, RegistryInv, RegistryTypeOK, LeasesHaveHandles, UsesAccounted, Spent
  <2>3. CASE RegistryNext
    <3>1. UNCHANGED ledgerVars
      BY <2>3 DEF RegistryNext, Tick, Create, AuthorizeMaterialUse, Settle, DropLease, Revoke
    <3> QED BY <2>1, <2>3, <3>1, RegistryStep
  <2>4. CASE LedgerNext
    <3>1. UNCHANGED registryVars
      BY <2>4 DEF LedgerNext, Map, RevokeEntry, RevokeResource, Exchange
    <3> QED BY <2>2, <2>4, <3>1, LedgerStep
  <2>5. CASE UNCHANGED referenceVars
    BY <2>1, <2>2, <2>5 DEF referenceVars, registryVars, ledgerVars
  <2> QED BY <2>3, <2>4, <2>5 DEF ReferencesNext
<1> QED BY <1>1, <1>2, PTL DEF ReferencesSpec

\* A handle is never redeemed more often than it was issued for, and its
\* counter is exactly the number of uses that were not given back, whatever the
\* order in which leases are authorized, settled and dropped.
THEOREM ReferencesUsesAccounted == ReferencesSpec => []UsesAccounted
<1>1. RegistryInv => UsesAccounted
  BY DEF RegistryInv
<1> QED BY <1>1, ReferencesInvariant, PTL

\* Revocation of a resource is final, its exchanges are never forgotten, and a
\* published locator never comes to name another resource.
THEOREM ReferencesRevocationFinal == ReferencesSpec => RevocationIsFinal
<1>1. LedgerInv /\ [ReferencesNext]_referenceVars =>
        [/\ \A r \in Resource : resources[r] # NoEntry =>
             /\ resources[r].revoked =>
                   resources'[r].revoked /\ resources'[r].use_count = resources[r].use_count
             /\ resources'[r].use_count >= resources[r].use_count
         /\ \A l \in Locator : records[l] # NoEntry =>
             records'[l].resource = records[l].resource]_referenceVars
  <2> SUFFICES ASSUME LedgerInv, ReferencesNext
               PROVE  LedgerOnward
    BY DEF LedgerOnward
  <2>1. CASE RegistryNext
    <3>1. records' = records /\ resources' = resources
      BY <2>1 DEF RegistryNext, Tick, Create, AuthorizeMaterialUse, Settle, DropLease, Revoke,
                  ledgerVars
    <3>2. \A r \in Resource : resources[r] # NoEntry => resources[r].use_count \in Nat
      BY DEF LedgerInv, ResourceStates
    <3> QED BY <3>1, <3>2 DEF LedgerOnward
  <2>2. CASE LedgerNext
    BY <2>2, LedgerStep
  <2> QED BY <2>1, <2>2 DEF ReferencesNext
<1> QED BY <1>1, ReferencesInvariant, PTL DEF ReferencesSpec, RevocationIsFinal

-----------------------------------------------------------------------------
(* The container store.                                                    *)

\* The create or delete that is under way. While a create is, its folder is not
\* there yet, and the manifest that was written last already holds its rule.
OpInv ==
    /\ op.kind \in {"none", "create", "delete"}
    /\ op.kind # "none" => opened /\ op.container \in Container
    /\ op.kind = "create" =>
          /\ op.mode \in Mode
          /\ latest[op.container] = op.mode

\* The manifest that was written last gives a folder the mode agreed for it, and
\* an authentic manifest agrees with it on every rule, unless an older one was
\* put back that differs there.
RuleMaps == [Container -> Mode \cup {NoRule}]

ModeInv ==
    /\ dirs \subseteq Container
    /\ manifest.rules \in RuleMaps /\ latest \in RuleMaps /\ agreed \in RuleMaps
    /\ kept \subseteq RuleMaps
    /\ \A c \in dirs \ replayed : effective(latest, c) = agreed[c]
    /\ Authentic => \A c \in Container \ replayed : manifest.rules[c] = latest[c]

\* A blob, wherever it lies, was written under the path it is bound to.
BlobInv ==
    /\ \A p \in DOMAIN files : \A c \in Container, f \in File :
          files[p].aad = <<c, f>> => <<c, f, files[p].value>> \in written
    /\ ReadsWhatWasWritten

\* Blobs keep the path they are bound to, and reads what was written there.
LEMMA BlobStep ==
    ASSUME BlobInv, StorageNext
    PROVE  BlobInv'
<1>1. CASE UNCHANGED <<files, written>> /\ (answer' = answer \/ answer' = NoAnswer)
  BY <1>1 DEF BlobInv, ReadsWhatWasWritten
<1>2. ASSUME NEW S, files' = without(S), UNCHANGED <<written, answer>>
      PROVE  BlobInv'
  BY <1>2 DEF BlobInv, ReadsWhatWasWritten, without
<1>3. ASSUME NEW c \in Container, NEW f \in File, NEW v, put_blob(c, f, v),
             written \subseteq written', <<c, f, v>> \in written', answer' = answer
      PROVE  BlobInv'
  <2>1. /\ DOMAIN files' = DOMAIN files \cup {<<c, f>>}
        /\ files'[<<c, f>>] = sealed(c, f, v)
        /\ \A p \in DOMAIN files : p # <<c, f>> => files'[p] = files[p]
    BY <1>3 DEF put_blob
  <2>2. sealed(c, f, v).aad = <<c, f>> /\ sealed(c, f, v).value = v
    BY DEF sealed, aad_for
  <2>3. \A d \in Container, g \in File : <<d, g>> = <<c, f>> => d = c /\ g = f
    OBVIOUS
  <2>4. \A d \in Container, g \in File :
           files'[<<c, f>>].aad = <<d, g>> => <<d, g, files'[<<c, f>>].value>> \in written'
    BY <1>3, <2>1, <2>2, <2>3
  <2>5. ASSUME NEW p \in DOMAIN files, p # <<c, f>>, NEW d \in Container, NEW g \in File,
               files'[p].aad = <<d, g>>
        PROVE  <<d, g, files'[p].value>> \in written'
    <3>1. files'[p] = files[p]
      BY <2>1, <2>5
    <3> QED BY <1>3, <2>5, <3>1 DEF BlobInv
  <2>6. ReadsWhatWasWritten'
    BY <1>3 DEF BlobInv, ReadsWhatWasWritten
  <2> QED BY <2>1, <2>4, <2>5, <2>6 DEF BlobInv
<1>4. ASSUME NEW c \in Container, NEW f \in File, read_file(c, f)
      PROVE  BlobInv'
  <2>1. decrypts(c, f) => <<c, f, files[<<c, f>>].value>> \in written
    BY DEF decrypts, aad_for, BlobInv
  <2> QED BY <1>4, <2>1 DEF read_file, BlobInv, ReadsWhatWasWritten
<1>5. ASSUME NEW c \in Container, NEW f \in File, rewrap_file(c, f)
      PROVE  BlobInv'
  <2>1. <<c, f, files[<<c, f>>].value>> \in written
    BY <1>5 DEF rewrap_file, decrypts, aad_for, BlobInv
  <2> QED BY <1>3, <1>5, <2>1 DEF rewrap_file
<1>6. ASSUME NEW c \in Container, NEW f \in File, NEW v \in Value, write_file(c, f, v)
      PROVE  BlobInv'
  BY <1>3, <1>6 DEF write_file
<1>7. ASSUME NEW c \in Container, NEW f \in File, delete_file(c, f)
      PROVE  BlobInv'
  BY <1>2, <1>7 DEF delete_file
<1>8. ASSUME NEW p \in Paths, NEW q \in Paths, copy_blob(p, q)
      PROVE  BlobInv'
  BY <1>8 DEF copy_blob, BlobInv, ReadsWhatWasWritten
<1>9. CASE remove_dir_all
  BY <1>1, <1>2, <1>9 DEF remove_dir_all
<1>10. CASE creation
  BY <1>1, <1>10 DEF creation, create_container, make_directory
<1>11. CASE \E c \in Container : delete_container(c)
  BY <1>1, <1>11 DEF delete_container
<1>12. CASE remove_rule \/ op_fails \/ new_version \/ drop_handle
  BY <1>1, <1>12 DEF remove_rule, op_fails, new_version, drop_handle
<1>13. CASE open_existing \/ review \/ migrate_legacy_manifest
  BY <1>1, <1>13 DEF open_existing, review, migrate_legacy_manifest
<1>14. CASE \/ \E c \in Container, m \in Mode \cup {NoRule} : edit_manifest(c, m)
            \/ keep_manifest
            \/ \E rules \in kept : restore_manifest(rules)
  BY <1>1, <1>14 DEF edit_manifest, keep_manifest, restore_manifest
<1> QED BY <1>4, <1>5, <1>6, <1>7, <1>8, <1>9, <1>10, <1>11, <1>12, <1>13, <1>14
        DEF StorageNext

\* Under an authentic manifest a folder keeps the mode agreed for it.
LEMMA ModeStep ==
    ASSUME OpInv, ModeInv, StorageNext
    PROVE  OpInv' /\ ModeInv'
<1>0. op = NoOp => op.kind = "none"
  BY DEF NoOp
<1>1. UNCHANGED <<dirs, manifest, agreed, manifestHistory>> => ModeInv'
  BY DEF ModeInv, Authentic, effective, manifestHistory
<1>2. op' = NoOp => OpInv'
  BY DEF OpInv, NoOp
<1>3. UNCHANGED <<op, opened, latest>> => OpInv'
  BY DEF OpInv
<1>4. ASSUME NEW c \in Container, NEW m \in Mode, create_container(c, m)
      PROVE  OpInv' /\ ModeInv'
  <2> DEFINE rules == [manifest.rules EXCEPT ![c] = m]
             new == [kind |-> "create", container |-> c, mode |-> m]
  <2>1. /\ opened' /\ Authentic /\ c \notin dirs /\ manifest'.rules = rules
        /\ latest' = rules /\ replayed' = replayed \ {c} /\ kept' = kept
        /\ op' = new /\ UNCHANGED <<dirs, agreed>>
    BY <1>4 DEF create_container, write_manifest, Ready
  <2>2. rules \in RuleMaps
        /\ \A d \in Container : rules[d] = IF d = c THEN m ELSE manifest.rules[d]
    BY DEF ModeInv, RuleMaps
  <2>3. new.kind = "create" /\ new.container = c /\ new.mode = m
    OBVIOUS
  <2> HIDE DEF rules, new
  <2>4. OpInv'
    BY <2>1, <2>2, <2>3 DEF OpInv
  <2>5. ModeInv'
    BY <2>1, <2>2 DEF ModeInv, effective
  <2> QED BY <2>4, <2>5
<1>5. CASE make_directory
  <2>1. /\ op.container \in Container /\ op.mode \in Mode
        /\ latest[op.container] = op.mode
        /\ dirs' = dirs \cup {op.container} /\ op' = NoOp
        /\ UNCHANGED <<manifest, kept, latest, replayed>>
        /\ agreed' = [agreed EXCEPT ![op.container] = op.mode]
    BY <1>5 DEF make_directory, OpInv, manifestHistory
  <2>2. agreed' \in RuleMaps
        /\ \A d \in Container : agreed'[d] = IF d = op.container THEN op.mode ELSE agreed[d]
    BY <2>1 DEF ModeInv, RuleMaps
  <2>3. ModeInv'
    BY <2>1, <2>2, StorageAssumption DEF ModeInv, Authentic, effective
  <2> QED BY <1>2, <2>1, <2>3
<1>6. ASSUME NEW c \in Container, delete_container(c)
      PROVE  OpInv' /\ ModeInv'
  <2>1. /\ opened' /\ op' = [kind |-> "delete", container |-> c]
        /\ UNCHANGED <<dirs, manifest, agreed, manifestHistory>>
    BY <1>6 DEF delete_container, Ready
  <2>2. OpInv'
    BY <2>1 DEF OpInv
  <2> QED BY <1>1, <2>1, <2>2
<1>7. CASE remove_dir_all
  <2>1. /\ op.container \in Container
        /\ UNCHANGED <<op, opened, manifest, kept, latest, replayed, manifestHistory>>
    BY <1>7 DEF remove_dir_all, OpInv, manifestHistory
  <2>2. CASE UNCHANGED <<dirs, agreed>>
    BY <1>1, <1>3, <2>1, <2>2
  <2>3. CASE /\ dirs' = dirs \ {op.container}
             /\ agreed' = [agreed EXCEPT ![op.container] = NoRule]
    <3>1. agreed' \in RuleMaps
          /\ \A d \in Container : d # op.container => agreed'[d] = agreed[d]
      BY <2>1, <2>3 DEF ModeInv, RuleMaps
    <3>2. ModeInv'
      BY <2>1, <2>3, <3>1 DEF ModeInv, Authentic, effective
    <3> QED BY <1>3, <2>1, <3>2
  <2> QED BY <1>7, <2>2, <2>3 DEF remove_dir_all
<1>8. CASE remove_rule
  <2>1. op.container \in Container /\ op.container \notin dirs /\ op' = NoOp
        /\ UNCHANGED <<dirs, agreed>>
    BY <1>8 DEF remove_rule, OpInv
  <2> DEFINE rules == [manifest.rules EXCEPT ![op.container] = NoRule]
  <2>2. CASE UNCHANGED <<manifest, manifestHistory>>
    BY <1>1, <1>2, <2>1, <2>2
  <2>3. CASE Authentic /\ write_manifest(rules, {op.container})
    <3>1. rules \in RuleMaps
          /\ \A d \in Container : d # op.container => rules[d] = manifest.rules[d]
      BY <2>1 DEF ModeInv, RuleMaps
    <3>2. /\ manifest'.rules = rules /\ latest' = rules /\ kept' = kept
          /\ replayed' = replayed \ {op.container}
      BY <2>3 DEF write_manifest
    <3> HIDE DEF rules
    <3>3. ModeInv'
      BY <2>1, <2>3, <3>1, <3>2 DEF ModeInv, effective
    <3> QED BY <1>2, <2>1, <3>3
  <2> QED BY <1>8, <2>2, <2>3 DEF remove_rule
<1>9. CASE op_fails
  BY <1>1, <1>2, <1>9 DEF op_fails
<1>10. ASSUME NEW c \in Container, NEW f \in File,
              \/ read_file(c, f)
              \/ delete_file(c, f)
              \/ rewrap_file(c, f)
              \/ \E v \in Value : write_file(c, f, v)
       PROVE  OpInv' /\ ModeInv'
  BY <1>1, <1>3, <1>10 DEF read_file, delete_file, rewrap_file, write_file, manifestHistory
<1>11. CASE new_version \/ review
  BY <1>1, <1>3, <1>11 DEF new_version, review, manifestHistory
<1>12. CASE drop_handle
  BY <1>1, <1>2, <1>12 DEF drop_handle
<1>13. CASE open_existing
  <2>1. op.kind = "none"
    BY <1>13 DEF open_existing, OpInv
  <2> QED BY <1>1, <1>13, <2>1 DEF open_existing, OpInv
<1>14. CASE migrate_legacy_manifest
  <2>1. /\ op.kind = "none" /\ op' = op /\ opened' = opened /\ dirs' = dirs
        /\ reviewed = manifest.rules /\ manifest'.rules = manifest.rules
        /\ latest' = manifest.rules /\ kept' = kept
        /\ agreed' = [c \in Container |->
                        IF c \in dirs THEN effective(reviewed, c) ELSE agreed[c]]
    BY <1>14 DEF migrate_legacy_manifest, OpInv, digest_matches, write_manifest
  <2>2. \A c \in Container : effective(reviewed, c) \in Mode
    BY <2>1, StorageAssumption DEF ModeInv, RuleMaps, effective
  <2>3. agreed' \in RuleMaps
        /\ \A c \in dirs : agreed'[c] = effective(latest', c)
    BY <2>1, <2>2 DEF ModeInv, RuleMaps
  <2>4. ModeInv'
    BY <2>1, <2>3 DEF ModeInv
  <2> QED BY <2>1, <2>4 DEF OpInv
<1>15. ASSUME NEW c \in Container, NEW m \in Mode \cup {NoRule}, edit_manifest(c, m)
       PROVE  OpInv' /\ ModeInv'
  <2>1. /\ manifest'.tag \in {"stale", "none"}
        /\ manifest'.rules = [manifest.rules EXCEPT ![c] = m]
        /\ UNCHANGED <<dirs, op, opened, agreed, kept, latest, replayed>>
    BY <1>15 DEF edit_manifest, manifestHistory
  <2>2. manifest'.rules \in RuleMaps
    BY <2>1 DEF ModeInv, RuleMaps
  <2>3. ModeInv'
    BY <2>1, <2>2 DEF ModeInv, Authentic, effective
  <2> QED BY <1>3, <2>1, <2>3
<1>16. ASSUME NEW p \in Paths, NEW q \in Paths, copy_blob(p, q)
       PROVE  OpInv' /\ ModeInv'
  BY <1>1, <1>3, <1>16 DEF copy_blob, manifestHistory
<1>17. CASE keep_manifest
  BY <1>3, <1>17 DEF keep_manifest, ModeInv, Authentic, effective
<1>18. ASSUME NEW rules \in kept, restore_manifest(rules)
       PROVE  OpInv' /\ ModeInv'
  <2>1. /\ manifest'.rules = rules /\ rules \in RuleMaps
        /\ replayed' = replayed \cup {c \in Container : rules[c] # latest[c]}
        /\ UNCHANGED <<dirs, op, opened, agreed, kept, latest>>
    BY <1>18 DEF restore_manifest, ModeInv
  <2>2. ModeInv'
    BY <2>1 DEF ModeInv, effective
  <2> QED BY <1>3, <2>1, <2>2
<1> QED BY <1>4, <1>5, <1>6, <1>7, <1>8, <1>9, <1>10, <1>11, <1>12, <1>13, <1>14,
           <1>15, <1>16, <1>17, <1>18 DEF StorageNext, creation

StorageInv == OpInv /\ ModeInv /\ BlobInv

\* The invariant of the store.
THEOREM StorageInvariant == StorageSpec => []StorageInv
<1>1. StorageInit => StorageInv
  <2> SUFFICES ASSUME StorageInit PROVE StorageInv
    OBVIOUS
  <2>1. OpInv /\ ModeInv
    BY DEF StorageInit, OpInv, ModeInv, RuleMaps, NoOp, NoRules
  <2>2. DOMAIN files = {}
    BY DEF StorageInit
  <2>3. BlobInv
    BY <2>2 DEF StorageInit, BlobInv, ReadsWhatWasWritten
  <2> QED BY <2>1, <2>3 DEF StorageInv
<1>2. StorageInv /\ [StorageNext]_storageVars => StorageInv'
  <2> SUFFICES ASSUME StorageInv, [StorageNext]_storageVars PROVE StorageInv'
    OBVIOUS
  <2>1. CASE StorageNext
    BY <2>1, BlobStep, ModeStep DEF StorageInv
  <2>2. CASE UNCHANGED storageVars
    BY <2>2 DEF storageVars, manifestHistory, StorageInv, OpInv, ModeInv, BlobInv, Authentic,
                effective, ReadsWhatWasWritten
  <2> QED BY <2>1, <2>2
<1> QED BY <1>1, <1>2, PTL DEF StorageSpec

\* Whatever crash, error, unauthenticated edit or migration came before, a
\* container that can be seen under an authentic manifest has the mode it was
\* created with, or the one an operator reviewed, unless an older authentic
\* manifest was put back that holds another rule for it.
THEOREM StorageModesKept == StorageSpec => []VisibleContainersKeepTheirMode
<1>1. StorageInv => VisibleContainersKeepTheirMode
  <2> SUFFICES ASSUME StorageInv, Authentic, NEW c \in dirs,
                      NEW info, info = [name |-> c, mode |-> container_mode(c),
                                        file_count |-> Cardinality(list_files(c))]
               PROVE  info.name \in replayed \/ info.mode = agreed[info.name]
    BY DEF VisibleContainersKeepTheirMode, list_containers
  <2>1. info.name = c /\ info.mode = container_mode(c)
    OBVIOUS
  <2>2. c \notin replayed => container_mode(c) = agreed[c]
    BY DEF StorageInv, ModeInv, container_mode, effective
  <2> QED BY <2>1, <2>2
<1> QED BY <1>1, StorageInvariant, PTL

\* A read returns something that was written under that very path, however
\* blobs were moved about and keys rotated in between.
THEOREM StorageReadsWritten == StorageSpec => []ReadsWhatWasWritten
<1>1. StorageInv => ReadsWhatWasWritten
  BY DEF StorageInv, BlobInv
<1> QED BY <1>1, StorageInvariant, PTL

-----------------------------------------------------------------------------
(* The policy.                                                             *)

EvalRecord ==
    [pc : {"rules", "done"}, doc : {d \in Documents : Check(d) = "Ok"}, facts : Requests,
     order : UNION {Orders(d) : d \in Documents}, next : Nat, allows : Nat,
     exposure : Nat, consent : Nat,
     routes : SUBSET UNION {Ids(d.provider_route) : d \in Documents},
     result : {"none", "Ok", "PolicyDenied", "RouteDenied", "LimitExceeded"}]

\* The matching rules among the first n of the order o.
Seen(d, facts, o, n) ==
    {d.rule[o[k]] : k \in {i \in 1..n : Matched(d.rule[o[i]], facts)}}

\* The classes, the consents and the routes of a set of rules.
ClassesOf(S) == {RuleClass[r.effect.exposure] : r \in {x \in S : x.effect.exposure # None}}
ConsentsOf(S) == {r.effect.consent : r \in {x \in S : x.effect.consent # None}}
RoutesOf(S) == {r.effect.route : r \in {x \in S : x.effect.route # None}}

\* x is the greatest element of S.
Greatest(x, S) == x \in S /\ \A y \in S : y <= x

\* In the middle of the loop, after the matching rules of S: none denies, and
\* the effect is the join of theirs.
Walked(e, S) ==
    /\ \A r \in S : r.effect.access = "allow"
    /\ e.allows = 0 <=> S = {}
    /\ Greatest(e.exposure, {e.facts.floor} \cup ClassesOf(S))
    /\ Greatest(e.consent, {0} \cup ConsentsOf(S))
    /\ e.routes = RoutesOf(S)

WalkInv ==
    eval.pc = "rules" =>
        /\ ~TooLarge(eval.doc, eval.facts)
        /\ eval.order \in Orders(eval.doc)
        /\ eval.next \in 1..(Len(eval.doc.rule) + 1)
        /\ Walked(eval, Seen(eval.doc, eval.facts, eval.order, eval.next - 1))

PolicyInv ==
    /\ current # None => current \in Documents /\ Check(current) = "Ok"
    /\ eval = Idle \/ eval \in EvalRecord
    /\ WalkInv
    /\ DenyOverrides

\* A document that passes check has unique rule identifiers and known routes.
LEMMA CheckedDocument ==
    ASSUME NEW d, Check(d) = "Ok"
    PROVE  Unique(d.rule) /\ check_routes(d)
BY DEF Check, check_unique_ids

\* An order visits rules, and every rule.
LEMMA OrderVisitsAll ==
    ASSUME NEW d \in Documents, NEW o \in Orders(d)
    PROVE  /\ Len(d.rule) \in Nat /\ DOMAIN d.rule = 1..Len(d.rule)
           /\ \A k \in 1..Len(d.rule) : o[k] \in DOMAIN d.rule
           /\ \A i \in DOMAIN d.rule : \E k \in 1..Len(d.rule) : o[k] = i
<1>1. Len(d.rule) \in Nat /\ DOMAIN d.rule = 1..Len(d.rule)
  BY PolicyAssumption
<1> QED BY <1>1 DEF Orders

\* Classes are numbers.
LEMMA ClassNumbers == \A x \in DOMAIN RuleClass : RuleClass[x] \in Nat
BY DEF RuleClass, ExposureClass

\* Joining a number to the greatest of a set gives the greatest of both.
LEMMA JoinGreatest ==
    ASSUME NEW S \in SUBSET Nat, NEW x \in Nat, NEW y \in Nat, Greatest(x, S)
    PROVE  Join(x, y) \in Nat /\ Greatest(Join(x, y), S \cup {y})
BY DEF Greatest, Join

\* The classes and consents of a document's rules are numbers.
Numbered(S) ==
    \A r \in S : /\ r.effect.exposure # None => RuleClass[r.effect.exposure] \in Nat
                 /\ r.effect.consent # None => r.effect.consent \in Nat

\* Their exposures and consents come from the enumerations of the document.
LEMMA RulesNumbered ==
    ASSUME NEW d \in Documents
    PROVE  \A i \in DOMAIN d.rule : Numbered({d.rule[i]})
<1>1. \A j \in DOMAIN d.rule :
        /\ d.rule[j].effect.exposure \in DOMAIN RuleClass \cup {None}
        /\ d.rule[j].effect.consent \in 0..3 \cup {None}
  BY PolicyAssumption
<1> QED BY <1>1, ClassNumbers DEF Numbered

\* One more rule that matches and allows.
LEMMA RuleJoins ==
    ASSUME NEW e, NEW n, NEW S, NEW r, r.effect.access = "allow", Walked(e, S),
           Numbered(S \cup {r}),
           e.facts \in Requests, e.exposure \in Nat, e.consent \in Nat, e.allows \in Nat,
           n.facts = e.facts, n.allows = e.allows + 1,
           n.exposure = (IF r.effect.exposure = None THEN e.exposure
                         ELSE Joined(e.exposure, RuleClass[r.effect.exposure])),
           n.consent = (IF r.effect.consent = None THEN e.consent
                        ELSE Joined(e.consent, r.effect.consent)),
           n.routes = IF r.effect.route = None THEN e.routes ELSE e.routes \cup {r.effect.route}
    PROVE  Walked(n, S \cup {r}) /\ n.exposure \in Nat /\ n.consent \in Nat
<1>1. \A s \in S \cup {r} :
        /\ s.effect.exposure # None => RuleClass[s.effect.exposure] \in Nat
        /\ s.effect.consent # None => s.effect.consent \in Nat
  BY DEF Numbered
<1>2. {e.facts.floor} \cup ClassesOf(S) \in SUBSET Nat /\ {0} \cup ConsentsOf(S) \in SUBSET Nat
  <2>1. e.facts.floor \in Nat
    BY PolicyAssumption
  <2> QED BY <1>1, <2>1 DEF ClassesOf, ConsentsOf
<1>3. /\ ClassesOf(S \cup {r}) = IF r.effect.exposure = None THEN ClassesOf(S)
                                 ELSE ClassesOf(S) \cup {RuleClass[r.effect.exposure]}
      /\ ConsentsOf(S \cup {r}) = IF r.effect.consent = None THEN ConsentsOf(S)
                                  ELSE ConsentsOf(S) \cup {r.effect.consent}
      /\ RoutesOf(S \cup {r}) = IF r.effect.route = None THEN RoutesOf(S)
                                ELSE RoutesOf(S) \cup {r.effect.route}
  BY DEF ClassesOf, ConsentsOf, RoutesOf
<1>4. n.exposure \in Nat /\ Greatest(n.exposure, {n.facts.floor} \cup ClassesOf(S \cup {r}))
  <2>1. Greatest(e.exposure, {e.facts.floor} \cup ClassesOf(S))
    BY DEF Walked
  <2>2. CASE r.effect.exposure = None
    BY <1>3, <2>1, <2>2
  <2>3. CASE r.effect.exposure # None
    <3>1. RuleClass[r.effect.exposure] \in Nat
      BY <1>1, <2>3
    <3>2. n.exposure = Join(e.exposure, RuleClass[r.effect.exposure])
      BY <2>3 DEF Joined
    <3>3. n.exposure \in Nat
          /\ Greatest(n.exposure, ({e.facts.floor} \cup ClassesOf(S))
                                     \cup {RuleClass[r.effect.exposure]})
      <4> DEFINE T == {e.facts.floor} \cup ClassesOf(S)
      <4>1. T \in SUBSET Nat /\ Greatest(e.exposure, T)
        BY <1>2, <2>1
      <4> HIDE DEF T
      <4>2. /\ Join(e.exposure, RuleClass[r.effect.exposure]) \in Nat
            /\ Greatest(Join(e.exposure, RuleClass[r.effect.exposure]), T \cup {RuleClass[r.effect.exposure]})
        <5> DEFINE a == e.exposure
                   b == RuleClass[r.effect.exposure]
        <5>1. a \in Nat /\ b \in Nat /\ Greatest(a, T)
          BY <3>1, <4>1
        <5> HIDE DEF a, b
        <5>2. Join(a, b) \in Nat /\ Greatest(Join(a, b), T \cup {b})
          BY <4>1, <5>1, JoinGreatest
        <5> QED BY <5>2 DEF a, b
      <4> QED BY <3>2, <4>2 DEF T
    <3>4. ({e.facts.floor} \cup ClassesOf(S)) \cup {RuleClass[r.effect.exposure]}
            = {n.facts.floor} \cup ClassesOf(S \cup {r})
      BY <1>3, <2>3
    <3> QED BY <3>3, <3>4
  <2> QED BY <2>2, <2>3
<1>5. n.consent \in Nat /\ Greatest(n.consent, {0} \cup ConsentsOf(S \cup {r}))
  <2>1. Greatest(e.consent, {0} \cup ConsentsOf(S))
    BY DEF Walked
  <2>2. CASE r.effect.consent = None
    BY <1>3, <2>1, <2>2
  <2>3. CASE r.effect.consent # None
    <3>1. r.effect.consent \in Nat
      BY <1>1, <2>3
    <3>2. n.consent = Join(e.consent, r.effect.consent)
      BY <2>3 DEF Joined
    <3>3. n.consent \in Nat
          /\ Greatest(n.consent, ({0} \cup ConsentsOf(S)) \cup {r.effect.consent})
      <4> DEFINE T == {0} \cup ConsentsOf(S)
      <4>1. T \in SUBSET Nat /\ Greatest(e.consent, T)
        BY <1>2, <2>1
      <4> HIDE DEF T
      <4>2. /\ Join(e.consent, r.effect.consent) \in Nat
            /\ Greatest(Join(e.consent, r.effect.consent), T \cup {r.effect.consent})
        <5> DEFINE a == e.consent
                   b == r.effect.consent
        <5>1. a \in Nat /\ b \in Nat /\ Greatest(a, T)
          BY <3>1, <4>1
        <5> HIDE DEF a, b
        <5>2. Join(a, b) \in Nat /\ Greatest(Join(a, b), T \cup {b})
          BY <4>1, <5>1, JoinGreatest
        <5> QED BY <5>2 DEF a, b
      <4> QED BY <3>2, <4>2 DEF T
    <3>4. ({0} \cup ConsentsOf(S)) \cup {r.effect.consent} = {0} \cup ConsentsOf(S \cup {r})
      BY <1>3, <2>3
    <3> QED BY <3>3, <3>4
  <2> QED BY <2>2, <2>3
<1>6. /\ \A s \in S \cup {r} : s.effect.access = "allow"
      /\ n.routes = RoutesOf(S \cup {r})
  BY <1>3 DEF Walked
<1>7. n.allows # 0 /\ S \cup {r} # {}
  OBVIOUS
<1> QED BY <1>4, <1>5, <1>6, <1>7 DEF Walked

\* A step of the loop takes the next rule of the order into what was seen.
LEMMA SeenGrows ==
    ASSUME NEW d, NEW facts, NEW o, NEW n \in Nat \ {0}
    PROVE  Seen(d, facts, o, n) = Seen(d, facts, o, n - 1) \cup
              (IF Matched(d.rule[o[n]], facts) THEN {d.rule[o[n]]} ELSE {})
<1>1. 1..n = 1..(n - 1) \cup {n}
  OBVIOUS
<1> QED BY <1>1 DEF Seen

\* What is seen are matching rules of the document.
LEMMA SeenAreRules ==
    ASSUME NEW d \in Documents, NEW facts, NEW o \in Orders(d), NEW n \in 0..Len(d.rule),
           NEW r \in Seen(d, facts, o, n)
    PROVE  Matched(r, facts) /\ \E i \in DOMAIN d.rule : r = d.rule[i]
<1>1. /\ Len(d.rule) \in Nat /\ DOMAIN d.rule = 1..Len(d.rule)
      /\ \A k \in 1..Len(d.rule) : o[k] \in DOMAIN d.rule
  BY OrderVisitsAll
<1>2. PICK k \in 1..n : r = d.rule[o[k]] /\ Matched(r, facts)
  BY DEF Seen
<1>3. k \in 1..Len(d.rule)
  BY <1>1
<1> QED BY <1>1, <1>2, <1>3

\* At the end of the loop every rule that matches was seen.
LEMMA SeenMatching ==
    ASSUME NEW d \in Documents, NEW facts, NEW o \in Orders(d)
    PROVE  Seen(d, facts, o, Len(d.rule)) = Matching(d, facts)
<1>1. /\ Len(d.rule) \in Nat /\ DOMAIN d.rule = 1..Len(d.rule)
      /\ \A i \in DOMAIN d.rule : \E k \in 1..Len(d.rule) : o[k] = i
  BY OrderVisitsAll
<1>2. ASSUME NEW r \in Matching(d, facts)
      PROVE  r \in Seen(d, facts, o, Len(d.rule))
  <2>1. PICK i \in DOMAIN d.rule : r = d.rule[i] /\ Matched(r, facts)
    BY DEF Matching
  <2>2. PICK k \in 1..Len(d.rule) : o[k] = i
    BY <1>1
  <2> QED BY <2>1, <2>2 DEF Seen
<1>3. Len(d.rule) \in 0..Len(d.rule)
  BY <1>1
<1>4. \A r \in Seen(d, facts, o, Len(d.rule)) : r \in Matching(d, facts)
  BY <1>3, SeenAreRules DEF Matching
<1> QED BY <1>2, <1>4

\* Two rules of the same match match alike, so a shadowed allow that matches is
\* overridden by the deny that shadows it.
LEMMA ShadowedIsDenied ==
    ASSUME NEW d \in Documents, Check(d) = "Ok", NEW facts, NEW r \in Matching(d, facts),
           \A s \in Matching(d, facts) : s.effect.access = "allow"
    PROVE  <<"UnreachableAllow", r.id>> \notin check_warnings(d)
<1> SUFFICES ASSUME <<"UnreachableAllow", r.id>> \in check_warnings(d)
             PROVE  FALSE
  OBVIOUS
<1>1. PICK i \in DOMAIN d.rule : Shadowed(d, i) /\ d.rule[i].id = r.id
  BY DEF check_warnings
<1>2. PICK k \in DOMAIN d.rule : r = d.rule[k] /\ Matched(r, facts)
  BY DEF Matching
<1>3. k = i
  BY <1>1, <1>2, CheckedDocument DEF Unique
<1>4. PICK j \in 1..(i - 1) : d.rule[j].match = d.rule[i].match /\ d.rule[j].effect.access = "deny"
  BY <1>1 DEF Shadowed
<1>5. j \in DOMAIN d.rule
  <2>1. DOMAIN d.rule = 1..Len(d.rule) /\ Len(d.rule) \in Nat
    BY PolicyAssumption
  <2> QED BY <1>1, <1>4, <2>1
<1>6. d.rule[j] \in Matching(d, facts)
  BY <1>2, <1>3, <1>4, <1>5 DEF Matching, Matched
<1> QED BY <1>4, <1>6

\* Measuring the request and taking the snapshot.
LEMMA BeginStep ==
    ASSUME PolicyInv, NEW f \in Requests, Begin(f)
    PROVE  PolicyInv'
<1>1. current \in Documents /\ Check(current) = "Ok" /\ current' = current /\ current # None
  BY DEF PolicyInv, Begin
<1>2. PICK o \in Orders(current) :
        eval' = [pc |-> IF TooLarge(current, f) THEN "done" ELSE "rules",
                 doc |-> current, facts |-> f, order |-> o, next |-> 1,
                 allows |-> 0, exposure |-> f.floor,
                 consent |-> ConsentMode.None, routes |-> {},
                 result |-> IF TooLarge(current, f) THEN "LimitExceeded" ELSE "none"]
  BY DEF Begin
<1>3. ConsentMode.None = 0
  BY DEF ConsentMode
<1>4. f.floor \in Nat /\ o \in UNION {Orders(d) : d \in Documents}
  BY <1>1, PolicyAssumption
<1>5. /\ eval'.pc = (IF TooLarge(current, f) THEN "done" ELSE "rules")
      /\ eval'.doc = current /\ eval'.facts = f /\ eval'.order = o /\ eval'.next = 1
      /\ eval'.allows = 0 /\ eval'.exposure = f.floor /\ eval'.consent = 0
      /\ eval'.routes = {}
      /\ eval'.result = (IF TooLarge(current, f) THEN "LimitExceeded" ELSE "none")
  BY <1>2, <1>3
<1>6. eval' \in EvalRecord
  BY <1>1, <1>2, <1>3, <1>4 DEF EvalRecord
<1>7. Seen(current, f, o, 0) = {}
  BY DEF Seen
<1>8. Walked(eval', {})
  BY <1>4, <1>5 DEF Walked, Greatest, ClassesOf, ConsentsOf, RoutesOf
<1>9. WalkInv'
  <2>1. Len(current.rule) \in Nat
    BY <1>1, PolicyAssumption
  <2>2. eval'.next - 1 = 0 /\ eval'.next \in 1..(Len(current.rule) + 1)
    BY <1>5, <2>1
  <2> QED BY <1>5, <1>7, <1>8, <2>2 DEF WalkInv
<1>10. DenyOverrides'
  <2>1. eval'.pc = "done" => TooLarge(current, f) /\ eval'.result # "Ok"
    BY <1>5
  <2> QED BY <1>5, <2>1 DEF DenyOverrides, Permits
<1> QED BY <1>1, <1>6, <1>9, <1>10 DEF PolicyInv

\* One rule of the loop.
LEMMA RuleStep ==
    ASSUME PolicyInv, Rule
    PROVE  PolicyInv'
<1> DEFINE d == eval.doc
           r == d.rule[eval.order[eval.next]]
           S == Seen(d, eval.facts, eval.order, eval.next - 1)
<1>1. eval.pc = "rules" /\ eval.next <= Len(d.rule) /\ current' = current
  BY DEF Rule
<1>2. eval \in EvalRecord
  BY <1>1 DEF PolicyInv, Idle
<1>3. /\ d \in Documents /\ Check(d) = "Ok" /\ eval.facts \in Requests /\ eval.allows \in Nat
      /\ eval.exposure \in Nat /\ eval.consent \in Nat
      /\ eval.routes \in SUBSET UNION {Ids(c.provider_route) : c \in Documents}
  BY <1>2 DEF EvalRecord
<1>4. /\ ~TooLarge(d, eval.facts) /\ eval.order \in Orders(d)
      /\ eval.next \in 1..(Len(d.rule) + 1) /\ Walked(eval, S)
  BY <1>1 DEF PolicyInv, WalkInv
<1>5. /\ Len(d.rule) \in Nat /\ DOMAIN d.rule = 1..Len(d.rule)
      /\ \A k \in 1..Len(d.rule) : eval.order[k] \in DOMAIN d.rule
  BY <1>3, <1>4, OrderVisitsAll
<1>6. eval.next \in Nat \ {0} /\ eval.next \in 1..Len(d.rule) /\ eval.next - 1 \in 0..Len(d.rule)
      /\ eval.next + 1 \in 1..(Len(d.rule) + 1) /\ (eval.next + 1) - 1 = eval.next
  BY <1>1, <1>4, <1>5
<1>7. eval.order[eval.next] \in DOMAIN d.rule
  BY <1>5, <1>6
<1>8. Seen(d, eval.facts, eval.order, eval.next) =
         S \cup (IF Matched(r, eval.facts) THEN {r} ELSE {})
  <2> DEFINE n == eval.next
             o == eval.order
             f == eval.facts
  <2>1. n \in Nat \ {0}
    BY <1>6
  <2> HIDE DEF n, o, f, d
  <2>2. Seen(d, f, o, n) = Seen(d, f, o, n - 1) \cup
           (IF Matched(d.rule[o[n]], f) THEN {d.rule[o[n]]} ELSE {})
    BY <2>1, SeenGrows
  <2> QED BY <2>2 DEF n, o, f
<1>9. \A s \in S : \E i \in DOMAIN d.rule : s = d.rule[i]
  BY <1>3, <1>4, <1>6, SeenAreRules
<1>10. r \in Matching(d, eval.facts) \/ ~Matched(r, eval.facts)
  BY <1>7 DEF Matching
<1> HIDE DEF S
<1>11. CASE ~Matched(r, eval.facts) /\ eval' = [eval EXCEPT !.next = @ + 1]
  <2>1. /\ eval' \in EvalRecord /\ eval'.next = eval.next + 1 /\ eval'.pc = eval.pc
        /\ eval'.doc = d /\ eval'.facts = eval.facts /\ eval'.order = eval.order
        /\ eval'.allows = eval.allows /\ eval'.exposure = eval.exposure
        /\ eval'.consent = eval.consent /\ eval'.routes = eval.routes
    BY <1>2, <1>11 DEF EvalRecord
  <2>2. Seen(d, eval.facts, eval.order, eval.next) = S
    BY <1>8, <1>11
  <2>3. Walked(eval', S)
    BY <1>4, <2>1 DEF Walked
  <2>4. WalkInv'
    BY <1>4, <1>6, <2>1, <2>2, <2>3 DEF WalkInv
  <2>5. DenyOverrides'
    BY <1>1, <2>1 DEF DenyOverrides
  <2> QED BY <1>1, <2>1, <2>4, <2>5 DEF PolicyInv
<1>12. CASE /\ Matched(r, eval.facts) /\ r.effect.access = "deny"
            /\ eval' = [eval EXCEPT !.pc = "done", !.result = "PolicyDenied"]
  <2>1. /\ eval' \in EvalRecord /\ eval'.pc = "done" /\ eval'.result = "PolicyDenied"
        /\ eval'.doc = d /\ eval'.facts = eval.facts
    BY <1>2, <1>12 DEF EvalRecord
  <2>2. ~Permits(d, eval.facts)
    BY <1>10, <1>12 DEF Permits
  <2> QED BY <1>1, <2>1, <2>2 DEF PolicyInv, WalkInv, DenyOverrides
<1>13. CASE /\ Matched(r, eval.facts) /\ r.effect.access = "allow"
            /\ eval' = [eval EXCEPT
                    !.next = @ + 1, !.allows = @ + 1,
                    !.exposure = IF r.effect.exposure = None THEN @
                                 ELSE Joined(@, RuleClass[r.effect.exposure]),
                    !.consent = IF r.effect.consent = None THEN @
                                ELSE Joined(@, r.effect.consent),
                    !.routes = IF r.effect.route = None THEN @ ELSE @ \cup {r.effect.route}]
  <2> DEFINE x == IF r.effect.exposure = None THEN eval.exposure
                  ELSE Joined(eval.exposure, RuleClass[r.effect.exposure])
             c == IF r.effect.consent = None THEN eval.consent
                  ELSE Joined(eval.consent, r.effect.consent)
             q == IF r.effect.route = None THEN eval.routes
                  ELSE eval.routes \cup {r.effect.route}
             n == [facts |-> eval.facts, allows |-> eval.allows + 1, exposure |-> x,
                   consent |-> c, routes |-> q]
  <2>1. Walked(n, S \cup {r}) /\ x \in Nat /\ c \in Nat
    <3>1. /\ n.facts = eval.facts /\ n.allows = eval.allows + 1 /\ n.exposure = x
          /\ n.consent = c /\ n.routes = q
      OBVIOUS
    <3>2. Numbered(S \cup {r})
      BY <1>3, <1>7, <1>9, RulesNumbered DEF Numbered
    <3> HIDE DEF n, r, d
    <3>3. Walked(n, S \cup {r}) /\ n.exposure \in Nat /\ n.consent \in Nat
      BY <1>3, <1>4, <1>13, <3>1, <3>2, RuleJoins
    <3> QED BY <3>1, <3>3
  <2>2. q \in SUBSET UNION {Ids(e.provider_route) : e \in Documents}
    <3>1. r.effect.route \in Ids(d.provider_route) \cup {None}
      BY <1>3, <1>7, CheckedDocument DEF check_routes
    <3> QED BY <1>3, <3>1
  <2> DEFINE k == eval.next + 1
             w == eval.allows + 1
  <2>3. eval' = [eval EXCEPT !.next = k, !.allows = w, !.exposure = x, !.consent = c,
                             !.routes = q]
    BY <1>13
  <2>9. k \in Nat /\ w \in Nat
    BY <1>3, <1>6
  <2> HIDE DEF x, c, q, k, w, r
  <2>4. /\ eval' \in EvalRecord /\ eval'.next = k /\ eval'.pc = eval.pc
        /\ eval'.doc = eval.doc /\ eval'.facts = eval.facts /\ eval'.order = eval.order
        /\ eval'.allows = w /\ eval'.exposure = x
        /\ eval'.consent = c /\ eval'.routes = q
    BY <1>2, <2>1, <2>2, <2>3, <2>9 DEF EvalRecord
  <2>5. Walked(eval', S \cup {r})
    BY <2>1, <2>4 DEF Walked, w
  <2>6. Seen(d, eval.facts, eval.order, eval.next) = S \cup {r}
    BY <1>8, <1>13
  <2>7. WalkInv'
    BY <1>4, <1>6, <2>4, <2>5, <2>6 DEF WalkInv, k
  <2>8. DenyOverrides'
    BY <1>1, <2>4 DEF DenyOverrides
  <2> QED BY <1>1, <2>4, <2>7, <2>8 DEF PolicyInv
<1> QED BY <1>11, <1>12, <1>13 DEF Rule

\* The decision after the loop.
LEMMA DecideStep ==
    ASSUME PolicyInv, Decide
    PROVE  PolicyInv'
<1> DEFINE d == eval.doc
           facts == eval.facts
           M == Matching(d, facts)
           raise == eval.allows > 0 /\ Elevated(facts)
           x == IF raise THEN Join(eval.exposure, ExposureClass.Transformed) ELSE eval.exposure
           c == IF raise THEN Join(eval.consent, ConsentMode.Approval) ELSE eval.consent
           v == IF eval.allows = 0 THEN "PolicyDenied"
                ELSE IF \E a, b \in eval.routes : a # b THEN "RouteDenied" ELSE "Ok"
<1>1. /\ eval.pc = "rules" /\ eval.next > Len(d.rule) /\ current' = current
      /\ eval' = [eval EXCEPT !.pc = "done", !.exposure = x, !.consent = c, !.result = v]
  BY DEF Decide
<1>2. eval \in EvalRecord
  BY <1>1 DEF PolicyInv, Idle
<1>3. /\ d \in Documents /\ Check(d) = "Ok" /\ facts \in Requests /\ eval.allows \in Nat
      /\ eval.exposure \in Nat /\ eval.consent \in Nat
  BY <1>2 DEF EvalRecord
<1>4. /\ ~TooLarge(d, facts) /\ eval.order \in Orders(d)
      /\ eval.next \in 1..(Len(d.rule) + 1)
      /\ Walked(eval, Seen(d, facts, eval.order, eval.next - 1))
  BY <1>1 DEF PolicyInv, WalkInv
<1>5. eval.next - 1 = Len(d.rule)
  <2>1. Len(d.rule) \in Nat
    BY <1>3, PolicyAssumption
  <2> QED BY <1>1, <1>4, <2>1
<1>6. Walked(eval, M)
  BY <1>3, <1>4, <1>5, SeenMatching
<1>7. /\ ExposureClass.Transformed = 1 /\ ConsentMode.Approval = 1 /\ ConsentMode.None = 0
  BY DEF ExposureClass, ConsentMode
<1>8. {facts.floor} \cup ClassesOf(M) \in SUBSET Nat /\ {0} \cup ConsentsOf(M) \in SUBSET Nat
  <2>1. \A r \in M : /\ r.effect.exposure # None => RuleClass[r.effect.exposure] \in Nat
                     /\ r.effect.consent # None => r.effect.consent \in Nat
    <3>1. \A r \in M : \E i \in DOMAIN d.rule : r = d.rule[i]
      BY DEF Matching
    <3> QED BY <1>3, <3>1, RulesNumbered DEF Numbered
  <2>2. facts.floor \in Nat
    BY <1>3, PolicyAssumption
  <2> QED BY <2>1, <2>2 DEF ClassesOf, ConsentsOf
<1>9. /\ x \in Nat
      /\ Greatest(x, ({facts.floor} \cup ClassesOf(M)) \cup (IF raise THEN {1} ELSE {}))
  <2> DEFINE T == {facts.floor} \cup ClassesOf(M)
             a == eval.exposure
  <2>1. T \in SUBSET Nat /\ Greatest(a, T) /\ a \in Nat
    BY <1>3, <1>6, <1>8 DEF Walked
  <2> HIDE DEF T, a, raise
  <2>2. /\ (IF raise THEN Join(a, 1) ELSE a) \in Nat
        /\ Greatest(IF raise THEN Join(a, 1) ELSE a, T \cup (IF raise THEN {1} ELSE {}))
    BY <2>1 DEF Greatest, Join
  <2> QED BY <1>7, <2>2 DEF T, a
<1>10. /\ c \in Nat
       /\ Greatest(c, ({0} \cup ConsentsOf(M)) \cup (IF raise THEN {1} ELSE {}))
  <2> DEFINE T == {0} \cup ConsentsOf(M)
             a == eval.consent
  <2>1. T \in SUBSET Nat /\ Greatest(a, T) /\ a \in Nat
    BY <1>3, <1>6, <1>8 DEF Walked
  <2> HIDE DEF T, a, raise
  <2>2. /\ (IF raise THEN Join(a, 1) ELSE a) \in Nat
        /\ Greatest(IF raise THEN Join(a, 1) ELSE a, T \cup (IF raise THEN {1} ELSE {}))
    BY <2>1 DEF Greatest, Join
  <2> QED BY <1>7, <2>2 DEF T, a
<1>11. v = "Ok" => raise = Elevated(facts)
  BY <1>3 DEF Elevated
<1>12. v = "Ok" <=> eval.allows # 0 /\ \A a, b \in eval.routes : a = b
  OBVIOUS
<1>13. v \in {"none", "Ok", "PolicyDenied", "RouteDenied", "LimitExceeded"}
  OBVIOUS
<1> HIDE DEF x, c, v, raise
<1>14. /\ eval' \in EvalRecord /\ eval'.pc = "done" /\ eval'.doc = d /\ eval'.facts = facts
       /\ eval'.exposure = x /\ eval'.consent = c /\ eval'.result = v
       /\ eval'.routes = eval.routes
  BY <1>1, <1>2, <1>9, <1>10, <1>13 DEF EvalRecord
<1> HIDE DEF d, facts, M
<1>15. v = "Ok" <=> Permits(d, facts)
  <2>1. eval.allows # 0 <=> \E r \in M : TRUE
    BY <1>6 DEF Walked
  <2>2. \A r \in M : r.effect.access = "allow"
    BY <1>6 DEF Walked
  <2>3. (\A a, b \in eval.routes : a = b) <=>
          \A r, s \in M : (r.effect.route # None /\ s.effect.route # None)
                              => r.effect.route = s.effect.route
    BY ZenonT(40), <1>6 DEF Walked, RoutesOf
  <2> QED BY <1>4, <1>12, <2>1, <2>2, <2>3 DEF Permits, M
<1>16. v = "Ok" =>
          /\ Exposures(d, facts) = ({facts.floor} \cup ClassesOf(M))
                                      \cup (IF raise THEN {1} ELSE {})
          /\ Consents(d, facts) = ({0} \cup ConsentsOf(M)) \cup (IF raise THEN {1} ELSE {})
  BY <1>7, <1>11 DEF Exposures, Consents, ClassesOf, ConsentsOf, M
<1>17. eval.routes \subseteq Ids(d.provider_route)
  <2>1. \A r \in M : r.effect.route \in Ids(d.provider_route) \cup {None}
    BY <1>3, CheckedDocument DEF check_routes, M, Matching
  <2> QED BY <1>6, <2>1 DEF Walked, RoutesOf
<1>18. \A r \in M : <<"UnreachableAllow", r.id>> \notin check_warnings(d)
  <2>1. \A r \in M : r.effect.access = "allow"
    BY <1>6 DEF Walked
  <2> QED BY <1>3, <2>1, ShadowedIsDenied DEF M
<1>19. DenyOverrides'
  <2>1. v = "Ok" =>
          /\ x \in Exposures(d, facts) /\ \A y \in Exposures(d, facts) : y <= x
          /\ c \in Consents(d, facts) /\ \A y \in Consents(d, facts) : y <= c
    BY <1>9, <1>10, <1>16 DEF Greatest
  <2> QED BY <1>14, <1>15, <1>17, <1>18, <2>1 DEF DenyOverrides, M
<1>20. WalkInv'
  BY <1>14 DEF WalkInv
<1> QED BY <1>1, <1>14, <1>19, <1>20 DEF PolicyInv

\* The invariant of the store and of an evaluation.
THEOREM PolicyInvariant == PolicySpec => []PolicyInv
<1>1. PolicyInit => PolicyInv
  BY DEF PolicyInit, PolicyInv, WalkInv, DenyOverrides, Idle
<1>2. PolicyInv /\ [PolicyNext]_policyVars => PolicyInv'
  <2> SUFFICES ASSUME PolicyInv, [PolicyNext]_policyVars PROVE PolicyInv'
    OBVIOUS
  <2>1. ASSUME NEW d \in Documents, Activate(d)
        PROVE  PolicyInv'
    BY <2>1 DEF Activate, PolicyInv, WalkInv, DenyOverrides
  <2>2. CASE UNCHANGED policyVars
    BY <2>2 DEF policyVars, PolicyInv, WalkInv, DenyOverrides
  <2> QED BY <2>1, <2>2, BeginStep, RuleStep, DecideStep DEF PolicyNext
<1> QED BY <1>1, <1>2, PTL DEF PolicySpec

\* For every document and request, whatever the priorities and however the
\* store is swapped meanwhile: an evaluation decides exactly as the snapshot it
\* took, read without an order, and its effect is the least upper bound.
THEOREM PolicyDenyOverrides == PolicySpec => []DenyOverrides
<1>1. PolicyInv => DenyOverrides
  BY DEF PolicyInv
<1> QED BY <1>1, PolicyInvariant, PTL

\* The rule of an identifier is the one that bears it.
LEMMA RuleOfIsUnique ==
    ASSUME NEW d, Unique(d.rule), NEW i \in DOMAIN d.rule
    PROVE  RuleOf(d, d.rule[i].id) = d.rule[i]
<1> DEFINE k == CHOOSE j \in DOMAIN d.rule : d.rule[j].id = d.rule[i].id
<1>1. k \in DOMAIN d.rule /\ d.rule[k].id = d.rule[i].id
  OBVIOUS
<1>2. k = i
  BY <1>1 DEF Unique
<1> QED BY <1>2 DEF RuleOf

\* A diff of the rules that is empty names no rule that is removed, new or changed.
LEMMA NoRuleDiffers ==
    ASSUME NEW old, NEW new, diff_rules(old, new) = {}
    PROVE  /\ Ids(old.rule) = Ids(new.rule)
           /\ \A id \in Ids(old.rule) : ~Changed(old, new, id)
<1> DEFINE removed == Ids(old.rule) \ Ids(new.rule)
           added == Ids(new.rule) \ Ids(old.rule)
           changed == {id \in Ids(old.rule) \cap Ids(new.rule) : Changed(old, new, id)}
<1>1. {<<"RuleRemoved", id>> : id \in removed} \subseteq diff_rules(old, new)
  BY DEF diff_rules
<1>2. {<<"RuleAdded", id>> : id \in added} \subseteq diff_rules(old, new)
  BY DEF diff_rules
<1>3. {<<"RuleChanged", id>> : id \in changed} \subseteq diff_rules(old, new)
  BY DEF diff_rules
<1> HIDE DEF removed, added, changed
<1>4. removed = {}
  BY <1>1
<1>5. added = {}
  BY <1>2
<1>6. changed = {}
  BY <1>3
<1>7. Ids(old.rule) = Ids(new.rule)
  BY <1>4, <1>5 DEF removed, added
<1> QED BY <1>6, <1>7 DEF changed

\* Every matching rule of one document has its like in the other.
Covers(d, e, f) ==
    \A r \in Matching(d, f) : \E s \in Matching(e, f) : s.effect = r.effect

\* Rules that differ by priority and place alone match alike.
LEMMA AlikeRulesCover ==
    ASSUME NEW d, NEW e, Unique(d.rule), Unique(e.rule), Ids(d.rule) \subseteq Ids(e.rule),
           \A id \in Ids(d.rule) : /\ RuleOf(d, id).match = RuleOf(e, id).match
                                   /\ RuleOf(d, id).effect = RuleOf(e, id).effect,
           NEW f
    PROVE  Covers(d, e, f)
<1> SUFFICES ASSUME NEW r \in Matching(d, f)
             PROVE  \E s \in Matching(e, f) : s.effect = r.effect
  BY DEF Covers
<1>1. PICK i \in DOMAIN d.rule : r = d.rule[i] /\ Matched(r, f)
  BY DEF Matching
<1>2. d.rule[i].id \in Ids(d.rule)
  BY DEF Ids
<1>3. PICK j \in DOMAIN e.rule : e.rule[j].id = d.rule[i].id
  BY <1>2 DEF Ids
<1>4. RuleOf(d, d.rule[i].id) = d.rule[i] /\ RuleOf(e, e.rule[j].id) = e.rule[j]
  BY RuleOfIsUnique
<1>5. e.rule[j].match = r.match /\ e.rule[j].effect = r.effect
  BY <1>1, <1>2, <1>3, <1>4
<1>6. e.rule[j] \in Matching(e, f)
  BY <1>1, <1>5 DEF Matching, Matched
<1> QED BY <1>5, <1>6

\* A diff of the limits that is empty leaves every limit as it was.
LEMMA NoLimitDiffers ==
    ASSUME NEW old \in Documents, NEW new \in Documents, diff_limits(old, new) = {}
    PROVE  \A x \in LimitFields : old.limits[x] = new.limits[x]
<1> SUFFICES ASSUME NEW x \in LimitFields
             PROVE  old.limits[x] = new.limits[x]
  OBVIOUS
<1>1. old.limits[x] \in Nat /\ new.limits[x] \in Nat
  BY PolicyAssumption
<1>2. new.limits[x] > old.limits[x] => <<"LimitLoosened", x>> \in diff_limits(old, new)
  BY DEF diff_limits
<1>3. new.limits[x] < old.limits[x] => <<"LimitTightened", x>> \in diff_limits(old, new)
  BY DEF diff_limits
<1> QED BY <1>1, <1>2, <1>3

\* Two documents whose matching rules cover each other decide alike.
LEMMA CoversDecideAlike ==
    ASSUME NEW d, NEW e, NEW f, Covers(d, e, f), Covers(e, d, f),
           d.limits.request_bytes = e.limits.request_bytes,
           d.limits.fragment_bytes = e.limits.fragment_bytes
    PROVE  /\ Permits(d, f) <=> Permits(e, f)
           /\ Exposures(d, f) = Exposures(e, f)
           /\ Consents(d, f) = Consents(e, f)
<1>1. TooLarge(d, f) <=> TooLarge(e, f)
  BY DEF TooLarge
<1> DEFINE A == Matching(d, f)
           B == Matching(e, f)
<1>2. /\ \A r \in A : \E s \in B : s.effect = r.effect
      /\ \A r \in B : \E s \in A : s.effect = r.effect
  BY DEF Covers
<1> HIDE DEF A, B
<1>3. (\E r \in A : TRUE) <=> (\E r \in B : TRUE)
  BY <1>2
<1>4. (\A r \in A : r.effect.access = "allow") <=> (\A r \in B : r.effect.access = "allow")
  BY <1>2
<1>5. (\A r, s \in A : (r.effect.route # None /\ s.effect.route # None)
                          => r.effect.route = s.effect.route)
      <=> (\A r, s \in B : (r.effect.route # None /\ s.effect.route # None)
                          => r.effect.route = s.effect.route)
  BY <1>2
<1>6. /\ ClassesOf(A) = ClassesOf(B) /\ ConsentsOf(A) = ConsentsOf(B)
  BY <1>2 DEF ClassesOf, ConsentsOf
<1>7. Permits(d, f) <=> Permits(e, f)
  BY <1>1, <1>3, <1>4, <1>5 DEF Permits, A, B
<1>8. Exposures(d, f) = Exposures(e, f) /\ Consents(d, f) = Consents(e, f)
  BY <1>6 DEF Exposures, Consents, ClassesOf, ConsentsOf, A, B
<1> QED BY <1>7, <1>8

\* For every two documents that pass check: a diff that reports nothing hides
\* nothing.
LEMMA SilentDiffHidesNothing ==
    ASSUME NEW d \in Documents, NEW e \in Documents, Check(d) = "Ok", Check(e) = "Ok",
           diff(d, e) = {}, NEW f
    PROVE  /\ Permits(d, f) <=> Permits(e, f)
           /\ Exposures(d, f) = Exposures(e, f)
           /\ Consents(d, f) = Consents(e, f)
<1>1. diff_rules(d, e) = {} /\ diff_limits(d, e) = {}
  BY DEF diff
<1>2. Unique(d.rule) /\ Unique(e.rule)
  BY CheckedDocument
<1>3. /\ Ids(d.rule) = Ids(e.rule)
      /\ \A id \in Ids(d.rule) : /\ RuleOf(d, id).match = RuleOf(e, id).match
                                 /\ RuleOf(d, id).effect = RuleOf(e, id).effect
  BY <1>1, NoRuleDiffers DEF Changed
<1>4. Covers(d, e, f)
  BY <1>2, <1>3, AlikeRulesCover
<1>5. Covers(e, d, f)
  BY <1>2, <1>3, AlikeRulesCover
<1>6. /\ d.limits.request_bytes = e.limits.request_bytes
      /\ d.limits.fragment_bytes = e.limits.fragment_bytes
  BY <1>1, NoLimitDiffers DEF LimitFields
<1> QED BY <1>4, <1>5, <1>6, CoversDecideAlike

\* The active document and one that may replace it, between which diff reports
\* nothing, permit the same requests with the same exposures and consents.
THEOREM PolicySilentDiff == PolicySpec => []SilentDiffDecidesAlike
<1>1. PolicyInv => SilentDiffDecidesAlike
  <2> SUFFICES ASSUME PolicyInv, NEW d \in Successors, diff(current, d) = {},
                      NEW f \in Requests
               PROVE  /\ Permits(current, f) <=> Permits(d, f)
                      /\ Exposures(current, f) = Exposures(d, f)
                      /\ Consents(current, f) = Consents(d, f)
    BY DEF SilentDiffDecidesAlike
  <2>1. /\ current \in Documents /\ Check(current) = "Ok"
        /\ d \in Documents /\ Check(d) = "Ok"
    BY DEF Successors, PolicyInv
  <2> QED BY <2>1, SilentDiffHidesNothing
<1> QED BY <1>1, PolicyInvariant, PTL

-----------------------------------------------------------------------------
(* The broker.                                                             *)

\* A call that was begun.
IsCall(b) ==
    b \in [pc : {b.pc}, req : {b.req}, secret : {b.secret}, screened : {b.screened},
           connected : {b.connected}, sent : {b.sent}, buffered : {b.buffered},
           reply : {b.reply}, returned : {b.returned}, result : {b.result}]

\* A header or a body that holds the secret.
Holding(v) == \E i \in DOMAIN v : v[i] = "secret"

BrokerInv ==
    /\ broker.pc \in {"idle", "resolve", "send", "sent", "body", "done"}
    /\ broker.pc # "idle" =>
          /\ IsCall(broker)
          /\ broker.req \in BrokerRequests
          /\ broker.buffered \in 0..MaxResponse
          /\ broker.sent # NoReply => broker.sent = RequestHeaders(broker.req, broker.secret)
          /\ broker.returned # NoReply =>
                \A n \in DOMAIN broker.returned : ~Holding(broker.returned[n])
    /\ broker.pc = "body" =>
          /\ "body" \in DOMAIN broker.returned
          /\ \A n \in DOMAIN broker.returned : ~Holding(broker.returned[n])

\* What is redacted does not hold the secret.
LEMMA RedactedIsClean == \A v : ~Holding(redact_secret(v))
BY DEF Holding, redact_secret

\* A call that ends keeps its parts.
LEMMA EndedParts ==
    ASSUME IsCall(broker), NEW x
    PROVE  /\ IsCall(Ended(x)) /\ Ended(x).pc = "done"
           /\ Ended(x).req = broker.req /\ Ended(x).secret = broker.secret
           /\ Ended(x).sent = broker.sent /\ Ended(x).buffered = broker.buffered
           /\ Ended(x).returned = broker.returned
<1> DEFINE c == Ended(x)
<1>1. c.pc = "done" /\ c.req = broker.req /\ c.secret = broker.secret
      /\ c.screened = broker.screened /\ c.connected = broker.connected
      /\ c.sent = broker.sent /\ c.buffered = broker.buffered
      /\ c.reply = broker.reply /\ c.returned = broker.returned /\ c.result = x
  BY DEF IsCall, Ended
<1>2. c \in [pc : {"done"}, req : {broker.req}, secret : {broker.secret},
           screened : {broker.screened}, connected : {broker.connected},
           sent : {broker.sent}, buffered : {broker.buffered}, reply : {broker.reply},
           returned : {broker.returned}, result : {x}]
  BY DEF IsCall, Ended
<1> HIDE DEF c
<1>3. IsCall(c)
  BY <1>1, <1>2 DEF IsCall
<1> QED BY <1>1, <1>3 DEF c

\* A call that ends keeps what it has.
LEMMA EndedKeeps ==
    ASSUME BrokerInv, broker.pc # "idle", NEW x, broker' = Ended(x)
    PROVE  BrokerInv'
<1>1. /\ IsCall(broker') /\ broker'.pc = "done" /\ broker'.req = broker.req
      /\ broker'.secret = broker.secret /\ broker'.sent = broker.sent
      /\ broker'.buffered = broker.buffered /\ broker'.returned = broker.returned
  <2>1. IsCall(broker)
    BY DEF BrokerInv
  <2> QED BY <2>1, EndedParts
<1> QED BY <1>1 DEF BrokerInv, RequestHeaders, owned_header_name

\* Every step of a call keeps the secret out of what is returned.
LEMMA BrokerStep ==
    ASSUME BrokerInv, BrokerNext
    PROVE  BrokerInv'
<1>1. ASSUME NEW r \in BrokerRequests, NEW s \in Secrets, NEW e \in BOOLEAN, Validate(r, s, e)
      PROVE  BrokerInv'
  <2>1. PICK v : broker' = [pc |-> IF v = "Ok" THEN "resolve" ELSE "done",
                      req |-> r, secret |-> s, screened |-> {},
                      connected |-> {}, sent |-> NoReply, buffered |-> 0,
                      reply |-> NoReply, returned |-> NoReply, result |-> v]
    BY <1>1 DEF Validate
  <2>2. /\ broker'.pc \in {"resolve", "done"} /\ broker'.req = r /\ broker'.secret = s
        /\ broker'.sent = NoReply /\ broker'.buffered = 0 /\ broker'.returned = NoReply
        /\ broker'.result = v /\ broker'.reply = NoReply /\ broker'.screened = {}
        /\ broker'.connected = {}
    BY <2>1
  <2>3. IsCall(broker')
    BY <2>1, <2>2 DEF IsCall
  <2> QED BY <2>2, <2>3, BrokerAssumption DEF BrokerInv
<1>2. ASSUME NEW s, broker.pc # "idle", broker' = [broker EXCEPT !.pc = "send", !.screened = s]
      PROVE  BrokerInv'
  <2>1. /\ broker'.pc = "send" /\ broker'.req = broker.req /\ broker'.secret = broker.secret
        /\ broker'.screened = s /\ broker'.connected = broker.connected
        /\ broker'.sent = broker.sent /\ broker'.buffered = broker.buffered
        /\ broker'.reply = broker.reply /\ broker'.returned = broker.returned
        /\ broker'.result = broker.result
    BY <1>2 DEF BrokerInv, IsCall
  <2>2. broker' \in [pc : {"send"}, req : {broker.req}, secret : {broker.secret},
           screened : {s}, connected : {broker.connected}, sent : {broker.sent},
           buffered : {broker.buffered}, reply : {broker.reply},
           returned : {broker.returned}, result : {broker.result}]
    BY <1>2 DEF BrokerInv, IsCall
  <2>3. IsCall(broker')
    BY <2>1, <2>2 DEF IsCall
  <2> QED BY <1>2, <2>1, <2>3 DEF BrokerInv, RequestHeaders, owned_header_name
<1>3. CASE ResolveAndScreen
  <2>1. broker.pc # "idle"
    BY <1>3 DEF ResolveAndScreen
  <2>2. \/ broker' = Ended("Dns")
        \/ broker' = Ended("BlockedAddress")
        \/ broker' = [broker EXCEPT !.pc = "send", !.screened = dns]
    BY <1>3 DEF ResolveAndScreen
  <2> QED BY <1>2, <2>1, <2>2, EndedKeeps
<1>4. ASSUME NEW a, Rebind(a)
      PROVE  BrokerInv'
  BY <1>4 DEF Rebind, BrokerInv, IsCall, RequestHeaders, owned_header_name
<1>5. CASE RefuseInjection \/ Upstream
  BY <1>5, EndedKeeps DEF RefuseInjection, Upstream
<1>6. ASSUME NEW ip, Connect(ip)
      PROVE  BrokerInv'
  <2> DEFINE h == RequestHeaders(broker.req, broker.secret)
  <2>1. broker.pc = "send"
        /\ broker' = [broker EXCEPT !.pc = "sent", !.connected = {ip}, !.sent = h]
    BY <1>6 DEF Connect
  <2> HIDE DEF h
  <2>2. /\ broker'.pc = "sent" /\ broker'.req = broker.req /\ broker'.secret = broker.secret
        /\ broker'.screened = broker.screened /\ broker'.connected = {ip}
        /\ broker'.sent = h /\ broker'.buffered = broker.buffered
        /\ broker'.reply = broker.reply /\ broker'.returned = broker.returned
        /\ broker'.result = broker.result
    BY <2>1 DEF BrokerInv, IsCall
  <2>3. broker' \in [pc : {"sent"}, req : {broker.req}, secret : {broker.secret},
           screened : {broker.screened}, connected : {{ip}}, sent : {h},
           buffered : {broker.buffered}, reply : {broker.reply},
           returned : {broker.returned}, result : {broker.result}]
    BY <2>1 DEF BrokerInv, IsCall
  <2>4. IsCall(broker')
    BY <2>2, <2>3 DEF IsCall
  <2>5. RequestHeaders(broker.req, broker.secret)' = h
    BY <2>2 DEF h, RequestHeaders, owned_header_name
  <2> QED BY <2>1, <2>2, <2>4, <2>5 DEF BrokerInv
<1>7. ASSUME NEW r \in Replies, Respond(r)
      PROVE  BrokerInv'
  <2> DEFINE back == [n \in (DOMAIN r.headers \ stripped) \cup {"body"} |->
                         IF n = "body" THEN <<>> ELSE redact_secret(r.headers[n])]
  <2>1. "body" \in DOMAIN back /\ \A n \in DOMAIN back : ~Holding(back[n])
    <3>1. ~Holding(<<>>)
      BY DEF Holding
    <3> QED BY <3>1, RedactedIsClean
  <2>2. broker.pc = "sent"
    BY <1>7 DEF Respond
  <2>3. CASE broker' = Ended("ResponseTooLarge")
    BY <2>2, <2>3, EndedKeeps
  <2>4. CASE broker' = [broker EXCEPT !.pc = "body", !.reply = r, !.returned = back]
    <3> HIDE DEF back
    <3>1. /\ broker'.pc = "body" /\ broker'.req = broker.req /\ broker'.secret = broker.secret
          /\ broker'.screened = broker.screened /\ broker'.connected = broker.connected
          /\ broker'.sent = broker.sent /\ broker'.buffered = broker.buffered
          /\ broker'.reply = r /\ broker'.returned = back
          /\ broker'.result = broker.result
      BY <2>2, <2>4 DEF BrokerInv, IsCall
    <3>2. broker' \in [pc : {"body"}, req : {broker.req}, secret : {broker.secret},
             screened : {broker.screened}, connected : {broker.connected},
             sent : {broker.sent}, buffered : {broker.buffered}, reply : {r},
             returned : {back}, result : {broker.result}]
      BY <2>2, <2>4 DEF BrokerInv, IsCall
    <3>3. IsCall(broker')
      BY <3>1, <3>2 DEF IsCall
    <3> QED BY <2>1, <2>2, <3>1, <3>3 DEF BrokerInv, RequestHeaders, owned_header_name
  <2> QED BY <1>7, <2>3, <2>4 DEF Respond
<1>8. ASSUME NEW k \in 1..(MaxResponse + 1), Chunk(k)
      PROVE  BrokerInv'
  <2> DEFINE b == broker.buffered + k
  <2>1. broker.pc = "body" /\ broker.buffered \in 0..MaxResponse
    BY <1>8 DEF Chunk, BrokerInv
  <2>2. CASE broker' = Ended("ResponseTooLarge")
    BY <2>1, <2>2, EndedKeeps
  <2>3. CASE Fits(k) /\ broker' = [broker EXCEPT !.buffered = b]
    <3>1. b \in 0..MaxResponse
      BY <2>1, <2>3, BrokerAssumption DEF Fits
    <3> HIDE DEF b
    <3>2. /\ broker'.pc = broker.pc /\ broker'.req = broker.req
          /\ broker'.secret = broker.secret
          /\ broker'.screened = broker.screened /\ broker'.connected = broker.connected
          /\ broker'.sent = broker.sent /\ broker'.buffered = b
          /\ broker'.reply = broker.reply /\ broker'.returned = broker.returned
          /\ broker'.result = broker.result
      BY <2>1, <2>3 DEF BrokerInv, IsCall
    <3>3. broker' \in [pc : {broker.pc}, req : {broker.req}, secret : {broker.secret},
             screened : {broker.screened}, connected : {broker.connected},
             sent : {broker.sent}, buffered : {b}, reply : {broker.reply},
             returned : {broker.returned}, result : {broker.result}]
      BY <2>1, <2>3 DEF BrokerInv, IsCall
    <3>4. IsCall(broker')
      BY <3>2, <3>3 DEF IsCall
    <3> QED BY <2>1, <3>1, <3>2, <3>4 DEF BrokerInv, RequestHeaders, owned_header_name
  <2> QED BY <1>8, <2>2, <2>3 DEF Chunk
<1>9. CASE Return
  <2> DEFINE clean == redact_secret(broker.reply.body)
             back == [broker.returned EXCEPT !.body = clean]
             done == Ended("Ok")
  <2>1. broker.pc = "body" /\ broker' = [done EXCEPT !.returned.body = clean]
    BY <1>9 DEF Return
  <2>2. /\ IsCall(done) /\ done.pc = "done" /\ done.req = broker.req
        /\ done.secret = broker.secret /\ done.sent = broker.sent
        /\ done.buffered = broker.buffered /\ done.returned = broker.returned
    <3>1. IsCall(broker)
      BY <2>1 DEF BrokerInv
    <3> QED BY <3>1, EndedParts
  <2>3. broker' = [done EXCEPT !.returned = back]
    BY <2>1, <2>2
  <2>4. DOMAIN back = DOMAIN broker.returned
        /\ \A n \in DOMAIN back : back[n] = IF n = "body" THEN clean ELSE broker.returned[n]
    OBVIOUS
  <2>5. ~Holding(clean)
    BY RedactedIsClean
  <2>6. \A n \in DOMAIN back : ~Holding(back[n])
    BY <2>1, <2>4, <2>5 DEF BrokerInv
  <2> HIDE DEF back, done
  <2>7. /\ broker'.pc = done.pc /\ broker'.req = done.req /\ broker'.secret = done.secret
        /\ broker'.screened = done.screened /\ broker'.connected = done.connected
        /\ broker'.sent = done.sent /\ broker'.buffered = done.buffered
        /\ broker'.reply = done.reply /\ broker'.returned = back
        /\ broker'.result = done.result
    BY <2>2, <2>3 DEF IsCall
  <2>8. broker' \in [pc : {done.pc}, req : {done.req}, secret : {done.secret},
           screened : {done.screened}, connected : {done.connected},
           sent : {done.sent}, buffered : {done.buffered}, reply : {done.reply},
           returned : {back}, result : {done.result}]
    BY <2>2, <2>3 DEF IsCall
  <2>9. IsCall(broker')
    BY <2>7, <2>8 DEF IsCall
  <2> QED BY <2>1, <2>2, <2>6, <2>7, <2>9 DEF BrokerInv, RequestHeaders, owned_header_name
<1> QED BY <1>1, <1>3, <1>4, <1>5, <1>6, <1>7, <1>8, <1>9 DEF BrokerNext

\* The invariant of a brokered call.
THEOREM BrokerInvariant == BrokerSpec => []BrokerInv
<1>1. BrokerInit => BrokerInv
  BY DEF BrokerInit, BrokerInv
<1>2. BrokerInv /\ [BrokerNext]_brokerVars => BrokerInv'
  <2>1. BrokerInv /\ UNCHANGED brokerVars => BrokerInv'
    BY DEF brokerVars, BrokerInv, IsCall, RequestHeaders, owned_header_name
  <2> QED BY <2>1, BrokerStep
<1> QED BY <1>1, <1>2, PTL DEF BrokerSpec

\* The secret goes out in its one header, whatever the agent put there, nothing
\* that is returned holds it, and no more than the cap was ever buffered.
THEOREM BrokerSecretStaysOut == BrokerSpec => []SecretStaysOut
<1>1. BrokerInv => SecretStaysOut
  <2> SUFFICES ASSUME BrokerInv, broker.pc \in {"sent", "body", "done"}
               PROVE  /\ broker.buffered <= MaxResponse
                      /\ broker.sent # NoReply =>
                            {n \in DOMAIN broker.sent : Holding(broker.sent[n])}
                                = {owned_header_name(broker.secret)}
                      /\ broker.returned # NoReply =>
                            ~ \E n \in DOMAIN broker.returned : Holding(broker.returned[n])
    BY DEF SecretStaysOut, Holding
  <2>1. broker.buffered <= MaxResponse
    BY BrokerAssumption DEF BrokerInv
  <2>2. ASSUME broker.sent # NoReply
        PROVE  {n \in DOMAIN broker.sent : Holding(broker.sent[n])}
                  = {owned_header_name(broker.secret)}
    <3> DEFINE own == owned_header_name(broker.secret)
               h == broker.req.headers
    <3>1. broker.req \in BrokerRequests
          /\ broker.sent = RequestHeaders(broker.req, broker.secret)
      BY <2>2 DEF BrokerInv
    <3>2. DOMAIN broker.sent = DOMAIN h \cup {own}
          /\ broker.sent[own] = <<"secret">>
          /\ \A n \in DOMAIN h : n # own => broker.sent[n] = h[n]
      BY <3>1 DEF RequestHeaders
    <3>3. Holding(<<"secret">>)
      BY DEF Holding
    <3>4. \A n \in DOMAIN h : ~Holding(h[n])
      BY <3>1, BrokerAssumption DEF Holding
    <3> QED BY <3>2, <3>3, <3>4
  <2>3. broker.returned # NoReply =>
           ~ \E n \in DOMAIN broker.returned : Holding(broker.returned[n])
    BY DEF BrokerInv
  <2> QED BY <2>1, <2>2, <2>3
<1> QED BY <1>1, BrokerInvariant, PTL

-----------------------------------------------------------------------------
(* Where a brokered call goes: addresses.                                  *)

\* What a sequence holds.
LEMMA ElementOf ==
    ASSUME NEW S, NEW q \in Seq(S)
    PROVE  \A i \in 1..Len(q) : q[i] \in S
OBVIOUS

\* The arithmetic of prefixes.
LEMMA Powers ==
    /\ 2^(16 - 3) = 8192 /\ 2^(16 - 8) = 256 /\ 2^(16 - 10) = 64
    /\ 2^(16 - 12) = 16 /\ 2^(16 - 15) = 2 /\ 2^(16 - 16) = 1 /\ 2^(32 - 24) = 256
OBVIOUS

\* Every reserved range of version 4 is refused.
LEMMA PrivateIsBlocked4 ==
    ASSUME NEW o, NEW a \in Octet, NEW b \in Octet, NEW c \in Octet, NEW d \in Octet,
           o[1] = a, o[2] = b, o[3] = c, o[4] = d, Private4(o)
    PROVE  is_blocked_v4(o)
<1> USE DEF Octet
<1> DEFINE H == a * 256 + b
           L == c * 256 + d
<1>0. o[1] * 256 + o[2] = H /\ o[3] * 256 + o[4] = L
  OBVIOUS
<1>1. CASE InRange(o, <<0, 0, 0, 0>>, 8)
  <2>1. H \div 2^(16 - 8) = (0 * 256 + 0) \div 2^(16 - 8)
    BY <1>0, <1>1, SMT DEF InRange
  <2>2. H \div 256 = (0 * 256 + 0) \div 256
    BY <2>1, Powers, SMT
  <2>3. a = 0
    BY <2>2, SMT
  <2> QED BY <2>3, SMT DEF is_blocked_v4
<1>2. CASE InRange(o, <<10, 0, 0, 0>>, 8)
  <2>1. H \div 2^(16 - 8) = (10 * 256 + 0) \div 2^(16 - 8)
    BY <1>0, <1>2, SMT DEF InRange
  <2>2. H \div 256 = (10 * 256 + 0) \div 256
    BY <2>1, Powers, SMT
  <2>3. a = 10
    BY <2>2, SMT
  <2> QED BY <2>3, SMT DEF is_blocked_v4
<1>3. CASE InRange(o, <<127, 0, 0, 0>>, 8)
  <2>1. H \div 2^(16 - 8) = (127 * 256 + 0) \div 2^(16 - 8)
    BY <1>0, <1>3, SMT DEF InRange
  <2>2. H \div 256 = (127 * 256 + 0) \div 256
    BY <2>1, Powers, SMT
  <2>3. a = 127
    BY <2>2, SMT
  <2> QED BY <2>3, SMT DEF is_blocked_v4
<1>4. CASE InRange(o, <<100, 64, 0, 0>>, 10)
  <2>1. H \div 2^(16 - 10) = (100 * 256 + 64) \div 2^(16 - 10)
    BY <1>0, <1>4, SMT DEF InRange
  <2>2. H \div 64 = (100 * 256 + 64) \div 64
    BY <2>1, Powers, SMT
  <2>3. a = 100 /\ b \in 64..127
    BY <2>2, SMT
  <2> QED BY <2>3, SMT DEF is_blocked_v4
<1>5. CASE InRange(o, <<169, 254, 0, 0>>, 16)
  <2>1. H \div 2^(16 - 16) = (169 * 256 + 254) \div 2^(16 - 16)
    BY <1>0, <1>5, SMT DEF InRange
  <2>2. H \div 1 = (169 * 256 + 254) \div 1
    BY <2>1, Powers, SMT
  <2>3. a = 169 /\ b = 254
    BY <2>2, SMT
  <2> QED BY <2>3, SMT DEF is_blocked_v4
<1>6. CASE InRange(o, <<172, 16, 0, 0>>, 12)
  <2>1. H \div 2^(16 - 12) = (172 * 256 + 16) \div 2^(16 - 12)
    BY <1>0, <1>6, SMT DEF InRange
  <2>2. H \div 16 = (172 * 256 + 16) \div 16
    BY <2>1, Powers, SMT
  <2>3. a = 172 /\ b \in 16..31
    BY <2>2, SMT
  <2> QED BY <2>3, SMT DEF is_blocked_v4
<1>7. CASE InRange(o, <<192, 168, 0, 0>>, 16)
  <2>1. H \div 2^(16 - 16) = (192 * 256 + 168) \div 2^(16 - 16)
    BY <1>0, <1>7, SMT DEF InRange
  <2>2. H \div 1 = (192 * 256 + 168) \div 1
    BY <2>1, Powers, SMT
  <2>3. a = 192 /\ b = 168
    BY <2>2, SMT
  <2> QED BY <2>3, SMT DEF is_blocked_v4
<1>8. CASE InRange(o, <<198, 18, 0, 0>>, 15)
  <2>1. H \div 2^(16 - 15) = (198 * 256 + 18) \div 2^(16 - 15)
    BY <1>0, <1>8, SMT DEF InRange
  <2>2. H \div 2 = (198 * 256 + 18) \div 2
    BY <2>1, Powers, SMT
  <2>3. a = 198 /\ b \in {18, 19}
    BY <2>2, SMT
  <2> QED BY <2>3, SMT DEF is_blocked_v4
<1>9. CASE InRange(o, <<224, 0, 0, 0>>, 3)
  <2>1. H \div 2^(16 - 3) = (224 * 256 + 0) \div 2^(16 - 3)
    BY <1>0, <1>9, SMT DEF InRange
  <2>2. H \div 8192 = (224 * 256 + 0) \div 8192
    BY <2>1, Powers, SMT
  <2>3. a >= 224
    BY <2>2, SMT
  <2> QED BY <2>3, SMT DEF is_blocked_v4
<1>10. CASE InRange(o, <<192, 0, 0, 0>>, 24)
  <2>1. H = 192 * 256 + 0 /\ L \div 2^(32 - 24) = (0 * 256 + 0) \div 2^(32 - 24)
    BY <1>0, <1>10, SMT DEF InRange
  <2>2. L \div 256 = (0 * 256 + 0) \div 256
    BY <2>1, Powers, SMT
  <2>3. a = 192 /\ b = 0 /\ c = 0
    BY <2>1, <2>2, SMT
  <2> QED BY <2>3, SMT DEF is_blocked_v4
<1>11. CASE InRange(o, <<192, 0, 2, 0>>, 24)
  <2>1. H = 192 * 256 + 0 /\ L \div 2^(32 - 24) = (2 * 256 + 0) \div 2^(32 - 24)
    BY <1>0, <1>11, SMT DEF InRange
  <2>2. L \div 256 = (2 * 256 + 0) \div 256
    BY <2>1, Powers, SMT
  <2>3. a = 192 /\ b = 0 /\ c = 2
    BY <2>1, <2>2, SMT
  <2> QED BY <2>3, SMT DEF is_blocked_v4
<1>12. CASE InRange(o, <<192, 88, 99, 0>>, 24)
  <2>1. H = 192 * 256 + 88 /\ L \div 2^(32 - 24) = (99 * 256 + 0) \div 2^(32 - 24)
    BY <1>0, <1>12, SMT DEF InRange
  <2>2. L \div 256 = (99 * 256 + 0) \div 256
    BY <2>1, Powers, SMT
  <2>3. a = 192 /\ b = 88 /\ c = 99
    BY <2>1, <2>2, SMT
  <2> QED BY <2>3, SMT DEF is_blocked_v4
<1>13. CASE InRange(o, <<198, 51, 100, 0>>, 24)
  <2>1. H = 198 * 256 + 51 /\ L \div 2^(32 - 24) = (100 * 256 + 0) \div 2^(32 - 24)
    BY <1>0, <1>13, SMT DEF InRange
  <2>2. L \div 256 = (100 * 256 + 0) \div 256
    BY <2>1, Powers, SMT
  <2>3. a = 198 /\ b = 51 /\ c = 100
    BY <2>1, <2>2, SMT
  <2> QED BY <2>3, SMT DEF is_blocked_v4
<1>14. CASE InRange(o, <<203, 0, 113, 0>>, 24)
  <2>1. H = 203 * 256 + 0 /\ L \div 2^(32 - 24) = (113 * 256 + 0) \div 2^(32 - 24)
    BY <1>0, <1>14, SMT DEF InRange
  <2>2. L \div 256 = (113 * 256 + 0) \div 256
    BY <2>1, Powers, SMT
  <2>3. a = 203 /\ b = 0 /\ c = 113
    BY <2>1, <2>2, SMT
  <2> QED BY <2>3, SMT DEF is_blocked_v4
<1>15. \/ InRange(o, <<0, 0, 0, 0>>, 8) \/ InRange(o, <<10, 0, 0, 0>>, 8)
       \/ InRange(o, <<100, 64, 0, 0>>, 10) \/ InRange(o, <<127, 0, 0, 0>>, 8)
       \/ InRange(o, <<169, 254, 0, 0>>, 16) \/ InRange(o, <<172, 16, 0, 0>>, 12)
       \/ InRange(o, <<192, 0, 0, 0>>, 24) \/ InRange(o, <<192, 0, 2, 0>>, 24)
       \/ InRange(o, <<192, 88, 99, 0>>, 24) \/ InRange(o, <<192, 168, 0, 0>>, 16)
       \/ InRange(o, <<198, 18, 0, 0>>, 15) \/ InRange(o, <<198, 51, 100, 0>>, 24)
       \/ InRange(o, <<203, 0, 113, 0>>, 24) \/ InRange(o, <<224, 0, 0, 0>>, 3)
  BY SMT DEF Private4, Reserved4
<1> QED BY <1>1, <1>2, <1>3, <1>4, <1>5, <1>6, <1>7, <1>8, <1>9, <1>10, <1>11, <1>12, <1>13, <1>14, <1>15

\* The bounds of a segment.
LEMMA SegmentIsNumber ==
    ASSUME NEW s \in Segment
    PROVE  s \in Int /\ 0 <= s /\ s <= 65535
BY SMTT(30) DEF Segment

\* The two halves of a segment are octets.
LEMMA HalvesAreOctets ==
    ASSUME NEW s \in Segment
    PROVE  s \div 256 \in Octet /\ s % 256 \in Octet
<1>0. s \in Int /\ 0 <= s /\ s <= 65535
  BY SegmentIsNumber
<1>1. s \div 256 \in Octet
  <2>1. s \div 256 \in Int
    BY <1>0, SMTT(30)
  <2>2. 0 <= s \div 256
    BY <1>0, SMTT(30)
  <2>3. s \div 256 <= 255
    BY <1>0, SMTT(30)
  <2> QED BY <2>1, <2>2, <2>3, SMTT(30) DEF Octet
<1>2. s % 256 \in Octet
  <2>1. s % 256 \in 0..255
    BY <1>0, SMTT(30)
  <2> QED BY <2>1, SMTT(30) DEF Octet
<1> QED BY <1>1, <1>2

\* The ranges that is_blocked_v6 tells by the leading bits of an address.
LEMMA LeadingBits ==
    ASSUME NEW s \in 65280..65535 \cup 64512..65023 \cup 65152..65279
    PROVE  s \div 256 = 255 \/ s \div 512 = 126 \/ s \div 64 \in {1018, 1019}
<1>1. CASE s \in 65280..65535
  BY <1>1, SMTT(30)
<1>2. CASE s \in 64512..65023
  BY <1>2, SMTT(30)
<1>3. CASE s \in 65152..65279
  BY <1>3, SMTT(30)
<1> QED BY <1>1, <1>2, <1>3, SMTT(30)

\* Every reserved range of version 6 is refused.
LEMMA PrivateIsBlocked6 ==
    ASSUME NEW seg \in Seq(Segment), Len(seg) = 8, Private6(seg)
    PROVE  is_blocked_v6(seg)
<1>1. \A i \in 1..8 : seg[i] \in Segment
  BY ElementOf
<1> DEFINE h == seg[1]
           s == seg[7]
           t == seg[8]
           e == Embedded(seg)
           q == SubSeq(seg, 1, 6)
<1>2. h = seg[1] /\ s = seg[7] /\ t = seg[8] /\ h \in Segment /\ s \in Segment /\ t \in Segment
  BY <1>1, SMT
<1>3. e = <<s \div 256, s % 256, t \div 256, t % 256>>
  BY DEF Embedded
<1> HIDE DEF h, s, t, e, q
<1>4. is_blocked_v6(seg) <=>
        \/ Zeros(seg, 1, 7) /\ t \in {0, 1}
        \/ h \div 256 = 255
        \/ h \div 512 = 126
        \/ h \div 64 \in {1018, 1019}
        \/ h = 8193 /\ seg[2] = 3512
        \/ Zeros(seg, 1, 5) /\ seg[6] = 65535 /\ is_blocked_v4(e)
        \/ h = 100 /\ seg[2] = 65435 /\ Zeros(seg, 3, 6) /\ is_blocked_v4(e)
  BY SMT DEF is_blocked_v6, h, s, t, e
<1>5. CASE \A i \in 1..7 : seg[i] = 0 /\ t <= 1
  <2>1. Zeros(seg, 1, 7) /\ t \in {0, 1}
    <3>1. t <= 1 /\ \A i \in 1..7 : seg[i] = 0
      BY <1>5, SMT
    <3>2. t \in Int /\ 0 <= t
      BY <1>2, SegmentIsNumber
    <3>3. t \in {0, 1}
      BY <3>1, <3>2, SMT
    <3> QED BY <3>1, <3>3 DEF Zeros
  <2> QED BY <1>4, <2>1, SMT
<1>6. CASE h \in 65280..65535 \cup 64512..65023 \cup 65152..65279
  BY <1>4, <1>6, LeadingBits, SMT
<1>7. CASE h = 8193 /\ seg[2] = 3512
  BY <1>4, <1>7, SMT
<1>8. CASE /\ q \in {<<0, 0, 0, 0, 0, 65535>>, <<100, 65435, 0, 0, 0, 0>>}
           /\ Private4(e)
  <2>1. is_blocked_v4(e)
    <3>1. /\ s \div 256 \in Octet /\ s % 256 \in Octet
          /\ t \div 256 \in Octet /\ t % 256 \in Octet
      BY <1>2, HalvesAreOctets, SMT
    <3>2. /\ e[1] = s \div 256 /\ e[2] = s % 256
          /\ e[3] = t \div 256 /\ e[4] = t % 256
      BY <1>3, SMT
    <3> QED BY <1>8, <3>1, <3>2, PrivateIsBlocked4, SMT
  <2>2. \A i \in 1..6 : q[i] = seg[i]
    BY SMT DEF q
  <2>3. CASE q = <<0, 0, 0, 0, 0, 65535>>
    <3>1. seg[1] = 0 /\ seg[2] = 0 /\ seg[3] = 0 /\ seg[4] = 0 /\ seg[5] = 0
          /\ seg[6] = 65535
      <4>1. /\ q[1] = 0 /\ q[2] = 0 /\ q[3] = 0
            /\ q[4] = 0 /\ q[5] = 0 /\ q[6] = 65535
        BY <2>3, SMT
      <4> QED BY <2>2, <4>1, SMT
    <3>2. Zeros(seg, 1, 5)
      BY <3>1, SMT DEF Zeros
    <3> QED BY <1>4, <2>1, <3>1, <3>2, SMT
  <2>4. CASE q = <<100, 65435, 0, 0, 0, 0>>
    <3>1. seg[1] = 100 /\ seg[2] = 65435 /\ seg[3] = 0 /\ seg[4] = 0 /\ seg[5] = 0
          /\ seg[6] = 0
      <4>1. /\ q[1] = 100 /\ q[2] = 65435 /\ q[3] = 0
            /\ q[4] = 0 /\ q[5] = 0 /\ q[6] = 0
        BY <2>4, SMT
      <4> QED BY <2>2, <4>1, SMT
    <3>2. Zeros(seg, 3, 6)
      BY <3>1, SMT DEF Zeros
    <3> QED BY <1>2, <1>4, <2>1, <3>1, <3>2, SMT
  <2> QED BY <1>8, <2>3, <2>4, SMT
<1>9. \/ \A i \in 1..7 : seg[i] = 0 /\ t <= 1
      \/ h \in 65280..65535 \cup 64512..65023 \cup 65152..65279
      \/ h = 8193 /\ seg[2] = 3512
      \/ /\ q \in {<<0, 0, 0, 0, 0, 65535>>, <<100, 65435, 0, 0, 0, 0>>}
         /\ Private4(e)
  BY SMT DEF Private6, h, t, e, q
<1> QED BY <1>5, <1>6, <1>7, <1>8, <1>9, SMT

\* No private address passes the screening of is_blocked_ip.
LEMMA PrivateIsBlocked ==
    ASSUME NEW ip \in UNION (FirstAnswers \cup Answers), Private(ip)
    PROVE  is_blocked_ip(ip)
<1>0. \/ Len(ip) = 4 /\ ip \in Seq(Octet)
      \/ Len(ip) = 8 /\ ip \in Seq(Segment)
  BY BrokerTypes
<1>1. CASE Len(ip) = 4 /\ ip \in Seq(Octet)
  <2>0. \A i \in 1..4 : ip[i] \in Octet
    BY <1>1, ElementOf
  <2>1. ip[1] \in Octet /\ ip[2] \in Octet /\ ip[3] \in Octet /\ ip[4] \in Octet
    BY <2>0, SMT
  <2>2. Private4(ip) /\ (is_blocked_v4(ip) => is_blocked_ip(ip))
    BY <1>1, SMT DEF Private, is_blocked_ip
  <2> QED BY <2>1, <2>2, PrivateIsBlocked4
<1>2. CASE Len(ip) = 8 /\ ip \in Seq(Segment)
  <2>1. Private6(ip) /\ (is_blocked_v6(ip) => is_blocked_ip(ip))
    BY <1>2, SMT DEF Private, is_blocked_ip
  <2> QED BY <1>2, <2>1, PrivateIsBlocked6
<1> QED BY <1>0, <1>1, <1>2

-----------------------------------------------------------------------------
(* Where a brokered call goes: paths.                                      *)

\* A nonempty set of naturals has a least element: what stands for induction.
LEMMA LeastNatural ==
    ASSUME NEW T, T \subseteq Nat, T # {}
    PROVE  \E x \in T : \A y \in T : x <= y
<1> DEFINE R == {p \in Nat \X Nat : p[1] < p[2]}
<1>1. R = OpToRel(<, Nat)
  BY DEF OpToRel
<1>2. IsWellFoundedOn(R, Nat)
  BY <1>1, NatLessThanWellFounded
<1>3. PICK x \in T : \A y \in T : ~(<<y, x>> \in R)
  <2> HIDE DEF R
  <2> QED BY <1>2, WFMin
<1>4. ASSUME NEW y \in T PROVE x <= y
  <2>1. ~(y < x)
    <3> SUFFICES ASSUME y < x PROVE FALSE
      OBVIOUS
    <3>1. <<y, x>> \in R
      OBVIOUS
    <3> QED BY <1>3, <3>1
  <2> QED BY <2>1
<1> QED BY <1>4

\* Where a path is cut, and the cut that follows a place.
CutsOf(p) == {0} \cup {i \in DOMAIN p : p[i] = "/"} \cup {Len(p) + 1}
CutAfter(C, i) == CHOOSE j \in C : i < j /\ \A k \in C : i < k => j <= k

\* The segments of a path are what stands between its cuts.
LEMMA SegmentsByCuts ==
    ASSUME NEW p
    PROVE  Segments(p) = {<<i, SubSeq(p, i + 1, CutAfter(CutsOf(p), i) - 1)>> :
                             i \in CutsOf(p) \ {Len(p) + 1}}
BY Zenon DEF Segments, CutsOf, CutAfter

\* Cuts are places of the path, its start and its end.
LEMMA CutsAreNumbers ==
    ASSUME NEW S, NEW p \in Seq(S)
    PROVE  /\ Len(p) \in Nat /\ DOMAIN p = 1..Len(p)
           /\ CutsOf(p) \subseteq 0..(Len(p) + 1)
           /\ \A k \in 1..Len(p) : k \in CutsOf(p) <=> p[k] = "/"
           /\ 0 \in CutsOf(p) /\ Len(p) + 1 \in CutsOf(p)
BY DEF CutsOf

\* The cut after a place is the least one beyond it.
LEMMA CutAfterIsLeast ==
    ASSUME NEW C, C \subseteq Nat, NEW i \in Nat, NEW j \in C, i < j,
           \A k \in C : i < k => j <= k
    PROVE  CutAfter(C, i) = j
<1> DEFINE n == CutAfter(C, i)
<1>1. n \in C /\ i < n /\ \A k \in C : i < k => n <= k
  BY DEF CutAfter
<1> HIDE DEF n
<1>2. n <= j /\ j <= n
  BY <1>1
<1>3. n \in Nat /\ j \in Nat
  BY <1>1
<1>4. n = j
  BY <1>2, <1>3
<1> QED BY <1>4 DEF n

\* Two paths that are cut alike up to a cut of both have the same cut after
\* any place before it.
LEMMA SameCutAfter ==
    ASSUME NEW C, C \subseteq Nat, NEW D, D \subseteq Nat, NEW i \in Nat, NEW m \in Nat,
           i < m, m \in C, m \in D, \A k \in 0..m : k \in C <=> k \in D
    PROVE  CutAfter(C, i) = CutAfter(D, i) /\ CutAfter(C, i) \in (i + 1)..m
<1> DEFINE T == {k \in C : i < k}
<1>1. T \subseteq Nat /\ m \in T
  OBVIOUS
<1>2. PICK j \in T : \A y \in T : j <= y
  BY <1>1, LeastNatural
<1>3. j \in C /\ i < j /\ j \in Nat /\ j <= m /\ \A k \in C : i < k => j <= k
  BY <1>1, <1>2
<1>4. j \in D
  BY <1>3
<1>5. ASSUME NEW k \in D, i < k PROVE j <= k
  <2>1. k \in Nat
    OBVIOUS
  <2>2. CASE k <= m
    <3>1. k \in C
      BY <2>1, <2>2
    <3> QED BY <1>3, <1>5, <3>1
  <2>3. CASE ~(k <= m)
    BY <1>3, <2>1, <2>3
  <2> QED BY <2>2, <2>3
<1>6. CutAfter(C, i) = j
  BY <1>3, CutAfterIsLeast
<1>7. CutAfter(D, i) = j
  BY <1>3, <1>4, <1>5, CutAfterIsLeast
<1> QED BY <1>3, <1>6, <1>7

\* What a prefix says of the path that starts with it.
LEMMA StartsAlike ==
    ASSUME NEW S, NEW s \in Seq(S), NEW p \in Seq(S), StartsWith(s, p)
    PROVE  Len(p) <= Len(s) /\ \A k \in 1..Len(p) : s[k] = p[k]
<1>1. Len(p) <= Len(s) /\ SubSeq(s, 1, Len(p)) = p /\ Len(p) \in Nat /\ Len(s) \in Nat
  BY DEF StartsWith
<1>2. \A k \in 1..Len(p) : SubSeq(s, 1, Len(p))[k] = s[k]
  BY <1>1
<1> QED BY <1>1, <1>2

\* Two paths alike up to a place have the same parts before it.
LEMMA SamePart ==
    ASSUME NEW S, NEW s \in Seq(S), NEW p \in Seq(S), NEW n \in Nat,
           n <= Len(s), n <= Len(p), \A k \in 1..n : s[k] = p[k],
           NEW a \in Nat, NEW b \in Int, 1 <= a, b <= n
    PROVE  SubSeq(s, a, b) = SubSeq(p, a, b)
<1>0. Len(s) \in Nat /\ Len(p) \in Nat
  OBVIOUS
<1>1. /\ \A i \in a..b : s[i] \in S
      /\ \A i \in a..b : p[i] \in S
  BY <1>0
<1>2. /\ SubSeq(s, a, b) \in Seq(S)
      /\ Len(SubSeq(s, a, b)) = IF a <= b THEN b - a + 1 ELSE 0
      /\ \A i \in 1..(b - a + 1) : SubSeq(s, a, b)[i] = s[a + i - 1]
  BY <1>1, SubSeqProperties
<1>3. /\ SubSeq(p, a, b) \in Seq(S)
      /\ Len(SubSeq(p, a, b)) = IF a <= b THEN b - a + 1 ELSE 0
      /\ \A i \in 1..(b - a + 1) : SubSeq(p, a, b)[i] = p[a + i - 1]
  BY <1>1, SubSeqProperties
<1> DEFINE u == SubSeq(s, a, b)
           v == SubSeq(p, a, b)
<1>4. Len(u) = Len(v) /\ u \in Seq(S) /\ v \in Seq(S)
  BY <1>2, <1>3
<1>5. \A i \in 1..Len(u) : u[i] = v[i]
  <2> SUFFICES ASSUME NEW i \in 1..Len(u) PROVE u[i] = v[i]
    OBVIOUS
  <2>1. i \in 1..(b - a + 1) /\ a + i - 1 \in 1..n
    BY <1>2
  <2>2. u[i] = s[a + i - 1] /\ v[i] = p[a + i - 1] /\ s[a + i - 1] = p[a + i - 1]
    BY <1>2, <1>3, <2>1
  <2> QED BY <2>2
<1> HIDE DEF u, v
<1>6. u = v
  BY <1>4, <1>5, SeqEqual
<1> QED BY <1>6 DEF u, v

\* Every part of the prefix before a cut that both have is a part of the path.
LEMMA PartIsShared ==
    ASSUME NEW S, NEW prefix \in Seq(S), NEW path \in Seq(S), Len(prefix) <= Len(path),
           \A k \in 1..Len(prefix) : path[k] = prefix[k],
           NEW m \in {Len(prefix), Len(prefix) + 1}, m \in CutsOf(prefix), m \in CutsOf(path),
           NEW i \in CutsOf(prefix), i < m
    PROVE  <<i, SubSeq(prefix, i + 1, CutAfter(CutsOf(prefix), i) - 1)>> \in Segments(path)
<1> DEFINE C == CutsOf(prefix)
           D == CutsOf(path)
           n == Len(prefix)
<1>1. /\ Len(prefix) \in Nat /\ C \subseteq 0..(n + 1)
      /\ \A k \in 1..n : k \in C <=> prefix[k] = "/"
      /\ 0 \in C /\ n + 1 \in C
  BY CutsAreNumbers
<1>2. /\ Len(path) \in Nat /\ D \subseteq 0..(Len(path) + 1)
      /\ \A k \in 1..Len(path) : k \in D <=> path[k] = "/"
      /\ 0 \in D /\ Len(path) + 1 \in D
  BY CutsAreNumbers
<1> HIDE DEF C, D
<1>3. C \subseteq Nat /\ D \subseteq Nat /\ m \in Nat /\ i \in Nat /\ m \in C /\ m \in D /\ i \in C
  BY <1>1, <1>2 DEF C, D
<1>4. \A k \in 0..m : k \in C <=> k \in D
  <2> SUFFICES ASSUME NEW k \in 0..m PROVE k \in C <=> k \in D
    OBVIOUS
  <2>1. CASE k = 0
    BY <1>1, <1>2, <2>1
  <2>2. CASE k = m
    BY <1>3, <2>2
  <2>3. CASE k # 0 /\ k # m
    <3>1. k \in 1..n /\ k \in 1..Len(path)
      BY <1>1, <1>2, <2>3
    <3>2. (k \in C <=> prefix[k] = "/") /\ (k \in D <=> path[k] = "/") /\ path[k] = prefix[k]
      BY <1>1, <1>2, <3>1
    <3> QED BY <3>2
  <2> QED BY <2>1, <2>2, <2>3
<1>5. CutAfter(C, i) = CutAfter(D, i) /\ CutAfter(C, i) \in (i + 1)..m
  BY <1>3, <1>4, SameCutAfter
<1>6. i \in D /\ i # Len(path) + 1
  BY <1>1, <1>2, <1>3, <1>4
<1> DEFINE j == CutAfter(C, i)
<1>7. j \in Int /\ j - 1 \in Int /\ j - 1 <= n /\ i + 1 \in Nat /\ 1 <= i + 1
  BY <1>1, <1>3, <1>5
<1> HIDE DEF j
<1>8. SubSeq(path, i + 1, j - 1) = SubSeq(prefix, i + 1, j - 1)
  <2> DEFINE a == i + 1
             b == j - 1
  <2>1. /\ n \in Nat /\ n <= Len(path) /\ n <= Len(prefix)
        /\ \A k \in 1..n : path[k] = prefix[k]
        /\ a \in Nat /\ b \in Int /\ 1 <= a /\ b <= n
    BY <1>1, <1>7
  <2> HIDE DEF n, a, b
  <2>2. SubSeq(path, a, b) = SubSeq(prefix, a, b)
    BY <2>1, SamePart
  <2> QED BY <2>2 DEF a, b
<1>9. <<i, SubSeq(path, i + 1, j - 1)>> \in Segments(path)
  <2>1. Segments(path) = {<<x, SubSeq(path, x + 1, CutAfter(D, x) - 1)>> :
                             x \in D \ {Len(path) + 1}}
    BY SegmentsByCuts DEF D
  <2>2. j = CutAfter(D, i)
    BY <1>5 DEF j
  <2> QED BY <1>6, <2>1, <2>2
<1> QED BY <1>8, <1>9 DEF C, j

\* What a sequence starts with is an element of it.
LEMMA StartIsElement ==
    ASSUME NEW S, NEW s \in Seq(S), NEW c, StartsWith(s, <<c>>)
    PROVE  c \in S
<1>1. 1 <= Len(s) /\ SubSeq(s, 1, 1) = <<c>> /\ Len(s) \in Nat
  BY DEF StartsWith
<1>2. s[1] \in S /\ SubSeq(s, 1, 1)[1] = s[1]
  BY <1>1, ElementOf
<1> DEFINE u == SubSeq(s, 1, 1)
<1>3. u = <<c>> /\ u[1] = s[1]
  BY <1>1, <1>2
<1> HIDE DEF u
<1> QED BY <1>2, <1>3

\* A path that path_prefix_matches accepts lies under the prefix.
LEMMA MatchIsUnder ==
    ASSUME NEW prefix \in Seq(STRING), NEW path \in Seq(STRING),
           path_prefix_matches(prefix, path)
    PROVE  Under(prefix, path)
<1> DEFINE n == Len(prefix)
           C == CutsOf(prefix)
           Part(i) == <<i, SubSeq(prefix, i + 1, CutAfter(C, i) - 1)>>
<1>1. Len(prefix) \in Nat /\ Len(path) \in Nat
  OBVIOUS
<1>2. 1 <= n
  <2>1. StartsWith(prefix, <<"/">>)
    BY DEF path_prefix_matches
  <2>2. Len(<<"/">>) = 1
    OBVIOUS
  <2> QED BY <2>1, <2>2 DEF StartsWith
<1>3. /\ C \subseteq 0..(n + 1)
      /\ \A k \in 1..n : k \in C <=> prefix[k] = "/"
      /\ n + 1 \in C
  BY CutsAreNumbers
<1>4. Segments(prefix) = {Part(i) : i \in C \ {n + 1}}
  BY SegmentsByCuts
<1> HIDE DEF C
<1>5. CASE path = prefix
  BY <1>1, <1>5 DEF Under
<1>6. CASE prefix[n] # "/" /\ StartsWith(path, Append(prefix, "/"))
  <2> DEFINE q == Append(prefix, "/")
  <2>1. q \in Seq(STRING) /\ Len(q) = n + 1 /\ q[n + 1] = "/"
        /\ \A k \in 1..n : q[k] = prefix[k]
    <3>1. "/" \in STRING
      BY StartIsElement DEF path_prefix_matches
    <3> QED BY <3>1, AppendProperties
  <2> HIDE DEF q
  <2>2. Len(q) <= Len(path) /\ \A k \in 1..Len(q) : path[k] = q[k]
    BY <1>6, <2>1, StartsAlike DEF q
  <2>3. n + 1 <= Len(path) /\ path[n + 1] = "/" /\ \A k \in 1..n : path[k] = prefix[k]
    BY <1>1, <2>1, <2>2
  <2>4. n + 1 \in CutsOf(path)
    BY <1>1, <2>3, CutsAreNumbers
  <2>5. ASSUME NEW i \in C \ {n + 1} PROVE Part(i) \in Segments(path)
    <3>1. i \in CutsOf(prefix) /\ i < n + 1 /\ n + 1 \in CutsOf(prefix)
      BY <1>1, <1>3 DEF C
    <3>2. n <= Len(path)
      BY <1>1, <2>3
    <3> QED BY <2>3, <2>4, <3>1, <3>2, PartIsShared DEF C
  <2> HIDE DEF Part
  <2> QED BY <1>1, <1>4, <2>3, <2>5 DEF Under
<1>7. CASE prefix[n] = "/" /\ StartsWith(path, prefix)
  <2>1. n <= Len(path) /\ \A k \in 1..n : path[k] = prefix[k]
    BY <1>7, StartsAlike
  <2>2. n \in 1..n /\ n \in 1..Len(path) /\ path[n] = "/"
    BY <1>1, <1>2, <1>7, <2>1
  <2>3. n \in C /\ n \in CutsOf(path)
    BY <1>3, <1>7, <2>2, CutsAreNumbers
  <2>4. ASSUME NEW i \in C \ {n + 1}, i # n PROVE Part(i) \in Segments(path)
    <3>1. i \in CutsOf(prefix) /\ i < n /\ n \in CutsOf(prefix)
      BY <1>1, <1>3, <2>3, <2>4 DEF C
    <3> QED BY <2>1, <2>3, <3>1, PartIsShared DEF C
  <2>5. Part(n) = <<n, <<>> >>
    <3>1. CutAfter(C, n) = n + 1
      <4>1. C \subseteq Nat
        BY <1>1, <1>3
      <4>2. \A k \in C : n < k => n + 1 <= k
        BY <1>1, <4>1
      <4>3. n \in Nat /\ n + 1 \in C /\ n < n + 1
        BY <1>1, <1>3
      <4> HIDE DEF n
      <4> QED BY <4>1, <4>2, <4>3, CutAfterIsLeast
    <3>2. (n + 1) - 1 = n /\ n < n + 1 /\ n + 1 \in Int /\ n \in Int
      BY <1>1
    <3>3. SubSeq(prefix, n + 1, n) = <<>>
      BY <3>2, SubSeqEmpty
    <3> QED BY <3>1, <3>2, <3>3
  <2> HIDE DEF Part
  <2>6. Segments(prefix) \ {<<n, <<>> >>} \subseteq Segments(path)
    BY <1>4, <2>4, <2>5
  <2> QED BY <1>1, <2>1, <2>6 DEF Under
<1> QED BY <1>5, <1>6, <1>7 DEF path_prefix_matches

\* The entry that find returns matches the request.
LEMMA FirstMatches ==
    ASSUME NEW allow \in Seq(BrokerAllow), NEW req,
           \E i \in DOMAIN allow : Matches(allow[i], req)
    PROVE  \E i \in DOMAIN allow :
              Matches(allow[i], req) /\ FirstMatch(allow, req) = allow[i]
<1> DEFINE T == {i \in DOMAIN allow : Matches(allow[i], req)}
<1>1. T \subseteq Nat /\ T # {}
  OBVIOUS
<1>2. PICK x \in T : \A y \in T : x <= y
  BY <1>1, LeastNatural
<1>3. \E i \in DOMAIN allow : /\ Matches(allow[i], req)
                              /\ \A j \in DOMAIN allow : Matches(allow[j], req) => i <= j
  BY <1>2
<1> QED BY <1>3 DEF FirstMatch

-----------------------------------------------------------------------------
(* Where a brokered call goes: the call.                                   *)

\* A call past its validation has an entry that matches; past its screening,
\* addresses of which none is refused unless the entry opts in; and a
\* connection goes to one of them.
ScreenedInv ==
    /\ dns \in FirstAnswers \cup Answers \cup {{}}
    /\ broker.pc \in {"resolve", "send", "sent", "body"} =>
          /\ broker.secret \in Secrets /\ broker.req \in BrokerRequests
          /\ \E i \in DOMAIN broker.secret.allow :
                Matches(broker.secret.allow[i], broker.req)
    /\ broker.pc \in {"send", "sent", "body"} =>
          /\ broker.screened \subseteq UNION (FirstAnswers \cup Answers)
          /\ (\E ip \in broker.screened : is_blocked_ip(ip)) =>
                FirstMatch(broker.secret.allow, broker.req).allow_private_ip
    /\ broker.pc \in {"sent", "body"} => broker.connected \subseteq broker.screened

\* A request that is validated has an entry that matches.
LEMMA ValidMatches ==
    ASSUME NEW req, NEW allow, validate_against_allowlist(req, allow) = "Ok"
    PROVE  \E i \in DOMAIN allow : Matches(allow[i], req)
<1> DEFINE shape == validate_request_shape(req)
<1> HIDE DEF shape
<1>1. CASE shape # "Ok"
  <2>1. validate_against_allowlist(req, allow) = shape
    BY <1>1 DEF validate_against_allowlist, shape
  <2> QED BY <1>1, <2>1
<1>2. CASE shape = "Ok"
  BY <1>2 DEF validate_against_allowlist, shape
<1> QED BY <1>1, <1>2

\* A call that keeps what it was screened with keeps the invariant.
LEMMA ScreenedKept ==
    ASSUME ScreenedInv, dns' = dns,
           \/ broker'.pc = "done"
           \/ /\ broker'.pc = broker.pc \/ (broker.pc = "sent" /\ broker'.pc = "body")
              /\ broker'.req = broker.req /\ broker'.secret = broker.secret
              /\ broker'.screened = broker.screened
              /\ broker'.connected = broker.connected
    PROVE  ScreenedInv'
BY DEF ScreenedInv

\* Every step of a call keeps it on the screened addresses.
LEMMA ScreenedStep ==
    ASSUME BrokerInv, ScreenedInv, BrokerNext
    PROVE  ScreenedInv'
<1>1. ASSUME NEW r \in BrokerRequests, NEW s \in Secrets, NEW e \in BOOLEAN, Validate(r, s, e)
      PROVE  ScreenedInv'
  <2> DEFINE v == IF e THEN validate_against_allowlist(r, s.allow) ELSE "Disabled"
  <2>1. broker' = [pc |-> IF v = "Ok" THEN "resolve" ELSE "done",
                      req |-> r, secret |-> s, screened |-> {},
                      connected |-> {}, sent |-> NoReply, buffered |-> 0,
                      reply |-> NoReply, returned |-> NoReply, result |-> v]
        /\ dns' = dns
    BY <1>1 DEF Validate
  <2>2. v = "Ok" => \E i \in DOMAIN s.allow : Matches(s.allow[i], r)
    BY ValidMatches
  <2> HIDE DEF v
  <2>3. broker'.pc = (IF v = "Ok" THEN "resolve" ELSE "done")
        /\ broker'.req = r /\ broker'.secret = s
    BY <2>1
  <2> QED BY <2>1, <2>2, <2>3
          DEF ScreenedInv
<1>2. CASE ResolveAndScreen
  <2> DEFINE entry == FirstMatch(broker.secret.allow, broker.req)
  <2>0. broker.pc = "resolve" /\ dns' = dns /\ IsCall(broker)
    BY <1>2 DEF ResolveAndScreen, BrokerInv
  <2>1. \/ \E x : broker' = Ended(x)
        \/ /\ broker' = [broker EXCEPT !.pc = "send", !.screened = dns]
           /\ dns # {}
           /\ ~(~entry.allow_private_ip /\ \E ip \in dns : is_blocked_ip(ip))
    BY <1>2, Zenon DEF ResolveAndScreen
  <2>2. CASE \E x : broker' = Ended(x)
    BY <2>0, <2>2, EndedParts, ScreenedKept
  <2>3. CASE /\ broker' = [broker EXCEPT !.pc = "send", !.screened = dns]
             /\ dns # {}
             /\ ~(~entry.allow_private_ip /\ \E ip \in dns : is_blocked_ip(ip))
    <3>1. /\ broker'.pc = "send" /\ broker'.screened = dns
          /\ broker'.req = broker.req /\ broker'.secret = broker.secret
      BY <2>0, <2>3 DEF IsCall
    <3>2. dns \in FirstAnswers \cup Answers
      BY <2>3 DEF ScreenedInv
    <3>3. (\E ip \in dns : is_blocked_ip(ip)) => entry.allow_private_ip
      BY <2>3
    <3>4. FirstMatch(broker'.secret.allow, broker'.req) = entry
      BY <3>1
    <3>5. /\ broker.secret \in Secrets /\ broker.req \in BrokerRequests
          /\ \E i \in DOMAIN broker.secret.allow :
                Matches(broker.secret.allow[i], broker.req)
      BY <2>0 DEF ScreenedInv
    <3> HIDE DEF entry
    <3> QED BY <2>0, <3>1, <3>2, <3>3, <3>4, <3>5
            DEF ScreenedInv
  <2> QED BY <2>1, <2>2, <2>3
<1>3. ASSUME NEW a \in FirstAnswers \cup Answers, Rebind(a)
      PROVE  ScreenedInv'
  <2>1. dns' = a /\ broker' = broker
    BY <1>3 DEF Rebind
  <2> QED BY <2>1
          DEF ScreenedInv
<1>4. CASE RefuseInjection
  <2>1. IsCall(broker) /\ dns' = dns /\ \E x : broker' = Ended(x)
    BY <1>4 DEF RefuseInjection, BrokerInv
  <2> QED BY <2>1, EndedParts, ScreenedKept
<1>5. ASSUME NEW ip, Connect(ip)
      PROVE  ScreenedInv'
  <2>1. /\ IsCall(broker) /\ broker.pc = "send" /\ ip \in broker.screened /\ dns' = dns
        /\ broker' = [broker EXCEPT !.pc = "sent", !.connected = {ip},
                        !.sent = RequestHeaders(broker.req, broker.secret)]
    BY <1>5 DEF Connect, Pinned, BrokerInv
  <2>2. /\ broker'.pc = "sent" /\ broker'.connected = {ip}
        /\ broker'.req = broker.req /\ broker'.secret = broker.secret
        /\ broker'.screened = broker.screened
    BY <2>1 DEF IsCall
  <2> QED BY <2>1, <2>2
          DEF ScreenedInv
<1>6. CASE Upstream
  <2>1. IsCall(broker) /\ dns' = dns /\ \E x : broker' = Ended(x)
    BY <1>6 DEF Upstream, BrokerInv
  <2> QED BY <2>1, EndedParts, ScreenedKept
<1>7. ASSUME NEW r \in Replies, Respond(r)
      PROVE  ScreenedInv'
  <2>1. /\ IsCall(broker) /\ broker.pc = "sent" /\ dns' = dns
        /\ \/ \E x : broker' = Ended(x)
           \/ \E x : broker' = [broker EXCEPT !.pc = "body", !.reply = r, !.returned = x]
    BY <1>7, Zenon DEF Respond, BrokerInv
  <2>2. CASE \E x : broker' = Ended(x)
    BY <2>1, <2>2, EndedParts, ScreenedKept
  <2>3. CASE \E x : broker' = [broker EXCEPT !.pc = "body", !.reply = r, !.returned = x]
    <3>1. /\ broker'.pc = "body" /\ broker'.req = broker.req
          /\ broker'.secret = broker.secret /\ broker'.screened = broker.screened
          /\ broker'.connected = broker.connected
      BY <2>1, <2>3 DEF IsCall
    <3> QED BY <2>1, <3>1, ScreenedKept
  <2> QED BY <2>1, <2>2, <2>3
<1>8. ASSUME NEW n, Chunk(n)
      PROVE  ScreenedInv'
  <2>1. /\ IsCall(broker) /\ dns' = dns
        /\ \/ \E x : broker' = Ended(x)
           \/ \E x : broker' = [broker EXCEPT !.buffered = x]
    BY <1>8, Zenon DEF Chunk, BrokerInv
  <2>2. CASE \E x : broker' = Ended(x)
    BY <2>1, <2>2, EndedParts, ScreenedKept
  <2>3. CASE \E x : broker' = [broker EXCEPT !.buffered = x]
    <3>1. /\ broker'.pc = broker.pc /\ broker'.req = broker.req
          /\ broker'.secret = broker.secret /\ broker'.screened = broker.screened
          /\ broker'.connected = broker.connected
      BY <2>1, <2>3 DEF IsCall
    <3> QED BY <2>1, <3>1, ScreenedKept
  <2> QED BY <2>1, <2>2, <2>3
<1>9. CASE Return
  <2> DEFINE done == Ended("Ok")
  <2>1. /\ IsCall(broker) /\ dns' = dns
        /\ \E x : broker' = [done EXCEPT !.returned.body = x]
    BY <1>9 DEF Return, BrokerInv
  <2>2. IsCall(done) /\ done.pc = "done"
    BY <2>1, EndedParts
  <2> HIDE DEF done
  <2>3. broker'.pc = "done"
    BY <2>1, <2>2 DEF IsCall
  <2> QED BY <2>1, <2>3, ScreenedKept
<1> QED BY <1>1, <1>2, <1>3, <1>4, <1>5, <1>6, <1>7, <1>8, <1>9 DEF BrokerNext

\* The invariant of where a brokered call goes.
THEOREM BrokerScreened == BrokerSpec => [](BrokerInv /\ ScreenedInv)
<1>1. BrokerInit => ScreenedInv
  BY DEF BrokerInit, ScreenedInv
<1>2. BrokerInv /\ ScreenedInv /\ [BrokerNext]_brokerVars => ScreenedInv'
  <2>1. ScreenedInv /\ UNCHANGED brokerVars => ScreenedInv'
    BY DEF brokerVars, ScreenedInv
  <2> QED BY <2>1, ScreenedStep
<1> QED BY <1>1, <1>2, BrokerInvariant, PTL DEF BrokerSpec

\* The secret only leaves for an address that was screened, for a host, a path
\* and a method under an entry of its allowlist, and never for a private
\* address unless that entry opts in, whatever the name service answers while
\* the call is under way.
THEOREM BrokerLeavesOnlyForListed == BrokerSpec => []LeavesOnlyForListed
<1>1. BrokerInv /\ ScreenedInv => LeavesOnlyForListed
  <2> SUFFICES ASSUME ScreenedInv, broker.pc \in {"sent", "body"}
               PROVE  \E i \in DOMAIN broker.secret.allow :
                        LET entry == broker.secret.allow[i] IN
                        /\ entry.host = broker.req.url.host
                        /\ Under(entry.path_prefix, broker.req.url.path)
                        /\ broker.req.method \in entry.methods
                        /\ \A ip \in broker.connected :
                              Private(ip) => entry.allow_private_ip
    BY Zenon DEF LeavesOnlyForListed
  <2> DEFINE allow == broker.secret.allow
             req == broker.req
  <2>1. /\ broker.secret \in Secrets /\ req \in BrokerRequests
        /\ \E i \in DOMAIN allow : Matches(allow[i], req)
        /\ broker.screened \subseteq UNION (FirstAnswers \cup Answers)
        /\ (\E ip \in broker.screened : is_blocked_ip(ip)) =>
                FirstMatch(allow, req).allow_private_ip
        /\ broker.connected \subseteq broker.screened
    BY DEF ScreenedInv
  <2>2. allow \in Seq(BrokerAllow) /\ req.url.path \in Seq(STRING)
    BY <2>1, BrokerTypes
  <2> HIDE DEF allow, req
  <2>3. PICK i \in DOMAIN allow : Matches(allow[i], req) /\ FirstMatch(allow, req) = allow[i]
    BY <2>1, <2>2, FirstMatches
  <2> DEFINE entry == allow[i]
  <2>4. entry \in BrokerAllow
    BY <2>2
  <2>5. /\ entry.host = req.url.host /\ req.method \in entry.methods
        /\ path_prefix_matches(entry.path_prefix, req.url.path)
    BY <2>3 DEF Matches
  <2>6. entry.path_prefix \in Seq(STRING)
    BY <2>4 DEF BrokerAllow
  <2>7. Under(entry.path_prefix, req.url.path)
    BY <2>2, <2>5, <2>6, MatchIsUnder
  <2>8. ASSUME NEW ip \in broker.connected, Private(ip) PROVE entry.allow_private_ip
    <3>1. ip \in broker.screened /\ ip \in UNION (FirstAnswers \cup Answers)
      BY <2>1
    <3>2. is_blocked_ip(ip)
      BY <2>8, <3>1, PrivateIsBlocked
    <3> QED BY <2>1, <2>3, <3>1, <3>2
  <2> QED BY <2>5, <2>7, <2>8, Zenon DEF allow, req
<1> QED BY <1>1, BrokerScreened, PTL

-----------------------------------------------------------------------------
(* The rewriting of project files.                                         *)

PlanItems == {plan[i] : i \in DOMAIN plan}

\* The bytes are in a snapshot that a recovery record refers to.
Kept(d, c) ==
    /\ <<d, c>> \in snapshots
    /\ \E r \in recoveries : r.doc = d /\ r.content = c

JournalStates == {"none", "stored", "replaced", "rolled_back"}
ApplyStages == {"verify", "snapshot", "record", "journal", "recheck", "replace", "done"}
RestoreStages == {"restore", "restored"}
IngestStages == {"i_snapshot", "i_record", "i_manifest", "i_check", "i_remove"}

ApplyRun ==
    [stage : ApplyStages, items : Seq(PlanItems) \ {<<>>}, dry : BOOLEAN, raced : BOOLEAN,
     seen : [Doc -> JournalStates]]
RestoreRun == [stage : RestoreStages, record : recoveries, raced : BOOLEAN]
IngestRun == [stage : IngestStages, managed : managed, raced : BOOLEAN]

\* Items of one document were all taken from the same bytes.
PlanInv ==
    /\ plan \in Seq(PlanItems)
    /\ \A a \in PlanItems : a.doc \in Doc
    /\ \A a, b \in PlanItems : a.doc = b.doc => a.content = b.content
    /\ \A r \in managed \cup recoveries : r.doc \in Doc
    /\ tree = [d \in Doc |-> tree[d]]

\* A document whose latest state in a journal is "stored" is in the vault as
\* it was planned.
StoredIsKept(j) ==
    /\ j \in [Doc -> JournalStates]
    /\ \A a \in PlanItems : j[a.doc] = "stored" => Kept(a.doc, a.content)

\* What the call has put into the vault so far, and what it has read.
ApplyInv ==
    run.stage \in ApplyStages =>
        /\ run \in ApplyRun
        /\ StoredIsKept(run.seen)
        /\ RunAt("record") => <<ItemDoc, Item.content>> \in snapshots
        /\ run.stage \in {"journal", "recheck", "replace"} => Kept(ItemDoc, Item.content)
        /\ RunAt("replace") /\ ~run.raced => same_bytes(Item)

RestoreInv ==
    run.stage \in RestoreStages =>
        /\ run \in RestoreRun
        /\ <<run.record.doc, run.record.content>> \in snapshots
        /\ run.record.span # WholeFile
        /\ RunAt("restore") /\ ~run.raced => restorable(run.record)

IngestInv ==
    run.stage \in IngestStages =>
        /\ run \in IngestRun
        /\ RunAt("i_record") => <<Managed.doc, Managed.content>> \in snapshots
        /\ run.stage \in {"i_manifest", "i_check", "i_remove"} =>
              Kept(Managed.doc, Managed.content)
        /\ ~run.raced => same_bytes(Managed)

RunInv ==
    /\ run = NoRun \/ run.stage \in ApplyStages \cup RestoreStages \cup IngestStages
    /\ ApplyInv /\ RestoreInv /\ IngestInv

RemediationInv == PlanInv /\ StoredIsKept(rewriteJournal) /\ RunInv /\ OriginalsAreKept

\* The vault forgets nothing: no step removes a snapshot or a record.
LEMMA VaultGrows ==
    ASSUME RemediationNext
    PROVE  snapshots \subseteq snapshots' /\ recoveries \subseteq recoveries'
<1> USE DEF vaultVars
<1>1. CASE ApplyStep
  BY <1>1 DEF ApplyStep, verify, pass_over, store_snapshot, store_recovery, journal_stored,
              sink_fails, recheck, recheck_fails, replace, replace_fails, journal_replaced
<1>2. CASE RestoreStep
  BY <1>2 DEF RestoreStep, put_back, journal_rolled_back
<1>3. CASE IngestStep
  BY <1>3 DEF IngestStep, ingest_store, ingest_record, ingest_manifest, startup_check,
              remove_file, ingest_fails
<1> QED BY <1>1, <1>2, <1>3 DEF RemediationNext, build, build_managed, execute, resume, restore,
                                ingest, Crash, ForeignWrite

LEMMA KeptStays ==
    ASSUME RemediationNext, NEW d, NEW c, Kept(d, c)
    PROVE  Kept(d, c)'
BY VaultGrows DEF Kept

\* What is recoverable stays so.
LEMMA RecoverableStays ==
    ASSUME RemediationNext, NEW d, NEW c, Recoverable(d, c)
    PROVE  Recoverable(d, c)'
BY VaultGrows DEF Recoverable

\* A plan changes between calls only.
LEMMA PlanStands ==
    ASSUME RemediationNext
    PROVE  \/ /\ plan' = plan /\ managed' = managed /\ PlanItems' = PlanItems
           \/ \E S \in SUBSET Findings \ {{}} : build(S)
           \/ \E d \in Doc : build_managed(d)
<1> USE DEF planVars, PlanItems
<1>1. CASE ApplyStep
  BY <1>1 DEF ApplyStep, verify, pass_over, store_snapshot, store_recovery, journal_stored,
              sink_fails, recheck, recheck_fails, replace, replace_fails, journal_replaced
<1>2. CASE RestoreStep
  BY <1>2 DEF RestoreStep, put_back, journal_rolled_back
<1>3. CASE IngestStep
  BY <1>3 DEF IngestStep, ingest_store, ingest_record, ingest_manifest, startup_check,
              remove_file, ingest_fails
<1> QED BY <1>1, <1>2, <1>3 DEF RemediationNext, execute, resume, restore, ingest, Crash,
                                ForeignWrite

\* The first item of a call in progress is one of the plan.
LEMMA ItemIsPlanned ==
    ASSUME RunInv, run.stage \in ApplyStages
    PROVE  /\ run.items \in Seq(PlanItems) /\ run.items # <<>>
           /\ Item \in PlanItems
           /\ Tail(run.items) \in Seq(PlanItems)
<1>1. run.items \in Seq(PlanItems) /\ run.items # <<>>
  BY DEF RunInv, ApplyInv, ApplyRun
<1> HIDE DEF PlanItems
<1> QED BY <1>1 DEF Item

\* The tree keeps a file or none at each path.
LEMMA TreeStep ==
    ASSUME PlanInv, RemediationNext
    PROVE  tree' = [d \in Doc |-> tree'[d]]
<1>0. tree = [d \in Doc |-> tree[d]]
  BY DEF PlanInv
<1>1. \A d, f : [tree EXCEPT ![d] = f] = [e \in Doc |-> [tree EXCEPT ![d] = f][e]]
  BY <1>0, Zenon
<1>2. CASE ApplyStep
  BY <1>0, <1>1, <1>2
     DEF ApplyStep, verify, pass_over, store_snapshot, store_recovery, journal_stored,
         sink_fails, recheck, recheck_fails, replace, replace_fails, journal_replaced,
         replace_atomic
<1>3. CASE RestoreStep
  BY <1>0, <1>1, <1>3 DEF RestoreStep, put_back, journal_rolled_back, replace_atomic
<1>4. CASE IngestStep
  BY <1>0, <1>1, <1>4 DEF IngestStep, ingest_store, ingest_record, ingest_manifest,
                          startup_check, remove_file, ingest_fails
<1> QED BY <1>0, <1>1, <1>2, <1>3, <1>4
        DEF RemediationNext, build, build_managed, execute, resume, restore, ingest, Crash,
            ForeignWrite

\* The items of a new plan are snapshots of the files as they are.
LEMMA BuildStep ==
    ASSUME PlanInv, NEW S \in SUBSET Findings \ {{}}, build(S)
    PROVE  /\ plan' \in Seq(PlanItems')
           /\ \A a \in PlanItems' : a.doc \in Doc
           /\ \A a, b \in PlanItems' : a.doc = b.doc => a.content = b.content
<1> DEFINE I == {Snapshot(s[1], s[2]) : s \in S}
<1>1. \A s \in S : s[1] \in Doc
  BY RemediationAssumption
<1>2. \A a \in I : a.doc \in Doc /\ a.content = tree[a.doc].content
  BY <1>1 DEF Snapshot
<1>3. plan' \in [1..Cardinality(I) -> I]
  BY DEF build, Sorted
<1>4. IsFiniteSet(I) => Cardinality(I) \in Nat
  BY FS_CardinalityType
<1> HIDE DEF I
<1>5. PlanItems' \subseteq I
  BY <1>3 DEF PlanItems
<1>6. Cardinality(I) \in Nat
  <2>1. IsFiniteSet(Findings)
    BY RemediationAssumption
  <2>2. IsFiniteSet(S)
    BY <2>1, FS_Subset
  <2>3. IsFiniteSet(I)
    <3> DEFINE f == [s \in S |-> Snapshot(s[1], s[2])]
    <3>1. f \in Surjection(S, I)
      BY DEF I, Surjection
    <3> HIDE DEF f
    <3> QED BY <2>2, <3>1, FS_Surjection
  <2> QED BY <1>4, <2>3
<1>7. plan' \in [1..Cardinality(I) -> PlanItems']
  BY <1>3 DEF PlanItems
<1>8. plan' \in Seq(PlanItems')
  BY <1>6, <1>7
<1> QED BY <1>2, <1>5, <1>8

\* The plan, and the documents the vault speaks of.
LEMMA PlanStep ==
    ASSUME PlanInv, RunInv, RemediationNext
    PROVE  PlanInv'
<1>1. tree' = [d \in Doc |-> tree'[d]]
  BY TreeStep
<1>2. \A r \in recoveries' : r.doc \in Doc
  <2>1. CASE recoveries' = recoveries
    BY <2>1 DEF PlanInv
  <2>2. CASE store_recovery
    <3>1. run.stage \in ApplyStages
      BY <2>2 DEF store_recovery, RunAt, ApplyStages
    <3>2. ItemDoc \in Doc
      BY <3>1, ItemIsPlanned DEF PlanInv, ItemDoc
    <3>3. recoveries' = recoveries \cup
             {[doc |-> ItemDoc, content |-> Item.content, span |-> Item.mark]}
      BY <2>2 DEF store_recovery
    <3> QED BY <3>2, <3>3 DEF PlanInv
  <2>3. CASE ingest_record
    <3>1. run \in IngestRun
      BY <2>3 DEF ingest_record, RunAt, IngestStages, RunInv, IngestInv
    <3>2. Managed.doc \in Doc
      BY <3>1 DEF PlanInv, Managed, IngestRun
    <3>3. recoveries' = recoveries \cup
             {[doc |-> Managed.doc, content |-> Managed.content, span |-> WholeFile]}
      BY <2>3 DEF ingest_record
    <3> QED BY <3>2, <3>3 DEF PlanInv
  <2>4. recoveries' = recoveries \/ store_recovery \/ ingest_record
    <3> USE DEF vaultVars
    <3>1. CASE ApplyStep
      BY <3>1 DEF ApplyStep, verify, pass_over, store_snapshot, journal_stored, sink_fails,
                  recheck, recheck_fails, replace, replace_fails, journal_replaced
    <3>2. CASE RestoreStep
      BY <3>2 DEF RestoreStep, put_back, journal_rolled_back
    <3>3. CASE IngestStep
      BY <3>3 DEF IngestStep, ingest_store, ingest_manifest, startup_check, remove_file,
                  ingest_fails
    <3> QED BY <3>1, <3>2, <3>3 DEF RemediationNext, build, build_managed, execute, resume,
                                    restore, ingest, Crash, ForeignWrite
  <2> QED BY <2>1, <2>2, <2>3, <2>4
<1>3. CASE plan' = plan /\ managed' = managed /\ PlanItems' = PlanItems
  BY <1>1, <1>2, <1>3 DEF PlanInv
<1>4. CASE \E S \in SUBSET Findings \ {{}} : build(S)
  <2>1. managed' = managed
    BY <1>4 DEF build
  <2>2. /\ plan' \in Seq(PlanItems')
        /\ \A a \in PlanItems' : a.doc \in Doc
        /\ \A a, b \in PlanItems' : a.doc = b.doc => a.content = b.content
    BY <1>4, BuildStep
  <2> QED BY <1>1, <1>2, <2>1, <2>2 DEF PlanInv
<1>5. CASE \E d \in Doc : build_managed(d)
  <2>1. plan' = plan /\ PlanItems' = PlanItems
    BY <1>5 DEF build_managed, PlanItems
  <2>2. \A r \in managed' : r.doc \in Doc
    BY <1>5 DEF build_managed, Snapshot
  <2> QED BY <1>1, <1>2, <2>1, <2>2 DEF PlanInv
<1> QED BY <1>3, <1>4, <1>5, PlanStands

\* A journal that speaks true of a plan goes on doing so.
LEMMA StoredStaysKept ==
    ASSUME RemediationNext, PlanItems' = PlanItems, NEW j, StoredIsKept(j)
    PROVE  StoredIsKept(j)'
BY KeptStays DEF StoredIsKept

LEMMA JournalStep ==
    ASSUME RemediationInv, RemediationNext
    PROVE  StoredIsKept(rewriteJournal)'
<1>0. PlanInv /\ RunInv /\ StoredIsKept(rewriteJournal)
  BY DEF RemediationInv
<1>1. rewriteJournal \in [Doc -> JournalStates]
  BY <1>0 DEF StoredIsKept
<1>2. CASE rewriteJournal' = rewriteJournal /\ PlanItems' = PlanItems
  BY <1>0, <1>2, StoredStaysKept
<1>3. CASE \E S \in SUBSET Findings \ {{}} : build(S)
  <2>1. rewriteJournal' = [d \in Doc |-> "none"]
    BY <1>3 DEF build
  <2>2. \A a \in PlanItems' : a.doc \in Doc
    BY <1>3, <1>0, BuildStep
  <2> QED BY <2>1, <2>2 DEF StoredIsKept, JournalStates
<1>4. ASSUME NEW d \in Doc, NEW s \in JournalStates, rewriteJournal' \in Appended(d, s),
             PlanItems' = PlanItems,
             \A a \in PlanItems : a.doc = d /\ s = "stored" => Kept(a.doc, a.content)'
      PROVE  StoredIsKept(rewriteJournal)'
  <2>1. rewriteJournal' \in [Doc -> JournalStates]
    BY <1>1, <1>4 DEF Appended, JournalStates
  <2>2. ASSUME NEW a \in PlanItems, rewriteJournal'[a.doc] = "stored"
        PROVE  Kept(a.doc, a.content)'
    <3>1. CASE a.doc = d
      <4>1. rewriteJournal'[d] = s
        BY <1>1, <1>4 DEF Appended
      <4> QED BY <1>4, <2>2, <3>1, <4>1
    <3>2. CASE a.doc # d
      <4>1. a.doc \in Doc
        BY <1>0 DEF PlanInv
      <4>2. rewriteJournal[a.doc] = "stored"
        BY <1>1, <1>4, <2>2, <3>2, <4>1 DEF Appended
      <4> QED BY <1>0, <4>2, KeptStays DEF StoredIsKept
    <3> QED BY <3>1, <3>2
  <2> QED BY <1>4, <2>1, <2>2 DEF StoredIsKept
<1>5. CASE journal_stored
  <2>1. run.stage = "journal" /\ rewriteJournal' \in Appended(ItemDoc, "stored") /\ plan' = plan
    BY <1>5 DEF journal_stored, RunAt, planVars
  <2>2. Item \in PlanItems /\ Kept(ItemDoc, Item.content)
    BY <1>0, <2>1, ItemIsPlanned DEF RunInv, ApplyInv, ApplyStages
  <2>3. ItemDoc \in Doc /\ PlanItems' = PlanItems
    BY <1>0, <2>1, <2>2 DEF PlanInv, ItemDoc, PlanItems
  <2>4. \A a \in PlanItems : a.doc = ItemDoc => Kept(a.doc, a.content)'
    BY <1>0, <2>2, KeptStays DEF PlanInv, ItemDoc
  <2> QED BY <1>4, <2>1, <2>3, <2>4 DEF JournalStates
<1>6. CASE journal_replaced
  <2>1. /\ run.stage = "done" /\ plan' = plan
        /\ rewriteJournal' \in Appended(ItemDoc, "replaced") \cup {rewriteJournal}
    BY <1>6 DEF journal_replaced, RunAt, planVars
  <2>2. ItemDoc \in Doc /\ PlanItems' = PlanItems
    BY <1>0, <2>1, ItemIsPlanned DEF PlanInv, ItemDoc, PlanItems, ApplyStages
  <2> QED BY <1>2, <1>4, <2>1, <2>2 DEF JournalStates
<1>7. CASE journal_rolled_back
  <2>1. /\ run.stage = "restored" /\ plan' = plan
        /\ rewriteJournal' \in Appended(run.record.doc, "rolled_back") \cup {rewriteJournal}
    BY <1>7 DEF journal_rolled_back, RunAt, planVars
  <2>2. run.record \in recoveries
    BY <1>0, <2>1 DEF RunInv, RestoreInv, RestoreStages, RestoreRun
  <2>3. run.record.doc \in Doc /\ PlanItems' = PlanItems
    BY <1>0, <2>1, <2>2 DEF PlanInv, PlanItems
  <2> QED BY <1>2, <1>4, <2>1, <2>3 DEF JournalStates
<1>8. \/ rewriteJournal' = rewriteJournal /\ PlanItems' = PlanItems
      \/ \E S \in SUBSET Findings \ {{}} : build(S)
      \/ journal_stored \/ journal_replaced \/ journal_rolled_back
  <2> USE DEF vaultVars, planVars, PlanItems
  <2>1. CASE ApplyStep
    BY <2>1 DEF ApplyStep, verify, pass_over, store_snapshot, store_recovery, sink_fails,
                recheck, recheck_fails, replace, replace_fails
  <2>2. CASE RestoreStep
    BY <2>2 DEF RestoreStep, put_back
  <2>3. CASE IngestStep
    BY <2>3 DEF IngestStep, ingest_store, ingest_record, ingest_manifest, startup_check,
                remove_file, ingest_fails
  <2> QED BY <2>1, <2>2, <2>3 DEF RemediationNext, build_managed, execute, resume, restore,
                                  ingest, Crash, ForeignWrite
<1> QED BY <1>2, <1>3, <1>5, <1>6, <1>7, <1>8

\* A call that is over owes nothing.
LEMMA RunEnds ==
    ASSUME run' = NoRun
    PROVE  RunInv'
<1>1. run'.stage = "idle"
  BY DEF NoRun
<1> QED BY <1>1 DEF RunInv, ApplyInv, RestoreInv, IngestInv, ApplyStages, RestoreStages,
                    IngestStages

\* A rewrite goes on with the same item, at some stage.
LEMMA ApplyMoves ==
    ASSUME RemediationInv, RemediationNext, PlanItems' = PlanItems,
           run.stage \in ApplyStages, NEW s \in ApplyStages, NEW b \in BOOLEAN,
           run' = [run EXCEPT !.stage = s, !.raced = b],
           NEW item, item = Item,
           s = "record" => <<item.doc, item.content>> \in snapshots',
           s \in {"journal", "recheck", "replace"} => Kept(item.doc, item.content)',
           s = "replace" /\ ~b => same_bytes(item)'
    PROVE  RunInv'
<1>1. run \in ApplyRun /\ StoredIsKept(run.seen)
  BY DEF RemediationInv, RunInv, ApplyInv
<1>2. /\ run'.stage = s /\ run'.raced = b /\ run'.items = run.items /\ run'.seen = run.seen
      /\ run' \in ApplyRun
  BY <1>1 DEF ApplyRun
<1>3. run' \in ApplyRun'
  BY <1>2 DEF ApplyRun
<1>4. Item' = item /\ ItemDoc' = item.doc
  BY <1>2 DEF Item, ItemDoc
<1>5. StoredIsKept(run.seen)'
  <2> DEFINE j == run.seen
  <2>1. StoredIsKept(j)
    BY <1>1
  <2> HIDE DEF j
  <2>2. j' = j
    BY <1>2 DEF j
  <2>3. /\ j \in [Doc -> JournalStates]
        /\ \A a \in PlanItems' : j[a.doc] = "stored" => Kept(a.doc, a.content)'
    BY <2>1, KeptStays DEF StoredIsKept
  <2> QED BY <1>2, <2>2, <2>3 DEF StoredIsKept, j
<1>6. ApplyInv'
  BY <1>2, <1>3, <1>4, <1>5 DEF ApplyInv, RunAt
<1> QED BY <1>2, <1>6 DEF RunInv, RestoreInv, IngestInv, ApplyStages, RestoreStages,
                          IngestStages

\* The next item of a rewrite, or its end.
LEMMA NextItemKeeps ==
    ASSUME RemediationInv, RemediationNext, PlanItems' = PlanItems,
           run.stage \in ApplyStages, NextItem
    PROVE  RunInv'
<1>1. run \in ApplyRun /\ StoredIsKept(run.seen) /\ Tail(run.items) \in Seq(PlanItems)
  BY ItemIsPlanned DEF RemediationInv, RunInv, ApplyInv
<1>2. CASE run' = NoRun
  BY <1>2, RunEnds
<1>3. CASE Tail(run.items) # <<>> /\ run' = [run EXCEPT !.stage = "verify",
                                                        !.items = Tail(@), !.raced = FALSE]
  <2> DEFINE t == Tail(run.items)
  <2>1. t \in Seq(PlanItems) \ {<<>>} /\ run' = [run EXCEPT !.stage = "verify", !.items = t,
                                                            !.raced = FALSE]
    BY <1>1, <1>3
  <2> HIDE DEF t
  <2>2. run'.stage = "verify" /\ run'.seen = run.seen /\ run' \in ApplyRun
    BY <1>1, <2>1 DEF ApplyRun, ApplyStages
  <2>3. run' \in ApplyRun'
    BY <2>2 DEF ApplyRun
  <2>4. StoredIsKept(run.seen)'
    BY <1>1, <2>2, KeptStays DEF StoredIsKept
  <2> QED BY <2>2, <2>3, <2>4 DEF RunInv, ApplyInv, RestoreInv, IngestInv, RunAt, ApplyStages,
                                  RestoreStages, IngestStages
<1> QED BY <1>2, <1>3 DEF NextItem

\* A restore goes on with the same record.
LEMMA RestoreMoves ==
    ASSUME RemediationInv, RemediationNext, run.stage \in RestoreStages,
           NEW s \in RestoreStages, NEW b \in BOOLEAN,
           run' = [run EXCEPT !.stage = s, !.raced = b],
           NEW r, r = run.record,
           s = "restore" /\ ~b => restorable(r)'
    PROVE  RunInv'
<1>1. run \in RestoreRun /\ <<r.doc, r.content>> \in snapshots /\ r.span # WholeFile
  BY DEF RemediationInv, RunInv, RestoreInv
<1>2. run'.stage = s /\ run'.raced = b /\ run'.record = r /\ run' \in RestoreRun
  BY <1>1 DEF RestoreRun
<1>3. run' \in RestoreRun'
  BY <1>2, VaultGrows DEF RestoreRun
<1>4. <<r.doc, r.content>> \in snapshots'
  BY <1>1, VaultGrows
<1>5. RestoreInv'
  BY <1>1, <1>2, <1>3, <1>4 DEF RestoreInv, RunAt
<1> QED BY <1>2, <1>5 DEF RunInv, ApplyInv, IngestInv, ApplyStages, RestoreStages,
                          IngestStages

\* An ingestion goes on with the same file.
LEMMA IngestMoves ==
    ASSUME RemediationInv, RemediationNext, managed' = managed,
           run.stage \in IngestStages, NEW s \in IngestStages, NEW b \in BOOLEAN,
           run' = [run EXCEPT !.stage = s, !.raced = b],
           NEW item, item = Managed,
           s = "i_record" => <<item.doc, item.content>> \in snapshots',
           s \in {"i_manifest", "i_check", "i_remove"} => Kept(item.doc, item.content)',
           ~b => same_bytes(item)'
    PROVE  RunInv'
<1>1. run \in IngestRun
  BY DEF RemediationInv, RunInv, IngestInv
<1>2. run'.stage = s /\ run'.raced = b /\ run'.managed = item /\ run' \in IngestRun
  BY <1>1 DEF IngestRun, Managed
<1>3. run' \in IngestRun' /\ Managed' = item
  BY <1>2 DEF IngestRun, Managed
<1>4. IngestInv'
  BY <1>2, <1>3 DEF IngestInv, RunAt
<1> QED BY <1>2, <1>4 DEF RunInv, ApplyInv, RestoreInv, ApplyStages, RestoreStages,
                          IngestStages

\* The steps of a rewrite.
LEMMA ApplyRunStep ==
    ASSUME RemediationInv, RemediationNext, ApplyStep
    PROVE  RunInv'
<1>0. RunInv /\ PlanItems' = PlanItems
  BY DEF RemediationInv, ApplyStep, verify, pass_over, store_snapshot, store_recovery,
         journal_stored, sink_fails, recheck, recheck_fails, replace, replace_fails,
         journal_replaced, planVars, PlanItems
<1>1. run.stage \in ApplyStages
  BY DEF ApplyStep, verify, pass_over, store_snapshot, store_recovery, journal_stored,
         sink_fails, recheck, recheck_fails, replace, replace_fails, journal_replaced, RunAt,
         Keeping, ApplyStages
<1>2. PICK item : item = Item
  OBVIOUS
<1>3. /\ run \in ApplyRun /\ StoredIsKept(run.seen)
      /\ RunAt("record") => <<item.doc, item.content>> \in snapshots
      /\ run.stage \in {"journal", "recheck", "replace"} => Kept(item.doc, item.content)
      /\ ItemDoc = item.doc
  BY <1>0, <1>1, <1>2 DEF RunInv, ApplyInv, ItemDoc
<1>4. run.raced \in BOOLEAN /\ item \in PlanItems
  BY <1>0, <1>1, <1>2, <1>3, ItemIsPlanned DEF ApplyRun
<1>5. ASSUME NEW s, Goto(s)
      PROVE  run' = [run EXCEPT !.stage = s, !.raced = run.raced]
  BY <1>3, <1>5 DEF Goto, ApplyRun
<1>6. CASE verify
  <2>1. PICK s \in {"recheck", "snapshot"} :
            /\ run' = [run EXCEPT !.stage = s, !.raced = FALSE]
            /\ s = "recheck" => run.seen[ItemDoc] = "stored"
    BY <1>6 DEF verify
  <2>2. s = "recheck" => Kept(item.doc, item.content)'
    BY <1>3, <1>4, <2>1, KeptStays DEF StoredIsKept
  <2>3. s \in ApplyStages /\ s # "record" /\ s # "journal" /\ s # "replace"
    BY DEF ApplyStages
  <2> QED BY <1>0, <1>1, <1>2, <2>1, <2>2, <2>3, ApplyMoves
<1>7. CASE pass_over \/ sink_fails \/ recheck_fails \/ replace_fails \/ journal_replaced
  <2>1. NextItem
    BY <1>7 DEF pass_over, sink_fails, recheck_fails, replace_fails, journal_replaced
  <2> QED BY <1>0, <1>1, <2>1, NextItemKeeps
<1>8. CASE store_snapshot
  <2>1. /\ run' = [run EXCEPT !.stage = "record", !.raced = run.raced]
        /\ <<item.doc, item.content>> \in snapshots'
    BY <1>2, <1>3, <1>5, <1>8 DEF store_snapshot
  <2> QED BY <1>0, <1>1, <1>2, <1>4, <2>1, ApplyMoves DEF ApplyStages
<1>9. CASE store_recovery
  <2> DEFINE r == [doc |-> item.doc, content |-> item.content, span |-> item.mark]
  <2>1. /\ run' = [run EXCEPT !.stage = "journal", !.raced = run.raced]
        /\ RunAt("record") /\ snapshots' = snapshots /\ r \in recoveries'
    BY <1>2, <1>3, <1>5, <1>9 DEF store_recovery
  <2>2. Kept(item.doc, item.content)'
    BY <1>3, <2>1 DEF Kept
  <2> QED BY <1>0, <1>1, <1>2, <1>4, <2>1, <2>2, ApplyMoves DEF ApplyStages
<1>10. CASE journal_stored
  <2>1. run' = [run EXCEPT !.stage = "recheck", !.raced = run.raced] /\ run.stage = "journal"
    BY <1>5, <1>10 DEF journal_stored, RunAt
  <2>2. Kept(item.doc, item.content)'
    BY <1>3, <2>1, KeptStays
  <2> QED BY <1>0, <1>1, <1>2, <1>4, <2>1, <2>2, ApplyMoves DEF ApplyStages
<1>11. CASE recheck
  <2>1. /\ run' = [run EXCEPT !.stage = "replace", !.raced = FALSE] /\ run.stage = "recheck"
        /\ tree' = tree /\ same_bytes(item)
    BY <1>2, <1>11 DEF recheck, RunAt, unchanged
  <2>2. Kept(item.doc, item.content)'
    BY <1>3, <2>1, KeptStays
  <2>3. same_bytes(item)'
    BY <2>1 DEF same_bytes
  <2> QED BY <1>0, <1>1, <1>2, <2>1, <2>2, <2>3, ApplyMoves DEF ApplyStages
<1>12. CASE replace
  <2>1. run' = [run EXCEPT !.stage = "done", !.raced = run.raced]
    BY <1>5, <1>12 DEF replace
  <2> QED BY <1>0, <1>1, <1>2, <1>4, <2>1, ApplyMoves DEF ApplyStages
<1> QED BY <1>6, <1>7, <1>8, <1>9, <1>10, <1>11, <1>12 DEF ApplyStep

\* The steps of an ingestion.
LEMMA IngestRunStep ==
    ASSUME RemediationInv, RemediationNext, IngestStep
    PROVE  RunInv'
<1>0. RunInv /\ managed' = managed
  BY DEF RemediationInv, IngestStep, ingest_store, ingest_record, ingest_manifest,
         startup_check, remove_file, ingest_fails, planVars
<1>1. run.stage \in IngestStages
  BY DEF IngestStep, ingest_store, ingest_record, ingest_manifest, startup_check, remove_file,
         ingest_fails, RunAt, IngestStages
<1>2. PICK item : item = Managed
  OBVIOUS
<1>3. /\ run \in IngestRun
      /\ RunAt("i_record") => <<item.doc, item.content>> \in snapshots
      /\ run.stage \in {"i_manifest", "i_check", "i_remove"} => Kept(item.doc, item.content)
      /\ ~run.raced => same_bytes(item)
  BY <1>0, <1>1, <1>2 DEF RunInv, IngestInv
<1>4. run.raced \in BOOLEAN
  BY <1>3 DEF IngestRun
<1>5. ASSUME NEW s, Goto(s), tree' = tree
      PROVE  /\ run' = [run EXCEPT !.stage = s, !.raced = run.raced]
             /\ ~run.raced => same_bytes(item)'
  BY <1>3, <1>5 DEF Goto, IngestRun, same_bytes
<1>6. CASE ingest_store
  <2>1. tree' = tree /\ Goto("i_record") /\ <<item.doc, item.content>> \in snapshots'
    BY <1>2, <1>6 DEF ingest_store
  <2> QED BY <1>0, <1>1, <1>2, <1>4, <1>5, <2>1, IngestMoves DEF IngestStages
<1>7. CASE ingest_record
  <2> DEFINE r == [doc |-> item.doc, content |-> item.content, span |-> WholeFile]
  <2>1. /\ tree' = tree /\ Goto("i_manifest") /\ RunAt("i_record")
        /\ snapshots' = snapshots /\ r \in recoveries'
    BY <1>2, <1>7 DEF ingest_record
  <2>2. Kept(item.doc, item.content)'
    BY <1>3, <2>1 DEF Kept
  <2> QED BY <1>0, <1>1, <1>2, <1>4, <1>5, <2>1, <2>2, IngestMoves DEF IngestStages
<1>8. CASE ingest_manifest
  <2>1. tree' = tree /\ Goto("i_check") /\ run.stage = "i_manifest"
    BY <1>8 DEF ingest_manifest, RunAt
  <2>2. Kept(item.doc, item.content)'
    BY <1>3, <2>1, KeptStays
  <2> QED BY <1>0, <1>1, <1>2, <1>4, <1>5, <2>1, <2>2, IngestMoves DEF IngestStages
<1>9. ASSUME NEW ok \in BOOLEAN, startup_check(ok)
      PROVE  RunInv'
  <2>1. CASE ok
    <3>1. tree' = tree /\ Goto("i_remove") /\ run.stage = "i_check"
      BY <1>9, <2>1 DEF startup_check, RunAt
    <3>2. Kept(item.doc, item.content)'
      BY <1>3, <3>1, KeptStays
    <3> QED BY <1>0, <1>1, <1>2, <1>4, <1>5, <3>1, <3>2, IngestMoves DEF IngestStages
  <2>2. CASE ~ok
    BY <1>9, <2>2, RunEnds DEF startup_check
  <2> QED BY <2>1, <2>2
<1>10. CASE remove_file \/ ingest_fails
  BY <1>10, RunEnds DEF remove_file, ingest_fails
<1> QED BY <1>6, <1>7, <1>8, <1>9, <1>10 DEF IngestStep

\* A call begins.
LEMMA RunBegins ==
    ASSUME RemediationInv, RemediationNext,
           \/ \E dry \in BOOLEAN : execute(dry)
           \/ resume
           \/ \E r \in recoveries : restore(r)
           \/ \E item \in managed : ingest(item)
    PROVE  RunInv'
<1>0. PlanInv /\ StoredIsKept(rewriteJournal) /\ plan \in Seq(PlanItems)
  BY DEF RemediationInv, PlanInv
<1>1. ASSUME NEW dry \in BOOLEAN, NEW j, StoredIsKept(j), plan # <<>>, PlanItems' = PlanItems,
             run' = [stage |-> "verify", items |-> plan, dry |-> dry, raced |-> FALSE,
                     seen |-> j]
      PROVE  RunInv'
  <2>1. run' \in ApplyRun /\ run'.stage = "verify" /\ run'.seen = j
    BY <1>0, <1>1 DEF ApplyRun, ApplyStages, StoredIsKept
  <2>2. run' \in ApplyRun'
    BY <1>1, <2>1 DEF ApplyRun
  <2>3. StoredIsKept(run.seen)'
    BY <1>1, <2>1, KeptStays DEF StoredIsKept
  <2> QED BY <2>1, <2>2, <2>3 DEF RunInv, ApplyInv, RestoreInv, IngestInv, RunAt, ApplyStages,
                                  RestoreStages, IngestStages
<1>2. ASSUME NEW dry \in BOOLEAN, execute(dry)
      PROVE  RunInv'
  <2> DEFINE j == [d \in Doc |-> "none"]
  <2>1. StoredIsKept(j)
    BY <1>0 DEF StoredIsKept, JournalStates, PlanInv
  <2> HIDE DEF j
  <2>2. /\ plan # <<>> /\ PlanItems' = PlanItems
        /\ run' = [stage |-> "verify", items |-> plan, dry |-> dry, raced |-> FALSE,
                   seen |-> j]
    BY <1>2 DEF execute, planVars, PlanItems, j
  <2> QED BY <1>1, <2>1, <2>2
<1>3. CASE resume
  <2>1. /\ plan # <<>> /\ PlanItems' = PlanItems
        /\ run' = [stage |-> "verify", items |-> plan, dry |-> FALSE, raced |-> FALSE,
                   seen |-> rewriteJournal]
    BY <1>3 DEF resume, planVars, PlanItems
  <2> QED BY <1>0, <1>1, <2>1
<1>4. ASSUME NEW r \in recoveries, restore(r)
      PROVE  RunInv'
  <2>1. /\ r.span # WholeFile /\ <<r.doc, r.content>> \in snapshots' /\ r \in recoveries'
        /\ restorable(r) /\ tree' = tree
        /\ run' = [stage |-> "restore", record |-> r, raced |-> FALSE]
    BY <1>4, VaultGrows DEF restore
  <2>2. run' \in RestoreRun' /\ run'.stage = "restore" /\ run'.record = r
    BY <2>1 DEF RestoreRun, RestoreStages
  <2>3. restorable(r)'
    BY <2>1 DEF restorable
  <2>4. RestoreInv'
    BY <2>1, <2>2, <2>3 DEF RestoreInv
  <2> QED BY <2>2, <2>4 DEF RunInv, ApplyInv, IngestInv, ApplyStages, RestoreStages,
                            IngestStages
<1>5. ASSUME NEW item \in managed, ingest(item)
      PROVE  RunInv'
  <2>1. /\ same_bytes(item) /\ tree' = tree /\ managed' = managed
        /\ run' = [stage |-> "i_snapshot", managed |-> item, raced |-> FALSE]
    BY <1>5 DEF ingest, planVars
  <2>2. run' \in IngestRun' /\ run'.stage = "i_snapshot" /\ Managed' = item
    BY <1>5, <2>1 DEF IngestRun, IngestStages, Managed
  <2>3. same_bytes(item)'
    BY <2>1 DEF same_bytes
  <2>4. IngestInv'
    BY <2>2, <2>3 DEF IngestInv, RunAt
  <2> QED BY <2>2, <2>4 DEF RunInv, ApplyInv, RestoreInv, ApplyStages, RestoreStages,
                            IngestStages
<1> QED BY <1>2, <1>3, <1>4, <1>5

\* The steps of a restore.
LEMMA RestoreRunStep ==
    ASSUME RemediationInv, RemediationNext, RestoreStep
    PROVE  RunInv'
<1>1. CASE put_back
  <2>1. run.stage = "restore" /\ Goto("restored")
    BY <1>1 DEF put_back, RunAt
  <2>2. run \in RestoreRun
    BY <2>1 DEF RemediationInv, RunInv, RestoreInv, RestoreStages
  <2>3. run' = [run EXCEPT !.stage = "restored", !.raced = run.raced] /\ run.raced \in BOOLEAN
    BY <2>1, <2>2 DEF Goto, RestoreRun
  <2> QED BY <2>1, <2>3, RestoreMoves DEF RestoreStages
<1>2. CASE journal_rolled_back
  BY <1>2, RunEnds DEF journal_rolled_back
<1> QED BY <1>1, <1>2 DEF RestoreStep

\* Another program writes: a call that works on that path has been raced.
LEMMA ForeignRunStep ==
    ASSUME RemediationInv, RemediationNext, NEW d \in Doc, NEW f, ForeignWrite(d, f)
    PROVE  RunInv'
<1>0. /\ RunInv /\ PlanInv
      /\ tree' = [tree EXCEPT ![d] = f] /\ run' = IF Working(d) THEN [run EXCEPT !.raced = TRUE]
                                                  ELSE run
      /\ PlanItems' = PlanItems /\ managed' = managed /\ snapshots' = snapshots
      /\ recoveries' = recoveries
  BY DEF RemediationInv, ForeignWrite, planVars, vaultVars, PlanItems
<1>1. \A e \in Doc : e # d => tree'[e] = tree[e]
  BY <1>0 DEF PlanInv
<1>2. CASE run.stage \in ApplyStages
  <2>1. PICK item : item = Item
    OBVIOUS
  <2>2. /\ run \in ApplyRun /\ item.doc \in Doc
        /\ RunAt("record") => <<item.doc, item.content>> \in snapshots'
        /\ run.stage \in {"journal", "recheck", "replace"} => Kept(item.doc, item.content)
        /\ RunAt("replace") /\ ~run.raced => same_bytes(item)
    BY <1>0, <1>2, <2>1, ItemIsPlanned DEF RunInv, ApplyInv, ItemDoc, PlanInv
  <2>3. /\ "items" \in DOMAIN run /\ run.raced \in BOOLEAN
        /\ run = [run EXCEPT !.stage = run.stage, !.raced = run.raced]
        /\ [run EXCEPT !.raced = TRUE] = [run EXCEPT !.stage = run.stage, !.raced = TRUE]
    BY <2>2 DEF ApplyRun
  <2>4. run.stage \in {"journal", "recheck", "replace"} => Kept(item.doc, item.content)'
    BY <2>2, KeptStays
  <2>5. CASE Working(d)
    BY <1>0, <1>2, <2>1, <2>2, <2>3, <2>4, <2>5, ApplyMoves DEF RunAt
  <2>6. CASE ~Working(d)
    <3>1. item.doc # d
      BY <2>1, <2>3, <2>6 DEF Working, ItemDoc
    <3>2. RunAt("replace") /\ ~run.raced => same_bytes(item)'
      BY <1>1, <2>2, <3>1 DEF same_bytes
    <3>3. run' = [run EXCEPT !.stage = run.stage, !.raced = run.raced]
      BY <1>0, <2>3, <2>6
    <3> QED BY <1>0, <1>2, <2>1, <2>2, <2>3, <2>4, <3>2, <3>3, ApplyMoves DEF RunAt
  <2> QED BY <2>5, <2>6
<1>3. CASE run.stage \in RestoreStages
  <2>1. PICK r : r = run.record
    OBVIOUS
  <2>2. /\ run \in RestoreRun /\ r.doc \in Doc
        /\ RunAt("restore") /\ ~run.raced => restorable(r)
    BY <1>0, <1>3, <2>1 DEF RunInv, RestoreInv, RestoreRun, PlanInv
  <2>3. /\ "record" \in DOMAIN run /\ run.raced \in BOOLEAN
        /\ run = [run EXCEPT !.stage = run.stage, !.raced = run.raced]
        /\ [run EXCEPT !.raced = TRUE] = [run EXCEPT !.stage = run.stage, !.raced = TRUE]
    BY <2>2 DEF RestoreRun
  <2>4. CASE Working(d)
    BY <1>0, <1>3, <2>1, <2>3, <2>4, RestoreMoves
  <2>5. CASE ~Working(d)
    <3>1. r.doc # d
      BY <2>1, <2>3, <2>5 DEF Working
    <3>2. run.stage = "restore" /\ ~run.raced => restorable(r)'
      BY <1>1, <2>2, <3>1 DEF restorable, RunAt
    <3>3. run' = [run EXCEPT !.stage = run.stage, !.raced = run.raced]
      BY <1>0, <2>3, <2>5
    <3> QED BY <1>3, <2>1, <2>3, <3>2, <3>3, RestoreMoves
  <2> QED BY <2>4, <2>5
<1>4. CASE run.stage \in IngestStages
  <2>1. PICK item : item = Managed
    OBVIOUS
  <2>2. /\ run \in IngestRun /\ item.doc \in Doc
        /\ RunAt("i_record") => <<item.doc, item.content>> \in snapshots'
        /\ run.stage \in {"i_manifest", "i_check", "i_remove"} => Kept(item.doc, item.content)
        /\ ~run.raced => same_bytes(item)
    BY <1>0, <1>4, <2>1 DEF RunInv, IngestInv, IngestRun, Managed, PlanInv
  <2>3. /\ "managed" \in DOMAIN run /\ run.raced \in BOOLEAN
        /\ run = [run EXCEPT !.stage = run.stage, !.raced = run.raced]
        /\ [run EXCEPT !.raced = TRUE] = [run EXCEPT !.stage = run.stage, !.raced = TRUE]
    BY <2>2 DEF IngestRun
  <2>4. run.stage \in {"i_manifest", "i_check", "i_remove"} => Kept(item.doc, item.content)'
    BY <2>2, KeptStays
  <2>5. CASE Working(d)
    BY <1>0, <1>4, <2>1, <2>2, <2>3, <2>4, <2>5, IngestMoves DEF RunAt
  <2>6. CASE ~Working(d)
    <3>1. item.doc # d
      BY <2>1, <2>3, <2>6 DEF Working
    <3>2. ~run.raced => same_bytes(item)'
      BY <1>1, <2>2, <3>1 DEF same_bytes
    <3>3. run' = [run EXCEPT !.stage = run.stage, !.raced = run.raced]
      BY <1>0, <2>3, <2>6
    <3> QED BY <1>0, <1>4, <2>1, <2>2, <2>3, <2>4, <3>2, <3>3, IngestMoves DEF RunAt
  <2> QED BY <2>5, <2>6
<1>5. CASE run = NoRun
  <2>1. ~Working(d)
    BY <1>5 DEF Working, NoRun
  <2> QED BY <1>0, <1>5, <2>1, RunEnds
<1> QED BY <1>0, <1>2, <1>3, <1>4, <1>5 DEF RunInv

LEMMA RunStep ==
    ASSUME RemediationInv, RemediationNext
    PROVE  RunInv'
<1>1. CASE ApplyStep
  BY <1>1, ApplyRunStep
<1>2. CASE RestoreStep
  BY <1>2, RestoreRunStep
<1>3. CASE IngestStep
  BY <1>3, IngestRunStep
<1>4. CASE \/ \E dry \in BOOLEAN : execute(dry)
           \/ resume
           \/ \E r \in recoveries : restore(r)
           \/ \E item \in managed : ingest(item)
  BY <1>4, RunBegins
<1>5. CASE \/ \E S \in SUBSET Findings \ {{}} : build(S)
           \/ \E d \in Doc : build_managed(d)
  <2>1. run.stage = "idle" /\ run' = run
    BY <1>5 DEF build, build_managed, BeginRound, Unoccupied
  <2>2. run = NoRun
    BY <2>1 DEF RemediationInv, RunInv, ApplyStages, RestoreStages, IngestStages
  <2> QED BY <2>1, <2>2, RunEnds
<1>6. CASE Crash
  BY <1>6, RunEnds DEF Crash
<1>7. CASE \E d \in Doc : \E f : ForeignWrite(d, f)
  BY <1>7, ForeignRunStep
<1> QED BY <1>1, <1>2, <1>3, <1>4, <1>5, <1>6, <1>7 DEF RemediationNext

\* A call overwrites or removes what it read, and that is in the vault.
LEMMA GoneStep ==
    ASSUME RemediationInv, RemediationNext
    PROVE  OriginalsAreKept'
<1>0. RunInv /\ PlanInv /\ \A g \in gone : Recoverable(g[1], g[2])'
  BY RecoverableStays DEF RemediationInv, OriginalsAreKept
<1>1. CASE gone' = gone
  BY <1>0, <1>1 DEF OriginalsAreKept
<1>2. ASSUME NEW d, gone' = gone \cup Lost(d),
             There(d) /\ ~run.raced => Recoverable(d, tree[d].content)
      PROVE  OriginalsAreKept'
  <2>1. PICK c : c = tree[d].content
    OBVIOUS
  <2>2. There(d) /\ ~run.raced => Recoverable(d, c)'
    BY <1>2, <2>1, RecoverableStays
  <2>3. \A g \in gone' : g \in gone \/ (There(d) /\ ~run.raced /\ g = <<d, c>>)
    BY <1>2, <2>1 DEF Lost
  <2>4. \A g \in gone' : Recoverable(g[1], g[2])'
    BY <1>0, <2>2, <2>3
  <2> QED BY <2>4 DEF OriginalsAreKept
<1>3. CASE replace
  <2>1. RunAt("replace") /\ gone' = gone \cup Lost(ItemDoc)
    BY <1>3 DEF replace, replace_atomic
  <2>2. /\ Kept(ItemDoc, Item.content)
        /\ ~run.raced => tree[ItemDoc].content = Item.content
    BY <1>0, <2>1 DEF RunInv, ApplyInv, ApplyStages, RunAt, same_bytes, ItemDoc
  <2>3. ~run.raced => Recoverable(ItemDoc, tree[ItemDoc].content)
    BY <2>2 DEF Kept, Recoverable
  <2> QED BY <1>2, <2>1, <2>3
<1>4. CASE put_back
  <2>1. RunAt("restore") /\ gone' = gone \cup Lost(run.record.doc)
    BY <1>4 DEF put_back, replace_atomic
  <2>2. /\ run.record \in recoveries /\ run.record.span # WholeFile
        /\ <<run.record.doc, run.record.content>> \in snapshots
        /\ ~run.raced => restorable(run.record)
    BY <1>0, <2>1 DEF RunInv, RestoreInv, RestoreStages, RestoreRun, RunAt
  <2>3. ~run.raced => Recoverable(run.record.doc, tree[run.record.doc].content)
    BY <2>2 DEF Recoverable, restorable, Undone
  <2> QED BY <1>2, <2>1, <2>3
<1>5. CASE remove_file
  <2>1. RunAt("i_remove") /\ (gone' = gone \/ gone' = gone \cup Lost(Managed.doc))
    BY <1>5 DEF remove_file
  <2>2. /\ Kept(Managed.doc, Managed.content)
        /\ ~run.raced => tree[Managed.doc].content = Managed.content
    BY <1>0, <2>1 DEF RunInv, IngestInv, IngestStages, RunAt, same_bytes
  <2>3. ~run.raced => Recoverable(Managed.doc, tree[Managed.doc].content)
    BY <2>2 DEF Kept, Recoverable
  <2> QED BY <1>1, <1>2, <2>1, <2>3
<1>6. gone' = gone \/ replace \/ put_back \/ remove_file
  <2>1. CASE ApplyStep
    BY <2>1 DEF ApplyStep, verify, pass_over, store_snapshot, store_recovery, journal_stored,
                sink_fails, recheck, recheck_fails, replace_fails, journal_replaced
  <2>2. CASE RestoreStep
    BY <2>2 DEF RestoreStep, journal_rolled_back
  <2>3. CASE IngestStep
    BY <2>3 DEF IngestStep, ingest_store, ingest_record, ingest_manifest, startup_check,
                ingest_fails
  <2> QED BY <2>1, <2>2, <2>3 DEF RemediationNext, build, build_managed, execute, resume,
                                  restore, ingest, Crash, ForeignWrite
<1> QED BY <1>1, <1>3, <1>4, <1>5, <1>6

\* The vault holds what a call in progress is about to overwrite, and the
\* journal claims nothing that is not there, at every step a run can die at:
\* apply_item, resume, restore and ingest_managed_file.
THEOREM RemediationInvariant == RemediationSpec => []RemediationInv
<1>1. RemediationInit => RemediationInv
  <2> SUFFICES ASSUME RemediationInit PROVE RemediationInv
    OBVIOUS
  <2>1. plan = <<>> /\ managed = {} /\ recoveries = {} /\ gone = {} /\ run = NoRun
    BY DEF RemediationInit
  <2>2. PlanItems = {}
    BY <2>1 DEF PlanItems
  <2>3. PlanInv
    BY <2>1, <2>2 DEF PlanInv, RemediationInit
  <2>4. StoredIsKept(rewriteJournal)
    BY <2>2 DEF StoredIsKept, RemediationInit, JournalStates
  <2>5. RunInv
    BY <2>1 DEF RunInv, ApplyInv, RestoreInv, IngestInv, ApplyStages, RestoreStages,
                IngestStages, NoRun
  <2> QED BY <2>1, <2>3, <2>4, <2>5 DEF RemediationInv, OriginalsAreKept
<1>2. RemediationInv /\ [RemediationNext]_remediationVars => RemediationInv'
  <2> SUFFICES ASSUME RemediationInv, [RemediationNext]_remediationVars PROVE RemediationInv'
    OBVIOUS
  <2>1. CASE RemediationNext
    BY <2>1, PlanStep, JournalStep, RunStep, GoneStep DEF RemediationInv
  <2>2. CASE UNCHANGED remediationVars
    <3> USE <2>2 DEF remediationVars
    <3>1. PlanInv'
      BY DEF RemediationInv, PlanInv, PlanItems
    <3>2. StoredIsKept(rewriteJournal)'
      BY DEF RemediationInv, StoredIsKept, PlanItems, Kept
    <3>3. ApplyInv'
      BY DEF RemediationInv, RunInv, ApplyInv, ApplyRun, StoredIsKept, PlanItems, Kept, Item,
             ItemDoc, RunAt, same_bytes
    <3>4. RestoreInv'
      BY DEF RemediationInv, RunInv, RestoreInv, RestoreRun, restorable, RunAt
    <3>5. IngestInv'
      BY DEF RemediationInv, RunInv, IngestInv, IngestRun, Kept, Managed, RunAt, same_bytes
    <3>6. OriginalsAreKept'
      BY DEF RemediationInv, OriginalsAreKept, Recoverable
    <3> QED BY <3>1, <3>2, <3>3, <3>4, <3>5, <3>6 DEF RemediationInv, RunInv
  <2> QED BY <2>1, <2>2
<1> QED BY <1>1, <1>2, PTL DEF RemediationSpec

\* Whatever a rewrite, a resumed rewrite, a restore or an ingestion overwrites
\* or removes can be had back from the vault, whichever step the run dies at
\* and whatever other programs write before the last check.
THEOREM RemediationOriginalsKept == RemediationSpec => []OriginalsAreKept
<1>1. RemediationInv => OriginalsAreKept
  BY DEF RemediationInv
<1> QED BY <1>1, RemediationInvariant, PTL

=============================================================================
