--------------------------- MODULE GatewayProofs ---------------------------
(***************************************************************************)
(* Whatever the gateway has done is on record, and the headless gateway    *)
(* touches containers in the mode DIRECT only: for any number of           *)
(* connections, folders, agents and scopes, and however the calls of two   *)
(* connections, the registry and the lock interleave.                      *)
(***************************************************************************)
EXTENDS Gateway, TLAPS

AgentRecords ==
    [id : Nat, name : AgentName, token : Int, revoked : BOOLEAN, scopes : AgentScopes]

Edits == [list : Seq(AgentRecords), ends : SUBSET Nat]

RegistryTypeOK ==
    /\ agents \in Seq(AgentRecords)
    /\ minted \in Nat
    /\ secret \in Nat
    /\ edit \in Edits \cup {NoEdit}
    /\ starting \in Seq(AgentRecords) \cup {NoEdit}
    /\ ended \subseteq Nat

ModeRange == Modes \cup {Absent}

Requests ==
    [action : FolderActions, folder : Folder, mode : ModeRange] \cup
    [action : SharedActions \cup OtherActions, folder : {NoFolder}, mode : {Direct}]

Greeted == [stage : {"handshake", "unpaired"}, server : Nat]

PairedConns == [stage : {"idle"}, server : Nat, agent : Nat, scopes : AgentScopes]

CallStages == {"built", "authorized", "attempted", "executed", "answered"}

CallConns ==
    [stage : CallStages, server : Nat, agent : Nat, scopes : AgentScopes,
     req : Requests, ok : BOOLEAN, effect : BOOLEAN, found : ModeRange,
     log : SUBSET {"denied", "attempted", "allowed", "error"},
     masked : BOOLEAN, revoked : BOOLEAN]

ConnRecords == {Closed} \cup Greeted \cup PairedConns \cup CallConns

GatewayTypeOK ==
    /\ RegistryTypeOK
    /\ headless \in BOOLEAN
    /\ unlocked \in BOOLEAN
    /\ boot \in {"no", "starting", "refreshing"}
    /\ serving \in Nat
    /\ modes \in [Folder -> ModeRange]
    /\ conns \in [Conn -> ConnRecords]

\* What a call has put on record, by the stage it has come to.
Recorded(r) ==
    r \in CallConns =>
        /\ r.stage \in {"built", "authorized"} => ~r.effect /\ ~r.ok /\ r.log = {}
        /\ r.stage = "attempted" => ~r.effect /\ ~r.ok /\ r.log = {"attempted"}
        /\ r.stage = "executed" => r.log = {"attempted"}
        /\ r.effect => "attempted" \in r.log
        /\ r.stage = "answered" /\ r.ok => "allowed" \in r.log
        /\ "denied" \in r.log => ~r.effect

\* A mode that a headless call on an existing container may find, when the
\* call was built on the mode m.
MayFind(m) == {m, Direct, Absent}

\* What a headless call on a container is held to, by the stage it has come to,
\* while the containers have the modes ms.
Confined(r, ms) ==
    r \in CallConns /\ r.req.action \in FolderActions =>
        /\ r.stage = "built" /\ r.req.action \in {"read", "destroy"} =>
                ms[r.req.folder] \in MayFind(r.req.mode)
        /\ r.stage \in {"authorized", "attempted"} =>
                /\ r.req.mode = Direct
                /\ r.req.action \in {"read", "destroy"} =>
                        ms[r.req.folder] \in MayFind(Direct)
        /\ r.effect /\ r.req.folder # NoFolder => r.found = Direct

GatewayInv ==
    /\ GatewayTypeOK
    /\ \A c \in Conn : Recorded(conns[c])
    /\ headless => \A c \in Conn : Confined(conns[c], modes)

-----------------------------------------------------------------------------
(* The registry.                                                           *)

\* What an operation on the registry is about to write is a registry.
LEMMA RevokedLists ==
    ASSUME NEW list \in Seq(AgentRecords), NEW id, NEW name
    PROVE  /\ revoke_agent(list, id) \in Seq(AgentRecords)
           /\ revoke_name(list, name) \in Seq(AgentRecords)
<1>1. \A i \in DOMAIN list :
        list[i] \in AgentRecords /\ [list[i] EXCEPT !.revoked = TRUE] \in AgentRecords
  <2> SUFFICES ASSUME NEW i \in DOMAIN list
               PROVE  list[i] \in AgentRecords
                      /\ [list[i] EXCEPT !.revoked = TRUE] \in AgentRecords
    OBVIOUS
  <2>1. list[i] \in AgentRecords
    OBVIOUS
  <2> QED BY <2>1 DEF AgentRecords
<1>2. \A f : (DOMAIN f = DOMAIN list /\ f = [i \in DOMAIN list |-> f[i]]
              /\ \A i \in DOMAIN list : f[i] \in AgentRecords) => f \in Seq(AgentRecords)
  OBVIOUS
<1>3. revoke_agent(list, id) \in Seq(AgentRecords)
  BY <1>1, <1>2 DEF revoke_agent
<1>4. revoke_name(list, name) \in Seq(AgentRecords)
  BY <1>1, <1>2 DEF revoke_name
<1> QED BY <1>3, <1>4

\* A fresh record is a record (AgentRecord::new).
LEMMA FreshRecord ==
    ASSUME NEW id \in Nat, NEW name \in AgentName, NEW token \in Int,
           NEW scopes \in AgentScopes
    PROVE  Record(id, name, token, scopes) \in AgentRecords
BY DEF Record, AgentRecords

\* ensure_default_agent returns a registry.
LEMMA DefaultList ==
    ASSUME NEW list \in Seq(AgentRecords), NEW id \in Nat, NEW token \in Int
    PROVE  ensure_default_agent(list, id, token) \in Seq(AgentRecords)
<1> DEFINE k == FirstOf(Known(list, DefaultName))
           new == [list[k] EXCEPT !.token = token, !.revoked = FALSE]
<1>1. CASE Known(list, DefaultName) = {}
  <2>1. Record(id, DefaultName, token, <<>>) \in AgentRecords
    BY FreshRecord, AgentsAssumption
  <2> QED BY <1>1, <2>1 DEF ensure_default_agent
<1>2. CASE Known(list, DefaultName) # {}
  <2>1. k \in DOMAIN list => new \in AgentRecords
    <3> HIDE DEF k
    <3> SUFFICES ASSUME k \in DOMAIN list PROVE new \in AgentRecords
      OBVIOUS
    <3>1. list[k] \in AgentRecords
      OBVIOUS
    <3> QED BY <3>1 DEF AgentRecords
  <2>2. [list EXCEPT ![k] = new] \in Seq(AgentRecords)
    <3> HIDE DEF k, new
    <3>1. DOMAIN [list EXCEPT ![k] = new] = 1 .. Len(list)
      OBVIOUS
    <3>2. \A i \in 1 .. Len(list) : [list EXCEPT ![k] = new][i] \in AgentRecords
      BY <2>1
    <3>3. Len(list) \in Nat
      OBVIOUS
    <3>4. \A f : (DOMAIN f = DOMAIN list /\ f = [i \in DOMAIN list |-> f[i]]
                  /\ \A i \in DOMAIN list : f[i] \in AgentRecords) => f \in Seq(AgentRecords)
      OBVIOUS
    <3> QED BY <3>1, <3>2, <3>3, <3>4
  <2> QED BY <1>2, <2>2 DEF ensure_default_agent
<1> QED BY <1>1, <1>2

\* Every operation of the registry keeps its type.
LEMMA RegistryStep ==
    ASSUME RegistryTypeOK,
           \/ UNCHANGED agentVars
           \/ \E n \in AgentName, s \in AgentScopes : ReadCreate(n, s)
           \/ \E n \in AgentName, s \in AgentScopes, r \in BOOLEAN : ReadImport(n, s, r)
           \/ \E id \in Nat : ReadRevoke(id)
           \/ WriteEdit
           \/ WriteFails
           \/ ReadDefault
           \/ WriteDefault
    PROVE  RegistryTypeOK'
<1> USE DEF RegistryTypeOK
<1>1. CASE UNCHANGED agentVars
  BY <1>1 DEF agentVars
<1>2. ASSUME NEW n \in AgentName, NEW s \in AgentScopes, ReadCreate(n, s)
      PROVE  RegistryTypeOK'
  <2>1. minted' \in Nat
    BY <1>2 DEF ReadCreate
  <2>2. Record(minted', n, minted', s) \in AgentRecords
    BY <2>1, FreshRecord
  <2>3. edit' \in Edits
    BY <1>2, <2>2 DEF ReadCreate, Edits
  <2> QED BY <1>2, <2>1, <2>3 DEF ReadCreate
<1>3. ASSUME NEW n \in AgentName, NEW s \in AgentScopes, NEW r \in BOOLEAN,
             ReadImport(n, s, r)
      PROVE  RegistryTypeOK'
  <2>1. minted' \in Nat
    BY <1>3 DEF ReadImport
  <2>2. Record(minted', n, minted', s) \in AgentRecords
    BY <2>1, FreshRecord
  <2>3. Append(revoke_name(agents, n), Record(minted', n, minted', s)) \in Seq(AgentRecords)
    BY <2>2, RevokedLists
  <2>4. {agents[i].id : i \in Known(agents, n)} \subseteq Nat
    <3>1. \A i \in DOMAIN agents : agents[i] \in AgentRecords
      OBVIOUS
    <3>2. \A a \in AgentRecords : a.id \in Nat
      BY DEF AgentRecords
    <3> QED BY <3>1, <3>2 DEF Known
  <2>5. edit' \in Edits
    BY <1>3, <2>3, <2>4 DEF ReadImport, Edits
  <2> QED BY <1>3, <2>1, <2>5 DEF ReadImport
<1>4. ASSUME NEW id \in Nat, ReadRevoke(id)
      PROVE  RegistryTypeOK'
  <2>1. revoke_agent(agents, id) \in Seq(AgentRecords)
    BY RevokedLists
  <2>2. edit' \in Edits
    BY <1>4, <2>1 DEF ReadRevoke, Edits
  <2> QED BY <1>4, <2>2 DEF ReadRevoke
<1>5. CASE WriteEdit
  BY <1>5 DEF WriteEdit, Edits
<1>6. CASE WriteFails
  BY <1>6 DEF WriteFails
<1>7. CASE ReadDefault
  <2>1. minted' \in Nat /\ secret' \in Nat /\ -secret' \in Int
    BY <1>7 DEF ReadDefault
  <2>2. starting' \in Seq(AgentRecords)
    BY <1>7, <2>1, DefaultList DEF ReadDefault
  <2> QED BY <1>7, <2>1, <2>2 DEF ReadDefault
<1>8. CASE WriteDefault
  BY <1>8 DEF WriteDefault
<1> QED BY <1>1, <1>2, <1>3, <1>4, <1>5, <1>6, <1>7, <1>8

-----------------------------------------------------------------------------
(* The connections.                                                        *)

\* Setting one connection to a record that keeps the invariant keeps the
\* invariant of them all, while the containers keep their modes.
LEMMA SetKeeps ==
    ASSUME GatewayInv, NEW c \in Conn, NEW r \in ConnRecords, Set(c, r),
           Recorded(r), headless => Confined(r, modes),
           UNCHANGED <<headless, unlocked, boot, serving, modes, agentVars>>
    PROVE  GatewayInv'
<1>1. conns' \in [Conn -> ConnRecords]
  BY DEF GatewayInv, GatewayTypeOK, Set
<1>2. \A d \in Conn : conns'[d] = IF d = c THEN r ELSE conns[d]
  BY DEF GatewayInv, GatewayTypeOK, Set
<1>3. GatewayTypeOK'
  BY <1>1, RegistryStep DEF GatewayInv, GatewayTypeOK
<1>4. \A d \in Conn : Recorded(conns'[d])
  BY <1>2 DEF GatewayInv
<1>5. headless => \A d \in Conn : Confined(conns'[d], modes)
  BY <1>2 DEF GatewayInv
<1> QED BY <1>3, <1>4, <1>5 DEF GatewayInv

\* What is no call has nothing on record and is held to nothing.
LEMMA NoCallYet ==
    ASSUME NEW r \in {Closed} \cup Greeted \cup PairedConns, NEW ms
    PROVE  r \in ConnRecords /\ Recorded(r) /\ Confined(r, ms)
<1>1. r.stage \notin CallStages
  BY DEF Closed, Greeted, PairedConns, CallStages
<1>2. r \notin CallConns
  BY <1>1 DEF CallConns
<1> QED BY <1>2 DEF ConnRecords, Recorded, Confined

\* The record of a connection, by its stage.
LEMMA ByStage ==
    ASSUME NEW r \in ConnRecords
    PROVE  /\ r.stage \in {"handshake", "unpaired"} => r \in Greeted
           /\ r.stage = "idle" => r \in PairedConns
           /\ r.stage \in CallStages => r \in CallConns
BY DEF ConnRecords, Closed, Greeted, PairedConns, CallConns, CallStages

\* An agent that authenticates has scopes of the registry.
LEMMA ResolvedAgents ==
    ASSUME RegistryTypeOK, NEW id, NEW token, Resolves(id, token)
    PROVE  id \in Nat /\ ScopesOf(id) \in AgentScopes
<1>1. PICK i \in DOMAIN agents : agents[i].id = id
  BY DEF Resolves, Authenticates
<1>2. \A j \in DOMAIN agents : agents[j] \in AgentRecords
  BY DEF RegistryTypeOK
<1>3. (CHOOSE j \in DOMAIN agents : agents[j].id = id) \in DOMAIN agents
  BY <1>1
<1> QED BY <1>1, <1>2, <1>3 DEF ScopesOf, AgentRecords

\* A call is built from a folder's mode, or for no folder (build_access_request).
LEMMA BuiltRequests ==
    ASSUME GatewayTypeOK, NEW action, NEW folder, NEW mode,
           \/ action \in FolderActions /\ folder \in Folder /\ mode \in Modes
           \/ action \in SharedActions \cup OtherActions
              /\ folder = NoFolder /\ mode = Direct
    PROVE  LET req == build_access_request(action, folder, mode)
           IN  /\ req \in Requests
               /\ req.action \in {"read", "destroy"} => modes[req.folder] = req.mode
BY DEF build_access_request, folder_request, simple_request, Requests, FolderActions,
       SharedActions, OtherActions, GatewayTypeOK, ModeRange

-----------------------------------------------------------------------------
(* Each step of a connection keeps the invariant.                          *)

\* Pairing and closing start and end no call.
LEMMA PairingKeeps ==
    ASSUME GatewayInv, NEW c \in Conn,
           \/ Accept(c)
           \/ \E safe \in BOOLEAN : Handshake(c, safe)
           \/ \E id, token : Pair(c, id, token)
           \/ Close(c)
           \/ Send(c)
    PROVE  GatewayInv'
<1>0. conns[c] \in ConnRecords /\ RegistryTypeOK /\ serving \in Nat
  BY DEF GatewayInv, GatewayTypeOK
<1>1. SUFFICES ASSUME NEW r \in {Closed} \cup Greeted \cup PairedConns, Set(c, r),
                      UNCHANGED <<headless, unlocked, boot, serving, modes, agentVars>>
               PROVE  GatewayInv'
  <2> DEFINE Goal == \E r \in {Closed} \cup Greeted \cup PairedConns :
                        /\ Set(c, r)
                        /\ UNCHANGED <<headless, unlocked, boot, serving, modes, agentVars>>
  <2>0. Closed \in {Closed} \cup Greeted \cup PairedConns
    OBVIOUS
  <2>1. CASE Accept(c)
    <3>1. [stage |-> "handshake", server |-> serving] \in Greeted
      BY <1>0 DEF Greeted
    <3> QED BY <2>1, <3>1 DEF Accept
  <2>2. ASSUME NEW safe \in BOOLEAN, Handshake(c, safe)
        PROVE  Goal
    <3>1. conns[c] \in Greeted
      BY <1>0, <2>2, ByStage DEF Handshake
    <3>2. [conns[c] EXCEPT !.stage = "unpaired"] \in Greeted
      BY <3>1 DEF Greeted
    <3> QED BY <2>0, <2>2, <3>2 DEF Handshake
  <2>3. ASSUME NEW id, NEW token, Pair(c, id, token)
        PROVE  Goal
    <3> DEFINE agent == IF headless THEN id ELSE Named(conns[c].server, id, token)
    <3>1. conns[c] \in Greeted
      BY <1>0, <2>3, ByStage DEF Pair
    <3>2. conns[c].server \in Nat
      BY <3>1 DEF Greeted
    <3>3. CASE Resolves(agent, token)
      <4>1. agent \in Nat /\ ScopesOf(agent) \in AgentScopes
        BY <1>0, <3>3, ResolvedAgents
      <4>2. Paired(conns[c].server, agent, ScopesOf(agent)) \in PairedConns
        BY <3>2, <4>1 DEF Paired, PairedConns
      <4> QED BY <2>3, <3>3, <4>2 DEF Pair
    <3>4. CASE ~Resolves(agent, token)
      BY <2>0, <2>3, <3>4 DEF Pair
    <3> QED BY <3>3, <3>4
  <2>4. CASE Close(c)
    BY <2>0, <2>4 DEF Close
  <2>5. CASE Send(c)
    <3>1. conns[c] \in CallConns
      BY <1>0, <2>5, ByStage DEF Send, CallStages
    <3>2. Paired(conns[c].server, conns[c].agent, conns[c].scopes) \in PairedConns
      BY <3>1 DEF Paired, PairedConns, CallConns
    <3> QED BY <2>5, <3>2 DEF Send
  <2> QED BY <2>1, <2>2, <2>3, <2>4, <2>5
<1>2. r \in ConnRecords /\ Recorded(r) /\ Confined(r, modes)
  BY NoCallYet
<1> QED BY <1>1, <1>2, SetKeeps

\* A call begins with nothing done and nothing on record but a refusal, and on
\* the mode its container has.
LEMMA RequestKeeps ==
    ASSUME GatewayInv, NEW c \in Conn, NEW action, NEW folder, NEW mode,
           \/ action \in FolderActions /\ folder \in Folder /\ mode \in Modes
           \/ action \in SharedActions \cup OtherActions
              /\ folder = NoFolder /\ mode = Direct,
           Request(c, action, folder, mode)
    PROVE  GatewayInv'
<1> DEFINE req == build_access_request(action, folder, mode)
           new == [stage |-> "built", server |-> conns[c].server,
                   agent |-> conns[c].agent, scopes |-> conns[c].scopes,
                   req |-> req, ok |-> FALSE, log |-> {}, effect |-> FALSE,
                   found |-> Absent, masked |-> FALSE,
                   revoked |-> conns[c].agent \in ended]
<1>1. conns[c] \in PairedConns
  BY ByStage DEF GatewayInv, GatewayTypeOK, Request
<1>2. req \in Requests /\ (req.action \in {"read", "destroy"} => modes[req.folder] = req.mode)
  BY BuiltRequests DEF GatewayInv
<1>3. new \in CallConns
  <2> HIDE DEF req
  <2> QED BY <1>1, <1>2 DEF CallConns, PairedConns, CallStages, ModeRange
<1>4. \E r \in {new, [new EXCEPT !.stage = "answered"],
                [new EXCEPT !.stage = "answered", !.log = {"denied"}],
                [new EXCEPT !.stage = "answered", !.log = {}]} : Set(c, r)
  BY DEF Request, Kept
<1>5. UNCHANGED <<headless, unlocked, boot, serving, modes, agentVars>>
  BY DEF Request
<1>6. /\ [new EXCEPT !.stage = "answered"] \in CallConns
      /\ [new EXCEPT !.stage = "answered", !.log = {"denied"}] \in CallConns
      /\ [new EXCEPT !.stage = "answered", !.log = {}] \in CallConns
  BY <1>3 DEF CallConns, CallStages
<1>7. ASSUME NEW r \in {new, [new EXCEPT !.stage = "answered"],
                [new EXCEPT !.stage = "answered", !.log = {"denied"}],
                [new EXCEPT !.stage = "answered", !.log = {}]}
      PROVE  r \in ConnRecords /\ Recorded(r) /\ Confined(r, modes)
  <2>1. r \in CallConns
    BY <1>3, <1>6
  <2>2. ~r.effect /\ ~r.ok /\ r.req = req /\ r.stage \in {"built", "answered"}
        /\ (r.stage = "built" => r.log = {})
    <3> HIDE DEF req
    <3>1. CASE r = new
      BY <3>1
    <3>2. CASE r = [new EXCEPT !.stage = "answered"]
      BY <3>2
    <3>3. CASE r = [new EXCEPT !.stage = "answered", !.log = {"denied"}]
      BY <3>3
    <3>4. CASE r = [new EXCEPT !.stage = "answered", !.log = {}]
      BY <3>4
    <3> QED BY <3>1, <3>2, <3>3, <3>4
  <2>3. Recorded(r)
    BY <2>1, <2>2 DEF Recorded
  <2>4. Confined(r, modes)
    BY <1>2, <2>2 DEF Confined, MayFind
  <2> QED BY <2>1, <2>3, <2>4 DEF ConnRecords
<1> QED BY <1>4, <1>5, <1>7, SetKeeps

\* The access controller lets a call through or puts a refusal on record; the
\* headless one lets through what is on no container, or on one in DIRECT.
LEMMA AuthorizeKeeps ==
    ASSUME GatewayInv, NEW c \in Conn, Authorize(c)
    PROVE  GatewayInv'
<1>1. conns[c] \in CallConns /\ conns[c].stage = "built"
  BY ByStage DEF GatewayInv, GatewayTypeOK, Authorize, CallStages
<1>2. /\ ~conns[c].effect /\ ~conns[c].ok /\ conns[c].log = {}
      /\ headless => Confined(conns[c], modes)
  BY <1>1 DEF GatewayInv, Recorded
<1>3. CASE /\ headless => headless_allows(conns[c].req)
           /\ Set(c, [conns[c] EXCEPT !.stage = "authorized"])
  <2> DEFINE r == [conns[c] EXCEPT !.stage = "authorized"]
  <2>1. r \in CallConns /\ r.stage = "authorized"
    BY <1>1 DEF CallConns, CallStages
  <2>2. r.req = conns[c].req /\ ~r.effect /\ ~r.ok /\ r.log = {}
    BY <1>1, <1>2 DEF CallConns
  <2> HIDE DEF r
  <2>3. Recorded(r)
    BY <2>1, <2>2 DEF Recorded
  <2>4. headless => Confined(r, modes)
    BY <1>1, <1>2, <1>3, <2>1, <2>2 DEF Confined, MayFind, headless_allows,
       is_headless_container_action
  <2> QED BY <1>3, <2>1, <2>3, <2>4, SetKeeps DEF r, Authorize, ConnRecords
<1>4. CASE \E log \in Kept("denied") : Answered(c, FALSE, log)
  <2>1. PICK log \in Kept("denied") : Answered(c, FALSE, log)
    BY <1>4
  <2> DEFINE r == [conns[c] EXCEPT !.stage = "answered", !.ok = FALSE, !.log = @ \cup log]
  <2>2. log \in SUBSET {"denied"}
    BY DEF Kept
  <2>3. r \in CallConns /\ r.stage = "answered"
    BY <1>1, <1>2, <2>2 DEF CallConns, CallStages
  <2>4. ~r.effect /\ ~r.ok
    BY <1>1, <1>2 DEF CallConns
  <2>5. Set(c, r)
    BY <2>1 DEF Answered
  <2> HIDE DEF r
  <2>6. Recorded(r) /\ Confined(r, modes)
    BY <2>3, <2>4 DEF Recorded, Confined
  <2> QED BY <2>3, <2>5, <2>6, SetKeeps DEF Authorize, ConnRecords
<1> QED BY <1>3, <1>4 DEF Authorize

\* A call goes on only when the intent is on record.
LEMMA AttemptKeeps ==
    ASSUME GatewayInv, NEW c \in Conn, Attempt(c)
    PROVE  GatewayInv'
<1>1. conns[c] \in CallConns /\ conns[c].stage = "authorized"
  BY ByStage DEF GatewayInv, GatewayTypeOK, Attempt, CallStages
<1>2. /\ ~conns[c].effect /\ ~conns[c].ok /\ conns[c].log = {}
      /\ headless => Confined(conns[c], modes)
  BY <1>1 DEF GatewayInv, Recorded
<1>3. \/ Set(c, [conns[c] EXCEPT !.stage = "attempted", !.log = {"attempted"}])
      \/ Answered(c, FALSE, {})
  BY DEF Attempt, Kept, attempt_kept
<1>4. CASE Set(c, [conns[c] EXCEPT !.stage = "attempted", !.log = {"attempted"}])
  <2> DEFINE r == [conns[c] EXCEPT !.stage = "attempted", !.log = {"attempted"}]
  <2>1. r \in CallConns /\ r.stage = "attempted" /\ r.log = {"attempted"}
    BY <1>1 DEF CallConns, CallStages
  <2>2. r.req = conns[c].req /\ ~r.effect /\ ~r.ok
    BY <1>1, <1>2 DEF CallConns
  <2> HIDE DEF r
  <2>3. Recorded(r)
    BY <2>1, <2>2 DEF Recorded
  <2>4. headless => Confined(r, modes)
    BY <1>1, <1>2, <2>1, <2>2 DEF Confined
  <2> QED BY <1>4, <2>1, <2>3, <2>4, SetKeeps DEF r, Attempt, ConnRecords
<1>5. CASE Answered(c, FALSE, {})
  <2> DEFINE r == [conns[c] EXCEPT !.stage = "answered", !.ok = FALSE, !.log = @ \cup {}]
  <2>1. r \in CallConns /\ r.stage = "answered"
    BY <1>1, <1>2 DEF CallConns, CallStages
  <2>2. ~r.effect /\ ~r.ok
    BY <1>1, <1>2 DEF CallConns
  <2>3. Set(c, r)
    BY <1>5 DEF Answered
  <2> HIDE DEF r
  <2>4. Recorded(r) /\ Confined(r, modes)
    BY <2>1, <2>2 DEF Recorded, Confined
  <2> QED BY <2>1, <2>3, <2>4, SetKeeps DEF Attempt, ConnRecords
<1> QED BY <1>3, <1>4, <1>5

\* The outcome is put on record, or the caller gets an error.
LEMMA FinishKeeps ==
    ASSUME GatewayInv, NEW c \in Conn, Finish(c)
    PROVE  GatewayInv'
<1>1. conns[c] \in CallConns /\ conns[c].stage = "executed"
  BY ByStage DEF GatewayInv, GatewayTypeOK, Finish, CallStages
<1>2. conns[c].log = {"attempted"} /\ (headless => Confined(conns[c], modes))
  BY <1>1 DEF GatewayInv, Recorded
<1>3. PICK ok \in BOOLEAN, masked \in BOOLEAN, log \in Kept("allowed") \cup Kept("error") :
        /\ log \in Kept(IF ok THEN "allowed" ELSE "error")
        /\ Set(c, [conns[c] EXCEPT !.stage = "answered", !.ok = ok /\ log # {},
                                   !.log = @ \cup log, !.masked = masked])
  <2>1. PICK text \in BOOLEAN :
          LET filtered == conns[c].req.action = "read" /\ conns[c].req.mode = Anonymized
              ok == conns[c].ok /\ (filtered => text)
          IN  \E log \in Kept(IF ok THEN "allowed" ELSE "error") :
                Set(c, [conns[c] EXCEPT !.stage = "answered", !.ok = ok /\ log # {},
                                        !.log = @ \cup log, !.masked = filtered])
    BY DEF Finish
  <2> DEFINE filtered == conns[c].req.action = "read" /\ conns[c].req.mode = Anonymized
             ok == conns[c].ok /\ (filtered => text)
  <2>2. filtered \in BOOLEAN /\ ok \in BOOLEAN
    BY <1>1 DEF CallConns
  <2>3. \E log \in Kept(IF ok THEN "allowed" ELSE "error") :
                Set(c, [conns[c] EXCEPT !.stage = "answered", !.ok = ok /\ log # {},
                                        !.log = @ \cup log, !.masked = filtered])
    BY <2>1
  <2> HIDE DEF filtered, ok
  <2> QED BY <2>2, <2>3
<1> DEFINE told == ok /\ log # {}
           logged == conns[c].log \cup log
           r == [conns[c] EXCEPT !.stage = "answered", !.ok = told, !.log = logged,
                                 !.masked = masked]
<1>4. log \subseteq {"allowed", "error"} /\ told \in BOOLEAN /\ (told => "allowed" \in log)
  BY <1>3 DEF Kept
<1>5. Set(c, r)
  BY <1>3
<1>6. /\ logged \in SUBSET {"denied", "attempted", "allowed", "error"}
      /\ "attempted" \in logged
      /\ "denied" \notin logged
      /\ told => "allowed" \in logged
  BY <1>2, <1>4
<1> HIDE DEF told, logged
<1>7. r \in CallConns /\ r.stage = "answered" /\ r.ok = told /\ r.log = logged
  BY <1>1, <1>4, <1>6 DEF CallConns, CallStages
<1>8. r.req = conns[c].req /\ r.effect = conns[c].effect /\ r.found = conns[c].found
  BY <1>1 DEF CallConns
<1> HIDE DEF r
<1>9. Recorded(r)
  BY <1>6, <1>7, <1>8 DEF Recorded
<1>10. headless => Confined(r, modes)
  BY <1>1, <1>2, <1>7, <1>8 DEF Confined
<1> QED BY <1>5, <1>7, <1>9, <1>10, SetKeeps DEF Finish, ConnRecords

\* A container that leaves its mode for DIRECT, or is gone, confines no call
\* less than before.
LEMMA ConfinedMoves ==
    ASSUME NEW r \in ConnRecords, NEW ms, NEW new, Confined(r, ms),
           \A f \in Folder : new[f] \in {ms[f], Direct, Absent}
    PROVE  Confined(r, new)
<1> SUFFICES ASSUME r \in CallConns, r.req.action \in FolderActions
             PROVE  Confined(r, new)
  BY DEF Confined
<1>1. r.req.folder \in Folder
  BY DEF CallConns, Requests, SharedActions, OtherActions, FolderActions
<1>2. new[r.req.folder] \in {ms[r.req.folder], Direct, Absent}
  BY <1>1
<1> QED BY <1>2 DEF Confined, MayFind

\* A headless call that was let through turns a container to DIRECT, or removes it.
LEMMA ModesMove ==
    ASSUME GatewayTypeOK, NEW req \in Requests
    PROVE  /\ ModesAfter(req) \in [Folder -> ModeRange]
           /\ (req.action \in FolderActions => req.mode = Direct) =>
                \A f \in Folder : ModesAfter(req)[f] \in {modes[f], Direct, Absent}
<1>1. CASE req.action = "create"
  <2>1. ModesAfter(req) = [modes EXCEPT ![req.folder] = req.mode]
    BY <1>1 DEF ModesAfter
  <2>2. req.mode \in ModeRange /\ req.action \in FolderActions
    BY <1>1 DEF Requests, FolderActions, SharedActions, OtherActions
  <2> QED BY <2>1, <2>2 DEF GatewayTypeOK
<1>2. CASE req.action = "destroy"
  <2>1. ModesAfter(req) = [modes EXCEPT ![req.folder] = Absent]
    BY <1>2 DEF ModesAfter
  <2> QED BY <2>1 DEF GatewayTypeOK, ModeRange
<1>3. CASE req.action \notin {"create", "destroy"}
  <2>1. ModesAfter(req) = modes
    BY <1>3 DEF ModesAfter
  <2> QED BY <2>1 DEF GatewayTypeOK
<1> QED BY <1>1, <1>2, <1>3

\* A call executes after its intent is on record, and the headless gateway
\* finds DIRECT: what the call was let through on can only have become DIRECT
\* or disappeared since.
LEMMA ExecuteKeeps ==
    ASSUME GatewayInv, NEW c \in Conn, Execute(c)
    PROVE  GatewayInv'
<1> DEFINE req == conns[c].req
<1>1. conns[c] \in CallConns /\ conns[c].stage = "attempted"
  BY ByStage DEF GatewayInv, GatewayTypeOK, Execute, CallStages
<1>2. /\ ~conns[c].effect /\ ~conns[c].ok /\ conns[c].log = {"attempted"}
      /\ headless => Confined(conns[c], modes)
  BY <1>1 DEF GatewayInv, Recorded
<1>3. req \in Requests /\ GatewayTypeOK
  BY <1>1 DEF CallConns, GatewayInv
<1>4. CASE Answered(c, FALSE, {}) /\ UNCHANGED modes
  <2> DEFINE r == [conns[c] EXCEPT !.stage = "answered", !.ok = FALSE, !.log = @ \cup {}]
  <2>1. r \in CallConns /\ r.stage = "answered" /\ r.log = {"attempted"}
    BY <1>1, <1>2 DEF CallConns, CallStages
  <2>2. ~r.effect /\ ~r.ok
    BY <1>1, <1>2 DEF CallConns
  <2>3. Set(c, r)
    BY <1>4 DEF Answered
  <2> HIDE DEF r
  <2>4. Recorded(r) /\ Confined(r, modes)
    BY <2>1, <2>2 DEF Recorded, Confined
  <2> QED BY <1>4, <2>1, <2>3, <2>4, SetKeeps DEF Execute, ConnRecords
<1>5. CASE Set(c, [conns[c] EXCEPT !.stage = "executed"]) /\ UNCHANGED modes
  <2> DEFINE r == [conns[c] EXCEPT !.stage = "executed"]
  <2>1. r \in CallConns /\ r.stage = "executed" /\ r.log = {"attempted"}
    BY <1>1, <1>2 DEF CallConns, CallStages
  <2>2. ~r.effect /\ ~r.ok
    BY <1>1, <1>2 DEF CallConns
  <2>3. Set(c, r)
    BY <1>5
  <2> HIDE DEF r
  <2>4. Recorded(r) /\ Confined(r, modes)
    BY <2>1, <2>2 DEF Recorded, Confined
  <2> QED BY <1>5, <2>1, <2>3, <2>4, SetKeeps DEF Execute, ConnRecords
<1>6. ASSUME NEW ok \in BOOLEAN, Performs(req), modes' = ModesAfter(req),
             Set(c, [conns[c] EXCEPT
                        !.stage = "executed", !.effect = TRUE, !.ok = ok,
                        !.found = IF req.folder = NoFolder THEN Absent
                                  ELSE IF req.action = "create" THEN req.mode
                                  ELSE modes[req.folder]])
      PROVE  GatewayInv'
  <2> DEFINE found == IF req.folder = NoFolder THEN Absent
                      ELSE IF req.action = "create" THEN req.mode
                      ELSE modes[req.folder]
             r == [conns[c] EXCEPT !.stage = "executed", !.effect = TRUE, !.ok = ok,
                                   !.found = found]
  <2>1. found \in ModeRange
    BY <1>3 DEF Requests, GatewayTypeOK, ModeRange
  <2>2. headless /\ req.action \in FolderActions /\ req.folder # NoFolder => found = Direct
    BY <1>1, <1>2, <1>3, <1>6
       DEF Confined, MayFind, Performs, FolderActions, Direct, Absent
  <2>3. Set(c, r)
    BY <1>6
  <2> HIDE DEF found
  <2>4. /\ r \in CallConns /\ r.stage = "executed" /\ r.log = {"attempted"}
        /\ r.req = req /\ r.found = found
    BY <1>1, <1>2, <2>1 DEF CallConns, CallStages
  <2> HIDE DEF r
  <2>5. Recorded(r)
    BY <2>4 DEF Recorded
  <2>6. headless => Confined(r, modes')
    BY <2>2, <2>4 DEF Confined
  <2>7. \A d \in Conn : conns'[d] = IF d = c THEN r ELSE conns[d]
    BY <1>3, <2>3 DEF GatewayTypeOK, Set
  <2>8. modes' \in [Folder -> ModeRange]
    BY <1>3, <1>6, ModesMove
  <2>9. headless => \A f \in Folder : modes'[f] \in {modes[f], Direct, Absent}
    <3>1. headless /\ req.action \in FolderActions => req.mode = Direct
      BY <1>1, <1>2 DEF Confined
    <3> QED BY <1>3, <1>6, <3>1, ModesMove
  <2>10. headless => \A d \in Conn : Confined(conns'[d], modes')
    <3>1. \A d \in Conn : conns[d] \in ConnRecords
      BY <1>3 DEF GatewayTypeOK
    <3> QED BY <2>6, <2>7, <2>9, <3>1, ConfinedMoves DEF GatewayInv
  <2>11. GatewayTypeOK'
    <3>1. conns' \in [Conn -> ConnRecords]
      BY <1>3, <2>3, <2>4 DEF GatewayTypeOK, Set, ConnRecords
    <3>2. RegistryTypeOK'
      BY <1>3, RegistryStep DEF Execute, GatewayTypeOK
    <3> QED BY <1>3, <2>8, <3>1, <3>2 DEF GatewayTypeOK, Execute
  <2>12. \A d \in Conn : Recorded(conns'[d])
    BY <2>5, <2>7 DEF GatewayInv
  <2>13. headless' = headless
    BY DEF Execute
  <2> QED BY <2>10, <2>11, <2>12, <2>13 DEF GatewayInv
<1> QED BY <1>4, <1>5, <1>6 DEF Execute

-----------------------------------------------------------------------------

\* A step that leaves the connections and the containers alone.
LEMMA ElsewhereKeeps ==
    ASSUME GatewayInv, UNCHANGED <<headless, modes, conns>>, RegistryTypeOK',
           unlocked' \in BOOLEAN, boot' \in {"no", "starting", "refreshing"},
           serving' \in Nat
    PROVE  GatewayInv'
BY DEF GatewayInv, GatewayTypeOK

\* The desktop around its gateway keeps the invariant: locking, unlocking,
\* starting the servers and editing the registry.
LEMMA DesktopKeeps ==
    ASSUME GatewayInv,
           \/ Unlock \/ Lock \/ StartServers \/ StartRefused \/ InstallServers
           \/ EditRegistry \/ EndEdit \/ ServeHeadless
    PROVE  GatewayInv'
<1>0. GatewayTypeOK /\ RegistryTypeOK
  BY DEF GatewayInv, GatewayTypeOK
<1> USE DEF GatewayTypeOK
<1>1. CASE Unlock
  BY <1>0, <1>1, RegistryStep, ElsewhereKeeps DEF Unlock
<1>2. CASE Lock
  BY <1>0, <1>2, RegistryStep, ElsewhereKeeps DEF Lock
<1>3. CASE StartServers
  BY <1>0, <1>3, RegistryStep, ElsewhereKeeps DEF StartServers
<1>4. CASE StartRefused
  BY <1>0, <1>4, RegistryStep, ElsewhereKeeps DEF StartRefused
<1>5. CASE InstallServers
  <2>1. serving' \in Nat
    BY <1>0, <1>5 DEF InstallServers, RegistryTypeOK
  <2> QED BY <1>0, <1>5, <2>1, RegistryStep, ElsewhereKeeps DEF InstallServers
<1>6. CASE EditRegistry
  <2>1. 1 .. minted \subseteq Nat
    BY <1>0 DEF RegistryTypeOK
  <2>2. RegistryTypeOK'
    BY <1>0, <1>6, <2>1, RegistryStep DEF EditRegistry
  <2> QED BY <1>0, <1>6, <2>2, ElsewhereKeeps DEF EditRegistry
<1>7. CASE EndEdit
  <2>1. RegistryTypeOK'
    BY <1>0, <1>7, RegistryStep DEF EndEdit
  <2> QED BY <1>0, <1>7, <2>1, ElsewhereKeeps DEF EndEdit
<1>8. CASE ServeHeadless
  <2>1. PICK s \in AgentScopes : agents' = <<Record(1, DefaultName, 1, s)>>
    BY <1>8 DEF ServeHeadless
  <2>2. Record(1, DefaultName, 1, s) \in AgentRecords
    BY FreshRecord, AgentsAssumption
  <2>3. RegistryTypeOK'
    BY <1>0, <1>8, <2>1, <2>2 DEF ServeHeadless, RegistryTypeOK
  <2> QED BY <1>0, <1>8, <2>3, ElsewhereKeeps DEF ServeHeadless
<1> QED BY <1>1, <1>2, <1>3, <1>4, <1>5, <1>6, <1>7, <1>8

\* The invariant of the gateway: every connection is where the record and, for
\* the headless gateway, the containers say it may be.
THEOREM GatewayInvariant == GatewaySpec => []GatewayInv
<1>1. GatewayInit => GatewayInv
  <2> SUFFICES ASSUME GatewayInit PROVE GatewayInv
    OBVIOUS
  <2>1. Closed \in {Closed} \cup Greeted \cup PairedConns
    OBVIOUS
  <2>2. \A c \in Conn : /\ conns[c] \in ConnRecords /\ Recorded(conns[c])
                        /\ Confined(conns[c], modes)
    BY <2>1, NoCallYet DEF GatewayInit
  <2>3. GatewayTypeOK
    BY <2>2 DEF GatewayInit, AgentsInit, GatewayTypeOK, RegistryTypeOK, ModeRange
  <2> QED BY <2>2, <2>3 DEF GatewayInv
<1>2. GatewayInv /\ [GatewayNext]_gatewayVars => GatewayInv'
  <2> SUFFICES ASSUME GatewayInv, [GatewayNext]_gatewayVars PROVE GatewayInv'
    OBVIOUS
  <2>1. ASSUME NEW c \in Conn,
               \/ Accept(c)
               \/ \E safe \in BOOLEAN : Handshake(c, safe)
               \/ \E id \in 0 .. minted, token \in (-secret) .. minted : Pair(c, id, token)
               \/ Close(c)
               \/ Send(c)
        PROVE  GatewayInv'
    BY <2>1, PairingKeeps
  <2>2. ASSUME NEW c \in Conn, NEW a \in FolderActions, NEW f \in Folder, NEW m \in Modes,
               Request(c, a, f, m)
        PROVE  GatewayInv'
    BY <2>2, RequestKeeps
  <2>3. ASSUME NEW c \in Conn, NEW a \in SharedActions \cup OtherActions,
               Request(c, a, NoFolder, Direct)
        PROVE  GatewayInv'
    BY <2>3, RequestKeeps
  <2>4. ASSUME NEW c \in Conn, Authorize(c) \/ Attempt(c) \/ Execute(c) \/ Finish(c)
        PROVE  GatewayInv'
    BY <2>4, AuthorizeKeeps, AttemptKeeps, ExecuteKeeps, FinishKeeps
  <2>5. CASE \/ Unlock \/ Lock \/ StartServers \/ StartRefused \/ InstallServers
             \/ EditRegistry \/ EndEdit \/ ServeHeadless
    BY <2>5, DesktopKeeps
  <2>6. CASE UNCHANGED gatewayVars
    <3>1. RegistryTypeOK'
      BY <2>6, RegistryStep DEF gatewayVars, GatewayInv, GatewayTypeOK
    <3> QED BY <2>6, <3>1, ElsewhereKeeps DEF gatewayVars, GatewayInv, GatewayTypeOK
  <2> QED BY <2>1, <2>2, <2>3, <2>4, <2>5, <2>6 DEF GatewayNext
<1> QED BY <1>1, <1>2, PTL DEF GatewaySpec

\* What the gateway has done is preceded by a durable intent, a success the
\* agent hears of has a durable outcome, and what is on record as denied has
\* done nothing, whichever of the records the sink loses.
THEOREM GatewayEffectsOnRecord == GatewaySpec => []EffectsAreOnRecord
<1>1. GatewayInv => EffectsAreOnRecord
  <2> SUFFICES ASSUME GatewayInv, NEW c \in Calls
               PROVE  /\ conns[c].effect => "attempted" \in conns[c].log
                      /\ conns[c].stage = "answered" /\ conns[c].ok => "allowed" \in conns[c].log
                      /\ "denied" \in conns[c].log => ~conns[c].effect
    BY DEF EffectsAreOnRecord
  <2>1. conns[c] \in CallConns
    BY ByStage DEF GatewayInv, GatewayTypeOK, Calls, CallStages
  <2> QED BY <2>1 DEF GatewayInv, Recorded, Calls
<1> QED BY <1>1, GatewayInvariant, PTL

\* The headless gateway, which no person watches, executes on a container only
\* while its mode is DIRECT, although it looks the mode up when the call is
\* built and not when it is executed.
THEOREM GatewayHeadlessDirectOnly == GatewaySpec => []HeadlessTouchesDirectOnly
<1>1. GatewayInv => HeadlessTouchesDirectOnly
  <2> SUFFICES ASSUME GatewayInv, NEW c \in Calls, headless, conns[c].effect,
                      conns[c].req.folder # NoFolder
               PROVE  conns[c].found = Direct
    BY DEF HeadlessTouchesDirectOnly
  <2>1. conns[c] \in CallConns
    BY ByStage DEF GatewayInv, GatewayTypeOK, Calls, CallStages
  <2>2. conns[c].req.action \in FolderActions
    BY <2>1 DEF CallConns, Requests
  <2> QED BY <2>1, <2>2 DEF GatewayInv, Confined, Calls
<1> QED BY <1>1, GatewayInvariant, PTL
=============================================================================
