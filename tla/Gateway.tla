------------------------------ MODULE Gateway ------------------------------
(***************************************************************************)
(* The MCP gateway: connections that pair as an agent of the registry and  *)
(* then send one tool call after the other, each of which is built from    *)
(* the vault, held against the agent's scopes, authorized, put on record,  *)
(* executed and answered. The vault handle is taken twice, to build and to *)
(* execute, and everything else happens between. One gateway is served by  *)
(* the desktop, which locks, unlocks and edits the registry meanwhile, the *)
(* other by the headless command, for one agent and without a person.      *)
(***************************************************************************)
EXTENDS Agents, FiniteSets

CONSTANTS
    Conn,           \* client connections
    MaxConnections, \* MAX_WS_CONNECTIONS, for the headless gateway (TRUE) or not
    Folder,         \* names of containers
    Modes,          \* the modes containers may be given, by mode_rank
    MaxStarts,      \* bound on the starts of the servers
    NoFolder, NoCeiling

Direct == 0
Anonymized == 3
Absent == -1

ASSUME GatewayAssumption ==
    /\ Modes \subseteq 0 .. 5
    /\ Direct \in Modes
    /\ \A scopes \in AgentScopes : \A i \in DOMAIN scopes :
        /\ scopes[i].folders \subseteq Folder
        /\ scopes[i].ceiling \in 0 .. 5 \cup {NoCeiling}

VARIABLES
    headless,   \* which of the two gateways this is
    unlocked,   \* the shared handle holds an open vault
    boot,       \* where start_servers stands
    serving,    \* the number of the server that accepts connections, or 0
    modes,      \* the containers and their modes
    conns       \* the connections

gatewayVars == <<headless, unlocked, boot, serving, modes, conns, agentVars>>

Closed == [stage |-> "closed"]

\* A vault with one agent, provisioned from the desktop, and one container of
\* every mode there are names for.
GatewayInit ==
    /\ AgentsInit
    /\ headless \in BOOLEAN
    /\ unlocked = headless
    /\ boot = "no"
    /\ serving = 0
    /\ modes \in [Folder -> Modes \cup {Absent}]
    /\ conns = [c \in Conn |-> Closed]

HandleFree == edit = NoEdit
Set(c, r) == conns' = [conns EXCEPT ![c] = r]

-----------------------------------------------------------------------------
(* Pairing.                                                                *)

\* serve_ws_listener: a loopback peer, while this listener has a permit left.
Accept(c) ==
    /\ serving > 0
    /\ conns[c] = Closed
    /\ Cardinality({d \in Conn : conns[d] # Closed /\ conns[d].server = serving})
            < MaxConnections[headless]
    /\ Set(c, [stage |-> "handshake", server |-> serving])
    /\ UNCHANGED <<headless, unlocked, boot, serving, modes, agentVars>>

\* validate_ws_handshake: another path or origin is refused.
Handshake(c, safe) ==
    /\ conns[c].stage = "handshake"
    /\ Set(c, IF safe THEN [conns[c] EXCEPT !.stage = "unpaired"] ELSE Closed)
    /\ UNCHANGED <<headless, unlocked, boot, serving, modes, agentVars>>

\* DesktopAgentAuthenticator: a client that names no agent and has the shared
\* secret of this server stands for the first Default that is not revoked.
Named(server, id, token) ==
    LET live == {i \in Known(agents, DefaultName) : ~agents[i].revoked}
    IN  IF id = 0 /\ token = -server /\ live # {}
        THEN agents[FirstOf(live)].id
        ELSE id

ScopesOf(id) == agents[CHOOSE i \in DOMAIN agents : agents[i].id = id].scopes

\* HeadlessAuthenticator: the one agent it was started with, which has scopes.
Resolves(id, token) ==
    /\ Authenticates(agents, id, token)
    /\ headless => id = 1 /\ ScopesOf(id) # <<>>

Paired(server, agent, scopes) ==
    [stage |-> "idle", server |-> server, agent |-> agent, scopes |-> scopes]

\* The first request of a connection is a pairing or its last; what is not a
\* request is answered or ignored.
Pair(c, id, token) ==
    /\ conns[c].stage = "unpaired"
    /\ LET agent == IF headless THEN id ELSE Named(conns[c].server, id, token)
       IN  IF Resolves(agent, token)
           THEN Set(c, Paired(conns[c].server, agent, ScopesOf(agent)))
           ELSE Set(c, Closed)
    /\ UNCHANGED <<headless, unlocked, boot, serving, modes, agentVars>>

\* The peer closes, or the time for the handshake, a pairing or a message ends.
Close(c) ==
    /\ conns[c].stage \in {"handshake", "unpaired", "idle"}
    /\ Set(c, Closed)
    /\ UNCHANGED <<headless, unlocked, boot, serving, modes, agentVars>>

-----------------------------------------------------------------------------
(* A tool call.                                                            *)

FolderActions == {"read", "create", "destroy"}
SharedActions == {"sign"}           \* scoped by the action alone
OtherActions == {"list", "export"}

\* The mode a request carries: the folder's, the one asked for, or none.
folder_request(action, folder, mode) ==
    [action |-> action, folder |-> folder,
     mode |-> IF action \in {"read", "destroy"} THEN modes[folder] ELSE mode]

\* A request on no container, which is held against no mode.
simple_request(action) == [action |-> action, folder |-> NoFolder, mode |-> Direct]

build_access_request(action, folder, mode) ==
    IF action \in FolderActions THEN folder_request(action, folder, mode)
    ELSE simple_request(action)

\* RateLimiter::check: how many calls the window has seen is left open.
RateAllows == BOOLEAN

Matching(scopes, req) ==
    {i \in DOMAIN scopes : req.folder \in scopes[i].folders
                           /\ req.action \in scopes[i].actions}

\* The first scope that names the container and the action decides.
enforce_scopes(scopes, req) ==
    \/ scopes = <<>>
    \/ /\ req.action \in SharedActions
       /\ \E i \in DOMAIN scopes : req.action \in scopes[i].actions
    \/ /\ req.folder # NoFolder
       /\ Matching(scopes, req) # {}
       /\ LET ceiling == scopes[FirstOf(Matching(scopes, req))].ceiling
          IN  ceiling = NoCeiling \/ req.mode <= ceiling

Answered(c, ok, log) ==
    Set(c, [conns[c] EXCEPT !.stage = "answered", !.ok = ok, !.log = @ \cup log])

\* What the audit sink keeps of a record: it may fail.
Kept(decision) == {{decision}, {}}

\* The call arrives: it is built under the handle and held against the scopes
\* the connection was paired with; a refusal is put on record.
Request(c, action, folder, mode) ==
    /\ conns[c].stage = "idle"
    /\ HandleFree
    /\ \E allowed \in RateAllows :
       LET req == build_access_request(action, folder, mode)
           new == [stage |-> "built", server |-> conns[c].server,
                   agent |-> conns[c].agent, scopes |-> conns[c].scopes,
                   req |-> req, ok |-> FALSE, log |-> {}, effect |-> FALSE, found |-> Absent, masked |-> FALSE,
                   revoked |-> conns[c].agent \in ended]
       IN  IF ~allowed \/ ~unlocked \/ req.mode = Absent
           THEN Set(c, [new EXCEPT !.stage = "answered"])
           ELSE IF enforce_scopes(new.scopes, req)
           THEN Set(c, new)
           ELSE \E log \in Kept("denied") :
                    Set(c, [new EXCEPT !.stage = "answered", !.log = log])
    /\ UNCHANGED <<headless, unlocked, boot, serving, modes, agentVars>>

is_headless_allowed_action(action) == action \in {"list", "read", "create", "destroy"}

\* A plausible fault: the mode asked for in a creation is not looked at.
existing_container_action(action) == action \in {"read", "destroy"}

is_headless_container_action(action) == action \in FolderActions

headless_allows(req) ==
    /\ is_headless_allowed_action(req.action)
    /\ is_headless_container_action(req.action) => req.mode = Direct

\* The access controller. The desktop's is a person, or a policy, and takes
\* its time; DesktopApprovals has the detail.
Authorize(c) ==
    /\ conns[c].stage = "built"
    /\ \/ /\ headless => headless_allows(conns[c].req)
          /\ Set(c, [conns[c] EXCEPT !.stage = "authorized"])
       \/ /\ headless => ~headless_allows(conns[c].req)
          /\ \E log \in Kept("denied") : Answered(c, FALSE, log)
    /\ UNCHANGED <<headless, unlocked, boot, serving, modes, agentVars>>

\* A plausible fault: a sink that is unavailable does not stop the call.
attempt_tried(log) == TRUE

attempt_kept(log) == log # {}

\* The intent is durable before anything is done.
Attempt(c) ==
    /\ conns[c].stage = "authorized"
    /\ \E log \in Kept("attempted") :
        IF attempt_kept(log)
        THEN Set(c, [conns[c] EXCEPT !.stage = "attempted", !.log = log])
        ELSE Answered(c, FALSE, {})
    /\ UNCHANGED <<headless, unlocked, boot, serving, modes, agentVars>>

\* What the tool does to the containers, and whether it reports success.
Performs(req) ==
    CASE req.action = "create" -> modes[req.folder] = Absent
      [] req.action \in {"read", "destroy"} -> modes[req.folder] # Absent
      [] OTHER -> TRUE

ModesAfter(req) ==
    CASE req.action = "create" -> [modes EXCEPT ![req.folder] = req.mode]
      [] req.action = "destroy" -> [modes EXCEPT ![req.folder] = Absent]
      [] OTHER -> modes

\* execute_tool and execute_broker, under the handle. A tool may do its work and
\* still end with an error (a file too large to send, a folder half removed).
\* A vault that was locked meanwhile ends the call with nothing more on record.
Execute(c) ==
    /\ conns[c].stage = "attempted"
    /\ HandleFree
    /\ LET req == conns[c].req
       IN  IF ~unlocked
           THEN Answered(c, FALSE, {}) /\ UNCHANGED modes
           ELSE \/ /\ Performs(req)
                   /\ modes' = ModesAfter(req)
                   /\ \E ok \in BOOLEAN : Set(c, [conns[c] EXCEPT
                        !.stage = "executed", !.effect = TRUE, !.ok = ok,
                        !.found = IF req.folder = NoFolder THEN Absent
                                  ELSE IF req.action = "create" THEN req.mode
                                  ELSE modes[req.folder]])
                \/ /\ Set(c, [conns[c] EXCEPT !.stage = "executed"])
                   /\ UNCHANGED modes
    /\ UNCHANGED <<headless, unlocked, boot, serving, agentVars>>

\* apply_privacy_filter goes by the mode the request was built with, and
\* refuses what is not text. The outcome is recorded; without a record the
\* caller gets an error although the operation is done.
Finish(c) ==
    /\ conns[c].stage = "executed"
    /\ \E text \in BOOLEAN :
        LET filtered == conns[c].req.action = "read" /\ conns[c].req.mode = Anonymized
            ok == conns[c].ok /\ (filtered => text)
        IN  \E log \in Kept(IF ok THEN "allowed" ELSE "error") :
                Set(c, [conns[c] EXCEPT !.stage = "answered", !.ok = ok /\ log # {},
                                        !.log = @ \cup log, !.masked = filtered])
    /\ UNCHANGED <<headless, unlocked, boot, serving, modes, agentVars>>

\* The answer is sent, and the connection waits for the next message.
Send(c) ==
    /\ conns[c].stage = "answered"
    /\ Set(c, Paired(conns[c].server, conns[c].agent, conns[c].scopes))
    /\ UNCHANGED <<headless, unlocked, boot, serving, modes, agentVars>>

-----------------------------------------------------------------------------
(* The desktop around its gateway, and the headless command.               *)

Unlock ==
    /\ ~headless /\ ~unlocked /\ HandleFree
    /\ unlocked' = TRUE
    /\ boot' = "starting"
    /\ UNCHANGED <<headless, serving, modes, conns, agentVars>>

\* perform_vault_lock: the listener stops, the connections stay.
Lock ==
    /\ ~headless /\ unlocked /\ HandleFree
    /\ unlocked' = FALSE
    /\ serving' = 0
    /\ UNCHANGED <<headless, boot, modes, conns, agentVars>>

StartServers ==
    /\ boot = "starting" /\ unlocked /\ HandleFree /\ secret < MaxStarts
    /\ ReadDefault
    /\ boot' = "refreshing"
    /\ UNCHANGED <<headless, unlocked, serving, modes, conns>>

StartRefused ==
    /\ boot = "starting" /\ ~unlocked
    /\ boot' = "no"
    /\ UNCHANGED <<headless, unlocked, serving, modes, conns, agentVars>>

InstallServers ==
    /\ boot = "refreshing"
    /\ WriteDefault
    /\ boot' = "no"
    /\ serving' = secret
    /\ UNCHANGED <<headless, unlocked, modes, conns>>

\* What edits the registry under the handle: agent_create, agent_revoke, and
\* the imports of the desktop and of the tool vault.import_agents.
EditRegistry ==
    /\ ~headless /\ unlocked
    /\ \/ \E n \in AgentName, s \in AgentScopes :
            \/ ReadCreate(n, s)
            \/ s # <<>> /\ \E r \in BOOLEAN : ReadImport(n, s, r)
       \/ \E id \in 1 .. minted : ReadRevoke(id)
    /\ UNCHANGED <<headless, unlocked, boot, serving, modes, conns>>

EndEdit ==
    /\ WriteEdit \/ WriteFails
    /\ UNCHANGED <<headless, unlocked, boot, serving, modes, conns>>

\* The headless command serves once, for an agent provisioned beforehand.
ServeHeadless ==
    /\ headless /\ serving = 0
    /\ \E s \in AgentScopes \ {<<>>} :
        agents' = <<Record(1, DefaultName, 1, s)>>
    /\ minted' = 1
    /\ serving' = 1
    /\ UNCHANGED <<headless, unlocked, boot, modes, conns, secret, edit, starting, ended>>

GatewayNext ==
    \/ \E c \in Conn :
        \/ Accept(c)
        \/ \E safe \in BOOLEAN : Handshake(c, safe)
        \/ \E id \in 0 .. minted, token \in (-secret) .. minted : Pair(c, id, token)
        \/ Close(c)
        \/ \E a \in FolderActions, f \in Folder, m \in Modes : Request(c, a, f, m)
        \/ \E a \in SharedActions \cup OtherActions : Request(c, a, NoFolder, Direct)
        \/ Authorize(c)
        \/ Attempt(c)
        \/ Execute(c)
        \/ Finish(c)
        \/ Send(c)
    \/ Unlock
    \/ Lock
    \/ StartServers
    \/ StartRefused
    \/ InstallServers
    \/ EditRegistry
    \/ EndEdit
    \/ ServeHeadless

GatewaySpec == GatewayInit /\ [][GatewayNext]_gatewayVars

-----------------------------------------------------------------------------

Calls == {c \in Conn : conns[c].stage \in
            {"built", "authorized", "attempted", "executed", "answered"}}

\* "If it cannot record, the operation must not execute": whatever has been
\* done is preceded by a durable intent, a success the agent hears of has a
\* durable outcome, and a call put on record as denied has done nothing.
EffectsAreOnRecord ==
    \A c \in Calls :
        /\ conns[c].effect => "attempted" \in conns[c].log
        /\ conns[c].stage = "answered" /\ conns[c].ok => "allowed" \in conns[c].log
        /\ "denied" \in conns[c].log => ~conns[c].effect

\* The headless gateway, which no person watches, executes on a container only
\* while its mode is DIRECT. The mode is looked up when the call is built and
\* not again when it is executed, and another connection may destroy and
\* create the container in between.
HeadlessTouchesDirectOnly ==
    \A c \in Calls :
        headless /\ conns[c].effect /\ conns[c].req.folder # NoFolder =>
            conns[c].found = Direct

\* "Revocation ... takes effect on the next request" (ADR 0008).
RevocationTakesEffect == \A c \in Calls : conns[c].effect => ~conns[c].revoked
=============================================================================
