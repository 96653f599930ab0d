------------------------------- MODULE Agents -------------------------------
(***************************************************************************)
(* The agent registry of sv-core, agents.json: an authenticated list that  *)
(* every operation reads as a whole, changes in memory and replaces. The   *)
(* registry has no lock of its own. The desktop's commands and the gateway *)
(* hold the vault handle from the read to the write, the start of the      *)
(* servers, which refreshes the Default agent, does not.                   *)
(***************************************************************************)
EXTENDS Integers, Sequences

CONSTANTS
    AgentName,      \* names of agents
    DefaultName,    \* DEFAULT_AGENT_NAME
    AgentScopes,    \* the lists of scopes an agent may be given
    MaxAgents,      \* bound on the identities minted
    NoEdit

ASSUME AgentsAssumption ==
    /\ DefaultName \in AgentName
    /\ <<>> \in AgentScopes
    /\ MaxAgents \in Nat

VARIABLES
    agents,     \* the list on disk
    minted,     \* identities minted so far, each with a token of its own
    secret,     \* the pairing secret of the latest start of the servers
    edit,       \* the list an operation under the handle is about to write
    starting,   \* the list ensure_default_agent is about to write
    ended       \* history: the identities whose revocation has returned

agentVars == <<agents, minted, secret, edit, starting, ended>>

\* Tokens are numbers: an agent's own is its identity, a pairing secret is
\* the negated number of the start that made it.
Record(id, name, token, scopes) ==
    [id |-> id, name |-> name, token |-> token, revoked |-> FALSE, scopes |-> scopes]

AgentsInit ==
    /\ agents = <<>>
    /\ minted = 0
    /\ secret = 0
    /\ edit = NoEdit
    /\ starting = NoEdit
    /\ ended = {}

-----------------------------------------------------------------------------

FirstOf(S) == CHOOSE i \in S : \A j \in S : i <= j

revoke_agent(list, id) ==
    [i \in DOMAIN list |->
        IF list[i].id = id THEN [list[i] EXCEPT !.revoked = TRUE] ELSE list[i]]

revoke_name(list, name) ==
    [i \in DOMAIN list |->
        IF list[i].name = name THEN [list[i] EXCEPT !.revoked = TRUE] ELSE list[i]]

Known(list, name) == {i \in DOMAIN list : list[i].name = name}

\* ensure_default_agent: the first Default gets the current secret and is no
\* longer revoked; without one, one is appended.
ensure_default_agent(list, id, token) ==
    IF Known(list, DefaultName) = {}
    THEN Append(list, Record(id, DefaultName, token, <<>>))
    ELSE [list EXCEPT ![FirstOf(Known(list, DefaultName))] =
            [@ EXCEPT !.token = token, !.revoked = FALSE]]

\* authenticate: the agent a token belongs to, unless it is revoked.
Authenticates(list, id, token) ==
    \E i \in DOMAIN list :
        /\ list[i].id = id /\ \A j \in 1 .. i - 1 : list[j].id # id
        /\ ~list[i].revoked
        /\ list[i].token = token

-----------------------------------------------------------------------------
(* The operations under the handle: the list is read and changed, then     *)
(* written. None of them starts before the last has ended.                 *)

ReadCreate(name, scopes) ==
    /\ edit = NoEdit /\ minted < MaxAgents
    /\ minted' = minted + 1
    /\ edit' = [list |-> Append(agents, Record(minted', name, minted', scopes)),
                ends |-> {}]
    /\ UNCHANGED <<agents, secret, starting, ended>>

ReadRevoke(id) ==
    /\ edit = NoEdit
    /\ \E i \in DOMAIN agents : agents[i].id = id
    /\ edit' = [list |-> revoke_agent(agents, id), ends |-> {id}]
    /\ UNCHANGED <<agents, minted, secret, starting, ended>>

\* import_agents_atomically, one entry: a known name is skipped, or replaced.
ReadImport(name, scopes, replace_existing) ==
    /\ edit = NoEdit /\ minted < MaxAgents
    /\ Known(agents, name) # {} => replace_existing
    /\ minted' = minted + 1
    /\ edit' = [list |-> Append(revoke_name(agents, name),
                                Record(minted', name, minted', scopes)),
                ends |-> {agents[i].id : i \in Known(agents, name)}]
    /\ UNCHANGED <<agents, secret, starting, ended>>

WriteEdit ==
    /\ edit # NoEdit
    /\ agents' = edit.list
    /\ ended' = (ended \cup edit.ends)
    /\ edit' = NoEdit
    /\ UNCHANGED <<minted, secret, starting>>

\* write_file fails: the previous list stays in place as a whole.
WriteFails ==
    /\ edit # NoEdit
    /\ edit' = NoEdit
    /\ UNCHANGED <<agents, minted, secret, starting, ended>>

-----------------------------------------------------------------------------
(* start_servers: a fresh secret, then ensure_default_agent, outside the   *)
(* handle.                                                                 *)

ReadDefault ==
    /\ starting = NoEdit
    /\ secret' = secret + 1
    /\ minted' = IF Known(agents, DefaultName) = {} THEN minted + 1 ELSE minted
    /\ starting' = ensure_default_agent(agents, minted', -secret')
    /\ UNCHANGED <<agents, edit, ended>>

WriteDefault ==
    /\ starting # NoEdit
    /\ agents' = starting
    /\ starting' = NoEdit
    /\ UNCHANGED <<minted, secret, edit, ended>>

=============================================================================
