------------------------------ MODULE Exposure ------------------------------
(***************************************************************************)
(* sv-exposure: has a credential that the scanner found been in the        *)
(* history of the repository, and does GitHub have an alert for it? The    *)
(* classification against git is one call on a repository. The query of    *)
(* the alerts is a walk over pages of lists that change between requests.  *)
(***************************************************************************)
EXTENDS Naturals, FiniteSets, Sequences, SequencesExt

CONSTANTS
    Repositories,  \* what git has to say of a project directory
    RuleIds,       \* rules of findings, with and without an issuer
    ISSUED,        \* rules of RULE_ISSUERS
    AlertIds,      \* numbers of alerts, in the order they are raised
    SecretOf,      \* the secret an alert is about, or NoSecret
    PageSize,      \* per_page, 100 in the code
    MaxMoves,      \* bound: changes of the lists during a query
    NoSecret

VARIABLES
    classified,    \* the repository and rule classified, and the outcome
    server,        \* the numbers of the alerts in each state, at GitHub
    query,         \* the query under way
    moves          \* changes of the lists since it began

exposureVars == <<classified, server, query, moves>>

-----------------------------------------------------------------------------
(* The history of a repository.                                            *)

Lines(oids, named) == [i \in DOMAIN oids |-> [oid |-> oids[i], named |-> named]]

\* Every object is printed once, the commits first. A root tree has no path.
RevList(repo, roots) ==
    LET commits == SetToSeq(UNION {repo.commit[c].history : c \in roots})
        Root(i) == repo.commit[commits[i]].tree
        Printed(i) == UNION {ToSet(repo.tree[Root(j)]) : j \in 1..(i - 1)}
        Section(i) ==
            IF \E j \in 1..(i - 1) : Root(j) = Root(i) THEN <<>>
            ELSE Lines(<<Root(i)>>, FALSE)
                 \o Lines(SelectSeq(repo.tree[Root(i)], LAMBDA o : o \notin Printed(i)), TRUE)
    IN  Lines(commits, FALSE) \o FlattenSeq([i \in DOMAIN commits |-> Section(i)])

\* Only a token of forty characters counts, and git abbreviates unless it is
\* configured not to. A failing command contributes nothing, and no error.
collect_reflog_roots(repo) == IF repo.full_ids THEN repo.reflog ELSE {}

\* The last ref at a commit names its remote.
remote_by_commit(repo) ==
    LET At(c) == {i \in DOMAIN repo.refs : repo.refs[i].at = c /\ repo.refs[i].remote # ""}
    IN  [c \in {repo.refs[i].at : i \in DOMAIN repo.refs} |->
            IF At(c) = {} THEN "" ELSE repo.refs[CHOOSE i \in At(c) : \A j \in At(c) : j <= i].remote]

\* A line without a path is taken for a commit, and the objects after it for
\* that commit's.
object_paths(lines) ==
    {[commit |-> lines[j].oid, oid |-> lines[i].oid] :
        <<i, j>> \in {p \in (DOMAIN lines) \X (DOMAIN lines) :
            /\ lines[p[1]].named /\ ~lines[p[2]].named /\ p[2] < p[1]
            /\ \A k \in (p[2] + 1)..(p[1] - 1) : lines[k].named}}

batch_check_blob_types(repo, paths) == {p.oid : p \in paths} \cap DOMAIN repo.blob

\* What has no timestamp of its own is given zero.
commit_timestamp(repo, c) == IF c \in DOMAIN repo.commit THEN repo.commit[c].at ELSE 0

CommitHit(repo, c) ==
    [oid |-> c, timestamp |-> commit_timestamp(repo, c),
     remote |-> IF c \in DOMAIN remote_by_commit(repo) THEN remote_by_commit(repo)[c] ELSE ""]

\* rev-list fails on an object that is gone, a root from the reflog too.
Walkable(repo) == repo.intact /\ collect_reflog_roots(repo) \subseteq DOMAIN repo.commit

is_shallow(repo) == repo.shallow

NoIndex == [by_blob |-> [b \in {} |-> {}], limits |-> {}, scanned_refs |-> 0]

collect_blobs(repo) ==
    LET targets == {repo.refs[i].at : i \in DOMAIN repo.refs}
        roots == collect_reflog_roots(repo) \ targets
        paths == object_paths(RevList(repo, targets \cup roots))
    IN  IF ~repo.git THEN NoIndex
        ELSE [by_blob |-> [b \in batch_check_blob_types(repo, paths) |->
                              {CommitHit(repo, p.commit) : p \in {q \in paths : q.oid = b}}],
              limits |-> {l \in {"ReflogExpired", "ShallowClone", "SubmodulesNotScanned"} :
                            \/ l = "ReflogExpired" /\ roots # {}
                            \/ l = "ShallowClone" /\ is_shallow(repo)
                            \/ l = "SubmodulesNotScanned" /\ repo.submodules > 0},
              scanned_refs |-> Len(repo.refs)]

\* A blob that is not UTF-8 holds nothing.
blob_contains_finding(repo, b, rule) == repo.blob[b].text /\ rule \in repo.blob[b].rules

-----------------------------------------------------------------------------
(* Classification.                                                         *)

derive_urgency(exposure) ==
    CASE exposure.found = "NotFoundInScannedHistory" ->
            IF exposure.limits = {} THEN "None" ELSE "Undetermined"
      [] exposure.found = "FoundLocalOnly" -> "BeforePush"
      [] exposure.found = "FoundOnRemote" -> "Now"

NotFound(index, more) ==
    [found |-> "NotFoundInScannedHistory", scanned_refs |-> index.scanned_refs,
     limits |-> index.limits \cup more]

Found(repo, index, rule) ==
    LET hits == UNION {index.by_blob[b] : b \in {c \in DOMAIN index.by_blob :
                                                    blob_contains_finding(repo, c, rule)}}
        remote_hits == {h \in hits : h.remote # ""}
    IN  CASE DOMAIN index.by_blob = {} -> NotFound(index, {"NothingScanned"})
          [] DOMAIN index.by_blob # {} /\ hits = {} -> NotFound(index, {})
          [] hits # {} /\ remote_hits = {} -> [found |-> "FoundLocalOnly"]
          [] remote_hits # {} ->
                [found |-> "FoundOnRemote",
                 remotes |-> {h.remote : h \in remote_hits},
                 earliest |-> CHOOSE t \in {h.timestamp : h \in remote_hits} :
                                \A h \in remote_hits : t <= h.timestamp]

lookup(rule) == rule \in ISSUED

\* A finding without an issuer, and a git command that fails, have no answer.
classify_finding(repo, index, rule) ==
    LET e == Found(repo, index, rule)
    IN  IF lookup(rule) THEN [known |-> TRUE, exposure |-> e, urgency |-> derive_urgency(e)]
        ELSE [known |-> FALSE]

ClassifyFinding ==
    /\ ~classified.done
    /\ \E repo \in Repositories, rule \in RuleIds :
          classified' = [done |-> TRUE, repo |-> repo, rule |-> rule,
                         answer |-> IF repo.git /\ ~Walkable(repo) THEN [known |-> FALSE]
                                    ELSE classify_finding(repo, collect_blobs(repo), rule)]
    /\ UNCHANGED <<server, query, moves>>

-----------------------------------------------------------------------------
(* The alerts of GitHub.                                                   *)

States == <<"open", "resolved">>

\* The server lists the alerts of a state from the newest on.
Listing(state) == Reverse(SetToSortSeq(server[state], <))
Page(state, n) ==
    SubSeq(Listing(state), (n - 1) * PageSize + 1,
           IF n * PageSize < Len(Listing(state)) THEN n * PageSize ELSE Len(Listing(state)))

transient_fingerprint(value, key) == <<key, value>>

\* The secret goes no further than its fingerprint.
parse_alert_page(page, state, key) ==
    {[number |-> n, state |-> state,
      secret_fingerprint |-> IF SecretOf[n] = NoSecret THEN <<>>
                             ELSE transient_fingerprint(SecretOf[n], key)] : n \in ToSet(page)}

matches_value(alert, value, key) ==
    alert.secret_fingerprint # <<>> /\ alert.secret_fingerprint = transient_fingerprint(value, key)

\* The correlation key of a query; another one fits no fingerprint.
Key == "key"

Walking == query.result = "none"

\* A plausible fault: a full page is taken for the last.
last_page_full(got) == got <= PageSize
last_page(got) == got < PageSize

\* One request of fetch_alert_state that succeeds. After the last page of a
\* state secret_scanning_alerts goes on to the next.
FetchPage ==
    /\ Walking
    /\ LET state == States[query.state]
           page == Page(state, query.page)
           ends == last_page(Len(page))
       IN  query' = [query EXCEPT
              !.alerts = @ \cup parse_alert_page(page, state, Key),
              !.page = IF ends THEN 1 ELSE @ + 1,
              !.state = IF ends /\ @ < Len(States) THEN @ + 1 ELSE @,
              !.result = IF ends /\ query.state = Len(States) THEN "Known" ELSE @]
    /\ UNCHANGED <<classified, server, moves>>

\* A refusal makes the whole answer Unknown; a lost connection or a body that
\* is not a list of numbered alerts is an error. What was collected is dropped.
FetchFails ==
    /\ Walking
    /\ \E r \in {"Unknown", "Err"} :
          query' = [query EXCEPT !.result = r, !.alerts = {}]
    /\ UNCHANGED <<classified, server, moves>>

\* Others raise, resolve and reopen alerts at any time. An alert that leaves a
\* list moves those behind it to an earlier place.
Moved(from, to, n) ==
    /\ moves < MaxMoves /\ moves' = moves + 1
    /\ server' = [s \in DOMAIN server |->
                    (server[s] \ (IF s = from THEN {n} ELSE {})) \cup (IF s = to THEN {n} ELSE {})]
    /\ UNCHANGED classified

Raise ==
    /\ Walking
    /\ \E n \in AlertIds : /\ \A m \in server.open \cup server.resolved : m < n
                           /\ Moved("none", "open", n)
    /\ UNCHANGED query

Resolve ==
    /\ Walking
    /\ \E n \in server.open : Moved("open", "resolved", n)
    /\ query' = [query EXCEPT !.steady = @ /\ query.state = 2]

Reopen ==
    /\ Walking
    /\ \E n \in server.resolved : Moved("resolved", "open", n)
    /\ query' = [query EXCEPT !.steady = FALSE]

-----------------------------------------------------------------------------
\* query.before are the alerts there are when the query begins.
ExposureInit ==
    /\ classified = [done |-> FALSE]
    /\ \E o, r \in SUBSET AlertIds :
          /\ o \cap r = {}
          /\ server = [open |-> o, resolved |-> r]
          /\ query = [state |-> 1, page |-> 1, alerts |-> {}, result |-> "none",
                      before |-> o \cup r, steady |-> TRUE]
    /\ moves = 0

AlertsNext == FetchPage \/ FetchFails \/ Raise \/ Resolve \/ Reopen

\* "Nothing found" stands for a complete search. A finding has no urgency only
\* when some history was examined, nothing of it was cut off, and no text that
\* a ref reaches matches the rule ("reporting no rotation needed when nothing
\* was examined" is what NothingScanned prevents); a match that a ref reaches
\* always has one. The alerts are Known only after the last page of both
\* states, and then hold, with a fingerprint its secret fits, every alert that
\* was there when the query began: alerts raised at any time and alerts
\* resolved once the open ones are read may repeat an alert and hide none.
AbsenceIsSearched ==
    /\ classified.done /\ classified.answer.known =>
          LET repo == classified.repo
              answer == classified.answer
              reached == UNION {repo.commit[c].history : c \in {repo.refs[i].at : i \in DOMAIN repo.refs}}
              leaks == \E c \in reached : \E b \in ToSet(repo.tree[repo.commit[c].tree]) :
                          b \in DOMAIN repo.blob /\ blob_contains_finding(repo, b, classified.rule)
          IN  /\ answer.urgency = "None" =>
                    repo.git /\ reached # {} /\ ~repo.shallow /\ repo.submodules = 0 /\ ~leaks
              /\ repo.git /\ leaks => answer.urgency \in {"BeforePush", "Now"}
    /\ query.result = "Known" /\ query.steady =>
          \A n \in query.before : \E a \in query.alerts :
              a.number = n /\ (SecretOf[n] # NoSecret => matches_value(a, SecretOf[n], Key))
=============================================================================
