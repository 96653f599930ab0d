------------------------------- MODULE Policy -------------------------------
(***************************************************************************)
(* The runtime policy of crates/sv-runtime/src/policy: the version 1       *)
(* document, the checks a document passes before it becomes a snapshot,    *)
(* the store that swaps snapshots, the deny-overrides evaluation of one    *)
(* request against the snapshot it took, and the semantic difference of    *)
(* two snapshots.                                                          *)
(*                                                                         *)
(* The evaluation is one step per rule, as the loop of evaluate is, so     *)
(* that the store may swap the policy in the middle of it.                 *)
(***************************************************************************)
EXTENDS Integers, Sequences, FiniteSets, Glob

CONSTANTS
    Documents,   \* the documents an operator may load
    Requests,    \* the facts of the requests that are evaluated
    None

-----------------------------------------------------------------------------
(* The document. An absent selector field is not in the domain of a match. *)

\* Fields compared for equality with the one value the request supplies.
ExactFields ==
    {"principal_ids", "principal_kinds", "adapter_ids", "transports",
     "operations", "origin_kinds", "destination_kinds", "destination_ids",
     "methods", "mcp_server_ids", "process_profile_ids",
     "classification_states"}

\* Fields whose entries are globs over the one value the request supplies.
GlobFields == {"host_globs", "mcp_tool_globs"}

\* Fields the document accepts and rule_matches does not read.
UnreadFields ==
    {"provider_ids", "model_globs", "container_globs", "exposure_classes",
     "media_types", "fragment_roles", "min_auth_strength",
     "session_max_age_seconds", "time_window"}

LabelFields == {"labels_all", "labels_any", "labels_none"}

Fields == ExactFields \cup GlobFields \cup UnreadFields \cup LabelFields
              \cup {"path_prefixes", "resource_kinds"}

\* Exposure classes and consent modes in the order that join ranks them.
ExposureClass ==
    [Raw |-> 0, Transformed |-> 1, ReferenceOnly |-> 2, ExecuteOnly |-> 3,
     NonExportable |-> 4]

\* The class a rule's exposure stands for.
RuleClass ==
    [raw |-> ExposureClass.Raw, redact |-> ExposureClass.Transformed,
     pseudonymize |-> ExposureClass.Transformed,
     omit |-> ExposureClass.Transformed,
     reference_only |-> ExposureClass.ReferenceOnly,
     execute_only |-> ExposureClass.ExecuteOnly]

ConsentMode == [None |-> 0, Approval |-> 1, Otp |-> 2, DenyIfUnavailable |-> 3]

\* The limits that a request is measured against; the other five are only
\* copied into the decision.
LimitFields ==
    {"request_bytes", "fragment_bytes", "response_bytes",
     "concurrent_requests_per_principal", "request_timeout_ms",
     "consent_timeout_ms", "stream_boundary_bytes"}

RegistrationFields ==
    {"provider_route", "mcp_server", "process_profile", "reference_class"}

\* What the deserializer guarantees of a document (deny_unknown_fields and the
\* enumerations of document.rs), and the typed facts of a request.
ASSUME PolicyAssumption ==
    /\ None \notin Documents
    /\ \A d \in Documents :
          /\ Len(d.rule) \in Nat /\ DOMAIN d.rule = 1..Len(d.rule)
          /\ \A i \in DOMAIN d.rule : LET e == d.rule[i].effect IN
                /\ e.access \in {"allow", "deny"}
                /\ e.exposure \in DOMAIN RuleClass \cup {None}
                /\ e.consent \in 0..3 \cup {None}
          /\ \A f \in LimitFields : d.limits[f] \in Nat
    /\ \A f \in Requests : f.floor \in 0..4

-----------------------------------------------------------------------------
(* validate: the hard checks, in their order, and the warnings.            *)

Unique(s) == \A i, j \in DOMAIN s : s[i].id = s[j].id => i = j

Ids(s) == {s[i].id : i \in DOMAIN s}

check_unique_ids(d) ==
    Unique(d.rule) /\ \A k \in RegistrationFields : Unique(d[k])

check_routes(d) ==
    \A i \in DOMAIN d.rule :
        d.rule[i].effect.route \in Ids(d.provider_route) \cup {None}

check_references(d) ==
    \A i \in DOMAIN d.rule : LET m == d.rule[i].match IN
        /\ "mcp_server_ids" \in DOMAIN m =>
               m["mcp_server_ids"] \subseteq Ids(d.mcp_server)
        /\ "process_profile_ids" \in DOMAIN m =>
               m["process_profile_ids"] \subseteq Ids(d.process_profile)

\* What is left of the last colon is dropped, so of an authority with a port
\* it is the port that is taken for the host.
host_of(url) == IF url.port = None THEN url.host ELSE url.port

check_urls(d) ==
    \A i \in DOMAIN d.provider_route : LET url == d.provider_route[i].base_url IN
        url.https /\ host_of(url) \notin {"", "*"}

Forbidden == {"transit_key", "signing_key", "provider_credential"}

check_exposure(d) ==
    \A i \in DOMAIN d.rule : LET r == d.rule[i] IN
        (r.effect.exposure = "raw" /\ "resource_kinds" \in DOMAIN r.match) =>
            r.match["resource_kinds"] \cap Forbidden = {}

check_limits(d) == \A f \in LimitFields : d.limits[f] # 0

\* An executable is an absolute path without the characters of a shell.
check_executables(d) ==
    \A i \in DOMAIN d.process_profile : d.process_profile[i].executable = "absolute"

\* The outcome of check: the first rule that fails decides the error.
Check(d) ==
    CASE ~check_unique_ids(d) -> "InvalidStructure"
      [] check_unique_ids(d) /\ ~check_routes(d) -> "RouteDenied"
      [] check_unique_ids(d) /\ check_routes(d) /\
         ~(/\ check_references(d) /\ check_urls(d) /\ check_exposure(d)
           /\ check_limits(d) /\ check_executables(d)) -> "InvalidStructure"
      [] OTHER -> "Ok"

\* An earlier rule with the very same match: a deny shadows an allow, and two
\* routes make the later one ambiguous.
Shadowed(d, i) ==
    \E j \in 1..(i-1) : /\ d.rule[j].match = d.rule[i].match
                        /\ d.rule[j].effect.access = "deny"
                        /\ d.rule[i].effect.access = "allow"

Rerouted(d, i) ==
    \E j \in 1..(i-1) : /\ d.rule[j].match = d.rule[i].match
                        /\ d.rule[j].effect.route # d.rule[i].effect.route

check_warnings(d) ==
    {<<"UnreachableAllow", d.rule[i].id>> : i \in {k \in DOMAIN d.rule : Shadowed(d, k)}}
    \cup {<<"AmbiguousRoute", d.rule[i].id>> :
             i \in {k \in DOMAIN d.rule : Rerouted(d, k)}}

-----------------------------------------------------------------------------
(* rule_matches: every constraint that is read has to hold. A fact that    *)
(* the request does not supply is not in the domain of its facts.          *)

label_hit(facts, p) == \E l \in facts.labels : GlobMatches(p, l)

\* The constraint c of field f against the facts of a request.
Holds(f, c, facts) ==
    CASE f \in ExactFields -> f \in DOMAIN facts /\ facts[f] \in c
      [] f \in GlobFields ->
             f \in DOMAIN facts /\ \E p \in c : GlobMatches(p, facts[f])
      [] f = "path_prefixes" ->
             /\ f \in DOMAIN facts
             /\ \E p \in c : /\ Len(p) <= Len(facts[f])
                             /\ SubSeq(facts[f], 1, Len(p)) = p
      [] f = "resource_kinds" -> facts.resource_kinds \cap c # {}
      [] f = "labels_all" -> \A p \in c : label_hit(facts, p)
      [] f = "labels_any" -> \E p \in c : label_hit(facts, p)
      [] f = "labels_none" -> ~ \E p \in c : label_hit(facts, p)
      [] f \in UnreadFields -> TRUE

rule_matches(m, facts) == \A f \in DOMAIN m : Holds(f, m[f], facts)

Matched(r, facts) == rule_matches(r.match, facts)

-----------------------------------------------------------------------------
(* The store and one evaluation.                                           *)

VARIABLES
    current,    \* the active document, or None
    eval        \* the evaluation in progress, or the last one

policyVars == <<current, eval>>

Idle == [pc |-> "idle"]

PolicyInit == current = None /\ eval = Idle

\* parse and validate, then the swap of PolicyStore::activate.
Activate(d) ==
    /\ Check(d) = "Ok"
    /\ current' = d
    /\ UNCHANGED eval

\* The orders of the rules that sort_by may leave: higher priority first, ties
\* by identifier. Identifiers are unique, so there is exactly one.
Orders(d) ==
    LET n == Len(d.rule)
        Before(i, j) == \/ d.rule[i].priority > d.rule[j].priority
                        \/ /\ d.rule[i].priority = d.rule[j].priority
                           /\ d.rule[i].id <= d.rule[j].id
    IN  {o \in [1..n -> 1..n] :
            /\ \A k \in 1..n : \E i \in 1..n : o[i] = k
            /\ \A i, j \in 1..n : i <= j => Before(o[i], o[j])}

TooLarge(d, facts) ==
    \/ facts.request_bytes > d.limits.request_bytes
    \/ facts.largest_fragment_bytes > d.limits.fragment_bytes

\* evaluate takes the snapshot, measures the request and sorts the rules.
Begin(facts) ==
    /\ eval.pc \in {"idle", "done"}
    /\ current # None
    /\ \E o \in Orders(current) :
          eval' = [pc |-> IF TooLarge(current, facts) THEN "done" ELSE "rules",
                   doc |-> current, facts |-> facts, order |-> o, next |-> 1,
                   allows |-> 0, exposure |-> facts.floor,
                   consent |-> ConsentMode.None, routes |-> {},
                   result |-> IF TooLarge(current, facts) THEN "LimitExceeded"
                              ELSE "none"]
    /\ UNCHANGED current

Join(a, b) == IF a >= b THEN a ELSE b

\* A plausible fault: the rule's exposure is assigned instead of joined.
Assigned(a, b) == b

Joined(a, b) == Join(a, b)

\* The next rule of the loop: a deny that matches ends it, an allow that
\* matches joins its effect.
Rule ==
    /\ eval.pc = "rules"
    /\ eval.next <= Len(eval.doc.rule)
    /\ LET r == eval.doc.rule[eval.order[eval.next]]
           e == r.effect
       IN  \/ /\ ~Matched(r, eval.facts)
              /\ eval' = [eval EXCEPT !.next = @ + 1]
           \/ /\ Matched(r, eval.facts) /\ e.access = "deny"
              /\ eval' = [eval EXCEPT !.pc = "done", !.result = "PolicyDenied"]
           \/ /\ Matched(r, eval.facts) /\ e.access = "allow"
              /\ eval' = [eval EXCEPT
                    !.next = @ + 1, !.allows = @ + 1,
                    !.exposure = IF e.exposure = None THEN @
                                 ELSE Joined(@, RuleClass[e.exposure]),
                    !.consent = IF e.consent = None THEN @
                                ELSE Joined(@, e.consent),
                    !.routes = IF e.route = None THEN @ ELSE @ \cup {e.route}]
    /\ UNCHANGED current

Elevated(facts) == facts["classification_states"] = "elevated"

\* After the loop: no allow denies, classification raises the floors, two
\* routes deny, and what is left is the decision.
Decide ==
    /\ eval.pc = "rules"
    /\ eval.next > Len(eval.doc.rule)
    /\ LET raise == eval.allows > 0 /\ Elevated(eval.facts) IN
       eval' = [eval EXCEPT
          !.pc = "done",
          !.exposure = IF raise THEN Join(@, ExposureClass.Transformed) ELSE @,
          !.consent = IF raise THEN Join(@, ConsentMode.Approval) ELSE @,
          !.result = IF eval.allows = 0 THEN "PolicyDenied"
                     ELSE IF \E a, b \in eval.routes : a # b THEN "RouteDenied"
                     ELSE "Ok"]
    /\ UNCHANGED current

PolicyNext ==
    \/ \E d \in Documents : Activate(d)
    \/ \E f \in Requests : Begin(f)
    \/ Rule
    \/ Decide

PolicySpec == PolicyInit /\ [][PolicyNext]_policyVars

-----------------------------------------------------------------------------
(* diff: the changes between two snapshots, without their order.           *)

RuleOf(d, id) == d.rule[CHOOSE i \in DOMAIN d.rule : d.rule[i].id = id]

ClassOf(r) == IF r.effect.exposure = None THEN ExposureClass.Raw
              ELSE RuleClass[r.effect.exposure]

ConsentOf(r) == IF r.effect.consent = None THEN ConsentMode.None
                ELSE r.effect.consent

allowed_kinds(d) ==
    UNION {d.rule[i].match["destination_kinds"] : i \in
              {k \in DOMAIN d.rule : /\ d.rule[k].effect.access = "allow"
                                     /\ "destination_kinds" \in DOMAIN d.rule[k].match}}

\* A plausible fault: only the effect of a rule is compared, not its match.
ChangedEffect(old, new, id) == RuleOf(old, id).effect # RuleOf(new, id).effect

Changed(old, new, id) ==
    \/ RuleOf(old, id).match # RuleOf(new, id).match
    \/ RuleOf(old, id).effect # RuleOf(new, id).effect

diff_rules(old, new) ==
    LET gone == Ids(old.rule) \ Ids(new.rule)
        kept == Ids(old.rule) \cap Ids(new.rule)
        Tag(kind, ids) == {<<kind, id>> : id \in ids}
    IN  UNION {Tag("RuleRemoved", gone),
               Tag("DenyRemoved",
                   {id \in gone : RuleOf(old, id).effect.access = "deny"}),
               Tag("RuleAdded", Ids(new.rule) \ Ids(old.rule)),
               Tag("RuleChanged", {id \in kept : Changed(old, new, id)}),
               Tag("TransformationWeakened",
                   {id \in kept : ClassOf(RuleOf(new, id)) < ClassOf(RuleOf(old, id))}),
               Tag("TransformationStrengthened",
                   {id \in kept : ClassOf(RuleOf(new, id)) > ClassOf(RuleOf(old, id))}),
               Tag("ConsentWeakened",
                   {id \in kept : ConsentOf(RuleOf(new, id)) < ConsentOf(RuleOf(old, id))}),
               Tag("ConsentStrengthened",
                   {id \in kept : ConsentOf(RuleOf(new, id)) > ConsentOf(RuleOf(old, id))}),
               Tag("DestinationNewlyAllowed",
                   allowed_kinds(new) \ allowed_kinds(old))}

diff_limits(old, new) ==
    {<<"LimitLoosened", f>> :
        f \in {x \in LimitFields : new.limits[x] > old.limits[x]}}
    \cup {<<"LimitTightened", f>> :
        f \in {x \in LimitFields : new.limits[x] < old.limits[x]}}

diff_registrations(old, new) ==
    UNION {{<<"RegistrationAdded", k, id>> : id \in Ids(new[k]) \ Ids(old[k])}
           \cup {<<"RegistrationRemoved", k, id>> : id \in Ids(old[k]) \ Ids(new[k])}
              : k \in RegistrationFields}

diff(old, new) ==
    diff_rules(old, new) \cup diff_limits(old, new) \cup diff_registrations(old, new)

-----------------------------------------------------------------------------
(* What the policy promises.                                               *)

\* The decision of a document about a request, said without an order: no rule
\* that matches denies, one that matches allows, and the effect is the least
\* upper bound of the floor and of every rule that matches.
Matching(d, facts) == {r \in {d.rule[i] : i \in DOMAIN d.rule} : Matched(r, facts)}

Permits(d, facts) ==
    /\ ~TooLarge(d, facts)
    /\ \E r \in Matching(d, facts) : TRUE
    /\ \A r \in Matching(d, facts) : r.effect.access = "allow"
    /\ \A r, s \in Matching(d, facts) :
          (r.effect.route # None /\ s.effect.route # None)
              => r.effect.route = s.effect.route

\* The exposures, and the consents, that have a say in the decision.
Exposures(d, facts) ==
    {facts.floor}
    \cup {RuleClass[r.effect.exposure] : r \in
             {x \in Matching(d, facts) : x.effect.exposure # None}}
    \cup (IF Elevated(facts) THEN {ExposureClass.Transformed} ELSE {})

Consents(d, facts) ==
    {ConsentMode.None}
    \cup {r.effect.consent : r \in
             {x \in Matching(d, facts) : x.effect.consent # None}}
    \cup (IF Elevated(facts) THEN {ConsentMode.Approval} ELSE {})

\* Deny overrides and effects only ratchet, whatever the priorities and
\* however the store is swapped while the rules are walked: an evaluation ends
\* in a decision exactly when the snapshot it took permits the request, and
\* its exposure and consent are the least upper bound of the resource's floor
\* and of every matching rule (evaluate, steps 2 to 9). A rule that
\* check_warnings calls unreachable never has a part in a decision.
DenyOverrides ==
    eval.pc = "done" =>
        /\ (eval.result = "Ok") <=> Permits(eval.doc, eval.facts)
        /\ eval.result = "Ok" =>
              /\ eval.exposure \in Exposures(eval.doc, eval.facts)
              /\ \A x \in Exposures(eval.doc, eval.facts) : x <= eval.exposure
              /\ eval.consent \in Consents(eval.doc, eval.facts)
              /\ \A c \in Consents(eval.doc, eval.facts) : c <= eval.consent
              /\ eval.routes \subseteq Ids(eval.doc.provider_route)
              /\ \A r \in Matching(eval.doc, eval.facts) :
                    <<"UnreachableAllow", r.id>> \notin check_warnings(eval.doc)

\* The documents that may replace the active one, looked at before a request
\* is evaluated.
Successors == IF current # None /\ eval = Idle
              THEN {d \in Documents : Check(d) = "Ok"} ELSE {}

\* A diff that reports nothing hides nothing: two snapshots between which diff
\* finds no change permit the same requests, with the same exposures and
\* consents (diff compares rules by id, their order and priority left out).
SilentDiffDecidesAlike ==
    \A d \in Successors : diff(current, d) = {} =>
        \A f \in Requests :
            /\ Permits(current, f) <=> Permits(d, f)
            /\ Exposures(current, f) = Exposures(d, f)
            /\ Consents(current, f) = Consents(d, f)

=============================================================================
