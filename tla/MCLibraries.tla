---------------------------- MODULE MCLibraries ----------------------------
(***************************************************************************)
(* Instances of the library components, which share no state. The focus of *)
(* a behaviour is the one component that takes steps in it, so that TLC    *)
(* visits the union of their state spaces and not the product.             *)
(***************************************************************************)
EXTENDS Policy, References, Broker, Remediation, PureCalls, Exposure

VARIABLE focus

libraryVars ==
    <<focus, policyVars, referenceVars, brokerVars, remediationVars, call, exposureVars>>

-----------------------------------------------------------------------------
(* Policy: documents of at most two rules over one request in two states   *)
(* of classification, with and without a label.                            *)

Allow(e, c, r) == [access |-> "allow", exposure |-> e, consent |-> c, route |-> r]
Deny == [access |-> "deny", exposure |-> None, consent |-> None, route |-> None]
All == [f \in {} |-> {}]
One(f, v) == [x \in {f} |-> {v}]

Bodies ==
    {<<All, Deny>>, <<One("operations", "read"), Deny>>,
     <<All, Allow(None, None, None)>>,
     <<One("operations", "read"), Allow("raw", ConsentMode.Otp, 1)>>,
     <<One("labels_none", <<"p", ".", "*", "*">>),
           Allow("execute_only", ConsentMode.Approval, 2)>>,
     <<One("container_globs", <<"p">>), Allow("redact", None, None)>>,
     <<One("host_globs", <<"a", "*", "b">>), Allow("raw", None, None)>>}

Others == {<<One("operations", "read"), Deny>>, <<All, Allow(None, None, None)>>,
           <<One("destination_kinds", "mcp"), Allow("redact", None, 1)>>}

R(id, p, B) ==
    {[id |-> id, priority |-> p, match |-> b[1], effect |-> b[2]] : b \in B}
Limits(n) == [f \in LimitFields |-> n]
Route(n, port) ==
    [id |-> n, base_url |-> [https |-> TRUE, host |-> "h", port |-> port]]
Document(rs, n) ==
    [limits |-> Limits(n), rule |-> rs,
     provider_route |-> <<Route(1, None), Route(2, "443")>>,
     mcp_server |-> <<>>, process_profile |-> <<>>, reference_class |-> <<>>]

MCDocuments ==
    {Document(<<>>, 0), Document(<<>>, 1)}
    \cup {Document(<<r>>, 1) : r \in R(1, 1, Bodies)}
    \cup {Document(<<r, q>>, 2) : r \in R(1, 1, Bodies), q \in R(2, 2, Others)}
    \cup {Document(<<q, r>>, 2) : r \in R(1, 3, Bodies), q \in R(2, 2, {<<All, Deny>>})}
    \cup {Document(<<q, r>>, 2) : r \in R(1, 3, {<<All, Deny>>}), q \in R(2, 2, Others)}
    \cup {Document(<<r, r>>, 2) : r \in R(1, 1, {<<All, Deny>>})}

Asks(operation, state, labels) ==
    [operations |-> operation, host_globs |-> <<"a", "x", "b">>,
     classification_states |-> state, labels |-> labels,
     resource_kinds |-> {}, floor |-> 1, request_bytes |-> 1,
     largest_fragment_bytes |-> 2]

MCRequests ==
    {Asks("read", c, l) : c \in {"low", "elevated"}, l \in {{}, {<<"p", ".", "e">>}}}
    \cup {Asks("write", "low", {})}

-----------------------------------------------------------------------------
(* References: two tokens of one entry each may be registered, three       *)
(* leases are out at a time, two locators of one resource are published.   *)

MCEntry ==
    {[expires_at |-> 1, owner |-> 1, session |-> NoEntry, operations |-> {"use"},
      audience |-> {}, max_uses |-> 2, revoked |-> FALSE],
     [expires_at |-> 2, owner |-> NoEntry, session |-> 1, operations |-> {"use"},
      audience |-> {"a"}, max_uses |-> NoEntry, revoked |-> FALSE]}

MCContext ==
    {[principal |-> p, session |-> 1, operation |-> "use", destination |-> "a"]
        : p \in {1, 2}}

-----------------------------------------------------------------------------
(* Broker: prefixes with and without a final separator, and addresses at   *)
(* both ends of the ranges.                                                *)

Bound4 ==
    {<<a, 0, 0, 0>> : a \in {0, 1, 9, 10, 11, 126, 127, 128, 223, 224, 255}}
    \cup {<<100, b, 0, 1>> : b \in {63, 64, 127, 128}}
    \cup {<<169, b, 1, 1>> : b \in {253, 254, 255}}
    \cup {<<172, b, 1, 1>> : b \in {15, 16, 31, 32}}
    \cup {<<192, b, c, 9>> : b \in {0, 88, 168}, c \in {0, 1, 2, 99}}
    \cup {<<198, b, c, 9>> : b \in {17, 18, 19, 20, 51}, c \in {0, 100}}
    \cup {<<203, 0, c, 9>> : c \in {112, 113}}

Bound6 ==
    {<<h, 0, 0, 0, 0, 0, 0, 2>> :
        h \in {0, 64511, 64512, 65023, 65024, 65151, 65152, 65215, 65216, 65279,
               65280}}
    \cup {<<0, 0, 0, 0, 0, 0, 0, y>> : y \in {0, 1}}
    \cup {<<8193, x, 0, 0, 0, 0, 0, 1>> : x \in {3511, 3512}}
    \cup {<<0, 0, 0, 0, 0, 65535, x, 1>> : x \in {2048, 2560, 25727}}
    \cup {<<100, 65435, 0, 0, 0, 0, x, 1>> : x \in {2048, 2560}}

Outside == {<<8, 8, 8, 8>>}
Inside == {<<10, 0, 0, 1>>}
MCAnswers == {Outside, Inside}
MCFirstAnswers == {{}, Outside \cup Inside} \cup {{ip} : ip \in Bound4 \cup Bound6}

Listed(prefix, private) ==
    [host |-> "h", path_prefix |-> prefix, methods |-> {"GET"},
     allow_private_ip |-> private]

MCSecrets ==
    {[allow |-> <<Listed(<<"/", "a">>, FALSE)>>, injection |-> "bearer"],
     [allow |-> <<Listed(<<"/", "a", "/">>, TRUE), Listed(<<"/">>, FALSE)>>,
      injection |-> "x-key"],
     [allow |-> <<Listed(<<"a">>, FALSE), Listed(<<"/">>, FALSE)>>,
      injection |-> "host"]}

Ask(path, names) ==
    [method |-> "GET", oversized |-> FALSE,
     headers |-> [n \in names |-> <<"agent">>],
     url |-> [scheme |-> "https", host |-> "h", path |-> path,
              credentials |-> FALSE, fragment |-> FALSE]]

MCBrokerRequests ==
    {Ask(p, {"x-key"}) : p \in {<<"/", "a">>, <<"/", "a", "b">>, <<"/", "a", "/">>,
                               <<"/", "%">>}}
    \cup {Ask(<<"/", "a">>, {"authorization"}),
          [Ask(<<"/", "a">>, {}) EXCEPT !.url.scheme = "http"],
          [Ask(<<"/", "a">>, {}) EXCEPT !.method = "PUT"],
          [Ask(<<"/", "a">>, {}) EXCEPT !.oversized = TRUE]}

MCReplies ==
    {[content_length |-> c, length |-> n, body |-> b,
      headers |-> [h \in {"set-cookie", "x-echo"} |-> <<"v", "secret">>]] :
        c \in {0, 3}, n \in {0, 3}, b \in {<<"secret", "v">>}}

-----------------------------------------------------------------------------
(* Remediation: two findings in one document, and one in another.          *)

MCFindings == {<<1, 1>>, <<1, 2>>, <<2, 1>>}

-----------------------------------------------------------------------------
(* Pure calls: identifiers with every short digit string, texts of at most *)
(* three pieces, trees of two files.                                       *)

Codes(d) == [i \in DOMAIN d |-> d[i] + 48]
Strings(S, n) == UNION {[1..k -> S] : k \in 0..n}
Pieces(P, n) == {FlattenSeq(s) : s \in Strings(P, n)}

\* GB82WEST12345698765432 and its like: a valid IBAN with its check digits free.
Iban(x, y) == <<71, 66, 48 + x, 48 + y>> \o Codes(<<3, 2, 1, 4, 2, 8, 7, 6, 5, 4, 3>>)
Dni(a, b, l) == Codes(<<a, 2, 3, 4, 5, 6, 7, b>>) \o <<l>>

MCCheckedTexts ==
    [luhn |-> {Codes(d) : d \in [1..3 -> 0..9]},
     verhoeff |-> {Codes(d) : d \in [1..3 -> 0..9]}
                  \cup {Codes(<<2, 3, 4, 1, b, 3, 4, 6, l>>) : b, l \in 0..9},
     iban |-> {Iban(x, y) : x, y \in 0..9},
     dni |-> {Dni(a, b, l) : a, b \in {0, 1, 9}, l \in 65..90}]

MCBases ==
    {[i \in 1..9 |-> IF i = k THEN a ELSE b] : k \in {1, 5, 9}, a \in 0..9, b \in {0, 3, 9}}
    \cup {[i \in 1..12 |-> IF i = k THEN a ELSE b] : k \in {1, 12}, a \in 0..9, b \in {0, 7}}

\* "(11) ", "+55 ", a CPF, a CNPJ, "a@b.co", an SSN, an address, a card.
MCMaskedTexts ==
    Pieces({<<40, 49, 49, 41, 32>>, <<43, 53, 53, 32>>,
            Codes(<<5, 2, 9, 9, 8, 2, 2, 4, 7, 2, 5>>),
            <<49, 49, 46, 50, 50, 50, 46, 51, 51, 51, 47, 48, 48, 48, 49, 45, 56, 49>>,
            <<97, 64, 98, 46, 99, 111>>, <<46>>, <<32>>, <<53>>,
            <<49, 50, 51, 45, 52, 53, 45, 54, 55, 56, 57>>,
            <<49, 48, 46, 48, 46, 48, 46, 49>>,
            <<52, 49, 49, 49, 32, 49, 49, 49, 49, 32, 49, 49, 49, 49, 32, 49, 49, 49, 49>>}, 3)

\* Two nested prefixes and one that may stand inside a token.
MCRules ==
    {[id |-> "openai_api_key", rank |-> 2, prefix |-> <<115, 107, 45>>,
      lengths |-> 5..9, dashes |-> TRUE, confidence |-> Medium],
     [id |-> "sk-a", rank |-> 4, prefix |-> <<115, 107, 45, 97>>,
      lengths |-> 6..8, dashes |-> TRUE, confidence |-> High],
     [id |-> "ab", rank |-> 1, prefix |-> <<97, 98>>,
      lengths |-> 4..4, dashes |-> FALSE, confidence |-> High],
     [id |-> "private_key_pem", rank |-> 3, prefix |-> <<>>,
      lengths |-> {}, dashes |-> FALSE, confidence |-> High]}

MCSecretTexts ==
    Pieces({<<115, 107, 45>>, <<97, 98>>, <<120, 121>>, <<97>>, <<32>>, <<61>>, <<91>>,
            <<93>>, <<10>>, <<123>>, <<125>>}, 4)

MCGlobPatterns == Strings({"*", "a", "."}, 4)
MCGlobValues == Strings({"a", "b", "."}, 4)

File1(ignored, always, excluded, state, content) ==
    [git |-> FALSE, regular |-> TRUE, walkable |-> TRUE, ignored |-> ignored, always |-> always,
     excluded |-> excluded, state |-> state, content |-> content, generated |-> FALSE,
     private_address |-> FALSE, numeric |-> FALSE, placeholder |-> FALSE,
     card_word |-> FALSE]

MCContents == {<<"Binary", <<>>>>, <<"text", <<49, 56, 32, 49, 56>>>>,
               <<"text", <<49, 56, 49, 56, 91, 49, 56>>>>}

\* Beside a file that git ignores: any file the walkers get to, and one that may
\* be a link or out of their reach.
MCTrees ==
    {{f, File1("git", FALSE, FALSE, "text", <<120>>)} : f \in
        {File1(i, a, x, c[1], c[2]) :
            i \in {"no", "git", ".ignore"}, a, x \in BOOLEAN, c \in MCContents}
        \cup {[File1(i, a, FALSE, "text", <<49, 56>>) EXCEPT !.walkable = w, !.regular = r] :
            i \in {"no", ".ignore"}, a, w, r \in BOOLEAN}}

MCConfigs == [respect_gitignore : BOOLEAN, always_scan : BOOLEAN]

Rule1(name, negatives) ==
    [named |-> TRUE, name |-> name, pattern |-> 2, validator |-> "luhn",
     confidence |-> High, examples_valid |-> {<<49, 56>>}, examples_invalid |-> negatives]

Pack1(rules) == [id |-> 1, schema |-> 1, named |-> TRUE, rules |-> rules]

MCPacks ==
    {<<>>, <<Pack1(<<Rule1("r1", {})>>)>>,
     <<Pack1(<<Rule1("r1", {<<49, 56, 120>>})>>)>>,
     <<Pack1(<<Rule1("r1", {}), Rule1("r1", {})>>)>>,
     <<Pack1(<<Rule1("r1", {}), Rule1("r2", {})>>), Pack1(<<Rule1("r3", {})>>)>>}

MCBudgets == {[max_matches |-> 2, max_input_bytes |-> 9],
              [max_matches |-> 9, max_input_bytes |-> 4],
              [max_matches |-> 9, max_input_bytes |-> 9]}

-----------------------------------------------------------------------------
(* Exposure: two commits, the second on top of the first, with two blobs   *)
(* in a root and a nested directory; five alerts on pages of two.          *)

Ref(c, remote) == [at |-> c, remote |-> remote]

MCRepositories ==
    {[git |-> g, intact |-> i, refs |-> refs, reflog |-> log, full_ids |-> full,
      shallow |-> sh, submodules |-> sub,
      commit |-> [c1 |-> [history |-> {"c1"}, tree |-> "t1", at |-> 1],
                  c2 |-> [history |-> {"c1", "c2"}, tree |-> root, at |-> 2]],
      tree |-> [t1 |-> <<"b1">>, t2 |-> <<"d", "b2", "b1">>, t3 |-> <<>>],
      blob |-> [b1 |-> [text |-> t, rules |-> {"pat"}],
                b2 |-> [text |-> TRUE, rules |-> k]]] :
        g, i, full, sh, t \in BOOLEAN, sub \in {0, 2}, root \in {"t1", "t2", "t3"},
        k \in {{}, {"pat", "oauth"}}, log \in {{}, {"c2"}, {"gone"}},
        refs \in {<<>>, <<Ref("c1", "")>>, <<Ref("c2", ""), Ref("c1", "origin")>>,
                  <<Ref("c2", "origin"), Ref("c2", "")>>}}

MCSecretOf == <<"x", "x", NoSecret, "y", "z">>

-----------------------------------------------------------------------------
Init ==
    /\ focus \in {"policy", "registry", "ledger", "broker", "remediation", "calls",
                 "history", "alerts"}
    /\ PolicyInit
    /\ ReferencesInit
    /\ BrokerInit
    /\ RemediationInit
    /\ focus # "remediation" => identified
    /\ CallInit
    /\ ExposureInit
    /\ focus # "alerts" => query.before = {}

\* The steps of one component leave the others as they are.
Only(name) == focus = name /\ UNCHANGED focus

Next ==
    \/ /\ Only("policy") /\ PolicyNext
       /\ UNCHANGED <<referenceVars, brokerVars, remediationVars, call, exposureVars>>
    \/ /\ Only("registry") /\ RegistryNext
       /\ UNCHANGED <<policyVars, brokerVars, remediationVars, call, exposureVars>>
    \/ /\ Only("ledger") /\ LedgerNext
       /\ UNCHANGED <<policyVars, brokerVars, remediationVars, call, exposureVars>>
    \/ /\ Only("broker") /\ BrokerNext
       /\ UNCHANGED <<policyVars, referenceVars, remediationVars, call, exposureVars>>
    \/ /\ Only("remediation") /\ RemediationNext
       /\ UNCHANGED <<policyVars, referenceVars, brokerVars, call, exposureVars>>
    \/ /\ Only("calls") /\ CallNext
       /\ UNCHANGED <<policyVars, referenceVars, brokerVars, remediationVars, exposureVars>>
    \/ /\ Only("history") /\ ClassifyFinding
       /\ UNCHANGED <<policyVars, referenceVars, brokerVars, remediationVars, call>>
    \/ /\ Only("alerts") /\ AlertsNext
       /\ UNCHANGED <<policyVars, referenceVars, brokerVars, remediationVars, call>>

Spec == Init /\ [][Next]_libraryVars
=============================================================================
