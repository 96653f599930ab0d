-------------------------------- MODULE Scan --------------------------------
(***************************************************************************)
(* The project scanner (crates/sv-scan): the walk of a tree with its       *)
(* accounting of what was not examined, the detectors that run over a      *)
(* file, and the context filters. Nothing here writes.                     *)
(*                                                                         *)
(* A file is a record: whether the walkers get to it, which kind of ignore *)
(* rule, if any, hides it, how an exclude pattern and an always-scan       *)
(* pattern treat its path, what reading it gives, and, for text, its       *)
(* characters. Words that filters look for are properties of the file and  *)
(* of its lines, not spelled out.                                          *)
(***************************************************************************)
EXTENDS Privacy, Patterns

CONSTANT RULES       \* the secret rules: id (and its rank among the ids),
                     \* prefix, lengths, body, confidence

Low == 1
Medium == 2
High == 3

-----------------------------------------------------------------------------
(* walk.                                                                   *)

SkipReason == {"TooLarge", "Binary", "NotUtf8", "Unreadable", "BudgetExhausted"}

\* Reading a file gives text or the reason it is skipped for.
Examined(f) == f.state \notin SkipReason

\* What every walker gets to. In a directory that cannot be read it meets an
\* error instead of the files, and all three passes drop that error.
Reached(tree) == {f \in tree : f.walkable}

\* The files the ignore crate yields to the main loop. A link is yielded too.
\* respect_gitignore switches the rules of git off; a .ignore file in the tree
\* is in force all the same.
Yielded(tree, config) ==
    {f \in Reached(tree) : /\ ~f.git /\ ~f.excluded
                           /\ f.ignored # ".ignore"
                           /\ config.respect_gitignore => f.ignored # "git"}

\* A plausible fault: a credential file is only looked for outside ignored
\* directories.
IncludesUnignored(tree, config) ==
    {f \in Reached(tree) : f.regular /\ f.always /\ ~f.excluded /\ ~f.git /\ f.ignored = "no"}

\* The files that the second traversal considers.
Includes(tree, config) ==
    {f \in Reached(tree) : f.regular /\ f.always /\ ~f.excluded /\ ~f.git}

\* The files collect_always_scan adds: all that match and were not collected.
Added(tree, config) ==
    IF config.respect_gitignore /\ config.always_scan
    THEN Includes(tree, config) \ {f \in Yielded(tree, config) : Examined(f)}
    ELSE {}

\* The skips are a list: one entry per pass that met the file.
walk(tree, config) ==
    LET main == Yielded(tree, config)
        added == Added(tree, config)
        files == {f \in main \cup added : Examined(f)}
        skipped == {<<"walk", f>> : f \in {x \in main : ~Examined(x)}}
                   \cup {<<"always", f>> : f \in {x \in added : ~Examined(x)}}
        total == Cardinality({f \in Reached(tree) : f.regular /\ ~f.git})
        seen == Cardinality(files) + Cardinality(skipped)
    IN  [files |-> files, skipped |-> skipped,
         files_scanned |-> Cardinality(files),
         files_skipped |-> Cardinality(skipped),
         files_ignored |-> IF seen > total THEN 0 ELSE total - seen]

-----------------------------------------------------------------------------
(* detect.                                                                 *)

newline == 10
bracket == 91
unbracket == 93

\* Where the line of position i starts.
LineStart(b, i) ==
    LET before == {k \in 1..(i - 1) : b[k] = newline} IN
    IF before = {} THEN 1 ELSE 1 + (CHOOSE k \in before : \A j \in before : j <= k)

\* A marker opens with a bracket; the last one on the line has not closed.
is_inside_marker(b, i) ==
    LET line == LineStart(b, i)
        opens == {k \in line..(i - 1) : b[k] = bracket}
    IN  /\ opens # {}
        /\ LET last == CHOOSE k \in opens : \A j \in opens : j <= k IN
           ~ \E k \in last..(i - 1) : b[k] = unbracket

\* The body characters of the rules: AlnumDashUnderscore, and Alnum.
Alphabet(rule) ==
    digits \cup letters \cup (IF rule.dashes THEN {hyphen, 95} ELSE {})

length_valid(rule, n) == n \in rule.lengths

promote(c) == IF c = High THEN High ELSE c + 1
demote(c) == IF c = Low THEN Low ELSE c - 1

\* Fewer than four distinct bytes have less than two bits of entropy each.
LowEntropy(v) == Cardinality({v[i] : i \in DOMAIN v}) < 4

\* A keyword stands before the candidate on its line: "=" here.
keyword_before_on_line(b, i) == \E k \in LineStart(b, i)..(i - 1) : b[k] = 61

Confident(rule, b, s, e) ==
    LET c == IF keyword_before_on_line(b, s) THEN promote(rule.confidence)
             ELSE rule.confidence
    IN  IF LowEntropy(SubSeq(b, s, e - 1)) THEN demote(c) ELSE c

\* The tokens of one rule: its prefix, then the longest run of body characters.
scan_rule(b, rule) ==
    LET TokenAt == [i \in DOMAIN b |->
            IF /\ i + Len(rule.prefix) - 1 <= Len(b)
               /\ SubSeq(b, i, i + Len(rule.prefix) - 1) = rule.prefix
            THEN LET e == RunEnd(b, i + Len(rule.prefix), Alphabet(rule))
                 IN  IF length_valid(rule, e - i) THEN <<i, e>> ELSE <<>>
            ELSE <<>>]
    IN  {[start |-> f.start, end |-> f.end, rule_id |-> rule.id,
          confidence |-> Confident(rule, b, f.start, f.end)] :
             f \in {x \in Scanned(b, "Secret", TokenAt) : ~is_inside_marker(b, x.start)}}

\* A line that runs from the opening of a key header, "{" here, to its closing,
\* "}", is one finding, whatever its entropy.
scan_pem(b, rule) ==
    LET LineEnd(i) == RunEnd(b, i, 0..127 \ {newline})
        TokenAt == [i \in DOMAIN b |->
            IF b[i] = 123 /\ b[LineEnd(i) - 1] = 125 THEN <<i, LineEnd(i)>> ELSE <<>>]
    IN  {[start |-> f.start, end |-> f.end, rule_id |-> rule.id,
          confidence |-> IF keyword_before_on_line(b, f.start)
                         THEN promote(rule.confidence) ELSE rule.confidence] :
             f \in {x \in Scanned(b, "Secret", TokenAt) : ~is_inside_marker(b, x.start)}}

Overlap(f, g) == f.start < g.end /\ g.start < f.end

rank(id) == (CHOOSE r \in RULES : r.id = id).rank

\* The order in which candidates are taken.
Better(f, g) ==
    \/ f.confidence > g.confidence
    \/ f.confidence = g.confidence /\ f.end - f.start > g.end - g.start
    \/ /\ f.confidence = g.confidence /\ f.end - f.start = g.end - g.start
       /\ rank(f.rule_id) <= rank(g.rule_id)

\* A plausible fault: candidates are taken in the order of the text.
FirstStart(f, g) == f.start <= g.start

Preferred(f, g) == Better(f, g)

\* Best first, each kept if it overlaps none that was kept.
dedup_overlaps(candidates) ==
    LET keep[rest \in SUBSET candidates, kept \in SUBSET candidates] ==
            IF rest = {} THEN kept
            ELSE LET best == CHOOSE f \in rest : \A g \in rest : Preferred(f, g) IN
                 keep[rest \ {best},
                      IF \E k \in kept : Overlap(best, k) THEN kept ELSE kept \cup {best}]
    IN  keep[candidates, {}]

Candidates(b) ==
    UNION {IF r.id = "private_key_pem" THEN scan_pem(b, r) ELSE scan_rule(b, r) : r \in RULES}

detect_secrets(b) == dedup_overlaps(Candidates(b))

pii_confidence(category) ==
    IF category \in {"Cpf", "Cnpj", "CreditCard"} THEN High ELSE Medium

detect_pii(b) ==
    {[start |-> f.start, end |-> f.end, rule_id |-> f.category,
      confidence |-> pii_confidence(f.category)] :
        f \in {x \in ToSet(pii_scan(b, PiiCategory)) : ~is_inside_marker(b, x.start)}}

-----------------------------------------------------------------------------
(* filter and scan_project.                                                *)

adjacent_to_digits(b, f) ==
    \/ f.start > 1 /\ is_digit(b[f.start - 1])
    \/ f.end <= Len(b) /\ is_digit(b[f.end])

in_numeric_run(b, f) ==
    \/ adjacent_to_digits(b, f)
    \/ Cardinality({k \in f.start..(f.end - 1) : is_digit(b[k])}) > 19

\* The words, paths and ranges these look for are properties of the file.
is_generated_path(file) == file.generated
is_non_identifying_ip(file) == file.private_address
is_structured_numeric_context(file) == file.numeric
is_placeholder_value(file) == file.placeholder
has_card_context(file) == file.card_word
plausible_openai_key(b, f) == keyword_before_on_line(b, f.start)

NumericKinds == {"CreditCard", "Cpf", "Cnpj", "Ssn"}

\* Why a finding is less likely to be real: by its file, its kind, its place.
suppression_reason(f, kind, file) ==
    CASE is_generated_path(file) -> "GeneratedFile"
      [] ~is_generated_path(file) /\ kind = "pii" /\ f.rule_id = "Ipv4" ->
             IF is_non_identifying_ip(file) THEN "NonIdentifyingAddress" ELSE "none"
      [] ~is_generated_path(file) /\ kind = "pii" /\ f.rule_id \in NumericKinds ->
             IF in_numeric_run(file.content, f) THEN "EmbeddedInNumericRun"
             ELSE IF is_structured_numeric_context(file) THEN "StructuredNumericData" ELSE "none"
      [] ~is_generated_path(file) /\ kind = "jurisdiction" ->
             IF adjacent_to_digits(file.content, f) THEN "EmbeddedInNumericRun"
             ELSE IF is_structured_numeric_context(file) THEN "StructuredNumericData" ELSE "none"
      [] ~is_generated_path(file) /\ kind = "secret" ->
             IF is_placeholder_value(file) THEN "PlaceholderValue"
             ELSE IF f.rule_id = "openai_api_key" /\ ~plausible_openai_key(file.content, f)
             THEN "ImplausibleKeyContext" ELSE "none"
      [] OTHER -> "none"

is_removal(reason) == reason = "EmbeddedInNumericRun"

\* A card without a payment word on its line stays a candidate.
adjust_confidence(f, file) ==
    IF f.rule_id = "CreditCard" /\ ~has_card_context(file) THEN Low ELSE f.confidence

\* What the report says of one candidate of a file.
Reported(f, kind, file) ==
    LET reason == suppression_reason(f, kind, file) IN
    IF is_removal(reason) THEN {}
    ELSE {[f EXCEPT !.confidence = IF reason # "none" THEN Low
                                   ELSE adjust_confidence(f, file)]}

\* The report on one file, given what the pack engine found in it.
FileReport(file, packs, found) ==
    LET jurisdiction == {[start |-> m.start, end |-> m.end, rule_id |-> m.rule_id,
                          confidence |-> m.confidence] :
                            m \in {x \in found.matches : ~is_inside_marker(file.content, x.start)}}
        All(kind, S) == UNION {Reported(f, kind, file) : f \in S}
    IN  [findings |-> All("secret", detect_secrets(file.content))
                      \cup All("pii", detect_pii(file.content))
                      \cup All("jurisdiction", jurisdiction),
         incomplete |-> packs # <<>> /\ found.truncated]

scan_file(file, packs, budget) ==
    FileReport(file, packs, match_all(packs, file.content, budget))

\* A pack that fails to load is an error of the whole scan: there is no report.
load_packs(packs) == \A i \in DOMAIN packs : PackVerdict(packs[i]) = "Ok"

\* The report on a walk, given the reports on its files: a file whose budget ran
\* out joins the skips.
ScanReport(w, result) ==
    LET partial == {<<"budget", f>> : f \in {x \in w.files : result[x].incomplete}}
    IN  [files |-> w.files,
         findings |-> [f \in w.files |-> result[f].findings],
         skipped |-> w.skipped \cup partial,
         files_scanned |-> w.files_scanned,
         files_skipped |-> w.files_skipped + Cardinality(partial),
         files_ignored |-> w.files_ignored]

\* Every readable file is scanned.
Scanning(w, packs, budget) ==
    ScanReport(w, [f \in w.files |-> scan_file(f, packs, budget)])

scan_project(tree, config, packs, budget) == Scanning(walk(tree, config), packs, budget)
=============================================================================
