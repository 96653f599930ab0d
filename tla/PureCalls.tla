----------------------------- MODULE PureCalls -----------------------------
(***************************************************************************)
(* Calls of the pure functions of the scanner, the privacy filter, the     *)
(* pattern packs and the glob matcher, each compared with what it is meant *)
(* to compute. A call keeps no state: a behaviour is one call.             *)
(***************************************************************************)
EXTENDS Scan, Glob

CONSTANTS
    CheckedTexts,    \* identifiers to validate, by validator
    Bases,           \* digits of a CPF or CNPJ before the check digits
    MaskedTexts,     \* texts to redact
    SecretTexts,     \* texts with secrets
    GlobPatterns, GlobValues,
    Trees, Configs, Packs, Budgets

VARIABLE call

Calls ==
    [op : {"validate"}, id : DOMAIN CheckedTexts, text : UNION {CheckedTexts[v] : v \in DOMAIN CheckedTexts}]
    \cup [op : {"check_digits"}, base : Bases]
    \cup [op : {"redact"}, text : MaskedTexts]
    \cup [op : {"detect_secrets"}, text : SecretTexts]
    \cup [op : {"glob"}, pattern : GlobPatterns, value : GlobValues]
    \cup [op : {"scan"}, tree : Trees, config : Configs, packs : Packs, budget : Budgets]

CallInit == call = [op |-> "none"]

CallNext == /\ call.op = "none"
            /\ \E c \in Calls :
                  /\ c.op = "validate" => c.text \in CheckedTexts[c.id]
                  /\ c.op = "scan" => load_packs(c.packs)
                  /\ call' = c

-----------------------------------------------------------------------------
\* The checksums do what they are for. A single mistyped digit never turns a
\* valid card number, IBAN, Aadhaar number or DNI into another valid one, nor
\* does the exchange of two neighbouring digits of an Aadhaar number or a DNI;
\* and the two crates agree on every CPF and CNPJ with the same leading digits
\* (validators.rs, and "matches `sv-privacy`'s behaviour").
ChecksumsSound ==
    /\ call.op = "validate" =>
          LET Valid(t) == validate(call.id, t) IN
          Valid(call.text) =>
              /\ \A t \in Mistyped(call.text) : ~Valid(t)
              /\ call.id \in {"verhoeff", "dni"} =>
                    \A t \in Swapped(call.text) : ~Valid(t)
    /\ call.op = "check_digits" =>
          \A x, y \in 0..9 :
              LET d == call.base \o <<x, y>>
                  text == [i \in DOMAIN d |-> d[i] + 48]
              IN  IF Len(d) = 11 THEN cpf_valid(d) <=> validate_cpf(text)
                  ELSE cnpj_valid(d) <=> validate_cnpj(text)

\* The positions of a span, and the text as it is once each of some spans is
\* one placeholder and every other character stands as it was given.
Span(f) == f.start..(f.end - 1)
Masked(text, spans) ==
    FlattenSeq([i \in DOMAIN text |->
        IF \E f \in spans : f.start = i THEN Placeholder
        ELSE IF \E f \in spans : i \in Span(f) THEN <<>> ELSE <<text[i]>>])

\* Spans that are kept are findings and do not overlap, and the text is the given
\* one with exactly these replaced. A finding is dropped only for one that is
\* kept and holds its first character, and that starts before it or has at
\* least its priority. So what can stay in the clear of a value that was found is
\* its tail, past the end of the span it was dropped for: resolution goes from
\* the left, and a finding of less priority that starts first wins
\* (resolve_overlaps: "later findings that overlap an already-kept span are
\* dropped"; apply).
FindingsAreMasked ==
    call.op = "redact" =>
        \A raw \in {Raw(call.text, PiiCategory)} :
        \A kept \in {ToSet(resolve_overlaps(raw))} :
            /\ kept \subseteq raw
            /\ \A f, g \in kept : f # g => Span(f) \cap Span(g) = {}
            /\ \A f \in raw : \E k \in kept :
                  /\ f.start \in Span(k)
                  /\ k.start < f.start \/ priority[k.category] >= priority[f.category]
            /\ redact(call.text, PiiCategory) = Masked(call.text, kept)

\* The secrets that are reported do not overlap, and a candidate that is not
\* reported overlaps a reported one that is at least as good (dedup_overlaps);
\* the table of the glob matcher computes the relation globs stand for.
BestSecretsReported ==
    /\ call.op = "detect_secrets" =>
          LET all == Candidates(call.text)
              kept == detect_secrets(call.text)
          IN  /\ \A f, g \in kept : Overlap(f, g) => f = g
              /\ \A f \in all : \E k \in kept :
                    (Overlap(f, k) \/ f = k) /\ Better(k, f)
    /\ call.op = "glob" =>
          (GlobMatches(call.pattern, call.value) <=> GlobMeans(call.pattern, call.value))

\* Little is passed over in silence. A credential file that no exclude pattern
\* names is scanned or listed as skipped although an ignore rule hides it, and
\* files_ignored counts the files that are neither, unless a file is listed
\* twice or a link was followed, either of which hides an ignored file from the
\* count. A file that is not listed as partly examined has all its pack matches
\* reported, save those inside a marker or in a longer run of digits
\* (collect_always_scan, count_ignored, match_all, scan_project). The exceptions
\* to "every file the scan did not examine is accounted for" (lib.rs): a file in
\* a directory the walkers cannot read is neither listed nor counted, and with
\* respect_gitignore off a credential file that a .ignore file hides is only
\* counted, because the second pass does not run.
NothingPassedOver ==
    call.op = "scan" =>
        \A report \in {scan_project(call.tree, call.config, call.packs, call.budget)} :
            LET Skipped(f) == \E s \in report.skipped : s[2] = f
                Twice(f) == {<<"walk", f>>, <<"always", f>>} \subseteq report.skipped
                Within == {f \in call.tree : f.walkable /\ f.regular /\ ~f.git}
                Looked(f) == f \in report.files \/ Skipped(f)
            IN
            /\ \A f \in Within :
                  /\ f.always /\ ~f.excluded /\ call.config.always_scan
                  /\ call.config.respect_gitignore \/ f.ignored # ".ignore"
                  => Looked(f)
            /\ (\A f \in call.tree : f.regular /\ ~Twice(f)) =>
                  report.files_ignored = Cardinality({f \in Within : ~Looked(f)})
            /\ \A f \in report.files : ~Skipped(f) =>
                  \A m \in ToSet(AllMatches(call.packs, f.content)) :
                      \/ is_inside_marker(f.content, m.start)
                      \/ adjacent_to_digits(f.content, m)
                      \/ \E g \in report.findings[f] : g.start = m.start /\ g.end = m.end
=============================================================================
