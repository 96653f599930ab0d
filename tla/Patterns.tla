------------------------------ MODULE Patterns ------------------------------
(***************************************************************************)
(* Jurisdiction pattern packs (crates/sv-patterns): the checks a pack      *)
(* passes when it is loaded, and the matching of packs under a budget.     *)
(*                                                                         *)
(* Regular expressions are external: an expression is the length of the    *)
(* digit runs it finds, one of a family that shows what matters here, that *)
(* a match may be a part of the text it is found in.                       *)
(***************************************************************************)
EXTENDS Identifiers, SequencesExt

CONSTANTS
    MaxRules,        \* MAX_RULES_PER_PACK
    MaxPacks         \* MAX_ENABLED_PACKS

-----------------------------------------------------------------------------
(* The regex crate: leftmost matches that do not overlap.                  *)

\* The matches of a run of n digits in a text, as <<start, end>> pairs.
find_iter(n, text) ==
    LET size == Len(text)
        DigitsAt(i) == i + n - 1 <= size /\ \A k \in i..(i + n - 1) : is_digit(text[k])
        from[i \in 1..(size + n)] ==
            IF i > size THEN <<>>
            ELSE IF DigitsAt(i) THEN <<<<i, i + n>>>> \o from[i + n]
            ELSE from[i + 1]
    IN  from[1]

is_match(n, text) == find_iter(n, text) # <<>>

-----------------------------------------------------------------------------
(* PatternPack::validate.                                                  *)

ValidExample(rule, text) == is_match(rule.pattern, text) /\ validate(rule.validator, text)

\* The validator judges the whole example, not the part that matched.
InvalidExampleMatched(rule, text) ==
    /\ is_match(rule.pattern, text)
    /\ ~(rule.validator # "none" /\ ~validate(rule.validator, text))

\* The error of the first check that fails for a rule, or Ok.
RuleVerdict(rule, earlier) ==
    CASE ~rule.named -> "InvalidRuleName"
      [] rule.named /\ rule.name \in earlier -> "DuplicateRuleName"
      [] rule.named /\ rule.name \notin earlier /\ rule.pattern = 0 -> "PatternCompile"
      [] OTHER ->
           IF rule.examples_valid = {} THEN "EmptyValidExamples"
           ELSE IF \E t \in rule.examples_valid : ~ValidExample(rule, t)
           THEN "ValidExampleFailed"
           ELSE IF \E t \in rule.examples_invalid : InvalidExampleMatched(rule, t)
           THEN "InvalidExampleMatched"
           ELSE "Ok"

\* The first verdict that is an error, or Ok.
FirstError(verdicts) ==
    LET bad == {i \in DOMAIN verdicts : verdicts[i] # "Ok"} IN
    IF bad = {} THEN "Ok" ELSE verdicts[CHOOSE i \in bad : \A j \in bad : i <= j]

PackVerdict(pack) ==
    CASE pack.schema # 1 -> "InvalidSchema"
      [] pack.schema = 1 /\ ~pack.named -> "InvalidPackId"
      [] pack.schema = 1 /\ pack.named /\ pack.rules = <<>> -> "EmptyRules"
      [] pack.schema = 1 /\ pack.named /\ Len(pack.rules) > MaxRules -> "TooManyRules"
      [] OTHER -> FirstError(
             [i \in DOMAIN pack.rules |->
                 RuleVerdict(pack.rules[i], {pack.rules[j].name : j \in 1..(i - 1)})])

-----------------------------------------------------------------------------
(* match_all. A text is examined up to max_input_bytes of it.              *)

PatternMatches(pack, rule, found) ==
    [k \in DOMAIN found |->
        [pack_id |-> pack.id, rule_id |-> rule.name, start |-> found[k][1],
         end |-> found[k][2], confidence |-> rule.confidence]]

\* The candidates of one rule that its validator accepts, in order.
RuleMatches(pack, rule, text) ==
    PatternMatches(pack, rule,
        SelectSeq(find_iter(rule.pattern, text),
            LAMBDA m : validate(rule.validator, SubSeq(text, m[1], m[2] - 1))))

\* All candidates in the order of the loops: packs, rules, positions.
AllMatches(packs, text) ==
    FlattenSeq([p \in DOMAIN packs |->
        FlattenSeq([r \in DOMAIN packs[p].rules |->
            RuleMatches(packs[p], packs[p].rules[r], text)])])

Truncated(packs, text, budget, found) ==
    \/ Len(packs) > MaxPacks
    \/ Len(text) > budget.max_input_bytes
    \/ Len(found) >= budget.max_matches

\* The first n elements of s, or all of them.
First(s, n) == SubSeq(s, 1, IF Len(s) > n THEN n ELSE Len(s))

\* The matches without their final order, and whether a budget ran out.
match_all(packs, text, budget) ==
    LET found == AllMatches(First(packs, MaxPacks), First(text, budget.max_input_bytes))
    IN  [matches |-> ToSet(First(found, budget.max_matches)),
         truncated |-> Truncated(packs, text, budget, found)]
=============================================================================
