-------------------------------- MODULE Glob --------------------------------
(***************************************************************************)
(* The glob matcher of policy selectors (crates/sv-runtime/src/policy/     *)
(* glob.rs): the table that matches fills from the end of the pattern and  *)
(* of the value, and a definition of the same relation to compare it with. *)
(* A pattern and a value are sequences of characters.                      *)
(***************************************************************************)
EXTENDS Naturals, Sequences

is_sep(c) == c \in {"/", "."}

\* The first position a single star may end at.
StarEnds(j) == j + 1

\* dp[i, j] of matches: whether the pattern from i matches the value from j,
\* positions counted from 1. A star takes one or more characters that are not
\* separators, two stars take anything.
GlobMatches(p, v) ==
    LET pl == Len(p)
        vl == Len(v)
        dp[i \in 1..(pl + 2), j \in 1..(vl + 1)] ==
            CASE i > pl -> i = pl + 1 /\ j = vl + 1
              [] i < pl /\ p[i] = "*" /\ p[i + 1] = "*" ->
                    \E t \in j..(vl + 1) : dp[i + 2, t]
              [] i <= pl /\ p[i] = "*" /\ ~(i < pl /\ p[i + 1] = "*") ->
                    /\ j <= vl
                    /\ \E t \in StarEnds(j)..(vl + 1) :
                          /\ \A k \in j..(t - 1) : ~is_sep(v[k])
                          /\ dp[i + 1, t]
              [] OTHER -> j <= vl /\ p[i] = v[j] /\ dp[i + 1, j + 1]
    IN  dp[1, 1]

-----------------------------------------------------------------------------
\* The positions of a pattern that start a token; two stars in a row are one.
Starts(p) ==
    LET start[i \in 0..Len(p)] ==
            IF i = 0 THEN FALSE
            ELSE ~(i > 1 /\ p[i] = "*" /\ p[i - 1] = "*" /\ start[i - 1])
    IN  {i \in 1..Len(p) : start[i]}

\* Which characters a token starting at i may stand for.
Takes(p, i, s) ==
    IF p[i] # "*" THEN s = <<p[i]>>
    ELSE IF i + 1 \in DOMAIN p /\ i + 1 \notin Starts(p) THEN TRUE
    ELSE s # <<>> /\ \A k \in DOMAIN s : ~is_sep(s[k])

\* The value is cut into one piece per token, each of which its token takes.
GlobMeans(p, v) ==
    LET S == Starts(p)
        n == Len(v)
        Cut == [S -> 0..n]     \* where the piece of a token ends
        End(c, i) == IF \E k \in S : k < i
                     THEN c[CHOOSE k \in S : k < i /\ \A q \in S : q < i => q <= k]
                     ELSE 0
    IN  IF S = {} THEN v = <<>>
        ELSE \E c \in Cut :
            /\ \A i \in S : /\ End(c, i) <= c[i]
                            /\ Takes(p, i, SubSeq(v, End(c, i) + 1, c[i]))
            /\ c[CHOOSE k \in S : \A q \in S : q <= k] = n
=============================================================================
