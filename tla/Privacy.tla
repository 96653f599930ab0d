------------------------------- MODULE Privacy -------------------------------
(***************************************************************************)
(* The privacy filter (crates/sv-privacy/src/lib.rs): the detectors, the   *)
(* resolution of overlaps and the rewriting of the text. A text is a       *)
(* sequence of ASCII codes, positions count from 1, and the end of a       *)
(* finding is the position after its last character.                       *)
(***************************************************************************)
EXTENDS Identifiers

at == 64
plus == 43
open == 40
close == 41

priority ==
    [Cnpj |-> 6, Cpf |-> 5, CreditCard |-> 4, Email |-> 3, Ipv4 |-> 2, Phone |-> 1,
     Ssn |-> 2]

PiiCategory == DOMAIN priority

\* Classes of characters.
digits == 48..57
letters == 65..90 \cup 97..122
email_local == digits \cup letters \cup {dot, 95, 37, plus, hyphen}
email_domain == digits \cup letters \cup {dot, hyphen}
phone_chars == digits \cup {space, hyphen, dot, open, close}

\* Position i of the text is outside it, or neither a digit nor one of extra.
Bounded(b, i, extra) ==
    i \in DOMAIN b => ~is_digit(b[i]) /\ b[i] # extra

is_number_boundary(b, i) == Bounded(b, i, dot)
is_ssn_boundary(b, i) == Bounded(b, i, hyphen)

\* The end of the run of characters of a class that starts at i.
RunEnd(b, i, class) ==
    CHOOSE j \in i..(Len(b) + 1) :
        /\ j \in DOMAIN b => b[j] \notin class
        /\ \A k \in i..(j - 1) : b[k] \in class

\* The start of the run of characters of a class that ends before i.
RunStart(b, i, class) ==
    CHOOSE j \in 1..i :
        /\ j > 1 => b[j - 1] \notin class
        /\ \A k \in j..(i - 1) : b[k] \in class

\* The loop all detectors share: found[i] is the finding at position i, its start
\* and end, or <<>>; the scan goes on after a finding, else at the next place.
Scanned(b, category, found) ==
    LET n == Len(b)
        from[i \in 1..(n + 1)] ==
            IF i > n THEN {}
            ELSE LET f == found[i] IN
                 IF f = <<>> THEN from[i + 1]
                 ELSE {[category |-> category, start |-> f[1], end |-> f[2]]} \cup from[f[2]]
    IN  from[1]

-----------------------------------------------------------------------------
(* The detectors.                                                          *)

valid_email_domain(d) ==
    /\ d # <<>> /\ d[1] # dot
    /\ \E k \in DOMAIN d :
          /\ d[k] = dot
          /\ Len(d) - k >= 2
          /\ \A j \in (k + 1)..Len(d) : d[j] \in letters

\* The end of the domain after the @ at i, trailing dots and hyphens trimmed.
EmailEnd(b, i) ==
    LET run == RunEnd(b, i + 1, email_domain) IN
    CHOOSE e \in (i + 1)..run :
        /\ e > i + 1 => b[e - 1] \notin {dot, hyphen}
        /\ \A k \in e..(run - 1) : b[k] \in {dot, hyphen}

find_emails(b) ==
    Scanned(b, "Email", [i \in DOMAIN b |->
        IF b[i] # at THEN <<>>
        ELSE LET s == RunStart(b, i, email_local)
                 e == EmailEnd(b, i)
             IN  IF s < i /\ valid_email_domain(SubSeq(b, i + 1, e - 1))
                 THEN <<s, e>> ELSE <<>>])

\* The octets of a dotted quad at i: where each ends, or 0. An octet has at
\* most three digits, no leading zero and a value up to 255.
QuadEnd(b, i) ==
    LET Digits(e) == LET r == RunEnd(b, e, digits) IN IF r - e > 3 THEN e + 3 ELSE r
        Value(s, e) == SumOf(e - s, LAMBDA k : (b[s + k - 1] - 48) * 10^(e - s - k))
        ends[o \in 0..4] ==
            IF o = 0 THEN i
            ELSE LET p == ends[o - 1]
                     s == IF o = 1 THEN p
                          ELSE IF p # 0 /\ p \in DOMAIN b THEN
                              (IF b[p] = dot THEN p + 1 ELSE 0) ELSE 0
                 IN  IF s = 0 THEN 0
                     ELSE LET e == Digits(s) IN
                          IF e = s \/ Value(s, e) > 255 \/ (e - s > 1 /\ b[s] = 48)
                          THEN 0 ELSE e
    IN  ends[4]

find_ipv4(b) ==
    Scanned(b, "Ipv4", [i \in DOMAIN b |->
        IF ~is_digit(b[i]) \/ ~is_number_boundary(b, i - 1) THEN <<>>
        ELSE LET e == QuadEnd(b, i) IN
             IF e # 0 /\ is_number_boundary(b, e) THEN <<i, e>> ELSE <<>>])

\* The digits collected from i on, at most max of them, with single separators
\* between digits, and where the collection ends.
collect_grouped_digits(b, i, max) ==
    LET n == Len(b)
        from[e \in i..(n + 1), k \in 0..max] ==
            IF e > n \/ k = max THEN <<<<>>, e>>
            ELSE IF is_digit(b[e])
            THEN LET r == from[e + 1, k + 1] IN <<<<b[e] - 48>> \o r[1], r[2]>>
            ELSE IF /\ b[e] \in {space, dot, hyphen, slash}
                    /\ e < n /\ k > 0
            THEN (IF is_digit(b[e + 1]) THEN from[e + 1, k] ELSE <<<<>>, e>>)
            ELSE <<<<>>, e>>
    IN  from[i, 0]

\* The checksum a detector of grouped digits is given.
IdValid(category, d) ==
    CASE category = "Cpf" -> cpf_valid(d)
      [] category = "Cnpj" -> cnpj_valid(d)
      [] category = "CreditCard" -> luhn_valid(d)

find_checked_id(b, lengths, max, category) ==
    Scanned(b, category, [i \in DOMAIN b |->
        IF ~is_digit(b[i]) \/ ~is_number_boundary(b, i - 1) THEN <<>>
        ELSE LET r == collect_grouped_digits(b, i, max) IN
             IF /\ Len(r[1]) \in lengths
                /\ is_number_boundary(b, r[2])
                /\ IdValid(category, r[1])
             THEN <<i, r[2]>> ELSE <<>>])

find_cpf(b) == find_checked_id(b, {11}, 11, "Cpf")
find_cnpj(b) == find_checked_id(b, {14}, 14, "Cnpj")
find_credit_cards(b) == find_checked_id(b, 13..19, 19, "CreditCard")

find_phones(b) ==
    Scanned(b, "Phone", [i \in DOMAIN b |->
        IF b[i] \notin {plus, open} \/ ~is_number_boundary(b, i - 1) THEN <<>>
        ELSE LET run == RunEnd(b, i + 1, phone_chars)
                 number == {k \in (i + 1)..(run - 1) : is_digit(b[k])}
                 closed == \E k \in (i + 1)..(run - 1) : b[k] = close
             IN  IF Cardinality(number) \in 10..13 /\ (b[i] = open => closed)
                 THEN <<i, 1 + (CHOOSE k \in number : \A j \in number : j <= k)>>
                 ELSE <<>>])

find_ssns(b) ==
    Scanned(b, "Ssn", [i \in DOMAIN b |->
        IF /\ is_digit(b[i]) /\ is_ssn_boundary(b, i - 1)
           /\ i + 10 <= Len(b)
           /\ \A k \in 0..10 : IF k \in {3, 6} THEN b[i + k] = hyphen ELSE is_digit(b[i + k])
           /\ is_ssn_boundary(b, i + 11)
        THEN <<i, i + 11>> ELSE <<>>])

\* All detectors of the enabled categories.
Raw(b, categories) ==
    {f \in UNION {find_emails(b), find_ipv4(b), find_cpf(b), find_cnpj(b),
                  find_credit_cards(b), find_phones(b), find_ssns(b)} :
        f.category \in categories}

-----------------------------------------------------------------------------
(* Overlaps and rewriting.                                                 *)

\* The order of sort_by: start, then priority, then length.
Before(f, g) ==
    \/ f.start < g.start
    \/ f.start = g.start /\ priority[f.category] > priority[g.category]
    \/ /\ f.start = g.start /\ priority[f.category] = priority[g.category]
       /\ f.end >= g.end

\* A plausible fault: a finding is kept although it starts inside the last one.
Reaches(f, last) == f.end > last

\* A finding is kept when it starts at or after the end of the last one kept.
Clear(f, last) == f.start >= last

\* The findings kept from the left, last being the end of the one kept before.
resolve_overlaps(raw) ==
    LET keep[rest \in SUBSET raw, last \in {0} \cup {f.end : f \in raw}] ==
            IF rest = {} THEN <<>>
            ELSE LET f == CHOOSE x \in rest : \A y \in rest : Before(x, y) IN
                 IF Clear(f, last)
                 THEN <<f>> \o keep[rest \ {f}, f.end]
                 ELSE keep[rest \ {f}, last]
    IN  keep[raw, 0]

pii_scan(b, categories) == resolve_overlaps(Raw(b, categories))

\* "[REDACTED:" and "]" around a label.
Placeholder == <<91, 82, 58, 76, 93>>

\* The text between the findings, and a placeholder for each.
apply(b, findings) ==
    LET n == Len(findings)
        from[k \in 0..n] ==      \* the text from the end of finding k on
            LET cursor == IF k = 0 THEN 1 ELSE findings[k].end IN
            IF k = n THEN SubSeq(b, cursor, Len(b))
            ELSE SubSeq(b, cursor, findings[k + 1].start - 1) \o Placeholder \o from[k + 1]
    IN  from[0]

redact(b, categories) == apply(b, pii_scan(b, categories))
=============================================================================
