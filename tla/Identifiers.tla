---------------------------- MODULE Identifiers ----------------------------
(***************************************************************************)
(* The checksums of national identifiers, as crates/sv-patterns/src/       *)
(* validators.rs and crates/sv-privacy/src/lib.rs compute them. Text is a  *)
(* sequence of ASCII codes; the digits of an identifier are a sequence of  *)
(* numbers.                                                                *)
(***************************************************************************)
EXTENDS Integers, Sequences, FiniteSets

\* The sum of F(1), ..., F(n).
SumOf(n, F(_)) ==
    LET s[k \in 0..n] == IF k = 0 THEN 0 ELSE s[k - 1] + F(k) IN s[n]

is_digit(c) == c \in 48..57
Upper(c) == IF c \in 97..122 THEN c - 32 ELSE c
IsLetter(c) == c \in 65..90

Repdigit(d) == \A i \in DOMAIN d : d[i] = d[1]

Without(text, separators) == SelectSeq(text, LAMBDA c : c \notin separators)

\* The digits of a candidate, or <<>> when a character is neither a digit nor a
\* separator; no validator accepts <<>>.
digits_only(text, separators) ==
    LET rest == Without(text, separators) IN
    IF \A i \in DOMAIN rest : is_digit(rest[i])
    THEN [i \in DOMAIN rest |-> rest[i] - 48] ELSE <<>>

-----------------------------------------------------------------------------
(* crates/sv-privacy/src/lib.rs.                                           *)

\* Digits are doubled at every second place from the right.
Doubled(v) == IF 2 * v > 9 THEN 2 * v - 9 ELSE 2 * v

luhn_valid(d) ==
    Len(d) >= 2 /\ SumOf(Len(d), LAMBDA k :
        IF (Len(d) - k) % 2 = 1 THEN Doubled(d[k]) ELSE d[k]) % 10 = 0

cpf_valid(d) ==
    LET check(upto, start) ==
            LET r == (SumOf(upto, LAMBDA k : d[k] * (start - (k - 1))) * 10) % 11
            IN  IF r = 10 THEN 0 ELSE r
    IN  /\ Len(d) = 11 /\ ~Repdigit(d)
        /\ check(9, 10) = d[10] /\ check(10, 11) = d[11]

Weights1 == <<5, 4, 3, 2, 9, 8, 7, 6, 5, 4, 3, 2>>
Weights2 == <<6>> \o Weights1

\* The mod-11 digit with a remainder below 2 mapped to 0.
Mod11Digit(sum) == IF sum % 11 < 2 THEN 0 ELSE 11 - (sum % 11)

Weighted(d, w) == Mod11Digit(SumOf(Len(w), LAMBDA k : d[k] * w[k]))

cnpj_valid(d) ==
    /\ Len(d) = 14 /\ ~Repdigit(d)
    /\ Weighted(d, Weights1) = d[13] /\ Weighted(d, Weights2) = d[14]

-----------------------------------------------------------------------------
(* crates/sv-patterns/src/validators.rs.                                   *)

space == 32
hyphen == 45
dot == 46
slash == 47

validate_luhn(text) == luhn_valid(digits_only(text, {space, hyphen}))

\* A plausible fault: remainder 1 is taken for the check digit 10 and rejected.
Mod11Strict(sum) == IF sum % 11 < 1 THEN 0 ELSE 11 - (sum % 11)

\* The check digit of a CPF in this crate.
CpfDigit(sum) == Mod11Digit(sum)

validate_cpf(text) ==
    LET d == digits_only(text, {dot, hyphen, space})
        check(n, start) == CpfDigit(SumOf(n, LAMBDA k : d[k] * (start - (k - 1))))
    IN  /\ Len(d) = 11 /\ ~Repdigit(d)
        /\ check(9, 10) = d[10] /\ check(10, 11) = d[11]

validate_cnpj(text) ==
    LET d == digits_only(text, {dot, slash, hyphen, space}) IN
    /\ Len(d) = 14 /\ ~Repdigit(d)
    /\ Weighted(SubSeq(d, 1, 12), Weights1) = d[13]
    /\ Weighted(SubSeq(d, 1, 13), <<6>> \o Weights1) = d[14]

\* The remainder mod 97 of the text with its first four characters at the end,
\* a letter read as two digits.
validate_iban(text) ==
    LET kept == Without(text, {space, hyphen})
        s == [i \in DOMAIN kept |-> Upper(kept[i])]
        n == Len(s)
        r == SubSeq(s, 5, n) \o SubSeq(s, 1, 4)
        rem[k \in 0..n] ==
            IF k = 0 THEN 0
            ELSE IF is_digit(r[k]) THEN (rem[k - 1] * 10 + (r[k] - 48)) % 97
            ELSE (rem[k - 1] * 100 + (r[k] - 55)) % 97
    IN  /\ n \in 15..34
        /\ IsLetter(s[1]) /\ IsLetter(s[2]) /\ is_digit(s[3]) /\ is_digit(s[4])
        /\ \A i \in 1..n : is_digit(s[i]) \/ IsLetter(s[i])
        /\ rem[n] = 1

\* Addition in the dihedral group of the pentagon, and the permutation of a
\* position: the tables D and P.
D5(a, b) ==
    IF a < 5 THEN (IF b < 5 THEN (a + b) % 5 ELSE 5 + ((a + b) % 5))
    ELSE (IF b < 5 THEN 5 + ((a - b) % 5) ELSE (a - b) % 5)

P8 == <<<<0, 1, 2, 3, 4, 5, 6, 7, 8, 9>>, <<1, 5, 7, 6, 2, 8, 3, 0, 9, 4>>,
        <<5, 8, 0, 3, 7, 9, 6, 1, 4, 2>>, <<8, 9, 1, 6, 0, 4, 3, 5, 2, 7>>,
        <<9, 4, 5, 3, 1, 2, 6, 8, 7, 0>>, <<4, 2, 8, 6, 5, 7, 3, 9, 0, 1>>,
        <<2, 7, 9, 3, 8, 0, 6, 4, 1, 5>>, <<7, 0, 4, 6, 9, 1, 3, 2, 5, 8>>>>

Permuted(i, v) == P8[(i % 8) + 1][v + 1]

validate_verhoeff(text) ==
    LET d == digits_only(text, {space, hyphen})
        n == Len(d)
        c[k \in 0..n] == IF k = 0 THEN 0
                         ELSE D5(c[k - 1], Permuted(k - 1, d[n + 1 - k]))
    IN  n >= 2 /\ c[n] = 0

\* "TRWAGMYFPDXBNJZSQVHLCKE".
DniLetters == <<84, 82, 87, 65, 71, 77, 89, 70, 80, 68, 88, 66, 78, 74, 90, 83,
                81, 86, 72, 76, 67, 75, 69>>

validate_dni(text) ==
    LET s == Without(text, {space, hyphen})
        number == SumOf(8, LAMBDA k : (s[k] - 48) * 10^(8 - k))
    IN  /\ Len(s) = 9
        /\ \A i \in 1..8 : is_digit(s[i])
        /\ IsLetter(s[9])
        /\ DniLetters[(number % 23) + 1] = s[9]

\* The letters D F I Q U V, and the pairs BG GB NK KN TN NT ZZ.
NinoExcluded == {68, 70, 73, 81, 85, 86}
NinoPairs == {<<66, 71>>, <<71, 66>>, <<78, 75>>, <<75, 78>>, <<84, 78>>,
              <<78, 84>>, <<90, 90>>}

validate_nino(text) ==
    LET kept == Without(text, {space, hyphen})
        s == [i \in DOMAIN kept |-> Upper(kept[i])]
    IN  /\ Len(s) = 9
        /\ IsLetter(s[1]) /\ IsLetter(s[2])
        /\ \/ s[1] = 81 /\ s[2] = 81
           \/ /\ s[1] \notin NinoExcluded \cup {79} /\ s[2] \notin NinoExcluded
              /\ <<s[1], s[2]>> \notin NinoPairs
        /\ \A i \in 3..8 : is_digit(s[i])
        /\ s[9] \in 65..68

validate_steuer_id(text) ==
    LET d == digits_only(text, {})
        Count(v) == Cardinality({i \in 1..10 : d[i] = v})
    IN  /\ Len(d) = 11
        /\ Cardinality({v \in 0..9 : Count(v) = 2}) = 1
        /\ \A v \in 0..9 : Count(v) <= 2

\* The values of '0'..'9' and 'A'..'Z' at odd places.
CfOdd == <<1, 0, 5, 7, 9, 13, 15, 17, 19, 21, 1, 0, 5, 7, 9, 13, 15, 17, 19, 21,
           2, 4, 18, 20, 11, 3, 6, 8, 12, 14, 16, 10, 22, 25, 24, 23>>

validate_codice_fiscale(text) ==
    LET kept == Without(text, {space, hyphen})
        s == [i \in DOMAIN kept |-> Upper(kept[i])]
        Odd(c) == CfOdd[(IF is_digit(c) THEN c - 48 ELSE c - 55) + 1]
        Even(c) == IF is_digit(c) THEN c - 48 ELSE c - 65
    IN  /\ Len(s) = 16
        /\ \A i \in 1..15 : is_digit(s[i]) \/ IsLetter(s[i])
        /\ IsLetter(s[16])
        /\ s[16] = 65 + (SumOf(15, LAMBDA k : IF k % 2 = 1 THEN Odd(s[k])
                                              ELSE Even(s[k])) % 26)

validate(id, text) ==
    CASE id = "luhn" -> validate_luhn(text)
      [] id = "iban" -> validate_iban(text)
      [] id = "verhoeff" -> validate_verhoeff(text)
      [] id = "cpf" -> validate_cpf(text)
      [] id = "cnpj" -> validate_cnpj(text)
      [] id = "dni" -> validate_dni(text)
      [] id = "nino" -> validate_nino(text)
      [] id = "steuer_id" -> validate_steuer_id(text)
      [] id = "codice_fiscale" -> validate_codice_fiscale(text)
      [] OTHER -> TRUE

-----------------------------------------------------------------------------
\* The texts that differ from one in a single digit, and those in which two
\* neighbouring digits are exchanged.
Mistyped(text) ==
    {[text EXCEPT ![i] = c] : i \in {k \in DOMAIN text : is_digit(text[k])}, c \in 48..57}
        \ {text}

Swapped(text) ==
    {[text EXCEPT ![i] = text[i + 1], ![i + 1] = text[i]] :
        i \in {k \in 1..(Len(text) - 1) : is_digit(text[k]) /\ is_digit(text[k + 1])}}
        \ {text}
=============================================================================
