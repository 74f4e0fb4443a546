------------------------------ MODULE Vercomp ------------------------------
(***************************************************************************)
(* Version comparison: vercmp of pextlib1.0/vercomp.c, which the Tcl layer *)
(* calls (upgrade, outdated, the choice of the newest port), and its copy  *)
(* in cregistry/vercomp.c, the VERSION collation of the registry database. *)
(*                                                                         *)
(* A version is a sequence of characters: 0 .. 9 are the digits, larger    *)
(* numbers are letters in their order, Separator stands for any other.     *)
(***************************************************************************)
EXTENDS Integers, Sequences, FiniteSets

Separator == -1
IsDigit(c) == c \in 0 .. 9
IsAlpha(c) == c > 9

First(s) == IF s = <<>> THEN Separator ELSE Head(s)

(* The longest prefix whose characters satisfy P, and what follows it.     *)
RunLength(s, P(_)) ==
    CHOOSE n \in 0 .. Len(s) :
        /\ \A i \in 1 .. n : P(s[i])
        /\ n < Len(s) => ~P(s[n + 1])
Taken(s, P(_)) == SubSeq(s, 1, RunLength(s, P))
Dropped(s, P(_)) == SubSeq(s, RunLength(s, P) + 1, Len(s))

SkipSeparators(s) == Dropped(s, LAMBDA c : c = Separator)

SkipZeros(s) == Dropped(s, LAMBDA c : c = 0)

(* The first difference of the common part, or 0.                          *)
Lexicographic(s, t) ==
    LET m == IF Len(s) < Len(t) THEN Len(s) ELSE Len(t)
        differ == {i \in 1 .. m : s[i] # t[i]}
    IN  IF differ = {} THEN 0
        ELSE LET i == CHOOSE i \in differ : \A j \in differ : i <= j
             IN  IF s[i] < t[i] THEN -1 ELSE 1

(* Mutant: numbers are compared without their length.                      *)
NumbersByDigit(s, t) == Lexicographic(SkipZeros(s), SkipZeros(t))

(* Digit segments: the one with more digits is greater.                    *)
Numbers(s, t) ==
    LET a == SkipZeros(s)
        b == SkipZeros(t)
    IN  IF Len(a) > Len(b) THEN 1
        ELSE IF Len(b) > Len(a) THEN -1
        ELSE Lexicographic(a, b)

(* One segment of each, separators already skipped.                        *)
Segment(a, b) ==
    IF IsDigit(First(a)) /\ ~IsDigit(First(b)) THEN 1
    ELSE IF IsAlpha(First(a)) /\ IsDigit(First(b)) THEN -1
    ELSE IF IsAlpha(First(a)) THEN Lexicographic(Taken(a, IsAlpha), Taken(b, IsAlpha))
    ELSE Numbers(Taken(a, IsDigit), Taken(b, IsDigit))

(* After the loop: the version with unchecked characters is the newer one. *)
Remainder(a, b) == IF a = b THEN 0 ELSE IF a # <<>> THEN 1 ELSE -1

RECURSIVE Walk(_, _)
Walk(versionA, versionB) ==
    IF versionA = <<>> \/ versionB = <<>> THEN Remainder(versionA, versionB)
    ELSE LET a == SkipSeparators(versionA)
             b == SkipSeparators(versionB)
             P(c) == IF IsAlpha(First(a)) THEN IsAlpha(c) ELSE IsDigit(c)
         IN  IF Segment(a, b) # 0 THEN Segment(a, b)
             ELSE Walk(Dropped(a, P), Dropped(b, P))

(* vercmp: 1, 0 or -1 for a positive, zero or negative result.             *)
Compare(versionA, versionB) ==
    IF versionA = versionB THEN 0 ELSE Walk(versionA, versionB)

-----------------------------------------------------------------------------
(* Reference: the segments of a version, numbers by value.                 *)
RECURSIVE Value(_)
Value(digits) ==
    IF digits = <<>> THEN 0
    ELSE 10 * Value(SubSeq(digits, 1, Len(digits) - 1)) + digits[Len(digits)]

RECURSIVE Segments(_)
Segments(version) ==
    LET v == SkipSeparators(version)
        letters == IsAlpha(First(v))
        P(c) == IF letters THEN IsAlpha(c) ELSE IsDigit(c)
    IN  IF v = <<>> THEN <<>>
        ELSE << IF letters THEN [letters |-> Taken(v, P)]
                           ELSE [number |-> Value(Taken(v, P))] >>
             \o Segments(Dropped(v, P))

IsNumber(segment) == "number" \in DOMAIN segment

(* A number is newer than letters, numbers compare by value, letters by    *)
(* their first difference.                                                 *)
Newer(x, y) ==
    CASE IsNumber(x) /\ IsNumber(y) -> x.number > y.number
      [] IsNumber(x) /\ ~IsNumber(y) -> TRUE
      [] ~IsNumber(x) /\ IsNumber(y) -> FALSE
      [] OTHER -> Lexicographic(x.letters, y.letters) = 1

IsPrefixOf(s, t) == Len(s) <= Len(t) /\ SubSeq(t, 1, Len(s)) = s

(* a is newer than b: at the first segment where they differ, or because   *)
(* it has more of them.                                                    *)
NewerVersion(a, b) ==
    LET s == Segments(a)
        t == Segments(b)
    IN  \/ \E i \in DOMAIN s \cap DOMAIN t :
              /\ \A j \in 1 .. i - 1 : s[j] = t[j]
              /\ Newer(s[i], t[i])
        \/ IsPrefixOf(t, s) /\ s # t

(* Two versions are comparable when neither ends in a separator and no     *)
(* letters of one are a proper prefix of letters of the other.             *)
Clean(v) == v # <<>> => v[Len(v)] # Separator
Letters(v) == {Segments(v)[i].letters :
                 i \in {i \in DOMAIN Segments(v) : ~IsNumber(Segments(v)[i])}}
Comparable(a, b) ==
    /\ Clean(a) /\ Clean(b)
    /\ \A x \in Letters(a), y \in Letters(b) : IsPrefixOf(x, y) \/ IsPrefixOf(y, x) => x = y
=============================================================================
