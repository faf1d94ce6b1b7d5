------------------------------ MODULE RelayProofs -----------------------------
(***************************************************************************)
(* For any requests, any bodies and any limits: what Classify takes apart  *)
(* is what the table of the README puts together; no two requests ever     *)
(* have one buffer, which is why replies do not mix; and the verdict on a  *)
(* body is the verdict on all of it.                                       *)
(***************************************************************************)
EXTENDS Relay, SequenceTheorems, FiniteSetTheorems, TLAPS

\* A set of numbers with 0 and the successor of each member has all of them: adding
\* 1 below a number it lacks would map a finite set into a smaller one.
LEMMA SetInduction ==
    ASSUME NEW S \in SUBSET Nat, 0 \in S, \A n \in S : n + 1 \in S
    PROVE  S = Nat
<1> SUFFICES ASSUME NEW m \in Nat, m \notin S PROVE FALSE OBVIOUS
<1> DEFINE T == {x \in S : x <= m}
           U == T \ {0}
           f == [x \in T |-> x + 1]
<1>1. IsFiniteSet(T) BY FS_BoundedSetOfNaturals
<1>2. IsFiniteSet(U) /\ Cardinality(U) = Cardinality(T) - 1
  BY <1>1, FS_RemoveElement, 0 \in T
<1>3. Cardinality(U) < Cardinality(T) BY <1>1, <1>2, FS_CardinalityType
<1>4. f \in [T -> U]
  <2> SUFFICES ASSUME NEW x \in T PROVE x + 1 \in U OBVIOUS
  <2>1. x # m OBVIOUS
  <2> QED BY <2>1
<1>5. PICK x, y \in T : x # y /\ f[x] = f[y]
  <2> HIDE DEF T, U, f
  <2> QED BY <1>1, <1>2, <1>3, <1>4, FS_PigeonHole
<1> QED BY <1>5

\* Numbers have a least one.
LEMMA Least == \A S \in SUBSET Nat : S # {} => \E m \in S : \A j \in S : m <= j
<1> SUFFICES ASSUME NEW S \in SUBSET Nat, ~\E m \in S : \A j \in S : m <= j PROVE S = {}
  OBVIOUS
<1> DEFINE T == {n \in Nat : \A j \in S : n <= j}
<1>1. 0 \in T OBVIOUS
<1>2. \A n \in T : n + 1 \in T OBVIOUS
<1>3. T = Nat
  <2> HIDE DEF T
  <2> QED BY <1>1, <1>2, SetInduction DEF T
<1>4. \A j \in S : j + 1 \in T BY <1>3
<1> QED BY <1>4

-----------------------------------------------------------------------------
(* Strings of symbols.                                                     *)

Text == Seq(Symbols)

\* Two texts are one when they have one length and the same symbols.
LEMMA SameText ==
    \A s, t \in Text : Len(s) = Len(t) /\ (\A i \in 1..Len(s) : s[i] = t[i]) => s = t
BY SeqEqual DEF Text

LEMMA TextLen == \A s \in Text : Len(s) \in Nat /\ DOMAIN s = 1..Len(s)
                                    /\ \A i \in 1..Len(s) : s[i] \in Symbols
BY LenProperties, ElementOfSeq DEF Text

LEMMA TextJoin ==
    \A s, t \in Text :
        /\ s \o t \in Text
        /\ Len(s \o t) = Len(s) + Len(t)
        /\ \A i \in 1..Len(s) : (s \o t)[i] = s[i]
        /\ \A i \in (Len(s) + 1)..(Len(s) + Len(t)) : (s \o t)[i] = t[i - Len(s)]
<1> SUFFICES ASSUME NEW s \in Text, NEW t \in Text
             PROVE  /\ s \o t \in Text
                    /\ Len(s \o t) = Len(s) + Len(t)
                    /\ \A i \in 1..Len(s) : (s \o t)[i] = s[i]
                    /\ \A i \in (Len(s) + 1)..(Len(s) + Len(t)) : (s \o t)[i] = t[i - Len(s)]
  OBVIOUS
<1>1. /\ s \o t \in Text
      /\ Len(s \o t) = Len(s) + Len(t)
      /\ \A i \in 1..Len(s) + Len(t) : (s \o t)[i] = IF i <= Len(s) THEN s[i] ELSE t[i - Len(s)]
  BY ConcatProperties DEF Text
<1> QED BY <1>1, TextLen

\* Three texts in a row.
LEMMA TextThree ==
    \A a, b, c \in Text :
        LET all == (a \o b) \o c IN
        /\ all \in Text /\ Len(all) = Len(a) + Len(b) + Len(c)
        /\ \A i \in 1..Len(a) : all[i] = a[i]
        /\ \A i \in 1..Len(b) : all[Len(a) + i] = b[i]
        /\ \A i \in 1..Len(c) : all[Len(a) + Len(b) + i] = c[i]
<1> SUFFICES ASSUME NEW a \in Text, NEW b \in Text, NEW c \in Text
             PROVE  LET all == (a \o b) \o c IN
                    /\ all \in Text /\ Len(all) = Len(a) + Len(b) + Len(c)
                    /\ \A i \in 1..Len(a) : all[i] = a[i]
                    /\ \A i \in 1..Len(b) : all[Len(a) + i] = b[i]
                    /\ \A i \in 1..Len(c) : all[Len(a) + Len(b) + i] = c[i]
  OBVIOUS
<1> DEFINE h == a \o b
           all == h \o c
<1>1. Len(a) \in Nat /\ Len(b) \in Nat /\ Len(c) \in Nat BY TextLen
<1>2. /\ h \in Text /\ Len(h) = Len(a) + Len(b)
      /\ \A i \in 1..Len(a) : h[i] = a[i]
      /\ \A i \in (Len(a) + 1)..(Len(a) + Len(b)) : h[i] = b[i - Len(a)]
  BY TextJoin
<1> HIDE DEF h
<1>3. /\ all \in Text /\ Len(all) = Len(h) + Len(c)
      /\ \A i \in 1..Len(h) : all[i] = h[i]
      /\ \A i \in (Len(h) + 1)..(Len(h) + Len(c)) : all[i] = c[i - Len(h)]
  BY <1>2, TextJoin
<1> HIDE DEF all
<1>4. ASSUME NEW i \in 1..Len(b) PROVE all[Len(a) + i] = b[i]
  <2> DEFINE j == Len(a) + i
  <2>1. j \in 1..Len(h) /\ j \in (Len(a) + 1)..(Len(a) + Len(b)) /\ j - Len(a) = i
    BY <1>1, <1>2
  <2> HIDE DEF j
  <2>2. all[j] = h[j] BY <1>3, <2>1
  <2>3. h[j] = b[j - Len(a)] BY <1>2, <2>1
  <2> QED BY <2>1, <2>2, <2>3 DEF j
<1>5. ASSUME NEW i \in 1..Len(c) PROVE all[Len(a) + Len(b) + i] = c[i]
  <2> DEFINE j == Len(a) + Len(b) + i
  <2>1. j \in (Len(h) + 1)..(Len(h) + Len(c)) /\ j - Len(h) = i BY <1>1, <1>2
  <2> HIDE DEF j
  <2>2. all[j] = c[j - Len(h)] BY <1>3, <2>1
  <2> QED BY <2>1, <2>2 DEF j
<1>6. \A i \in 1..Len(a) : i \in 1..Len(h) BY <1>1, <1>2
<1>7. /\ all \in Text /\ Len(all) = Len(a) + Len(b) + Len(c)
      /\ \A i \in 1..Len(a) : all[i] = a[i]
      /\ \A i \in 1..Len(b) : all[Len(a) + i] = b[i]
      /\ \A i \in 1..Len(c) : all[Len(a) + Len(b) + i] = c[i]
  BY <1>2, <1>3, <1>4, <1>5, <1>6
<1> QED BY <1>7 DEF all, h

\* A part of a text.
LEMMA TextPart ==
    \A s \in Text : \A m \in 1..(Len(s) + 1) : \A n \in (m - 1)..Len(s) :
        /\ SubSeq(s, m, n) \in Text
        /\ Len(SubSeq(s, m, n)) = n - m + 1
        /\ \A i \in 1..(n - m + 1) : SubSeq(s, m, n)[i] = s[m + i - 1]
<1> SUFFICES ASSUME NEW s \in Text, NEW m \in 1..(Len(s) + 1), NEW n \in (m - 1)..Len(s)
             PROVE  /\ SubSeq(s, m, n) \in Text
                    /\ Len(SubSeq(s, m, n)) = n - m + 1
                    /\ \A i \in 1..(n - m + 1) : SubSeq(s, m, n)[i] = s[m + i - 1]
  OBVIOUS
<1>1. Len(s) \in Nat /\ \A i \in 1..Len(s) : s[i] \in Symbols BY TextLen
<1>2. m \in Int /\ n \in Int /\ \A i \in m..n : s[i] \in Symbols BY <1>1
<1>3. /\ SubSeq(s, m, n) \in Seq(Symbols)
      /\ Len(SubSeq(s, m, n)) = IF m <= n THEN n - m + 1 ELSE 0
      /\ \A i \in 1..n - m + 1 : SubSeq(s, m, n)[i] = s[m + i - 1]
  BY <1>2, SubSeqProperties
<1> QED BY <1>1, <1>2, <1>3 DEF Text

LEMMA TextPrefix ==
    \A s, t \in Text : IsPrefix(s, t) <=> Len(s) <= Len(t) /\ \A i \in 1..Len(s) : s[i] = t[i]
<1> SUFFICES ASSUME NEW s \in Text, NEW t \in Text, Len(s) <= Len(t)
             PROVE  SubSeq(s, 1, Len(s)) = SubSeq(t, 1, Len(s))
                      <=> \A i \in 1..Len(s) : s[i] = t[i]
  BY DEF IsPrefix
<1>1. Len(s) \in Nat /\ Len(t) \in Nat BY TextLen
<1>2. SubSeq(s, 1, Len(s)) = s BY SubSeqFull DEF Text
<1> DEFINE u == SubSeq(t, 1, Len(s))
<1>3. u \in Text /\ Len(u) = Len(s) /\ \A i \in 1..Len(s) : u[i] = t[i]
  <2>1. 1 \in 1..(Len(t) + 1) /\ Len(s) \in (1 - 1)..Len(t) BY <1>1
  <2>2. /\ u \in Text /\ Len(u) = Len(s) - 1 + 1
        /\ \A i \in 1..(Len(s) - 1 + 1) : u[i] = t[1 + i - 1]
    BY <2>1, TextPart
  <2> QED BY <2>2, <1>1
<1> HIDE DEF u
<1> QED BY <1>2, <1>3, SameText DEF u

LEMMA TextReverse ==
    \A s \in Text : /\ Reverse(s) \in Text /\ Len(Reverse(s)) = Len(s)
                    /\ \A i \in 1..Len(s) : Reverse(s)[i] = s[Len(s) - i + 1]
<1> SUFFICES ASSUME NEW s \in Text
             PROVE  /\ Reverse(s) \in Text /\ Len(Reverse(s)) = Len(s)
                    /\ \A i \in 1..Len(s) : Reverse(s)[i] = s[Len(s) - i + 1]
  OBVIOUS
<1>1. Len(s) \in Nat /\ \A i \in 1..Len(s) : s[i] \in Symbols BY TextLen
<1>2. Reverse(s) = [i \in 1..Len(s) |-> s[(Len(s) - i) + 1]] BY DEF Reverse
<1>3. \A i \in 1..Len(s) : (Len(s) - i) + 1 \in 1..Len(s) BY <1>1
<1>4. Reverse(s) \in [1..Len(s) -> Symbols] BY <1>1, <1>2, <1>3
<1>5. Reverse(s) \in Seq(Symbols) BY <1>1, <1>4, SeqDef
<1>6. Len(Reverse(s)) = Len(s)
  <2>1. DOMAIN Reverse(s) = 1..Len(Reverse(s)) /\ Len(Reverse(s)) \in Nat
    BY <1>5, LenProperties
  <2>2. 1..Len(Reverse(s)) = 1..Len(s) BY <2>1, <1>4
  <2> QED BY <2>1, <2>2, <1>1
<1> QED BY <1>2, <1>5, <1>6 DEF Text

LEMMA TextSuffix ==
    \A s, t \in Text : IsSuffix(s, t)
        <=> Len(s) <= Len(t) /\ \A i \in 1..Len(s) : s[i] = t[Len(t) - Len(s) + i]
<1> SUFFICES ASSUME NEW s \in Text, NEW t \in Text
             PROVE  IsSuffix(s, t)
                      <=> Len(s) <= Len(t) /\ \A i \in 1..Len(s) : s[i] = t[Len(t) - Len(s) + i]
  OBVIOUS
<1>1. Len(s) \in Nat /\ Len(t) \in Nat BY TextLen
<1>2. IsSuffix(s, t) <=> Len(s) <= Len(t)
                           /\ \A i \in 1..Len(s) : s[Len(s) - i + 1] = t[Len(t) - i + 1]
  BY <1>1, TextPrefix, TextReverse DEF IsSuffix
<1>3. ASSUME Len(s) <= Len(t), \A i \in 1..Len(s) : s[Len(s) - i + 1] = t[Len(t) - i + 1],
             NEW i \in 1..Len(s)
      PROVE  s[i] = t[Len(t) - Len(s) + i]
  <2>1. Len(s) - i + 1 \in 1..Len(s) /\ Len(s) - (Len(s) - i + 1) + 1 = i
          /\ Len(t) - (Len(s) - i + 1) + 1 = Len(t) - Len(s) + i
    BY <1>1
  <2> QED BY <1>3, <2>1
<1>4. ASSUME Len(s) <= Len(t), \A i \in 1..Len(s) : s[i] = t[Len(t) - Len(s) + i],
             NEW i \in 1..Len(s)
      PROVE  s[Len(s) - i + 1] = t[Len(t) - i + 1]
  <2>1. Len(s) - i + 1 \in 1..Len(s) /\ Len(t) - Len(s) + (Len(s) - i + 1) = Len(t) - i + 1
    BY <1>1
  <2> QED BY <1>4, <2>1
<1> QED BY <1>2, <1>3, <1>4

-----------------------------------------------------------------------------
(* What stands between a prefix and a suffix.                              *)

\* The suffix is matched against what follows the prefix: the three do not
\* overlap, and together they are the whole.
LEMMA Around ==
    \A s, prefix, suffix, n \in Text :
        n \in trimAround(s, prefix, suffix) <=> s = (prefix \o n) \o suffix
<1> SUFFICES ASSUME NEW s \in Text, NEW prefix \in Text, NEW suffix \in Text, NEW n \in Text
             PROVE  n \in trimAround(s, prefix, suffix) <=> s = (prefix \o n) \o suffix
  OBVIOUS
<1> DEFINE p == Len(prefix)
           x == Len(suffix)
           rest == SubSeq(s, p + 1, Len(s))
           mid  == SubSeq(rest, 1, Len(rest) - x)
           all  == (prefix \o n) \o suffix
<1>1. p \in Nat /\ x \in Nat /\ Len(s) \in Nat /\ Len(n) \in Nat BY TextLen
<1>2. p <= Len(s) => /\ rest \in Text /\ Len(rest) = Len(s) - p
                     /\ \A i \in 1..(Len(s) - p) : rest[i] = s[p + i]
  <2> SUFFICES ASSUME p <= Len(s)
               PROVE  /\ rest \in Text /\ Len(rest) = Len(s) - p
                      /\ \A i \in 1..(Len(s) - p) : rest[i] = s[p + i]
    OBVIOUS
  <2>1. p + 1 \in 1..(Len(s) + 1) /\ Len(s) \in (p + 1 - 1)..Len(s) BY <1>1
  <2>2. /\ rest \in Text /\ Len(rest) = Len(s) - (p + 1) + 1
        /\ \A i \in 1..(Len(s) - (p + 1) + 1) : rest[i] = s[p + 1 + i - 1]
    BY <2>1, TextPart
  <2> QED BY <2>2, <1>1
<1>3. /\ all \in Text /\ Len(all) = p + Len(n) + x
      /\ \A i \in 1..p : all[i] = prefix[i]
      /\ \A i \in 1..Len(n) : all[p + i] = n[i]
      /\ \A i \in 1..x : all[p + Len(n) + i] = suffix[i]
  BY TextThree
<1>4. IsPrefix(prefix, s) <=> p <= Len(s) /\ \A i \in 1..p : prefix[i] = s[i]
  BY TextPrefix
<1>5. p <= Len(s) => (IsSuffix(suffix, rest)
                        <=> x <= Len(rest) /\ \A i \in 1..x : suffix[i] = rest[Len(rest) - x + i])
  BY <1>2, TextSuffix
<1>6. p <= Len(s) /\ x <= Len(rest) =>
        /\ mid \in Text /\ Len(mid) = Len(rest) - x
        /\ \A i \in 1..(Len(rest) - x) : mid[i] = rest[i]
  <2> SUFFICES ASSUME p <= Len(s), x <= Len(rest)
               PROVE  /\ mid \in Text /\ Len(mid) = Len(rest) - x
                      /\ \A i \in 1..(Len(rest) - x) : mid[i] = rest[i]
    OBVIOUS
  <2> HIDE DEF rest, p, x
  <2>1. rest \in Text /\ Len(rest) \in Nat BY <1>2, TextLen
  <2>2. 1 \in 1..(Len(rest) + 1) /\ Len(rest) - x \in (1 - 1)..Len(rest) BY <2>1, <1>1
  <2>3. /\ mid \in Text /\ Len(mid) = Len(rest) - x - 1 + 1
        /\ \A i \in 1..(Len(rest) - x - 1 + 1) : mid[i] = rest[1 + i - 1]
    BY <2>1, <2>2, TextPart
  <2> HIDE DEF mid
  <2> QED BY <2>1, <2>3, <1>1
<1>7. n \in trimAround(s, prefix, suffix)
        <=> IsPrefix(prefix, s) /\ IsSuffix(suffix, rest) /\ n = mid
  BY DEF trimAround
<1> HIDE DEF rest, mid, all, p, x
<1>8. ASSUME IsPrefix(prefix, s), IsSuffix(suffix, rest), n = mid PROVE s = all
  <2>1. /\ p <= Len(s) /\ \A i \in 1..p : prefix[i] = s[i]
        /\ x <= Len(rest) /\ \A i \in 1..x : suffix[i] = rest[Len(rest) - x + i]
        /\ Len(rest) = Len(s) - p /\ Len(n) = Len(s) - p - x
    BY <1>4, <1>5, <1>2, <1>6, <1>8
  <2>2. Len(all) = Len(s) BY <1>1, <1>3, <2>1
  <2>3. ASSUME NEW i \in 1..Len(s) PROVE all[i] = s[i]
    <3>1. CASE i <= p BY <3>1, <1>3, <2>1, <1>1
    <3>2. CASE i > p /\ i <= p + Len(n)
      <4>1. i - p \in 1..Len(n) /\ p + (i - p) = i /\ i - p \in 1..(Len(s) - p)
              /\ i - p \in 1..(Len(rest) - x)
        BY <3>2, <2>1, <1>1
      <4> QED BY <4>1, <1>3, <1>2, <1>6, <1>8, <2>1
    <3>3. CASE i > p + Len(n)
      <4>1. i - p - Len(n) \in 1..x /\ p + Len(n) + (i - p - Len(n)) = i
              /\ Len(rest) - x + (i - p - Len(n)) = i - p
              /\ i - p \in 1..(Len(s) - p) /\ p + (i - p) = i
        BY <3>3, <2>1, <1>1
      <4>2. all[i] = suffix[i - p - Len(n)] BY <4>1, <1>3
      <4>3. suffix[i - p - Len(n)] = rest[i - p] BY <4>1, <2>1
      <4>4. rest[i - p] = s[i] BY <4>1, <1>2, <2>1
      <4> QED BY <4>2, <4>3, <4>4
    <3> QED BY <3>1, <3>2, <3>3, <1>1
  <2> QED BY <2>2, <2>3, <1>3, SameText
<1>9. ASSUME s = all PROVE IsPrefix(prefix, s) /\ IsSuffix(suffix, rest) /\ n = mid
  <2>1. Len(s) = p + Len(n) + x /\ p <= Len(s) BY <1>9, <1>1, <1>3
  <2>2. IsPrefix(prefix, s) BY <2>1, <1>3, <1>4, <1>9
  <2>3. rest \in Text /\ Len(rest) = Len(n) + x /\ x <= Len(rest) BY <2>1, <1>1, <1>2
  <2>4. ASSUME NEW i \in 1..x PROVE suffix[i] = rest[Len(rest) - x + i]
    <3>1. Len(rest) - x + i = Len(n) + i /\ Len(n) + i \in 1..(Len(s) - p)
            /\ p + (Len(n) + i) = p + Len(n) + i
      BY <2>1, <2>3, <1>1
    <3> QED BY <3>1, <1>2, <1>3, <1>9, <2>1
  <2>5. IsSuffix(suffix, rest) BY <2>1, <2>3, <2>4, <1>5
  <2>6. mid \in Text /\ Len(mid) = Len(n) BY <2>1, <2>3, <1>1, <1>6
  <2>7. ASSUME NEW i \in 1..Len(n) PROVE mid[i] = n[i]
    <3>1. i \in 1..(Len(rest) - x) /\ i \in 1..(Len(s) - p) BY <2>1, <2>3, <1>1
    <3> QED BY <3>1, <1>2, <1>3, <1>6, <1>9, <2>1, <2>3
  <2>8. n = mid BY <2>6, <2>7, SameText
  <2> QED BY <2>2, <2>5, <2>8
<1> QED BY <1>7, <1>8, <1>9 DEF all

\* There is at most one such part.
LEMMA AroundText ==
    \A s, prefix, suffix \in Text : trimAround(s, prefix, suffix) \subseteq Text
<1> SUFFICES ASSUME NEW s \in Text, NEW prefix \in Text, NEW suffix \in Text,
                    NEW n \in trimAround(s, prefix, suffix)
             PROVE  n \in Text
  OBVIOUS
<1> DEFINE rest == SubSeq(s, Len(prefix) + 1, Len(s))
<1>1. IsPrefix(prefix, s) /\ IsSuffix(suffix, rest) /\ n = SubSeq(rest, 1, Len(rest) - Len(suffix))
  BY DEF trimAround
<1>2. Len(prefix) \in Nat /\ Len(suffix) \in Nat /\ Len(s) \in Nat /\ Len(prefix) <= Len(s)
  BY <1>1, TextLen, TextPrefix
<1>3. rest \in Text
  <2>1. Len(prefix) + 1 \in 1..(Len(s) + 1) /\ Len(s) \in (Len(prefix) + 1 - 1)..Len(s) BY <1>2
  <2> QED BY <2>1, TextPart
<1> HIDE DEF rest
<1>4. Len(rest) \in Nat /\ Len(suffix) <= Len(rest) BY <1>1, <1>3, TextLen, TextSuffix
<1>5. 1 \in 1..(Len(rest) + 1) /\ Len(rest) - Len(suffix) \in (1 - 1)..Len(rest) BY <1>2, <1>4
<1> QED BY <1>1, <1>3, <1>5, TextPart

-----------------------------------------------------------------------------
(* The version of a path.                                                  *)

\* A text of some length over an alphabet.
LEMMA Spelt ==
    \A chars \in SUBSET Symbols : \A n \in Nat : \A s :
        s \in [1..n -> chars] <=> s \in Text /\ Len(s) = n /\ \A i \in 1..n : s[i] \in chars
<1> SUFFICES ASSUME NEW chars \in SUBSET Symbols, NEW n \in Nat, NEW s
             PROVE  s \in [1..n -> chars]
                      <=> s \in Text /\ Len(s) = n /\ \A i \in 1..n : s[i] \in chars
  OBVIOUS
<1>1. ASSUME s \in [1..n -> chars] PROVE s \in Text /\ Len(s) = n /\ \A i \in 1..n : s[i] \in chars
  <2>1. s \in [1..n -> Symbols] BY <1>1
  <2>2. s \in Seq(Symbols) BY <2>1, SeqDef
  <2>3. Len(s) = n
    <3>1. DOMAIN s = 1..Len(s) /\ Len(s) \in Nat BY <2>2, LenProperties
    <3>2. 1..Len(s) = 1..n BY <3>1, <2>1
    <3>3. Len(s) > n => Len(s) \in 1..Len(s) BY <3>1
    <3>4. Len(s) > n => Len(s) \in 1..n BY <3>2, <3>3
    <3>5. Len(s) < n => n \in 1..n OBVIOUS
    <3>6. Len(s) < n => n \in 1..Len(s) BY <3>2, <3>5
    <3>7. \A a, b \in Nat : (a > b => a \in 1..b) /\ (a < b => b \in 1..a) => a = b OBVIOUS
    <3> QED BY <3>1, <3>4, <3>6, <3>7
  <2> QED BY <1>1, <2>2, <2>3 DEF Text
<1>2. ASSUME s \in Text, Len(s) = n, \A i \in 1..n : s[i] \in chars PROVE s \in [1..n -> chars]
  <2>1. s \in [1..n -> Symbols] BY <1>2, LenProperties DEF Text
  <2> QED BY <2>1, <1>2
<1> QED BY <1>1, <1>2

\* The separator is none of the bytes of a name.
LEMMA SymbolSets ==
    /\ Digits \in SUBSET Symbols /\ Hex \in SUBSET Symbols /\ RefBytes \in SUBSET Symbols
    /\ Digits \subseteq RefBytes /\ Hex \subseteq RefBytes
    /\ "/" \notin RefBytes /\ "/" \in Symbols
    /\ "." \notin Digits /\ "." \in RefBytes /\ "v" \in RefBytes
    /\ {"json", "containers", "images", "_ping"} \subseteq RefBytes
BY DEF RefBytes, Hex, Digits, Words, Symbols

LEMMA StringsSpelt ==
    \A chars \in SUBSET Symbols : \A lengths \in SUBSET Nat : \A s :
        s \in Strings(chars, lengths)
          <=> s \in Text /\ Len(s) \in lengths /\ \A i \in 1..Len(s) : s[i] \in chars
<1> SUFFICES ASSUME NEW chars \in SUBSET Symbols, NEW lengths \in SUBSET Nat, NEW s
             PROVE  s \in Strings(chars, lengths)
                      <=> s \in Text /\ Len(s) \in lengths /\ \A i \in 1..Len(s) : s[i] \in chars
  OBVIOUS
<1>1. s \in Strings(chars, lengths) <=> \E n \in lengths : s \in [1..n -> chars] BY DEF Strings
<1>2. \A n \in lengths : s \in [1..n -> chars]
        <=> s \in Text /\ Len(s) = n /\ \A i \in 1..n : s[i] \in chars
  BY Spelt
<1> QED BY <1>1, <1>2

\* The versions of the table are those the code accepts.
LEMMA VersionsAreValid == \A v : v \in Versions <=> v \in Text /\ validAPIVersion(v)
<1> SUFFICES ASSUME NEW v PROVE v \in Versions <=> v \in Text /\ validAPIVersion(v)
  OBVIOUS
<1> DEFINE Part == Strings(Digits, 1..maxAPIVersionLength - 2)
           dotted == <<".">>
           With(major, minor) == (major \o dotted) \o minor
           Written == {With(major, minor) : major, minor \in Part}
<1>1. maxAPIVersionLength \in Nat /\ minAPIVersionLength \in Nat BY AllowlistAssumption
<1>2. \A s : s \in Part <=> /\ s \in Text /\ Len(s) \in 1..maxAPIVersionLength - 2
                            /\ \A i \in 1..Len(s) : s[i] \in Digits
  <2>1. Digits \in SUBSET Symbols BY SymbolSets
  <2>2. 1..maxAPIVersionLength - 2 \in SUBSET Nat BY <1>1
  <2> QED BY <2>1, <2>2, StringsSpelt
<1>3. v \in Versions <=> /\ \E major, minor \in Part : v = (major \o dotted) \o minor
                         /\ Len(v) \in minAPIVersionLength..maxAPIVersionLength
  <2>1. Versions = {x \in Written : Len(x) \in minAPIVersionLength..maxAPIVersionLength}
    BY DEF Versions
  <2>2. v \in Written <=> \E major, minor \in Part : v = With(major, minor)
    <3> HIDE DEF Part, With
    <3> QED BY DEF Written
  <2> HIDE DEF Written, Part
  <2> QED BY <2>1, <2>2
<1>4. dotted \in Text /\ Len(dotted) = 1 /\ dotted[1] = "."
  <2>1. "." \in Symbols BY SymbolSets
  <2>2. dotted \in Seq(Symbols) BY <2>1
  <2> QED BY <2>2 DEF Text
<1> HIDE DEF Part, dotted, Written, With
<1>5. ASSUME v \in Versions PROVE v \in Text /\ validAPIVersion(v)
  <2>1. PICK major \in Part, minor \in Part : v = (major \o dotted) \o minor BY <1>3, <1>5
  <2>2. /\ major \in Text /\ Len(major) \in 1..maxAPIVersionLength - 2
        /\ minor \in Text /\ Len(minor) \in 1..maxAPIVersionLength - 2
        /\ \A i \in 1..Len(major) : major[i] \in Digits
        /\ \A i \in 1..Len(minor) : minor[i] \in Digits
    BY <1>2
  <2>3. /\ v \in Text /\ Len(v) = Len(major) + 1 + Len(minor)
        /\ \A i \in 1..Len(major) : v[i] = major[i]
        /\ v[Len(major) + 1] = "."
        /\ \A i \in 1..Len(minor) : v[Len(major) + 1 + i] = minor[i]
    <3> DEFINE all == (major \o dotted) \o minor
    <3>1. /\ all \in Text /\ Len(all) = Len(major) + Len(dotted) + Len(minor)
          /\ \A i \in 1..Len(major) : all[i] = major[i]
          /\ \A i \in 1..Len(dotted) : all[Len(major) + i] = dotted[i]
          /\ \A i \in 1..Len(minor) : all[Len(major) + Len(dotted) + i] = minor[i]
      BY <2>2, <1>4, TextThree
    <3> HIDE DEF all
    <3>2. v = all BY <2>1 DEF all
    <3>3. 1 \in 1..Len(dotted) BY <1>4
    <3> QED BY <3>1, <3>2, <3>3, <1>4
  <2> DEFINE dot == Len(major) + 1
  <2>4. dot \in 2..Len(v) - 1 BY <2>2, <2>3, <1>1
  <2>5. ASSUME NEW i \in 1..Len(v), i # dot PROVE v[i] \in Digits
    <3>1. CASE i < dot
      <4>1. i \in 1..Len(major) BY <3>1, <2>2, <1>1
      <4> QED BY <4>1, <2>2, <2>3
    <3>2. CASE i > dot
      <4>1. i - dot \in 1..Len(minor) /\ Len(major) + 1 + (i - dot) = i
        BY <3>2, <2>2, <2>3, <1>1
      <4>2. v[Len(major) + 1 + (i - dot)] = minor[i - dot] BY <4>1, <2>3
      <4> QED BY <4>1, <4>2, <2>2
    <3>3. dot \in Int /\ i \in Int BY <2>2, <1>1
    <3> QED BY <3>1, <3>2, <3>3, <2>5
  <2>6. v[dot] = "." /\ DOMAIN v = 1..Len(v) BY <2>3, TextLen
  <2> HIDE DEF dot
  <2> QED BY <1>3, <1>5, <2>3, <2>4, <2>5, <2>6 DEF validAPIVersion
<1>6. ASSUME v \in Text, validAPIVersion(v) PROVE v \in Versions
  <2>1. Len(v) \in Nat /\ DOMAIN v = 1..Len(v) BY <1>6, TextLen
  <2>2. PICK dot \in 2..Len(v) - 1 :
          v[dot] = "." /\ \A i \in 1..Len(v) \ {dot} : v[i] \in Digits
    BY <1>6, <2>1 DEF validAPIVersion
  <2> DEFINE major == SubSeq(v, 1, dot - 1)
             minor == SubSeq(v, dot + 1, Len(v))
  <2>3. /\ major \in Text /\ Len(major) = dot - 1 
        /\ \A i \in 1..(dot - 1) : major[i] = v[i]
    <3>1. 1 \in 1..(Len(v) + 1) /\ dot - 1 \in (1 - 1)..Len(v) BY <2>1
    <3>2. /\ major \in Text /\ Len(major) = dot - 1 - 1 + 1
          /\ \A i \in 1..(dot - 1 - 1 + 1) : major[i] = v[1 + i - 1]
      BY <3>1, <1>6, TextPart
    <3> QED BY <3>2, <2>1
  <2>4. /\ minor \in Text /\ Len(minor) = Len(v) - dot
        /\ \A i \in 1..(Len(v) - dot) : minor[i] = v[dot + i]
    <3>1. dot + 1 \in 1..(Len(v) + 1) /\ Len(v) \in (dot + 1 - 1)..Len(v) BY <2>1
    <3>2. /\ minor \in Text /\ Len(minor) = Len(v) - (dot + 1) + 1
          /\ \A i \in 1..(Len(v) - (dot + 1) + 1) : minor[i] = v[dot + 1 + i - 1]
      BY <3>1, <1>6, TextPart
    <3> QED BY <3>2, <2>1
  <2> HIDE DEF major, minor
  <2>5. Len(v) \in minAPIVersionLength..maxAPIVersionLength BY <1>6 DEF validAPIVersion
  <2>6. major \in Part
    <3>1. Len(major) \in 1..maxAPIVersionLength - 2 BY <2>1, <2>3, <2>5, <1>1
    <3>2. \A i \in 1..Len(major) : major[i] \in Digits
      <4> SUFFICES ASSUME NEW i \in 1..Len(major) PROVE major[i] \in Digits OBVIOUS
      <4>1. i \in 1..Len(v) \ {dot} /\ i \in 1..(dot - 1) BY <2>1, <2>3
      <4> QED BY <4>1, <2>2, <2>3
    <3> QED BY <3>1, <3>2, <2>3, <1>2
  <2>7. minor \in Part
    <3>1. Len(minor) \in 1..maxAPIVersionLength - 2 BY <2>1, <2>4, <2>5, <1>1
    <3>2. \A i \in 1..Len(minor) : minor[i] \in Digits
      <4> SUFFICES ASSUME NEW i \in 1..Len(minor) PROVE minor[i] \in Digits OBVIOUS
      <4>1. dot + i \in 1..Len(v) \ {dot} /\ i \in 1..(Len(v) - dot) BY <2>1, <2>4
      <4>2. v[dot + i] \in Digits BY <4>1, <2>2
      <4> QED BY <4>1, <4>2, <2>4
    <3> QED BY <3>1, <3>2, <2>4, <1>2
  <2> DEFINE all == (major \o dotted) \o minor
  <2>8. /\ all \in Text /\ Len(all) = Len(major) + Len(dotted) + Len(minor)
        /\ \A i \in 1..Len(major) : all[i] = major[i]
        /\ \A i \in 1..Len(dotted) : all[Len(major) + i] = dotted[i]
        /\ \A i \in 1..Len(minor) : all[Len(major) + Len(dotted) + i] = minor[i]
    BY <2>3, <2>4, <1>4, TextThree
  <2> HIDE DEF all
  <2>9. Len(all) = Len(v) BY <2>8, <2>3, <2>4, <1>4, <2>1
  <2>10. ASSUME NEW i \in 1..Len(v) PROVE v[i] = all[i]
    <3>1. CASE i < dot
      <4>1. i \in 1..Len(major) BY <3>1, <2>3, <2>1
      <4> QED BY <4>1, <2>3, <2>8
    <3>2. CASE i = dot
      <4>1. Len(major) + 1 = i /\ 1 \in 1..Len(dotted) BY <3>2, <2>3, <2>1, <1>4
      <4> QED BY <4>1, <3>2, <2>2, <2>8, <1>4
    <3>3. CASE i > dot
      <4>1. i - dot \in 1..Len(minor) /\ Len(major) + Len(dotted) + (i - dot) = i /\ dot + (i - dot) = i
        BY <3>3, <2>3, <2>4, <2>1, <1>4
      <4>2. all[Len(major) + Len(dotted) + (i - dot)] = minor[i - dot] BY <4>1, <2>8
      <4>3. minor[i - dot] = v[dot + (i - dot)] BY <4>1, <2>4
      <4> QED BY <4>1, <4>2, <4>3
    <3> QED BY <3>1, <3>2, <3>3, <2>1
  <2>11. v = all BY <1>6, <2>8, <2>9, <2>10, SameText
  <2> QED BY <1>3, <2>5, <2>6, <2>7, <2>11 DEF all
<1> QED BY <1>5, <1>6

\* A version has no separator.
LEMMA VersionBytes ==
    \A v \in Versions : v \in Text /\ v # <<>> /\ \A i \in 1..Len(v) : v[i] \in Digits \union {"."}
<1> SUFFICES ASSUME NEW v \in Versions
             PROVE  v \in Text /\ v # <<>> /\ \A i \in 1..Len(v) : v[i] \in Digits \union {"."}
  OBVIOUS
<1>1. v \in Text /\ validAPIVersion(v) BY VersionsAreValid
<1>2. Len(v) \in Nat /\ DOMAIN v = 1..Len(v) BY <1>1, TextLen
<1>3. PICK dot \in 2..Len(v) - 1 : v[dot] = "." /\ \A i \in DOMAIN v \ {dot} : v[i] \in Digits
  BY <1>1 DEF validAPIVersion
<1>4. Len(v) > 0 BY <1>2, <1>3
<1>5. v # <<>> BY <1>4
<1> QED BY <1>1, <1>2, <1>3, <1>5

versionPrefix == <<"/", "v">>

\* A path is cut behind its version, at the first separator after "/v".
LEMMA Versioned ==
    \A path \in Text : \A rest :
        rest \in trimAPIVersion(path)
          <=> /\ rest \in Text /\ rest # <<>> /\ rest[1] = "/"
              /\ \E v \in Versions : path = (versionPrefix \o v) \o rest
<1> SUFFICES ASSUME NEW path \in Text, NEW rest
             PROVE  rest \in trimAPIVersion(path)
                      <=> /\ rest \in Text /\ rest # <<>> /\ rest[1] = "/"
                          /\ \E v \in Versions : path = (versionPrefix \o v) \o rest
  OBVIOUS
<1> DEFINE ends == {i \in 3..Len(path) : path[i] = "/"}
           end  == CHOOSE i \in ends : \A j \in ends : i <= j
<1>1. rest \in trimAPIVersion(path)
        <=> /\ IsPrefix(versionPrefix, path) /\ ends # {}
            /\ validAPIVersion(SubSeq(path, 3, end - 1))
            /\ rest = SubSeq(path, end, Len(path))
  BY DEF trimAPIVersion, versionPrefix
<1>2. Len(path) \in Nat BY TextLen
<1>3. versionPrefix \in Text /\ Len(versionPrefix) = 2
        /\ versionPrefix[1] = "/" /\ versionPrefix[2] = "v"
  <2>1. "/" \in Symbols /\ "v" \in Symbols BY SymbolSets
  <2>2. versionPrefix \in Seq(Symbols) BY <2>1 DEF versionPrefix
  <2> QED BY <2>2 DEF versionPrefix, Text
<1>4. IsPrefix(versionPrefix, path) <=> 2 <= Len(path) /\ path[1] = "/" /\ path[2] = "v"
  <2>1. \A a, b : (\A i \in 1..2 : a[i] = b[i]) <=> a[1] = b[1] /\ a[2] = b[2] OBVIOUS
  <2>2. IsPrefix(versionPrefix, path)
          <=> 2 <= Len(path) /\ \A i \in 1..2 : versionPrefix[i] = path[i]
    BY <1>3, TextPrefix
  <2>3. (\A i \in 1..2 : versionPrefix[i] = path[i])
          <=> versionPrefix[1] = path[1] /\ versionPrefix[2] = path[2]
    BY <2>1
  <2> QED BY <1>3, <2>2, <2>3
<1>5. ends # {} => end \in ends /\ \A j \in ends : end <= j
  <2>1. ends \in SUBSET Nat OBVIOUS
  <2> HIDE DEF ends
  <2>2. ends # {} => \E i \in ends : \A j \in ends : i <= j BY <2>1, Least
  <2> QED BY <2>2
<1>6. ASSUME NEW e \in 3..Len(path)
      PROVE  LET v == SubSeq(path, 3, e - 1)
                 r == SubSeq(path, e, Len(path)) IN
             /\ v \in Text /\ Len(v) = e - 3 /\ \A i \in 1..(e - 3) : v[i] = path[2 + i]
             /\ r \in Text /\ Len(r) = Len(path) - e + 1
             /\ \A i \in 1..(Len(path) - e + 1) : r[i] = path[e - 1 + i]
  <2> DEFINE v == SubSeq(path, 3, e - 1)
             r == SubSeq(path, e, Len(path))
  <2>1. 3 \in 1..(Len(path) + 1) /\ e - 1 \in (3 - 1)..Len(path) BY <1>2
  <2>2. /\ v \in Text /\ Len(v) = e - 1 - 3 + 1
        /\ \A i \in 1..(e - 1 - 3 + 1) : v[i] = path[3 + i - 1]
    BY <2>1, TextPart
  <2>3. e \in 1..(Len(path) + 1) /\ Len(path) \in (e - 1)..Len(path) BY <1>2
  <2>4. /\ r \in Text /\ Len(r) = Len(path) - e + 1
        /\ \A i \in 1..(Len(path) - e + 1) : r[i] = path[e + i - 1]
    BY <2>3, TextPart
  <2> HIDE DEF v, r
  <2>5. /\ v \in Text /\ Len(v) = e - 3 /\ \A i \in 1..(e - 3) : v[i] = path[2 + i]
        /\ r \in Text /\ Len(r) = Len(path) - e + 1
        /\ \A i \in 1..(Len(path) - e + 1) : r[i] = path[e - 1 + i]
    BY <2>2, <2>4, <1>2
  <2> QED BY <2>5 DEF v, r
<1> HIDE DEF ends, end
<1>7. ASSUME rest \in trimAPIVersion(path)
      PROVE  /\ rest \in Text /\ rest # <<>> /\ rest[1] = "/"
             /\ \E v \in Versions : path = (versionPrefix \o v) \o rest
  <2>1. end \in 3..Len(path) /\ path[end] = "/" BY <1>1, <1>5, <1>7 DEF ends
  <2> DEFINE v == SubSeq(path, 3, end - 1)
  <2>2. /\ v \in Text /\ Len(v) = end - 3 /\ \A i \in 1..(end - 3) : v[i] = path[2 + i]
        /\ rest \in Text /\ Len(rest) = Len(path) - end + 1
        /\ \A i \in 1..(Len(path) - end + 1) : rest[i] = path[end - 1 + i]
    <3> DEFINE r == SubSeq(path, end, Len(path))
    <3>1. r = rest BY <1>1, <1>7
    <3>2. /\ v \in Text /\ Len(v) = end - 3 /\ \A i \in 1..(end - 3) : v[i] = path[2 + i]
          /\ r \in Text /\ Len(r) = Len(path) - end + 1
          /\ \A i \in 1..(Len(path) - end + 1) : r[i] = path[end - 1 + i]
      BY <2>1, <1>6
    <3> HIDE DEF r, v
    <3> QED BY <3>1, <3>2
  <2>3. v \in Versions BY <1>1, <1>7, <2>2, VersionsAreValid
  <2> HIDE DEF v
  <2>4. Len(rest) >= 1 /\ rest[1] = "/"
    <3>1. 1 \in 1..(Len(path) - end + 1) /\ end - 1 + 1 = end BY <2>1, <1>2
    <3> QED BY <3>1, <2>1, <2>2, <1>2
  <2> DEFINE all == (versionPrefix \o v) \o rest
  <2>5. /\ all \in Text /\ Len(all) = Len(versionPrefix) + Len(v) + Len(rest)
        /\ \A i \in 1..Len(versionPrefix) : all[i] = versionPrefix[i]
        /\ \A i \in 1..Len(v) : all[Len(versionPrefix) + i] = v[i]
        /\ \A i \in 1..Len(rest) : all[Len(versionPrefix) + Len(v) + i] = rest[i]
    BY <1>3, <2>2, TextThree
  <2> HIDE DEF all
  <2>6. Len(all) = Len(path) BY <2>5, <2>2, <2>1, <1>2, <1>3
  <2>7. ASSUME NEW i \in 1..Len(path) PROVE path[i] = all[i]
    <3>1. CASE i = 1 \/ i = 2
      <4>1. path[1] = "/" /\ path[2] = "v" BY <1>1, <1>4, <1>7
      <4>2. 1 \in 1..Len(versionPrefix) /\ 2 \in 1..Len(versionPrefix) BY <1>3
      <4> QED BY <3>1, <4>1, <4>2, <2>5, <1>3
    <3>2. CASE i > 2 /\ i < end
      <4>1. i - 2 \in 1..Len(v) /\ i - 2 \in 1..(end - 3) /\ 2 + (i - 2) = i
        BY <3>2, <2>2, <2>1
      <4>2. all[2 + (i - 2)] = v[i - 2] BY <4>1, <2>5, <1>3
      <4>3. v[i - 2] = path[2 + (i - 2)] BY <4>1, <2>2
      <4> QED BY <4>1, <4>2, <4>3
    <3>3. CASE i >= end
      <4> DEFINE j == i - end + 1
      <4>1. j \in 1..Len(rest) /\ j \in 1..(Len(path) - end + 1) /\ end - 1 + j = i
              /\ 2 + Len(v) + j = i
        BY <3>3, <2>2, <2>1, <1>2
      <4> HIDE DEF j
      <4>2. all[2 + Len(v) + j] = rest[j] BY <4>1, <2>5, <1>3
      <4>3. rest[j] = path[end - 1 + j] BY <4>1, <2>2
      <4> QED BY <4>1, <4>2, <4>3
    <3> QED BY <3>1, <3>2, <3>3, <2>1, <1>2
  <2>8. path = all BY <2>5, <2>6, <2>7, SameText
  <2>9. rest # <<>> BY <2>4
  <2> QED BY <2>2, <2>3, <2>4, <2>8, <2>9 DEF all
<1>8. ASSUME rest \in Text, rest # <<>>, rest[1] = "/",
             NEW v \in Versions, path = (versionPrefix \o v) \o rest
      PROVE  rest \in trimAPIVersion(path)
  <2> DEFINE all == (versionPrefix \o v) \o rest
             e == Len(v) + 3
  <2>1. v \in Text /\ \A i \in 1..Len(v) : v[i] # "/" BY VersionBytes, SymbolSets
  <2>2. /\ all \in Text /\ Len(all) = Len(versionPrefix) + Len(v) + Len(rest)
        /\ \A i \in 1..Len(versionPrefix) : all[i] = versionPrefix[i]
        /\ \A i \in 1..Len(v) : all[Len(versionPrefix) + i] = v[i]
        /\ \A i \in 1..Len(rest) : all[Len(versionPrefix) + Len(v) + i] = rest[i]
    BY <1>3, <1>8, <2>1, TextThree
  <2> HIDE DEF all
  <2>3. path = all BY <1>8 DEF all
  <2>4. Len(v) \in Nat /\ Len(rest) \in Nat \ {0}
    <3>1. Len(v) \in Nat /\ Len(rest) \in Nat BY <1>8, <2>1, TextLen
    <3>2. Len(rest) # 0 BY <1>8, EmptySeq DEF Text
    <3> QED BY <3>1, <3>2
  <2>5. Len(path) = 2 + Len(v) + Len(rest) BY <2>2, <2>3, <1>3
  <2>6. path[1] = "/" /\ path[2] = "v"
    <3>1. 1 \in 1..Len(versionPrefix) /\ 2 \in 1..Len(versionPrefix) BY <1>3
    <3> QED BY <3>1, <2>2, <2>3, <1>3
  <2>7. e \in 3..Len(path) BY <2>4, <2>5
  <2>8. path[e] = "/"
    <3>1. 1 \in 1..Len(rest) /\ 2 + Len(v) + 1 = e BY <2>4
    <3>2. all[2 + Len(v) + 1] = rest[1] BY <3>1, <2>2, <1>3
    <3> QED BY <3>1, <3>2, <2>3, <1>8
  <2>9. ASSUME NEW i \in 3..Len(path), i < e PROVE path[i] # "/"
    <3>1. i - 2 \in 1..Len(v) /\ 2 + (i - 2) = i BY <2>9, <2>4
    <3>2. all[2 + (i - 2)] = v[i - 2] BY <3>1, <2>2, <1>3
    <3> QED BY <3>1, <3>2, <2>1, <2>3
  <2>10. e \in ends /\ end \in ends /\ end <= e
    <3>1. e \in ends BY <2>7, <2>8 DEF ends
    <3> QED BY <3>1, <1>5
  <2>11. end = e
    <3>1. end \in 3..Len(path) /\ path[end] = "/" BY <2>10 DEF ends
    <3>2. ~(end < e) BY <3>1, <2>9
    <3> QED BY <3>1, <3>2, <2>10, <2>7
  <2> DEFINE w == SubSeq(path, 3, e - 1)
             r == SubSeq(path, e, Len(path))
  <2>12. /\ w \in Text /\ Len(w) = e - 3 /\ \A i \in 1..(e - 3) : w[i] = path[2 + i]
         /\ r \in Text /\ Len(r) = Len(path) - e + 1
         /\ \A i \in 1..(Len(path) - e + 1) : r[i] = path[e - 1 + i]
    <3> HIDE DEF e
    <3> QED BY <2>7, <1>6
  <2> HIDE DEF w, r
  <2>13. w = v
    <3>1. Len(w) = Len(v) BY <2>12, <2>4
    <3>2. ASSUME NEW i \in 1..Len(w) PROVE w[i] = v[i]
      <4>1. i \in 1..(e - 3) /\ i \in 1..Len(v) BY <3>1, <2>12
      <4> QED BY <4>1, <2>12, <2>2, <2>3, <1>3
    <3> QED BY <3>1, <3>2, <2>1, <2>12, SameText
  <2>14. r = rest
    <3>1. Len(r) = Len(rest) BY <2>12, <2>4, <2>5
    <3>2. ASSUME NEW i \in 1..Len(r) PROVE r[i] = rest[i]
      <4>1. i \in 1..(Len(path) - e + 1) /\ i \in 1..Len(rest) /\ e - 1 + i = 2 + Len(v) + i
        BY <3>1, <2>12, <2>4
      <4>2. r[i] = path[e - 1 + i] BY <4>1, <2>12
      <4>3. all[2 + Len(v) + i] = rest[i] BY <4>1, <2>2, <1>3
      <4> QED BY <4>1, <4>2, <4>3, <2>3
    <3> QED BY <3>1, <3>2, <1>8, <2>12, SameText
  <2>15. IsPrefix(versionPrefix, path) BY <1>4, <2>6, <2>5, <2>4
  <2>16. validAPIVersion(w) BY <2>13, VersionsAreValid
  <2> HIDE DEF e
  <2> QED BY <1>1, <2>10, <2>11, <2>14, <2>15, <2>16 DEF w, r
<1> QED BY <1>7, <1>8

-----------------------------------------------------------------------------
(* Image references.                                                       *)

\* Where a segment of a reference begins or ends.
Border(ref, i) == i = 0 \/ i = Len(ref) + 1 \/ (i \in 1..Len(ref) /\ ref[i] = "/")

\* Behind no border is there another one, or one or two dots and another one.
Clean(ref) ==
    \A a \in 0..Len(ref) : Border(ref, a) =>
        /\ ~Border(ref, a + 1)
        /\ ~(Border(ref, a + 2) /\ ref[a + 1] = ".")
        /\ ~(Border(ref, a + 3) /\ a + 2 <= Len(ref) /\ ref[a + 1] = "." /\ ref[a + 2] = ".")

\* What names are made of.
NameText(s) ==
    /\ \A i \in 1..Len(s) : s[i] \in RefBytes
    /\ ~(Len(s) = 1 /\ s[1] = ".")
    /\ ~(Len(s) = 2 /\ s[1] = "." /\ s[2] = ".")

Names(n) == [1..n -> RefBytes] \ {<<".">>, <<".", ".">>}

\* A text that is no, one or two dots.
LEMMA Dots ==
    \A s \in Text : /\ s = <<>> <=> Len(s) = 0
                    /\ s = <<".">> <=> Len(s) = 1 /\ s[1] = "."
                    /\ s = <<".", ".">> <=> Len(s) = 2 /\ s[1] = "." /\ s[2] = "."
<1> SUFFICES ASSUME NEW s \in Text
             PROVE  /\ s = <<>> <=> Len(s) = 0
                    /\ s = <<".">> <=> Len(s) = 1 /\ s[1] = "."
                    /\ s = <<".", ".">> <=> Len(s) = 2 /\ s[1] = "." /\ s[2] = "."
  OBVIOUS
<1> DEFINE one == <<".">>
           two == <<".", ".">>
<1>1. "." \in Symbols BY SymbolSets
<1>2. one \in Text /\ Len(one) = 1 /\ one[1] = "."
  <2>1. one \in Seq(Symbols) BY <1>1
  <2> QED BY <2>1 DEF Text
<1>3. two \in Text /\ Len(two) = 2 /\ two[1] = "." /\ two[2] = "."
  <2>1. two \in Seq(Symbols) BY <1>1
  <2> QED BY <2>1 DEF Text
<1> HIDE DEF one, two
<1>4. s = <<>> <=> Len(s) = 0 BY EmptySeq DEF Text
<1>5. ASSUME Len(s) = 1, s[1] = "." PROVE s = one
  <2>1. \A i \in 1..Len(s) : i = 1 BY <1>5
  <2>2. \A i \in 1..Len(s) : s[i] = one[i] BY <2>1, <1>2, <1>5
  <2> QED BY <2>2, <1>2, <1>5, SameText
<1>6. ASSUME Len(s) = 2, s[1] = ".", s[2] = "." PROVE s = two
  <2>1. \A i \in 1..Len(s) : i = 1 \/ i = 2 BY <1>6
  <2>2. \A i \in 1..Len(s) : s[i] = two[i] BY <2>1, <1>3, <1>6
  <2> QED BY <2>2, <1>3, <1>6, SameText
<1>7. s = one <=> Len(s) = 1 /\ s[1] = "." BY <1>2, <1>5
<1>8. s = two <=> Len(s) = 2 /\ s[1] = "." /\ s[2] = "." BY <1>3, <1>6
<1> QED BY <1>4, <1>7, <1>8 DEF one, two

LEMMA NamesAre ==
    \A n \in Nat : \A s : s \in Names(n) <=> s \in Text /\ Len(s) = n /\ NameText(s)
<1> SUFFICES ASSUME NEW n \in Nat, NEW s
             PROVE  s \in Names(n) <=> s \in Text /\ Len(s) = n /\ NameText(s)
  OBVIOUS
<1>1. s \in [1..n -> RefBytes]
        <=> s \in Text /\ Len(s) = n /\ \A i \in 1..n : s[i] \in RefBytes
  BY Spelt, SymbolSets
<1> QED BY <1>1, Dots DEF Names, NameText

\* The segments the code goes through are those between borders.
LEMMA SegmentsClean ==
    \A ref \in Text :
        Segments(ref) \intersect {<<>>, <<".">>, <<".", ".">>} = {} <=> Clean(ref)
<1> SUFFICES ASSUME NEW ref \in Text
             PROVE  Segments(ref) \intersect {<<>>, <<".">>, <<".", ".">>} = {} <=> Clean(ref)
  OBVIOUS
<1> DEFINE Bad == {<<>>, <<".">>, <<".", ".">>}
           bounds == {0, Len(ref) + 1} \union {i \in DOMAIN ref : ref[i] = "/"}
           Next2(a, b) == a < b /\ \A k \in bounds : k <= a \/ b <= k
           Cut(a, b) == SubSeq(ref, a + 1, b - 1)
<1>1. Len(ref) \in Nat /\ DOMAIN ref = 1..Len(ref) BY TextLen
<1>2. bounds \subseteq 0..(Len(ref) + 1) /\ \A i \in Int : i \in bounds <=> Border(ref, i)
  BY <1>1 DEF Border
<1>3. \A x : x \in Segments(ref) <=> \E a, b \in bounds : Next2(a, b) /\ x = Cut(a, b)
  <2>1. Segments(ref) = {SubSeq(ref, s[1] + 1, s[2] - 1) : s \in
            {b \in bounds \X bounds : b[1] < b[2] /\ \A k \in bounds : k <= b[1] \/ b[2] <= k}}
    BY DEF Segments
  <2>2. Segments(ref) = {Cut(s[1], s[2]) : s \in {b \in bounds \X bounds : Next2(b[1], b[2])}}
    BY <2>1
  <2> HIDE DEF bounds, Cut, Next2
  <2>3. ASSUME NEW x, x \in Segments(ref) PROVE \E a, b \in bounds : Next2(a, b) /\ x = Cut(a, b)
    BY <2>2, <2>3
  <2>4. ASSUME NEW a \in bounds, NEW b \in bounds, Next2(a, b) PROVE Cut(a, b) \in Segments(ref)
    <3>1. <<a, b>> \in {d \in bounds \X bounds : Next2(d[1], d[2])} BY <2>4
    <3> DEFINE p == <<a, b>>
    <3>2. p[1] = a /\ p[2] = b OBVIOUS
    <3>3. Cut(p[1], p[2]) \in Segments(ref)
      <4> HIDE DEF p
      <4> QED BY <2>2, <3>1 DEF p
    <3> QED BY <3>2, <3>3
  <2> QED BY <2>3, <2>4
<1>4. ASSUME NEW a \in bounds, NEW b \in bounds, a < b
      PROVE  /\ Cut(a, b) \in Text /\ Len(Cut(a, b)) = b - a - 1
             /\ \A i \in 1..(b - a - 1) : Cut(a, b)[i] = ref[a + i]
  <2>1. a \in Int /\ b \in Int /\ a + 1 \in 1..(Len(ref) + 1) /\ b - 1 \in (a + 1 - 1)..Len(ref)
    BY <1>1, <1>2, <1>4
  <2> HIDE DEF bounds
  <2> DEFINE c == Cut(a, b)
  <2>2. /\ c \in Text /\ Len(c) = b - 1 - (a + 1) + 1
        /\ \A i \in 1..(b - 1 - (a + 1) + 1) : c[i] = ref[a + 1 + i - 1]
    BY <2>1, TextPart
  <2> HIDE DEF c
  <2>3. /\ c \in Text /\ Len(c) = b - a - 1
        /\ \A i \in 1..(b - a - 1) : c[i] = ref[a + i]
    BY <2>1, <2>2
  <2> QED BY <2>3 DEF c
<1>5. ASSUME NEW a \in bounds, NEW b \in bounds, a < b
      PROVE  Cut(a, b) \in Bad <=>
               \/ b = a + 1
               \/ b = a + 2 /\ ref[a + 1] = "."
               \/ b = a + 3 /\ ref[a + 1] = "." /\ ref[a + 2] = "."
  <2>1. a \in Int /\ b \in Int BY <1>1, <1>2
  <2> DEFINE c == Cut(a, b)
  <2>2. /\ c \in Text /\ Len(c) = b - a - 1
        /\ \A i \in 1..(b - a - 1) : c[i] = ref[a + i]
    BY <1>4, <1>5
  <2>3. c \in Bad <=> \/ Len(c) = 0
                      \/ Len(c) = 1 /\ c[1] = "."
                      \/ Len(c) = 2 /\ c[1] = "." /\ c[2] = "."
    BY <2>2, Dots
  <2> HIDE DEF c, bounds
  <2>4. Len(c) = 1 => c[1] = ref[a + 1] BY <2>1, <2>2
  <2>5. Len(c) = 2 => c[1] = ref[a + 1] /\ c[2] = ref[a + 2]
    <3>1. \A n \in Int : n = 2 => 1 \in 1..n /\ 2 \in 1..n OBVIOUS
    <3>2. b - a - 1 \in Int BY <2>1
    <3>3. Len(c) = 2 => 1 \in 1..(b - a - 1) /\ 2 \in 1..(b - a - 1) BY <2>2, <3>1, <3>2
    <3> QED BY <3>3, <2>2
  <2>6. /\ Len(c) = 0 <=> b = a + 1
        /\ Len(c) = 1 <=> b = a + 2
        /\ Len(c) = 2 <=> b = a + 3
    BY <2>1, <2>2
  <2> HIDE DEF Bad
  <2>7. c \in Bad <=> \/ b = a + 1
                      \/ b = a + 2 /\ ref[a + 1] = "."
                      \/ b = a + 3 /\ ref[a + 1] = "." /\ ref[a + 2] = "."
    BY <2>3, <2>4, <2>5, <2>6
  <2> QED BY <2>7 DEF c
<1>6. Segments(ref) \intersect Bad = {}
        <=> \A a, b \in bounds : Next2(a, b) => Cut(a, b) \notin Bad
  <2> HIDE DEF bounds, Next2, Cut, Bad
  <2> QED BY <1>3
<1> HIDE DEF Bad, Cut
<1>7. ASSUME Clean(ref), NEW a \in bounds, NEW b \in bounds, Next2(a, b) PROVE Cut(a, b) \notin Bad
  <2>1. a \in 0..(Len(ref) + 1) /\ b \in 0..(Len(ref) + 1) /\ a < b BY <1>2, <1>7
  <2>2. Border(ref, a) /\ Border(ref, b) BY <1>2, <2>1
  <2> HIDE DEF bounds
  <2>3. a \in 0..Len(ref) BY <2>1, <1>1
  <2>4. /\ ~Border(ref, a + 1)
        /\ ~(Border(ref, a + 2) /\ ref[a + 1] = ".")
        /\ ~(Border(ref, a + 3) /\ a + 2 <= Len(ref) /\ ref[a + 1] = "." /\ ref[a + 2] = ".")
    BY <1>7, <2>2, <2>3 DEF Clean
  <2>5. b = a + 3 => a + 2 <= Len(ref) BY <2>1, <1>1
  <2> QED BY <2>1, <2>2, <2>4, <2>5, <1>5
<1>8. ASSUME \A a, b \in bounds : Next2(a, b) => Cut(a, b) \notin Bad PROVE Clean(ref)
  <2> SUFFICES ASSUME NEW a \in 0..Len(ref), Border(ref, a)
               PROVE  /\ ~Border(ref, a + 1)
                      /\ ~(Border(ref, a + 2) /\ ref[a + 1] = ".")
                      /\ ~(Border(ref, a + 3) /\ a + 2 <= Len(ref)
                             /\ ref[a + 1] = "." /\ ref[a + 2] = ".")
    BY DEF Clean
  <2>1. a \in bounds /\ \A k \in bounds : k \in Int BY <1>1, <1>2
  <2>2. \A k \in Int : k \in bounds <=> Border(ref, k) BY <1>2
  <2> HIDE DEF bounds
  <2>3. ~Border(ref, a + 1)
    <3> SUFFICES ASSUME Border(ref, a + 1) PROVE FALSE OBVIOUS
    <3>1. a + 1 \in bounds BY <2>2
    <3>2. Next2(a, a + 1) BY <2>1
    <3> QED BY <3>1, <3>2, <2>1, <1>5, <1>8
  <2>4. \A k \in bounds : k <= a \/ a + 2 <= k BY <2>1, <2>2, <2>3
  <2>5. ~(Border(ref, a + 2) /\ ref[a + 1] = ".")
    <3> SUFFICES ASSUME Border(ref, a + 2), ref[a + 1] = "." PROVE FALSE OBVIOUS
    <3>1. a + 2 \in bounds BY <2>2
    <3>2. Next2(a, a + 2) BY <2>1, <2>4
    <3>3. Cut(a, a + 2) \in Bad BY <3>1, <2>1, <1>5
    <3> QED BY <3>1, <3>2, <3>3, <2>1, <1>8
  <2>6. ~(Border(ref, a + 3) /\ a + 2 <= Len(ref) /\ ref[a + 1] = "." /\ ref[a + 2] = ".")
    <3> SUFFICES ASSUME Border(ref, a + 3), a + 2 <= Len(ref), ref[a + 1] = ".", ref[a + 2] = "."
                 PROVE  FALSE
      OBVIOUS
    <3>1. a + 3 \in bounds BY <2>2
    <3>2. ~Border(ref, a + 2) BY <1>1 DEF Border
    <3>3. Next2(a, a + 3) BY <2>1, <2>2, <2>4, <3>2
    <3>4. Cut(a, a + 3) \in Bad BY <3>1, <2>1, <1>5
    <3> QED BY <3>1, <3>3, <3>4, <2>1, <1>8
  <2> QED BY <2>3, <2>5, <2>6
<1> QED BY <1>6, <1>7, <1>8 DEF Bad

separator == <<"/">>

Joined(s, t) == (s \o separator) \o t

LEMMA SeparatorText == separator \in Text /\ Len(separator) = 1 /\ separator[1] = "/"
<1>1. "/" \in Symbols BY SymbolSets
<1>2. separator \in Seq(Symbols) BY <1>1 DEF separator
<1> QED BY <1>2 DEF separator, Text

\* Behind a first name, a reference is clean when the rest of it is.
LEMMA FirstName ==
    \A s, t \in Text : NameText(s) /\ s # <<>> =>
        LET ref == (s \o separator) \o t IN
        /\ ref \in Text /\ Len(ref) = Len(s) + 1 + Len(t)
        /\ \A i \in 1..Len(s) : ref[i] = s[i]
        /\ ref[Len(s) + 1] = "/"
        /\ \A i \in 1..Len(t) : ref[Len(s) + 1 + i] = t[i]
        /\ Clean(ref) <=> Clean(t)
<1> SUFFICES ASSUME NEW s \in Text, NEW t \in Text, NameText(s), s # <<>>
             PROVE  LET ref == (s \o separator) \o t IN
                    /\ ref \in Text /\ Len(ref) = Len(s) + 1 + Len(t)
                    /\ \A i \in 1..Len(s) : ref[i] = s[i]
                    /\ ref[Len(s) + 1] = "/"
                    /\ \A i \in 1..Len(t) : ref[Len(s) + 1 + i] = t[i]
                    /\ Clean(ref) <=> Clean(t)
  OBVIOUS
<1> DEFINE ref == (s \o separator) \o t
           m == Len(s) + 1
<1>1. Len(s) \in Nat \ {0} /\ Len(t) \in Nat BY TextLen, Dots
<1>2. /\ ref \in Text /\ Len(ref) = Len(s) + 1 + Len(t)
      /\ \A i \in 1..Len(s) : ref[i] = s[i]
      /\ ref[m] = "/"
      /\ \A i \in 1..Len(t) : ref[m + i] = t[i]
  <2>1. /\ ref \in Text /\ Len(ref) = Len(s) + Len(separator) + Len(t)
        /\ \A i \in 1..Len(s) : ref[i] = s[i]
        /\ \A i \in 1..Len(separator) : ref[Len(s) + i] = separator[i]
        /\ \A i \in 1..Len(t) : ref[Len(s) + Len(separator) + i] = t[i]
    BY SeparatorText, TextThree
  <2> HIDE DEF ref
  <2>2. 1 \in 1..Len(separator) BY SeparatorText
  <2> QED BY <2>1, <2>2, SeparatorText
<1> HIDE DEF ref
<1>3. m \in Nat /\ m >= 2 /\ Len(ref) = m + Len(t) BY <1>1, <1>2
<1>4. \A i \in 1..(m - 1) : ref[i] \in RefBytes /\ ref[i] # "/" /\ ~Border(ref, i)
  <2> SUFFICES ASSUME NEW i \in 1..(m - 1)
               PROVE  ref[i] \in RefBytes /\ ref[i] # "/" /\ ~Border(ref, i)
    OBVIOUS
  <2>1. i \in 1..Len(s) /\ i # 0 /\ i # Len(ref) + 1 BY <1>1, <1>3
  <2>2. ref[i] \in RefBytes /\ ref[i] # "/" BY <2>1, <1>2, SymbolSets DEF NameText
  <2> QED BY <2>1, <2>2 DEF Border
<1>5. Border(ref, 0) /\ Border(ref, m)
  <2>1. m \in 1..Len(ref) BY <1>1, <1>3
  <2> QED BY <2>1, <1>2 DEF Border
<1>6. \A j \in 0..(Len(t) + 3) : Border(ref, m + j) <=> Border(t, j)
  <2> SUFFICES ASSUME NEW j \in 0..(Len(t) + 3) PROVE Border(ref, m + j) <=> Border(t, j)
    OBVIOUS
  <2>1. CASE j = 0
    <3>1. Border(t, j) BY <2>1 DEF Border
    <3>2. m + j = m BY <2>1, <1>3
    <3> QED BY <3>1, <3>2, <1>5
  <2>2. CASE j \in 1..Len(t)
    <3>1. m + j \in 1..Len(ref) /\ m + j # 0 /\ m + j # Len(ref) + 1 BY <2>2, <1>1, <1>3
    <3>2. j # 0 /\ j # Len(t) + 1 BY <2>2, <1>1
    <3> QED BY <2>2, <3>1, <3>2, <1>2 DEF Border
  <2>3. CASE j = Len(t) + 1
    <3>1. m + j = Len(ref) + 1 BY <2>3, <1>1, <1>3
    <3> QED BY <2>3, <3>1 DEF Border
  <2>4. CASE j > Len(t) + 1
    <3>1. m + j \notin 1..Len(ref) /\ m + j # 0 /\ m + j # Len(ref) + 1 BY <2>4, <1>1, <1>3
    <3>2. j \notin 1..Len(t) /\ j # 0 /\ j # Len(t) + 1 BY <2>4, <1>1
    <3> QED BY <3>1, <3>2 DEF Border
  <2> QED BY <2>1, <2>2, <2>3, <2>4, <1>1
<1>7. ASSUME Clean(ref) PROVE Clean(t)
  <2> SUFFICES ASSUME NEW a \in 0..Len(t), Border(t, a)
               PROVE  /\ ~Border(t, a + 1)
                      /\ ~(Border(t, a + 2) /\ t[a + 1] = ".")
                      /\ ~(Border(t, a + 3) /\ a + 2 <= Len(t)
                             /\ t[a + 1] = "." /\ t[a + 2] = ".")
    BY DEF Clean
  <2>1. m + a \in 0..Len(ref) BY <1>1, <1>3
  <2>2. /\ a \in 0..(Len(t) + 3) /\ a + 1 \in 0..(Len(t) + 3)
        /\ a + 2 \in 0..(Len(t) + 3) /\ a + 3 \in 0..(Len(t) + 3)
        /\ m + (a + 1) = m + a + 1 /\ m + (a + 2) = m + a + 2 /\ m + (a + 3) = m + a + 3
    BY <1>1, <1>3
  <2>3. /\ Border(ref, m + a)
        /\ Border(ref, m + a + 1) <=> Border(t, a + 1)
        /\ Border(ref, m + a + 2) <=> Border(t, a + 2)
        /\ Border(ref, m + a + 3) <=> Border(t, a + 3)
    BY <2>2, <1>6
  <2>4. /\ ~Border(ref, m + a + 1)
        /\ ~(Border(ref, m + a + 2) /\ ref[m + a + 1] = ".")
        /\ ~(Border(ref, m + a + 3) /\ m + a + 2 <= Len(ref)
               /\ ref[m + a + 1] = "." /\ ref[m + a + 2] = ".")
    BY <1>7, <2>1, <2>3 DEF Clean
  <2>5. a + 1 \in 1..Len(t)
    <3>1. a # Len(t) BY <2>3, <2>4 DEF Border
    <3> QED BY <3>1, <1>1
  <2>6. ref[m + a + 1] = t[a + 1] BY <2>5, <2>2, <1>2
  <2>7. a + 2 <= Len(t) => ref[m + a + 2] = t[a + 2] /\ m + a + 2 <= Len(ref)
    <3>1. a + 2 <= Len(t) => a + 2 \in 1..Len(t) BY <1>1
    <3> QED BY <3>1, <2>2, <1>2, <1>1, <1>3
  <2> QED BY <2>3, <2>4, <2>6, <2>7
<1>8. ASSUME Clean(t) PROVE Clean(ref)
  <2> SUFFICES ASSUME NEW a \in 0..Len(ref), Border(ref, a)
               PROVE  /\ ~Border(ref, a + 1)
                      /\ ~(Border(ref, a + 2) /\ ref[a + 1] = ".")
                      /\ ~(Border(ref, a + 3) /\ a + 2 <= Len(ref)
                             /\ ref[a + 1] = "." /\ ref[a + 2] = ".")
    BY DEF Clean
  <2>1. CASE a = 0
    <3>1. ~Border(ref, 1) BY <1>4, <1>3
    <3>2. ~(Border(ref, 2) /\ ref[1] = ".")
      <4>1. m > 2 => 2 \in 1..(m - 1) BY <1>3
      <4>2. m > 2 => ~Border(ref, 2) BY <4>1, <1>4
      <4>3. m = 2 => ref[1] = s[1] /\ Len(s) = 1
        <5>1. 1 \in 1..Len(s) BY <1>1
        <5>2. ref[1] = s[1] BY <5>1, <1>2
        <5>3. \A n \in Nat : n + 1 = 2 => n = 1 OBVIOUS
        <5>4. m = 2 => Len(s) = 1 BY <5>3, <1>1
        <5> QED BY <5>2, <5>4
      <4>4. m = 2 \/ m > 2 BY <1>3
      <4> QED BY <4>2, <4>3, <4>4 DEF NameText
    <3>3. ~(Border(ref, 3) /\ ref[1] = "." /\ ref[2] = ".")
      <4>1. m > 3 => 3 \in 1..(m - 1) BY <1>3
      <4>2. m > 3 => ~Border(ref, 3) BY <4>1, <1>4
      <4>3. m = 3 => ref[1] = s[1] /\ ref[2] = s[2] /\ Len(s) = 2
        <5>1. 1 \in 1..Len(s) /\ (m = 3 => 2 \in 1..Len(s)) BY <1>1
        <5>2. ref[1] = s[1] /\ (m = 3 => ref[2] = s[2]) BY <5>1, <1>2
        <5>3. \A n \in Nat : n + 1 = 3 => n = 2 OBVIOUS
        <5>4. m = 3 => Len(s) = 2 BY <5>3, <1>1
        <5> QED BY <5>2, <5>4
      <4>4. m = 2 => ref[2] = "/" BY <1>2
      <4>5. m = 2 \/ m = 3 \/ m > 3 BY <1>3
      <4> QED BY <4>2, <4>3, <4>4, <4>5 DEF NameText
    <3> QED BY <2>1, <3>1, <3>2, <3>3
  <2>2. CASE a \in 1..(m - 1) BY <2>2, <1>4
  <2>3. CASE a >= m
    <3> DEFINE j == a - m
    <3>1. j \in 0..Len(t) /\ a = m + j BY <2>3, <1>1, <1>3
    <3> HIDE DEF j
    <3>2. /\ j \in 0..(Len(t) + 3) /\ j + 1 \in 0..(Len(t) + 3)
          /\ j + 2 \in 0..(Len(t) + 3) /\ j + 3 \in 0..(Len(t) + 3)
          /\ m + (j + 1) = a + 1 /\ m + (j + 2) = a + 2 /\ m + (j + 3) = a + 3
      BY <3>1, <1>1, <1>3
    <3>3. /\ Border(t, j)
          /\ Border(ref, a + 1) <=> Border(t, j + 1)
          /\ Border(ref, a + 2) <=> Border(t, j + 2)
          /\ Border(ref, a + 3) <=> Border(t, j + 3)
      BY <3>1, <3>2, <1>6
    <3>4. /\ ~Border(t, j + 1)
          /\ ~(Border(t, j + 2) /\ t[j + 1] = ".")
          /\ ~(Border(t, j + 3) /\ j + 2 <= Len(t) /\ t[j + 1] = "." /\ t[j + 2] = ".")
      BY <1>8, <3>1, <3>3 DEF Clean
    <3>5. j + 1 \in 1..Len(t)
      <4>1. j # Len(t) BY <3>4 DEF Border
      <4> QED BY <4>1, <3>1, <1>1
    <3>6. ref[a + 1] = t[j + 1] BY <3>2, <3>5, <1>2
    <3>7. a + 2 <= Len(ref) => j + 2 <= Len(t) /\ ref[a + 2] = t[j + 2]
      <4>1. a + 2 <= Len(ref) => j + 2 \in 1..Len(t) BY <3>1, <1>1, <1>3
      <4> QED BY <4>1, <3>2, <1>1, <1>2
    <3> QED BY <3>3, <3>4, <3>6, <3>7
  <2> QED BY <2>1, <2>2, <2>3, <1>3
<1> QED BY <1>2, <1>7, <1>8 DEF ref, m

\* A reference of one name.
LEMMA OneName ==
    \A s \in Text : (\A i \in 1..Len(s) : s[i] \in RefBytes)
                      => (Clean(s) <=> NameText(s) /\ s # <<>>)
<1> SUFFICES ASSUME NEW s \in Text, \A i \in 1..Len(s) : s[i] \in RefBytes
             PROVE  Clean(s) <=> NameText(s) /\ s # <<>>
  OBVIOUS
<1>1. Len(s) \in Nat /\ (s = <<>> <=> Len(s) = 0) BY TextLen, Dots
<1>2. \A i \in Int : Border(s, i) <=> i = 0 \/ i = Len(s) + 1
  BY <1>1, SymbolSets DEF Border
<1>3. Clean(s) <=> /\ ~Border(s, 0 + 1)
                   /\ ~(Border(s, 0 + 2) /\ s[0 + 1] = ".")
                   /\ ~(Border(s, 0 + 3) /\ 0 + 2 <= Len(s) /\ s[0 + 1] = "." /\ s[0 + 2] = ".")
  <2>1. \A a \in 0..Len(s) : Border(s, a) <=> a = 0 BY <1>1, <1>2
  <2>2. 0 \in 0..Len(s) BY <1>1
  <2> DEFINE Behind(a) ==
        /\ ~Border(s, a + 1)
        /\ ~(Border(s, a + 2) /\ s[a + 1] = ".")
        /\ ~(Border(s, a + 3) /\ a + 2 <= Len(s) /\ s[a + 1] = "." /\ s[a + 2] = ".")
  <2>3. Clean(s) <=> \A a \in 0..Len(s) : Border(s, a) => Behind(a) BY DEF Clean
  <2> HIDE DEF Behind
  <2>4. Clean(s) <=> Behind(0) BY <2>1, <2>2, <2>3
  <2> QED BY <2>4 DEF Behind
<1>4. /\ Border(s, 1) <=> Len(s) = 0
      /\ Border(s, 2) <=> Len(s) = 1
      /\ Border(s, 3) <=> Len(s) = 2
  <2>1. \A n \in Nat : (1 = n + 1 <=> n = 0) /\ (2 = n + 1 <=> n = 1) /\ (3 = n + 1 <=> n = 2)
    OBVIOUS
  <2>2. /\ Border(s, 1) <=> 1 = Len(s) + 1
        /\ Border(s, 2) <=> 2 = Len(s) + 1
        /\ Border(s, 3) <=> 3 = Len(s) + 1
    BY <1>2
  <2> QED BY <1>1, <2>1, <2>2
<1> QED BY <1>1, <1>3, <1>4 DEF NameText

\* What the code accepts, up to a length.
RefsUpTo(n) ==
    {ref \in Text : /\ Len(ref) \in 1..n
                    /\ \A i \in 1..Len(ref) : ref[i] \in RefBytes \union {"/"}
                    /\ Clean(ref)}

\* A reference is a name, or a name, a separator and a reference.
LEMMA RefsByFirstName ==
    \A n \in Nat : \A ref :
        ref \in RefsUpTo(n) <=>
          \/ \E k \in 1..n : ref \in Names(k)
          \/ \E k \in 1..n - 2 : \E s \in Names(k), t \in RefsUpTo(n - k - 1) :
                ref = Joined(s, t)
<1> SUFFICES ASSUME NEW n \in Nat, NEW ref
             PROVE  ref \in RefsUpTo(n) <=>
                      \/ \E k \in 1..n : ref \in Names(k)
                      \/ \E k \in 1..n - 2 : \E s \in Names(k), t \in RefsUpTo(n - k - 1) :
                            ref = Joined(s, t)
  OBVIOUS
<1>1. ASSUME NEW k \in 1..n, ref \in Names(k) PROVE ref \in RefsUpTo(n)
  <2>1. ref \in Text /\ Len(ref) = k /\ NameText(ref) BY <1>1, NamesAre
  <2>2. Len(ref) \in 1..n /\ ref # <<>> BY <2>1, Dots
  <2>3. Clean(ref) BY <2>1, <2>2, OneName DEF NameText
  <2> QED BY <2>1, <2>2, <2>3 DEF RefsUpTo, NameText
<1>2. ASSUME NEW k \in 1..n - 2, NEW s \in Names(k), NEW t \in RefsUpTo(n - k - 1),
             ref = Joined(s, t)
      PROVE  ref \in RefsUpTo(n)
  <2>1. s \in Text /\ Len(s) = k /\ NameText(s) BY NamesAre
  <2>2. /\ t \in Text /\ Len(t) \in 1..(n - k - 1) /\ Clean(t)
        /\ \A i \in 1..Len(t) : t[i] \in RefBytes \union {"/"}
    BY DEF RefsUpTo
  <2>3. s # <<>> BY <2>1, Dots
  <2> DEFINE all == (s \o separator) \o t
  <2>4. /\ all \in Text /\ Len(all) = Len(s) + 1 + Len(t)
        /\ \A i \in 1..Len(s) : all[i] = s[i]
        /\ all[Len(s) + 1] = "/"
        /\ \A i \in 1..Len(t) : all[Len(s) + 1 + i] = t[i]
        /\ Clean(all) <=> Clean(t)
    BY <2>1, <2>2, <2>3, FirstName
  <2> HIDE DEF all
  <2>5. Len(all) \in 1..n BY <2>1, <2>2, <2>4
  <2>6. ASSUME NEW i \in 1..Len(all) PROVE all[i] \in RefBytes \union {"/"}
    <3>1. CASE i <= k
      <4>1. i \in 1..Len(s) BY <3>1, <2>1, <2>5
      <4> QED BY <4>1, <2>1, <2>4 DEF NameText
    <3>2. CASE i = k + 1 BY <3>2, <2>1, <2>4
    <3>3. CASE i > k + 1
      <4>1. i - k - 1 \in 1..Len(t) /\ k + 1 + (i - k - 1) = i
        BY <3>3, <2>1, <2>2, <2>4
      <4>2. all[k + 1 + (i - k - 1)] = t[i - k - 1] BY <4>1, <2>1, <2>4
      <4> QED BY <4>1, <4>2, <2>2
    <3> QED BY <3>1, <3>2, <3>3
  <2>7. ref = all BY <1>2 DEF all, Joined
  <2> QED BY <2>2, <2>4, <2>5, <2>6, <2>7 DEF RefsUpTo
<1>3. ASSUME ref \in RefsUpTo(n)
      PROVE  \/ \E k \in 1..n : ref \in Names(k)
             \/ \E k \in 1..n - 2 : \E s \in Names(k), t \in RefsUpTo(n - k - 1) :
                   ref = Joined(s, t)
  <2>1. /\ ref \in Text /\ Len(ref) \in 1..n /\ Clean(ref)
        /\ \A i \in 1..Len(ref) : ref[i] \in RefBytes \union {"/"}
    BY <1>3 DEF RefsUpTo
  <2> DEFINE seps == {i \in 1..Len(ref) : ref[i] = "/"}
  <2>2. CASE seps = {}
    <3>1. \A i \in 1..Len(ref) : ref[i] \in RefBytes BY <2>1, <2>2
    <3>2. NameText(ref) BY <2>1, <3>1, OneName
    <3>3. ref \in Names(Len(ref)) BY <2>1, <3>2, NamesAre
    <3> QED BY <2>1, <3>3
  <2>3. CASE seps # {}
    <3>1. seps \in SUBSET Nat BY <2>1
    <3>2. PICK p \in seps : \A j \in seps : p <= j
      <4> HIDE DEF seps
      <4> QED BY <3>1, <2>3, Least
    <3>3. p \in 1..Len(ref) /\ ref[p] = "/" /\ \A i \in 1..Len(ref) : i < p => ref[i] # "/"
      BY <3>2
    <3> HIDE DEF seps
    <3> DEFINE s == SubSeq(ref, 1, p - 1)
               t == SubSeq(ref, p + 1, Len(ref))
               all == (s \o separator) \o t
    <3>4. s \in Text /\ Len(s) = p - 1 /\ \A i \in 1..(p - 1) : s[i] = ref[i]
      <4>1. 1 \in 1..(Len(ref) + 1) /\ p - 1 \in (1 - 1)..Len(ref) BY <2>1, <3>3
      <4>2. /\ s \in Text /\ Len(s) = p - 1 - 1 + 1
            /\ \A i \in 1..(p - 1 - 1 + 1) : s[i] = ref[1 + i - 1]
        BY <2>1, <4>1, TextPart
      <4> HIDE DEF s
      <4> QED BY <4>2, <3>3
    <3>5. t \in Text /\ Len(t) = Len(ref) - p /\ \A i \in 1..(Len(ref) - p) : t[i] = ref[p + i]
      <4>1. p + 1 \in 1..(Len(ref) + 1) /\ Len(ref) \in (p + 1 - 1)..Len(ref) BY <2>1, <3>3
      <4>2. /\ t \in Text /\ Len(t) = Len(ref) - (p + 1) + 1
            /\ \A i \in 1..(Len(ref) - (p + 1) + 1) : t[i] = ref[p + 1 + i - 1]
        BY <2>1, <4>1, TextPart
      <4> HIDE DEF t
      <4> QED BY <4>2, <2>1, <3>3
    <3>6. ref = all
      <4> HIDE DEF s, t
      <4>1. /\ all \in Text /\ Len(all) = Len(s) + Len(separator) + Len(t)
            /\ \A i \in 1..Len(s) : all[i] = s[i]
            /\ \A i \in 1..Len(separator) : all[Len(s) + i] = separator[i]
            /\ \A i \in 1..Len(t) : all[Len(s) + Len(separator) + i] = t[i]
        BY <3>4, <3>5, SeparatorText, TextThree
      <4> HIDE DEF all
      <4>2. Len(all) = Len(ref) BY <4>1, <3>3, <3>4, <3>5, <2>1, SeparatorText
      <4>3. ASSUME NEW i \in 1..Len(ref) PROVE ref[i] = all[i]
        <5>1. CASE i < p
          <6>1. i \in 1..(p - 1) BY <5>1, <3>3
          <6> QED BY <6>1, <3>4, <4>1
        <5>2. CASE i = p
          <6>1. 1 \in 1..Len(separator) /\ Len(s) + 1 = p BY <3>3, <3>4, SeparatorText
          <6> QED BY <6>1, <5>2, <3>3, <4>1, SeparatorText
        <5>3. CASE i > p
          <6>1. i - p \in 1..(Len(ref) - p) /\ p + (i - p) = i /\ p - 1 + 1 + (i - p) = i
            BY <5>3, <3>3
          <6>2. all[p - 1 + 1 + (i - p)] = t[i - p] BY <6>1, <3>4, <3>5, <4>1, SeparatorText
          <6>3. t[i - p] = ref[p + (i - p)] BY <6>1, <3>5
          <6> QED BY <6>1, <6>2, <6>3
        <5> QED BY <5>1, <5>2, <5>3, <3>3
      <4> QED BY <2>1, <4>1, <4>2, <4>3, SameText
    <3> HIDE DEF s, t
    <3>7. \A i \in 1..Len(s) : s[i] \in RefBytes
      <4> SUFFICES ASSUME NEW i \in 1..Len(s) PROVE s[i] \in RefBytes OBVIOUS
      <4>1. i \in 1..(p - 1) /\ i \in 1..Len(ref) /\ i < p BY <3>3, <3>4, <2>1
      <4> QED BY <4>1, <3>3, <3>4, <2>1
    <3>8. Border(ref, p) /\ Border(ref, 0) BY <3>3 DEF Border
    <3>9. s # <<>> /\ NameText(s)
      <4> DEFINE Behind(a) ==
            /\ ~Border(ref, a + 1)
            /\ ~(Border(ref, a + 2) /\ ref[a + 1] = ".")
            /\ ~(Border(ref, a + 3) /\ a + 2 <= Len(ref) /\ ref[a + 1] = "." /\ ref[a + 2] = ".")
      <4>1. \A a \in 0..Len(ref) : Border(ref, a) => Behind(a) BY <2>1 DEF Clean
      <4> HIDE DEF Behind
      <4>2. 0 \in 0..Len(ref) BY <2>1
      <4>3. Behind(0) BY <4>1, <4>2, <3>8
      <4>4. /\ ~Border(ref, 1)
            /\ ~(Border(ref, 2) /\ ref[1] = ".")
            /\ ~(Border(ref, 3) /\ 2 <= Len(ref) /\ ref[1] = "." /\ ref[2] = ".")
        BY <4>3 DEF Behind
      <4>5. p # 1 BY <4>4, <3>8
      <4>6. ~(Len(s) = 1 /\ s[1] = ".")
        <5> SUFFICES ASSUME Len(s) = 1, s[1] = "." PROVE FALSE OBVIOUS
        <5>1. p \in Int /\ p - 1 = 1
          <6>1. p \in Int BY <3>3, <2>1
          <6>2. p - 1 = Len(s) BY <3>4
          <6> QED BY <6>1, <6>2
        <5>2. \A j \in Int : j - 1 = 1 => j = 2 OBVIOUS
        <5>3. p = 2 BY <5>1, <5>2
        <5>4. 1 \in 1..(p - 1) BY <5>3
        <5> QED BY <5>3, <5>4, <3>4, <3>8, <4>4
      <4>7. ~(Len(s) = 2 /\ s[1] = "." /\ s[2] = ".")
        <5> SUFFICES ASSUME Len(s) = 2, s[1] = ".", s[2] = "." PROVE FALSE OBVIOUS
        <5>1. p \in Int /\ p - 1 = 2
          <6>1. p \in Int BY <3>3, <2>1
          <6>2. p - 1 = Len(s) BY <3>4
          <6> QED BY <6>1, <6>2
        <5>2. \A j \in Int : j - 1 = 2 => j = 3 OBVIOUS
        <5>3. p = 3 BY <5>1, <5>2
        <5>4. 1 \in 1..(p - 1) /\ 2 \in 1..(p - 1) BY <5>3
        <5>5. 2 <= Len(ref) BY <5>3, <3>3, <2>1
        <5> QED BY <5>3, <5>4, <5>5, <3>4, <3>8, <4>4
      <4>8. Len(s) # 0 BY <4>5, <3>3, <3>4
      <4> QED BY <4>6, <4>7, <4>8, <3>4, <3>7, Dots DEF NameText
    <3>10. Clean(t)
      <4> HIDE DEF all
      <4>1. Clean(all) <=> Clean(t) BY <3>4, <3>5, <3>9, FirstName DEF all
      <4> QED BY <4>1, <2>1, <3>6
    <3>11. Len(t) >= 1
      <4>1. p # Len(ref)
        <5>1. ~Border(ref, p + 1) BY <2>1, <3>3, <3>8 DEF Clean
        <5> QED BY <5>1 DEF Border
      <4> QED BY <4>1, <3>3, <3>5, <2>1
    <3> DEFINE k == p - 1
    <3>12. k \in 1..n - 2 /\ Len(t) \in 1..(n - k - 1)
      <4>1. Len(s) # 0 BY <3>9, <3>4, Dots
      <4> QED BY <4>1, <3>3, <3>4, <3>5, <3>11, <2>1
    <3>13. s \in Names(k)
      <4>1. k \in Nat BY <3>12
      <4> QED BY <4>1, <3>4, <3>9, NamesAre
    <3>14. t \in RefsUpTo(n - k - 1)
      <4>1. \A i \in 1..Len(t) : t[i] \in RefBytes \union {"/"}
        <5> SUFFICES ASSUME NEW i \in 1..Len(t) PROVE t[i] \in RefBytes \union {"/"} OBVIOUS
        <5>1. i \in 1..(Len(ref) - p) /\ p + i \in 1..Len(ref) BY <3>3, <3>5, <2>1
        <5> QED BY <5>1, <3>5, <2>1
      <4> HIDE DEF k
      <4> QED BY <4>1, <3>5, <3>10, <3>12 DEF RefsUpTo
    <3> HIDE DEF k
    <3> QED BY <3>6, <3>12, <3>13, <3>14 DEF all, Joined
  <2> QED BY <2>2, <2>3
<1> QED BY <1>1, <1>2, <1>3

\* The references of the table are what the code accepts.
LEMMA ReferencesAreValid ==
    \A ref : ref \in References <=> ref \in Text /\ validImageReference(ref)
<1> DEFINE Step(g, n) ==
             (UNION {Names(k) : k \in 1..n})
               \union (UNION {{Joined(s, t) : s \in Names(k), t \in g[n - k - 1]} : k \in 1..n - 2})
           Is(g) == g = [n \in Nat |-> Step(g, n)]
           upTo == CHOOSE g : Is(g)
           refs == [n \in Nat |-> RefsUpTo(n)]
<1>1. References = upTo[maxImageReferenceBytes] BY DEF References, Names, Joined, separator
<1>2. \A g, x : \A n \in Nat :
        x \in Step(g, n) <=>
          \/ \E k \in 1..n : x \in Names(k)
          \/ \E k \in 1..n - 2 : \E s \in Names(k), t \in g[n - k - 1] : x = Joined(s, t)
  OBVIOUS
<1> HIDE DEF Step
<1>3. \A g : \A n \in Nat : (\A m \in Nat : m < n => g[m] = RefsUpTo(m)) => Step(g, n) = RefsUpTo(n)
  <2> SUFFICES ASSUME NEW g, NEW n \in Nat, \A m \in Nat : m < n => g[m] = RefsUpTo(m), NEW x
               PROVE  x \in Step(g, n) <=> x \in RefsUpTo(n)
    OBVIOUS
  <2>1. \A k \in 1..n - 2 : g[n - k - 1] = RefsUpTo(n - k - 1)
    <3> SUFFICES ASSUME NEW k \in 1..n - 2 PROVE g[n - k - 1] = RefsUpTo(n - k - 1) OBVIOUS
    <3>1. n - k - 1 \in Nat /\ n - k - 1 < n OBVIOUS
    <3> QED BY <3>1
  <2>2. x \in Step(g, n) <=>
          \/ \E k \in 1..n : x \in Names(k)
          \/ \E k \in 1..n - 2 : \E s \in Names(k), t \in RefsUpTo(n - k - 1) : x = Joined(s, t)
    BY <1>2, <2>1
  <2>3. x \in RefsUpTo(n) <=>
          \/ \E k \in 1..n : x \in Names(k)
          \/ \E k \in 1..n - 2 : \E s \in Names(k), t \in RefsUpTo(n - k - 1) : x = Joined(s, t)
    BY RefsByFirstName
  <2> QED BY <2>2, <2>3
<1>4. Is(refs)
  <2>1. \A n \in Nat : Step(refs, n) = RefsUpTo(n) BY <1>3
  <2> QED BY <2>1
<1>5. Is(upTo)
  <2> HIDE DEF Is
  <2> QED BY <1>4
<1>6. \A n \in Nat : upTo[n] = Step(upTo, n)
  <2> HIDE DEF upTo
  <2> QED BY <1>5
<1> HIDE DEF upTo
<1>7. \A n \in Nat : upTo[n] = RefsUpTo(n)
  <2> DEFINE S == {n \in Nat : \A m \in Nat : m < n => upTo[m] = RefsUpTo(m)}
  <2>1. 0 \in S OBVIOUS
  <2>2. ASSUME NEW n \in S PROVE n + 1 \in S
    <3>1. upTo[n] = RefsUpTo(n) BY <1>3, <1>6
    <3>2. \A m \in Nat : m < n + 1 => m < n \/ m = n OBVIOUS
    <3> QED BY <3>1, <3>2
  <2>3. S = Nat
    <3> HIDE DEF S
    <3> QED BY <2>1, <2>2, SetInduction DEF S
  <2>4. \A n \in Nat : n \in S BY <2>3
  <2>5. \A n \in S : upTo[n] = RefsUpTo(n) BY <1>3, <1>6
  <2> HIDE DEF S
  <2> QED BY <2>4, <2>5
<1>8. References = RefsUpTo(maxImageReferenceBytes) BY <1>1, <1>7, AllowlistAssumption
<1>9. \A ref \in Text : validImageReference(ref) <=>
         /\ Len(ref) \in 1..maxImageReferenceBytes
         /\ \A i \in 1..Len(ref) : ref[i] \in RefBytes \union {"/"}
         /\ Clean(ref)
  BY SegmentsClean, TextLen DEF validImageReference
<1> QED BY <1>8, <1>9 DEF RefsUpTo

-----------------------------------------------------------------------------
(* Classify and the table.                                                 *)

\* A text a client can write as it is.
Unescapable(s) == s \in Text /\ \A i \in 1..Len(s) : s[i] \in RefBytes \union {"/"}

Undoubled(s) == \A i \in 2..Len(s) : ~(s[i - 1] = "/" /\ s[i] = "/")

\* What stands between the separators of a prefix and of a suffix.
Insert(n) ==
    /\ Unescapable(n) /\ n # <<>> /\ Undoubled(n)
    /\ n[1] # "/" /\ n[Len(n)] # "/"

LEMMA IDsAreValid ==
    \A id : id \in [1..containerIDLength -> Hex] <=> id \in Text /\ validContainerID(id)
<1>1. containerIDLength \in Nat BY AllowlistAssumption
<1>2. \A id \in Text : DOMAIN id = 1..Len(id) BY TextLen
<1> QED BY <1>1, <1>2, Spelt, SymbolSets DEF validContainerID

LEMMA IDsInsert == \A id \in [1..containerIDLength -> Hex] : Insert(id)
<1> SUFFICES ASSUME NEW id \in [1..containerIDLength -> Hex] PROVE Insert(id) OBVIOUS
<1>1. containerIDLength \in Nat \ {0} BY AllowlistAssumption
<1>2. id \in Text /\ Len(id) = containerIDLength /\ \A i \in 1..Len(id) : id[i] \in Hex
  BY <1>1, Spelt, SymbolSets
<1>3. id # <<>> BY <1>1, <1>2, Dots
<1>4. \A i \in 1..Len(id) : id[i] \in RefBytes /\ id[i] # "/" BY <1>2, SymbolSets
<1>5. 1 \in 1..Len(id) /\ Len(id) \in 1..Len(id) /\ \A i \in 2..Len(id) : i \in 1..Len(id)
  BY <1>1, <1>2
<1> QED BY <1>2, <1>3, <1>4, <1>5 DEF Insert, Unescapable, Undoubled

LEMMA ReferencesInsert == \A ref \in References : Insert(ref)
<1> SUFFICES ASSUME NEW ref \in References PROVE Insert(ref) OBVIOUS
<1>1. ref \in Text /\ validImageReference(ref) BY ReferencesAreValid
<1>2. Len(ref) \in Nat /\ DOMAIN ref = 1..Len(ref) BY <1>1, TextLen
<1>3. Len(ref) >= 1 /\ Clean(ref) /\ Unescapable(ref)
  BY <1>1, <1>2, SegmentsClean DEF validImageReference, Unescapable
<1>4. \A a \in 0..Len(ref) : Border(ref, a) => ~Border(ref, a + 1) BY <1>3 DEF Clean
<1>5. ref # <<>> BY <1>1, <1>3, Dots
<1>6. ref[1] # "/"
  <2>1. 0 \in 0..Len(ref) /\ 0 + 1 = 1 /\ 1 \in 1..Len(ref) BY <1>2, <1>3
  <2>2. ~Border(ref, 1) BY <2>1, <1>4 DEF Border
  <2> QED BY <2>1, <2>2 DEF Border
<1>7. ref[Len(ref)] # "/"
  <2>1. Len(ref) \in 0..Len(ref) /\ Len(ref) \in 1..Len(ref) BY <1>2, <1>3
  <2>2. Border(ref, Len(ref) + 1) BY DEF Border
  <2>3. ~Border(ref, Len(ref)) BY <2>1, <2>2, <1>4
  <2> QED BY <2>1, <2>3 DEF Border
<1>8. Undoubled(ref)
  <2> SUFFICES ASSUME NEW i \in 2..Len(ref), ref[i - 1] = "/", ref[i] = "/" PROVE FALSE
    BY DEF Undoubled
  <2>1. i - 1 \in 1..Len(ref) /\ i \in 1..Len(ref) /\ i - 1 \in 0..Len(ref) /\ (i - 1) + 1 = i
    BY <1>2
  <2>2. Border(ref, i - 1) /\ Border(ref, i) BY <2>1 DEF Border
  <2> QED BY <2>1, <2>2, <1>4
<1> QED BY <1>3, <1>5, <1>6, <1>7, <1>8 DEF Insert

\* Two texts one after the other.
LEMMA JoinUndoubled ==
    \A s, t : /\ Unescapable(s) /\ s # <<>> /\ Undoubled(s)
              /\ Unescapable(t) /\ t # <<>> /\ Undoubled(t)
              /\ ~(s[Len(s)] = "/" /\ t[1] = "/")
        => /\ Unescapable(s \o t) /\ s \o t # <<>> /\ Undoubled(s \o t)
           /\ (s \o t)[1] = s[1] /\ (s \o t)[Len(s \o t)] = t[Len(t)]
           /\ Len(s \o t) = Len(s) + Len(t)
<1> SUFFICES ASSUME NEW s, NEW t,
                    Unescapable(s), s # <<>>, Undoubled(s),
                    Unescapable(t), t # <<>>, Undoubled(t),
                    ~(s[Len(s)] = "/" /\ t[1] = "/")
             PROVE  /\ Unescapable(s \o t) /\ s \o t # <<>> /\ Undoubled(s \o t)
                    /\ (s \o t)[1] = s[1] /\ (s \o t)[Len(s \o t)] = t[Len(t)]
                    /\ Len(s \o t) = Len(s) + Len(t)
  OBVIOUS
<1>1. s \in Text /\ t \in Text BY DEF Unescapable
<1>2. Len(s) \in Nat \ {0} /\ Len(t) \in Nat \ {0} BY <1>1, TextLen, Dots
<1> DEFINE u == s \o t
<1>3. /\ u \in Text /\ Len(u) = Len(s) + Len(t)
      /\ \A i \in 1..Len(s) : u[i] = s[i]
      /\ \A i \in (Len(s) + 1)..(Len(s) + Len(t)) : u[i] = t[i - Len(s)]
  BY <1>1, TextJoin
<1> HIDE DEF u
<1>4. Len(u) > 0 /\ u # <<>> BY <1>2, <1>3, Dots
<1>5. u[1] = s[1]
  <2>1. 1 \in 1..Len(s) BY <1>2
  <2> QED BY <2>1, <1>3
<1>6. u[Len(u)] = t[Len(t)]
  <2>1. Len(u) \in (Len(s) + 1)..(Len(s) + Len(t)) /\ Len(u) - Len(s) = Len(t) BY <1>2, <1>3
  <2> QED BY <2>1, <1>3
<1>7. ASSUME NEW i \in 1..Len(u) PROVE u[i] \in RefBytes \union {"/"}
  <2>1. CASE i <= Len(s)
    <3>1. i \in 1..Len(s) BY <2>1, <1>2
    <3> QED BY <3>1, <1>3 DEF Unescapable
  <2>2. CASE i > Len(s)
    <3>1. i \in (Len(s) + 1)..(Len(s) + Len(t)) /\ i - Len(s) \in 1..Len(t) BY <2>2, <1>2, <1>3
    <3> QED BY <3>1, <1>3 DEF Unescapable
  <2> QED BY <2>1, <2>2, <1>2
<1>8. Undoubled(u)
  <2> SUFFICES ASSUME NEW i \in 2..Len(u), u[i - 1] = "/", u[i] = "/" PROVE FALSE
    BY DEF Undoubled
  <2>1. CASE i <= Len(s)
    <3>1. i \in 1..Len(s) /\ i - 1 \in 1..Len(s) /\ i \in 2..Len(s) BY <2>1, <1>2
    <3> QED BY <3>1, <1>3 DEF Undoubled
  <2>2. CASE i = Len(s) + 1
    <3>1. Len(s) \in 1..Len(s) /\ i - 1 = Len(s) BY <2>2, <1>2
    <3>2. i \in (Len(s) + 1)..(Len(s) + Len(t)) /\ i - Len(s) = 1 BY <2>2, <1>2
    <3> QED BY <3>1, <3>2, <1>3
  <2>3. CASE i > Len(s) + 1
    <3> DEFINE j == i - Len(s)
    <3>1. j \in 2..Len(t) /\ i - 1 - Len(s) = j - 1
            /\ i \in (Len(s) + 1)..(Len(s) + Len(t)) /\ i - 1 \in (Len(s) + 1)..(Len(s) + Len(t))
      BY <2>3, <1>2, <1>3
    <3>2. u[i] = t[j] BY <3>1, <1>3
    <3>3. u[i - 1] = t[j - 1] BY <3>1, <1>3
    <3> HIDE DEF j
    <3> QED BY <3>1, <3>2, <3>3 DEF Undoubled
  <2> QED BY <2>1, <2>2, <2>3, <1>2
<1> QED BY <1>3, <1>4, <1>5, <1>6, <1>7, <1>8 DEF u, Unescapable

\* The fixed parts of the paths.
LEMMA FixedParts ==
    /\ Unescapable(versionPrefix) /\ Len(versionPrefix) = 2
    /\ versionPrefix[1] = "/" /\ versionPrefix[2] = "v"
    /\ Unescapable(containerPrefix) /\ Len(containerPrefix) = 3
    /\ containerPrefix[1] = "/" /\ containerPrefix[2] # "/" /\ containerPrefix[3] = "/"
    /\ Unescapable(imagePrefix) /\ Len(imagePrefix) = 3
    /\ imagePrefix[1] = "/" /\ imagePrefix[2] # "/" /\ imagePrefix[3] = "/"
    /\ Unescapable(inspectSuffix) /\ Len(inspectSuffix) = 2
    /\ inspectSuffix[1] = "/" /\ inspectSuffix[2] # "/"
    /\ Unescapable(pingPath) /\ Len(pingPath) = 2
    /\ pingPath[1] = "/" /\ pingPath[2] = "_ping"
<1> DEFINE Good == RefBytes \union {"/"}
<1>1. \A s \in Seq(Good) : Unescapable(s)
  <2>1. Good \subseteq Symbols BY SymbolSets
  <2>2. \A s \in Seq(Good) : s \in Seq(Symbols) BY <2>1, SeqMonotonic
  <2>3. \A s \in Seq(Good) : \A i \in 1..Len(s) : s[i] \in Good BY ElementOfSeq
  <2> QED BY <2>2, <2>3 DEF Unescapable, Text
<1>2. {"/", "v", "json", "containers", "images", "_ping"} \subseteq Good BY SymbolSets
<1> HIDE DEF Good
<1>3. /\ versionPrefix \in Seq(Good) /\ Len(versionPrefix) = 2
      /\ versionPrefix[1] = "/" /\ versionPrefix[2] = "v"
  BY <1>2 DEF versionPrefix
<1>4. /\ containerPrefix \in Seq(Good) /\ Len(containerPrefix) = 3
      /\ containerPrefix[1] = "/" /\ containerPrefix[2] # "/" /\ containerPrefix[3] = "/"
  BY <1>2 DEF containerPrefix
<1>5. /\ imagePrefix \in Seq(Good) /\ Len(imagePrefix) = 3
      /\ imagePrefix[1] = "/" /\ imagePrefix[2] # "/" /\ imagePrefix[3] = "/"
  BY <1>2 DEF imagePrefix
<1>6. /\ inspectSuffix \in Seq(Good) /\ Len(inspectSuffix) = 2
      /\ inspectSuffix[1] = "/" /\ inspectSuffix[2] # "/"
  BY <1>2 DEF inspectSuffix
<1>7. /\ pingPath \in Seq(Good) /\ Len(pingPath) = 2
      /\ pingPath[1] = "/" /\ pingPath[2] = "_ping"
  BY <1>2 DEF pingPath
<1> QED BY <1>1, <1>3, <1>4, <1>5, <1>6, <1>7

\* A documented path, as the table builds it and as the code takes it apart.
FrameOf(v, prefix, n) == (((versionPrefix \o v) \o prefix) \o n) \o inspectSuffix

Three(a, b, c) == (a \o b) \o c

LEMMA ThreeText ==
    \A a, b, c \in Text :
        /\ Three(a, b, c) \in Text /\ Len(Three(a, b, c)) = Len(a) + Len(b) + Len(c)
        /\ \A i \in 1..Len(a) : Three(a, b, c)[i] = a[i]
BY Zenon, TextThree DEF Three

LEMMA Associates == \A a, b, c \in Text : (a \o b) \o c = a \o (b \o c)
<1> SUFFICES ASSUME NEW a \in Text, NEW b \in Text, NEW c \in Text
             PROVE  (a \o b) \o c = a \o (b \o c)
  OBVIOUS
<1> QED BY ConcatAssociative DEF Text

LEMMA FrameParts ==
    \A v, prefix, n \in Text :
        FrameOf(v, prefix, n) = Three(versionPrefix, v, Three(prefix, n, inspectSuffix))
<1> SUFFICES ASSUME NEW v \in Text, NEW prefix \in Text, NEW n \in Text
             PROVE  FrameOf(v, prefix, n)
                      = Three(versionPrefix, v, Three(prefix, n, inspectSuffix))
  OBVIOUS
<1> DEFINE Cat(s, t) == s \o t
           x == inspectSuffix
<1>1. versionPrefix \in Text /\ x \in Text BY FixedParts DEF Unescapable
<1>2. \A s, t \in Text : Cat(s, t) \in Text BY TextJoin
<1>3. \A s, t, u \in Text : Cat(Cat(s, t), u) = Cat(s, Cat(t, u)) BY Associates
<1>4. /\ FrameOf(v, prefix, n) = Cat(Cat(Cat(Cat(versionPrefix, v), prefix), n), x)
      /\ Three(versionPrefix, v, Three(prefix, n, x))
           = Cat(Cat(versionPrefix, v), Cat(Cat(prefix, n), x))
  BY DEF FrameOf, Three
<1> HIDE DEF Cat, x
<1>5. PICK a : a = Cat(versionPrefix, v) OBVIOUS
<1>6. a \in Text BY <1>1, <1>2, <1>5
<1>7. Cat(Cat(Cat(a, prefix), n), x) = Cat(Cat(a, prefix), Cat(n, x)) BY <1>1, <1>2, <1>3, <1>6
<1>8. Cat(Cat(a, prefix), Cat(n, x)) = Cat(a, Cat(prefix, Cat(n, x))) BY <1>1, <1>2, <1>3, <1>6
<1>9. Cat(Cat(prefix, n), x) = Cat(prefix, Cat(n, x)) BY <1>1, <1>3
<1> QED BY <1>4, <1>5, <1>7, <1>8, <1>9 DEF x

LEMMA FramedPaths ==
    \A prefix \in {containerPrefix, imagePrefix} : \A names \in SUBSET Text : \A path \in Text :
        path \in Framed(prefix, names)
          <=> \E rest \in trimAPIVersion(path) : \E n \in names :
                 n \in trimAround(rest, prefix, inspectSuffix)
<1> SUFFICES ASSUME NEW prefix \in {containerPrefix, imagePrefix}, NEW names \in SUBSET Text,
                    NEW path \in Text
             PROVE  path \in Framed(prefix, names)
                      <=> \E rest \in trimAPIVersion(path) : \E n \in names :
                             n \in trimAround(rest, prefix, inspectSuffix)
  OBVIOUS
<1>1. prefix \in Text /\ inspectSuffix \in Text /\ versionPrefix \in Text
        /\ Len(prefix) = 3 /\ prefix[1] = "/"
  BY FixedParts DEF Unescapable
<1>2. path \in Framed(prefix, names)
        <=> \E v \in Versions, n \in names : path = FrameOf(v, prefix, n)
  <2>1. Framed(prefix, names) = {FrameOf(v, prefix, n) : v \in Versions, n \in names}
    BY DEF Framed, FrameOf, versionPrefix
  <2> QED BY <2>1
<1>3. \A v \in Versions : v \in Text BY VersionBytes
<1>4. \A s, n \in Text :
        n \in trimAround(s, prefix, inspectSuffix) <=> s = Three(prefix, n, inspectSuffix)
  <2>1. \A s, p, x, n \in Text : n \in trimAround(s, p, x) <=> s = Three(p, n, x)
    BY Zenon, Around DEF Three
  <2> QED BY <1>1, <2>1
<1>5. \A rest : rest \in trimAPIVersion(path)
        <=> /\ rest \in Text /\ rest # <<>> /\ rest[1] = "/"
            /\ \E v \in Versions : path = Three(versionPrefix, v, rest)
  BY Zenon, Versioned DEF Three
<1>6. ASSUME NEW v \in Versions, NEW n \in names, path = FrameOf(v, prefix, n)
      PROVE  \E rest \in trimAPIVersion(path) : n \in trimAround(rest, prefix, inspectSuffix)
  <2>1. PICK rest : rest = Three(prefix, n, inspectSuffix) OBVIOUS
  <2>2. path = Three(versionPrefix, v, rest) BY <1>1, <1>3, <1>6, <2>1, FrameParts
  <2>3. n \in Text /\ Len(n) \in Nat /\ Len(inspectSuffix) \in Nat /\ 1 \in 1..Len(prefix)
    BY <1>1, TextLen
  <2>4. rest \in Text /\ Len(rest) = Len(prefix) + Len(n) + Len(inspectSuffix)
          /\ rest[1] = prefix[1]
    <3>1. prefix \in Text /\ n \in Text /\ inspectSuffix \in Text BY <1>1, <2>3
    <3>2. \A i \in 1..Len(prefix) : Three(prefix, n, inspectSuffix)[i] = prefix[i]
      BY <3>1, ThreeText
    <3> QED BY <2>1, <2>3, <3>1, <3>2, ThreeText
  <2>5. rest \in Text /\ rest # <<>> /\ rest[1] = "/" BY <1>1, <2>1, <2>3, <2>4, Dots
  <2>6. n \in trimAround(rest, prefix, inspectSuffix) BY <1>4, <2>1, <2>3, <2>5
  <2>7. rest \in trimAPIVersion(path) BY <1>5, <2>2, <2>5
  <2> QED BY <2>6, <2>7
<1>7. ASSUME NEW rest \in trimAPIVersion(path), NEW n \in names,
             n \in trimAround(rest, prefix, inspectSuffix)
      PROVE  \E v \in Versions : path = FrameOf(v, prefix, n)
  <2>1. PICK v \in Versions : rest \in Text /\ path = Three(versionPrefix, v, rest)
    BY <1>5, <1>7
  <2>2. rest = Three(prefix, n, inspectSuffix) BY <1>4, <1>7, <2>1
  <2>3. path = FrameOf(v, prefix, n) BY <1>1, <1>3, <2>1, <2>2, FrameParts
  <2> QED BY <2>3
<1> QED BY <1>2, <1>6, <1>7

\* Nothing in a documented path has to be escaped or doubled.
LEMMA FramedPlain ==
    \A prefix \in {containerPrefix, imagePrefix} : \A v \in Versions : \A n :
        Insert(n) =>
          LET path == FrameOf(v, prefix, n) IN
          /\ Unescapable(path) /\ Undoubled(path) /\ path # <<>>
          /\ path[1] = "/" /\ path # pingPath
<1> SUFFICES ASSUME NEW prefix \in {containerPrefix, imagePrefix}, NEW v \in Versions, NEW n,
                    Insert(n)
             PROVE  LET path == FrameOf(v, prefix, n) IN
                    /\ Unescapable(path) /\ Undoubled(path) /\ path # <<>>
                    /\ path[1] = "/" /\ path # pingPath
  OBVIOUS
<1> DEFINE Fine(s) == Unescapable(s) /\ s # <<>> /\ Undoubled(s)
           Cat(s, t) == s \o t
           a == Cat(versionPrefix, v)
           b == Cat(a, prefix)
           c == Cat(b, n)
           path == Cat(c, inspectSuffix)
<1>1. \A s \in {versionPrefix, containerPrefix, imagePrefix, inspectSuffix} :
        Unescapable(s) /\ s # <<>>
  BY FixedParts, Dots DEF Unescapable
<1>2. Fine(versionPrefix) BY <1>1, FixedParts DEF Undoubled
<1>3. Fine(prefix) BY <1>1, FixedParts DEF Undoubled
<1>4. Fine(inspectSuffix) BY <1>1, FixedParts DEF Undoubled
<1>5. Fine(v) /\ v[Len(v)] # "/" /\ v[1] # "/"
  <2>1. v \in Text /\ v # <<>> /\ \A i \in 1..Len(v) : v[i] \in Digits \union {"."}
    BY VersionBytes
  <2>2. \A i \in 1..Len(v) : v[i] \in RefBytes /\ v[i] # "/" BY <2>1, SymbolSets
  <2>3. Len(v) \in Nat /\ Len(v) # 0 BY <2>1, TextLen, Dots
  <2>4. 1 \in 1..Len(v) /\ Len(v) \in 1..Len(v) /\ \A i \in 2..Len(v) : i \in 1..Len(v)
    BY <2>3
  <2> QED BY <2>1, <2>2, <2>4 DEF Unescapable, Undoubled
<1>6. Fine(n) /\ n[1] # "/" /\ n[Len(n)] # "/" BY DEF Insert
<1>7. \A s, t : Fine(s) /\ Fine(t) /\ ~(s[Len(s)] = "/" /\ t[1] = "/")
        => LET u == Cat(s, t) IN
           Fine(u) /\ u[1] = s[1] /\ u[Len(u)] = t[Len(t)] /\ Len(u) = Len(s) + Len(t)
  BY JoinUndoubled
<1>8. prefix[1] = "/" /\ prefix[Len(prefix)] = "/" /\ inspectSuffix[1] = "/"
        /\ versionPrefix[1] = "/" /\ versionPrefix[Len(versionPrefix)] # "/"
  BY FixedParts
<1>9. Len(v) \in Nat /\ Len(prefix) \in Nat /\ Len(n) \in Nat /\ Len(inspectSuffix) \in Nat
        /\ Len(versionPrefix) = 2 /\ Len(prefix) = 3
  BY <1>4, <1>5, <1>6, FixedParts, TextLen DEF Unescapable
<1> HIDE DEF Fine, Cat
<1>10. Fine(a) /\ a[1] = "/" /\ a[Len(a)] # "/" /\ Len(a) = 2 + Len(v)
  <2>1. LET u == Cat(versionPrefix, v) IN
        /\ Fine(u) /\ u[1] = versionPrefix[1] /\ u[Len(u)] = v[Len(v)]
        /\ Len(u) = Len(versionPrefix) + Len(v)
    BY <1>2, <1>5, <1>7
  <2> QED BY <2>1, <1>5, <1>8, <1>9
<1> HIDE DEF a
<1>11. Fine(b) /\ b[1] = "/" /\ b[Len(b)] = "/" /\ Len(b) = Len(a) + 3
  <2>1. LET u == Cat(a, prefix) IN
        /\ Fine(u) /\ u[1] = a[1] /\ u[Len(u)] = prefix[Len(prefix)]
        /\ Len(u) = Len(a) + Len(prefix)
    BY <1>3, <1>7, <1>10
  <2> QED BY <2>1, <1>8, <1>9, <1>10
<1> HIDE DEF b
<1>12. Fine(c) /\ c[1] = "/" /\ c[Len(c)] # "/" /\ Len(c) = Len(b) + Len(n)
  BY <1>6, <1>7, <1>9, <1>11
<1> HIDE DEF c
<1>13. Fine(path) /\ path[1] = "/" /\ Len(path) = Len(c) + Len(inspectSuffix)
  BY <1>4, <1>7, <1>8, <1>9, <1>12
<1> HIDE DEF path
<1>14. Len(path) # 2 BY <1>9, <1>10, <1>11, <1>12, <1>13
<1>15. path # pingPath BY <1>14, FixedParts
<1>16. FrameOf(v, prefix, n) = path BY DEF FrameOf, path, c, b, a, Cat
<1> QED BY <1>13, <1>15, <1>16 DEF Fine

\* A text a client can write as it is, is what the server reads.
LEMMA PlainText ==
    \A s : Unescapable(s) =>
        /\ URLPath(s) = s /\ ~HasRawPath(s)
        /\ \A i \in DOMAIN s : s[i] \notin {"%", "\\"}
<1> SUFFICES ASSUME NEW s, Unescapable(s)
             PROVE  /\ URLPath(s) = s /\ ~HasRawPath(s)
                    /\ \A i \in DOMAIN s : s[i] \notin {"%", "\\"}
  OBVIOUS
<1>1. s \in Seq(Symbols) /\ DOMAIN s = 1..Len(s) BY TextLen DEF Unescapable, Text
<1>2. \A e \in RefBytes \union {"/"} :
        e \notin DOMAIN Escapes /\ e \notin {"%", "\\"}
  BY DEF Escapes, RefBytes, Hex, Digits, Words
<1>3. \A e \in RefBytes \union {"/"} : Unescaped(e) = e /\ Escaped(e) = e
  BY <1>2 DEF Unescaped, Escaped
<1>4. \A i \in DOMAIN s : s[i] \in RefBytes \union {"/"} BY <1>1 DEF Unescapable
<1>5. s = [i \in DOMAIN s |-> s[i]] BY <1>1
<1>6. URLPath(s) = s BY <1>3, <1>4, <1>5 DEF URLPath
<1> QED BY <1>2, <1>3, <1>4, <1>6 DEF HasRawPath

\* The code takes apart what the table puts together.
LEMMA ContainerPaths ==
    \A path \in Text :
        path \in Framed(containerPrefix, [1..containerIDLength -> Hex])
          <=> \E rest \in trimAPIVersion(path) :
                 \E id \in trimAround(rest, containerPrefix, inspectSuffix) : validContainerID(id)
<1> SUFFICES ASSUME NEW path \in Text
             PROVE  path \in Framed(containerPrefix, [1..containerIDLength -> Hex])
                      <=> \E rest \in trimAPIVersion(path) :
                             \E id \in trimAround(rest, containerPrefix, inspectSuffix) :
                                validContainerID(id)
  OBVIOUS
<1> DEFINE IDs == [1..containerIDLength -> Hex]
<1>1. \A id : id \in IDs <=> id \in Text /\ validContainerID(id) BY IDsAreValid
<1> HIDE DEF IDs
<1>2. IDs \in SUBSET Text BY <1>1
<1>3. path \in Framed(containerPrefix, IDs)
        <=> \E rest \in trimAPIVersion(path) : \E id \in IDs :
               id \in trimAround(rest, containerPrefix, inspectSuffix)
  BY <1>2, FramedPaths
<1>4. containerPrefix \in Text /\ inspectSuffix \in Text BY FixedParts DEF Unescapable
<1>5. \A rest \in trimAPIVersion(path) : rest \in Text BY Versioned
<1>6. \A rest \in trimAPIVersion(path) :
        trimAround(rest, containerPrefix, inspectSuffix) \subseteq Text
  BY <1>4, <1>5, AroundText
<1>7. path \in Framed(containerPrefix, IDs)
        <=> \E rest \in trimAPIVersion(path) :
               \E id \in trimAround(rest, containerPrefix, inspectSuffix) : validContainerID(id)
  BY <1>1, <1>3, <1>6
<1> QED BY <1>7 DEF IDs

LEMMA ImagePaths ==
    \A path \in Text :
        path \in Framed(imagePrefix, References)
          <=> \E rest \in trimAPIVersion(path) :
                 \E ref \in trimAround(rest, imagePrefix, inspectSuffix) : validImageReference(ref)
<1> SUFFICES ASSUME NEW path \in Text
             PROVE  path \in Framed(imagePrefix, References)
                      <=> \E rest \in trimAPIVersion(path) :
                             \E ref \in trimAround(rest, imagePrefix, inspectSuffix) :
                                validImageReference(ref)
  OBVIOUS
<1>1. References \in SUBSET Text BY ReferencesAreValid
<1>2. path \in Framed(imagePrefix, References)
        <=> \E rest \in trimAPIVersion(path) : \E ref \in References :
               ref \in trimAround(rest, imagePrefix, inspectSuffix)
  BY <1>1, FramedPaths
<1>3. imagePrefix \in Text /\ inspectSuffix \in Text BY FixedParts DEF Unescapable
<1>4. \A rest \in trimAPIVersion(path) : rest \in Text BY Versioned
<1>5. \A rest \in trimAPIVersion(path) :
        trimAround(rest, imagePrefix, inspectSuffix) \subseteq Text
  BY <1>3, <1>4, AroundText
<1> QED BY <1>2, <1>5, ReferencesAreValid

\* A path of the table needs no spelling but its own.
Fair(path) ==
    /\ Unescapable(path) /\ Undoubled(path) /\ path # <<>> /\ path[1] = "/"

LEMMA TableFair ==
    /\ Fair(pingPath)
    /\ \A path \in Framed(containerPrefix, [1..containerIDLength -> Hex]) :
          Fair(path) /\ path # pingPath
    /\ \A path \in Framed(imagePrefix, References) : Fair(path) /\ path # pingPath
<1>1. Fair(pingPath)
  <2>1. Len(pingPath) = 2 /\ pingPath[2] = "_ping" /\ pingPath \in Text /\ pingPath[1] = "/"
    BY FixedParts DEF Unescapable
  <2>2. pingPath # <<>> BY <2>1, Dots
  <2>3. Undoubled(pingPath)
    <3>1. \A i \in 2..2 : i = 2 OBVIOUS
    <3> QED BY <2>1, <3>1 DEF Undoubled
  <2> QED BY <2>1, <2>2, <2>3, FixedParts DEF Fair
<1>2. ASSUME NEW prefix \in {containerPrefix, imagePrefix}, NEW names,
             \A n \in names : Insert(n), NEW path \in Framed(prefix, names)
      PROVE  Fair(path) /\ path # pingPath
  <2>1. Framed(prefix, names) = {FrameOf(v, prefix, n) : v \in Versions, n \in names}
    BY DEF Framed, FrameOf, versionPrefix
  <2>2. PICK v \in Versions, n \in names : path = FrameOf(v, prefix, n) BY <2>1
  <2>3. Insert(n) BY <1>2
  <2> QED BY <2>2, <2>3, FramedPlain DEF Fair
<1> DEFINE IDs == [1..containerIDLength -> Hex]
<1>3. \A id \in IDs : Insert(id) BY IDsInsert
<1> HIDE DEF IDs
<1>4. \A path \in Framed(containerPrefix, IDs) : Fair(path) /\ path # pingPath BY <1>2, <1>3
<1>5. \A path \in Framed(imagePrefix, References) : Fair(path) /\ path # pingPath
  BY <1>2, ReferencesInsert
<1> QED BY <1>1, <1>4, <1>5 DEF IDs

LEMMA FairPlain ==
    \A q : Fair(q.target) => (Plain(q) <=> ~q.body /\ q.query = "none" /\ q.form = "origin")
<1> SUFFICES ASSUME NEW q, Fair(q.target)
             PROVE  Plain(q) <=> ~q.body /\ q.query = "none" /\ q.form = "origin"
  OBVIOUS
<1> DEFINE s == q.target
<1>1. URLPath(s) = s /\ ~HasRawPath(s) /\ \A i \in DOMAIN s : s[i] \notin {"%", "\\"}
  BY PlainText DEF Fair
<1>2. s # <<>> /\ s[1] = "/" BY DEF Fair
<1>3. \A i \in 2..Len(s) : <<s[i - 1], s[i]>> # <<"/", "/">> BY DEF Fair, Undoubled
<1> QED BY <1>1, <1>2, <1>3 DEF Plain

\* Classify reports a route exactly for the requests the table of the README gives
\* one, and the route it reports is one the table gives (README.md:9-13).
THEOREM ClassifyIsTable ==
    \A q \in Inputs :
        /\ Classify(q) \in IF Routes(q) = {} THEN {"none"} ELSE Routes(q)
        /\ Classify(q) = "ping" => Routes(q) \intersect {"container", "image"} = {}
        /\ Routes(q) \subseteq {"ping", "container", "image"}
<1> SUFFICES ASSUME NEW q \in Inputs
             PROVE  /\ Classify(q) \in IF Routes(q) = {} THEN {"none"} ELSE Routes(q)
                    /\ Classify(q) = "ping" => Routes(q) \intersect {"container", "image"} = {}
                    /\ Routes(q) \subseteq {"ping", "container", "image"}
  OBVIOUS
<1> DEFINE path == q.target
           IDs == [1..containerIDLength -> Hex]
           C == \E rest \in trimAPIVersion(path) :
                   \E id \in trimAround(rest, containerPrefix, inspectSuffix) : validContainerID(id)
           I == \E rest \in trimAPIVersion(path) :
                   \E ref \in trimAround(rest, imagePrefix, inspectSuffix) : validImageReference(ref)
           Sent == q.form = "origin" /\ q.query = "none" /\ ~q.body
<1>1. path \in Text BY AllowlistAssumption DEF Text
<1>2. C <=> path \in Framed(containerPrefix, IDs) BY <1>1, ContainerPaths
<1>3. I <=> path \in Framed(imagePrefix, References) BY <1>1, ImagePaths
<1>4. /\ path = pingPath \/ C \/ I => (Plain(q) <=> Sent)
      /\ C \/ I => path # pingPath
  <2>1. path = pingPath \/ C \/ I => Fair(path) BY <1>2, <1>3, TableFair
  <2>2. C \/ I => path # pingPath BY <1>2, <1>3, TableFair
  <2> HIDE DEF C, I
  <2> QED BY <2>1, <2>2, FairPlain
<1>5. Plain(q) => Sent BY DEF Plain
<1>6. Classify(q) =
        CASE ~Plain(q) -> "none"
          [] Plain(q) /\ path = pingPath -> IF q.method \in {"HEAD", "GET"} THEN "ping" ELSE "none"
          [] Plain(q) /\ path # pingPath ->
                CASE q.method # "GET" -> "none"
                  [] q.method = "GET" /\ C -> "container"
                  [] q.method = "GET" /\ I -> "image"
                  [] OTHER -> "none"
  <2> DEFINE Parts(prefix) == UNION {trimAround(s, prefix, inspectSuffix) : s \in trimAPIVersion(path)}
  <2>1. C <=> \E id \in Parts(containerPrefix) : validContainerID(id) OBVIOUS
  <2>2. I <=> \E ref \in Parts(imagePrefix) : validImageReference(ref) OBVIOUS
  <2> HIDE DEF C, I
  <2> QED BY <2>1, <2>2 DEF Classify
<1>7. /\ Documented(q, "ping") <=> Sent /\ q.method \in {"HEAD", "GET"} /\ path = pingPath
      /\ Documented(q, "container") <=> Sent /\ q.method = "GET" /\ C
      /\ Documented(q, "image") <=> Sent /\ q.method = "GET" /\ I
      /\ DOMAIN Table = {"ping", "container", "image"}
  <2>1. /\ Table["ping"] = {pingPath} /\ Table["container"] = Framed(containerPrefix, IDs)
        /\ Table["image"] = Framed(imagePrefix, References)
        /\ DOMAIN Table = {"ping", "container", "image"}
    BY DEF Table
  <2> HIDE DEF C, I, IDs
  <2> QED BY <1>2, <1>3, <2>1 DEF Documented
<1> HIDE DEF C, I, IDs, path, Sent
<1>8. Routes(q) = {route \in {"ping", "container", "image"} : Documented(q, route)}
  BY <1>7 DEF Routes
<1> QED BY <1>4, <1>5, <1>6, <1>7, <1>8

-----------------------------------------------------------------------------
(* The buffers and the verdicts.                                           *)

Places  == {"new", "read", "close", "judge", "write", "return", "done"}
Holding == {"read", "close", "write", "return"}

RTypes ==
    /\ pc \in [Requests -> Places]
    /\ body \in [Requests -> Bodies]
    /\ buf \in [Requests -> Buffers \union {None}]
    /\ pool \subseteq Buffers
    /\ content \in [Buffers -> Seq(Requests)]
    /\ cap \in [Buffers -> Nat]
    /\ result \in [Requests -> Results]
    /\ DOMAIN sent = Requests /\ DOMAIN relayed = Requests

\* A request has a buffer exactly while it uses one, nobody else has it, and the
\* pool does not.
Owners ==
    \A r \in Requests :
        /\ buf[r] # None <=> pc[r] \in Holding
        /\ buf[r] \notin pool
        /\ \A q \in Requests : q # r /\ buf[r] # None => buf[q] # buf[r]

\* What is in a buffer that is being filled, or is about to be written.
Contents ==
    \A r \in Requests :
        /\ pc[r] = "read" =>
              /\ Len(content[buf[r]]) <= maxBytes + 1
              /\ Len(content[buf[r]]) <= body[r].len
              /\ \A i \in DOMAIN content[buf[r]] : content[buf[r]][i] = r
        /\ pc[r] = "write" => content[buf[r]] = <<r>>

\* What decodeJSON returned where, and what that lets the request do.
Verdicts ==
    \A r \in Requests :
        /\ pc[r] \in {"new", "read"} => result[r] = "none"
        /\ pc[r] \in {"write", "return"} =>
              /\ result[r] = "ok"
              /\ relayed[r] = filterLabels(body[r].labels)
        /\ pc[r] \in Places \ {"return", "done"} => sent[r] = <<>>
        /\ sent[r] \in {<<>>, <<r>>}
        /\ sent[r] # <<>> => result[r] = "ok" /\ relayed[r] = filterLabels(body[r].labels)

RInv == RTypes /\ Owners /\ Contents /\ Verdicts /\ VerdictOfWholeBody /\ MemoryBounded

\* The numbers of a body, and that None is no buffer.
LEMMA Givens ==
    /\ None \notin Buffers
    /\ maxBytes \in Nat /\ maxPooledBuffer \in Nat /\ MinRead \in Nat
    /\ \A b \in Bodies : b.len \in Nat /\ b.hint \in Int /\ b.value \in Nat
BY RelayAssumption DEF AllBodies

LEMMA RelayInit == Init => RInv
BY Givens DEF Init, RInv, RTypes, Owners, Contents, Verdicts, VerdictOfWholeBody, MemoryBounded,
    Places, Holding, Results

\* The largest need there can be; growing to a need stays below twice that.
Most == maxBytes + 1 + MinRead

LEMMA GrownBound ==
    ASSUME NEW old \in Nat, NEW need \in Nat, old <= 2 * Most, need <= Most
    PROVE  Grown(old, need) \in Nat /\ Grown(old, need) <= 2 * Most
<1> Most \in Nat BY Givens DEF Most
<1> QED BY DEF Grown

\* Filling a buffer up.
LEMMA Filled ==
    ASSUME NEW r \in Requests, NEW n \in Nat, NEW old \in Seq(Requests),
           \A i \in DOMAIN old : old[i] = r
    PROVE  LET new == old \o [i \in 1..n |-> r] IN
           /\ new \in Seq(Requests) /\ Len(new) = Len(old) + n
           /\ \A i \in DOMAIN new : new[i] = r
<1> DEFINE more == [i \in 1..n |-> r]
           new  == old \o more
<1>1. more \in Seq(Requests) OBVIOUS
<1>2. Len(more) = n OBVIOUS
<1>3. new \in Seq(Requests) /\ Len(new) = Len(old) + n
  <2> HIDE DEF more
  <2> QED BY <1>1, <1>2
<1>4. ASSUME NEW i \in 1..(Len(old) + n) PROVE new[i] = r
  <2>1. new[i] = IF i <= Len(old) THEN old[i] ELSE more[i - Len(old)]
    <3> HIDE DEF more
    <3> QED BY <1>1, <1>2
  <2>2. CASE i <= Len(old) BY <2>1, <2>2
  <2>3. CASE i > Len(old)
    <3>1. i - Len(old) \in 1..n BY <2>3
    <3> QED BY <2>1, <2>3, <3>1
  <2> QED BY <2>2, <2>3
<1> HIDE DEF new
<1>5. DOMAIN new = 1..(Len(old) + n) BY <1>3
<1> QED BY <1>3, <1>4, <1>5 DEF new

\* A buffer somebody gets was nobody's.
LEMMA Unowned ==
    ASSUME RInv, NEW r \in Requests, NEW b \in Buffers, Get(r, b)
    PROVE  \A q \in Requests : buf[q] # b
BY DEF RInv, RTypes, Owners, Get, Fresh

\* The steps of a request, as far as its buffer goes: getting one, giving it
\* back, and keeping what it has.
LEMMA GetKeepsOwners ==
    ASSUME RInv, NEW r \in Requests, NEW b \in Buffers, Get(r, b),
           NEW to \in Holding, pc' = [pc EXCEPT ![r] = to]
    PROVE  Owners'
BY Unowned, Givens DEF RInv, RTypes, Owners, Get, Holding

LEMMA PutKeepsOwners ==
    ASSUME RInv, NEW r \in Requests, putBuffer(r), pc[r] \in Holding,
           NEW to \in Places \ Holding, pc' = [pc EXCEPT ![r] = to]
    PROVE  Owners' /\ pool' \subseteq Buffers /\ MemoryBounded'
BY Givens DEF RInv, RTypes, Owners, putBuffer, Holding, MemoryBounded

\* A buffer that was just taken is empty, or holds the reply; the others are as
\* they were.
LEMMA GotContents ==
    ASSUME RInv, NEW r \in Requests, NEW b \in Buffers, buf'[r] = b, body' = body,
           \/ pc'[r] = "read" /\ content'[b] = <<>>
           \/ pc'[r] = "write" /\ content'[b] = <<r>>,
           \A q \in Requests : q # r =>
              /\ pc'[q] = pc[q] /\ buf'[q] = buf[q]
              /\ pc[q] \in Holding => content'[buf[q]] = content[buf[q]]
    PROVE  Contents'
<1>1. body[r].len \in Nat /\ maxBytes \in Nat BY Givens DEF RInv, RTypes
<1>2. Len(<<>>) = 0 /\ DOMAIN <<>> = {} OBVIOUS
<1>3. ASSUME NEW q \in Requests, pc'[q] = "read"
      PROVE  /\ Len(content'[buf'[q]]) <= maxBytes + 1 /\ Len(content'[buf'[q]]) <= body[q].len
             /\ \A i \in DOMAIN content'[buf'[q]] : content'[buf'[q]][i] = q
  <2>1. CASE q = r
    <3>1. content'[buf'[q]] = <<>> BY <1>3, <2>1
    <3>2. body[q].len \in Nat BY <1>1, <2>1
    <3> QED BY <1>1, <1>2, <3>1, <3>2
  <2>2. CASE q # r
    <3>1. pc[q] = "read" /\ content'[buf'[q]] = content[buf[q]] BY <1>3, <2>2 DEF Holding
    <3> QED BY <3>1 DEF RInv, Contents
  <2> QED BY <2>1, <2>2
<1>4. ASSUME NEW q \in Requests, pc'[q] = "write" PROVE content'[buf'[q]] = <<q>>
  <2>1. CASE q = r BY <1>4, <2>1
  <2>2. CASE q # r BY <1>4, <2>2 DEF RInv, Contents, Holding
  <2> QED BY <2>1, <2>2
<1> QED BY <1>3, <1>4 DEF Contents

LEMMA RelayNext == RInv /\ [Next]_vars => RInv'
<1> SUFFICES ASSUME RInv, [Next]_vars PROVE RInv' OBVIOUS
<1> USE Givens
<1> USE DEF RInv, RTypes, Goto, Places, Holding, Results, store, told
<1>1. ASSUME NEW r \in Requests, Deny(r) PROVE RInv'
  BY <1>1 DEF Deny, Owners, Contents, Verdicts, VerdictOfWholeBody, MemoryBounded
<1>2. ASSUME NEW r \in Requests, Open(r) PROVE RInv'
  <2> PICK b \in Buffers :
        /\ Get(r, b)
        /\ content' = [content EXCEPT ![b] = Start(b)]
        /\ cap' = [cap EXCEPT ![b] = IF HintUsed(r) THEN Grown(Room(b), body[r].hint) ELSE Room(b)]
    BY <1>2 DEF Open
  <2>1. Owners' BY <1>2, GetKeepsOwners DEF Open
  <2>2. Room(b) \in Nat /\ Room(b) <= 2 * Most BY DEF Room, MemoryBounded, Most
  <2>3. cap'[b] \in Nat /\ cap'[b] <= 2 * Most
    <3>1. cap'[b] = IF HintUsed(r) THEN Grown(Room(b), body[r].hint) ELSE Room(b) OBVIOUS
    <3>2. HintUsed(r) => body[r].hint \in Nat /\ body[r].hint <= Most BY DEF HintUsed, Most
    <3> HIDE DEF RInv
    <3>3. CASE HintUsed(r) BY <2>2, <3>1, <3>2, <3>3, GrownBound
    <3> QED BY <2>2, <3>1, <3>3
  <2>4. RTypes' BY <1>2, <2>3 DEF Open, Get, Start
  <2>5. MemoryBounded' BY <2>3 DEF MemoryBounded, Get, Most
  <2>6. Contents'
    <3> HIDE DEF RInv
    <3>1. content'[b] = <<>> /\ buf'[r] = b /\ pc'[r] = "read" /\ body' = body
      BY <1>2 DEF Open, Get, Start, RInv
    <3>2. \A q \in Requests : buf[q] # b BY Unowned
    <3>3. ASSUME NEW q \in Requests, q # r
          PROVE  /\ pc'[q] = pc[q] /\ buf'[q] = buf[q]
                 /\ pc[q] \in Holding => content'[buf[q]] = content[buf[q]]
      BY <1>2, <3>2, <3>3 DEF Open, Get, RInv, Owners
    <3> QED BY <3>1, <3>3, GotContents
  <2>7. Verdicts' /\ VerdictOfWholeBody' BY <1>2 DEF Open, Verdicts, VerdictOfWholeBody
  <2> QED BY <2>1, <2>4, <2>5, <2>6, <2>7
<1>3. ASSUME NEW r \in Requests, pc[r] = "read", MakeRoom(r), Got(r) <= maxBytes + 1
      PROVE  cap' \in [Buffers -> Nat] /\ (pool' = pool => MemoryBounded')
  <2>1. buf[r] \in Buffers \ pool BY <1>3 DEF Owners
  <2>2. Got(r) \in Nat BY <2>1 DEF Got
  <2>3. cap'[buf[r]] = Grown(cap[buf[r]], Got(r) + MinRead) BY <1>3, <2>1 DEF MakeRoom
  <2>4. cap[buf[r]] \in Nat /\ cap[buf[r]] <= 2 * Most BY <2>1 DEF MemoryBounded, Most
  <2>5. Got(r) + MinRead \in Nat /\ Got(r) + MinRead <= Most BY <1>3, <2>2 DEF Most
  <2>6. cap'[buf[r]] \in Nat /\ cap'[buf[r]] <= 2 * Most
    <3> HIDE DEF RInv
    <3> QED BY <2>3, <2>4, <2>5, GrownBound
  <2> QED BY <1>3, <2>1, <2>6 DEF MakeRoom, MemoryBounded, Most
<1>4. ASSUME NEW r \in Requests, Read(r) PROVE RInv'
  <2> PICK n \in 1..body[r].len :
        /\ Got(r) + n <= Readable /\ Got(r) + n <= body[r].len
        /\ content' = [content EXCEPT ![buf[r]] = @ \o [i \in 1..n |-> r]]
    BY <1>4 DEF Read
  <2>1. buf[r] \in Buffers /\ n \in Nat /\ pc' = pc BY <1>4 DEF Owners, Read
  <2> DEFINE old == content[buf[r]]
             new == old \o [i \in 1..n |-> r]
  <2>2. old \in Seq(Requests) /\ \A i \in DOMAIN old : old[i] = r
    BY <1>4, <2>1 DEF Read, Contents
  <2>3. content'[buf[r]] = new BY <2>1
  <2>4. new \in Seq(Requests) /\ Len(new) = Len(old) + n BY <2>1, <2>2, Filled
  <2>5. \A i \in DOMAIN new : new[i] = r BY <2>1, <2>2, Filled
  <2>6. Len(new) <= maxBytes + 1 /\ Len(new) <= body[r].len
    BY <2>4 DEF Got, Readable
  <2> HIDE DEF new
  <2>7. cap' \in [Buffers -> Nat] /\ MemoryBounded'
    BY <1>3, <1>4 DEF Read, Contents, Got
  <2>8. RTypes' BY <1>4, <2>3, <2>4, <2>7 DEF Read
  <2>9. Contents' BY <1>4, <2>1, <2>3, <2>5, <2>6 DEF Read, Contents, Owners
  <2>10. Owners' /\ Verdicts' /\ VerdictOfWholeBody'
    BY <1>4, <2>1 DEF Read, Owners, Verdicts, VerdictOfWholeBody
  <2> QED BY <2>7, <2>8, <2>9, <2>10
<1>5. ASSUME NEW r \in Requests, Break(r) PROVE RInv'
  <2>1. cap' \in [Buffers -> Nat] /\ MemoryBounded' BY <1>3, <1>5 DEF Break, Contents, Got
  <2>2. RTypes' BY <1>5, <2>1 DEF Break
  <2>3. Owners' BY <1>5 DEF Break, Owners
  <2>4. Contents' BY <1>5 DEF Break, Contents
  <2>5. Verdicts' BY <1>5 DEF Break, Verdicts
  <2>6. body[r].ends = "break" /\ body[r].len <= maxBytes + 1
    BY <1>5 DEF Break, Contents, Got
  <2>7. VerdictOfWholeBody' BY <1>5, <2>6 DEF Break, VerdictOfWholeBody
  <2> QED BY <2>1, <2>2, <2>3, <2>4, <2>5, <2>7
<1>6. ASSUME NEW r \in Requests, Decode(r) PROVE RInv'
  <2>1. cap' \in [Buffers -> Nat] /\ MemoryBounded' BY <1>3, <1>6 DEF Decode, Contents, Got
  <2>2. RTypes' BY <1>6, <2>1 DEF Decode
  <2>3. Owners' BY <1>6 DEF Decode, Owners
  <2>4. Contents' BY <1>6 DEF Decode, Contents
  <2>5. Verdicts' BY <1>6 DEF Decode, Verdicts
  <2>6. buf[r] \in Buffers /\ Got(r) \in Nat BY <1>6 DEF Decode, Owners, Got
  <2>7. Got(r) <= maxBytes + 1 /\ Got(r) <= body[r].len BY <1>6 DEF Decode, Contents, Got
  <2>8. IF Got(r) > maxBytes THEN body[r].len > maxBytes
        ELSE body[r].ends = "eof" /\ body[r].len <= maxBytes /\ Got(r) = body[r].len
    BY <1>6, <2>6, <2>7 DEF Decode, Readable
  <2>9. result'[r] = IF Got(r) > maxBytes THEN "tooLarge"
                     ELSE IF Unmarshals(body[r], Got(r)) THEN "ok" ELSE "invalid"
    BY <1>6 DEF Decode
  <2>10. /\ result'[r] \in {"tooLarge", "ok", "invalid"}
         /\ result'[r] = "tooLarge" => body[r].len > maxBytes
         /\ result'[r] = "ok" => /\ body[r].ends = "eof" /\ body[r].len <= maxBytes
                                 /\ Unmarshals(body[r], body[r].len)
         /\ result'[r] = "invalid" => /\ body[r].ends = "eof" /\ body[r].len <= maxBytes
                                      /\ ~Unmarshals(body[r], body[r].len)
    BY <2>8, <2>9
  <2>11. \A q \in Requests : q # r => result'[q] = result[q] BY <1>6 DEF Decode
  <2>12. VerdictOfWholeBody'
    BY <1>6, <2>10, <2>11 DEF Decode, VerdictOfWholeBody
  <2> QED BY <2>1, <2>2, <2>3, <2>4, <2>5, <2>12
<1>7. ASSUME NEW r \in Requests, Close(r) PROVE RInv'
  <2>1. Owners' /\ pool' \subseteq Buffers /\ MemoryBounded' BY <1>7, PutKeepsOwners DEF Close
  <2>2. RTypes' BY <1>7, <2>1 DEF Close, putBuffer
  <2>3. Contents' BY <1>7 DEF Close, putBuffer, Contents
  <2>4. Verdicts' /\ VerdictOfWholeBody' BY <1>7 DEF Close, Verdicts, VerdictOfWholeBody
  <2> QED BY <2>1, <2>2, <2>3, <2>4
<1>8. ASSUME NEW r \in Requests, Refuse(r) PROVE RInv'
  BY <1>8 DEF Refuse, Owners, Contents, Verdicts, VerdictOfWholeBody, MemoryBounded
<1>9. ASSUME NEW r \in Requests, Encode(r) PROVE RInv'
  <2> PICK b \in Buffers :
        /\ Get(r, b)
        /\ content' = [content EXCEPT ![b] = Append(Start(b), r)]
        /\ cap' = [cap EXCEPT ![b] = Grown(Room(b), Len(Start(b)) + 1)]
    BY <1>9 DEF Encode
  <2>1. Owners' BY <1>9, GetKeepsOwners DEF Encode
  <2>2. content'[b] = <<r>> /\ Len(Start(b)) + 1 = 1 BY DEF Start
  <2>3. Room(b) \in Nat /\ Room(b) <= 2 * Most BY DEF Room, MemoryBounded, Most
  <2>4. cap'[b] \in Nat /\ cap'[b] <= 2 * Most
    <3>1. cap'[b] = Grown(Room(b), 1) BY <2>2
    <3>2. 1 <= Most BY DEF Most
    <3> HIDE DEF RInv
    <3> QED BY <2>3, <3>1, <3>2, GrownBound
  <2>5. <<r>> \in Seq(Requests) OBVIOUS
  <2>6. content' \in [Buffers -> Seq(Requests)]
    <3>1. content' = [content EXCEPT ![b] = <<r>>] BY DEF Start
    <3> QED BY <2>5, <3>1
  <2>7. RTypes' BY <1>9, <2>4, <2>6 DEF Encode, Get
  <2>8. MemoryBounded' BY <2>4 DEF MemoryBounded, Get, Most
  <2>9. Contents'
    <3> HIDE DEF RInv
    <3>1. buf'[r] = b /\ pc'[r] = "write" /\ body' = body BY <1>9 DEF Encode, Get, RInv
    <3>2. \A q \in Requests : buf[q] # b BY Unowned
    <3>3. ASSUME NEW q \in Requests, q # r
          PROVE  /\ pc'[q] = pc[q] /\ buf'[q] = buf[q]
                 /\ pc[q] \in Holding => content'[buf[q]] = content[buf[q]]
      BY <1>9, <3>2, <3>3 DEF Encode, Get, RInv, Owners
    <3> QED BY <2>2, <3>1, <3>3, GotContents
  <2>10. Verdicts' /\ VerdictOfWholeBody' BY <1>9 DEF Encode, Verdicts, VerdictOfWholeBody
  <2> QED BY <2>1, <2>7, <2>8, <2>9, <2>10
<1>10. ASSUME NEW r \in Requests, Write(r) PROVE RInv'
  BY <1>10 DEF Write, Owners, Contents, Verdicts, VerdictOfWholeBody, MemoryBounded
<1>11. ASSUME NEW r \in Requests, Return(r) PROVE RInv'
  <2>1. Owners' /\ pool' \subseteq Buffers /\ MemoryBounded' BY <1>11, PutKeepsOwners DEF Return
  <2>2. RTypes' BY <1>11, <2>1 DEF Return, putBuffer
  <2>3. Contents' BY <1>11 DEF Return, putBuffer, Contents
  <2>4. Verdicts' /\ VerdictOfWholeBody' BY <1>11 DEF Return, Verdicts, VerdictOfWholeBody
  <2> QED BY <2>1, <2>2, <2>3, <2>4
<1>12. CASE Collect
  BY <1>12 DEF Collect, Owners, Contents, Verdicts, VerdictOfWholeBody, MemoryBounded
<1>13. CASE UNCHANGED vars
  BY <1>13 DEF vars, Owners, Contents, Verdicts, VerdictOfWholeBody, MemoryBounded
<1> QED
  BY <1>1, <1>2, <1>4, <1>5, <1>6, <1>7, <1>8, <1>9, <1>10, <1>11, <1>12, <1>13 DEF Next, Finished

LEMMA RelayInvariant == Spec => []RInv
BY RelayInit, RelayNext, PTL DEF Spec

\* The pool never mixes two exchanges.
THEOREM RepliesDoNotMix == Spec => []RepliesAreOwn
<1>1. RInv => RepliesAreOwn BY DEF RInv, Verdicts, Contents, RepliesAreOwn
<1> QED BY <1>1, RelayInvariant, PTL

\* However a body arrives and wherever it ends or breaks off.
THEOREM VerdictsAreOfWholeBodies == Spec => []VerdictOfWholeBody
<1>1. RInv => VerdictOfWholeBody BY DEF RInv
<1> QED BY <1>1, RelayInvariant, PTL

\* Whatever length is declared.
THEOREM MemoryStaysBounded == Spec => []MemoryBounded
<1>1. RInv => MemoryBounded BY DEF RInv
<1> QED BY <1>1, RelayInvariant, PTL

-----------------------------------------------------------------------------
(* What becomes of a request and what the table says of it.                *)

\* Docker is asked what Classify found to be an inspect, and whoever is done
\* without a verdict on a body was refused.
Routed ==
    /\ ask \in [Requests -> Asks]
    /\ \A r \in Requests :
          /\ pc[r] \notin {"new", "done"} => Classify(ask[r]) \in {"container", "image"}
          /\ pc[r] \in {"close", "judge", "write", "return"} => result[r] # "none"
          /\ pc[r] = "done" => \/ Classify(ask[r]) = "none" /\ result[r] = "none"
                               \/ Classify(ask[r]) \in {"container", "image"} /\ result[r] # "none"

LEMMA RoutedNext == RInv /\ Routed /\ [Next]_vars => Routed'
<1> SUFFICES ASSUME RInv, Routed, [Next]_vars PROVE Routed' OBVIOUS
<1>1. ask' = ask /\ ask \in [Requests -> Asks]
  BY DEF Routed, vars, Next, Deny, Open, Read, Break, Decode, Close, Refuse, Encode, Write,
     Return, Collect, Finished
<1>2. pc \in [Requests -> Places] /\ result \in [Requests -> Results] BY DEF RInv, RTypes
<1>3. ASSUME NEW r \in Requests, Deny(r) PROVE Routed'
  BY <1>1, <1>2, <1>3 DEF Deny, Goto, told, RInv, Verdicts, Routed
<1>4. ASSUME NEW r \in Requests, Open(r) PROVE Routed'
  BY <1>1, <1>2, <1>4 DEF Open, Goto, Routed
<1>5. ASSUME NEW r \in Requests, Read(r) PROVE Routed'
  BY <1>1, <1>2, <1>5 DEF Read, Goto, Routed
<1>6. ASSUME NEW r \in Requests, Break(r) PROVE Routed'
  BY <1>1, <1>2, <1>6 DEF Break, Goto, Routed
<1>7. ASSUME NEW r \in Requests, Decode(r) PROVE Routed'
  BY <1>1, <1>2, <1>7 DEF Decode, Goto, Routed
<1>8. ASSUME NEW r \in Requests, Close(r) PROVE Routed'
  BY <1>1, <1>2, <1>8 DEF Close, Goto, Routed
<1>9. ASSUME NEW r \in Requests, Refuse(r) PROVE Routed'
  BY <1>1, <1>2, <1>9 DEF Refuse, Goto, Routed
<1>10. ASSUME NEW r \in Requests, Encode(r) PROVE Routed'
  BY <1>1, <1>2, <1>10 DEF Encode, Goto, Routed
<1>11. ASSUME NEW r \in Requests, Write(r) PROVE Routed'
  BY <1>1, <1>2, <1>11 DEF Write, Goto, Routed
<1>12. ASSUME NEW r \in Requests, Return(r) PROVE Routed'
  BY <1>1, <1>2, <1>12 DEF Return, Goto, Routed
<1>13. CASE Collect \/ UNCHANGED vars BY <1>1, <1>13 DEF Collect, vars, Routed
<1> QED
  BY <1>3, <1>4, <1>5, <1>6, <1>7, <1>8, <1>9, <1>10, <1>11, <1>12, <1>13 DEF Next, Finished

LEMMA RoutedMeetsTable == RInv /\ Routed => ClassifyMeetsTable
<1> SUFFICES ASSUME RInv, Routed PROVE ClassifyMeetsTable OBVIOUS
<1>1. Misrouted = {} BY ClassifyIsTable DEF Misrouted
<1>2. ASSUME NEW r \in Requests, pc[r] # "new"
      PROVE  Denied(r) <=> ask[r] \notin Inspects
  <2>1. ask[r] \in Asks /\ ask[r] \in Inputs BY RelayAssumption DEF Routed
  <2>2. ask[r] \in Inspects <=> Classify(ask[r]) \in {"container", "image"}
    BY <2>1, ClassifyIsTable DEF Inspects
  <2>3. pc[r] = "done" => \/ Classify(ask[r]) = "none" /\ result[r] = "none"
                          \/ Classify(ask[r]) \in {"container", "image"} /\ result[r] # "none"
    BY DEF Routed
  <2>4. pc[r] # "done" => Classify(ask[r]) \in {"container", "image"} BY <1>2 DEF Routed
  <2> QED BY <2>2, <2>3, <2>4 DEF Denied
<1> QED BY <1>1, <1>2 DEF ClassifyMeetsTable

\* Whatever is asked, and however a target is spelt: the route the code finds by
\* cutting a path is the one the table gives it by building paths, Docker is asked
\* the inspects of the table, and nothing else.
THEOREM TableIsMet == Spec => []ClassifyMeetsTable
<1>1. Init => Routed BY DEF Init, Routed
<1> QED BY <1>1, RelayInit, RelayNext, RoutedNext, RoutedMeetsTable, PTL DEF Spec
=============================================================================
