--------------------------- MODULE SequenceLemmas ---------------------------
(***************************************************************************)
(* What the operations on sequences that the models use do to the members  *)
(* of a sequence, to their order and to its being free of repetitions.     *)
(***************************************************************************)
EXTENDS Integers, Sequences, SequencesExt, SequenceTheorems, TLAPS

(* x stands before y in s.                                                 *)
Precedes(s, x, y) == \E i, j \in 1..Len(s) : i < j /\ s[i] = x /\ s[j] = y

LEMMA Members ==
  ASSUME NEW S, NEW s \in Seq(S)
  PROVE  /\ \A x : x \in ToSet(s) <=> \E i \in 1..Len(s) : s[i] = x
         /\ ToSet(s) \subseteq S
         /\ ToSet(s) = {} <=> s = <<>>
<1>1. DOMAIN s = 1..Len(s) /\ Len(s) \in Nat
  BY LenProperties
<1>2. ToSet(s) \subseteq S
  BY <1>1, ElementOfSeq DEF ToSet
<1>3. s # <<>> => 1 \in 1..Len(s)
  BY <1>1, EmptySeq
<1>4. s = <<>> => Len(s) = 0
  BY EmptySeq
<1>5. \A x : x \in ToSet(s) <=> \E i \in 1..Len(s) : s[i] = x
  BY <1>1 DEF ToSet
<1>6. s = <<>> => ToSet(s) = {}
  BY <1>1, <1>4, <1>5
<1>7. s # <<>> => s[1] \in ToSet(s)
  BY <1>3, <1>5
<1> QED
  BY <1>2, <1>5, <1>6, <1>7

LEMMA NoMembers == ToSet(<<>>) = {} /\ IsInjective(<<>>)
<1>1. <<>> \in Seq({}) /\ Len(<<>>) = 0
  BY EmptySeq
<1>2. DOMAIN <<>> = {}
  BY <1>1, LenProperties
<1> QED
  BY <1>2 DEF ToSet, IsInjective

(* Of a sequence without repetitions, no member stands before itself, and  *)
(* of two members only one stands before the other.                        *)
LEMMA PrecedesIsStrict ==
  ASSUME NEW S, NEW s \in Seq(S), IsInjective(s), NEW x, NEW y, Precedes(s, x, y)
  PROVE  x # y /\ ~Precedes(s, y, x)
<1>1. DOMAIN s = 1..Len(s) /\ Len(s) \in Nat
  BY LenProperties
<1> QED
  BY <1>1 DEF Precedes, IsInjective

LEMMA HeadTailMembers ==
  ASSUME NEW S, NEW s \in Seq(S), s # <<>>
  PROVE  /\ Tail(s) \in Seq(S)
         /\ Head(s) \in ToSet(s)
         /\ ToSet(s) = {Head(s)} \cup ToSet(Tail(s))
         /\ IsInjective(s) => Head(s) \notin ToSet(Tail(s)) /\ IsInjective(Tail(s))
<1>1. /\ Tail(s) \in Seq(S) /\ Len(Tail(s)) = Len(s) - 1
      /\ \A i \in 1..Len(Tail(s)) : Tail(s)[i] = s[i + 1]
  BY HeadTailProperties
<1>2. Len(s) \in Nat \ {0} /\ DOMAIN s = 1..Len(s)
  BY EmptySeq, LenProperties
<1>3. Head(s) = s[1]
  OBVIOUS
<1>4. DOMAIN Tail(s) = 1..(Len(s) - 1)
  BY <1>1, LenProperties
<1> DEFINE t == Tail(s)
<1> HIDE DEF t
<1>5. /\ DOMAIN t = 1..(Len(s) - 1)
      /\ \A i \in 1..(Len(s) - 1) : t[i] = s[i + 1]
  BY <1>1, <1>4 DEF t
<1>6. ToSet(s) = {s[1]} \cup ToSet(t)
  <2>1. ASSUME NEW i \in 1..Len(s), i # 1 PROVE s[i] = t[i - 1] /\ i - 1 \in 1..(Len(s) - 1)
    BY <1>2, <1>5, <2>1
  <2>2. ASSUME NEW i \in 1..(Len(s) - 1) PROVE t[i] = s[i + 1] /\ i + 1 \in 1..Len(s)
    BY <1>2, <1>5
  <2>3. 1 \in 1..Len(s)
    BY <1>2
  <2>4. \A x : x \in ToSet(s) <=> \E i \in 1..Len(s) : s[i] = x
    BY Members
  <2>5. \A x : x \in ToSet(t) <=> \E i \in 1..(Len(s) - 1) : t[i] = x
    BY <1>5 DEF ToSet
  <2>6. ASSUME NEW x PROVE x \in ToSet(s) <=> x \in {s[1]} \cup ToSet(t)
    BY <2>1, <2>2, <2>3, <2>4, <2>5
  <2> QED
    BY <2>6
<1>7. ASSUME IsInjective(s) PROVE s[1] \notin ToSet(t) /\ IsInjective(t)
  <2>1. ASSUME NEW i \in 1..(Len(s) - 1) PROVE t[i] # s[1]
    BY <1>2, <1>5, <1>7 DEF IsInjective
  <2>2. ASSUME NEW i \in 1..(Len(s) - 1), NEW j \in 1..(Len(s) - 1), t[i] = t[j]
        PROVE  i = j
    <3>1. s[i + 1] = s[j + 1] /\ i + 1 \in DOMAIN s /\ j + 1 \in DOMAIN s
      BY <1>2, <1>5, <2>2
    <3>2. i + 1 = j + 1
      BY <1>7, <3>1 DEF IsInjective
    <3> QED
      BY <1>2, <3>2
  <2>3. s[1] \notin ToSet(t)
    BY <1>5, <2>1 DEF ToSet
  <2> QED
    BY <1>5, <2>2, <2>3 DEF IsInjective
<1> QED
  BY <1>1, <1>3, <1>6, <1>7 DEF t

LEMMA ConcatMembers ==
  ASSUME NEW S, NEW s \in Seq(S), NEW t \in Seq(S)
  PROVE  /\ s \o t \in Seq(S)
         /\ ToSet(s \o t) = ToSet(s) \cup ToSet(t)
         /\ IsInjective(s) /\ IsInjective(t) /\ ToSet(s) \cap ToSet(t) = {}
              => IsInjective(s \o t)
<1> DEFINE m == Len(s)
           n == Len(t)
           c == s \o t
<1>1. /\ c \in Seq(S) /\ Len(c) = m + n
      /\ \A i \in 1..(m + n) : c[i] = IF i <= m THEN s[i] ELSE t[i - m]
  BY ConcatProperties
<1>2. /\ m \in Nat /\ n \in Nat /\ DOMAIN s = 1..m /\ DOMAIN t = 1..n
      /\ DOMAIN c = 1..(m + n)
  BY <1>1, LenProperties
<1> HIDE DEF m, n, c
<1>3. ASSUME NEW i \in 1..m PROVE i \in 1..(m + n) /\ c[i] = s[i]
  BY <1>1, <1>2
<1>4. ASSUME NEW i \in 1..n PROVE m + i \in 1..(m + n) /\ c[m + i] = t[i]
  BY <1>1, <1>2
<1>5. ASSUME NEW i \in 1..(m + n)
      PROVE  \/ i \in 1..m /\ c[i] = s[i]
             \/ i - m \in 1..n /\ c[i] = t[i - m]
  BY <1>1, <1>2
<1>6. ToSet(c) = ToSet(s) \cup ToSet(t)
  <2>1. \A x : /\ x \in ToSet(s) <=> \E i \in 1..m : s[i] = x
               /\ x \in ToSet(t) <=> \E i \in 1..n : t[i] = x
               /\ x \in ToSet(c) <=> \E i \in 1..(m + n) : c[i] = x
    BY <1>2 DEF ToSet
  <2>2. ASSUME NEW x PROVE x \in ToSet(c) <=> x \in ToSet(s) \cup ToSet(t)
    BY <1>3, <1>4, <1>5, <2>1
  <2> QED
    BY <2>2
<1>7. ASSUME IsInjective(s), IsInjective(t), ToSet(s) \cap ToSet(t) = {},
             NEW i \in 1..(m + n), NEW j \in 1..(m + n), c[i] = c[j]
      PROVE  i = j
  <2>1. CASE i \in 1..m /\ j \in 1..m
    BY <1>2, <1>3, <1>7, <2>1 DEF IsInjective
  <2>2. CASE i - m \in 1..n /\ j - m \in 1..n
    <3>1. c[i] = t[i - m] /\ c[j] = t[j - m]
      BY <1>1, <1>2, <2>2
    <3>2. i - m = j - m
      BY <1>2, <1>7, <2>2, <3>1 DEF IsInjective
    <3> QED
      BY <1>2, <3>2
  <2>3. ~(i \in 1..m /\ j - m \in 1..n /\ c[i] = s[i] /\ c[j] = t[j - m])
    BY <1>2, <1>7 DEF ToSet
  <2>4. ~(j \in 1..m /\ i - m \in 1..n /\ c[j] = s[j] /\ c[i] = t[i - m])
    BY <1>2, <1>7 DEF ToSet
  <2> QED
    BY <1>5, <2>1, <2>2, <2>3, <2>4
<1>8. IsInjective(s) /\ IsInjective(t) /\ ToSet(s) \cap ToSet(t) = {} => IsInjective(c)
  BY <1>2, <1>7 DEF IsInjective
<1> QED
  BY <1>1, <1>6, <1>8 DEF c

LEMMA HeadOfConcat ==
  ASSUME NEW S, NEW s \in Seq(S), NEW t \in Seq(S), s # <<>>
  PROVE  s \o t # <<>> /\ Head(s \o t) = Head(s)
<1> DEFINE m == Len(s)
           n == Len(t)
           c == s \o t
<1>1. m \in Nat \ {0} /\ n \in Nat
  BY EmptySeq, LenProperties
<1>2. \A i \in 1..(m + n) : c[i] = IF i <= m THEN s[i] ELSE t[i - m]
  BY ConcatProperties
<1>3. c # <<>>
  BY ConcatEqualIffEmpty
<1>4. Head(s) = s[1]
  OBVIOUS
<1> HIDE DEF m, n, c
<1>5. Head(c) = c[1]
  OBVIOUS
<1>6. c[1] = s[1]
  <2>1. 1 \in 1..(m + n) /\ 1 <= m
    BY <1>1
  <2> QED
    BY <1>2, <2>1
<1> QED
  BY <1>3, <1>4, <1>5, <1>6 DEF c

LEMMA AppendMembers ==
  ASSUME NEW S, NEW s \in Seq(S), NEW x \in S
  PROVE  /\ Append(s, x) \in Seq(S)
         /\ ToSet(Append(s, x)) = ToSet(s) \cup {x}
         /\ IsInjective(s) /\ x \notin ToSet(s) => IsInjective(Append(s, x))
         /\ \A y, z : Precedes(Append(s, x), y, z) => z = x \/ Precedes(s, y, z)
<1> DEFINE n == Len(s)
           c == Append(s, x)
<1>1. /\ c \in Seq(S) /\ Len(c) = n + 1 /\ c[n + 1] = x
      /\ \A i \in 1..n : c[i] = s[i]
  BY AppendProperties
<1>2. n \in Nat /\ DOMAIN s = 1..n /\ DOMAIN c = 1..(n + 1)
  BY <1>1, LenProperties
<1>4. \A y, z : Precedes(s, y, z) <=> \E i, j \in 1..n : i < j /\ s[i] = y /\ s[j] = z
  BY DEF Precedes
<1>5. \A y, z : Precedes(c, y, z) <=> \E i, j \in 1..(n + 1) : i < j /\ c[i] = y /\ c[j] = z
  BY <1>1 DEF Precedes
<1> HIDE DEF n, c
<1>6. ToSet(c) = ToSet(s) \cup {x}
  BY <1>1, <1>2 DEF ToSet
<1>7. ASSUME IsInjective(s), x \notin ToSet(s) PROVE IsInjective(c)
  BY <1>1, <1>2, <1>7 DEF ToSet, IsInjective
<1>8. ASSUME NEW y, NEW z, Precedes(c, y, z) PROVE z = x \/ Precedes(s, y, z)
  BY <1>1, <1>2, <1>4, <1>5, <1>8
<1> QED
  BY <1>1, <1>6, <1>7, <1>8 DEF c

(* The pieces of a sequence, as RemoveAt puts them together again.         *)
LEMMA RemoveAtFacts ==
  ASSUME NEW S, NEW s \in Seq(S), NEW i \in 1..Len(s)
  PROVE  /\ RemoveAt(s, i) \in Seq(S)
         /\ Len(RemoveAt(s, i)) = Len(s) - 1
         /\ \A j \in 1..(Len(s) - 1) :
              RemoveAt(s, i)[j] = IF j < i THEN s[j] ELSE s[j + 1]
<1> DEFINE l == SubSeq(s, 1, i - 1)
           r == SubSeq(s, i + 1, Len(s))
<1>1. /\ l \in Seq(S) /\ Len(l) = i - 1
      /\ \A j \in 1..(i - 1) : l[j] = s[j]
  BY SubSeqProperties
<1>2. /\ r \in Seq(S) /\ Len(r) = Len(s) - i
      /\ \A j \in 1..(Len(s) - i) : r[j] = s[i + j]
  BY SubSeqProperties
<1>3. RemoveAt(s, i) = l \o r
  BY DEF RemoveAt
<1> HIDE DEF l, r
<1>4. /\ l \o r \in Seq(S)
      /\ Len(l \o r) = Len(l) + Len(r)
      /\ \A j \in 1..(Len(l) + Len(r)) :
           (l \o r)[j] = IF j =< Len(l) THEN l[j] ELSE r[j - Len(l)]
  BY <1>1, <1>2, ConcatProperties, Zenon
<1>5. Len(s) \in Nat /\ i \in Nat /\ 1 =< i /\ i =< Len(s)
  BY LenProperties
<1>6. Len(l) + Len(r) = Len(s) - 1
  BY <1>1, <1>2, <1>5
<1>7. ASSUME NEW j \in 1..(Len(s) - 1)
      PROVE  (l \o r)[j] = IF j < i THEN s[j] ELSE s[j + 1]
  <2>1. CASE j < i
    BY <1>1, <1>4, <1>5, <1>6, <2>1
  <2>2. CASE ~(j < i)
    <3>1. j - Len(l) \in 1..(Len(s) - i) /\ i + (j - Len(l)) = j + 1
      BY <1>1, <1>5, <2>2
    <3>2. (l \o r)[j] = r[j - Len(l)]
      BY <1>1, <1>4, <1>5, <1>6, <2>2
    <3> QED
      BY <1>2, <2>2, <3>1, <3>2
  <2> QED
    BY <2>1, <2>2
<1> QED
  BY <1>3, <1>4, <1>6, <1>7

LEMMA RemoveAtMembers ==
  ASSUME NEW S, NEW s \in Seq(S), NEW i \in 1..Len(s)
  PROVE  /\ RemoveAt(s, i) \in Seq(S)
         /\ ToSet(RemoveAt(s, i)) \subseteq ToSet(s)
         /\ ToSet(s) \ {s[i]} \subseteq ToSet(RemoveAt(s, i))
         /\ IsInjective(s) => /\ IsInjective(RemoveAt(s, i))
                              /\ s[i] \notin ToSet(RemoveAt(s, i))
         /\ \A y, z : Precedes(RemoveAt(s, i), y, z) => Precedes(s, y, z)
<1> DEFINE r == RemoveAt(s, i)
           n == Len(s)
<1>1. /\ r \in Seq(S) /\ Len(r) = n - 1
      /\ \A j \in 1..(n - 1) : r[j] = IF j < i THEN s[j] ELSE s[j + 1]
  BY RemoveAtFacts
<1>2. /\ n \in Nat \ {0} /\ i \in 1..n
      /\ DOMAIN s = 1..n /\ DOMAIN r = 1..(n - 1)
  BY <1>1, LenProperties
<1>3. \A y, z : Precedes(s, y, z) <=> \E a, b \in 1..n : a < b /\ s[a] = y /\ s[b] = z
  BY DEF Precedes
<1>4. \A y, z : Precedes(r, y, z) <=> \E a, b \in 1..(n - 1) : a < b /\ r[a] = y /\ r[b] = z
  BY <1>1 DEF Precedes
<1> HIDE DEF r, n
<1> DEFINE At(j) == IF j < i THEN j ELSE j + 1
<1>5. ASSUME NEW j \in 1..(n - 1) PROVE At(j) \in 1..n /\ r[j] = s[At(j)]
  BY <1>1, <1>2
<1>6. ASSUME NEW j \in 1..(n - 1), NEW k \in 1..(n - 1)
      PROVE  (j < k => At(j) < At(k)) /\ (At(j) = At(k) => j = k)
  BY <1>2
<1>7. ASSUME NEW j \in 1..n, j # i PROVE \E k \in 1..(n - 1) : At(k) = j
  <2>1. CASE j < i
    <3>1. j \in 1..(n - 1) /\ At(j) = j
      BY <1>2, <2>1
    <3> HIDE DEF At
    <3> QED
      BY <3>1
  <2>2. CASE j > i
    <3>1. j - 1 \in 1..(n - 1) /\ At(j - 1) = j
      BY <1>2, <2>2
    <3> HIDE DEF At
    <3> QED
      BY <3>1
  <2> QED
    BY <1>2, <1>7, <2>1, <2>2
<1> HIDE DEF At
<1>8. \A x : /\ x \in ToSet(s) <=> \E j \in 1..n : s[j] = x
             /\ x \in ToSet(r) <=> \E j \in 1..(n - 1) : r[j] = x
  BY <1>2 DEF ToSet
<1>9. /\ ToSet(r) \subseteq ToSet(s)
      /\ ToSet(s) \ {s[i]} \subseteq ToSet(r)
  BY <1>5, <1>7, <1>8
<1>10. IsInjective(s) => IsInjective(r)
  BY <1>2, <1>5, <1>6 DEF IsInjective
<1>11. ASSUME IsInjective(s) PROVE s[i] \notin ToSet(r)
  <2>1. \A j \in 1..(n - 1) : At(j) # i
    BY <1>2 DEF At
  <2> QED
    BY <1>2, <1>5, <1>8, <1>11, <2>1 DEF IsInjective
<1>12. \A y, z : Precedes(r, y, z) => Precedes(s, y, z)
  BY <1>3, <1>4, <1>5, <1>6
<1> QED
  BY <1>1, <1>9, <1>10, <1>11, <1>12 DEF r

=============================================================================
