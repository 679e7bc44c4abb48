--------------------------- MODULE Collector_proofs ---------------------------
(***************************************************************************)
(* Proofs about the collector: what an event publish() is done with turned *)
(* into, how often it is on the topic, and the size of the spool, for any  *)
(* number of threads, events and faults; and, in the second half, what the *)
(* TCP clients of TcpFraming get published and what becomes of the slots.  *)
(***************************************************************************)
EXTENDS Collector, TcpFraming, SequenceTheorems, FiniteSetTheorems, WellFoundedInduction, TLAPS

-----------------------------------------------------------------------------
(* Induction over the naturals, from the well-foundedness of strict        *)
(* inclusion of finite sets.                                               *)

\* A set of naturals has a least element.
LEMMA LeastNatural ==
    ASSUME NEW S \in SUBSET Nat, S # {}
    PROVE  \E x \in S : \A y \in S : x <= y
<1> DEFINE Order == StrictSubsetOrdering(Nat)
           Finite == FiniteSubsetsOf(Nat)
           Below == {0..n : n \in S}
<1>1. IsWellFoundedOn(Order, Finite)
  BY FS_StrictSubsetOrderingWellFounded
<1>2. Below \subseteq Finite /\ Below # {}
  <2>1. \A n \in S : 0..n \subseteq Nat /\ IsFiniteSet(0..n)
    BY FS_Interval
  <2>2. QED
    BY <2>1 DEF FiniteSubsetsOf
<1>3. PICK b \in Below : \A c \in Below : <<c, b>> \notin Order
  <2> HIDE DEF Order, Finite, Below
  <2> QED
    BY <1>1, <1>2, WFMin
<1>4. PICK x \in S : b = 0..x
  OBVIOUS
<1>5. ASSUME NEW y \in S, y < x
      PROVE  FALSE
  <2>1. 0..y \subseteq b /\ 0..y # b /\ b \subseteq Nat /\ 0..y \subseteq Nat
    BY <1>4, <1>5
  <2>2. <<0..y, b>> \in Order
    BY <2>1 DEF StrictSubsetOrdering
  <2>3. QED
    BY <1>3, <2>2
<1>6. QED
  BY <1>5

\* A set that has 0, and n + 1 with every n, has all naturals.
LEMMA SetInduction ==
    ASSUME NEW S, 0 \in S, \A n \in Nat : n \in S => n + 1 \in S
    PROVE  Nat \subseteq S
<1>1. SUFFICES ASSUME Nat \ S # {}
               PROVE  FALSE
  OBVIOUS
<1>2. PICK x \in Nat \ S : \A y \in Nat \ S : x <= y
  BY <1>1, LeastNatural
<1>3. QED
  BY <1>2

-----------------------------------------------------------------------------
(* Sums. *)

PartialSums(f, n, s) ==
    s = [i \in 0..n |-> IF i = 0 THEN 0 ELSE s[i - 1] + f[i]]

\* The recursive function in SumTo exists.
LEMMA SumsExist ==
    ASSUME NEW f
    PROVE  \A n \in Nat : \E s : PartialSums(f, n, s)
<1> DEFINE S == {n \in Nat : \E s : PartialSums(f, n, s)}
<1>1. 0 \in S
  <2> DEFINE s == [i \in 0..0 |-> 0]
  <2>1. PartialSums(f, 0, s)
    BY DEF PartialSums
  <2>2. QED
    BY <2>1
<1>2. ASSUME NEW n \in Nat, n \in S
      PROVE  n + 1 \in S
  <2>1. PICK s : PartialSums(f, n, s)
    BY <1>2
  <2> DEFINE t == [i \in 0 .. n + 1 |-> IF i = n + 1 THEN s[n] + f[n + 1] ELSE s[i]]
  <2>2. ASSUME NEW i \in 0 .. n + 1
        PROVE  t[i] = IF i = 0 THEN 0 ELSE t[i - 1] + f[i]
    <3>1. \A j \in 0..n : s[j] = IF j = 0 THEN 0 ELSE s[j - 1] + f[j]
      BY <2>1 DEF PartialSums
    <3>2. CASE i = n + 1
      BY <3>2
    <3>3. CASE i \in 0..n
      BY <3>1, <3>3
    <3>4. QED
      BY <3>2, <3>3
  <2>3. PartialSums(f, n + 1, t)
    BY <2>2 DEF PartialSums
  <2>4. QED
    BY <2>3
<1>3. Nat \subseteq S
  <2> HIDE DEF S
  <2> QED
    BY <1>1, <1>2, SetInduction
<1>4. QED
  BY <1>3

\* Partial sums of functions that agree are equal.
LEMMA SumsAgree ==
    ASSUME NEW f, NEW g, NEW s, NEW t, NEW m \in Nat, NEW n \in Nat,
           PartialSums(f, m, s), PartialSums(g, n, t),
           \A i \in 1..n : i <= m => f[i] = g[i]
    PROVE  \A i \in Nat : i <= m /\ i <= n => s[i] = t[i]
<1> DEFINE S == {i \in Nat : i <= m /\ i <= n => s[i] = t[i]}
<1>1. /\ \A j \in 0..m : s[j] = IF j = 0 THEN 0 ELSE s[j - 1] + f[j]
      /\ \A j \in 0..n : t[j] = IF j = 0 THEN 0 ELSE t[j - 1] + g[j]
  BY DEF PartialSums
<1>2. 0 \in S
  BY <1>1
<1>3. ASSUME NEW i \in Nat, i \in S
      PROVE  i + 1 \in S
  <2>1. SUFFICES ASSUME i + 1 <= m, i + 1 <= n
                 PROVE  s[i + 1] = t[i + 1]
    OBVIOUS
  <2>2. s[i] = t[i] /\ f[i + 1] = g[i + 1]
    BY <1>3, <2>1
  <2>3. s[i + 1] = s[i] + f[i + 1] /\ t[i + 1] = t[i] + g[i + 1]
    BY <1>1, <2>1
  <2>4. QED
    BY <2>2, <2>3
<1>4. Nat \subseteq S
  <2> HIDE DEF S
  <2> QED
    BY <1>2, <1>3, SetInduction
<1>5. QED
  BY <1>4

\* SumTo is the sum.
LEMMA SumToDef ==
    ASSUME NEW f
    PROVE  /\ SumTo(f, 0) = 0
           /\ \A n \in Nat : SumTo(f, n + 1) = SumTo(f, n) + f[n + 1]
<1> DEFINE sums(n) == CHOOSE s : PartialSums(f, n, s)
<1>1. \A n \in Nat : PartialSums(f, n, sums(n))
  BY SumsExist
<1>2. \A n \in Nat : SumTo(f, n) = sums(n)[n]
  BY DEF SumTo, PartialSums
<1> HIDE DEF sums
<1>3. SumTo(f, 0) = 0
  BY <1>1, <1>2 DEF PartialSums
<1>4. ASSUME NEW n \in Nat
      PROVE  SumTo(f, n + 1) = SumTo(f, n) + f[n + 1]
  <2>1. PartialSums(f, n, sums(n)) /\ PartialSums(f, n + 1, sums(n + 1))
    BY <1>1
  <2>2. sums(n + 1)[n + 1] = sums(n + 1)[n] + f[n + 1]
    BY <2>1 DEF PartialSums
  <2>3. sums(n)[n] = sums(n + 1)[n]
    BY <2>1, SumsAgree
  <2>4. QED
    BY <1>2, <2>2, <2>3
<1>5. QED
  BY <1>3, <1>4

LEMMA SumToNat ==
    ASSUME NEW f, NEW n \in Nat, \A i \in 1..n : f[i] \in Nat
    PROVE  \A k \in 0..n : SumTo(f, k) \in Nat
<1> DEFINE S == {k \in Nat : k <= n => SumTo(f, k) \in Nat}
<1>1. 0 \in S
  BY SumToDef
<1>2. ASSUME NEW k \in Nat, k \in S
      PROVE  k + 1 \in S
  BY <1>2, SumToDef
<1>3. Nat \subseteq S
  <2> HIDE DEF S
  <2> QED
    BY <1>1, <1>2, SetInduction
<1>4. QED
  BY <1>3

\* The sum of h is at most that of f and g together when each term is.
LEMMA SumToAtMost ==
    ASSUME NEW f, NEW g, NEW h, NEW n \in Nat,
           \A i \in 1..n : /\ f[i] \in Nat /\ g[i] \in Nat /\ h[i] \in Nat
                           /\ h[i] <= f[i] + g[i]
    PROVE  SumTo(h, n) <= SumTo(f, n) + SumTo(g, n)
<1> DEFINE S == {k \in Nat : k <= n => SumTo(h, k) <= SumTo(f, k) + SumTo(g, k)}
<1>1. 0 \in S
  BY SumToDef
<1>2. ASSUME NEW k \in Nat, k \in S
      PROVE  k + 1 \in S
  <2>1. SUFFICES ASSUME k + 1 <= n
                 PROVE  SumTo(h, k + 1) <= SumTo(f, k + 1) + SumTo(g, k + 1)
    OBVIOUS
  <2>2. SumTo(f, k) \in Nat /\ SumTo(g, k) \in Nat /\ SumTo(h, k) \in Nat
    BY <2>1, SumToNat
  <2>3. /\ SumTo(f, k + 1) = SumTo(f, k) + f[k + 1]
        /\ SumTo(g, k + 1) = SumTo(g, k) + g[k + 1]
        /\ SumTo(h, k + 1) = SumTo(h, k) + h[k + 1]
    BY SumToDef
  <2>4. h[k + 1] <= f[k + 1] + g[k + 1] /\ f[k + 1] \in Nat /\ g[k + 1] \in Nat
        /\ h[k + 1] \in Nat
    BY <2>1
  <2>5. SumTo(h, k) <= SumTo(f, k) + SumTo(g, k)
    BY <1>2, <2>1
  <2> HIDE DEF S
  <2>6. QED
    BY <2>2, <2>3, <2>4, <2>5
<1>3. Nat \subseteq S
  <2> HIDE DEF S
  <2> QED
    BY <1>1, <1>2, SetInduction
<1>4. QED
  BY <1>3

\* The sum grows with its terms, and with their number.
LEMMA SumToGrows ==
    ASSUME NEW f, NEW g, NEW m \in Nat, NEW n \in Nat, m <= n,
           \A i \in 1..n : f[i] \in Nat,
           \A i \in 1..m : g[i] \in Nat /\ g[i] <= f[i]
    PROVE  SumTo(g, m) <= SumTo(f, n)
<1> DEFINE S == {k \in Nat : k <= n => SumTo(g, IF k <= m THEN k ELSE m) <= SumTo(f, k)}
<1>1. 0 \in S
  BY SumToDef
<1>2. ASSUME NEW k \in Nat, k \in S
      PROVE  k + 1 \in S
  <2>1. SUFFICES ASSUME k + 1 <= n
                 PROVE  SumTo(g, IF k + 1 <= m THEN k + 1 ELSE m) <= SumTo(f, k + 1)
    OBVIOUS
  <2>2. SumTo(f, k) \in Nat /\ f[k + 1] \in Nat /\ SumTo(f, k + 1) = SumTo(f, k) + f[k + 1]
    BY <2>1, SumToNat, SumToDef
  <2>3. SumTo(g, IF k <= m THEN k ELSE m) <= SumTo(f, k)
    BY <1>2, <2>1
  <2> HIDE DEF S
  <2>4. CASE k + 1 <= m
    <3>1. SumTo(g, k + 1) = SumTo(g, k) + g[k + 1] /\ g[k + 1] <= f[k + 1]
          /\ g[k + 1] \in Nat /\ SumTo(g, k) \in Nat
      BY <2>4, SumToDef, SumToNat
    <3>2. QED
      BY <2>2, <2>3, <2>4, <3>1
  <2>5. CASE ~(k + 1 <= m)
    <3>1. (IF k <= m THEN k ELSE m) = m
      BY <2>5
    <3>2. SumTo(g, m) <= SumTo(f, k)
      BY <2>3, <3>1
    <3>3. SumTo(g, m) \in Nat
      <4>1. m \in 0..m /\ \A i \in 1..m : g[i] \in Nat
        OBVIOUS
      <4>2. QED
        BY <4>1, SumToNat
    <3>4. QED
      BY <2>2, <2>5, <3>2, <3>3
  <2>6. QED
    BY <2>4, <2>5
<1>3. Nat \subseteq S
  <2> HIDE DEF S
  <2> QED
    BY <1>1, <1>2, SetInduction
<1>4. n \in S
  BY <1>3
<1>5. CASE n = m
  BY <1>4, <1>5
<1>6. CASE n # m
  BY <1>4, <1>6
<1>7. QED
  BY <1>5, <1>6

\* The first term can be taken out of the sum.
LEMMA SumToShift ==
    ASSUME NEW f, NEW g, NEW n \in Nat,
           \A i \in 1 .. n + 1 : f[i] \in Nat,
           \A i \in 1..n : g[i] = f[i + 1]
    PROVE  SumTo(f, n + 1) = f[1] + SumTo(g, n)
<1> DEFINE S == {k \in Nat : k <= n => SumTo(f, k + 1) = f[1] + SumTo(g, k)}
<1>0. f[1] \in Nat
  OBVIOUS
<1>1. 0 \in S
  <2>1. SumTo(f, 0 + 1) = SumTo(f, 0) + f[0 + 1]
    BY SumToDef
  <2>2. SumTo(f, 0) = 0 /\ SumTo(g, 0) = 0
    BY SumToDef
  <2>3. QED
    BY <1>0, <2>1, <2>2
<1>2. ASSUME NEW k \in Nat, k \in S
      PROVE  k + 1 \in S
  <2>1. SUFFICES ASSUME k + 1 <= n
                 PROVE  SumTo(f, (k + 1) + 1) = f[1] + SumTo(g, k + 1)
    OBVIOUS
  <2>2. SumTo(f, k + 1) = f[1] + SumTo(g, k)
    BY <1>2, <2>1
  <2>3. SumTo(f, (k + 1) + 1) = SumTo(f, k + 1) + f[(k + 1) + 1]
    BY SumToDef
  <2>4. SumTo(g, k + 1) = SumTo(g, k) + g[k + 1]
    BY SumToDef
  <2>5. g[k + 1] = f[(k + 1) + 1] /\ g[k + 1] \in Nat
    BY <2>1
  <2>6. \A i \in 1..n : g[i] \in Nat
    OBVIOUS
  <2>7. SumTo(g, k) \in Nat
    BY <2>1, <2>6, SumToNat
  <2> HIDE DEF S
  <2>8. QED
    BY <1>0, <2>2, <2>3, <2>4, <2>5, <2>7
<1>3. Nat \subseteq S
  <2> HIDE DEF S
  <2> QED
    BY <1>1, <1>2, SetInduction
<1>4. QED
  BY <1>3

\* Equal terms have equal sums.
LEMMA SumToSame ==
    ASSUME NEW f, NEW g, NEW n \in Nat,
           \A i \in 1..n : f[i] \in Nat /\ g[i] = f[i]
    PROVE  SumTo(f, n) = SumTo(g, n)
<1>1. SumTo(f, n) <= SumTo(g, n) /\ SumTo(g, n) <= SumTo(f, n)
  BY SumToGrows
<1>2. SumTo(f, n) \in Nat /\ SumTo(g, n) \in Nat
  <2>1. n \in 0..n /\ \A i \in 1..n : g[i] \in Nat
    OBVIOUS
  <2>2. QED
    BY <2>1, SumToNat
<1>3. QED
  BY <1>1, <1>2

-----------------------------------------------------------------------------
(* Bytes of lines and of sequences of lines. *)

LEMMA LineBytesNat ==
    ASSUME NEW l
    PROVE  LineBytes(l) \in Nat
<1> DEFINE f == [e \in Events |-> IF e \in l.ids THEN Bytes[e] ELSE 0]
<1>1. MaxEvents \in Nat /\ \A e \in 1..MaxEvents : f[e] \in Nat
  BY CollectorAssumption DEF Events
<1>2. MaxEvents \in 0..MaxEvents
  BY <1>1
<1>3. SumTo(f, MaxEvents) \in Nat
  <2> HIDE DEF f
  <2> QED
    BY <1>1, <1>2, SumToNat
<1>4. QED
  BY <1>3 DEF LineBytes

\* A glued line is no longer than its two parts.
LEMMA LineBytesUnion ==
    ASSUME NEW k, NEW l, NEW m, m.ids = k.ids \cup l.ids
    PROVE  LineBytes(m) <= LineBytes(k) + LineBytes(l)
<1> DEFINE f(x) == [e \in Events |-> IF e \in x.ids THEN Bytes[e] ELSE 0]
<1>1. /\ MaxEvents \in Nat
      /\ \A e \in 1..MaxEvents :
            /\ f(k)[e] \in Nat /\ f(l)[e] \in Nat /\ f(m)[e] \in Nat
            /\ f(m)[e] <= f(k)[e] + f(l)[e]
  BY CollectorAssumption DEF Events
<1>2. SumTo(f(m), MaxEvents) <= SumTo(f(k), MaxEvents) + SumTo(f(l), MaxEvents)
  <2> HIDE DEF f
  <2> QED
    BY <1>1, SumToAtMost
<1>3. QED
  BY <1>2 DEF LineBytes

LEMMA TotalBytesNat ==
    ASSUME NEW s \in Seq(Line)
    PROVE  TotalBytes(s) \in Nat
<1> DEFINE f == [i \in DOMAIN s |-> LineBytes(s[i])]
<1>1. Len(s) \in 0..Len(s) /\ Len(s) \in Nat /\ DOMAIN s = 1..Len(s)
  BY LenProperties
<1>2. \A i \in 1..Len(s) : f[i] \in Nat
  BY <1>1, LineBytesNat
<1>3. SumTo(f, Len(s)) \in Nat
  <2> HIDE DEF f
  <2> QED
    BY <1>1, <1>2, SumToNat
<1>4. QED
  BY <1>3 DEF TotalBytes

LEMMA TotalBytesEmpty == TotalBytes(<<>>) = 0
  BY SumToDef, EmptySeq DEF TotalBytes

LEMMA TotalBytesAppend ==
    ASSUME NEW s \in Seq(Line), NEW l \in Line
    PROVE  TotalBytes(Append(s, l)) = TotalBytes(s) + LineBytes(l)
<1> DEFINE n == Len(s)
           t == Append(s, l)
           f == [i \in DOMAIN s |-> LineBytes(s[i])]
           g == [i \in DOMAIN t |-> LineBytes(t[i])]
<1>1. /\ n \in Nat /\ DOMAIN s = 1..n
      /\ t \in Seq(Line) /\ Len(t) = n + 1
      /\ \A i \in 1..n : t[i] = s[i]
      /\ t[n + 1] = l
  BY LenProperties, AppendProperties
<1>2. DOMAIN t = 1 .. n + 1
  BY <1>1, LenProperties
<1>3. /\ \A i \in 1..n : f[i] \in Nat /\ g[i] = f[i]
      /\ g[n + 1] = LineBytes(l)
  BY <1>1, <1>2, LineBytesNat
<1>4. TotalBytes(s) = SumTo(f, n) /\ TotalBytes(t) = SumTo(g, n + 1)
  BY <1>1 DEF TotalBytes
<1> HIDE DEF f, g, t, n
<1>5. SumTo(f, n) = SumTo(g, n)
  BY <1>1, <1>3, SumToSame
<1>6. SumTo(g, n + 1) = SumTo(g, n) + g[n + 1]
  BY <1>1, SumToDef
<1>7. TotalBytes(t) = TotalBytes(s) + LineBytes(l)
  BY <1>3, <1>4, <1>5, <1>6
<1>8. QED
  BY <1>7 DEF t

LEMMA TotalBytesTail ==
    ASSUME NEW s \in Seq(Line), s # <<>>
    PROVE  TotalBytes(s) = LineBytes(Head(s)) + TotalBytes(Tail(s))
<1> DEFINE t == Tail(s)
           n == Len(t)
           f == [i \in DOMAIN s |-> LineBytes(s[i])]
           g == [i \in DOMAIN t |-> LineBytes(t[i])]
<1>1. /\ t \in Seq(Line) /\ n = Len(s) - 1
      /\ \A i \in 1..n : t[i] = s[i + 1]
  BY HeadTailProperties
<1>2. /\ n \in Nat /\ DOMAIN t = 1..n
      /\ Len(s) = n + 1 /\ DOMAIN s = 1 .. n + 1
  BY <1>1, LenProperties
<1>3. Head(s) = s[1]
  OBVIOUS
<1>4. /\ \A i \in 1 .. n + 1 : f[i] \in Nat
      /\ \A i \in 1..n : g[i] = f[i + 1]
      /\ f[1] = LineBytes(Head(s))
  BY <1>1, <1>2, <1>3, LineBytesNat
<1>5. TotalBytes(t) = SumTo(g, n) /\ TotalBytes(s) = SumTo(f, n + 1)
  BY <1>2 DEF TotalBytes
<1> HIDE DEF f, g, n, t
<1>6. SumTo(f, n + 1) = f[1] + SumTo(g, n)
  BY <1>2, <1>4, SumToShift
<1>7. TotalBytes(s) = LineBytes(Head(s)) + TotalBytes(t)
  BY <1>4, <1>5, <1>6
<1>8. QED
  BY <1>7 DEF t

-----------------------------------------------------------------------------
(* What the events of lines are, and how lines are cut out of lines. *)

LEMMA IdsOfLines ==
    ASSUME NEW s \in Seq(Line)
    PROVE  /\ IdsOf(s) \subseteq Events
           /\ \A e : e \in IdsOf(s) <=> \E i \in 1..Len(s) : e \in s[i].ids
<1>1. DOMAIN s = 1..Len(s) /\ \A i \in 1..Len(s) : s[i] \in Line
  BY LenProperties, ElementOfSeq
<1>2. QED
  BY <1>1 DEF IdsOf, Line

LEMMA NoLines ==
    /\ <<>> \in Seq(Line) /\ IdsOf(<<>>) = {}
    /\ Whole(<<>>) /\ Apart(<<>>)
  BY DEF IdsOf, Whole, Apart

LEMMA AppendLine ==
    ASSUME NEW s \in Seq(Line), NEW l \in Line
    PROVE  /\ Append(s, l) \in Seq(Line)
           /\ IdsOf(Append(s, l)) = IdsOf(s) \cup l.ids
           /\ Whole(Append(s, l)) <=>
                 Whole(s) /\ (l.ok => \E e \in Events : l.ids = {e})
           /\ Apart(Append(s, l)) <=> Apart(s) /\ IdsOf(s) \cap l.ids = {}
<1> DEFINE t == Append(s, l)
           n == Len(s)
<1>1. /\ t \in Seq(Line) /\ Len(t) = n + 1 /\ n \in Nat
      /\ \A i \in 1..n : t[i] = s[i]
      /\ t[n + 1] = l
  BY AppendProperties, LenProperties
<1>2. DOMAIN s = 1..n /\ DOMAIN t = 1 .. n + 1
  BY <1>1, LenProperties
<1> HIDE DEF t, n
<1>3. 1 .. n + 1 = 1..n \cup {n + 1} /\ n + 1 \notin 1..n
  BY <1>1
<1>4. IdsOf(t) = IdsOf(s) \cup l.ids
  BY <1>1, <1>2, <1>3 DEF IdsOf
<1>5. Whole(t) <=> Whole(s) /\ (l.ok => \E e \in Events : l.ids = {e})
  BY <1>1, <1>2, <1>3 DEF Whole
<1>6. Apart(t) <=> Apart(s) /\ IdsOf(s) \cap l.ids = {}
  <2>1. ASSUME Apart(t)
        PROVE  Apart(s) /\ IdsOf(s) \cap l.ids = {}
    BY <1>1, <1>2, <1>3, <2>1 DEF Apart, IdsOf
  <2>2. ASSUME Apart(s), IdsOf(s) \cap l.ids = {}
        PROVE  Apart(t)
    <3>1. ASSUME NEW i \in 1..n
          PROVE  s[i].ids \cap l.ids = {}
      BY <1>2, <2>2 DEF IdsOf
    <3>2. ASSUME NEW i \in 1 .. n + 1, NEW j \in 1 .. n + 1, i # j
          PROVE  t[i].ids \cap t[j].ids = {}
      <4>1. CASE i \in 1..n /\ j \in 1..n
        BY <1>1, <1>2, <2>2, <3>2, <4>1 DEF Apart
      <4>2. CASE i = n + 1 \/ j = n + 1
        BY <1>1, <1>3, <3>1, <3>2, <4>2
      <4>3. QED
        BY <1>3, <4>1, <4>2
    <3>3. QED
      BY <1>2, <3>2 DEF Apart
  <2>3. QED
    BY <2>1, <2>2
<1>7. QED
  BY <1>1, <1>4, <1>5, <1>6 DEF t

LEMMA FirstLine ==
    ASSUME NEW s \in Seq(Line), s # <<>>
    PROVE  /\ Head(s) \in Line /\ Tail(s) \in Seq(Line)
           /\ IdsOf(s) = Head(s).ids \cup IdsOf(Tail(s))
           /\ Whole(s) => /\ Whole(Tail(s))
                          /\ Head(s).ok => \E e \in Events : Head(s).ids = {e}
           /\ Apart(s) => Apart(Tail(s)) /\ Head(s).ids \cap IdsOf(Tail(s)) = {}
<1> DEFINE t == Tail(s)
           n == Len(t)
<1>1. /\ Head(s) \in Line /\ t \in Seq(Line) /\ n = Len(s) - 1
      /\ \A i \in 1..n : t[i] = s[i + 1]
  BY HeadTailProperties
<1>2. /\ n \in Nat /\ DOMAIN t = 1..n
      /\ Len(s) = n + 1 /\ DOMAIN s = 1 .. n + 1
  BY <1>1, LenProperties
<1>3. Head(s) = s[1]
  OBVIOUS
<1> HIDE DEF t, n
<1>4. \A i \in 1..n : i + 1 \in 1 .. n + 1
  BY <1>2
<1>5. \A i \in 1 .. n + 1 : i = 1 \/ (i - 1 \in 1..n /\ (i - 1) + 1 = i)
  BY <1>2
<1>6. IdsOf(s) = Head(s).ids \cup IdsOf(t)
  <2>1. \A e : e \in IdsOf(s) <=> \E i \in 1 .. n + 1 : e \in s[i].ids
    BY <1>2 DEF IdsOf
  <2>2. \A e : e \in IdsOf(t) <=> \E i \in 1..n : e \in s[i + 1].ids
    BY <1>1, <1>2 DEF IdsOf
  <2>3. 1 \in 1 .. n + 1
    BY <1>2
  <2>4. QED
    BY <1>3, <1>4, <1>5, <2>1, <2>2, <2>3
<1>7. Whole(s) => /\ Whole(t)
                  /\ Head(s).ok => \E e \in Events : Head(s).ids = {e}
  <2>1. 1 \in 1 .. n + 1
    BY <1>2
  <2>2. QED
    BY <1>1, <1>2, <1>3, <1>4, <2>1 DEF Whole
<1>8. ASSUME Apart(s)
      PROVE  Apart(t) /\ Head(s).ids \cap IdsOf(t) = {}
  <2>1. \A i, j \in 1 .. n + 1 : i # j => s[i].ids \cap s[j].ids = {}
    BY <1>2, <1>8 DEF Apart
  <2>2. \A i, j \in 1..n : i # j => t[i].ids \cap t[j].ids = {}
    <3>1. SUFFICES ASSUME NEW i \in 1..n, NEW j \in 1..n, i # j
                   PROVE  t[i].ids \cap t[j].ids = {}
      OBVIOUS
    <3>2. i + 1 # j + 1
      BY <3>1
    <3>3. QED
      BY <1>1, <1>4, <2>1, <3>2
  <2>3. \A i \in 1..n : s[1].ids \cap t[i].ids = {}
    <3>1. SUFFICES ASSUME NEW i \in 1..n
                   PROVE  s[1].ids \cap t[i].ids = {}
      OBVIOUS
    <3>2. 1 \in 1 .. n + 1 /\ i + 1 # 1
      BY <1>2
    <3>3. QED
      BY <1>1, <1>4, <2>1, <3>2
  <2>4. QED
    BY <1>2, <1>3, <2>2, <2>3 DEF Apart, IdsOf
<1>9. QED
  BY <1>1, <1>6, <1>7, <1>8 DEF t

\* Lines u are consecutive lines of s, from line d + 1 on, perhaps broken.
PartFrom(d, u, s) ==
    \A i \in 1..Len(u) :
        i + d <= Len(s) /\ u[i].ids = s[i + d].ids /\ (u[i].ok => s[i + d].ok)

LEMMA PartOfLines ==
    ASSUME NEW d \in Nat, NEW u \in Seq(Line), NEW s \in Seq(Line),
           PartFrom(d, u, s)
    PROVE  /\ IdsOf(u) \subseteq IdsOf(s)
           /\ Whole(s) => Whole(u)
           /\ Apart(s) => Apart(u)
<1>1. /\ Len(u) \in Nat /\ DOMAIN u = 1..Len(u)
      /\ Len(s) \in Nat /\ DOMAIN s = 1..Len(s)
  BY LenProperties
<1>2. \A i \in DOMAIN u : /\ i + d \in DOMAIN s /\ u[i].ids = s[i + d].ids
                          /\ u[i].ok => s[i + d].ok
  BY <1>1 DEF PartFrom
<1>3. IdsOf(u) \subseteq IdsOf(s)
  BY <1>2 DEF IdsOf
<1>4. Whole(s) => Whole(u)
  BY <1>2 DEF Whole
<1>5. \A i, j \in DOMAIN u : i # j => i + d # j + d
  BY <1>1
<1>6. Apart(s) => Apart(u)
  BY <1>2, <1>5 DEF Apart
<1>7. QED
  BY <1>3, <1>4, <1>6

LEMMA PartBytes ==
    ASSUME NEW u \in Seq(Line), NEW s \in Seq(Line),
           Len(u) <= Len(s), PartFrom(0, u, s)
    PROVE  TotalBytes(u) <= TotalBytes(s)
<1> DEFINE f == [i \in DOMAIN s |-> LineBytes(s[i])]
           g == [i \in DOMAIN u |-> LineBytes(u[i])]
<1>1. /\ Len(u) \in Nat /\ DOMAIN u = 1..Len(u)
      /\ Len(s) \in Nat /\ DOMAIN s = 1..Len(s)
  BY LenProperties
<1>2. ASSUME NEW i \in 1..Len(u)
      PROVE  g[i] \in Nat /\ g[i] <= f[i]
  <2>1. u[i].ids = s[i].ids /\ i \in 1..Len(s)
    BY <1>1 DEF PartFrom
  <2>2. LineBytes(u[i]) = LineBytes(s[i])
    BY <2>1 DEF LineBytes
  <2>3. g[i] = LineBytes(u[i]) /\ f[i] = LineBytes(s[i])
    BY <1>1, <2>1
  <2>4. QED
    BY <2>2, <2>3, LineBytesNat
<1>3. \A i \in 1..Len(s) : f[i] \in Nat
  BY <1>1, LineBytesNat
<1>4. SumTo(g, Len(u)) <= SumTo(f, Len(s))
  <2> HIDE DEF f, g
  <2> QED
    BY <1>1, <1>2, <1>3, SumToGrows
<1>5. QED
  BY <1>4 DEF TotalBytes

\* _enforce_bound cuts a prefix off, and what it leaves fits.
LEMMA BoundKept ==
    ASSUME NEW s \in Seq(Line)
    PROVE  /\ EnforceBound(s) \in Seq(Line)
           /\ \E d \in Nat : PartFrom(d, EnforceBound(s), s)
           /\ TotalBytes(EnforceBound(s)) <= MaxBytes
<1> DEFINE n == Len(s)
           fits(k) == \/ k = n + 1
                      \/ TotalBytes(SubSeq(s, k, n)) <= MaxBytes
           S == {k \in 1 .. n + 1 : fits(k)}
           k == FirstKept(s)
<1>1. n \in Nat /\ \A i \in 1..n : s[i] \in Line
  BY LenProperties, ElementOfSeq
<1>2. k \in S
  <2>1. S \in SUBSET Nat /\ n + 1 \in S
    BY <1>1
  <2>2. \E x \in S : \A y \in S : x <= y
    <3> HIDE DEF S
    <3> QED
      BY <2>1, LeastNatural
  <2>3. k = Min(S)
    BY DEF FirstKept
  <2> HIDE DEF S, k
  <2>4. QED
    BY <2>2, <2>3 DEF Min
<1>3. k \in 1 .. n + 1 /\ fits(k)
  <2> HIDE DEF k, fits
  <2> QED
    BY <1>2
<1> DEFINE u == EnforceBound(s)
<1>4. u = SubSeq(s, k, n)
  BY DEF EnforceBound
<1> HIDE DEF k, n, u
<1>5. k \in Int /\ n \in Int /\ \A i \in k..n : s[i] \in Line
  BY <1>1, <1>3
<1>6. /\ u \in Seq(Line)
      /\ Len(u) = IF k <= n THEN n - k + 1 ELSE 0
      /\ \A i \in 1 .. n - k + 1 : u[i] = s[k + i - 1]
  BY <1>4, <1>5, SubSeqProperties
<1>7. k - 1 \in Nat /\ PartFrom(k - 1, u, s)
  <2>1. k - 1 \in Nat
    BY <1>3
  <2>2. ASSUME NEW i \in 1..Len(u)
        PROVE  i + (k - 1) <= n /\ u[i] = s[i + (k - 1)]
    <3>1. k <= n /\ i \in 1 .. n - k + 1 /\ k + i - 1 = i + (k - 1)
      BY <1>3, <1>5, <1>6
    <3>2. u[i] = s[i + (k - 1)]
      BY <1>6, <3>1
    <3>3. i + (k - 1) <= n
      BY <1>3, <1>5, <3>1
    <3>4. QED
      BY <3>2, <3>3
  <2>3. QED
    BY <2>1, <2>2 DEF PartFrom, n
<1>8. TotalBytes(u) <= MaxBytes
  <2>1. CASE k = n + 1
    <3>1. u = <<>>
      BY <1>4, <1>5, <2>1, SubSeqEmpty
    <3>2. QED
      BY <3>1, TotalBytesEmpty, CollectorAssumption
  <2>2. CASE k # n + 1
    BY <1>3, <1>4, <2>2 DEF n
  <2>3. QED
    BY <2>1, <2>2
<1>9. QED
  BY <1>6, <1>7, <1>8 DEF u

\* Lines that run into each other are the last two, and become one that does
\* not parse.
LEMMA GluedLines ==
    ASSUME NEW s \in Seq(Line), Glued(s) # s
    PROVE  \E u \in Seq(Line), a, b, c \in Line :
              /\ s = Append(Append(u, a), b)
              /\ Glued(s) = Append(u, c)
              /\ c.ids = a.ids \cup b.ids
              /\ ~c.ok
<1> DEFINE n == Len(s)
           u == SubSeq(s, 1, n - 2)
           a == s[n - 1]
           b == s[n]
           c == [b EXCEPT !.ids = @ \cup a.ids, !.ok = FALSE]
<1>1. n \in Nat /\ \A i \in 1..n : s[i] \in Line
  BY LenProperties, ElementOfSeq
<1>2. n >= 2 /\ Glued(s) = Append(u, c)
  BY DEF Glued
<1>3. a \in Line /\ b \in Line
  BY <1>1, <1>2
<1>4. c \in Line /\ c.ids = a.ids \cup b.ids /\ ~c.ok
  <2> HIDE DEF a, b
  <2> QED
    BY <1>3 DEF Line
<1>5. u \in Seq(Line) /\ Len(u) = n - 2 /\ \A i \in 1 .. n - 2 : u[i] = s[i]
  <2>1. 1 \in Int /\ n - 2 \in Int /\ \A i \in 1 .. n - 2 : s[i] \in Line
    BY <1>1
  <2>2. /\ u \in Seq(Line)
        /\ Len(u) = IF 1 <= n - 2 THEN n - 2 - 1 + 1 ELSE 0
        /\ \A i \in 1 .. n - 2 - 1 + 1 : u[i] = s[1 + i - 1]
    <3> HIDE DEF n
    <3> QED
      BY <2>1, SubSeqProperties
  <2> HIDE DEF u, n
  <2>3. QED
    BY <1>1, <1>2, <2>2
<1>6. s = Append(Append(u, a), b)
  <2> DEFINE v == Append(u, a)
             t == Append(v, b)
  <2> HIDE DEF a, b, c, u
  <2>1. /\ v \in Seq(Line) /\ Len(v) = n - 1
        /\ \A i \in 1 .. n - 2 : v[i] = s[i]
        /\ v[n - 1] = a
    <3> HIDE DEF n
    <3>1. /\ v \in Seq(Line) /\ Len(v) = Len(u) + 1
          /\ \A i \in 1..Len(u) : v[i] = u[i]
          /\ v[Len(u) + 1] = a
      BY <1>3, <1>5, AppendProperties
    <3> HIDE DEF v
    <3>2. Len(u) + 1 = n - 1
      BY <1>1, <1>2, <1>5
    <3>3. QED
      BY <1>5, <3>1, <3>2
  <2> HIDE DEF v
  <2>2. /\ t \in Seq(Line) /\ Len(t) = n
        /\ \A i \in 1 .. n - 1 : t[i] = v[i]
        /\ t[n] = b
    <3> HIDE DEF n
    <3>1. /\ t \in Seq(Line) /\ Len(t) = Len(v) + 1
          /\ \A i \in 1..Len(v) : t[i] = v[i]
          /\ t[Len(v) + 1] = b
      BY <1>3, <2>1, AppendProperties
    <3> HIDE DEF t
    <3>2. Len(v) + 1 = n
      BY <1>1, <1>2, <2>1
    <3>3. QED
      BY <2>1, <3>1, <3>2
  <2>3. \A i \in 1..n : t[i] = s[i]
    <3>1. a = s[n - 1] /\ b = s[n]
      BY DEF a, b
    <3> HIDE DEF t, n
    <3>2. \A i \in 1..n : i = n \/ i = n - 1 \/ i \in 1 .. n - 2
      BY <1>1
    <3>3. \A i \in 1 .. n - 2 : i \in 1 .. n - 1
      BY <1>1
    <3>4. n - 1 \in 1 .. n - 1
      BY <1>1, <1>2
    <3>5. QED
      BY <2>1, <2>2, <3>1, <3>2, <3>3, <3>4
  <2>4. s = t
    <3> HIDE DEF t
    <3> QED
      BY <2>2, <2>3, SeqEqual
  <2>5. QED
    BY <2>4 DEF t, v
<1>7. QED
  <2> HIDE DEF u, a, b, c
  <2> QED
    BY <1>2, <1>3, <1>4, <1>5, <1>6

\* writelines keeps every event, and adds no byte.
LEMMA GluedKept ==
    ASSUME NEW s \in Seq(Line)
    PROVE  /\ Glued(s) \in Seq(Line)
           /\ IdsOf(Glued(s)) = IdsOf(s)
           /\ Whole(s) => Whole(Glued(s))
           /\ Apart(s) => Apart(Glued(s))
           /\ TotalBytes(Glued(s)) <= TotalBytes(s)
<1>1. CASE Glued(s) = s
  BY <1>1, TotalBytesNat
<1>2. CASE Glued(s) # s
  <2>1. PICK u \in Seq(Line), a \in Line, b \in Line, c \in Line :
            /\ s = Append(Append(u, a), b)
            /\ Glued(s) = Append(u, c)
            /\ c.ids = a.ids \cup b.ids
            /\ ~c.ok
    BY <1>2, GluedLines
  <2> DEFINE v == Append(u, a)
             g == Append(u, c)
  <2>2. /\ v \in Seq(Line) /\ IdsOf(v) = IdsOf(u) \cup a.ids
        /\ Whole(v) => Whole(u)
        /\ Apart(v) => Apart(u) /\ IdsOf(u) \cap a.ids = {}
    BY AppendLine
  <2>3. /\ IdsOf(s) = IdsOf(v) \cup b.ids
        /\ Whole(s) => Whole(v)
        /\ Apart(s) => Apart(v) /\ IdsOf(v) \cap b.ids = {}
    <3> HIDE DEF v
    <3> QED
      BY <2>1, <2>2, AppendLine DEF v
  <2>4. /\ g \in Seq(Line) /\ IdsOf(g) = IdsOf(u) \cup c.ids
        /\ Whole(g) <=> Whole(u)
        /\ Apart(g) <=> Apart(u) /\ IdsOf(u) \cap c.ids = {}
    BY <2>1, AppendLine
  <2>5. TotalBytes(g) <= TotalBytes(s)
    <3>1. LineBytes(c) <= LineBytes(a) + LineBytes(b)
      BY <2>1, LineBytesUnion
    <3>2. TotalBytes(v) = TotalBytes(u) + LineBytes(a)
      BY TotalBytesAppend
    <3>3. TotalBytes(s) = TotalBytes(v) + LineBytes(b)
      BY <2>1, <2>2, TotalBytesAppend
    <3>4. TotalBytes(g) = TotalBytes(u) + LineBytes(c)
      BY TotalBytesAppend
    <3>5. /\ LineBytes(a) \in Nat /\ LineBytes(b) \in Nat
          /\ LineBytes(c) \in Nat /\ TotalBytes(u) \in Nat
      BY LineBytesNat, TotalBytesNat
    <3> HIDE DEF v, g
    <3>6. QED
      BY <3>1, <3>2, <3>3, <3>4, <3>5
  <2>6. Glued(s) = g
    BY <2>1
  <2> HIDE DEF v, g
  <2>7. QED
    BY <2>1, <2>2, <2>3, <2>4, <2>5, <2>6
<1>3. QED
  BY <1>1, <1>2

\* A rewrite cut short leaves the first of the lines, the last perhaps broken.
LEMMA CutShortLines ==
    ASSUME NEW s \in Seq(Line), NEW f \in CutShort(s)
    PROVE  \E u \in Seq(Line) :
              f = Glued(u) /\ Len(u) <= Len(s) /\ PartFrom(0, u, s)
<1> DEFINE n == Len(s)
           cuts(l) == {[l EXCEPT !.nl = FALSE],
                       [l EXCEPT !.nl = FALSE, !.ok = FALSE],
                       [l EXCEPT !.nl = FALSE, !.ok = FALSE, !.utf8 = AsciiOnly]}
<1>1. n \in Nat /\ \A i \in 1..n : s[i] \in Line
  BY LenProperties, ElementOfSeq
<1>2. ASSUME NEW k \in 0..n
      PROVE  LET u == SubSeq(s, 1, k)
             IN  u \in Seq(Line) /\ Len(u) = k /\ \A i \in 1..k : u[i] = s[i]
  <2> DEFINE u == SubSeq(s, 1, k)
  <2>1. 1 \in Int /\ k \in Int /\ \A i \in 1..k : s[i] \in Line
    BY <1>1, <1>2
  <2>2. /\ u \in Seq(Line)
        /\ Len(u) = IF 1 <= k THEN k - 1 + 1 ELSE 0
        /\ \A i \in 1 .. k - 1 + 1 : u[i] = s[1 + i - 1]
    BY <2>1, SubSeqProperties
  <2> HIDE DEF u
  <2>3. u \in Seq(Line) /\ Len(u) = k /\ \A i \in 1..k : u[i] = s[i]
    BY <1>2, <2>2
  <2>4. QED
    BY <2>3 DEF u
<1>3. ASSUME NEW k \in 0..n, f = Glued(SubSeq(s, 1, k))
      PROVE  \E u \in Seq(Line) :
                f = Glued(u) /\ Len(u) <= Len(s) /\ PartFrom(0, u, s)
  <2> DEFINE u == SubSeq(s, 1, k)
  <2>1. u \in Seq(Line) /\ Len(u) = k /\ \A i \in 1..k : u[i] = s[i]
    BY <1>2, <1>3
  <2> HIDE DEF u
  <2>2. Len(u) <= Len(s) /\ PartFrom(0, u, s)
    BY <1>1, <2>1 DEF PartFrom
  <2>3. f = Glued(u)
    BY <1>3 DEF u
  <2>4. QED
    BY <2>1, <2>2, <2>3
<1>4. ASSUME NEW k \in 0 .. n - 1, NEW l \in cuts(s[k + 1]),
             f = Glued(Append(SubSeq(s, 1, k), l))
      PROVE  \E u \in Seq(Line) :
                f = Glued(u) /\ Len(u) <= Len(s) /\ PartFrom(0, u, s)
  <2> DEFINE v == SubSeq(s, 1, k)
             u == Append(v, l)
  <2>1. s[k + 1] \in Line /\ k \in 0..n
    BY <1>1
  <2>2. l \in Line /\ l.ids = s[k + 1].ids /\ (l.ok => s[k + 1].ok)
    BY <2>1, CollectorAssumption DEF Line
  <2>3. v \in Seq(Line) /\ Len(v) = k /\ \A i \in 1..k : v[i] = s[i]
    BY <1>2, <2>1
  <2> HIDE DEF v, cuts
  <2>4. /\ u \in Seq(Line) /\ Len(u) = Len(v) + 1
        /\ \A i \in 1..Len(v) : u[i] = v[i]
        /\ u[Len(v) + 1] = l
    BY <2>2, <2>3, AppendProperties
  <2>5. f = Glued(u)
    BY <1>4 DEF v
  <2> HIDE DEF u
  <2>6. /\ Len(u) = k + 1
        /\ \A i \in 1 .. k + 1 : u[i].ids = s[i].ids /\ (u[i].ok => s[i].ok)
    BY <2>1, <2>2, <2>3, <2>4
  <2>7. Len(u) <= Len(s) /\ PartFrom(0, u, s)
    BY <1>1, <2>6 DEF PartFrom
  <2>8. QED
    BY <2>4, <2>5, <2>7
<1>5. QED
  BY <1>3, <1>4 DEF CutShort

\* ... and it keeps what the lines had, of the events that are left.
LEMMA CutShortKept ==
    ASSUME NEW s \in Seq(Line), NEW f \in CutShort(s)
    PROVE  /\ f \in Seq(Line)
           /\ IdsOf(f) \subseteq IdsOf(s)
           /\ Whole(s) => Whole(f)
           /\ Apart(s) => Apart(f)
           /\ TotalBytes(f) <= TotalBytes(s)
<1>1. PICK u \in Seq(Line) :
          f = Glued(u) /\ Len(u) <= Len(s) /\ PartFrom(0, u, s)
  BY CutShortLines
<1>2. /\ IdsOf(u) \subseteq IdsOf(s)
      /\ Whole(s) => Whole(u)
      /\ Apart(s) => Apart(u)
  BY <1>1, PartOfLines
<1>3. TotalBytes(u) <= TotalBytes(s)
  BY <1>1, PartBytes
<1>4. /\ f \in Seq(Line)
      /\ IdsOf(f) = IdsOf(u)
      /\ Whole(u) => Whole(f)
      /\ Apart(u) => Apart(f)
      /\ TotalBytes(f) <= TotalBytes(u)
  BY <1>1, GluedKept
<1>5. TotalBytes(f) \in Nat /\ TotalBytes(u) \in Nat /\ TotalBytes(s) \in Nat
  BY <1>4, TotalBytesNat
<1>6. QED
  BY <1>2, <1>3, <1>4, <1>5

-----------------------------------------------------------------------------
(* Type correctness. *)

Typed == TypeOK /\ HandInv

LEMMA InitTyped == Init => Typed
<1> SUFFICES ASSUME Init
             PROVE  Typed
  OBVIOUS
<1> USE CollectorAssumption
<1>1. TypeOK
  <2>1. <<>> \in Seq(Line)
    BY EmptySeq
  <2>2. 0 \in 0..MaxEvents /\ 0 \in 0..Attempts /\ 0 \in 0..MaxFaults
    OBVIOUS
  <2>3. QED
    BY <2>1, <2>2 DEF Init, TypeOK, Label
<1>2. HandInv
  BY DEF Init, HandInv, InHands, Threads
<1>3. QED
  BY <1>1, <1>2 DEF Typed

\* What the threads have in hand is typed.
LEMMA InHandTyped ==
    ASSUME Typed, NEW t \in Threads
    PROVE  /\ pc[t] \in Label
           /\ t # Drainer /\ InHands(t) => ev[t] \in Events /\ InHand(t) \subseteq Events
           /\ t = Drainer => InHand(t) = {}
           /\ todo # <<>> => /\ Head(todo) \in Line /\ Tail(todo) \in Seq(Line)
                             /\ Append(keep, Head(todo)) \in Seq(Line)
                             /\ Head(todo).ids \subseteq Events
<1>1. pc[t] \in Label
  BY DEF Typed, TypeOK
<1>2. t # Drainer /\ InHands(t) => ev[t] \in Events /\ InHand(t) \subseteq Events
  BY DEF Typed, HandInv, InHand, Threads
<1>3. t = Drainer => InHand(t) = {}
  BY DEF InHand
<1>4. ASSUME todo # <<>>
      PROVE  /\ Head(todo) \in Line /\ Tail(todo) \in Seq(Line)
             /\ Append(keep, Head(todo)) \in Seq(Line)
             /\ Head(todo).ids \subseteq Events
  <2>1. todo \in Seq(Line) /\ keep \in Seq(Line)
    BY DEF Typed, TypeOK
  <2>2. Head(todo) \in Line /\ Tail(todo) \in Seq(Line)
    BY <1>4, <2>1, FirstLine
  <2>3. Append(keep, Head(todo)) \in Seq(Line)
    BY <2>1, <2>2, AppendLine
  <2>4. QED
    BY <2>2, <2>3 DEF Line
<1>5. QED
  BY <1>1, <1>2, <1>3, <1>4

LEMMA ReceiveTyped ==
    ASSUME Typed, NEW p \in Publishers, Receive(p)
    PROVE  Typed'
<1> USE CollectorAssumption
<1>1. TypeOK'
  BY DEF Typed, TypeOK, Receive, Goto, disk, Label, Threads
<1>2. received + 1 \in Events
  BY DEF Typed, TypeOK, Receive, Events
<1>3. /\ p \in Threads /\ Drainer \in Threads /\ p # Drainer
      /\ pc \in [Threads -> Label] /\ ev \in [Threads -> 0..MaxEvents]
  BY DEF Typed, TypeOK, Threads
<1>4. HandInv'
  BY <1>2, <1>3 DEF Typed, HandInv, InHands, Receive, Goto, Threads
<1>5. QED
  BY <1>1, <1>4 DEF Typed

\* How the attempt of a publisher's send can end.
PublisherSends(p) ==
    /\ UNCHANGED <<todo, keep>>
    /\ \/ UNCHANGED <<pc, ended>>
       \/ pc' = [pc EXCEPT ![p] = "spool"] /\ HasSpool /\ UNCHANGED ended
       \/ pc' = [pc EXCEPT ![p] = "idle"] /\ ended' = ended \cup {ev[p]}

\* ... and of drain()'s.
DrainSends ==
    /\ UNCHANGED ended
    /\ \/ UNCHANGED <<pc, todo, keep>>
       \/ /\ pc' = [pc EXCEPT ![Drainer] = "drain"]
          /\ todo' = Tail(todo)
          /\ keep' \in {keep, Append(keep, Head(todo))}

LEMMA SendEnds ==
    ASSUME NEW t, Returns(t) \/ Raises(t)
    PROVE  /\ t # Drainer => PublisherSends(t)
           /\ t = Drainer => DrainSends
           /\ tries' = tries \/ (tries[t] # Attempts /\ tries' = [tries EXCEPT ![t] = @ + 1])
<1>1. CASE t = Drainer
  <2>1. CASE Returns(t)
    BY <1>1, <2>1 DEF Returns, Goto, DrainSends
  <2>2. CASE Raises(t) /\ ~LastAttempt(t)
    BY <1>1, <2>2 DEF Raises, DrainSends, LastAttempt
  <2>3. CASE Raises(t) /\ LastAttempt(t)
    BY <1>1, <2>3 DEF Raises, Goto, DrainSends
  <2>4. QED
    BY <2>1, <2>2, <2>3
<1>2. CASE t # Drainer
  <2>1. CASE Returns(t)
    BY <1>2, <2>1 DEF Returns, Goto, PublisherSends
  <2>2. CASE Raises(t) /\ ~LastAttempt(t)
    BY <1>2, <2>2 DEF Raises, PublisherSends, LastAttempt
  <2>3. CASE Raises(t) /\ LastAttempt(t)
    BY <1>2, <2>3 DEF Raises, Goto, PublisherSends
  <2>4. QED
    BY <2>1, <2>2, <2>3
<1>3. QED
  BY <1>1, <1>2

LEMMA SendTyped ==
    ASSUME Typed, NEW t \in Threads,
           SendSucceeds(t) \/ SendRefused(t) \/ SendTimesOut(t)
    PROVE  Typed'
<1> USE CollectorAssumption
<1>1. /\ pc \in [Threads -> Label] /\ tries \in [Threads -> 0..Attempts]
      /\ ended \subseteq Events /\ todo \in Seq(Line) /\ keep \in Seq(Line)
      /\ copies \in [Events -> Nat] /\ ev' = ev
  BY DEF Typed, TypeOK, SendSucceeds, SendRefused, SendTimesOut
<1>2. pc[t] = "send" /\ (Returns(t) \/ Raises(t))
  BY DEF SendSucceeds, SendRefused, SendTimesOut
<1>3. tries' \in [Threads -> 0..Attempts]
  <2>1. tries[t] \in 0..Attempts /\ Attempts \in Nat
    BY <1>1
  <2>2. tries[t] # Attempts => tries[t] + 1 \in 0..Attempts
    BY <2>1
  <2>3. QED
    BY <1>1, <1>2, <2>2, SendEnds
<1>4. /\ pc' \in [Threads -> Label] /\ ended' \subseteq Events
      /\ todo' \in Seq(Line) /\ keep' \in Seq(Line)
      /\ HandInv'
  <2>1. CASE t = Drainer
    <3>1. /\ todo # <<>> /\ Tail(todo) \in Seq(Line)
          /\ Append(keep, Head(todo)) \in Seq(Line)
      BY <1>2, <2>1, InHandTyped DEF Typed, HandInv
    <3>2. DrainSends
      BY <1>2, <2>1, SendEnds
    <3>3. /\ pc' \in [Threads -> Label] /\ ended' \subseteq Events
          /\ todo' \in Seq(Line) /\ keep' \in Seq(Line)
      BY <1>1, <3>1, <3>2 DEF DrainSends, Label
    <3>4. HandInv'
      BY <1>1, <3>2 DEF Typed, HandInv, InHands, DrainSends, Threads
    <3>5. QED
      BY <3>3, <3>4
  <2>2. CASE t # Drainer
    <3>1. ev[t] \in Events
      BY <1>2, <2>2, InHandTyped DEF InHands
    <3>2. PublisherSends(t)
      BY <1>2, <2>2, SendEnds
    <3>3. /\ pc' \in [Threads -> Label] /\ ended' \subseteq Events
          /\ todo' \in Seq(Line) /\ keep' \in Seq(Line)
      BY <1>1, <3>1, <3>2 DEF PublisherSends, Label
    <3>4. HandInv'
      BY <1>1, <1>2, <2>2, <3>2 DEF Typed, HandInv, InHands, PublisherSends, Threads
    <3>5. QED
      BY <3>3, <3>4
  <2>3. QED
    BY <2>1, <2>2
<1>5. copies' \in [Events -> Nat]
  <2>1. copies' = copies \/ \E n \in 0..1 : copies' = [copies EXCEPT ![ev[t]] = @ + n]
    BY DEF SendSucceeds, SendRefused, SendTimesOut
  <2>2. ev[t] \in Events
    BY <1>2, InHandTyped DEF InHands, Typed, HandInv
  <2>3. ASSUME NEW n \in 0..1, copies' = [copies EXCEPT ![ev[t]] = @ + n]
        PROVE  copies' \in [Events -> Nat]
    <3>1. copies[ev[t]] \in Nat
      BY <1>1, <2>2
    <3>2. copies[ev[t]] + n \in Nat
      BY <2>3, <3>1
    <3>3. QED
      BY <1>1, <2>2, <2>3, <3>2
  <2>4. QED
    BY <1>1, <2>1, <2>3
<1>6. faults' \in 0..MaxFaults
  BY DEF Typed, TypeOK, SendSucceeds, SendRefused, SendTimesOut, Fault
<1>7. UNCHANGED <<kafka, received, ev, lock, quarantined, buf, disk, stop>>
  BY DEF SendSucceeds, SendRefused, SendTimesOut
<1>8. TypeOK'
  BY <1>3, <1>4, <1>5, <1>6, <1>7 DEF Typed, TypeOK, disk
<1>9. QED
  BY <1>4, <1>8 DEF Typed

\* The line write() puts at the end, and what it writes.
LEMMA WriteBeginLines ==
    ASSUME Typed, NEW p \in Publishers, pc[p] = "spool"
    PROVE  /\ p \in Threads /\ p # Drainer /\ InHands(p) /\ ev[p] \in Events
           /\ Record(ev[p]) \in Line
           /\ Append(file, Record(ev[p])) \in Seq(Line)
           /\ EnforceBound(Append(file, Record(ev[p]))) \in Seq(Line)
<1>1. p \in Threads /\ p # Drainer /\ InHands(p)
  BY CollectorAssumption DEF InHands, Threads
<1>2. ev[p] \in Events
  BY <1>1, InHandTyped
<1>3. Record(ev[p]) \in Line
  BY <1>2 DEF Record, Line
<1>4. Append(file, Record(ev[p])) \in Seq(Line)
  BY <1>3, AppendLine DEF Typed, TypeOK
<1>5. QED
  BY <1>1, <1>2, <1>3, <1>4, BoundKept

LEMMA WriteBeginTyped ==
    ASSUME Typed, NEW p \in Publishers, WriteBegin(p) \/ WriteRefused(p)
    PROVE  Typed'
<1> USE CollectorAssumption
<1>1. /\ pc[p] = "spool"
      /\ p \in Threads /\ p # Drainer /\ InHands(p) /\ ev[p] \in Events
      /\ EnforceBound(Append(file, Record(ev[p]))) \in Seq(Line)
  <2>1. pc[p] = "spool"
    BY DEF WriteBegin, WriteRefused
  <2>2. QED
    BY <2>1, WriteBeginLines
<1>2. TypeOK'
  <2>1. CASE WriteBegin(p)
    BY <1>1, <2>1 DEF Typed, TypeOK, WriteBegin, Goto, disk, Label
  <2>2. CASE WriteRefused(p)
    BY <1>1, <2>2 DEF Typed, TypeOK, WriteRefused, Goto, Label
  <2>3. QED
    BY <2>1, <2>2
<1>3. pc \in [Threads -> Label] /\ Drainer \in Threads
  BY DEF Typed, TypeOK, Threads
<1>4. UNCHANGED <<ev, todo>> /\ pc' \in {[pc EXCEPT ![p] = "write"], [pc EXCEPT ![p] = "idle"]}
  BY DEF WriteBegin, WriteRefused, Goto
<1>5. HandInv'
  BY <1>1, <1>3, <1>4 DEF Typed, HandInv, InHands, Threads
<1>6. QED
  BY <1>2, <1>5 DEF Typed

LEMMA DrainTyped ==
    ASSUME Typed,
           DrainBegin \/ DrainRecord \/ DrainMalformed \/ DrainEnd \/ DrainEndFails
    PROVE  Typed'
<1> USE CollectorAssumption
<1>1. /\ Drainer \in Threads /\ Drainer \notin Publishers
      /\ pc \in [Threads -> Label] /\ ev \in [Threads -> 0..MaxEvents]
  BY DEF Typed, TypeOK, Threads
<1>2. CASE DrainBegin
  <2>1. TypeOK'
    BY <1>1, <1>2, EmptySeq DEF Typed, TypeOK, DrainBegin, Goto, disk, Label
  <2>2. HandInv'
    BY <1>1, <1>2 DEF Typed, HandInv, InHands, DrainBegin, Goto, Threads
  <2>3. QED
    BY <2>1, <2>2 DEF Typed
<1>3. CASE DrainRecord
  <2>1. PICK e \in Head(todo).ids : ev' = [ev EXCEPT ![Drainer] = e]
    BY <1>3 DEF DrainRecord
  <2>2. todo # <<>> /\ e \in Events
    BY <1>1, <1>3, InHandTyped DEF DrainRecord
  <2>3. ev' \in [Threads -> 0..MaxEvents]
    BY <1>1, <2>1, <2>2 DEF Events
  <2>4. tries' \in [Threads -> 0..Attempts]
    <3>1. tries' = [tries EXCEPT ![Drainer] = 1] /\ 1 \in 0..Attempts
      BY <1>3 DEF DrainRecord
    <3>2. QED
      BY <3>1 DEF Typed, TypeOK
  <2>5. TypeOK'
    BY <1>1, <1>3, <2>3, <2>4 DEF Typed, TypeOK, DrainRecord, Goto, disk, Label
  <2>6. HandInv'
    BY <1>1, <1>3, <2>1, <2>2 DEF Typed, HandInv, InHands, DrainRecord, Goto, Threads
  <2>7. QED
    BY <2>5, <2>6 DEF Typed
<1>4. CASE DrainMalformed
  <2>1. Tail(todo) \in Seq(Line) /\ Head(todo).ids \subseteq Events
    BY <1>1, <1>4, InHandTyped DEF DrainMalformed
  <2>2. TypeOK'
    BY <1>4, <2>1 DEF Typed, TypeOK, DrainMalformed, disk
  <2>3. HandInv'
    BY <1>1, <1>4 DEF Typed, HandInv, InHands, DrainMalformed, Threads
  <2>4. QED
    BY <2>2, <2>3 DEF Typed
<1>5. CASE DrainEnd
  <2>1. TypeOK'
    BY <1>1, <1>5 DEF Typed, TypeOK, DrainEnd, Goto, Label
  <2>2. HandInv'
    BY <1>1, <1>5 DEF Typed, HandInv, InHands, DrainEnd, Goto, Threads
  <2>3. QED
    BY <2>1, <2>2 DEF Typed
<1>6. CASE DrainEndFails
  <2>1. TypeOK'
    BY <1>1, <1>6 DEF Typed, TypeOK, DrainEndFails, Unlock, InHand, Fault, Goto, disk, Label
  <2>2. HandInv'
    BY <1>1, <1>6 DEF Typed, HandInv, InHands, DrainEndFails, Unlock, Goto, Threads
  <2>3. QED
    BY <2>1, <2>2 DEF Typed
<1>7. QED
  BY <1>2, <1>3, <1>4, <1>5, <1>6

\* The spool file after a rewrite, complete or not, is a sequence of lines.
LEMMA RewriteLines ==
    ASSUME Typed
    PROVE  /\ Glued(buf) \in Seq(Line) /\ IdsOf(Glued(buf)) = IdsOf(buf)
           /\ \A f \in {file} \cup CutShort(buf) :
                 /\ f \in Seq(Line) /\ IdsOf(f) \subseteq Events
                 /\ f = file \/ IdsOf(f) \subseteq IdsOf(buf)
           /\ IdsOf(file) \subseteq Events /\ IdsOf(buf) \subseteq Events
           /\ IdsOf(todo) \subseteq Events /\ IdsOf(keep) \subseteq Events
  BY GluedKept, CutShortKept, IdsOfLines DEF Typed, TypeOK

LEMMA WriteTyped ==
    ASSUME Typed, NEW t \in Threads, Write(t) \/ WriteFails(t)
    PROVE  Typed'
<1> USE CollectorAssumption
<1>1. pc[t] = "write" /\ pc \in [Threads -> Label]
  BY DEF Write, WriteFails, Typed, TypeOK
<1>2. InHand(t) \subseteq Events /\ (t # Drainer => ev[t] \in Events)
  BY <1>1, InHandTyped DEF InHands
<1>3. UNCHANGED <<ev, todo>> /\ Unlock(t)
  BY DEF Write, WriteFails
<1>4. TypeOK'
  <2>1. CASE Write(t)
    BY <1>1, <1>2, <2>1, RewriteLines DEF Typed, TypeOK, Write, Unlock, Goto, Label
  <2>2. CASE WriteFails(t)
    <3>1. file' \in Seq(Line) /\ torn' \subseteq Events
      BY <1>2, <2>2, RewriteLines DEF Typed, TypeOK, WriteFails
    <3>2. QED
      BY <1>1, <1>2, <2>2, <3>1 DEF Typed, TypeOK, WriteFails, Unlock, Fault, Goto, Label
  <2>3. QED
    BY <2>1, <2>2
<1>5. HandInv'
  BY <1>1, <1>3 DEF Typed, HandInv, InHands, Unlock, Goto, Threads
<1>6. QED
  BY <1>4, <1>5 DEF Typed

LEMMA KilledTyped ==
    ASSUME Typed, Killed, faults' \in 0..MaxFaults
    PROVE  Typed'
<1> USE CollectorAssumption
<1>1. file' \in {file} \cup CutShort(buf)
  BY DEF Killed
<1>2. file' \in Seq(Line) /\ torn' \subseteq Events
  BY <1>1, RewriteLines DEF Typed, TypeOK, Killed
<1>3. /\ pc' \in [Threads -> Label] /\ ev' \in [Threads -> 0..MaxEvents]
      /\ tries' \in [Threads -> 0..Attempts]
      /\ todo' \in Seq(Line) /\ keep' \in Seq(Line) /\ buf' \in Seq(Line)
      /\ lock' = Nobody /\ quarantined' = {} /\ stop' = FALSE
      /\ \A t \in Threads : pc'[t] = "idle"
  BY EmptySeq DEF Killed, NewProcess, Label
<1>4. TypeOK'
  BY <1>2, <1>3 DEF Typed, TypeOK, Killed
<1>5. HandInv'
  BY <1>3 DEF HandInv, InHands, Threads
<1>6. QED
  BY <1>4, <1>5 DEF Typed

LEMMA StepTyped == Typed /\ [Next]_vars => Typed'
<1> SUFFICES ASSUME Typed, [Next]_vars
             PROVE  Typed'
  OBVIOUS
<1>1. ASSUME NEW p \in Publishers, Publisher(p)
      PROVE  Typed'
  <2>1. p \in Threads
    BY DEF Threads
  <2>2. QED
    BY <1>1, <2>1, ReceiveTyped, WriteBeginTyped, SendTyped, WriteTyped
       DEF Publisher, Thread
<1>2. CASE Drain
  <2>1. Drainer \in Threads
    BY DEF Threads
  <2>2. QED
    BY <1>2, <2>1, DrainTyped, SendTyped, WriteTyped DEF Drain, Thread
<1>3. CASE Crash
  <2>1. faults' \in 0..MaxFaults
    BY <1>3, CollectorAssumption DEF Typed, TypeOK, Crash, Fault
  <2>2. QED
    BY <1>3, <2>1, KilledTyped DEF Crash
<1>4. CASE Exit
  BY <1>4, KilledTyped DEF Exit, Typed, TypeOK
<1>5. CASE Stop
  <2>1. TypeOK'
    BY <1>5, CollectorAssumption DEF Stop, Typed, TypeOK, Fault, threads, disk
  <2>2. HandInv'
    BY <1>5 DEF Stop, Typed, HandInv, InHands, threads
  <2>3. QED
    BY <2>1, <2>2 DEF Typed
<1>6. CASE Flip \/ UNCHANGED vars
  <2>1. TypeOK'
    BY <1>6 DEF Flip, Typed, TypeOK, vars, threads, disk
  <2>2. HandInv'
    BY <1>6 DEF Flip, Typed, HandInv, InHands, vars, threads
  <2>3. QED
    BY <2>1, <2>2 DEF Typed
<1>7. QED
  BY <1>1, <1>2, <1>3, <1>4, <1>5, <1>6 DEF Next

\* Every variable of the collector keeps its type: what the threads have in
\* hand is an event that was received, and what they read from the spool file,
\* replay, keep and write back is a sequence of lines.
THEOREM CollectorTyped == Spec => []TypeOK
<1>1. Spec => []Typed
  BY InitTyped, StepTyped, PTL DEF Spec
<1>2. Typed => TypeOK
  BY DEF Typed
<1>3. QED
  BY <1>1, <1>2, PTL

-----------------------------------------------------------------------------
(* The spool lock. *)

LEMMA InitLock == Init => LockInv
  BY DEF Init, LockInv, HoldsLock

\* A thread that moves without taking the lock, or lets it go.
LEMMA LockKept ==
    ASSUME Typed, LockInv, NEW t \in Threads,
           \/ /\ lock' = lock
              /\ \/ pc' = pc
                 \/ \E l \in Label : /\ pc' = [pc EXCEPT ![t] = l]
                                     /\ l \in {"drain", "write"} => HoldsLock(t)
                                     /\ l = "send" /\ t = Drainer => HoldsLock(t)
           \/ lock' = Nobody /\ HoldsLock(t) /\ pc' = [pc EXCEPT ![t] = "idle"]
           \/ lock = Nobody /\ lock' = t /\ \E l \in Label : pc' = [pc EXCEPT ![t] = l]
    PROVE  LockInv'
<1>1. pc \in [Threads -> Label] /\ Nobody \notin Threads
  BY CollectorAssumption DEF Typed, TypeOK, Threads
<1>2. ASSUME NEW u \in Threads, HoldsLock(u)'
      PROVE  lock' = u
  <2>1. CASE u = t
    BY <1>1, <1>2, <2>1 DEF LockInv, HoldsLock
  <2>2. CASE u # t
    <3>1. pc'[u] = pc[u]
      BY <1>1, <2>2
    <3>2. HoldsLock(u)
      BY <1>2, <3>1 DEF HoldsLock
    <3>3. lock = u
      BY <3>2 DEF LockInv
    <3>4. lock' = lock
      BY <1>1, <2>2, <3>3 DEF LockInv
    <3>5. QED
      BY <3>3, <3>4
  <2>3. QED
    BY <2>1, <2>2
<1>3. QED
  BY <1>2 DEF LockInv

LEMMA StepLock == Typed /\ LockInv /\ [Next]_vars => LockInv'
<1> SUFFICES ASSUME Typed, LockInv, [Next]_vars
             PROVE  LockInv'
  OBVIOUS
<1> USE CollectorAssumption
<1>1. ASSUME NEW t \in Threads, SendSucceeds(t) \/ SendRefused(t) \/ SendTimesOut(t)
      PROVE  LockInv'
  <2>1. pc[t] = "send" /\ (Returns(t) \/ Raises(t)) /\ lock' = lock
    BY <1>1 DEF SendSucceeds, SendRefused, SendTimesOut
  <2>2. CASE t = Drainer
    <3>1. pc' = pc \/ pc' = [pc EXCEPT ![t] = "drain"]
      BY <2>1, <2>2, SendEnds DEF DrainSends
    <3>2. HoldsLock(t) /\ "drain" \in Label
      BY <2>1, <2>2 DEF HoldsLock, Label
    <3>3. QED
      BY <2>1, <3>1, <3>2, LockKept
  <2>3. CASE t # Drainer
    <3>1. pc' = pc \/ pc' = [pc EXCEPT ![t] = "spool"] \/ pc' = [pc EXCEPT ![t] = "idle"]
      BY <2>1, <2>3, SendEnds DEF PublisherSends
    <3>2. "idle" \in Label /\ "spool" \in Label
      BY DEF Label
    <3>3. QED
      BY <2>1, <2>3, <3>1, <3>2, LockKept
  <2>4. QED
    BY <2>2, <2>3
<1>2. ASSUME NEW t \in Threads, Write(t) \/ WriteFails(t)
      PROVE  LockInv'
  BY <1>2, LockKept DEF Write, WriteFails, Unlock, Goto, HoldsLock
<1>3. ASSUME NEW p \in Publishers, Publisher(p)
      PROVE  LockInv'
  <2>1. p \in Threads /\ p # Drainer
    BY DEF Threads
  <2>2. CASE Receive(p)
    <3>1. lock' = lock /\ pc' = [pc EXCEPT ![p] = "send"] /\ "send" \in Label
      BY <2>2 DEF Receive, Goto, Label
    <3>2. QED
      BY <2>1, <3>1, LockKept
  <2>3. CASE WriteBegin(p)
    <3>1. lock = Nobody /\ lock' = p /\ pc' = [pc EXCEPT ![p] = "write"] /\ "write" \in Label
      BY <2>3 DEF WriteBegin, Goto, Label
    <3>2. QED
      BY <2>1, <3>1, LockKept
  <2>4. CASE WriteRefused(p)
    <3>1. lock' = lock /\ pc' = [pc EXCEPT ![p] = "idle"] /\ "idle" \in Label
      BY <2>4 DEF WriteRefused, Goto, Label
    <3>2. QED
      BY <2>1, <3>1, LockKept
  <2>5. QED
    BY <1>1, <1>2, <1>3, <2>1, <2>2, <2>3, <2>4 DEF Publisher, Thread
<1>4. CASE Drain
  <2>1. Drainer \in Threads
    BY DEF Threads
  <2>2. CASE DrainBegin
    <3>1. /\ lock = Nobody /\ lock' = Drainer
          /\ pc' = [pc EXCEPT ![Drainer] = "drain"] /\ "drain" \in Label
      BY <2>2 DEF DrainBegin, Goto, Label
    <3>2. QED
      BY <2>1, <3>1, LockKept
  <2>3. CASE DrainRecord \/ DrainMalformed \/ DrainEnd
    <3>1. /\ HoldsLock(Drainer) /\ lock' = lock
          /\ pc' = pc \/ \E l \in Label : pc' = [pc EXCEPT ![Drainer] = l]
      BY <2>3 DEF DrainRecord, DrainMalformed, DrainEnd, HoldsLock, Goto, Label
    <3>2. QED
      BY <2>1, <3>1, LockKept
  <2>4. CASE DrainEndFails
    <3>1. /\ HoldsLock(Drainer) /\ lock' = Nobody
          /\ pc' = [pc EXCEPT ![Drainer] = "idle"]
      BY <2>4 DEF DrainEndFails, Unlock, HoldsLock, Goto
    <3>2. QED
      BY <2>1, <3>1, LockKept
  <2>5. QED
    BY <1>1, <1>2, <1>4, <2>1, <2>2, <2>3, <2>4 DEF Drain, Thread
<1>5. CASE Crash \/ Exit
  BY <1>5 DEF Crash, Exit, Killed, NewProcess, LockInv, HoldsLock
<1>6. CASE Stop \/ Flip \/ UNCHANGED vars
  BY <1>6 DEF Stop, Flip, vars, threads, LockInv, HoldsLock
<1>7. QED
  BY <1>3, <1>4, <1>5, <1>6 DEF Next

-----------------------------------------------------------------------------
(* A line that parses is one event's. *)

LEMMA InitWhole == Init => WholeInv
  BY NoLines DEF Init, WholeInv

LEMMA StepWhole == Typed /\ WholeInv /\ [Next]_vars => WholeInv'
<1> SUFFICES ASSUME Typed, WholeInv, [Next]_vars
             PROVE  WholeInv'
  OBVIOUS
<1> USE CollectorAssumption
<1>1. /\ file \in Seq(Line) /\ todo \in Seq(Line)
      /\ keep \in Seq(Line) /\ buf \in Seq(Line)
      /\ Drainer \in Threads
  BY DEF Typed, TypeOK, Threads
<1>2. todo # <<>> => Whole(Tail(todo)) /\ Whole(Append(keep, Head(todo)))
  BY <1>1, FirstLine, AppendLine DEF WholeInv
<1>3. \A f \in {file} \cup CutShort(buf) : Whole(f)
  BY <1>1, CutShortKept DEF WholeInv
<1>4. ASSUME NEW t \in Threads, SendSucceeds(t) \/ SendRefused(t) \/ SendTimesOut(t)
      PROVE  WholeInv'
  <2>1. /\ pc[t] = "send" /\ (Returns(t) \/ Raises(t))
        /\ UNCHANGED <<buf, file>>
    BY <1>4 DEF SendSucceeds, SendRefused, SendTimesOut, disk
  <2>2. t = Drainer => todo # <<>>
    BY <2>1 DEF Typed, HandInv
  <2>3. Whole(todo') /\ Whole(keep')
    BY <1>2, <2>1, <2>2, SendEnds DEF PublisherSends, DrainSends, WholeInv
  <2>4. QED
    BY <2>1, <2>3 DEF WholeInv
<1>5. ASSUME NEW t \in Threads, Write(t) \/ WriteFails(t)
      PROVE  WholeInv'
  <2>1. Whole(Glued(buf))
    BY <1>1, GluedKept DEF WholeInv
  <2>2. Whole(file')
    BY <1>3, <1>5, <2>1 DEF Write, WriteFails
  <2>3. QED
    BY <1>5, <2>2 DEF Write, WriteFails, WholeInv
<1>6. ASSUME NEW p \in Publishers, Publisher(p)
      PROVE  WholeInv'
  <2>1. p \in Threads
    BY DEF Threads
  <2>2. CASE Receive(p) \/ WriteRefused(p)
    BY <2>2 DEF Receive, WriteRefused, WholeInv, disk
  <2>3. CASE WriteBegin(p)
    <3>1. pc[p] = "spool"
      BY <2>3 DEF WriteBegin
    <3> DEFINE s == Append(file, Record(ev[p]))
    <3>2. s \in Seq(Line) /\ ev[p] \in Events /\ Record(ev[p]) \in Line
      BY <3>1, WriteBeginLines
    <3>3. Record(ev[p]).ids = {ev[p]}
      BY DEF Record
    <3>4. Whole(s)
      BY <1>1, <3>2, <3>3, AppendLine DEF WholeInv
    <3>5. buf' = EnforceBound(s)
      BY <2>3 DEF WriteBegin
    <3> HIDE DEF s
    <3>6. Whole(buf')
      BY <3>2, <3>4, <3>5, BoundKept, PartOfLines
    <3>7. QED
      BY <2>3, <3>6 DEF WriteBegin, WholeInv, disk
  <2>4. QED
    BY <1>4, <1>5, <1>6, <2>1, <2>2, <2>3 DEF Publisher, Thread
<1>7. CASE Drain
  <2>1. CASE DrainBegin
    BY <2>1, NoLines DEF DrainBegin, WholeInv, disk
  <2>2. CASE DrainRecord
    BY <2>2 DEF DrainRecord, WholeInv, disk
  <2>3. CASE DrainMalformed
    BY <1>2, <2>3 DEF DrainMalformed, WholeInv, disk
  <2>4. CASE DrainEnd
    BY <2>4 DEF DrainEnd, WholeInv
  <2>5. CASE DrainEndFails
    BY <2>5 DEF DrainEndFails, WholeInv, disk
  <2>6. QED
    BY <1>1, <1>4, <1>5, <1>7, <2>1, <2>2, <2>3, <2>4, <2>5 DEF Drain, Thread
<1>8. CASE Crash \/ Exit
  <2>1. Killed
    BY <1>8 DEF Crash, Exit
  <2>2. Whole(file')
    BY <1>3, <2>1 DEF Killed
  <2>3. QED
    BY <2>1, <2>2, NoLines DEF Killed, NewProcess, WholeInv
<1>9. CASE Stop \/ Flip \/ UNCHANGED vars
  BY <1>9 DEF Stop, Flip, vars, threads, disk, WholeInv
<1>10. QED
  BY <1>6, <1>7, <1>8, <1>9 DEF Next

-----------------------------------------------------------------------------
(* No event is lost. *)

Base == Typed /\ LockInv /\ WholeInv

\* How an attempt ends when it succeeds, and when it fails.
LEMMA SendSettles ==
    ASSUME NEW t
    PROVE  /\ Returns(t) /\ t = Drainer =>
                 /\ pc' = [pc EXCEPT ![t] = "drain"]
                 /\ todo' = Tail(todo) /\ UNCHANGED <<keep, ended>>
           /\ Returns(t) /\ t # Drainer =>
                 /\ pc' = [pc EXCEPT ![t] = "idle"]
                 /\ ended' = ended \cup {ev[t]} /\ UNCHANGED <<todo, keep>>
           /\ Raises(t) /\ t = Drainer =>
                 /\ UNCHANGED ended
                 /\ \/ UNCHANGED <<pc, todo, keep>>
                    \/ /\ pc' = [pc EXCEPT ![t] = "drain"]
                       /\ todo' = Tail(todo) /\ keep' = Append(keep, Head(todo))
           /\ Raises(t) /\ t # Drainer =>
                 /\ UNCHANGED <<todo, keep>>
                 /\ \/ UNCHANGED <<pc, ended>>
                    \/ /\ pc' = [pc EXCEPT ![t] = "spool"]
                       /\ HasSpool /\ UNCHANGED ended
                    \/ /\ pc' = [pc EXCEPT ![t] = "idle"]
                       /\ ~HasSpool /\ ended' = ended \cup {ev[t]}
<1>1. Returns(t) => tries' = tries
  BY DEF Returns
<1>2. ASSUME Returns(t), t = Drainer
      PROVE  /\ pc' = [pc EXCEPT ![t] = "drain"]
             /\ todo' = Tail(todo) /\ UNCHANGED <<keep, ended>>
  BY <1>2 DEF Returns, Goto
<1>3. ASSUME Returns(t), t # Drainer
      PROVE  /\ pc' = [pc EXCEPT ![t] = "idle"]
             /\ ended' = ended \cup {ev[t]} /\ UNCHANGED <<todo, keep>>
  BY <1>3 DEF Returns, Goto
<1>4. ASSUME Raises(t), t = Drainer
      PROVE  /\ UNCHANGED ended
             /\ \/ UNCHANGED <<pc, todo, keep>>
                \/ /\ pc' = [pc EXCEPT ![t] = "drain"]
                   /\ todo' = Tail(todo) /\ keep' = Append(keep, Head(todo))
  <2>1. CASE LastAttempt(t)
    BY <1>4, <2>1 DEF Raises, Goto
  <2>2. CASE ~LastAttempt(t)
    BY <1>4, <2>2 DEF Raises
  <2>3. QED
    BY <2>1, <2>2
<1>5. ASSUME Raises(t), t # Drainer
      PROVE  /\ UNCHANGED <<todo, keep>>
             /\ \/ UNCHANGED <<pc, ended>>
                \/ /\ pc' = [pc EXCEPT ![t] = "spool"]
                   /\ HasSpool /\ UNCHANGED ended
                \/ /\ pc' = [pc EXCEPT ![t] = "idle"]
                   /\ ~HasSpool /\ ended' = ended \cup {ev[t]}
  <2>1. CASE LastAttempt(t)
    BY <1>5, <2>1 DEF Raises, Goto
  <2>2. CASE ~LastAttempt(t)
    BY <1>5, <2>2 DEF Raises
  <2>3. QED
    BY <2>1, <2>2
<1>6. QED
  BY <1>2, <1>3, <1>4, <1>5

\* A thread that sends has an event, and a send adds copies of no other.
LEMMA Copied ==
    ASSUME Typed, NEW t \in Threads,
           SendSucceeds(t) \/ SendRefused(t) \/ SendTimesOut(t)
    PROVE  /\ pc[t] = "send" /\ ev[t] \in Events
           /\ t = Drainer => todo # <<>> /\ ev[t] \in Head(todo).ids
           /\ \E n \in 0..1 :
                 /\ \A e \in Events :
                       copies'[e] = IF e = ev[t] THEN copies[e] + n ELSE copies[e]
                 /\ SendSucceeds(t) => n = 1
                 /\ SendRefused(t) => n = 0
           /\ Sent \subseteq Sent'
           /\ SendSucceeds(t) => ev[t] \in Sent'
           /\ UNCHANGED <<received, ev, lock, quarantined, buf, disk, stop>>
<1>1. pc[t] = "send"
  BY DEF SendSucceeds, SendRefused, SendTimesOut
<1>2. t = Drainer => todo # <<>> /\ ev[t] \in Head(todo).ids
  BY <1>1 DEF Typed, HandInv
<1>3. ev[t] \in Events
  BY <1>1, <1>2, InHandTyped DEF InHands
<1>4. copies \in [Events -> Nat]
  BY DEF Typed, TypeOK
<1>5. \E n \in 0..1 :
          /\ \A e \in Events :
                copies'[e] = IF e = ev[t] THEN copies[e] + n ELSE copies[e]
          /\ SendSucceeds(t) => n = 1
          /\ SendRefused(t) => n = 0
  <2>1. ASSUME NEW n \in 0..1, copies' = [copies EXCEPT ![ev[t]] = @ + n]
        PROVE  \A e \in Events :
                  copies'[e] = IF e = ev[t] THEN copies[e] + n ELSE copies[e]
    BY <1>3, <1>4, <2>1
  <2>2. CASE SendSucceeds(t)
    <3>1. copies' = [copies EXCEPT ![ev[t]] = @ + 1] /\ 1 \in 0..1
          /\ kafka /\ ev[t] \notin Huge
      BY <2>2 DEF SendSucceeds
    <3>2. ~SendRefused(t)
      BY <3>1 DEF SendRefused
    <3>3. QED
      BY <2>1, <3>1, <3>2
  <2>3. CASE SendRefused(t)
    <3>1. copies' = copies /\ 0 \in 0..1 /\ (~kafka \/ ev[t] \in Huge)
      BY <2>3 DEF SendRefused
    <3>2. ~SendSucceeds(t)
      BY <3>1 DEF SendSucceeds
    <3>3. \A e \in Events :
              copies'[e] = IF e = ev[t] THEN copies[e] + 0 ELSE copies[e]
      BY <1>4, <3>1
    <3>4. QED
      BY <3>1, <3>2, <3>3
  <2>4. CASE SendTimesOut(t) /\ ~SendSucceeds(t) /\ ~SendRefused(t)
    <3>1. PICK n \in 0..1 : copies' = [copies EXCEPT ![ev[t]] = @ + n]
      BY <2>4 DEF SendTimesOut
    <3>2. QED
      BY <2>1, <2>4, <3>1
  <2>5. QED
    BY <2>2, <2>3, <2>4
<1>6. Sent \subseteq Sent' /\ (SendSucceeds(t) => ev[t] \in Sent')
  BY <1>3, <1>4, <1>5 DEF Sent
<1>7. UNCHANGED <<received, ev, lock, quarantined, buf, disk, stop>>
  BY DEF SendSucceeds, SendRefused, SendTimesOut
<1>8. QED
  BY <1>1, <1>2, <1>3, <1>5, <1>6, <1>7

\* The line drain() replays is the event's alone.
LEMMA HeadSent ==
    ASSUME Base, pc[Drainer] = "send"
    PROVE  /\ todo # <<>> /\ Head(todo).ids = {ev[Drainer]}
           /\ IdsOf(todo) = {ev[Drainer]} \cup IdsOf(Tail(todo))
           /\ IdsOf(Append(keep, Head(todo))) = IdsOf(keep) \cup {ev[Drainer]}
<1>1. todo # <<>> /\ Head(todo).ok /\ ev[Drainer] \in Head(todo).ids
  BY DEF Base, Typed, HandInv
<1>2. todo \in Seq(Line) /\ keep \in Seq(Line) /\ Whole(todo)
  BY DEF Base, Typed, TypeOK, WholeInv
<1>3. Head(todo).ids = {ev[Drainer]}
  <2>1. PICK e \in Events : Head(todo).ids = {e}
    BY <1>1, <1>2, FirstLine
  <2>2. QED
    BY <1>1, <2>1
<1>4. QED
  BY <1>1, <1>2, <1>3, FirstLine, AppendLine

LEMMA InitAccount == Init => AccountInv
<1> SUFFICES ASSUME Init
             PROVE  AccountInv
  OBVIOUS
<1>1. ended = {} /\ pc[Drainer] = "idle"
  BY DEF Init, Threads
<1>2. QED
  BY <1>1 DEF AccountInv, DrainAccount, NothingLost, Replaying

\* Steps that leave to drain() what it works on.
LEMMA DrainAside ==
    ASSUME DrainAccount, pc'[Drainer] = pc[Drainer], ev'[Drainer] = ev[Drainer],
           UNCHANGED <<file, todo, keep, quarantined, bad>>,
           pc[Drainer] = "write" => UNCHANGED buf,
           Sent \subseteq Sent'
    PROVE  DrainAccount'
  BY DEF DrainAccount, Replaying

LEMMA SendAccount ==
    ASSUME HasSpool, Base, AccountInv, NEW t \in Threads,
           SendSucceeds(t) \/ SendRefused(t) \/ SendTimesOut(t)
    PROVE  AccountInv'
<1> USE CollectorAssumption
<1>1. Typed /\ NothingLost /\ DrainAccount
  BY DEF AccountInv, Base
<1>2. /\ pc[t] = "send" /\ ev[t] \in Events
      /\ t = Drainer => todo # <<>> /\ ev[t] \in Head(todo).ids
      /\ Sent \subseteq Sent'
      /\ SendSucceeds(t) => ev[t] \in Sent'
      /\ UNCHANGED <<ev, quarantined, buf, file, bad, evicted, torn, refused>>
  BY <1>1, Copied DEF disk
<1>3. pc \in [Threads -> Label] /\ Drainer \in Threads
  BY <1>1 DEF Typed, TypeOK, Threads
<1>4. CASE t = Drainer
  <2>1. /\ IdsOf(todo) = {ev[t]} \cup IdsOf(Tail(todo))
        /\ IdsOf(Append(keep, Head(todo))) = IdsOf(keep) \cup {ev[t]}
    BY <1>2, <1>4, HeadSent
  <2>2. ended' = ended
    BY <1>4, SendSettles DEF SendSucceeds, SendRefused, SendTimesOut
  <2>3. NothingLost'
    BY <1>1, <1>2, <2>2 DEF NothingLost
  <2>4. CASE UNCHANGED <<pc, todo, keep>>
    BY <1>1, <1>2, <1>4, <2>3, <2>4, DrainAside DEF AccountInv
  <2>5. CASE /\ pc' = [pc EXCEPT ![t] = "drain"] /\ todo' = Tail(todo)
             /\ keep' = Append(keep, Head(todo)) \/ (keep' = keep /\ SendSucceeds(t))
    <3>1. pc'[Drainer] = "drain"
      BY <1>3, <1>4, <2>5
    <3>2. IdsOf(file) \subseteq IdsOf(todo) \cup IdsOf(keep) \cup quarantined \cup Sent
      BY <1>1, <1>2, <1>4 DEF DrainAccount, Replaying
    <3>3. IdsOf(file') \subseteq
              IdsOf(todo') \cup IdsOf(keep') \cup quarantined' \cup Sent'
      BY <1>2, <2>1, <2>5, <3>2
    <3>4. DrainAccount'
      BY <3>1, <3>3 DEF DrainAccount
    <3>5. QED
      BY <2>3, <3>4 DEF AccountInv
  <2>6. QED
    BY <1>4, <2>4, <2>5, SendSettles DEF SendSucceeds, SendRefused, SendTimesOut
<1>5. CASE t # Drainer
  <2>1. UNCHANGED <<todo, keep>> /\ pc'[Drainer] = pc[Drainer]
    BY <1>3, <1>5, SendSettles DEF SendSucceeds, SendRefused, SendTimesOut
  <2>2. DrainAccount'
    BY <1>1, <1>2, <2>1, DrainAside
  <2>3. ended' \subseteq ended \cup Sent'
    BY <1>2, <1>5, SendSettles DEF SendSucceeds, SendRefused, SendTimesOut
  <2>4. NothingLost'
    BY <1>1, <1>2, <2>3 DEF NothingLost
  <2>5. QED
    BY <2>2, <2>4 DEF AccountInv
<1>6. QED
  BY <1>4, <1>5

\* While a publisher holds the lock, drain() has nothing in its hands.
LEMMA PublisherWrites ==
    ASSUME Base, NEW p \in Publishers, pc[p] = "write" \/ lock = Nobody
    PROVE  ~Replaying /\ pc[Drainer] # "write"
<1>1. p \in Threads /\ Drainer \in Threads /\ p # Drainer /\ Nobody \notin Threads
  BY CollectorAssumption DEF Threads
<1>2. lock # Drainer
  BY <1>1 DEF Base, LockInv, HoldsLock
<1>3. ~HoldsLock(Drainer)
  BY <1>1, <1>2 DEF Base, LockInv
<1>4. QED
  BY <1>3 DEF HoldsLock, Replaying

LEMMA PublisherAccount ==
    ASSUME Base, AccountInv, NEW p \in Publishers,
           Receive(p) \/ WriteBegin(p) \/ WriteRefused(p)
    PROVE  AccountInv'
<1> USE CollectorAssumption
<1>1. Typed /\ NothingLost /\ DrainAccount
  BY DEF AccountInv, Base
<1>2. /\ p \in Threads /\ Drainer \in Threads /\ p # Drainer
      /\ pc \in [Threads -> Label] /\ ev \in [Threads -> 0..MaxEvents]
  BY <1>1 DEF Typed, TypeOK, Threads
<1>3. UNCHANGED <<copies, todo, keep, quarantined, file, bad, evicted, torn>>
  BY DEF Receive, WriteBegin, WriteRefused, disk
<1>4. pc'[Drainer] = pc[Drainer] /\ ev'[Drainer] = ev[Drainer]
  BY <1>2 DEF Receive, WriteBegin, WriteRefused, Goto
<1>5. pc[Drainer] = "write" => UNCHANGED buf
  BY PublisherWrites DEF Receive, WriteBegin, WriteRefused
<1>6. Sent' = Sent
  BY <1>3 DEF Sent
<1>7. DrainAccount'
  BY <1>1, <1>3, <1>4, <1>5, <1>6, DrainAside
<1>8. \/ UNCHANGED <<ended, refused>>
      \/ ended' = ended \cup {ev[p]} /\ refused' = refused \cup {ev[p]}
  BY DEF Receive, WriteBegin, WriteRefused, disk
<1>9. NothingLost'
  BY <1>1, <1>3, <1>6, <1>8 DEF NothingLost
<1>10. QED
  BY <1>7, <1>9 DEF AccountInv

LEMMA DrainAccounts ==
    ASSUME Base, AccountInv,
           DrainBegin \/ DrainRecord \/ DrainMalformed \/ DrainEnd \/ DrainEndFails
    PROVE  AccountInv'
<1> USE CollectorAssumption
<1>1. Typed /\ NothingLost /\ DrainAccount
  BY DEF AccountInv, Base
<1>2. /\ Drainer \in Threads
      /\ pc \in [Threads -> Label] /\ ev \in [Threads -> 0..MaxEvents]
      /\ todo \in Seq(Line) /\ keep \in Seq(Line)
  BY <1>1 DEF Typed, TypeOK, Threads
<1>3. UNCHANGED <<copies, file, evicted, torn, refused>> /\ Sent' = Sent
  BY DEF DrainBegin, DrainRecord, DrainMalformed, DrainEnd, DrainEndFails, disk, Sent
<1>4. ended' = ended /\ bad \subseteq bad'
  BY DEF DrainBegin, DrainRecord, DrainMalformed, DrainEnd, DrainEndFails, disk,
     Unlock, InHand
<1>5. NothingLost'
  BY <1>1, <1>3, <1>4 DEF NothingLost
<1>6. CASE DrainBegin
  <2>1. pc'[Drainer] = "drain" /\ todo' = file
    BY <1>2, <1>6 DEF DrainBegin, Goto
  <2>2. DrainAccount'
    BY <1>3, <2>1 DEF DrainAccount
  <2>3. QED
    BY <1>5, <2>2 DEF AccountInv
<1>7. CASE DrainRecord
  <2>1. /\ pc[Drainer] = "drain" /\ pc'[Drainer] = "send"
        /\ UNCHANGED <<todo, keep, quarantined>>
    BY <1>2, <1>7 DEF DrainRecord, Goto
  <2>2. DrainAccount'
    BY <1>1, <1>3, <2>1 DEF DrainAccount, Replaying
  <2>3. QED
    BY <1>5, <2>2 DEF AccountInv
<1>8. CASE DrainMalformed
  <2>1. /\ pc[Drainer] = "drain" /\ UNCHANGED <<pc, keep>>
        /\ quarantined' = quarantined \cup Head(todo).ids
        /\ todo # <<>> /\ todo' = Tail(todo)
    BY <1>8 DEF DrainMalformed
  <2>2. IdsOf(todo) = Head(todo).ids \cup IdsOf(Tail(todo))
    BY <1>2, <2>1, FirstLine
  <2>3. DrainAccount'
    BY <1>1, <1>3, <2>1, <2>2 DEF DrainAccount, Replaying
  <2>4. QED
    BY <1>5, <2>3 DEF AccountInv
<1>9. CASE DrainEnd
  <2>1. /\ pc[Drainer] = "drain" /\ pc'[Drainer] = "write" /\ todo = <<>>
        /\ bad' = bad \cup quarantined /\ buf' = keep
    BY <1>2, <1>9 DEF DrainEnd, Goto
  <2>2. DrainAccount'
    BY <1>1, <1>3, <2>1, NoLines DEF DrainAccount, Replaying
  <2>3. QED
    BY <1>5, <2>2 DEF AccountInv
<1>10. CASE DrainEndFails
  <2>1. pc'[Drainer] = "idle"
    BY <1>2, <1>10 DEF DrainEndFails, Unlock, Goto
  <2>2. DrainAccount'
    BY <2>1 DEF DrainAccount, Replaying
  <2>3. QED
    BY <1>5, <2>2 DEF AccountInv
<1>11. QED
  BY <1>6, <1>7, <1>8, <1>9, <1>10

LEMMA WriteAccount ==
    ASSUME Base, AccountInv, NEW t \in Threads, Write(t) \/ WriteFails(t)
    PROVE  AccountInv'
<1> USE CollectorAssumption
<1>1. Typed /\ NothingLost /\ DrainAccount
  BY DEF AccountInv, Base
<1>2. /\ pc[t] = "write" /\ Drainer \in Threads /\ pc \in [Threads -> Label]
      /\ Unlock(t) /\ UNCHANGED <<copies, bad, refused>> /\ Sent' = Sent
  BY <1>1 DEF Typed, TypeOK, Threads, Write, WriteFails, Sent
<1>3. pc' = [pc EXCEPT ![t] = "idle"] /\ ended' = ended \cup InHand(t)
  BY <1>2 DEF Unlock, Goto
<1>4. ~Replaying' /\ pc'[Drainer] # "write"
  <2>1. CASE t = Drainer
    BY <1>2, <1>3, <2>1 DEF Replaying
  <2>2. CASE t # Drainer
    BY <1>2, <1>3, <2>2, PublisherWrites DEF Replaying, Threads
  <2>3. QED
    BY <2>1, <2>2
<1>5. DrainAccount'
  BY <1>4 DEF DrainAccount, Replaying
<1>6. NothingLost'
  <2>1. CASE Write(t)
    <3>1. IdsOf(file') = IdsOf(buf)
      BY <1>1, <2>1, RewriteLines DEF Write
    <3>2. CASE t = Drainer
      <4>1. IdsOf(file) \subseteq IdsOf(buf) \cup bad \cup Sent
        BY <1>1, <1>2, <3>2 DEF DrainAccount
      <4>2. ended' = ended /\ UNCHANGED <<evicted, torn>>
        BY <1>3, <2>1, <3>2 DEF InHand, Write
      <4>3. QED
        BY <1>1, <1>2, <3>1, <4>1, <4>2 DEF NothingLost
    <3>3. CASE t # Drainer
      <4>1. /\ ended' = ended \cup {ev[t]} /\ UNCHANGED torn
            /\ evicted' = evicted \cup ((IdsOf(file) \cup {ev[t]}) \ IdsOf(buf))
        BY <1>3, <2>1, <3>3 DEF InHand, Write
      <4>2. QED
        BY <1>1, <1>2, <3>1, <4>1 DEF NothingLost
    <3>4. QED
      BY <3>2, <3>3
  <2>2. CASE WriteFails(t)
    <3>1. /\ UNCHANGED evicted
          /\ torn' = torn \cup ((IdsOf(file) \cup InHand(t)) \ IdsOf(file'))
      BY <2>2 DEF WriteFails
    <3>2. QED
      BY <1>1, <1>2, <1>3, <3>1 DEF NothingLost
  <2>3. QED
    BY <2>1, <2>2
<1>7. QED
  BY <1>5, <1>6 DEF AccountInv

LEMMA StepAccount ==
    ASSUME HasSpool
    PROVE  Base /\ AccountInv /\ [Next]_vars => AccountInv'
<1> SUFFICES ASSUME Base, AccountInv, [Next]_vars
             PROVE  AccountInv'
  OBVIOUS
<1>1. ASSUME NEW p \in Publishers, Publisher(p)
      PROVE  AccountInv'
  <2>1. p \in Threads
    BY DEF Threads
  <2>2. QED
    BY <1>1, <2>1, PublisherAccount, SendAccount, WriteAccount DEF Publisher, Thread
<1>2. CASE Drain
  <2>1. Drainer \in Threads
    BY DEF Threads
  <2>2. QED
    BY <1>2, <2>1, DrainAccounts, SendAccount, WriteAccount DEF Drain, Thread
<1>3. CASE Crash \/ Exit
  <2>1. Killed
    BY <1>3 DEF Crash, Exit
  <2>2. /\ UNCHANGED <<copies, ended, bad, evicted, refused>> /\ Sent' = Sent
        /\ torn' = torn \cup (IdsOf(file) \ IdsOf(file'))
        /\ pc'[Drainer] = "idle"
    BY <2>1 DEF Killed, NewProcess, Sent, Threads
  <2>3. NothingLost'
    BY <2>2 DEF AccountInv, NothingLost
  <2>4. DrainAccount'
    BY <2>2 DEF DrainAccount, Replaying
  <2>5. QED
    BY <2>3, <2>4 DEF AccountInv
<1>4. CASE Stop \/ Flip \/ UNCHANGED vars
  BY <1>4 DEF Stop, Flip, vars, threads, disk, AccountInv, DrainAccount, NothingLost, Sent, Replaying
<1>5. QED
  BY <1>1, <1>2, <1>3, <1>4 DEF Next

\* An event publish() is done with is on the raw topic, in the spool or in the
\* .bad file, or the byte bound, a torn rewrite or an unreadable file took it:
\* with a spool configured, nothing else loses one.
THEOREM CollectorLosesNothing ==
    ASSUME HasSpool
    PROVE  Spec => []NothingLost
<1> DEFINE Inv == Base /\ AccountInv
<1>1. Init => Inv
  BY InitTyped, InitLock, InitWhole, InitAccount DEF Base
<1>2. Inv /\ [Next]_vars => Inv'
  BY StepTyped, StepLock, StepWhole, StepAccount DEF Base
<1>3. Inv => NothingLost
  BY DEF AccountInv
<1> HIDE DEF Inv
<1>4. QED
  BY <1>1, <1>2, <1>3, PTL DEF Spec

-----------------------------------------------------------------------------
(* The size of the spool. *)

\* Replaying a line, or keeping it for the next time, adds no byte.
LEMMA HeadBytes ==
    ASSUME Typed, todo # <<>>
    PROVE  /\ TotalBytes(Tail(todo)) + TotalBytes(keep)
                <= TotalBytes(todo) + TotalBytes(keep)
           /\ TotalBytes(Tail(todo)) + TotalBytes(Append(keep, Head(todo)))
                = TotalBytes(todo) + TotalBytes(keep)
<1>1. /\ todo \in Seq(Line) /\ keep \in Seq(Line)
      /\ Head(todo) \in Line /\ Tail(todo) \in Seq(Line)
  BY FirstLine DEF Typed, TypeOK
<1>2. TotalBytes(todo) = LineBytes(Head(todo)) + TotalBytes(Tail(todo))
  BY <1>1, TotalBytesTail
<1>3. TotalBytes(Append(keep, Head(todo))) = TotalBytes(keep) + LineBytes(Head(todo))
  BY <1>1, TotalBytesAppend
<1>4. /\ LineBytes(Head(todo)) \in Nat
      /\ TotalBytes(Tail(todo)) \in Nat /\ TotalBytes(keep) \in Nat
  BY <1>1, LineBytesNat, TotalBytesNat
<1>5. QED
  BY <1>2, <1>3, <1>4

\* A rewrite of bounded lines leaves a bounded file, cut short or not.
LEMMA RewriteBytes ==
    ASSUME Typed, BytesInv, \E t \in Threads : pc[t] = "write"
    PROVE  /\ TotalBytes(Glued(buf)) <= MaxBytes
           /\ \A f \in {file} \cup CutShort(buf) : TotalBytes(f) <= MaxBytes
<1>1. buf \in Seq(Line) /\ TotalBytes(buf) <= MaxBytes /\ TotalBytes(file) <= MaxBytes
  BY DEF Typed, TypeOK, BytesInv, SpoolBounded
<1>2. ASSUME NEW f \in Seq(Line), TotalBytes(f) <= TotalBytes(buf)
      PROVE  TotalBytes(f) <= MaxBytes
  <2>1. TotalBytes(f) \in Nat /\ TotalBytes(buf) \in Nat /\ MaxBytes \in Nat
    BY <1>1, TotalBytesNat, CollectorAssumption
  <2>2. QED
    BY <1>1, <1>2, <2>1
<1>3. TotalBytes(Glued(buf)) <= MaxBytes
  BY <1>1, <1>2, GluedKept
<1>4. \A f \in CutShort(buf) : TotalBytes(f) <= MaxBytes
  BY <1>1, <1>2, CutShortKept
<1>5. QED
  BY <1>1, <1>3, <1>4

LEMMA InitBytes == Init => BytesInv
<1> SUFFICES ASSUME Init
             PROVE  BytesInv
  OBVIOUS
<1>1. file = <<>> /\ \A t \in Threads : pc[t] = "idle"
  BY DEF Init
<1>2. TotalBytes(file) <= MaxBytes
  BY <1>1, TotalBytesEmpty, CollectorAssumption
<1>3. Drainer \in Threads
  BY DEF Threads
<1>4. QED
  BY <1>1, <1>2, <1>3 DEF BytesInv, SpoolBounded, Replaying

\* Steps after which no one has begun to write and drain() has no line more.
LEMMA BytesAside ==
    ASSUME BytesInv, UNCHANGED <<file, todo, keep>>,
           (\E t \in Threads : pc'[t] = "write") =>
               \/ TotalBytes(buf') <= MaxBytes
               \/ buf' = buf /\ \E t \in Threads : pc[t] = "write",
           Replaying' => Replaying
    PROVE  BytesInv'
  BY DEF BytesInv, SpoolBounded

LEMMA SendBytes ==
    ASSUME Typed, BytesInv, NEW t \in Threads,
           SendSucceeds(t) \/ SendRefused(t) \/ SendTimesOut(t)
    PROVE  BytesInv'
<1> USE CollectorAssumption
<1>1. /\ pc[t] = "send" /\ UNCHANGED <<file, buf>>
      /\ t = Drainer => todo # <<>>
      /\ Returns(t) \/ Raises(t)
  BY Copied DEF disk, SendSucceeds, SendRefused, SendTimesOut
<1>2. pc \in [Threads -> Label] /\ Drainer \in Threads
  BY DEF Typed, TypeOK, Threads
<1>3. CASE t = Drainer
  <2>1. UNCHANGED <<pc, todo, keep>>
        \/ /\ pc' = [pc EXCEPT ![t] = "drain"] /\ todo' = Tail(todo)
           /\ keep' \in {keep, Append(keep, Head(todo))}
    BY <1>1, <1>3, SendEnds DEF DrainSends
  <2>2. Replaying /\ TotalBytes(todo) + TotalBytes(keep) <= MaxBytes
    BY <1>1, <1>3 DEF Replaying, BytesInv
  <2>3. TotalBytes(todo') + TotalBytes(keep') <= TotalBytes(todo) + TotalBytes(keep)
    <3>1. TotalBytes(todo) \in Nat /\ TotalBytes(keep) \in Nat
      BY TotalBytesNat DEF Typed, TypeOK
    <3> DEFINE before == TotalBytes(todo) + TotalBytes(keep)
    <3>2. before <= before
      BY <3>1
    <3>3. /\ TotalBytes(Tail(todo)) + TotalBytes(keep) <= before
          /\ TotalBytes(Tail(todo)) + TotalBytes(Append(keep, Head(todo))) <= before
      BY <1>1, <1>3, <3>2, HeadBytes
    <3> HIDE DEF before
    <3>4. TotalBytes(todo') + TotalBytes(keep') <= before
      <4>1. CASE UNCHANGED <<pc, todo, keep>>
        BY <3>2, <4>1 DEF before
      <4>2. CASE todo' = Tail(todo) /\ keep' \in {keep, Append(keep, Head(todo))}
        BY <3>3, <4>2
      <4>3. QED
        BY <2>1, <4>1, <4>2
    <3>5. QED
      BY <3>4 DEF before
  <2>4. TotalBytes(todo') + TotalBytes(keep') <= MaxBytes
    <3>1. /\ TotalBytes(todo) \in Nat /\ TotalBytes(keep) \in Nat
          /\ TotalBytes(todo') \in Nat /\ TotalBytes(keep') \in Nat
          /\ MaxBytes \in Nat
      <4>1. todo' \in Seq(Line) /\ keep' \in Seq(Line)
        BY SendTyped DEF Typed, TypeOK
      <4>2. QED
        BY <4>1, TotalBytesNat DEF Typed, TypeOK
    <3>2. QED
      BY <2>2, <2>3, <3>1
  <2>5. \A u \in Threads : pc'[u] = "write" => pc[u] = "write"
    BY <1>2, <2>1
  <2>6. QED
    BY <1>1, <2>4, <2>5 DEF BytesInv, SpoolBounded
<1>4. CASE t # Drainer
  <2>1. /\ UNCHANGED <<todo, keep>>
        /\ \/ pc' = pc
           \/ pc' = [pc EXCEPT ![t] = "spool"]
           \/ pc' = [pc EXCEPT ![t] = "idle"]
    BY <1>1, <1>4, SendEnds DEF PublisherSends
  <2>2. \A u \in Threads : pc'[u] = "write" => pc[u] = "write"
    BY <1>2, <2>1
  <2>3. Replaying' => Replaying
    BY <1>2, <1>4, <2>1 DEF Replaying
  <2>4. QED
    BY <1>1, <2>1, <2>2, <2>3, BytesAside
<1>5. QED
  BY <1>3, <1>4

LEMMA PublisherBytes ==
    ASSUME Typed, BytesInv, NEW p \in Publishers,
           Receive(p) \/ WriteBegin(p) \/ WriteRefused(p)
    PROVE  BytesInv'
<1> USE CollectorAssumption
<1>1. /\ p \in Threads /\ Drainer \in Threads /\ p # Drainer
      /\ pc \in [Threads -> Label]
  BY DEF Typed, TypeOK, Threads
<1>2. UNCHANGED <<file, todo, keep>>
  BY DEF Receive, WriteBegin, WriteRefused, disk
<1>3. pc'[Drainer] = pc[Drainer]
  BY <1>1 DEF Receive, WriteBegin, WriteRefused, Goto
<1>4. Replaying' => Replaying
  BY <1>3 DEF Replaying
<1>5. CASE WriteBegin(p)
  <2>1. TotalBytes(buf') <= MaxBytes
    <3>1. pc[p] = "spool" /\ buf' = EnforceBound(Append(file, Record(ev[p])))
      BY <1>5 DEF WriteBegin
    <3>2. Append(file, Record(ev[p])) \in Seq(Line)
      BY <3>1, WriteBeginLines
    <3>3. QED
      BY <3>1, <3>2, BoundKept
  <2>2. QED
    BY <1>2, <1>4, <2>1, BytesAside
<1>6. CASE Receive(p) \/ WriteRefused(p)
  <2>1. buf' = buf /\ \A u \in Threads : pc'[u] = "write" => pc[u] = "write"
    BY <1>1, <1>6 DEF Receive, WriteRefused, Goto
  <2>2. QED
    BY <1>2, <1>4, <2>1, BytesAside
<1>7. QED
  BY <1>5, <1>6

LEMMA DrainBytes ==
    ASSUME Typed, BytesInv,
           DrainBegin \/ DrainRecord \/ DrainMalformed \/ DrainEnd \/ DrainEndFails
    PROVE  BytesInv'
<1> USE CollectorAssumption
<1>1. Drainer \in Threads /\ pc \in [Threads -> Label]
  BY DEF Typed, TypeOK, Threads
<1>2. file' = file
  BY DEF DrainBegin, DrainRecord, DrainMalformed, DrainEnd, DrainEndFails, disk
<1>3. /\ TotalBytes(todo) \in Nat /\ TotalBytes(keep) \in Nat
      /\ TotalBytes(file) \in Nat /\ MaxBytes \in Nat
  BY TotalBytesNat DEF Typed, TypeOK
<1>4. CASE DrainBegin
  <2>1. /\ buf' = buf /\ todo' = file /\ keep' = <<>>
        /\ \A u \in Threads : pc'[u] = "write" => pc[u] = "write"
    BY <1>1, <1>4 DEF DrainBegin, Goto
  <2>2. TotalBytes(todo') + TotalBytes(keep') <= MaxBytes
    BY <1>3, <2>1, TotalBytesEmpty DEF BytesInv, SpoolBounded
  <2>3. QED
    BY <1>2, <2>1, <2>2 DEF BytesInv, SpoolBounded
<1>5. CASE DrainRecord
  <2>1. /\ UNCHANGED <<buf, todo, keep>> /\ pc[Drainer] = "drain"
        /\ \A u \in Threads : pc'[u] = "write" => pc[u] = "write"
    BY <1>1, <1>5 DEF DrainRecord, Goto
  <2>2. Replaying
    BY <2>1 DEF Replaying
  <2>3. QED
    BY <1>2, <2>1, <2>2, BytesAside
<1>6. CASE DrainMalformed
  <2>1. /\ UNCHANGED <<buf, pc, keep>> /\ pc[Drainer] = "drain"
        /\ todo # <<>> /\ todo' = Tail(todo)
    BY <1>6 DEF DrainMalformed
  <2>2. TotalBytes(todo) + TotalBytes(keep) <= MaxBytes
    BY <2>1 DEF Replaying, BytesInv
  <2>3. Tail(todo) \in Seq(Line)
    BY <1>1, <2>1, InHandTyped
  <2>4. TotalBytes(todo') + TotalBytes(keep') <= MaxBytes
    <3>1. TotalBytes(Tail(todo)) \in Nat
      BY <2>3, TotalBytesNat
    <3>2. TotalBytes(Tail(todo)) + TotalBytes(keep) <= TotalBytes(todo) + TotalBytes(keep)
      BY <2>1, HeadBytes
    <3>3. QED
      BY <1>3, <2>1, <2>2, <3>1, <3>2
  <2>5. QED
    BY <1>2, <2>1, <2>4 DEF BytesInv, SpoolBounded
<1>7. CASE DrainEnd
  <2>1. /\ UNCHANGED <<todo, keep>> /\ buf' = keep /\ todo = <<>>
        /\ pc[Drainer] = "drain" /\ pc'[Drainer] = "write"
    BY <1>1, <1>7 DEF DrainEnd, Goto
  <2>2. TotalBytes(buf') <= MaxBytes
    BY <1>3, <2>1, TotalBytesEmpty DEF Replaying, BytesInv
  <2>3. ~Replaying'
    BY <2>1 DEF Replaying
  <2>4. QED
    BY <1>2, <2>1, <2>2, <2>3, BytesAside
<1>8. CASE DrainEndFails
  <2>1. /\ UNCHANGED <<buf, todo, keep>> /\ pc'[Drainer] = "idle"
        /\ \A u \in Threads : pc'[u] = "write" => pc[u] = "write"
    BY <1>1, <1>8 DEF DrainEndFails, Unlock, Goto
  <2>2. ~Replaying'
    BY <2>1 DEF Replaying
  <2>3. QED
    BY <1>2, <2>1, <2>2, BytesAside
<1>9. QED
  BY <1>4, <1>5, <1>6, <1>7, <1>8

LEMMA WriteBytes ==
    ASSUME Typed, BytesInv, NEW t \in Threads, Write(t) \/ WriteFails(t)
    PROVE  BytesInv'
<1>1. /\ pc[t] = "write" /\ UNCHANGED <<buf, todo, keep>>
      /\ pc' = [pc EXCEPT ![t] = "idle"]
  BY DEF Write, WriteFails, Unlock, Goto
<1>2. pc \in [Threads -> Label] /\ Drainer \in Threads
  BY DEF Typed, TypeOK, Threads
<1>3. file' = Glued(buf) \/ file' \in {file} \cup CutShort(buf)
  BY DEF Write, WriteFails
<1>4. TotalBytes(file') <= MaxBytes
  BY <1>1, <1>3, RewriteBytes
<1>5. TotalBytes(buf) <= MaxBytes
  BY <1>1 DEF BytesInv
<1>6. Replaying' => Replaying
  BY <1>1, <1>2 DEF Replaying
<1>7. QED
  BY <1>1, <1>4, <1>5, <1>6 DEF BytesInv, SpoolBounded

LEMMA StepBytes == Typed /\ BytesInv /\ [Next]_vars => BytesInv'
<1> SUFFICES ASSUME Typed, BytesInv, [Next]_vars
             PROVE  BytesInv'
  OBVIOUS
<1>1. Drainer \in Threads /\ \A p \in Publishers : p \in Threads
  BY DEF Threads
<1>2. ASSUME NEW p \in Publishers, Publisher(p)
      PROVE  BytesInv'
  BY <1>1, <1>2, PublisherBytes, SendBytes, WriteBytes DEF Publisher, Thread
<1>3. CASE Drain
  BY <1>1, <1>3, DrainBytes, SendBytes, WriteBytes DEF Drain, Thread
<1>4. CASE Crash \/ Exit
  <2>1. Killed
    BY <1>4 DEF Crash, Exit
  <2>2. TotalBytes(file') <= MaxBytes
    <3>1. CASE \E t \in Threads : pc[t] = "write"
      BY <2>1, <3>1, RewriteBytes DEF Killed
    <3>2. CASE ~\E t \in Threads : pc[t] = "write"
      BY <2>1, <3>2 DEF Killed, BytesInv, SpoolBounded
    <3>3. QED
      BY <3>1, <3>2
  <2>3. \A t \in Threads : pc'[t] = "idle"
    BY <2>1 DEF Killed, NewProcess
  <2>4. QED
    BY <1>1, <2>2, <2>3 DEF BytesInv, SpoolBounded, Replaying
<1>5. CASE Stop \/ Flip \/ UNCHANGED vars
  BY <1>5 DEF Stop, Flip, vars, threads, disk, BytesInv, SpoolBounded, Replaying
<1>6. QED
  BY <1>2, <1>3, <1>4, <1>5 DEF Next

\* The spool file never outgrows max_spool_bytes: not when a publisher appends
\* to it, nor when drain() writes back what it could not replay, nor when either
\* rewrite is cut short.
THEOREM CollectorSpoolBounded == Spec => []SpoolBounded
<1> DEFINE Inv == Typed /\ BytesInv
<1>1. Init => Inv
  BY InitTyped, InitBytes
<1>2. Inv /\ [Next]_vars => Inv'
  BY StepTyped, StepBytes
<1>3. Inv => SpoolBounded
  BY DEF BytesInv
<1> HIDE DEF Inv
<1>4. QED
  BY <1>1, <1>2, <1>3, PTL DEF Spec

-----------------------------------------------------------------------------
(* Where an event is. *)

LEMMA InitPlace == Init => PlaceInv
<1> SUFFICES ASSUME Init
             PROVE  PlaceInv
  OBVIOUS
<1>1. /\ file = <<>> /\ \A t \in Threads : pc[t] = "idle"
      /\ \A e \in Events : copies[e] = 0
  BY DEF Init
<1>2. Drainer \in Threads /\ \A p \in Publishers : p \in Threads
  BY DEF Threads
<1>3. SpoolPlace
  BY <1>1, NoLines DEF SpoolPlace
<1>4. HandPlace /\ WritePlace /\ DrainPlace
  BY <1>1, <1>2 DEF HandPlace, WritePlace, DrainPlace, InHands, Replaying
<1>5. QED
  BY <1>3, <1>4 DEF PlaceInv

\* Steps that leave the file alone, put no event in a publisher's hands and
\* begin no rewrite.
LEMMA PlaceAside ==
    ASSUME PlaceInv, UNCHANGED <<received, file>>,
           \A e \in Events : e > received => copies'[e] = 0,
           \A p \in Publishers : ev'[p] = ev[p] /\ (InHands(p)' => InHands(p)),
           \A t \in Threads : pc'[t] = "write" => pc[t] = "write" /\ buf' = buf,
           DrainPlace'
    PROVE  PlaceInv'
<1>1. SpoolPlace'
  BY DEF PlaceInv, SpoolPlace
<1>2. HandPlace'
  BY DEF PlaceInv, HandPlace
<1>3. WritePlace'
  <2>1. \A t \in Threads : InHand(t)' = InHand(t)
    BY DEF InHand, Threads
  <2>2. QED
    BY <2>1 DEF PlaceInv, WritePlace
<1>4. QED
  BY <1>1, <1>2, <1>3 DEF PlaceInv

LEMMA SendPlace ==
    ASSUME Base, PlaceInv, NEW t \in Threads,
           SendSucceeds(t) \/ SendRefused(t) \/ SendTimesOut(t)
    PROVE  PlaceInv'
<1> USE CollectorAssumption
<1>1. /\ pc[t] = "send" /\ ev[t] \in Events
      /\ UNCHANGED <<received, ev, buf, file>>
      /\ Returns(t) \/ Raises(t)
  BY Copied DEF Base, disk, SendSucceeds, SendRefused, SendTimesOut
<1>2. \A e \in Events : e # ev[t] => copies'[e] = copies[e]
  BY Copied DEF Base
<1>3. /\ Drainer \in Threads /\ pc \in [Threads -> Label]
      /\ received \in Nat /\ \A p \in Publishers : p \in Threads
      /\ todo \in Seq(Line) /\ keep \in Seq(Line)
  BY DEF Base, Typed, TypeOK, Threads
<1>4. ev[t] <= received
  <2>1. CASE t = Drainer
    <3>1. ev[t] \in IdsOf(todo)
      BY <1>1, <2>1, HeadSent
    <3>2. IdsOf(todo) \subseteq 1..received
      BY <1>1, <2>1 DEF PlaceInv, DrainPlace, SpoolPlace, Replaying
    <3>3. QED
      BY <3>1, <3>2
  <2>2. CASE t # Drainer
    BY <1>1, <2>2 DEF PlaceInv, HandPlace, InHands, Threads
  <2>3. QED
    BY <2>1, <2>2
<1>5. \A e \in Events : e > received => copies'[e] = 0
  <2>1. SUFFICES ASSUME NEW e \in Events, e > received
                 PROVE  copies'[e] = 0
    OBVIOUS
  <2>2. e # ev[t]
    BY <1>1, <1>3, <1>4, <2>1 DEF Events
  <2>3. QED
    BY <1>2, <2>1, <2>2 DEF PlaceInv, SpoolPlace
<1>6. CASE t = Drainer
  <2>1. UNCHANGED <<pc, todo, keep>>
        \/ /\ pc' = [pc EXCEPT ![t] = "drain"] /\ todo' = Tail(todo)
           /\ keep' \in {keep, Append(keep, Head(todo))}
    BY <1>1, <1>6, SendEnds DEF DrainSends
  <2>2. /\ \A p \in Publishers : pc'[p] = pc[p]
        /\ \A u \in Threads : pc'[u] = "write" => pc[u] = "write"
    BY <1>3, <1>6, <2>1
  <2>3. /\ Apart(todo) /\ Apart(keep) /\ IdsOf(todo) \cap IdsOf(keep) = {}
        /\ IdsOf(todo) \cup IdsOf(keep) \subseteq IdsOf(file)
    BY <1>1, <1>6 DEF PlaceInv, DrainPlace, Replaying
  <2>4. /\ todo # <<>> /\ Head(todo).ids = {ev[t]}
        /\ IdsOf(todo) = {ev[t]} \cup IdsOf(Tail(todo))
        /\ IdsOf(Append(keep, Head(todo))) = IdsOf(keep) \cup {ev[t]}
    BY <1>1, <1>6, HeadSent
  <2>5. Apart(Tail(todo)) /\ {ev[t]} \cap IdsOf(Tail(todo)) = {}
    BY <1>3, <2>3, <2>4, FirstLine
  <2>6. Apart(Append(keep, Head(todo)))
    <3>1. IdsOf(keep) \cap Head(todo).ids = {} /\ Head(todo) \in Line
      BY <1>3, <2>3, <2>4, FirstLine
    <3>2. QED
      BY <1>3, <2>3, <3>1, AppendLine
  <2>7. DrainPlace'
    <3>1. CASE UNCHANGED <<pc, todo, keep>>
      BY <1>1, <3>1 DEF PlaceInv, DrainPlace, Replaying
    <3>2. CASE todo' = Tail(todo) /\ keep' = keep
      BY <1>1, <2>3, <2>4, <2>5, <3>2 DEF DrainPlace
    <3>3. CASE todo' = Tail(todo) /\ keep' = Append(keep, Head(todo))
      BY <1>1, <2>3, <2>4, <2>5, <2>6, <3>3 DEF DrainPlace
    <3>4. QED
      BY <2>1, <3>1, <3>2, <3>3
  <2>8. \A p \in Publishers : InHands(p)' => InHands(p)
    BY <2>2 DEF InHands
  <2>9. QED
    BY <1>1, <1>5, <2>2, <2>7, <2>8, PlaceAside
<1>7. CASE t # Drainer
  <2>1. /\ UNCHANGED <<todo, keep>>
        /\ \/ pc' = pc
           \/ pc' = [pc EXCEPT ![t] = "spool"]
           \/ pc' = [pc EXCEPT ![t] = "idle"]
    BY <1>1, <1>7, SendEnds DEF PublisherSends
  <2>2. /\ pc'[Drainer] = pc[Drainer]
        /\ \A u \in Threads : pc'[u] = "write" => pc[u] = "write"
    BY <1>3, <1>7, <2>1
  <2>3. \A p \in Publishers : InHands(p)' => InHands(p)
    BY <1>1, <1>3, <2>1 DEF InHands
  <2>4. DrainPlace'
    BY <1>1, <2>1, <2>2 DEF PlaceInv, DrainPlace, Replaying
  <2>5. QED
    BY <1>1, <1>5, <2>2, <2>3, <2>4, PlaceAside
<1>8. QED
  BY <1>6, <1>7

LEMMA ReceivePlace ==
    ASSUME Base, PlaceInv, NEW p \in Publishers, Receive(p)
    PROVE  PlaceInv'
<1> USE CollectorAssumption
<1>1. /\ p \in Threads /\ Drainer \in Threads /\ p # Drainer
      /\ pc \in [Threads -> Label] /\ ev \in [Threads -> 0..MaxEvents]
      /\ received \in Nat /\ \A q \in Publishers : q \in Threads
  BY DEF Base, Typed, TypeOK, Threads
<1>2. /\ received' = received + 1 /\ ev' = [ev EXCEPT ![p] = received + 1]
      /\ pc' = [pc EXCEPT ![p] = "send"]
      /\ UNCHANGED <<copies, file, todo, keep, buf>>
  BY DEF Receive, Goto, disk
<1>3. SpoolPlace'
  <2>1. \A e \in Events : e > received' => e > received
    BY <1>1, <1>2 DEF Events
  <2>2. 1..received \subseteq 1..received'
    BY <1>1, <1>2
  <2>3. QED
    BY <1>2, <2>1, <2>2 DEF PlaceInv, SpoolPlace
<1>4. ASSUME NEW q \in Publishers, q # p
      PROVE  /\ ev'[q] = ev[q] /\ pc'[q] = pc[q]
             /\ InHands(q)' => /\ InHands(q) /\ ev'[q] <= received
                               /\ ev'[q] \notin IdsOf(file)
  <2>1. ev'[q] = ev[q] /\ pc'[q] = pc[q]
    BY <1>1, <1>2, <1>4
  <2>2. QED
    BY <2>1 DEF PlaceInv, HandPlace, InHands
<1>5. ev'[p] = received + 1 /\ pc'[p] = "send"
  BY <1>1, <1>2
<1>6. received + 1 \notin IdsOf(file)
  BY <1>1 DEF PlaceInv, SpoolPlace
<1>7. HandPlace'
  <2>1. SUFFICES ASSUME NEW q \in Publishers, InHands(q)'
                 PROVE  /\ ev'[q] <= received' /\ ev'[q] \notin IdsOf(file)
                        /\ \A r \in Publishers :
                              InHands(r)' /\ ev'[r] = ev'[q] => r = q
    BY <1>2 DEF HandPlace
  <2>2. ev'[q] <= received' /\ ev'[q] \notin IdsOf(file)
    BY <1>1, <1>2, <1>4, <1>5, <1>6, <2>1
  <2>3. ASSUME NEW r \in Publishers, InHands(r)', ev'[r] = ev'[q], r # q
        PROVE  FALSE
    <3>1. CASE q # p /\ r # p
      BY <1>4, <2>1, <2>3, <3>1 DEF PlaceInv, HandPlace
    <3>2. CASE q = p \/ r = p
      BY <1>1, <1>4, <1>5, <2>1, <2>3, <3>2
    <3>3. QED
      BY <3>1, <3>2
  <2>4. QED
    BY <2>2, <2>3
<1>8. WritePlace'
  <2>1. ASSUME NEW t \in Threads, pc'[t] = "write"
        PROVE  pc[t] = "write" /\ InHand(t)' = InHand(t)
    <3>1. t # p
      BY <1>5, <2>1
    <3>2. pc'[t] = pc[t] /\ ev'[t] = ev[t]
      BY <1>1, <1>2, <3>1
    <3>3. QED
      BY <2>1, <3>2 DEF InHand
  <2>2. QED
    BY <1>2, <2>1 DEF PlaceInv, WritePlace
<1>9. DrainPlace'
  <2>1. pc'[Drainer] = pc[Drainer]
    BY <1>1, <1>2
  <2>2. QED
    BY <1>2, <2>1 DEF PlaceInv, DrainPlace, Replaying
<1>10. QED
  BY <1>3, <1>7, <1>8, <1>9 DEF PlaceInv

\* Who takes the lock to write is the only one.
LEMMA OneWriter ==
    ASSUME Base, NEW t \in Threads, HoldsLock(t) \/ lock = Nobody
    PROVE  \A u \in Threads : pc[u] = "write" => u = t
<1>1. Nobody \notin Threads
  BY CollectorAssumption DEF Threads
<1>2. QED
  BY <1>1 DEF Base, LockInv, HoldsLock

LEMMA WriteBeginPlace ==
    ASSUME Base, PlaceInv, NEW p \in Publishers, WriteBegin(p) \/ WriteRefused(p)
    PROVE  PlaceInv'
<1> USE CollectorAssumption
<1>1. /\ pc[p] = "spool" /\ lock = Nobody
      /\ UNCHANGED <<received, copies, ev, file, todo, keep>>
  BY DEF WriteBegin, WriteRefused, disk
<1>2. /\ p \in Threads /\ p # Drainer /\ Drainer \in Threads
      /\ pc \in [Threads -> Label] /\ file \in Seq(Line)
      /\ ev[p] \in Events /\ Record(ev[p]) \in Line /\ InHands(p)
      /\ Append(file, Record(ev[p])) \in Seq(Line)
  BY <1>1, WriteBeginLines DEF Base, Typed, TypeOK, Threads
<1>3. pc' = [pc EXCEPT ![p] = "write"] \/ pc' = [pc EXCEPT ![p] = "idle"]
  BY DEF WriteBegin, WriteRefused, Goto
<1>4. \A q \in Publishers : InHands(q)' => InHands(q)
  BY <1>2, <1>3 DEF InHands, Threads
<1>5. SpoolPlace' /\ HandPlace'
  BY <1>1, <1>4 DEF PlaceInv, SpoolPlace, HandPlace
<1>6. DrainPlace'
  <2>1. pc'[Drainer] = pc[Drainer]
    BY <1>2, <1>3
  <2>2. QED
    BY <1>1, <2>1 DEF PlaceInv, DrainPlace, Replaying
<1>7. \A t \in Threads : t # p => pc'[t] # "write"
  <2>1. \A t \in Threads : pc[t] = "write" => t = p
    BY <1>1, <1>2, OneWriter
  <2>2. QED
    BY <1>2, <1>3, <2>1
<1>8. CASE WriteRefused(p)
  <2>1. pc'[p] = "idle"
    BY <1>2, <1>8 DEF WriteRefused, Goto
  <2>2. QED
    BY <1>5, <1>6, <1>7, <2>1 DEF PlaceInv, WritePlace
<1>9. CASE WriteBegin(p)
  <2> DEFINE s == Append(file, Record(ev[p]))
  <2>1. Record(ev[p]).ids = {ev[p]}
    BY DEF Record
  <2>2. ev[p] \notin IdsOf(file) /\ Apart(file)
    BY <1>2 DEF PlaceInv, HandPlace, SpoolPlace
  <2>3. Apart(s) /\ IdsOf(s) = IdsOf(file) \cup {ev[p]} /\ s \in Seq(Line)
    BY <1>2, <2>1, <2>2, AppendLine
  <2>4. buf' = EnforceBound(s)
    BY <1>9 DEF WriteBegin
  <2> HIDE DEF s
  <2>5. Apart(buf') /\ IdsOf(buf') \subseteq IdsOf(file) \cup {ev[p]}
    BY <2>3, <2>4, BoundKept, PartOfLines
  <2>6. WritePlace'
    BY <1>1, <1>2, <1>7, <2>5 DEF WritePlace, InHand
  <2>7. QED
    BY <1>5, <1>6, <2>6 DEF PlaceInv
<1>10. QED
  BY <1>8, <1>9

LEMMA DrainPlaces ==
    ASSUME Base, PlaceInv,
           DrainBegin \/ DrainRecord \/ DrainMalformed \/ DrainEnd \/ DrainEndFails
    PROVE  PlaceInv'
<1> USE CollectorAssumption
<1>1. /\ Drainer \in Threads /\ Drainer \notin Publishers
      /\ pc \in [Threads -> Label] /\ ev \in [Threads -> 0..MaxEvents]
      /\ todo \in Seq(Line) /\ keep \in Seq(Line)
      /\ \A p \in Publishers : p \in Threads
  BY DEF Base, Typed, TypeOK, Threads
<1>2. UNCHANGED <<received, copies, file>>
  BY DEF DrainBegin, DrainRecord, DrainMalformed, DrainEnd, DrainEndFails, disk
<1>3. \A p \in Publishers : ev'[p] = ev[p] /\ pc'[p] = pc[p]
  BY <1>1 DEF DrainBegin, DrainRecord, DrainMalformed, DrainEnd, DrainEndFails,
     Unlock, Goto
<1>4. \A p \in Publishers : ev'[p] = ev[p] /\ (InHands(p)' => InHands(p))
  BY <1>3 DEF InHands
<1>5. \A e \in Events : e > received => copies'[e] = 0
  BY <1>2 DEF PlaceInv, SpoolPlace
<1>6. CASE DrainBegin
  <2>1. /\ todo' = file /\ keep' = <<>> /\ buf' = buf
        /\ \A t \in Threads : pc'[t] = "write" => pc[t] = "write"
    BY <1>1, <1>6 DEF DrainBegin, Goto
  <2>2. DrainPlace'
    BY <1>2, <2>1, NoLines DEF PlaceInv, SpoolPlace, DrainPlace
  <2>3. QED
    BY <1>2, <1>4, <1>5, <2>1, <2>2, PlaceAside
<1>7. CASE DrainRecord
  <2>1. /\ UNCHANGED <<todo, keep, buf>> /\ pc[Drainer] = "drain"
        /\ \A t \in Threads : pc'[t] = "write" => pc[t] = "write"
    BY <1>1, <1>7 DEF DrainRecord, Goto
  <2>2. DrainPlace'
    BY <1>2, <2>1 DEF PlaceInv, DrainPlace, Replaying
  <2>3. QED
    BY <1>2, <1>4, <1>5, <2>1, <2>2, PlaceAside
<1>8. CASE DrainMalformed
  <2>1. /\ todo # <<>> /\ todo' = Tail(todo) /\ UNCHANGED <<pc, keep, buf>>
        /\ pc[Drainer] = "drain"
    BY <1>8 DEF DrainMalformed
  <2>2. IdsOf(Tail(todo)) \subseteq IdsOf(todo) /\ (Apart(todo) => Apart(Tail(todo)))
    BY <1>1, <2>1, FirstLine
  <2>3. DrainPlace'
    BY <1>2, <2>1, <2>2 DEF PlaceInv, DrainPlace, Replaying
  <2>4. QED
    BY <1>2, <1>4, <1>5, <2>1, <2>3, PlaceAside
<1>9. CASE DrainEnd
  <2>1. /\ pc[Drainer] = "drain" /\ pc'[Drainer] = "write" /\ buf' = keep
        /\ \A t \in Threads : t # Drainer => pc'[t] = pc[t]
    BY <1>1, <1>9 DEF DrainEnd, Goto
  <2>2. \A t \in Threads : pc'[t] = "write" => t = Drainer
    BY <1>1, <2>1, OneWriter DEF HoldsLock
  <2>3. Apart(keep) /\ IdsOf(keep) \subseteq IdsOf(file)
    BY <2>1 DEF PlaceInv, DrainPlace, Replaying
  <2>4. WritePlace'
    BY <1>2, <2>1, <2>2, <2>3 DEF WritePlace
  <2>5. SpoolPlace' /\ HandPlace'
    BY <1>2, <1>4, <1>5 DEF PlaceInv, SpoolPlace, HandPlace
  <2>6. DrainPlace'
    BY <2>1 DEF DrainPlace, Replaying
  <2>7. QED
    BY <2>4, <2>5, <2>6 DEF PlaceInv
<1>10. CASE DrainEndFails
  <2>1. /\ pc'[Drainer] = "idle" /\ buf' = buf
        /\ \A t \in Threads : pc'[t] = "write" => pc[t] = "write"
    BY <1>1, <1>10 DEF DrainEndFails, Unlock, Goto
  <2>2. DrainPlace'
    BY <2>1 DEF DrainPlace, Replaying
  <2>3. QED
    BY <1>2, <1>4, <1>5, <2>1, <2>2, PlaceAside
<1>11. QED
  BY <1>6, <1>7, <1>8, <1>9, <1>10

\* What a rewrite leaves: events of the file and the one in the writer's hands.
LEMMA RewritePlace ==
    ASSUME Base, PlaceInv, NEW t \in Threads, pc[t] = "write",
           NEW f \in {Glued(buf), file} \cup CutShort(buf)
    PROVE  /\ Apart(f) /\ IdsOf(f) \subseteq 1..received
           /\ IdsOf(f) \subseteq IdsOf(file) \cup InHand(t)
<1>1. buf \in Seq(Line) /\ received \in Nat
  BY DEF Base, Typed, TypeOK
<1>2. /\ Apart(buf) /\ IdsOf(buf) \subseteq IdsOf(file) \cup InHand(t)
      /\ Apart(file) /\ IdsOf(file) \subseteq 1..received
  BY DEF PlaceInv, WritePlace, SpoolPlace
<1>3. Apart(f) /\ IdsOf(f) \subseteq IdsOf(file) \cup InHand(t)
  BY <1>1, <1>2, GluedKept, CutShortKept
<1>4. InHand(t) \subseteq 1..received
  <2>1. CASE t = Drainer
    BY <2>1 DEF InHand
  <2>2. CASE t # Drainer
    <3>1. InHands(t) /\ t \in Publishers
      BY <2>2 DEF InHands, Threads
    <3>2. ev[t] \in Events /\ ev[t] <= received
      BY <2>2, <3>1, InHandTyped DEF Base, PlaceInv, HandPlace
    <3>3. QED
      BY <1>1, <2>2, <3>2, CollectorAssumption DEF InHand, Events
  <2>3. QED
    BY <2>1, <2>2
<1>5. QED
  BY <1>2, <1>3, <1>4

LEMMA WritePlaces ==
    ASSUME Base, PlaceInv, NEW t \in Threads, Write(t) \/ WriteFails(t)
    PROVE  PlaceInv'
<1> USE CollectorAssumption
<1>1. /\ pc[t] = "write" /\ UNCHANGED <<copies, received, ev, todo, keep, buf>>
      /\ pc' = [pc EXCEPT ![t] = "idle"]
      /\ file' \in {Glued(buf), file} \cup CutShort(buf)
  BY DEF Write, WriteFails, Unlock, Goto
<1>2. /\ pc \in [Threads -> Label] /\ Drainer \in Threads
      /\ \A p \in Publishers : p \in Threads
  BY DEF Base, Typed, TypeOK, Threads
<1>3. /\ Apart(file') /\ IdsOf(file') \subseteq 1..received
      /\ IdsOf(file') \subseteq IdsOf(file) \cup InHand(t)
  BY <1>1, RewritePlace
<1>4. SpoolPlace'
  BY <1>1, <1>3 DEF PlaceInv, SpoolPlace
<1>5. \A p \in Publishers : InHands(p)' => InHands(p) /\ p # t
  BY <1>1, <1>2 DEF InHands
<1>6. HandPlace'
  <2>1. SUFFICES ASSUME NEW p \in Publishers, InHands(p)'
                 PROVE  /\ ev[p] <= received /\ ev[p] \notin IdsOf(file')
                        /\ \A q \in Publishers :
                              InHands(q)' /\ ev[q] = ev[p] => q = p
    BY <1>1 DEF HandPlace
  <2>2. /\ ev[p] <= received /\ ev[p] \notin IdsOf(file)
        /\ \A q \in Publishers : InHands(q) /\ ev[q] = ev[p] => q = p
    BY <1>5, <2>1 DEF PlaceInv, HandPlace
  <2>3. ev[p] \notin InHand(t)
    BY <1>1, <1>5, <2>1, <2>2 DEF InHand, InHands, Threads
  <2>4. QED
    BY <1>3, <1>5, <2>2, <2>3
<1>7. WritePlace'
  <2>1. \A u \in Threads : pc[u] = "write" => u = t
    BY <1>1, OneWriter DEF HoldsLock
  <2>2. \A u \in Threads : pc'[u] # "write"
    BY <1>1, <1>2, <2>1
  <2>3. QED
    BY <2>2 DEF WritePlace
<1>8. DrainPlace'
  <2>1. ~Replaying'
    <3>1. CASE t = Drainer
      BY <1>1, <1>2, <3>1 DEF Replaying
    <3>2. CASE t # Drainer
      BY <1>1, <1>2, <3>2, PublisherWrites DEF Replaying, Threads
    <3>3. QED
      BY <3>1, <3>2
  <2>2. QED
    BY <2>1 DEF DrainPlace
<1>9. QED
  BY <1>4, <1>6, <1>7, <1>8 DEF PlaceInv

LEMMA StepPlace == Base /\ PlaceInv /\ [Next]_vars => PlaceInv'
<1> SUFFICES ASSUME Base, PlaceInv, [Next]_vars
             PROVE  PlaceInv'
  OBVIOUS
<1>1. Drainer \in Threads /\ \A p \in Publishers : p \in Threads
  BY DEF Threads
<1>2. ASSUME NEW p \in Publishers, Publisher(p)
      PROVE  PlaceInv'
  BY <1>1, <1>2, ReceivePlace, WriteBeginPlace, SendPlace, WritePlaces
     DEF Publisher, Thread
<1>3. CASE Drain
  BY <1>1, <1>3, DrainPlaces, SendPlace, WritePlaces DEF Drain, Thread
<1>4. CASE Crash \/ Exit
  <2>1. Killed
    BY <1>4 DEF Crash, Exit
  <2>2. /\ UNCHANGED <<copies, received>> /\ \A t \in Threads : pc'[t] = "idle"
    BY <2>1 DEF Killed, NewProcess
  <2>3. Apart(file') /\ IdsOf(file') \subseteq 1..received
    <3>1. CASE \E t \in Threads : pc[t] = "write"
      BY <2>1, <3>1, RewritePlace DEF Killed
    <3>2. CASE ~\E t \in Threads : pc[t] = "write"
      BY <2>1, <3>2 DEF Killed, PlaceInv, SpoolPlace
    <3>3. QED
      BY <3>1, <3>2
  <2>4. SpoolPlace'
    BY <2>2, <2>3 DEF PlaceInv, SpoolPlace
  <2>5. HandPlace' /\ WritePlace' /\ DrainPlace'
    BY <1>1, <2>2 DEF HandPlace, WritePlace, DrainPlace, InHands, Replaying
  <2>6. QED
    BY <2>4, <2>5 DEF PlaceInv
<1>5. CASE Stop \/ Flip \/ UNCHANGED vars
  <2>1. UNCHANGED <<pc, ev, todo, keep, buf, file, copies, received>>
    BY <1>5 DEF Stop, Flip, vars, threads, disk
  <2>2. SpoolPlace' /\ HandPlace' /\ DrainPlace'
    BY <2>1 DEF PlaceInv, SpoolPlace, HandPlace, DrainPlace, InHands, Replaying
  <2>3. WritePlace'
    BY <2>1 DEF PlaceInv, WritePlace, InHand
  <2>4. QED
    BY <2>2, <2>3 DEF PlaceInv
<1>6. QED
  BY <1>2, <1>3, <1>4, <1>5 DEF Next

-----------------------------------------------------------------------------
(* How often an event is on the topic. *)

\* What is still to be replayed is in the file.
LEMMA SpooledInFile ==
    ASSUME Typed, PlaceInv
    PROVE  Spooled \subseteq IdsOf(file)
<1>1. CASE Replaying
  BY <1>1 DEF Spooled, PlaceInv, DrainPlace
<1>2. CASE ~Replaying /\ pc[Drainer] = "write"
  BY <1>2 DEF Spooled, PlaceInv, WritePlace, InHand, Threads
<1>3. CASE ~Replaying /\ pc[Drainer] # "write"
  BY <1>3 DEF Spooled
<1>4. QED
  BY <1>1, <1>2, <1>3

\* The counts of a state, and how a step may change them.
Counted(e) ==
    /\ copies[e] \in Nat /\ One(Pending(e)) \in 0..1 /\ One(stop) \in 0..1
    /\ faults \in Nat

LEMMA Counts ==
    ASSUME Typed, NEW e \in Events
    PROVE  Counted(e)
  BY CollectorAssumption DEF Counted, Typed, TypeOK, One

LEMMA InitCopies == Init => CopiesInv
<1> SUFFICES ASSUME Init, NEW e \in Events
             PROVE  copies[e] + One(Pending(e)) + One(stop) <= 1 + faults
  BY DEF CopiesInv
<1>1. copies[e] = 0 /\ stop = FALSE /\ faults = 0
  BY DEF Init
<1>2. One(stop) = 0 /\ One(Pending(e)) \in 0..1
  BY <1>1 DEF One
<1>3. QED
  BY <1>1, <1>2

\* Nothing more is sent, and nothing more is to be sent.
LEMMA CopiesAside ==
    ASSUME Typed, CopiesInv, UNCHANGED <<copies, stop, faults>>,
           \A e \in Events : Pending(e)' => Pending(e)
    PROVE  CopiesInv'
<1> SUFFICES ASSUME NEW e \in Events
             PROVE  copies'[e] + One(Pending(e)') + One(stop') <= 1 + faults'
  BY DEF CopiesInv
<1>1. copies[e] + One(Pending(e)) + One(stop) <= 1 + faults
  BY DEF CopiesInv
<1>2. One(Pending(e)') <= One(Pending(e)) /\ One(Pending(e)') \in 0..1
  BY DEF One
<1>3. Counted(e)
  BY Counts
<1>4. QED
  BY <1>1, <1>2, <1>3 DEF Counted

\* A fault pays for one more.
LEMMA CopiesFault ==
    ASSUME Typed, CopiesInv, faults' = faults + 1,
           \A e \in Events :
               \/ copies'[e] = copies[e] /\ (stop' => stop)
               \/ copies'[e] = copies[e] /\ (Pending(e)' => Pending(e))
               \/ copies'[e] = copies[e] + 1 /\ (Pending(e)' => Pending(e))
                  /\ (stop' => stop)
    PROVE  CopiesInv'
<1> SUFFICES ASSUME NEW e \in Events
             PROVE  copies'[e] + One(Pending(e)') + One(stop') <= 1 + faults'
  BY DEF CopiesInv
<1>1. copies[e] + One(Pending(e)) + One(stop) <= 1 + faults
  BY DEF CopiesInv
<1>2. /\ One(Pending(e)') \in 0..1 /\ One(stop') \in 0..1
      /\ (stop' => stop) => One(stop') <= One(stop)
      /\ (Pending(e)' => Pending(e)) => One(Pending(e)') <= One(Pending(e))
  BY DEF One
<1>3. Counted(e)
  BY Counts
<1>4. CASE copies'[e] = copies[e] /\ (stop' => stop)
  BY <1>1, <1>2, <1>3, <1>4 DEF Counted
<1>5. CASE copies'[e] = copies[e] /\ (Pending(e)' => Pending(e))
  BY <1>1, <1>2, <1>3, <1>5 DEF Counted
<1>6. CASE /\ copies'[e] = copies[e] + 1 /\ (Pending(e)' => Pending(e))
           /\ (stop' => stop)
  BY <1>1, <1>2, <1>3, <1>6 DEF Counted
<1>7. QED
  BY <1>4, <1>5, <1>6

\* After a send an event has no more places than before, and one that was
\* sent has none.
LEMMA SendPending ==
    ASSUME Base, PlaceInv, NEW t \in Threads,
           SendSucceeds(t) \/ SendRefused(t) \/ SendTimesOut(t)
    PROVE  /\ Pending(ev[t])
           /\ \A e \in Events : Pending(e)' => Pending(e)
           /\ SendSucceeds(t) => ~Pending(ev[t])'
<1> USE CollectorAssumption
<1>1. /\ pc[t] = "send" /\ ev[t] \in Events
      /\ UNCHANGED <<ev, buf, file>>
      /\ Returns(t) \/ Raises(t)
      /\ SendSucceeds(t) => Returns(t)
  BY Copied DEF Base, disk, SendSucceeds, SendRefused, SendTimesOut
<1>2. /\ Drainer \in Threads /\ pc \in [Threads -> Label]
      /\ \A p \in Publishers : p \in Threads
      /\ todo \in Seq(Line) /\ keep \in Seq(Line)
  BY DEF Base, Typed, TypeOK, Threads
<1>3. Spooled \subseteq IdsOf(file)
  BY SpooledInFile DEF Base
<1>4. CASE t = Drainer
  <2>1. Spooled = IdsOf(todo) \cup IdsOf(keep)
    BY <1>1, <1>4 DEF Spooled, Replaying
  <2>2. /\ todo # <<>> /\ Head(todo).ids = {ev[t]}
        /\ IdsOf(todo) = {ev[t]} \cup IdsOf(Tail(todo))
        /\ IdsOf(Append(keep, Head(todo))) = IdsOf(keep) \cup {ev[t]}
    BY <1>1, <1>4, HeadSent
  <2>3. /\ Apart(todo) /\ IdsOf(todo) \cap IdsOf(keep) = {}
    BY <1>1, <1>4 DEF PlaceInv, DrainPlace, Replaying
  <2>4. ev[t] \notin IdsOf(Tail(todo)) /\ ev[t] \notin IdsOf(keep)
    BY <1>2, <2>2, <2>3, FirstLine
  <2>5. \/ UNCHANGED <<pc, todo, keep>> /\ ~Returns(t)
        \/ /\ pc' = [pc EXCEPT ![t] = "drain"] /\ todo' = Tail(todo)
           /\ \/ keep' = keep
              \/ keep' = Append(keep, Head(todo)) /\ ~Returns(t)
    <3>1. CASE Returns(t)
      BY <1>4, <3>1, SendSettles
    <3>2. CASE ~Returns(t)
      BY <1>1, <1>4, <3>2, SendSettles
    <3>3. QED
      BY <3>1, <3>2
  <2>6. Spooled' = IdsOf(todo') \cup IdsOf(keep')
    BY <1>1, <1>2, <1>4, <2>5 DEF Spooled, Replaying
  <2>7. Spooled' \subseteq Spooled /\ (SendSucceeds(t) => ev[t] \notin Spooled')
    BY <1>1, <2>1, <2>2, <2>4, <2>5, <2>6
  <2>8. \A p \in Publishers : InHands(p)' <=> InHands(p)
    BY <1>2, <1>4, <2>5 DEF InHands
  <2>9. \A p \in Publishers : InHands(p) => ev[p] # ev[t]
    BY <1>3, <2>1, <2>2 DEF PlaceInv, HandPlace
  <2>10. Pending(ev[t])
    BY <2>1, <2>2 DEF Pending
  <2>11. QED
    BY <1>1, <2>7, <2>8, <2>9, <2>10 DEF Pending
<1>5. CASE t # Drainer
  <2>1. /\ t \in Publishers /\ InHands(t)
    BY <1>1, <1>5 DEF Threads, InHands
  <2>2. /\ UNCHANGED <<todo, keep>>
        /\ \/ pc' = pc /\ ~Returns(t)
           \/ pc' = [pc EXCEPT ![t] = "spool"] /\ ~Returns(t)
           \/ pc' = [pc EXCEPT ![t] = "idle"]
    <3>1. CASE Returns(t)
      BY <1>5, <3>1, SendSettles
    <3>2. CASE ~Returns(t)
      BY <1>1, <1>5, <3>2, SendSettles
    <3>3. QED
      BY <3>1, <3>2
  <2>3. pc'[Drainer] = pc[Drainer]
    BY <1>2, <1>5, <2>2
  <2>4. Spooled' = Spooled
    BY <1>1, <2>2, <2>3 DEF Spooled, Replaying
  <2>5. \A p \in Publishers : InHands(p)' => InHands(p)
    BY <1>1, <1>2, <2>2 DEF InHands
  <2>6. SendSucceeds(t) => ~InHands(t)'
    BY <1>1, <1>2, <2>2 DEF InHands
  <2>7. /\ ev[t] \notin IdsOf(file)
        /\ \A q \in Publishers : InHands(q) /\ ev[q] = ev[t] => q = t
    BY <2>1 DEF PlaceInv, HandPlace
  <2>8. Pending(ev[t])
    BY <2>1 DEF Pending
  <2>9. QED
    BY <1>1, <1>3, <2>4, <2>5, <2>6, <2>7, <2>8 DEF Pending
<1>6. QED
  BY <1>4, <1>5

LEMMA SendCopies ==
    ASSUME Base, PlaceInv, CopiesInv, NEW t \in Threads,
           SendSucceeds(t) \/ SendRefused(t) \/ SendTimesOut(t)
    PROVE  CopiesInv'
<1>1. Typed
  BY DEF Base
<1>2. PICK n \in 0..1 :
          /\ \A e \in Events :
                copies'[e] = IF e = ev[t] THEN copies[e] + n ELSE copies[e]
          /\ SendSucceeds(t) => n = 1
          /\ SendRefused(t) => n = 0
  BY <1>1, Copied
<1>3. /\ Pending(ev[t]) /\ ev[t] \in Events /\ stop' = stop
      /\ \A e \in Events : Pending(e)' => Pending(e)
      /\ SendSucceeds(t) => ~Pending(ev[t])'
  BY <1>1, Copied, SendPending
<1>4. \A e \in Events : copies[e] \in Nat
  BY <1>1 DEF Typed, TypeOK
<1>5. CASE SendSucceeds(t)
  <2> SUFFICES ASSUME NEW e \in Events
               PROVE  copies'[e] + One(Pending(e)') + One(stop') <= 1 + faults'
    BY DEF CopiesInv
  <2>1. copies[e] + One(Pending(e)) + One(stop) <= 1 + faults /\ Counted(e)
    BY <1>1, Counts DEF CopiesInv
  <2>2. faults' = faults /\ stop' = stop
    BY <1>3, <1>5 DEF SendSucceeds
  <2>3. copies'[e] + One(Pending(e)') <= copies[e] + One(Pending(e))
    <3>1. CASE e = ev[t]
      <4>1. copies'[e] = copies[e] + 1
        BY <1>2, <1>5, <3>1
      <4>2. One(Pending(e)) = 1 /\ One(Pending(e)') = 0
        <5>1. Pending(e) /\ ~Pending(e)'
          <6>1. Pending(ev[t]) /\ ~Pending(ev[t])' /\ ev' = ev
            BY <1>1, <1>3, <1>5, Copied
          <6>2. QED
            BY <3>1, <6>1 DEF Pending, Spooled, Replaying, InHands
        <5>2. QED
          BY <5>1 DEF One
      <4>3. QED
        BY <1>4, <4>1, <4>2
    <3>2. CASE e # ev[t]
      <4>1. copies'[e] = copies[e]
        BY <1>2, <3>2
      <4>2. One(Pending(e)') <= One(Pending(e)) /\ One(Pending(e)') \in 0..1
        BY <1>3 DEF One
      <4>3. QED
        BY <2>1, <4>1, <4>2 DEF Counted
    <3>3. QED
      BY <3>1, <3>2
  <2>4. copies'[e] \in Nat /\ One(Pending(e)') \in 0..1
    BY <1>2, <1>4 DEF One
  <2>5. QED
    BY <2>1, <2>2, <2>3, <2>4 DEF Counted
<1>6. CASE SendRefused(t)
  <2>1. UNCHANGED <<copies, stop, faults>>
    BY <1>6 DEF SendRefused
  <2>2. QED
    BY <1>1, <1>3, <2>1, CopiesAside
<1>7. CASE SendTimesOut(t)
  <2>1. faults' = faults + 1
    BY <1>7 DEF SendTimesOut, Fault
  <2>2. \A e \in Events : copies'[e] = copies[e] \/ copies'[e] = copies[e] + 1
    BY <1>2, <1>4
  <2>3. QED
    BY <1>1, <1>3, <2>1, <2>2, CopiesFault
<1>8. QED
  BY <1>5, <1>6, <1>7

LEMMA ReceiveCopies ==
    ASSUME Base, PlaceInv, CopiesInv, NEW p \in Publishers, Receive(p)
    PROVE  CopiesInv'
<1> USE CollectorAssumption
<1>1. /\ Typed /\ p \in Threads /\ Drainer \in Threads /\ p # Drainer
      /\ pc \in [Threads -> Label] /\ ev \in [Threads -> 0..MaxEvents]
      /\ received \in Nat /\ \A q \in Publishers : q \in Threads
  BY DEF Base, Typed, TypeOK, Threads
<1>2. /\ ev' = [ev EXCEPT ![p] = received + 1]
      /\ pc' = [pc EXCEPT ![p] = "send"] /\ ~stop
      /\ UNCHANGED <<copies, file, todo, keep, buf, stop, faults>>
  BY DEF Receive, Goto, disk
<1>3. Spooled' = Spooled
  <2>1. pc'[Drainer] = pc[Drainer]
    BY <1>1, <1>2
  <2>2. QED
    BY <1>2, <2>1 DEF Spooled, Replaying
<1>4. ASSUME NEW q \in Publishers, q # p
      PROVE  ev'[q] = ev[q] /\ (InHands(q)' <=> InHands(q))
  BY <1>1, <1>2, <1>4 DEF InHands
<1>5. ev'[p] = received + 1
  BY <1>1, <1>2
<1> SUFFICES ASSUME NEW e \in Events
             PROVE  copies'[e] + One(Pending(e)') + One(stop') <= 1 + faults'
  BY DEF CopiesInv
<1>6. copies[e] + One(Pending(e)) + One(stop) <= 1 + faults /\ Counted(e)
  BY <1>1, Counts DEF CopiesInv
<1>7. CASE e = received + 1
  <2>1. copies[e] = 0
    BY <1>1, <1>7 DEF PlaceInv, SpoolPlace
  <2>2. One(stop) = 0 /\ One(Pending(e)') \in 0..1
    BY <1>2 DEF One
  <2>3. QED
    BY <1>2, <1>6, <2>1, <2>2 DEF Counted
<1>8. CASE e # received + 1
  <2>1. Pending(e)' => Pending(e)
    BY <1>3, <1>4, <1>5, <1>8 DEF Pending
  <2>2. One(Pending(e)') <= One(Pending(e)) /\ One(Pending(e)') \in 0..1
    BY <2>1 DEF One
  <2>3. QED
    BY <1>2, <1>6, <2>2 DEF Counted
<1>9. QED
  BY <1>7, <1>8

LEMMA WriteBeginCopies ==
    ASSUME Base, CopiesInv, NEW p \in Publishers, WriteBegin(p) \/ WriteRefused(p)
    PROVE  CopiesInv'
<1> USE CollectorAssumption
<1>1. /\ Typed /\ pc[p] = "spool" /\ lock = Nobody
      /\ UNCHANGED <<copies, ev, file, todo, keep, stop, faults>>
  BY DEF Base, WriteBegin, WriteRefused, disk
<1>2. /\ p \in Threads /\ p # Drainer /\ Drainer \in Threads
      /\ pc \in [Threads -> Label] /\ \A q \in Publishers : q \in Threads
  BY <1>1 DEF Typed, TypeOK, Threads
<1>3. pc' = [pc EXCEPT ![p] = "write"] \/ pc' = [pc EXCEPT ![p] = "idle"]
  BY DEF WriteBegin, WriteRefused, Goto
<1>4. \A q \in Publishers : InHands(q)' => InHands(q)
  BY <1>1, <1>2, <1>3 DEF InHands
<1>5. Spooled' = Spooled
  <2>1. ~Replaying /\ pc[Drainer] # "write"
    BY <1>1, PublisherWrites
  <2>2. pc'[Drainer] = pc[Drainer]
    BY <1>2, <1>3
  <2>3. ~Replaying' /\ pc'[Drainer] # "write"
    BY <2>1, <2>2 DEF Replaying
  <2>4. QED
    BY <1>1, <2>1, <2>3 DEF Spooled
<1>6. \A e \in Events : Pending(e)' => Pending(e)
  BY <1>1, <1>4, <1>5 DEF Pending
<1>7. QED
  BY <1>1, <1>6, CopiesAside

LEMMA DrainCopies ==
    ASSUME Base, CopiesInv,
           DrainBegin \/ DrainRecord \/ DrainMalformed \/ DrainEnd \/ DrainEndFails
    PROVE  CopiesInv'
<1> USE CollectorAssumption
<1>1. /\ Typed /\ Drainer \in Threads /\ Drainer \notin Publishers
      /\ pc \in [Threads -> Label] /\ ev \in [Threads -> 0..MaxEvents]
      /\ todo \in Seq(Line) /\ \A p \in Publishers : p \in Threads
  BY DEF Base, Typed, TypeOK, Threads
<1>2. UNCHANGED <<copies, file, stop>>
  BY DEF DrainBegin, DrainRecord, DrainMalformed, DrainEnd, DrainEndFails, disk
<1>3. \A p \in Publishers : ev'[p] = ev[p] /\ (InHands(p)' <=> InHands(p))
  BY <1>1 DEF DrainBegin, DrainRecord, DrainMalformed, DrainEnd, DrainEndFails,
     Unlock, Goto, InHands
<1>4. CASE DrainEndFails
  <2>1. faults' = faults + 1
    BY <1>4 DEF DrainEndFails, Fault
  <2>2. QED
    BY <1>1, <1>2, <2>1, CopiesFault
<1>5. CASE DrainBegin \/ DrainRecord \/ DrainMalformed \/ DrainEnd
  <2>1. Spooled' \subseteq Spooled
    <3>1. CASE DrainBegin
      <4>1. /\ pc[Drainer] = "idle" /\ pc'[Drainer] = "drain"
            /\ todo' = file /\ keep' = <<>>
        BY <1>1, <3>1 DEF DrainBegin, Goto
      <4>2. QED
        BY <4>1, NoLines DEF Spooled, Replaying
    <3>2. CASE DrainRecord
      <4>1. /\ pc[Drainer] = "drain" /\ pc'[Drainer] = "send"
            /\ UNCHANGED <<todo, keep>>
        BY <1>1, <3>2 DEF DrainRecord, Goto
      <4>2. QED
        BY <4>1 DEF Spooled, Replaying
    <3>3. CASE DrainMalformed
      <4>1. /\ pc[Drainer] = "drain" /\ UNCHANGED <<pc, keep>>
            /\ todo # <<>> /\ todo' = Tail(todo)
        BY <3>3 DEF DrainMalformed
      <4>2. IdsOf(Tail(todo)) \subseteq IdsOf(todo)
        BY <1>1, <4>1, FirstLine
      <4>3. QED
        BY <4>1, <4>2 DEF Spooled, Replaying
    <3>4. CASE DrainEnd
      <4>1. /\ pc[Drainer] = "drain" /\ pc'[Drainer] = "write" /\ buf' = keep
        BY <1>1, <3>4 DEF DrainEnd, Goto
      <4>2. QED
        BY <4>1 DEF Spooled, Replaying
    <3>5. QED
      BY <1>5, <3>1, <3>2, <3>3, <3>4
  <2>2. \A e \in Events : Pending(e)' => Pending(e)
    BY <1>3, <2>1 DEF Pending
  <2>3. faults' = faults
    BY <1>5 DEF DrainBegin, DrainRecord, DrainMalformed, DrainEnd
  <2>4. QED
    BY <1>1, <1>2, <2>2, <2>3, CopiesAside
<1>6. QED
  BY <1>4, <1>5

LEMMA WriteCopies ==
    ASSUME Base, PlaceInv, CopiesInv, NEW t \in Threads, Write(t) \/ WriteFails(t)
    PROVE  CopiesInv'
<1> USE CollectorAssumption
<1>1. /\ Typed /\ pc[t] = "write" /\ UNCHANGED <<copies, ev, stop>>
      /\ pc' = [pc EXCEPT ![t] = "idle"]
  BY DEF Base, Write, WriteFails, Unlock, Goto
<1>2. /\ pc \in [Threads -> Label] /\ Drainer \in Threads
      /\ \A p \in Publishers : p \in Threads
  BY <1>1 DEF Typed, TypeOK, Threads
<1>3. CASE WriteFails(t)
  <2>1. faults' = faults + 1
    BY <1>3 DEF WriteFails, Fault
  <2>2. QED
    BY <1>1, <2>1, CopiesFault
<1>4. CASE Write(t)
  <2>1. file' = Glued(buf) /\ faults' = faults
    BY <1>4 DEF Write
  <2>2. IdsOf(file') = IdsOf(buf)
    BY <1>1, <2>1, RewriteLines
  <2>3. \A p \in Publishers : InHands(p)' => InHands(p)
    BY <1>1, <1>2 DEF InHands
  <2>4. CASE t = Drainer
    <3>1. Spooled = IdsOf(buf)
      BY <1>1, <2>4 DEF Spooled, Replaying
    <3>2. Spooled' = IdsOf(file')
      BY <1>1, <1>2, <2>4 DEF Spooled, Replaying
    <3>3. \A e \in Events : Pending(e)' => Pending(e)
      BY <1>1, <2>2, <2>3, <3>1, <3>2 DEF Pending
    <3>4. QED
      BY <1>1, <2>1, <3>3, CopiesAside
  <2>5. CASE t # Drainer
    <3>1. t \in Publishers /\ InHands(t)
      BY <1>1, <2>5 DEF Threads, InHands
    <3>2. ~Replaying /\ pc[Drainer] # "write"
      BY <1>1, <3>1, PublisherWrites
    <3>3. Spooled = IdsOf(file)
      BY <3>2 DEF Spooled
    <3>4. pc'[Drainer] = pc[Drainer]
      BY <1>1, <1>2, <2>5
    <3>5. Spooled' = IdsOf(file')
      BY <3>2, <3>4 DEF Spooled, Replaying
    <3>6. IdsOf(buf) \subseteq IdsOf(file) \cup {ev[t]}
      BY <1>1, <2>5 DEF PlaceInv, WritePlace, InHand
    <3>7. \A e \in Events : Pending(e)' => Pending(e)
      BY <1>1, <2>2, <2>3, <3>1, <3>3, <3>5, <3>6 DEF Pending
    <3>8. QED
      BY <1>1, <2>1, <3>7, CopiesAside
  <2>6. QED
    BY <2>4, <2>5
<1>5. QED
  BY <1>3, <1>4

LEMMA StepCopies == Base /\ PlaceInv /\ CopiesInv /\ [Next]_vars => CopiesInv'
<1> SUFFICES ASSUME Base, PlaceInv, CopiesInv, [Next]_vars
             PROVE  CopiesInv'
  OBVIOUS
<1>1. Typed /\ Drainer \in Threads /\ \A p \in Publishers : p \in Threads
  BY DEF Base, Threads
<1>2. ASSUME NEW p \in Publishers, Publisher(p)
      PROVE  CopiesInv'
  BY <1>1, <1>2, ReceiveCopies, WriteBeginCopies, SendCopies, WriteCopies
     DEF Publisher, Thread
<1>3. CASE Drain
  BY <1>1, <1>3, DrainCopies, SendCopies, WriteCopies DEF Drain, Thread
<1>4. CASE Crash
  <2>1. copies' = copies /\ stop' = FALSE /\ faults' = faults + 1
    BY <1>4 DEF Crash, Fault, Killed, NewProcess
  <2>2. QED
    BY <1>1, <2>1, CopiesFault
<1>5. CASE Exit
  <2>1. copies' = copies /\ stop /\ stop' = FALSE /\ faults' = faults
    BY <1>5 DEF Exit, Killed, NewProcess
  <2> SUFFICES ASSUME NEW e \in Events
               PROVE  copies'[e] + One(Pending(e)') + One(stop') <= 1 + faults'
    BY DEF CopiesInv
  <2>2. copies[e] + One(Pending(e)) + One(stop) <= 1 + faults /\ Counted(e)
    BY <1>1, Counts DEF CopiesInv
  <2>3. One(stop) = 1 /\ One(stop') = 0 /\ One(Pending(e)') \in 0..1
    BY <2>1 DEF One
  <2>4. copies'[e] = copies[e] /\ faults' = faults
    BY <2>1
  <2>5. QED
    BY <2>2, <2>3, <2>4 DEF Counted
<1>6. CASE Stop
  <2>1. UNCHANGED <<pc, ev, todo, keep, buf, file, copies>> /\ faults' = faults + 1
    BY <1>6 DEF Stop, Fault, threads, disk
  <2>2. \A e \in Events : Pending(e)' => Pending(e)
    BY <2>1 DEF Pending, Spooled, Replaying, InHands
  <2>3. QED
    BY <1>1, <2>1, <2>2, CopiesFault
<1>7. CASE Flip \/ UNCHANGED vars
  <2>1. UNCHANGED <<pc, ev, todo, keep, buf, file, copies, stop, faults>>
    BY <1>7 DEF Flip, vars, threads, disk
  <2>2. \A e \in Events : Pending(e)' => Pending(e)
    BY <2>1 DEF Pending, Spooled, Replaying, InHands
  <2>3. QED
    BY <1>1, <2>1, <2>2, CopiesAside
<1>8. QED
  BY <1>2, <1>3, <1>4, <1>5, <1>6, <1>7 DEF Next

\* An event is on the raw topic at most once more than there were faults: no
\* interleaving of publishers, drain() and the spool repeats one by itself.
THEOREM CollectorFewDuplicates == Spec => []FewDuplicates
<1> DEFINE Inv == Base /\ PlaceInv /\ CopiesInv
<1>1. Init => Inv
  BY InitTyped, InitLock, InitWhole, InitPlace, InitCopies DEF Base
<1>2. Inv /\ [Next]_vars => Inv'
  BY StepTyped, StepLock, StepWhole, StepPlace, StepCopies DEF Base
<1>3. Inv => FewDuplicates
  <2> SUFFICES ASSUME Inv, NEW e \in Events
               PROVE  copies[e] <= 1 + faults
    BY DEF FewDuplicates
  <2>1. copies[e] + One(Pending(e)) + One(stop) <= 1 + faults /\ Counted(e)
    BY Counts DEF CopiesInv, Base
  <2>2. QED
    BY <2>1 DEF Counted
<1> HIDE DEF Inv
<1>4. QED
  BY <1>1, <1>2, <1>3, PTL DEF Spec

-----------------------------------------------------------------------------
(* Recursive functions on 0..n. *)

StepOf(F, n, D) == F \in [1..n -> [D -> D]]

Follows(w, m, D, F) ==
    \A i \in 1..m : w[i - 1] \in D => w[i] = F[i][w[i - 1]]

Recursive(s, n, D, base, F) ==
    /\ s \in [0..n -> D] /\ s[0] = base
    /\ \A i \in 1..n : s[i] = F[i][s[i - 1]]

\* There is one for every step function.
LEMMA RecursionExists ==
    ASSUME NEW n \in Nat, NEW D, NEW base \in D, NEW F, StepOf(F, n, D)
    PROVE  \E s : Recursive(s, n, D, base, F)
<1> DEFINE S == {m \in Nat : m <= n => \E s : Recursive(s, m, D, base, F)}
<1>1. 0 \in S
  <2>1. Recursive([i \in 0..0 |-> base], 0, D, base, F)
    BY DEF Recursive
  <2>2. QED
    BY <2>1
<1>2. ASSUME NEW m \in Nat, m \in S
      PROVE  m + 1 \in S
  <2>1. SUFFICES ASSUME m + 1 <= n
                 PROVE  \E s : Recursive(s, m + 1, D, base, F)
    OBVIOUS
  <2>2. PICK s : Recursive(s, m, D, base, F)
    BY <1>2, <2>1
  <2> DEFINE t == [i \in 0 .. m + 1 |->
                      IF i = m + 1 THEN F[m + 1][s[m]] ELSE s[i]]
  <2>3. s[m] \in D /\ F[m + 1][s[m]] \in D
    BY <2>1, <2>2 DEF Recursive, StepOf
  <2>4. t \in [0 .. m + 1 -> D] /\ t[0] = base
    BY <2>2, <2>3 DEF Recursive
  <2>5. ASSUME NEW i \in 1 .. m + 1
        PROVE  t[i] = F[i][t[i - 1]]
    <3>1. CASE i = m + 1
      BY <3>1
    <3>2. CASE i \in 1..m
      <4>1. s[i] = F[i][s[i - 1]]
        BY <2>2, <3>2 DEF Recursive
      <4>2. t[i] = s[i] /\ t[i - 1] = s[i - 1]
        BY <3>2
      <4>3. QED
        BY <4>1, <4>2
    <3>3. QED
      BY <3>1, <3>2
  <2>6. Recursive(t, m + 1, D, base, F)
    BY <2>4, <2>5 DEF Recursive
  <2>7. QED
    BY <2>6
<1>3. Nat \subseteq S
  <2> HIDE DEF S
  <2> QED
    BY <1>1, <1>2, SetInduction
<1>4. QED
  BY <1>3

\* And only one, as far as it goes.
LEMMA RecursionAgrees ==
    ASSUME NEW n \in Nat, NEW m \in 0..n, NEW D, NEW base, NEW F,
           NEW s, Recursive(s, n, D, base, F),
           NEW w, w[0] = base, Follows(w, m, D, F)
    PROVE  w[m] = s[m]
<1> DEFINE S == {i \in Nat : i <= m => w[i] = s[i]}
<1>1. 0 \in S
  BY DEF Recursive
<1>2. ASSUME NEW i \in Nat, i \in S
      PROVE  i + 1 \in S
  <2>1. SUFFICES ASSUME i + 1 <= m
                 PROVE  w[i + 1] = s[i + 1]
    OBVIOUS
  <2>2. w[i] = s[i] /\ s[i] \in D
    BY <1>2, <2>1 DEF Recursive
  <2>3. i + 1 \in 1..m /\ i + 1 \in 1..n /\ (i + 1) - 1 = i
    BY <2>1
  <2>4. w[i + 1] = F[i + 1][w[i]] /\ s[i + 1] = F[i + 1][s[i]]
    BY <2>2, <2>3 DEF Follows, Recursive
  <2>5. QED
    BY <2>2, <2>4
<1>3. Nat \subseteq S
  <2> HIDE DEF S
  <2> QED
    BY <1>1, <1>2, SetInduction
<1>4. QED
  BY <1>3

-----------------------------------------------------------------------------
(* The operators of TcpFraming. *)

\* int() of a digit more.
LEMMA NumberDef ==
    ASSUME NEW s, NEW n \in Nat, \A i \in 1..n : s[i] \in DOMAIN Digit
    PROVE  /\ Number(s, 0) = 0
           /\ \A k \in 0..n : Number(s, k) \in Nat
           /\ \A k \in 1..n :
                 Number(s, k) = 10 * Number(s, k - 1) + Digit[s[k]]
<1> DEFINE D == Nat
           F == [i \in 1..n |-> [x \in D |-> 10 * x + Digit[s[i]]]]
           Is(k, w) == w = [i \in 0..k |->
                              IF i = 0 THEN 0 ELSE 10 * w[i - 1] + Digit[s[i]]]
<1>1. \A d \in DOMAIN Digit : Digit[d] \in Nat
  BY DEF Digit
<1>2. 0 \in D /\ StepOf(F, n, D)
  BY <1>1 DEF StepOf
<1>3. \A i \in 1..n, x \in D : F[i][x] = 10 * x + Digit[s[i]]
  OBVIOUS
<1> HIDE DEF D, F
<1>4. PICK v : Recursive(v, n, D, 0, F)
  BY <1>2, RecursionExists
<1>5. ASSUME NEW k \in 1..n
      PROVE  v[k] = 10 * v[k - 1] + Digit[s[k]]
  <2>1. v[k - 1] \in D
    BY <1>4 DEF Recursive
  <2>2. QED
    BY <1>3, <1>4, <2>1 DEF Recursive
<1>6. ASSUME NEW k \in 0..n
      PROVE  Number(s, k) = v[k]
  <2>1. Is(k, [i \in 0..k |-> v[i]])
    <3>1. \A i \in 0..k : v[i] = IF i = 0 THEN 0
                                 ELSE 10 * [j \in 0..k |-> v[j]][i - 1] + Digit[s[i]]
      BY <1>4, <1>5 DEF Recursive
    <3>2. QED
      BY <3>1
  <2> DEFINE w == CHOOSE u : Is(k, u)
  <2>2. Is(k, w)
    BY <2>1
  <2>3. Number(s, k) = w[k]
    BY DEF Number
  <2> HIDE DEF w
  <2>4. w[0] = 0
    BY <2>2
  <2>5. Follows(w, k, D, F)
    <3>1. \A i \in 1..k : w[i] = 10 * w[i - 1] + Digit[s[i]]
      BY <2>2
    <3>2. QED
      BY <1>3, <3>1 DEF Follows
  <2>6. w[k] = v[k]
    BY <1>4, <2>4, <2>5, RecursionAgrees
  <2>7. QED
    BY <2>3, <2>6
<1>7. Number(s, 0) = 0
  <2>1. 0 \in 0..n
    OBVIOUS
  <2>2. v[0] = 0
    BY <1>4 DEF Recursive
  <2>3. QED
    BY <1>6, <2>1, <2>2
<1>8. ASSUME NEW k \in 0..n
      PROVE  Number(s, k) \in Nat
  <2>1. v[k] \in Nat
    BY <1>4 DEF Recursive, D
  <2>2. QED
    BY <1>6, <2>1
<1>9. ASSUME NEW k \in 1..n
      PROVE  Number(s, k) = 10 * Number(s, k - 1) + Digit[s[k]]
  <2>1. k \in 0..n /\ k - 1 \in 0..n
    OBVIOUS
  <2>2. v[k] = 10 * v[k - 1] + Digit[s[k]]
    BY <1>5
  <2>3. Number(s, k) = v[k] /\ Number(s, k - 1) = v[k - 1]
    BY <1>6, <2>1
  <2>4. QED
    BY <2>2, <2>3
<1>10. QED
  BY <1>7, <1>8, <1>9

\* It depends on those digits only.
LEMMA NumberSame ==
    ASSUME NEW s, NEW t, NEW n \in Nat,
           \A i \in 1..n : s[i] \in DOMAIN Digit /\ t[i] = s[i]
    PROVE  Number(t, n) = Number(s, n)
<1> DEFINE S == {k \in Nat : k <= n => Number(t, k) = Number(s, k)}
<1>1. /\ Number(s, 0) = 0 /\ Number(t, 0) = 0
      /\ \A k \in 1..n :
            /\ Number(s, k) = 10 * Number(s, k - 1) + Digit[s[k]]
            /\ Number(t, k) = 10 * Number(t, k - 1) + Digit[t[k]]
  BY NumberDef
<1>2. 0 \in S
  BY <1>1
<1>3. ASSUME NEW k \in Nat, k \in S
      PROVE  k + 1 \in S
  <2>1. SUFFICES ASSUME k + 1 <= n
                 PROVE  Number(t, k + 1) = Number(s, k + 1)
    OBVIOUS
  <2>2. k + 1 \in 1..n /\ (k + 1) - 1 = k
    BY <2>1
  <2>3. Number(t, k) = Number(s, k)
    BY <1>3, <2>1
  <2>4. QED
    BY <1>1, <2>2, <2>3
<1>4. Nat \subseteq S
  <2> HIDE DEF S
  <2> QED
    BY <1>2, <1>3, SetInduction
<1>5. QED
  BY <1>4

\* A number without leading zeros has no more digits than it counts.
LEMMA NumberAtLeast ==
    ASSUME NEW s, NEW n \in Nat \ {0}, \A i \in 1..n : s[i] \in DOMAIN Digit,
           s[1] # "0"
    PROVE  Number(s, n) >= n
<1> DEFINE S == {k \in Nat : k <= n - 1 => Number(s, k + 1) >= k + 1}
<1>1. /\ Number(s, 0) = 0 /\ \A k \in 0..n : Number(s, k) \in Nat
      /\ \A k \in 1..n : Number(s, k) = 10 * Number(s, k - 1) + Digit[s[k]]
  BY NumberDef
<1>2. /\ \A d \in DOMAIN Digit : Digit[d] \in Nat
      /\ \A d \in DOMAIN Digit : d # "0" => Digit[d] >= 1
  BY DEF Digit
<1>3. 0 \in S
  <2>1. Number(s, 1) = 10 * Number(s, 0) + Digit[s[1]]
    BY <1>1
  <2>2. QED
    BY <1>1, <1>2, <2>1
<1>4. ASSUME NEW k \in Nat, k \in S
      PROVE  k + 1 \in S
  <2>1. SUFFICES ASSUME k + 2 <= n
                 PROVE  Number(s, k + 2) >= k + 2
    OBVIOUS
  <2>2. k + 2 \in 1..n /\ k + 1 \in 1..n /\ (k + 2) - 1 = k + 1
    BY <2>1
  <2>3. Number(s, k + 2) = 10 * Number(s, k + 1) + Digit[s[k + 2]]
    BY <1>1, <2>2
  <2>4. Digit[s[k + 2]] \in Nat /\ Number(s, k + 1) \in Nat
    BY <1>1, <1>2, <2>2
  <2>5. Number(s, k + 1) >= k + 1
    BY <1>4, <2>1
  <2>6. QED
    BY <2>3, <2>4, <2>5
<1>5. Nat \subseteq S
  <2> HIDE DEF S
  <2> QED
    BY <1>3, <1>4, SetInduction
<1>6. n - 1 \in S /\ (n - 1) + 1 = n
  BY <1>5
<1>7. QED
  BY <1>6

\* The first place of a byte, or 0.
LEMMA FindDef ==
    ASSUME NEW s, Len(s) \in Nat, NEW byte
    PROVE  /\ Find(s, byte) \in 0..Len(s)
           /\ Find(s, byte) # 0 => s[Find(s, byte)] = byte
           /\ \A i \in 1..Len(s) :
                 Find(s, byte) = 0 \/ i < Find(s, byte) => s[i] # byte
<1> DEFINE at == {i \in 1..Len(s) : s[i] = byte}
<1>1. CASE at = {}
  BY <1>1 DEF Find
<1>2. CASE at # {}
  <2>0. at \in SUBSET Nat
    OBVIOUS
  <2>1. PICK x \in at : \A y \in at : x <= y
    BY <1>2, <2>0, LeastNatural
  <2>2. Min(at) \in at /\ \A y \in at : Min(at) <= y
    <3> HIDE DEF at
    <3> QED
      BY <2>1 DEF Min
  <2>3. Find(s, byte) = Min(at)
    BY <1>2 DEF Find
  <2> HIDE DEF Min
  <2>4. QED
    BY <2>2, <2>3
<1>3. QED
  BY <1>1, <1>2

\* The first place is the first place.
LEMMA FindIs ==
    ASSUME NEW s, Len(s) \in Nat, NEW byte, NEW n \in 1..Len(s),
           s[n] = byte, \A i \in 1 .. n - 1 : s[i] # byte
    PROVE  Find(s, byte) = n
<1>1. /\ Find(s, byte) \in 0..Len(s)
      /\ Find(s, byte) # 0 => s[Find(s, byte)] = byte
      /\ Find(s, byte) = 0 \/ n < Find(s, byte) => s[n] # byte
  BY FindDef
<1>2. QED
  BY <1>1

\* There is none.
LEMMA FindNot ==
    ASSUME NEW s, Len(s) \in Nat, NEW byte,
           \A i \in 1..Len(s) : s[i] # byte
    PROVE  Find(s, byte) = 0
BY FindDef

\* Digits are no blanks.
LEMMA DigitsApart == "SP" \notin DOMAIN Digit /\ "NL" \notin DOMAIN Digit
BY DEF Digit

\* Messages are bytes.
LEMMA WireType ==
    ASSUME NEW msg \in Message
    PROVE  /\ Wire(msg) \in Seq(Byte)
           /\ msg.count \in Seq(Byte) /\ msg.payload \in Seq(Byte)
<1>1. DOMAIN Digit \subseteq Byte /\ "SP" \in Byte /\ "NL" \in Byte
  BY DEF Byte, Blank
<1>2. msg.count \in Seq(DOMAIN Digit) /\ msg.payload \in Seq(Byte)
      /\ msg.framing \in {"octet", "line", "bare"}
  BY DEF Message
<1>3. msg.count \in Seq(Byte)
  BY <1>1, <1>2
<1>4. Append(msg.count, "SP") \in Seq(Byte) /\ Append(msg.payload, "NL") \in Seq(Byte)
  BY <1>1, <1>2, <1>3
<1>5. Append(msg.count, "SP") \o msg.payload \in Seq(Byte)
  BY <1>2, <1>4
<1>6. QED
  BY <1>2, <1>3, <1>4, <1>5 DEF Wire

\* The bytes of one message more, in front.
LEMMA RestDef ==
    ASSUME NEW msgs \in Seq(Message)
    PROVE  /\ Rest(msgs, 0) = <<>>
           /\ \A k \in 0..Len(msgs) : Rest(msgs, k) \in Seq(Byte)
           /\ \A k \in 1..Len(msgs) :
                 Rest(msgs, k) =
                    Wire(msgs[Len(msgs) - k + 1]) \o Rest(msgs, k - 1)
<1> DEFINE n == Len(msgs)
           D == Seq(Byte)
           Longer(i, x) == Wire(msgs[n - i + 1]) \o x
           F == [i \in 1..n |-> [x \in D |-> Longer(i, x)]]
           Is(k, w) == w = [i \in 0..k |->
                              IF i = 0 THEN <<>> ELSE Longer(i, w[i - 1])]
<1>1. n \in Nat
  OBVIOUS
<1>2. <<>> \in D /\ StepOf(F, n, D)
  <2>1. ASSUME NEW i \in 1..n, NEW x \in D
        PROVE  Longer(i, x) \in D
    <3>1. msgs[n - i + 1] \in Message
      OBVIOUS
    <3>2. Wire(msgs[n - i + 1]) \in Seq(Byte)
      BY <3>1, WireType
    <3>3. QED
      BY <3>2
  <2>2. <<>> \in D
    OBVIOUS
  <2> HIDE DEF n, D, Longer
  <2>3. QED
    BY <2>1, <2>2 DEF StepOf
<1>3. \A i \in 1..n, x \in D : F[i][x] = Longer(i, x)
  <2> HIDE DEF n, D, Longer
  <2> QED
    OBVIOUS
<1> HIDE DEF n, D, F
<1>4. PICK v : Recursive(v, n, D, <<>>, F)
  BY <1>1, <1>2, RecursionExists
<1>5. ASSUME NEW k \in 1..n
      PROVE  v[k] = Longer(k, v[k - 1])
  <2>1. v[k - 1] \in D
    BY <1>1, <1>4 DEF Recursive
  <2>2. QED
    BY <1>3, <1>4, <2>1 DEF Recursive
<1>6. ASSUME NEW k \in 0..n
      PROVE  Rest(msgs, k) = v[k]
  <2>1. Is(k, [i \in 0..k |-> v[i]])
    <3> HIDE DEF Longer
    <3>1. \A i \in 0..k : v[i] = IF i = 0 THEN <<>>
                                 ELSE Longer(i, [j \in 0..k |-> v[j]][i - 1])
      BY <1>1, <1>4, <1>5 DEF Recursive
    <3>2. QED
      BY <3>1
  <2> DEFINE w == CHOOSE u : Is(k, u)
  <2>2. Is(k, w)
    BY <2>1
  <2>3. Rest(msgs, k) = w[k]
    BY DEF Rest, n
  <2> HIDE DEF w
  <2>4. w[0] = <<>>
    BY <2>2
  <2>5. Follows(w, k, D, F)
    <3> HIDE DEF Longer
    <3>1. \A i \in 1..k : w[i] = Longer(i, w[i - 1])
      BY <2>2
    <3>2. QED
      BY <1>1, <1>3, <3>1 DEF Follows
  <2>6. w[k] = v[k]
    BY <1>1, <1>4, <2>4, <2>5, RecursionAgrees
  <2>7. QED
    BY <2>3, <2>6
<1>7. \A k \in 0..n : v[k] \in D
  BY <1>4 DEF Recursive
<1>8. v[0] = <<>>
  BY <1>4 DEF Recursive
<1>9. \A k \in 1..n : k - 1 \in 0..n /\ k \in 0..n
  BY <1>1
<1>10. QED
  <2>1. Rest(msgs, 0) = <<>>
    BY <1>1, <1>6, <1>8
  <2>2. \A k \in 0..n : Rest(msgs, k) \in D
    BY <1>6, <1>7
  <2>3. \A k \in 1..n : Rest(msgs, k) = Wire(msgs[n - k + 1]) \o Rest(msgs, k - 1)
    BY <1>5, <1>6, <1>9
  <2>4. QED
    BY <2>1, <2>2, <2>3 DEF n, D

\* One message more is published.
LEMMA PayloadsDef ==
    ASSUME NEW msgs, NEW n \in Nat
    PROVE  /\ Payloads(msgs, 0) = <<>>
           /\ \A k \in 1..n :
                 Payloads(msgs, k) =
                    Publish(Payloads(msgs, k - 1), msgs[k].payload)
<1> DEFINE X == {Strip(msgs[i].payload) : i \in 1..n}
           D == Seq(X)
           F == [i \in 1..n |-> [x \in D |-> Publish(x, msgs[i].payload)]]
           Is(k, w) == w = [i \in 0..k |->
                              IF i = 0 THEN <<>>
                              ELSE Publish(w[i - 1], msgs[i].payload)]
<1>1. <<>> \in D /\ StepOf(F, n, D)
  <2>1. \A i \in 1..n : Strip(msgs[i].payload) \in X
    OBVIOUS
  <2> HIDE DEF X
  <2>2. \A i \in 1..n, x \in D : Publish(x, msgs[i].payload) \in D
    BY <2>1 DEF Publish
  <2>3. <<>> \in D
    OBVIOUS
  <2> HIDE DEF D
  <2>4. QED
    BY <2>2, <2>3 DEF StepOf
<1> HIDE DEF X, D
<1>2. \A i \in 1..n, x \in D : F[i][x] = Publish(x, msgs[i].payload)
  OBVIOUS
<1> HIDE DEF F
<1>3. PICK v : Recursive(v, n, D, <<>>, F)
  BY <1>1, RecursionExists
<1>4. ASSUME NEW k \in 1..n
      PROVE  v[k] = Publish(v[k - 1], msgs[k].payload)
  <2>1. v[k - 1] \in D
    BY <1>3 DEF Recursive
  <2>2. QED
    BY <1>2, <1>3, <2>1 DEF Recursive
<1>5. ASSUME NEW k \in 0..n
      PROVE  Payloads(msgs, k) = v[k]
  <2>1. Is(k, [i \in 0..k |-> v[i]])
    <3>1. \A i \in 0..k : v[i] = IF i = 0 THEN <<>>
                                 ELSE Publish([j \in 0..k |-> v[j]][i - 1], msgs[i].payload)
      BY <1>3, <1>4 DEF Recursive
    <3>2. QED
      BY <3>1
  <2> DEFINE w == CHOOSE u : Is(k, u)
  <2>2. Is(k, w)
    BY <2>1
  <2>3. Payloads(msgs, k) = w[k]
    BY DEF Payloads
  <2> HIDE DEF w
  <2>4. w[0] = <<>>
    BY <2>2
  <2>5. Follows(w, k, D, F)
    <3>1. \A i \in 1..k : w[i] = Publish(w[i - 1], msgs[i].payload)
      BY <2>2
    <3>2. QED
      BY <1>2, <3>1 DEF Follows
  <2>6. w[k] = v[k]
    <3> DEFINE base == <<>>
    <3>1. Recursive(v, n, D, base, F) /\ w[0] = base
      BY <1>3, <2>4
    <3> HIDE DEF Is, base
    <3>2. QED
      BY <2>5, <3>1, RecursionAgrees
  <2>7. QED
    BY <2>3, <2>6
<1>6. \A k \in 1..n : k - 1 \in 0..n /\ k \in 0..n
  OBVIOUS
<1>7. v[0] = <<>>
  BY <1>3 DEF Recursive
<1>8. QED
  BY <1>4, <1>5, <1>6, <1>7

\* A blank payload is not published.
LEMMA PublishNothing ==
    ASSUME NEW published
    PROVE  Publish(published, <<>>) = published
BY DEF Publish, Strip
-----------------------------------------------------------------------------
(* What the front of a buffer says of the message it starts with. *)

\* s and t agree as far as both go.
Agree(s, t) == \A i \in 1..Len(s) : i <= Len(t) => s[i] = t[i]

\* One stream taken apart at two places.
LEMMA TwoCuts ==
    ASSUME NEW S, NEW s \in Seq(S), NEW w \in Seq(S),
           NEW a \in Seq(S), NEW b \in Seq(S), s \o w = a \o b
    PROVE  /\ Agree(s, a)
           /\ Len(s) + Len(w) = Len(a) + Len(b)
           /\ Len(s) >= Len(a) =>
                 SubSeq(s, Len(a) + 1, Len(s)) \o w = b
<1>1. Len(s) + Len(w) = Len(a) + Len(b)
  <2>1. Len(s \o w) = Len(s) + Len(w) /\ Len(a \o b) = Len(a) + Len(b)
    BY ConcatProperties
  <2>2. QED
    BY <2>1
<1>2. \A i \in 1 .. Len(s) + Len(w) :
         /\ (s \o w)[i] = IF i <= Len(s) THEN s[i] ELSE w[i - Len(s)]
         /\ (a \o b)[i] = IF i <= Len(a) THEN a[i] ELSE b[i - Len(a)]
  BY <1>1, ConcatProperties
<1>3. Agree(s, a)
  <2>1. ASSUME NEW i \in 1..Len(s), i <= Len(a)
        PROVE  s[i] = a[i]
    BY <1>2, <2>1
  <2>2. QED
    BY <2>1 DEF Agree
<1>4. ASSUME Len(s) >= Len(a)
      PROVE  SubSeq(s, Len(a) + 1, Len(s)) \o w = b
  <2> DEFINE r == SubSeq(s, Len(a) + 1, Len(s))
  <2>1. /\ r \in Seq(S) /\ Len(r) = Len(s) - Len(a)
        /\ \A i \in 1..Len(r) : r[i] = s[i + Len(a)]
    BY <1>4
  <2> HIDE DEF r
  <2>2. r \o w \in Seq(S) /\ Len(r \o w) = Len(b)
    BY <1>1, <2>1
  <2>3. ASSUME NEW i \in 1..Len(b)
        PROVE  (r \o w)[i] = b[i]
    <3>1. i + Len(a) \in 1 .. Len(s) + Len(w)
      BY <1>1
    <3>2. b[i] = IF i + Len(a) <= Len(s) THEN s[i + Len(a)] ELSE w[(i + Len(a)) - Len(s)]
      BY <1>2, <3>1
    <3>3. (r \o w)[i] = IF i <= Len(r) THEN r[i] ELSE w[i - Len(r)]
      BY <1>1, <2>1
    <3>4. QED
      BY <2>1, <3>2, <3>3
  <2>4. r \o w = b
    BY <2>2, <2>3, SeqEqual
  <2>5. QED
    BY <2>4 DEF r
<1>5. QED
  BY <1>1, <1>3, <1>4

\* What SubSeq takes from the middle of a sequence.
LEMMA SliceIs ==
    ASSUME NEW S, NEW s \in Seq(S), NEW m \in Nat \ {0}, NEW n \in Nat,
           m <= n + 1, n <= Len(s)
    PROVE  /\ SubSeq(s, m, n) \in Seq(S)
           /\ Len(SubSeq(s, m, n)) = n - m + 1
           /\ \A i \in 1 .. Len(SubSeq(s, m, n)) :
                 SubSeq(s, m, n)[i] = s[m + i - 1]
  OBVIOUS

\* The header of a counted message is found once its space is there, and not
\* before.
LEMMA FrontOctet ==
    ASSUME NEW msg \in Message, msg.framing = "octet", msg.count # <<>>,
           msg.count[1] = "0" => Len(msg.count) = 1,
           Number(msg.count, Len(msg.count)) = Len(msg.payload),
           NEW s \in Seq(Byte), Agree(s, Wire(msg))
    PROVE  /\ Len(Wire(msg)) = Len(msg.count) + 1 + Len(msg.payload)
           /\ Len(msg.payload) = 0 => Len(msg.count) = 1
           /\ Len(msg.payload) # 0 => Len(msg.count) <= Len(msg.payload)
           /\ Len(s) <= Len(msg.count) =>
                 /\ ~OctetHeader(s)
                 /\ Find(s, "NL") = 0
                 /\ s = SubSeq(msg.count, 1, Len(s))
           /\ Len(s) > Len(msg.count) =>
                 /\ OctetHeader(s)
                 /\ Find(s, "SP") = Len(msg.count) + 1
                 /\ FrameLen(s) = Len(msg.payload)
           /\ Len(s) >= Len(Wire(msg)) =>
                 SubSeq(s, Len(msg.count) + 2, Len(Wire(msg))) = msg.payload
<1> DEFINE count == msg.count
           d == Len(count)
           payload == msg.payload
<1>1. count \in Seq(DOMAIN Digit) /\ payload \in Seq(Byte)
  BY DEF Message
<1>2. d \in Nat \ {0} /\ \A i \in 1..d : count[i] \in DOMAIN Digit
  BY <1>1
<1>3. /\ Len(Wire(msg)) = d + 1 + Len(payload)
      /\ \A i \in 1 .. d + 1 + Len(payload) :
            Wire(msg)[i] = IF i <= d THEN count[i]
                           ELSE IF i = d + 1 THEN "SP" ELSE payload[i - d - 1]
  <2> HIDE DEF count, payload
  <2>1. Wire(msg) = Append(count, "SP") \o payload
    BY DEF Wire, count, payload
  <2> DEFINE head == Append(count, "SP")
             U == DOMAIN Digit \cup {"SP"} \cup Byte
  <2>2. count \in Seq(U) /\ payload \in Seq(U) /\ "SP" \in U
    BY <1>1
  <2>3. /\ head \in Seq(U) /\ Len(head) = d + 1
        /\ \A i \in 1 .. d + 1 :
              head[i] = IF i <= d THEN count[i] ELSE "SP"
    <3> HIDE DEF U
    <3> QED
      BY <1>2, <2>2
  <2> HIDE DEF head, U
  <2>4. /\ Len(head \o payload) = Len(head) + Len(payload)
        /\ \A i \in 1 .. Len(head) + Len(payload) :
              (head \o payload)[i] = IF i <= Len(head) THEN head[i]
                                     ELSE payload[i - Len(head)]
    <3>1. head \in Seq(U) /\ payload \in Seq(U)
      BY <2>2, <2>3
    <3>2. QED
      BY <3>1, ConcatProperties
  <2>5. Wire(msg) = head \o payload
    BY <2>1 DEF head
  <2>6. Len(payload) \in Nat
    BY <1>1
  <2>7. QED
    BY <1>2, <2>3, <2>4, <2>5, <2>6
<1>4. Len(payload) = Number(count, d)
  OBVIOUS
<1>5. count[1] # "0" => Len(payload) >= d
  BY <1>2, <1>4, NumberAtLeast
<1>6. count[1] = "0" => d = 1
  OBVIOUS
<1>7. d = 1 => Len(payload) = Digit[count[1]]
  <2>1. ASSUME d = 1
        PROVE  Len(payload) = Digit[count[1]]
    <3>1. Number(count, 0) = 0 /\ Number(count, 1) = 10 * Number(count, 0) + Digit[count[1]]
      <4>1. /\ Number(count, 0) = 0
            /\ \A k \in 1..d : Number(count, k) = 10 * Number(count, k - 1) + Digit[count[k]]
        BY <1>2, NumberDef
      <4>2. 1 \in 1..d /\ 1 - 1 = 0
        BY <2>1
      <4>3. QED
        BY <4>1, <4>2
    <3>2. Digit[count[1]] \in Nat
      BY <1>2 DEF Digit
    <3>3. QED
      BY <1>4, <2>1, <3>1, <3>2
  <2>2. QED
    BY <2>1
<1>8. Digit["0"] = 0
  BY DEF Digit
<1> HIDE DEF count, payload, d
<1>9. Len(payload) \in Nat
  BY <1>1
<1>10. /\ Len(payload) = 0 => d = 1
       /\ Len(payload) # 0 => d <= Len(payload)
  BY <1>2, <1>5, <1>6, <1>7, <1>8, <1>9
<1>11. \A i \in 1..Len(s) : i <= Len(Wire(msg)) => s[i] = Wire(msg)[i]
  BY DEF Agree
<1>12. ASSUME Len(s) <= d
       PROVE  ~OctetHeader(s) /\ Find(s, "NL") = 0 /\ s = SubSeq(count, 1, Len(s))
  <2>1. \A i \in 1..Len(s) : s[i] = count[i] /\ s[i] \in DOMAIN Digit
    BY <1>2, <1>3, <1>9, <1>11, <1>12
  <2>2. Find(s, "NL") = 0 /\ Find(s, "SP") = 0
    BY <2>1, FindNot, DigitsApart
  <2>3. ~OctetHeader(s)
    BY <2>2 DEF OctetHeader
  <2>4. s = SubSeq(count, 1, Len(s))
    <3>1. Len(s) \in 0..d
      BY <1>2, <1>12
    <3>2. /\ SubSeq(count, 1, Len(s)) \in Seq(DOMAIN Digit)
          /\ Len(SubSeq(count, 1, Len(s))) = Len(s)
          /\ \A i \in 1..Len(s) : SubSeq(count, 1, Len(s))[i] = count[i]
      BY <1>1, <3>1 DEF d
    <3>3. s \in Seq(Byte) /\ SubSeq(count, 1, Len(s)) \in Seq(Byte)
      BY <3>2 DEF Byte
    <3>4. QED
      BY <2>1, <3>2, <3>3, SeqEqual
  <2>5. QED
    BY <2>2, <2>3, <2>4
<1>13. ASSUME Len(s) > d
       PROVE  OctetHeader(s) /\ Find(s, "SP") = d + 1 /\ FrameLen(s) = Len(payload)
  <2>1. \A i \in 1..d : s[i] = count[i] /\ s[i] \in DOMAIN Digit
    BY <1>2, <1>3, <1>9, <1>11, <1>13
  <2>2. d + 1 \in 1..Len(s) /\ s[d + 1] = "SP"
    <3>1. d + 1 \in 1 .. d + 1 + Len(payload) /\ d + 1 \in 1..Len(s)
      BY <1>2, <1>9, <1>13
    <3>2. Wire(msg)[d + 1] = "SP" /\ d + 1 <= Len(Wire(msg))
      BY <1>2, <1>3, <1>9, <3>1
    <3>3. QED
      BY <1>11, <3>1, <3>2
  <2>3. Find(s, "SP") = d + 1
    <3>1. \A i \in 1 .. (d + 1) - 1 : s[i] # "SP"
      BY <1>2, <2>1, DigitsApart
    <3>2. QED
      BY <2>2, <3>1, FindIs
  <2>4. OctetHeader(s)
    BY <1>2, <2>1, <2>3 DEF OctetHeader
  <2>5. FrameLen(s) = Number(s, d)
    BY <1>2, <2>3 DEF FrameLen
  <2>6. Number(s, d) = Number(count, d)
    BY <1>2, <2>1, NumberSame
  <2>7. QED
    BY <1>4, <2>3, <2>4, <2>5, <2>6
<1>14. ASSUME Len(s) >= Len(Wire(msg))
       PROVE  SubSeq(s, d + 2, Len(Wire(msg))) = payload
  <2> DEFINE r == SubSeq(s, d + 2, Len(Wire(msg)))
  <2>1. Len(Wire(msg)) = d + 1 + Len(payload)
    BY <1>3
  <2>2. /\ r \in Seq(Byte) /\ Len(r) = Len(payload)
        /\ \A i \in 1..Len(r) : r[i] = s[i + d + 1]
    <3>1. /\ d + 2 \in Nat \ {0} /\ Len(payload) \in Nat
          /\ Len(Wire(msg)) \in Nat /\ d + 2 <= Len(Wire(msg)) + 1
          /\ Len(Wire(msg)) - (d + 2) + 1 = Len(payload)
      <4>1. d \in Nat \ {0} /\ Len(payload) \in Nat
        BY <1>1, <1>2
      <4> HIDE DEF d, payload
      <4>2. QED
        BY <2>1, <4>1
    <3>2. /\ r \in Seq(Byte) /\ Len(r) = Len(payload)
          /\ \A i \in 1..Len(r) : r[i] = s[d + 2 + i - 1]
      BY <1>14, <3>1, SliceIs
    <3>3. \A i \in 1..Len(r) : d + 2 + i - 1 = i + d + 1
      BY <1>2, <3>1, <3>2
    <3>4. QED
      BY <3>2, <3>3
  <2> HIDE DEF r
  <2>3. \A i \in 1..Len(payload) : r[i] = payload[i]
    BY <1>2, <1>3, <1>9, <1>11, <1>14, <2>1, <2>2
  <2>4. r = payload
    BY <1>1, <2>2, <2>3, SeqEqual
  <2>5. QED
    BY <2>4 DEF r
<1>15. QED
  BY <1>3, <1>10, <1>12, <1>13, <1>14 DEF count, payload, d

\* What does not start with a count does not start to look like one, and a
\* line ends at its newline.
LEMMA FrontText ==
    ASSUME NEW msg \in Message, msg.framing \in {"line", "bare"},
           Find(msg.payload, "NL") = 0, ~OctetHeader(msg.payload),
           NEW s \in Seq(Byte), Agree(s, Wire(msg)),
           msg.framing = "bare" => Len(s) <= Len(msg.payload)
    PROVE  /\ ~OctetHeader(s)
           /\ Len(Wire(msg)) =
                 Len(msg.payload) + IF msg.framing = "line" THEN 1 ELSE 0
           /\ Len(s) <= Len(msg.payload) =>
                 /\ Find(s, "NL") = 0
                 /\ s = SubSeq(msg.payload, 1, Len(s))
           /\ Len(s) > Len(msg.payload) =>
                 /\ Find(s, "NL") = Len(msg.payload) + 1
                 /\ SubSeq(s, 1, Len(msg.payload)) = msg.payload
<1> DEFINE payload == msg.payload
           p == Len(payload)
<1>1. payload \in Seq(Byte) /\ p \in Nat
  BY DEF Message
<1>2. /\ Len(Wire(msg)) = p + IF msg.framing = "line" THEN 1 ELSE 0
      /\ \A i \in 1..p : Wire(msg)[i] = payload[i]
      /\ msg.framing = "line" => Wire(msg)[p + 1] = "NL"
  <2>1. CASE msg.framing = "line"
    <3>1. Wire(msg) = Append(payload, "NL")
      BY <2>1 DEF Wire
    <3>2. QED
      BY <1>1, <2>1, <3>1
  <2>2. CASE msg.framing = "bare"
    <3>1. Wire(msg) = payload
      BY <2>2 DEF Wire
    <3>2. QED
      BY <1>1, <2>2, <3>1
  <2>3. QED
    BY <2>1, <2>2
<1>3. Find(payload, "NL") = 0 /\ ~OctetHeader(payload)
  OBVIOUS
<1> HIDE DEF payload, p
<1>4. \A i \in 1..p : payload[i] # "NL"
  <2>1. Len(payload) = p /\ p \in Nat
    BY <1>1 DEF p
  <2>2. QED
    BY <1>3, <2>1, FindDef
<1>5. \A i \in 1..Len(s) : i <= p => s[i] = payload[i]
  BY <1>1, <1>2 DEF Agree
<1>6. Len(s) > p => s[p + 1] = "NL"
  <2>1. ASSUME Len(s) > p
        PROVE  s[p + 1] = "NL"
    <3>1. msg.framing = "line"
      BY <1>1, <2>1 DEF p, payload
    <3>2. p + 1 \in 1..Len(s) /\ p + 1 <= Len(Wire(msg))
      BY <1>1, <1>2, <2>1, <3>1
    <3>3. QED
      BY <1>2, <3>1, <3>2 DEF Agree
  <2>2. QED
    BY <2>1
<1>7. ~OctetHeader(s)
  <2>1. SUFFICES ASSUME OctetHeader(s)
                 PROVE  FALSE
    OBVIOUS
  <2> DEFINE space == Find(s, "SP")
  <2>2. /\ space > 1 /\ space \in 0..Len(s)
        /\ \A i \in 1 .. space - 1 : s[i] \in DOMAIN Digit
        /\ s[space] = "SP"
    <3>1. Len(s) \in Nat
      OBVIOUS
    <3>2. QED
      BY <2>1, <3>1, FindDef DEF OctetHeader
  <2> HIDE DEF space
  <2>3. space <= p
    <3>1. SUFFICES ASSUME space > p
                   PROVE  FALSE
      BY <1>1, <2>2
    <3>2. Len(s) > p
      BY <1>1, <2>2, <3>1
    <3>3. CASE space = p + 1
      BY <1>6, <2>2, <3>2, <3>3
    <3>4. CASE space > p + 1
      <4>1. p + 1 \in 1 .. space - 1
        BY <1>1, <2>2, <3>4
      <4>2. QED
        BY <1>6, <2>2, <3>2, <4>1, DigitsApart
    <3>5. QED
      BY <1>1, <2>2, <3>1, <3>3, <3>4
  <2>4. \A i \in 1..space : payload[i] = s[i]
    BY <1>1, <1>5, <2>2, <2>3
  <2>5. Find(payload, "SP") = space
    <3>1. \A i \in 1 .. space - 1 : payload[i] # "SP"
      <4>1. ASSUME NEW i \in 1 .. space - 1
            PROVE  payload[i] # "SP"
        <5>1. payload[i] = s[i] /\ s[i] \in DOMAIN Digit
          BY <2>2, <2>4
        <5>2. QED
          BY <5>1, DigitsApart
      <4>2. QED
        BY <4>1
    <3>2. space \in 1..Len(payload) /\ payload[space] = "SP"
      BY <1>1, <2>2, <2>3, <2>4 DEF p
    <3>3. Len(payload) \in Nat
      BY <1>1
    <3>4. QED
      BY <3>1, <3>2, <3>3, FindIs
  <2>6. OctetHeader(payload)
    BY <2>2, <2>4, <2>5 DEF OctetHeader
  <2>7. QED
    BY <1>3, <2>6
<1>8. ASSUME Len(s) <= p
      PROVE  Find(s, "NL") = 0 /\ s = SubSeq(payload, 1, Len(s))
  <2>1. \A i \in 1..Len(s) : s[i] = payload[i] /\ s[i] # "NL"
    BY <1>1, <1>4, <1>5, <1>8
  <2>2. Len(s) \in 0..Len(payload)
    BY <1>1, <1>8 DEF p
  <2>3. /\ SubSeq(payload, 1, Len(s)) \in Seq(Byte)
        /\ Len(SubSeq(payload, 1, Len(s))) = Len(s)
        /\ \A i \in 1..Len(s) : SubSeq(payload, 1, Len(s))[i] = payload[i]
    BY <1>1, <2>2
  <2>4. s = SubSeq(payload, 1, Len(s))
    BY <2>1, <2>3, SeqEqual
  <2>5. Find(s, "NL") = 0
    BY <2>1, <2>2, FindNot
  <2>6. QED
    BY <2>4, <2>5
<1>9. ASSUME Len(s) > p
      PROVE  Find(s, "NL") = p + 1 /\ SubSeq(s, 1, p) = payload
  <2>1. \A i \in 1..p : s[i] = payload[i] /\ s[i] # "NL"
    BY <1>1, <1>4, <1>5, <1>9
  <2>2. p + 1 \in 1..Len(s) /\ s[p + 1] = "NL" /\ (p + 1) - 1 = p /\ Len(s) \in Nat
    BY <1>1, <1>6, <1>9
  <2>3. Find(s, "NL") = p + 1
    BY <2>1, <2>2, FindIs
  <2>4. /\ SubSeq(s, 1, p) \in Seq(Byte) /\ Len(SubSeq(s, 1, p)) = p
        /\ \A i \in 1..p : SubSeq(s, 1, p)[i] = s[i]
    BY <1>1, <1>9
  <2>5. SubSeq(s, 1, p) = payload
    BY <1>1, <2>1, <2>4, SeqEqual DEF p
  <2>6. QED
    BY <2>3, <2>5
<1>10. QED
  BY <1>2, <1>7, <1>8, <1>9 DEF payload, p

\* There is nothing in an empty buffer.
LEMMA EmptyFront ==
    ~OctetHeader(<<>>) /\ Find(<<>>, "NL") = 0
<1>1. Len(<<>>) = 0
  OBVIOUS
<1>2. Find(<<>>, "NL") = 0 /\ Find(<<>>, "SP") = 0
  BY <1>1, FindDef
<1>3. QED
  BY <1>2 DEF OctetHeader

\* s and w hold what is left of the stream when k messages are cut off.
After(msgs, k, s, w) == s \o w = Rest(msgs, Len(msgs) - k)

\* What is read first belongs to the message after those that were cut off.
LEMMA NextMessage ==
    ASSUME NEW msgs, Sendable(msgs), NEW k \in 0..Len(msgs),
           NEW s \in Seq(Byte), NEW w \in Seq(Byte),
           After(msgs, k, s, w),
           k < Len(msgs) \/ s # <<>>
    PROVE  /\ k < Len(msgs)
           /\ msgs[k + 1] \in Message
           /\ Agree(s, Wire(msgs[k + 1]))
           /\ Len(s) >= Len(Wire(msgs[k + 1])) =>
                 After(msgs, k + 1,
                       SubSeq(s, Len(Wire(msgs[k + 1])) + 1, Len(s)), w)
           /\ Len(s) + Len(w) >= Len(Wire(msgs[k + 1]))
           /\ msgs[k + 1].framing = "bare" =>
                 /\ k + 1 = Len(msgs)
                 /\ Len(s) + Len(w) = Len(msgs[k + 1].payload)
<1> DEFINE n == Len(msgs)
           msg == msgs[k + 1]
<1>1. msgs \in Seq(Message) /\ n \in Nat
  BY DEF Sendable
<1>2. k # n
  <2>1. SUFFICES ASSUME k = n, s # <<>>
                 PROVE  FALSE
    BY <1>1
  <2>2. s \o w = <<>>
    BY <1>1, <2>1, RestDef DEF After
  <2>3. Len(s \o w) = Len(s) + Len(w)
    BY ConcatProperties
  <2>4. Len(s) \in Nat \ {0} /\ Len(w) \in Nat
    BY <2>1
  <2>5. Len(<<>>) = 0
    OBVIOUS
  <2>6. QED
    BY <2>2, <2>3, <2>4, <2>5
<1>3. k < n /\ n - k \in 1..n /\ n - (n - k) + 1 = k + 1 /\ (n - k) - 1 = n - (k + 1)
  BY <1>1, <1>2
<1>4. msg \in Message
  BY <1>1, <1>3
<1>5. Rest(msgs, n - k) = Wire(msg) \o Rest(msgs, n - (k + 1))
  BY <1>1, <1>3, RestDef
<1>6. Wire(msg) \in Seq(Byte) /\ Rest(msgs, n - (k + 1)) \in Seq(Byte)
  <2>1. n - (k + 1) \in 0..n
    BY <1>1, <1>3
  <2>2. QED
    BY <1>1, <1>4, <2>1, RestDef, WireType
<1>7. /\ Agree(s, Wire(msg))
      /\ Len(s) + Len(w) = Len(Wire(msg)) + Len(Rest(msgs, n - (k + 1)))
      /\ Len(s) >= Len(Wire(msg)) =>
            SubSeq(s, Len(Wire(msg)) + 1, Len(s)) \o w = Rest(msgs, n - (k + 1))
  <2>1. s \o w = Wire(msg) \o Rest(msgs, n - (k + 1))
    BY <1>5 DEF After
  <2> DEFINE first == Wire(msg)
             others == Rest(msgs, n - (k + 1))
  <2>2. first \in Seq(Byte) /\ others \in Seq(Byte) /\ s \o w = first \o others
    BY <1>6, <2>1
  <2> HIDE DEF n, msg, first, others
  <2>3. /\ Agree(s, first)
        /\ Len(s) + Len(w) = Len(first) + Len(others)
        /\ Len(s) >= Len(first) => SubSeq(s, Len(first) + 1, Len(s)) \o w = others
    BY <2>2, TwoCuts
  <2>4. QED
    BY <2>3 DEF first, others
<1>8. ASSUME msg.framing = "bare"
      PROVE  k + 1 = n /\ Len(s) + Len(w) = Len(msg.payload)
  <2>1. k + 1 = n
    <3>1. k + 1 \in DOMAIN msgs
      BY <1>1, <1>3
    <3>2. QED
      BY <1>8, <3>1 DEF Sendable
  <2>2. Len(Rest(msgs, n - (k + 1))) = 0
    <3>1. n - (k + 1) = 0
      BY <1>1, <2>1
    <3>2. Rest(msgs, 0) = <<>>
      BY <1>1, RestDef
    <3>3. QED
      BY <3>1, <3>2
  <2>3. Wire(msg) = msg.payload
    BY <1>8 DEF Wire
  <2>4. Len(msg.payload) \in Nat
    BY <1>4 DEF Message
  <2>5. Len(s) + Len(w) = Len(msg.payload) + 0
    BY <1>7, <2>2, <2>3
  <2>6. QED
    BY <2>1, <2>4, <2>5
<1>9. Len(Wire(msg)) \in Nat /\ Len(Rest(msgs, n - (k + 1))) \in Nat
  BY <1>6
<1>10. Len(s) + Len(w) >= Len(Wire(msg))
  BY <1>7, <1>9
<1>11. QED
  BY <1>3, <1>4, <1>7, <1>8, <1>10 DEF After

\* The parts of it that the thread tells apart.
LEMMA Front ==
    ASSUME NEW msgs, Sendable(msgs), NEW k \in 0..Len(msgs),
           NEW s \in Seq(Byte), NEW w \in Seq(Byte),
           After(msgs, k, s, w), s # <<>>,
           NEW msg, msg = msgs[k + 1]
    PROVE  /\ OctetHeader(s) =>
                 /\ msg.framing = "octet"
                 /\ Find(s, "SP") = Len(msg.count) + 1
                 /\ FrameLen(s) = Len(msg.payload)
                 /\ FrameEnd(s) = Len(Wire(msg))
                 /\ Len(s) >= Len(Wire(msg)) =>
                       SubSeq(s, Find(s, "SP") + 1, FrameEnd(s)) = msg.payload
           /\ ~OctetHeader(s) /\ Find(s, "NL") # 0 =>
                 /\ msg.framing = "line"
                 /\ Find(s, "NL") = Len(msg.payload) + 1
                 /\ Find(s, "NL") = Len(Wire(msg)) /\ Len(s) >= Len(Wire(msg))
                 /\ SubSeq(s, 1, Find(s, "NL") - 1) = msg.payload
           /\ ~OctetHeader(s) /\ Find(s, "NL") = 0 =>
                 /\ s \in Pieces(msg)
                 /\ Len(s) > MaxLine => TooLong(msg)
                 /\ Len(s) >= Len(Wire(msg)) => msg.framing = "bare"
<1>1. /\ k < Len(msgs) /\ msg \in Message /\ Agree(s, Wire(msg))
      /\ msg.framing = "bare" => Len(s) + Len(w) = Len(msg.payload)
  BY NextMessage
<1>2. /\ Len(s) \in Nat \ {0} /\ Len(w) \in Nat /\ MaxLine \in Nat \ {0}
      /\ Len(msg.payload) \in Nat /\ Len(msg.count) \in Nat
      /\ msg.framing \in {"octet", "line", "bare"}
  BY <1>1, FramingAssumption DEF Message
<1>3. CASE msg.framing = "octet"
  <2>1. /\ msg.count # <<>>
        /\ msg.count[1] = "0" => Len(msg.count) = 1
        /\ Number(msg.count, Len(msg.count)) = Len(msg.payload)
    <3>1. k + 1 \in DOMAIN msgs
      BY <1>1 DEF Sendable
    <3>2. QED
      BY <1>3, <3>1 DEF Sendable
  <2>2. /\ Len(Wire(msg)) = Len(msg.count) + 1 + Len(msg.payload)
        /\ Len(msg.payload) = 0 => Len(msg.count) = 1
        /\ Len(msg.payload) # 0 => Len(msg.count) <= Len(msg.payload)
        /\ Len(s) <= Len(msg.count) =>
              /\ ~OctetHeader(s)
              /\ Find(s, "NL") = 0
              /\ s = SubSeq(msg.count, 1, Len(s))
        /\ Len(s) > Len(msg.count) =>
              /\ OctetHeader(s)
              /\ Find(s, "SP") = Len(msg.count) + 1
              /\ FrameLen(s) = Len(msg.payload)
        /\ Len(s) >= Len(Wire(msg)) =>
              SubSeq(s, Len(msg.count) + 2, Len(Wire(msg))) = msg.payload
    BY <1>1, <1>3, <2>1, FrontOctet
  <2>3. CASE Len(s) <= Len(msg.count)
    <3>1. s \in Pieces(msg)
      <4>1. Len(s) \in 1..Len(msg.count)
        BY <1>2, <2>3
      <4>2. QED
        BY <1>3, <2>2, <2>3, <4>1 DEF Pieces
    <3>2. Len(s) > MaxLine => TooLong(msg)
      <4>1. SUFFICES ASSUME Len(s) > MaxLine
                     PROVE  Len(msg.payload) > MaxLine
        BY DEF TooLong
      <4>2. Len(msg.payload) # 0 /\ Len(msg.count) <= Len(msg.payload)
        <5>1. Len(msg.count) # 1
          <6> DEFINE d == Len(msg.count)
                     l == Len(s)
          <6>1. /\ d \in Nat /\ l \in Nat /\ l <= d /\ l > MaxLine
                /\ MaxLine \in Nat \ {0}
            BY <1>2, <2>3, <4>1
          <6> HIDE DEF d, l
          <6>2. d # 1
            BY <6>1
          <6>3. QED
            BY <6>2 DEF d
        <5>2. QED
          BY <2>2, <5>1
      <4>3. QED
        BY <1>2, <2>3, <4>1, <4>2
    <3>3. ~(Len(s) >= Len(Wire(msg)))
      <4> DEFINE d == Len(msg.count)
                 l == Len(s)
                 p == Len(msg.payload)
      <4>1. /\ d \in Nat /\ l \in Nat /\ p \in Nat /\ l <= d
            /\ Len(Wire(msg)) = d + 1 + p
        BY <1>2, <2>2, <2>3
      <4> HIDE DEF d, l, p
      <4>2. ~(l >= Len(Wire(msg)))
        BY <4>1
      <4>3. QED
        BY <4>2 DEF l
    <3>4. ~OctetHeader(s) /\ Find(s, "NL") = 0
      BY <2>2, <2>3
    <3>5. QED
      BY <3>1, <3>2, <3>3, <3>4
  <2>4. CASE Len(s) > Len(msg.count)
    <3>1. /\ OctetHeader(s)
          /\ Find(s, "SP") = Len(msg.count) + 1
          /\ FrameLen(s) = Len(msg.payload)
      BY <2>2, <2>4
    <3>2. FrameEnd(s) = Len(msg.count) + 1 + Len(msg.payload)
      BY <3>1 DEF FrameEnd
    <3>3. Find(s, "SP") + 1 = Len(msg.count) + 2
      BY <1>2, <3>1
    <3>4. QED
      BY <1>3, <2>2, <3>1, <3>2, <3>3
  <2>5. QED
    BY <1>2, <2>3, <2>4
<1>4. CASE msg.framing \in {"line", "bare"}
  <2>1. Find(msg.payload, "NL") = 0 /\ ~OctetHeader(msg.payload)
    <3>1. k + 1 \in DOMAIN msgs
      BY <1>1 DEF Sendable
    <3>2. msg.framing # "octet"
      BY <1>4
    <3>3. QED
      BY <3>1, <3>2 DEF Sendable
  <2>2. msg.framing = "bare" => Len(s) <= Len(msg.payload)
    BY <1>1, <1>2
  <2>3. /\ ~OctetHeader(s)
        /\ Len(Wire(msg)) =
              Len(msg.payload) + IF msg.framing = "line" THEN 1 ELSE 0
        /\ Len(s) <= Len(msg.payload) =>
              /\ Find(s, "NL") = 0
              /\ s = SubSeq(msg.payload, 1, Len(s))
        /\ Len(s) > Len(msg.payload) =>
              /\ Find(s, "NL") = Len(msg.payload) + 1
              /\ SubSeq(s, 1, Len(msg.payload)) = msg.payload
    BY <1>1, <1>4, <2>1, <2>2, FrontText
  <2>4. CASE Len(s) <= Len(msg.payload)
    <3>1. s \in Pieces(msg)
      <4>1. Len(s) \in 1..Len(msg.payload) /\ msg.framing # "octet"
        BY <1>2, <1>4, <2>4
      <4>2. QED
        BY <2>3, <2>4, <4>1 DEF Pieces
    <3>2. Len(s) > MaxLine => TooLong(msg)
      BY <1>2, <2>4 DEF TooLong
    <3>3. Len(s) >= Len(Wire(msg)) => msg.framing = "bare"
      <4>1. msg.framing = "line" => Len(Wire(msg)) = Len(msg.payload) + 1
        BY <2>3
      <4>2. msg.framing = "line" => ~(Len(s) >= Len(Wire(msg)))
        BY <1>2, <2>4, <4>1
      <4>3. QED
        BY <1>4, <4>2
    <3>4. QED
      BY <2>3, <2>4, <3>1, <3>2, <3>3
  <2>5. CASE Len(s) > Len(msg.payload)
    <3>1. msg.framing = "line"
      BY <1>2, <1>4, <2>2, <2>5
    <3>2. /\ Find(s, "NL") = Len(msg.payload) + 1 /\ Find(s, "NL") # 0
          /\ Find(s, "NL") = Len(Wire(msg)) /\ Len(s) >= Len(Wire(msg))
          /\ Find(s, "NL") - 1 = Len(msg.payload)
      BY <1>2, <2>3, <2>5, <3>1
    <3>3. QED
      BY <2>3, <2>5, <3>1, <3>2
  <2>6. QED
    BY <1>2, <2>4, <2>5
<1>5. QED
  BY <1>2, <1>3, <1>4

-----------------------------------------------------------------------------
(* What a turn of the loop does to what is left of the stream. *)

\* A counted message that is cut off is the next one.
LEMMA TakeFrame ==
    ASSUME NEW msgs, Sendable(msgs), NEW k \in 0..Len(msgs),
           NEW s \in Seq(Byte), NEW w \in Seq(Byte), After(msgs, k, s, w),
           OctetHeader(s), FrameLen(s) <= MaxLine, Len(s) >= FrameEnd(s)
    PROVE  /\ k < Len(msgs) /\ ~TooLong(msgs[k + 1])
           /\ SubSeq(s, Find(s, "SP") + 1, FrameEnd(s)) = msgs[k + 1].payload
           /\ After(msgs, k + 1, SubSeq(s, FrameEnd(s) + 1, Len(s)), w)
<1>1. s # <<>>
  BY EmptyFront
<1>2. /\ k < Len(msgs) /\ msgs[k + 1] \in Message
      /\ Len(s) >= Len(Wire(msgs[k + 1])) =>
            After(msgs, k + 1,
                  SubSeq(s, Len(Wire(msgs[k + 1])) + 1, Len(s)), w)
  BY <1>1, NextMessage
<1>3. /\ FrameLen(s) = Len(msgs[k + 1].payload)
      /\ FrameEnd(s) = Len(Wire(msgs[k + 1]))
      /\ Len(s) >= Len(Wire(msgs[k + 1])) =>
            SubSeq(s, Find(s, "SP") + 1, FrameEnd(s)) = msgs[k + 1].payload
  BY <1>1, Front
<1>4. ~TooLong(msgs[k + 1])
  <2>1. Len(msgs[k + 1].payload) \in Nat /\ MaxLine \in Nat
    BY <1>2, FramingAssumption DEF Message
  <2>2. Len(msgs[k + 1].payload) <= MaxLine
    BY <1>3
  <2>3. QED
    BY <2>1, <2>2 DEF TooLong
<1>5. QED
  BY <1>2, <1>3, <1>4

\* So is a line.
LEMMA TakeLine ==
    ASSUME NEW msgs, Sendable(msgs), NEW k \in 0..Len(msgs),
           NEW s \in Seq(Byte), NEW w \in Seq(Byte), After(msgs, k, s, w),
           ~OctetHeader(s), Find(s, "NL") \in 1 .. MaxLine + 1
    PROVE  /\ k < Len(msgs) /\ ~TooLong(msgs[k + 1])
           /\ SubSeq(s, 1, Find(s, "NL") - 1) = msgs[k + 1].payload
           /\ After(msgs, k + 1, SubSeq(s, Find(s, "NL") + 1, Len(s)), w)
<1>1. MaxLine \in Nat /\ Find(s, "NL") # 0
  BY FramingAssumption
<1>2. s # <<>>
  BY <1>1, EmptyFront
<1>3. /\ k < Len(msgs) /\ msgs[k + 1] \in Message
      /\ Len(s) >= Len(Wire(msgs[k + 1])) =>
            After(msgs, k + 1,
                  SubSeq(s, Len(Wire(msgs[k + 1])) + 1, Len(s)), w)
  BY <1>2, NextMessage
<1>4. /\ Find(s, "NL") = Len(msgs[k + 1].payload) + 1
      /\ Find(s, "NL") = Len(Wire(msgs[k + 1]))
      /\ Len(s) >= Len(Wire(msgs[k + 1]))
      /\ SubSeq(s, 1, Find(s, "NL") - 1) = msgs[k + 1].payload
  BY <1>1, <1>2, Front
<1>5. ~TooLong(msgs[k + 1])
  <2>1. Len(msgs[k + 1].payload) \in Nat
    BY <1>3 DEF Message
  <2>2. Len(msgs[k + 1].payload) + 1 <= MaxLine + 1
    BY <1>4
  <2>3. QED
    BY <1>1, <2>1, <2>2 DEF TooLong
<1>6. QED
  BY <1>3, <1>4, <1>5

\* A connection is dropped for a message that is too long only.
LEMMA TakeNone ==
    ASSUME NEW msgs, Sendable(msgs), NEW k \in 0..Len(msgs),
           NEW s \in Seq(Byte), NEW w \in Seq(Byte), After(msgs, k, s, w),
           Oversized(s) \/ (Incomplete(s) /\ Overflows(s))
    PROVE  k < Len(msgs) /\ TooLong(msgs[k + 1])
<1>1. MaxLine \in Nat \ {0} /\ Len(s) \in Nat
  BY FramingAssumption
<1>2. s # <<>>
  <2>1. SUFFICES ASSUME s = <<>>
                 PROVE  FALSE
    OBVIOUS
  <2>2. Len(s) = 0 /\ ~OctetHeader(s) /\ Find(s, "NL") = 0
    BY <2>1, EmptyFront
  <2>3. QED
    BY <1>1, <2>2 DEF Oversized, Overflows
<1>3. k < Len(msgs) /\ msgs[k + 1] \in Message
  BY <1>2, NextMessage
<1>4. Len(msgs[k + 1].payload) \in Nat
  BY <1>3 DEF Message
<1>5. CASE OctetHeader(s)
  <2>1. FrameLen(s) = Len(msgs[k + 1].payload)
    BY <1>2, <1>5, Front
  <2>2. FrameLen(s) > MaxLine
    BY <1>5 DEF Oversized, Incomplete, Overflows
  <2>3. QED
    BY <1>3, <2>1, <2>2 DEF TooLong
<1>6. CASE ~OctetHeader(s) /\ Find(s, "NL") # 0
  <2>1. Find(s, "NL") = Len(msgs[k + 1].payload) + 1
    BY <1>2, <1>6, Front
  <2>2. Find(s, "NL") > MaxLine + 1
    BY <1>6 DEF Oversized, Incomplete, PendingOctetFrame
  <2>3. QED
    BY <1>1, <1>3, <1>4, <2>1, <2>2 DEF TooLong
<1>7. CASE ~OctetHeader(s) /\ Find(s, "NL") = 0
  <2>1. Len(s) > MaxLine
    BY <1>1, <1>7 DEF Oversized, Overflows
  <2>2. Len(s) > MaxLine => TooLong(msgs[k + 1])
    BY <1>2, <1>7, Front
  <2>3. QED
    BY <1>3, <2>1, <2>2
<1>8. QED
  BY <1>5, <1>6, <1>7

\* What is kept is a piece of the next message; at the end of the stream it is
\* nothing, or the last message without its newline.
LEMMA LeftOver ==
    ASSUME NEW msgs, Sendable(msgs), NEW k \in 0..Len(msgs),
           NEW s \in Seq(Byte), NEW w \in Seq(Byte), After(msgs, k, s, w),
           Incomplete(s), ~Overflows(s)
    PROVE  /\ \/ PendingOctetFrame(s)
              \/ s = <<>>
              \/ k < Len(msgs) /\ s \in Pieces(msgs[k + 1])
           /\ w = <<>> =>
                 \/ k = Len(msgs) /\ s = <<>>
                 \/ /\ k + 1 = Len(msgs) /\ ~TooLong(msgs[k + 1])
                    /\ s = msgs[k + 1].payload
                    /\ ~PendingOctetFrame(s) /\ Len(s) <= MaxLine
<1>1. MaxLine \in Nat \ {0} /\ Len(s) \in Nat /\ Len(msgs) \in Nat
  BY FramingAssumption DEF Sendable
<1>2. \/ PendingOctetFrame(s)
      \/ s = <<>>
      \/ k < Len(msgs) /\ s \in Pieces(msgs[k + 1])
  <2>1. SUFFICES ASSUME ~PendingOctetFrame(s), s # <<>>
                 PROVE  k < Len(msgs) /\ s \in Pieces(msgs[k + 1])
    OBVIOUS
  <2>2. ~OctetHeader(s) /\ Find(s, "NL") = 0
    BY <2>1 DEF Incomplete
  <2>3. QED
    BY <2>1, <2>2, Front, NextMessage
<1>3. ASSUME w = <<>>, k < Len(msgs)
      PROVE  /\ k + 1 = Len(msgs) /\ ~TooLong(msgs[k + 1])
             /\ s = msgs[k + 1].payload
             /\ ~PendingOctetFrame(s) /\ Len(s) <= MaxLine
  <2> DEFINE msg == msgs[k + 1]
  <2>1. /\ msg \in Message /\ Agree(s, Wire(msg))
        /\ Len(s) + Len(w) >= Len(Wire(msg))
        /\ msg.framing = "bare" => k + 1 = Len(msgs) /\ Len(s) + Len(w) = Len(msg.payload)
    BY <1>3, NextMessage
  <2>2. /\ Len(msg.payload) \in Nat /\ Len(msg.count) \in Nat
        /\ msg.payload \in Seq(Byte) /\ Len(Wire(msg)) \in Nat
        /\ msg.framing \in {"octet", "line", "bare"}
    BY <2>1, WireType DEF Message
  <2>3. Len(w) = 0
    BY <1>3
  <2> HIDE DEF msg
  <2>4. Len(s) >= Len(Wire(msg))
    BY <1>1, <2>1, <2>3
  <2>5. s # <<>>
    <3>1. Len(Wire(msg)) # 0
      <4>1. k + 1 \in DOMAIN msgs
        BY <1>3 DEF Sendable
      <4>2. CASE msg.framing = "octet"
        <5>1. msg.count \in Seq(Byte) /\ "SP" \in Byte
          BY <2>1, WireType DEF Byte, Blank
        <5>2. Append(msg.count, "SP") \in Seq(Byte) /\ Len(Append(msg.count, "SP")) = Len(msg.count) + 1
          BY <5>1
        <5>3. Len(Wire(msg)) = Len(msg.count) + 1 + Len(msg.payload)
          BY <2>2, <4>2, <5>2, ConcatProperties DEF Wire
        <5>4. \A d, p \in Nat : d + 1 + p # 0
          OBVIOUS
        <5>5. QED
          BY <2>2, <5>3, <5>4
      <4>3. CASE msg.framing = "line"
        <5>1. Wire(msg) = Append(msg.payload, "NL")
          BY <4>3 DEF Wire
        <5>2. QED
          BY <2>2, <5>1
      <4>4. CASE msg.framing = "bare"
        <5>1. msg.payload # <<>>
          BY <4>1, <4>4 DEF Sendable, msg
        <5>2. Wire(msg) = msg.payload
          BY <4>4 DEF Wire
        <5>3. Len(msg.payload) # 0
          BY <2>2, <5>1
        <5>4. QED
          BY <5>2, <5>3
      <4>5. QED
        BY <2>2, <4>2, <4>3, <4>4
    <3>2. QED
      BY <2>2, <2>4, <3>1
  <2>6. ~OctetHeader(s) /\ Find(s, "NL") = 0
    <3>1. OctetHeader(s) => FrameEnd(s) = Len(Wire(msg))
      BY <2>5, Front DEF msg
    <3>2. ~PendingOctetFrame(s)
      BY <1>1, <2>2, <2>4, <3>1 DEF PendingOctetFrame
    <3>3. QED
      BY <3>2 DEF Incomplete
  <2>7. msg.framing = "bare"
    BY <2>4, <2>5, <2>6, Front DEF msg
  <2>8. k + 1 = Len(msgs) /\ Len(s) = Len(msg.payload)
    BY <1>1, <2>1, <2>2, <2>3, <2>7
  <2>9. s = msg.payload
    <3>1. Wire(msg) = msg.payload
      BY <2>7 DEF Wire
    <3>2. \A i \in 1..Len(s) : s[i] = msg.payload[i]
      BY <1>1, <2>1, <2>8, <3>1 DEF Agree
    <3>3. QED
      BY <2>2, <2>8, <3>2, SeqEqual
  <2>10. ~PendingOctetFrame(s) /\ Len(s) <= MaxLine
    BY <1>1, <2>6 DEF PendingOctetFrame, Overflows
  <2>11. ~TooLong(msg)
    BY <1>1, <2>8, <2>10 DEF TooLong
  <2>12. QED
    BY <2>8, <2>9, <2>10, <2>11 DEF msg
<1>4. ASSUME k = Len(msgs)
      PROVE  s = <<>>
  BY <1>1, <1>4, NextMessage
<1>5. QED
  BY <1>1, <1>2, <1>3, <1>4

-----------------------------------------------------------------------------
(* One client: its messages, the state of its connection, the buffer, the  *)
(* bytes not received, and what is published. *)

Ok(msgs, state, s, w, published) ==
    /\ state \in {"new", "rejected"} => s = <<>>
    /\ state = "open" => Incomplete(s) /\ ~Overflows(s)
    /\ state \in {"new", "rejected", "open", "cutting"} =>
          \E k \in 0..Len(msgs) :
              /\ Short(msgs, k)
              /\ published = Payloads(msgs, k)
              /\ After(msgs, k, s, w)
    /\ state = "closed" =>
          Short(msgs, Len(msgs)) /\ published = Payloads(msgs, Len(msgs))
    /\ state = "dropped" =>
          \E k \in 1..Len(msgs) :
              /\ Short(msgs, k - 1) /\ TooLong(msgs[k])
              /\ published = Payloads(msgs, k - 1)
    /\ state = "cut" =>
          \E k \in 0..Len(msgs) :
              /\ Short(msgs, k)
              /\ \/ published = Payloads(msgs, k)
                 \/ /\ k < Len(msgs)
                    /\ \E piece \in Pieces(msgs[k + 1]) :
                          published = Publish(Payloads(msgs, k), piece)

ClientOk(c) == Ok(script[c], conn[c], buffer[c], wire[c], out[c])

\* It says what the invariants say.
LEMMA ClientsOk ==
    ProgressInv /\ FramesExact <=> \A c \in Clients : ClientOk(c)
<1>1. ASSUME ProgressInv, FramesExact, NEW c \in Clients
      PROVE  ClientOk(c)
  BY <1>1 DEF ProgressInv, FramesExact, Progress, ClientOk, Ok, After
<1>2. ASSUME \A c \in Clients : ClientOk(c)
      PROVE  ProgressInv /\ FramesExact
  <2>1. ASSUME NEW c \in Clients
        PROVE  /\ conn[c] \in {"new", "rejected"} => buffer[c] = <<>>
               /\ conn[c] = "open" =>
                     Incomplete(buffer[c]) /\ ~Overflows(buffer[c])
               /\ conn[c] \in {"new", "rejected", "open", "cutting"} =>
                     \E k \in 0..Len(script[c]) : Progress(c, k)
    <3>1. ClientOk(c)
      BY <1>2
    <3>2. QED
      BY <3>1 DEF ClientOk, Ok, Progress, After
  <2>2. ProgressInv
    BY <2>1 DEF ProgressInv
  <2>3. FramesExact
    BY <1>2 DEF ClientOk, Ok, FramesExact
  <2>4. QED
    BY <2>2, <2>3
<1>3. QED
  BY <1>1, <1>2

\* One message more.
LEMMA ShortMore ==
    ASSUME NEW msgs, NEW k \in Nat, Short(msgs, k), ~TooLong(msgs[k + 1])
    PROVE  Short(msgs, k + 1)
<1>1. ASSUME NEW i \in 1 .. k + 1
      PROVE  ~TooLong(msgs[i])
  <2>1. i \in 1..k \/ i = k + 1
    OBVIOUS
  <2>2. QED
    BY <2>1 DEF Short
<1>2. QED
  BY <1>1 DEF Short

\* What one message more is published as.
LEMMA PayloadsMore ==
    ASSUME NEW msgs, NEW k \in Nat
    PROVE  Payloads(msgs, k + 1) = Publish(Payloads(msgs, k), msgs[k + 1].payload)
<1>1. k + 1 \in 1 .. k + 1 /\ (k + 1) - 1 = k /\ k + 1 \in Nat
  OBVIOUS
<1>2. QED
  BY <1>1, PayloadsDef

\* The steps of one client, by what they do to it.
LEMMA FirstOk ==
    ASSUME NEW msgs, Sendable(msgs)
    PROVE  Ok(msgs, "new", <<>>, Rest(msgs, Len(msgs)), <<>>)
<1>1. msgs \in Seq(Message) /\ Len(msgs) \in Nat
  BY DEF Sendable
<1>2. Short(msgs, 0)
  BY DEF Short
<1>3. Payloads(msgs, 0) = <<>>
  <2>1. 0 \in Nat
    OBVIOUS
  <2>2. QED
    BY <2>1, PayloadsDef
<1>4. After(msgs, 0, <<>>, Rest(msgs, Len(msgs)))
  <2>1. Rest(msgs, Len(msgs)) \in Seq(Byte)
    BY <1>1, RestDef
  <2>2. <<>> \o Rest(msgs, Len(msgs)) = Rest(msgs, Len(msgs)) /\ Len(msgs) - 0 = Len(msgs)
    BY <1>1, <2>1, ConcatEmptySeq
  <2>3. QED
    BY <2>2 DEF After
<1>5. 0 \in 0..Len(msgs)
  BY <1>1
<1>6. QED
  BY <1>2, <1>3, <1>4, <1>5 DEF Ok

\* The thread starts with an empty buffer.
LEMMA AcceptOk ==
    ASSUME NEW msgs, NEW s, NEW w, NEW published,
           NEW state \in {"new", "rejected"}, Ok(msgs, state, s, w, published)
    PROVE  /\ Ok(msgs, "open", s, w, published)
           /\ Ok(msgs, "rejected", s, w, published)
<1>1. s = <<>>
  BY DEF Ok
<1>2. Incomplete(s) /\ ~Overflows(s)
  <2>1. ~OctetHeader(s) /\ Find(s, "NL") = 0 /\ Len(s) = 0
    BY <1>1, EmptyFront
  <2>2. MaxLine \in Nat
    BY FramingAssumption
  <2>3. QED
    BY <2>1, <2>2 DEF Incomplete, Overflows
<1>3. QED
  BY <1>1, <1>2 DEF Ok

\* Concatenation is associative.
LEMMA Regrouped ==
    ASSUME NEW S, NEW x \in Seq(S), NEW y \in Seq(S), NEW z \in Seq(S)
    PROVE  (x \o y) \o z = x \o (y \o z)
<1> DEFINE l == (x \o y) \o z
           r == x \o (y \o z)
<1>1. Len(x) \in Nat /\ Len(y) \in Nat /\ Len(z) \in Nat
  OBVIOUS
<1>2. /\ x \o y \in Seq(S) /\ Len(x \o y) = Len(x) + Len(y)
      /\ \A i \in 1 .. Len(x) + Len(y) :
            (x \o y)[i] = IF i <= Len(x) THEN x[i] ELSE y[i - Len(x)]
  BY ConcatProperties
<1>3. /\ y \o z \in Seq(S) /\ Len(y \o z) = Len(y) + Len(z)
      /\ \A i \in 1 .. Len(y) + Len(z) :
            (y \o z)[i] = IF i <= Len(y) THEN y[i] ELSE z[i - Len(y)]
  BY ConcatProperties
<1>4. /\ l \in Seq(S) /\ Len(l) = Len(x) + Len(y) + Len(z)
      /\ \A i \in 1 .. Len(x) + Len(y) + Len(z) :
            l[i] = IF i <= Len(x) + Len(y) THEN (x \o y)[i]
                   ELSE z[i - (Len(x) + Len(y))]
  BY <1>1, <1>2, ConcatProperties
<1>5. /\ r \in Seq(S) /\ Len(r) = Len(x) + (Len(y) + Len(z))
      /\ \A i \in 1 .. Len(x) + (Len(y) + Len(z)) :
            r[i] = IF i <= Len(x) THEN x[i] ELSE (y \o z)[i - Len(x)]
  BY <1>1, <1>3, ConcatProperties
<1> HIDE DEF l, r
<1>6. ASSUME NEW i \in 1..Len(l)
      PROVE  l[i] = r[i]
  <2>1. i \in 1 .. Len(x) + Len(y) + Len(z)
    BY <1>4
  <2>2. CASE i <= Len(x)
    <3>1. i \in 1 .. Len(x) + Len(y) /\ i <= Len(x) + Len(y)
      BY <1>1, <2>1, <2>2
    <3>2. l[i] = (x \o y)[i]
      BY <1>4, <2>1, <3>1
    <3>3. (x \o y)[i] = x[i]
      BY <1>2, <2>2, <3>1
    <3>4. r[i] = x[i]
      BY <1>1, <1>5, <2>1, <2>2
    <3>5. QED
      BY <3>2, <3>3, <3>4
  <2>3. CASE i > Len(x) /\ i <= Len(x) + Len(y)
    <3>1. i - Len(x) \in 1 .. Len(y) + Len(z) /\ i - Len(x) <= Len(y)
      BY <1>1, <2>1, <2>3
    <3>2. l[i] = y[i - Len(x)]
      BY <1>1, <1>2, <1>4, <2>1, <2>3
    <3>3. r[i] = (y \o z)[i - Len(x)]
      BY <1>1, <1>5, <2>1, <2>3
    <3>4. QED
      BY <1>3, <3>1, <3>2, <3>3
  <2>4. CASE i > Len(x) + Len(y)
    <3>1. /\ i - Len(x) \in 1 .. Len(y) + Len(z) /\ ~(i - Len(x) <= Len(y))
          /\ (i - Len(x)) - Len(y) = i - (Len(x) + Len(y))
      BY <1>1, <2>1, <2>4
    <3>2. l[i] = z[i - (Len(x) + Len(y))]
      BY <1>1, <1>4, <2>1, <2>4
    <3>3. r[i] = (y \o z)[i - Len(x)]
      BY <1>1, <1>5, <2>1, <2>4
    <3>4. QED
      BY <1>3, <3>1, <3>2, <3>3
  <2>5. QED
    BY <1>1, <2>1, <2>2, <2>3, <2>4
<1>7. l = r
  BY <1>1, <1>4, <1>5, <1>6, SeqEqual
<1>8. QED
  BY <1>7 DEF l, r

LEMMA BytesRegrouped ==
    \A x, y, z \in Seq(Byte) : (x \o y) \o z = x \o (y \o z)
BY Regrouped

\* A chunk moves bytes from the wire to the buffer.
LEMMA RecvOk ==
    ASSUME NEW msgs, NEW s \in Seq(Byte), NEW w \in Seq(Byte), NEW published,
           Ok(msgs, "open", s, w, published), NEW n \in 1..Len(w)
    PROVE  Ok(msgs, "cutting", s \o SubSeq(w, 1, n), SubSeq(w, n + 1, Len(w)),
              published)
<1> DEFINE a == SubSeq(w, 1, n)
           b == SubSeq(w, n + 1, Len(w))
<1>1. a \in Seq(Byte) /\ b \in Seq(Byte)
  OBVIOUS
<1>2. (s \o a) \o b = s \o w
  <2>1. a \o b = w
    <3>1. Len(a) = n /\ Len(b) = Len(w) - n /\ n \in Nat
      OBVIOUS
    <3>2. \A i \in 1..n : a[i] = w[i]
      OBVIOUS
    <3>3. \A i \in 1 .. Len(w) - n : b[i] = w[i + n]
      OBVIOUS
    <3> HIDE DEF a, b
    <3>4. Len(w) \in Nat /\ Len(a) + Len(b) = Len(w)
      BY <3>1
    <3>5. a \o b \in Seq(Byte) /\ Len(a \o b) = Len(w)
      BY <1>1, <3>4, ConcatProperties
    <3>6. \A i \in 1..Len(w) :
             (a \o b)[i] = IF i <= Len(a) THEN a[i] ELSE b[i - Len(a)]
      BY <1>1, <3>4, ConcatProperties
    <3>7. ASSUME NEW i \in 1..Len(w)
          PROVE  (a \o b)[i] = w[i]
      <4>1. CASE i <= n
        BY <3>1, <3>2, <3>6, <4>1
      <4>2. CASE i > n
        <5>1. i - n \in 1 .. Len(w) - n /\ (i - n) + n = i
          BY <3>1, <3>4, <4>2
        <5>2. (a \o b)[i] = b[i - n]
          BY <3>1, <3>6, <4>2
        <5>3. QED
          BY <3>3, <5>1, <5>2
      <4>3. QED
        BY <3>1, <4>1, <4>2
    <3>8. QED
      BY <3>5, <3>7, SeqEqual
  <2> HIDE DEF a, b
  <2>2. (s \o a) \o b = s \o (a \o b)
    <3>1. s \in Seq(Byte) /\ a \in Seq(Byte) /\ b \in Seq(Byte)
      BY <1>1
    <3>2. QED
      BY <3>1, BytesRegrouped
  <2>3. QED
    BY <2>1, <2>2
<1> HIDE DEF a, b
<1>3. PICK k \in 0..Len(msgs) : /\ Short(msgs, k)
                               /\ published = Payloads(msgs, k)
                               /\ After(msgs, k, s, w)
  BY DEF Ok
<1>4. After(msgs, k, s \o a, b)
  BY <1>2, <1>3 DEF After
<1>5. QED
  BY <1>3, <1>4 DEF Ok, a, b

\* A complete message is cut off.
LEMMA CutOk ==
    ASSUME NEW msgs, Sendable(msgs), NEW s \in Seq(Byte), NEW w \in Seq(Byte),
           NEW published, Ok(msgs, "cutting", s, w, published)
    PROVE  /\ OctetHeader(s) /\ FrameLen(s) <= MaxLine /\ Len(s) >= FrameEnd(s) =>
                 Ok(msgs, "cutting", SubSeq(s, FrameEnd(s) + 1, Len(s)), w,
                    Publish(published,
                            SubSeq(s, Find(s, "SP") + 1, FrameEnd(s))))
           /\ ~OctetHeader(s) /\ Find(s, "NL") \in 1 .. MaxLine + 1 =>
                 Ok(msgs, "cutting", SubSeq(s, Find(s, "NL") + 1, Len(s)), w,
                    Publish(published, SubSeq(s, 1, Find(s, "NL") - 1)))
<1>1. PICK k \in 0..Len(msgs) : /\ Short(msgs, k)
                               /\ published = Payloads(msgs, k)
                               /\ After(msgs, k, s, w)
  BY DEF Ok
<1>2. Len(msgs) \in Nat
  BY DEF Sendable
<1>3. ASSUME k < Len(msgs), ~TooLong(msgs[k + 1]), NEW t,
             After(msgs, k + 1, t, w)
      PROVE  Ok(msgs, "cutting", t, w,
                Publish(published, msgs[k + 1].payload))
  <2>1. k + 1 \in 0..Len(msgs)
    BY <1>2, <1>3
  <2>2. Short(msgs, k + 1)
    BY <1>1, <1>3, ShortMore
  <2>3. Publish(published, msgs[k + 1].payload) = Payloads(msgs, k + 1)
    BY <1>1, PayloadsMore
  <2>4. QED
    BY <1>3, <2>1, <2>2, <2>3 DEF Ok
<1>4. CASE OctetHeader(s) /\ FrameLen(s) <= MaxLine /\ Len(s) >= FrameEnd(s)
  <2>1. /\ k < Len(msgs) /\ ~TooLong(msgs[k + 1])
        /\ SubSeq(s, Find(s, "SP") + 1, FrameEnd(s)) = msgs[k + 1].payload
        /\ After(msgs, k + 1, SubSeq(s, FrameEnd(s) + 1, Len(s)), w)
    BY <1>1, <1>4, TakeFrame
  <2>2. QED
    BY <1>3, <1>4, <2>1
<1>5. CASE ~OctetHeader(s) /\ Find(s, "NL") \in 1 .. MaxLine + 1
  <2>1. /\ k < Len(msgs) /\ ~TooLong(msgs[k + 1])
        /\ SubSeq(s, 1, Find(s, "NL") - 1) = msgs[k + 1].payload
        /\ After(msgs, k + 1, SubSeq(s, Find(s, "NL") + 1, Len(s)), w)
    BY <1>1, <1>5, TakeLine
  <2>2. QED
    BY <1>3, <1>5, <2>1
<1>6. QED
  BY <1>4, <1>5

\* A message that is too long ends it.
LEMMA DropOk ==
    ASSUME NEW msgs, Sendable(msgs), NEW s \in Seq(Byte), NEW w \in Seq(Byte),
           NEW published, Ok(msgs, "cutting", s, w, published),
           Oversized(s) \/ (Incomplete(s) /\ Overflows(s))
    PROVE  Ok(msgs, "dropped", <<>>, w, published)
<1>1. PICK k \in 0..Len(msgs) : /\ Short(msgs, k)
                               /\ published = Payloads(msgs, k)
                               /\ After(msgs, k, s, w)
  BY DEF Ok
<1>2. k < Len(msgs) /\ TooLong(msgs[k + 1])
  BY <1>1, TakeNone
<1>3. k + 1 \in 1..Len(msgs) /\ (k + 1) - 1 = k
  <2>1. Len(msgs) \in Nat
    BY DEF Sendable
  <2>2. QED
    BY <1>2, <2>1
<1>4. QED
  BY <1>1, <1>2, <1>3 DEF Ok

\* Nothing is complete.
LEMMA KeepOk ==
    ASSUME NEW msgs, NEW s, NEW w, NEW published,
           Ok(msgs, "cutting", s, w, published),
           Incomplete(s), ~Overflows(s)
    PROVE  Ok(msgs, "open", s, w, published)
BY DEF Ok

\* The thread ends with what is left of the buffer.
LastOf(s, published) ==
    IF PendingOctetFrame(s) \/ Len(s) > MaxLine THEN published
    ELSE Publish(published, s)

\* The thread ends with a message, a piece of one, or nothing.
LEMMA LeaveOk ==
    ASSUME NEW msgs, Sendable(msgs), NEW s \in Seq(Byte), NEW w \in Seq(Byte),
           NEW published, NEW state \in {"open", "cutting"},
           Ok(msgs, state, s, w, published),
           Incomplete(s), ~Overflows(s)
    PROVE  /\ Ok(msgs, "cut", <<>>, w, LastOf(s, published))
           /\ w = <<>> => Ok(msgs, "closed", <<>>, w, LastOf(s, published))
<1>1. PICK k \in 0..Len(msgs) : /\ Short(msgs, k)
                               /\ published = Payloads(msgs, k)
                               /\ After(msgs, k, s, w)
  BY DEF Ok
<1>2. /\ \/ PendingOctetFrame(s)
         \/ s = <<>>
         \/ k < Len(msgs) /\ s \in Pieces(msgs[k + 1])
      /\ w = <<>> =>
            \/ k = Len(msgs) /\ s = <<>>
            \/ /\ k + 1 = Len(msgs) /\ ~TooLong(msgs[k + 1])
               /\ s = msgs[k + 1].payload
               /\ ~PendingOctetFrame(s) /\ Len(s) <= MaxLine
  BY <1>1, LeftOver
<1>3. s = <<>> => LastOf(s, published) = published
  BY PublishNothing DEF LastOf
<1>4. Ok(msgs, "cut", <<>>, w, LastOf(s, published))
  <2>1. \/ LastOf(s, published) = published
        \/ /\ k < Len(msgs) /\ s \in Pieces(msgs[k + 1])
           /\ LastOf(s, published) = Publish(published, s)
    BY <1>2, <1>3 DEF LastOf
  <2>2. QED
    BY <1>1, <2>1 DEF Ok
<1>5. ASSUME w = <<>>
      PROVE  Ok(msgs, "closed", <<>>, w, LastOf(s, published))
  <2>1. CASE k = Len(msgs) /\ s = <<>>
    BY <1>1, <1>3, <2>1 DEF Ok
  <2>2. CASE /\ k + 1 = Len(msgs) /\ ~TooLong(msgs[k + 1])
             /\ s = msgs[k + 1].payload
             /\ ~PendingOctetFrame(s) /\ Len(s) <= MaxLine
    <3>1. LastOf(s, published) = Publish(published, s)
      <4>1. ~(Len(s) > MaxLine)
        <5>1. Len(s) \in Nat /\ MaxLine \in Nat
          BY FramingAssumption
        <5>2. QED
          BY <2>2, <5>1
      <4>2. QED
        BY <2>2, <4>1 DEF LastOf
    <3>2. Publish(published, s) = Payloads(msgs, k + 1)
      BY <1>1, <2>2, PayloadsMore
    <3>3. Short(msgs, k + 1)
      BY <1>1, <2>2, ShortMore
    <3>4. QED
      BY <2>2, <3>1, <3>2, <3>3 DEF Ok
  <2>3. QED
    BY <1>2, <1>5, <2>1, <2>2
<1>6. QED
  BY <1>4, <1>5

-----------------------------------------------------------------------------
(* Types, and the slots. *)

\* Types of what is published.
LEMMA StripType ==
    ASSUME NEW s \in Seq(Byte)
    PROVE  Strip(s) \in Seq(Byte)
<1> DEFINE text == {i \in DOMAIN s : s[i] \notin Blank}
<1>1. CASE text = {}
  BY <1>1 DEF Strip
<1>2. CASE text # {}
  <2>1. text \in SUBSET Nat /\ text \subseteq 1..Len(s) /\ Len(s) \in Nat
    OBVIOUS
  <2>2. Min(text) \in text
    <3>1. \E x \in text : \A y \in text : x <= y
      BY <1>2, <2>1, LeastNatural
    <3> HIDE DEF text
    <3>2. QED
      BY <3>1 DEF Min
  <2>3. Max(text) \in text
    <3> DEFINE above == {Len(s) - x : x \in text}
    <3>1. above \in SUBSET Nat /\ above # {}
      BY <1>2, <2>1
    <3>2. PICK a \in above : \A b \in above : a <= b
      BY <3>1, LeastNatural
    <3>3. PICK x \in text : a = Len(s) - x
      BY <3>2
    <3>4. ASSUME NEW y \in text
          PROVE  x >= y
      <4>1. Len(s) - y \in above
        OBVIOUS
      <4>2. Len(s) - x <= Len(s) - y
        BY <3>2, <3>3, <4>1
      <4>3. x \in Nat /\ y \in Nat /\ Len(s) \in Nat
        BY <2>1
      <4>4. QED
        BY <4>2, <4>3
    <3> HIDE DEF text
    <3>5. QED
      BY <3>3, <3>4 DEF Max
  <2>4. Min(text) \in 1..Len(s) /\ Max(text) \in 1..Len(s)
    BY <2>1, <2>2, <2>3
  <2>5. Strip(s) = SubSeq(s, Min(text), Max(text))
    BY <1>2 DEF Strip
  <2>6. \A i \in 1..Len(s), j \in 1..Len(s) : SubSeq(s, i, j) \in Seq(Byte)
    OBVIOUS
  <2> HIDE DEF text
  <2>7. QED
    BY <2>4, <2>5, <2>6
<1>3. QED
  BY <1>1, <1>2

\* And of what was published.
LEMMA PublishType ==
    ASSUME NEW s \in Seq(Byte), NEW published \in Seq(Seq(Byte))
    PROVE  Publish(published, s) \in Seq(Seq(Byte))
BY StripType DEF Publish

FramingTyped ==
    /\ script \in [Clients -> Scripts]
    /\ conn \in [Clients -> {"new", "rejected", "open", "cutting", "closed",
                             "cut", "dropped"}]
    /\ wire \in [Clients -> Seq(Byte)]
    /\ buffer \in [Clients -> Seq(Byte)]
    /\ out \in [Clients -> Seq(Seq(Byte))]
    /\ slots \in Nat /\ IsFiniteSet(Served)
    /\ slots + Cardinality(Served) =
          IF listening THEN MaxConnections ELSE MaxConnections - 1
    /\ listening \in BOOLEAN /\ stop_event \in BOOLEAN
    /\ failures \in 0..MaxFailures

\* At first.
LEMMA InitFraming ==
    FramingInit => FramingTyped /\ \A c \in Clients : ClientOk(c)
<1> SUFFICES ASSUME FramingInit
             PROVE  FramingTyped /\ \A c \in Clients : ClientOk(c)
  OBVIOUS
<1>1. \A c \in Clients : Sendable(script[c]) /\ Len(script[c]) \in Nat
  BY FramingAssumption DEF FramingInit, Sendable
<1>2. \A c \in Clients : Rest(script[c], Len(script[c])) \in Seq(Byte)
  <2>1. ASSUME NEW c \in Clients
        PROVE  Rest(script[c], Len(script[c])) \in Seq(Byte)
    <3>1. script[c] \in Seq(Message) /\ Len(script[c]) \in 0..Len(script[c])
      BY <1>1 DEF Sendable
    <3>2. QED
      BY <3>1, RestDef
  <2>2. QED
    BY <2>1
<1>3. Served = {}
  BY DEF FramingInit, Served
<1>4. IsFiniteSet(Served) /\ Cardinality(Served) = 0
  BY <1>3, FS_EmptySet
<1>5. FramingTyped
  <2>1. /\ script \in [Clients -> Scripts]
        /\ wire \in [Clients -> Seq(Byte)]
        /\ buffer \in [Clients -> Seq(Byte)]
        /\ out \in [Clients -> Seq(Seq(Byte))]
    BY <1>2 DEF FramingInit
  <2>2. slots = MaxConnections /\ MaxConnections \in Nat /\ MaxFailures \in Nat
    BY FramingAssumption DEF FramingInit
  <2>3. /\ slots \in Nat /\ slots + 0 = MaxConnections
        /\ listening = TRUE /\ stop_event = FALSE /\ failures \in 0..MaxFailures
    BY <2>2 DEF FramingInit
  <2>4. conn \in [Clients -> {"new", "rejected", "open", "cutting", "closed",
                             "cut", "dropped"}]
    BY DEF FramingInit
  <2>5. QED
    BY <1>4, <2>1, <2>3, <2>4 DEF FramingTyped
<1>6. ASSUME NEW c \in Clients
      PROVE  ClientOk(c)
  <2>1. /\ conn[c] = "new" /\ buffer[c] = <<>> /\ out[c] = <<>>
        /\ wire[c] = Rest(script[c], Len(script[c]))
    BY DEF FramingInit
  <2>2. QED
    BY <1>1, <2>1, FirstOk DEF ClientOk
<1>7. QED
  BY <1>5, <1>6

\* A connection that takes a slot, and one that gives it back.
LEMMA SlotTaken ==
    ASSUME FramingTyped, NEW c \in Clients, conn[c] \in {"new", "rejected"},
           conn' = Put(conn, c, "open")
    PROVE  /\ IsFiniteSet(Served')
           /\ Cardinality(Served') = Cardinality(Served) + 1
<1>1. Served' = Served \cup {c} /\ c \notin Served
  BY DEF Served, Put, FramingTyped
<1>2. QED
  BY <1>1, FS_AddElement DEF FramingTyped

\* A thread that ends gives its slot back.
LEMMA SlotReleased ==
    ASSUME FramingTyped, NEW c \in Clients, conn[c] \in {"open", "cutting"},
           NEW state \in {"closed", "cut", "dropped"},
           conn' = Put(conn, c, state)
    PROVE  /\ IsFiniteSet(Served')
           /\ Cardinality(Served') = Cardinality(Served) - 1
<1>1. Served' = Served \ {c} /\ c \in Served
  BY DEF Served, Put, FramingTyped
<1>2. QED
  BY <1>1, FS_RemoveElement DEF FramingTyped

\* Any other step of a connection leaves the slots alone.
LEMMA SlotKept ==
    ASSUME FramingTyped, NEW c \in Clients, NEW state,
           \/ conn[c] \in {"open", "cutting"} /\ state \in {"open", "cutting"}
           \/ conn[c] \in {"new", "rejected"} /\ state = "rejected",
           conn' = Put(conn, c, state)
    PROVE  Served' = Served
BY DEF Served, Put, FramingTyped

\* Every step keeps the types and the account of the slots.
LEMMA StepFramingTyped ==
    ASSUME FramingTyped, FramingNext
    PROVE  FramingTyped'
<1>1. /\ slots \in Nat /\ Cardinality(Served) \in Nat /\ MaxConnections \in Nat
      /\ failures \in Nat /\ MaxFailures \in Nat /\ IsFiniteSet(Served)
  BY FramingAssumption, FS_CardinalityType DEF FramingTyped
<1>2. ASSUME NEW c \in Clients, Accept(c)
      PROVE  FramingTyped'
  <2>1. IsFiniteSet(Served') /\ Cardinality(Served') = Cardinality(Served) + 1
    BY <1>2, SlotTaken DEF Accept
  <2>2. /\ slots' \in Nat
        /\ slots' + Cardinality(Served') = slots + Cardinality(Served)
    BY <1>1, <1>2, <2>1 DEF Accept
  <2>3. QED
    BY <1>2, <2>1, <2>2 DEF Accept, FramingTyped, Put
<1>3. ASSUME NEW c \in Clients, Reject(c)
      PROVE  FramingTyped'
  <2>1. Served' = Served
    BY <1>3, SlotKept DEF Reject
  <2>2. QED
    BY <1>3, <2>1 DEF Reject, FramingTyped, Put
<1>4. ASSUME NEW c \in Clients, ThreadNotStarted(c)
      PROVE  FramingTyped'
  <2>1. Served' = Served
    BY <1>4, SlotKept DEF ThreadNotStarted
  <2>2. /\ slots' \in Nat /\ listening' = FALSE
        /\ slots' + Cardinality(Served') = MaxConnections - 1
    BY <1>1, <1>4, <2>1 DEF ThreadNotStarted, FramingTyped
  <2>3. failures' \in 0..MaxFailures
    BY <1>1, <1>4 DEF ThreadNotStarted, Failure
  <2>4. QED
    BY <1>1, <1>4, <2>1, <2>2, <2>3 DEF ThreadNotStarted, FramingTyped, Put
<1>5. ASSUME NEW c \in Clients, Recv(c)
      PROVE  FramingTyped'
  <2>1. Served' = Served
    BY <1>5, SlotKept DEF Recv
  <2>2. PICK n \in 1..Len(wire[c]) :
           /\ buffer' = Put(buffer, c, buffer[c] \o SubSeq(wire[c], 1, n))
           /\ wire' = Put(wire, c, SubSeq(wire[c], n + 1, Len(wire[c])))
    BY <1>5 DEF Recv
  <2>3. buffer[c] \in Seq(Byte) /\ wire[c] \in Seq(Byte)
    BY DEF FramingTyped
  <2>4. /\ SubSeq(wire[c], 1, n) \in Seq(Byte)
        /\ SubSeq(wire[c], n + 1, Len(wire[c])) \in Seq(Byte)
    BY <2>3
  <2>5. buffer[c] \o SubSeq(wire[c], 1, n) \in Seq(Byte)
    BY <2>3, <2>4, ConcatProperties
  <2>6. /\ wire' \in [Clients -> Seq(Byte)]
        /\ buffer' \in [Clients -> Seq(Byte)]
    BY <2>2, <2>4, <2>5 DEF FramingTyped, Put
  <2>7. QED
    BY <1>5, <2>1, <2>6 DEF Recv, FramingTyped, Put
<1>6. ASSUME NEW c \in Clients, NEW n \in Nat, NEW payload \in Seq(Byte),
             Cut(c, n, payload)
      PROVE  FramingTyped'
  <2>1. buffer[c] \in Seq(Byte) /\ out[c] \in Seq(Seq(Byte))
    BY DEF FramingTyped
  <2>2. SubSeq(buffer[c], n + 1, Len(buffer[c])) \in Seq(Byte)
    BY <2>1
  <2>3. Publish(out[c], payload) \in Seq(Seq(Byte))
    BY <2>1, PublishType
  <2>4. /\ buffer' \in [Clients -> Seq(Byte)]
        /\ out' \in [Clients -> Seq(Seq(Byte))]
    BY <1>6, <2>2, <2>3 DEF Cut, FramingTyped, Put
  <2>5. Served' = Served
    BY <1>6 DEF Cut, Served
  <2>6. QED
    BY <1>6, <2>4, <2>5 DEF Cut, FramingTyped
<1>7. ASSUME NEW c \in Clients, CutFrame(c)
      PROVE  FramingTyped'
  <2> DEFINE s == buffer[c]
  <2>1. s \in Seq(Byte) /\ Len(s) \in Nat
    BY DEF FramingTyped
  <2>2. /\ Find(s, "SP") \in Nat /\ Find(s, "SP") > 1
        /\ \A i \in 1 .. Find(s, "SP") - 1 : s[i] \in DOMAIN Digit
    BY <1>7, <2>1, FindDef DEF CutFrame, OctetHeader
  <2>3. FrameLen(s) \in Nat
    <3> DEFINE d == Find(s, "SP") - 1
    <3>1. d \in Nat /\ d \in 0..d /\ \A i \in 1..d : s[i] \in DOMAIN Digit
      BY <2>2
    <3> HIDE DEF d
    <3>2. Number(s, d) \in Nat
      BY <3>1, NumberDef
    <3>3. QED
      BY <3>2 DEF FrameLen, d
  <2>4. FrameEnd(s) \in Nat
    BY <2>2, <2>3 DEF FrameEnd
  <2>5. SubSeq(s, Find(s, "SP") + 1, FrameEnd(s)) \in Seq(Byte)
    <3>1. FrameEnd(s) <= Len(s) /\ Find(s, "SP") + 1 \in Nat \ {0}
      BY <1>7, <2>1, <2>2, <2>4 DEF CutFrame
    <3> HIDE DEF s
    <3>2. \A i \in Nat \ {0}, j \in Nat : j <= Len(s) => SubSeq(s, i, j) \in Seq(Byte)
      BY <2>1
    <3>3. QED
      BY <2>4, <3>1, <3>2
  <2>6. Cut(c, FrameEnd(s), SubSeq(s, Find(s, "SP") + 1, FrameEnd(s)))
    BY <1>7 DEF CutFrame
  <2> HIDE DEF s
  <2>7. QED
    BY <1>6, <2>4, <2>5, <2>6
<1>8. ASSUME NEW c \in Clients, CutLine(c)
      PROVE  FramingTyped'
  <2> DEFINE s == buffer[c]
  <2>1. s \in Seq(Byte) /\ Len(s) \in Nat
    BY DEF FramingTyped
  <2>2. Find(s, "NL") \in Nat /\ Find(s, "NL") <= Len(s)
    BY <2>1, FindDef
  <2>3. SubSeq(s, 1, Find(s, "NL") - 1) \in Seq(Byte)
    <3> HIDE DEF s
    <3>1. \A i \in Nat : i <= Len(s) => SubSeq(s, 1, i - 1) \in Seq(Byte)
      BY <2>1
    <3>2. QED
      BY <2>2, <3>1
  <2>4. Cut(c, Find(s, "NL"), SubSeq(s, 1, Find(s, "NL") - 1))
    BY <1>8 DEF CutLine
  <2> HIDE DEF s
  <2>5. QED
    BY <1>6, <2>2, <2>3, <2>4
<1>9. ASSUME NEW c \in Clients, Drop(c)
      PROVE  FramingTyped'
  <2>1. IsFiniteSet(Served') /\ Cardinality(Served') = Cardinality(Served) - 1
    BY <1>9, SlotReleased DEF Drop
  <2>2. /\ slots' \in Nat
        /\ slots' + Cardinality(Served') = slots + Cardinality(Served)
    BY <1>1, <1>9, <2>1 DEF Drop, Release
  <2>3. QED
    BY <1>9, <2>1, <2>2 DEF Drop, FramingTyped, Put
<1>10. ASSUME NEW c \in Clients, KeepReading(c)
       PROVE  FramingTyped'
  <2>1. Served' = Served
    BY <1>10, SlotKept DEF KeepReading, Keeps
  <2>2. QED
    BY <1>10, <2>1 DEF KeepReading, FramingTyped, Put
<1>11. ASSUME NEW c \in Clients, NEW how \in {"closed", "cut"},
              conn[c] \in {"open", "cutting"}, Leave(c, how),
              failures' \in 0..MaxFailures
       PROVE  FramingTyped'
  <2>1. IsFiniteSet(Served') /\ Cardinality(Served') = Cardinality(Served) - 1
    BY <1>11, SlotReleased DEF Leave
  <2>2. /\ slots' \in Nat
        /\ slots' + Cardinality(Served') = slots + Cardinality(Served)
    BY <1>1, <1>11, <2>1 DEF Leave, Release
  <2>3. Remainder(c) \in Seq(Seq(Byte))
    <3>1. buffer[c] \in Seq(Byte) /\ out[c] \in Seq(Seq(Byte))
      BY DEF FramingTyped
    <3>2. QED
      BY <3>1, PublishType DEF Remainder
  <2>4. QED
    BY <1>11, <2>1, <2>2, <2>3 DEF Leave, FramingTyped, Put
<1>12. ASSUME NEW c \in Clients, EndOfStream(c) \/ Stopped(c)
       PROVE  FramingTyped'
  BY <1>11, <1>12 DEF EndOfStream, Stopped, Keeps, FramingTyped
<1>13. ASSUME NEW c \in Clients, Reset(c)
       PROVE  FramingTyped'
  <2>1. failures' \in 0..MaxFailures
    BY <1>1, <1>13 DEF Reset, Failure
  <2>2. QED
    BY <1>11, <1>13, <2>1 DEF Reset
<1>14. ASSUME SetStopEvent
       PROVE  FramingTyped'
  <2>1. Served' = Served
    BY <1>14 DEF SetStopEvent, Served
  <2>2. QED
    BY <1>14, <2>1 DEF SetStopEvent, FramingTyped
<1>15. QED
  BY <1>2, <1>3, <1>4, <1>5, <1>7, <1>8, <1>9, <1>10, <1>12, <1>13, <1>14
  DEF FramingNext, Serve

-----------------------------------------------------------------------------
(* A step keeps every client's messages whole and in order. *)

\* A step of client c is no step of another.
LEMMA OneClient ==
    ASSUME FramingTyped, \A d \in Clients : ClientOk(d), NEW c \in Clients,
           NEW state, NEW s, NEW w, NEW published,
           script' = script, conn' = Put(conn, c, state),
           buffer' = Put(buffer, c, s), wire' = Put(wire, c, w),
           out' = Put(out, c, published),
           Ok(script[c], state, s, w, published)
    PROVE  \A d \in Clients : ClientOk(d)'
<1>1. /\ DOMAIN conn = Clients /\ DOMAIN buffer = Clients
      /\ DOMAIN wire = Clients /\ DOMAIN out = Clients
  BY DEF FramingTyped
<1>2. ASSUME NEW d \in Clients
      PROVE  Ok(script'[d], conn'[d], buffer'[d], wire'[d], out'[d])
  <2>1. CASE d = c
    <3>1. /\ conn'[d] = state /\ buffer'[d] = s /\ wire'[d] = w
          /\ out'[d] = published /\ script'[d] = script[c]
      BY <1>1, <2>1 DEF Put
    <3>2. QED
      BY <3>1
  <2>2. CASE d # c
    <3>1. /\ conn'[d] = conn[d] /\ buffer'[d] = buffer[d] /\ wire'[d] = wire[d]
          /\ out'[d] = out[d] /\ script'[d] = script[d]
      BY <1>1, <2>2 DEF Put
    <3>2. Ok(script[d], conn[d], buffer[d], wire[d], out[d])
      BY DEF ClientOk
    <3>3. QED
      BY <3>1, <3>2
  <2>3. QED
    BY <2>1, <2>2
<1>3. QED
  BY <1>2 DEF ClientOk

\* What a step leaves alone is put back.
LEMMA PutBack ==
    ASSUME FramingTyped, NEW c \in Clients
    PROVE  /\ conn = Put(conn, c, conn[c]) /\ buffer = Put(buffer, c, buffer[c])
           /\ wire = Put(wire, c, wire[c]) /\ out = Put(out, c, out[c])
BY DEF FramingTyped, Put

\* Every step keeps every client as it should be.
LEMMA StepClients ==
    ASSUME FramingTyped, \A c \in Clients : ClientOk(c), FramingNext
    PROVE  \A c \in Clients : ClientOk(c)'
<1>1. ASSUME NEW c \in Clients
      PROVE  /\ Sendable(script[c])
             /\ buffer[c] \in Seq(Byte) /\ wire[c] \in Seq(Byte)
             /\ Ok(script[c], conn[c], buffer[c], wire[c], out[c])
             /\ conn = Put(conn, c, conn[c]) /\ buffer = Put(buffer, c, buffer[c])
             /\ wire = Put(wire, c, wire[c]) /\ out = Put(out, c, out[c])
  BY FramingAssumption, PutBack DEF FramingTyped, ClientOk
<1>2. ASSUME NEW c \in Clients, NEW state \in {"open", "rejected"},
             conn[c] \in {"new", "rejected"}, conn' = Put(conn, c, state),
             UNCHANGED <<script, wire, buffer, out>>
      PROVE  \A d \in Clients : ClientOk(d)'
  <2>1. Ok(script[c], state, buffer[c], wire[c], out[c])
    BY <1>1, <1>2, AcceptOk
  <2>2. /\ buffer' = Put(buffer, c, buffer[c]) /\ wire' = Put(wire, c, wire[c])
        /\ out' = Put(out, c, out[c]) /\ script' = script
    BY <1>1, <1>2
  <2>3. QED
    BY <1>2, <2>1, <2>2, OneClient
<1>3. ASSUME NEW c \in Clients, Accept(c) \/ Reject(c) \/ ThreadNotStarted(c)
      PROVE  \A d \in Clients : ClientOk(d)'
  BY <1>2, <1>3 DEF Accept, Reject, ThreadNotStarted
<1>4. ASSUME NEW c \in Clients, Recv(c)
      PROVE  \A d \in Clients : ClientOk(d)'
  <2>1. PICK n \in 1..Len(wire[c]) :
           /\ buffer' = Put(buffer, c, buffer[c] \o SubSeq(wire[c], 1, n))
           /\ wire' = Put(wire, c, SubSeq(wire[c], n + 1, Len(wire[c])))
    BY <1>4 DEF Recv
  <2>2. Ok(script[c], "cutting", buffer[c] \o SubSeq(wire[c], 1, n),
           SubSeq(wire[c], n + 1, Len(wire[c])), out[c])
    <3>1. conn[c] = "open"
      BY <1>4 DEF Recv
    <3>2. QED
      BY <1>1, <3>1, RecvOk
  <2>3. /\ script' = script /\ conn' = Put(conn, c, "cutting")
        /\ out' = Put(out, c, out[c])
    BY <1>1, <1>4 DEF Recv
  <2>4. QED
    BY <2>1, <2>2, <2>3, OneClient
<1>5. ASSUME NEW c \in Clients, NEW n, NEW payload, conn[c] = "cutting",
             Cut(c, n, payload),
             Ok(script[c], "cutting",
                SubSeq(buffer[c], n + 1, Len(buffer[c])), wire[c],
                Publish(out[c], payload))
      PROVE  \A d \in Clients : ClientOk(d)'
  <2>1. /\ script' = script /\ conn' = Put(conn, c, "cutting")
        /\ buffer' = Put(buffer, c, SubSeq(buffer[c], n + 1, Len(buffer[c])))
        /\ wire' = Put(wire, c, wire[c])
        /\ out' = Put(out, c, Publish(out[c], payload))
    BY <1>1, <1>5 DEF Cut
  <2>2. QED
    BY <1>5, <2>1, OneClient
<1>6. ASSUME NEW c \in Clients, CutFrame(c)
      PROVE  \A d \in Clients : ClientOk(d)'
  <2> DEFINE s == buffer[c]
  <2>1. /\ conn[c] = "cutting"
        /\ OctetHeader(s) /\ FrameLen(s) <= MaxLine /\ Len(s) >= FrameEnd(s)
        /\ Cut(c, FrameEnd(s), SubSeq(s, Find(s, "SP") + 1, FrameEnd(s)))
    BY <1>6 DEF CutFrame
  <2>2. Ok(script[c], "cutting", SubSeq(s, FrameEnd(s) + 1, Len(s)), wire[c],
           Publish(out[c], SubSeq(s, Find(s, "SP") + 1, FrameEnd(s))))
    BY <1>1, <2>1, CutOk
  <2>3. QED
    BY <1>5, <2>1, <2>2
<1>7. ASSUME NEW c \in Clients, CutLine(c)
      PROVE  \A d \in Clients : ClientOk(d)'
  <2> DEFINE s == buffer[c]
  <2>1. /\ conn[c] = "cutting"
        /\ ~OctetHeader(s) /\ Find(s, "NL") \in 1 .. MaxLine + 1
        /\ Cut(c, Find(s, "NL"), SubSeq(s, 1, Find(s, "NL") - 1))
    BY <1>7 DEF CutLine
  <2>2. Ok(script[c], "cutting", SubSeq(s, Find(s, "NL") + 1, Len(s)), wire[c],
           Publish(out[c], SubSeq(s, 1, Find(s, "NL") - 1)))
    BY <1>1, <2>1, CutOk
  <2>3. QED
    BY <1>5, <2>1, <2>2
<1>8. ASSUME NEW c \in Clients, Drop(c)
      PROVE  \A d \in Clients : ClientOk(d)'
  <2>1. Ok(script[c], "dropped", <<>>, wire[c], out[c])
    <3>1. /\ conn[c] = "cutting"
          /\ \/ Oversized(buffer[c])
             \/ Incomplete(buffer[c]) /\ Overflows(buffer[c])
      BY <1>8 DEF Drop
    <3>2. /\ Sendable(script[c])
          /\ buffer[c] \in Seq(Byte) /\ wire[c] \in Seq(Byte)
          /\ Ok(script[c], "cutting", buffer[c], wire[c], out[c])
      BY <1>1, <3>1
    <3>3. QED
      BY <3>1, <3>2, DropOk
  <2>2. /\ script' = script /\ conn' = Put(conn, c, "dropped")
        /\ buffer' = Put(buffer, c, <<>>) /\ wire' = Put(wire, c, wire[c])
        /\ out' = Put(out, c, out[c])
    BY <1>1, <1>8 DEF Drop
  <2>3. QED
    BY <2>1, <2>2, OneClient
<1>9. ASSUME NEW c \in Clients, KeepReading(c)
      PROVE  \A d \in Clients : ClientOk(d)'
  <2>1. Ok(script[c], "open", buffer[c], wire[c], out[c])
    <3>1. conn[c] = "cutting" /\ Incomplete(buffer[c]) /\ ~Overflows(buffer[c])
      BY <1>9 DEF KeepReading, Keeps
    <3>2. QED
      BY <1>1, <3>1, KeepOk
  <2>2. /\ script' = script /\ conn' = Put(conn, c, "open")
        /\ buffer' = Put(buffer, c, buffer[c]) /\ wire' = Put(wire, c, wire[c])
        /\ out' = Put(out, c, out[c])
    BY <1>1, <1>9 DEF KeepReading
  <2>3. QED
    BY <2>1, <2>2, OneClient
<1>10. ASSUME NEW c \in Clients, NEW how \in {"closed", "cut"},
              conn[c] = "open" \/ Keeps(c),
              how = "closed" => wire[c] = <<>>, Leave(c, how)
       PROVE  \A d \in Clients : ClientOk(d)'
  <2>1. /\ conn[c] \in {"open", "cutting"}
        /\ Incomplete(buffer[c]) /\ ~Overflows(buffer[c])
    <3>1. Ok(script[c], conn[c], buffer[c], wire[c], out[c])
      BY <1>1
    <3>2. QED
      BY <1>10, <3>1 DEF Ok, Keeps
  <2>2. Remainder(c) = LastOf(buffer[c], out[c])
    BY DEF Remainder, LastOf
  <2>3. Ok(script[c], how, <<>>, wire[c], LastOf(buffer[c], out[c]))
    BY <1>1, <1>10, <2>1, LeaveOk
  <2>4. /\ script' = script /\ conn' = Put(conn, c, how)
        /\ buffer' = Put(buffer, c, <<>>) /\ wire' = Put(wire, c, wire[c])
        /\ out' = Put(out, c, LastOf(buffer[c], out[c]))
    BY <1>1, <1>10, <2>2 DEF Leave
  <2>5. QED
    BY <2>3, <2>4, OneClient
<1>11. ASSUME NEW c \in Clients, EndOfStream(c) \/ Stopped(c) \/ Reset(c)
       PROVE  \A d \in Clients : ClientOk(d)'
  BY <1>10, <1>11 DEF EndOfStream, Stopped, Reset
<1>12. ASSUME SetStopEvent
       PROVE  \A d \in Clients : ClientOk(d)'
  BY <1>12 DEF SetStopEvent, ClientOk
<1>13. QED
  BY <1>3, <1>4, <1>6, <1>7, <1>8, <1>9, <1>11, <1>12 DEF FramingNext, Serve

\* Between two reads the buffer is within its bound.
LEMMA BufferBound ==
    ASSUME NEW s \in Seq(Byte), Incomplete(s), ~Overflows(s)
    PROVE  Len(s) <= MaxLine + IF OctetHeader(s) THEN Find(s, "SP") - 1 ELSE 0
<1>1. Len(s) \in Nat /\ MaxLine \in Nat
  BY FramingAssumption
<1>2. Find(s, "SP") \in Nat
  BY <1>1, FindDef
<1>3. CASE PendingOctetFrame(s)
  <2>1. /\ OctetHeader(s) /\ Find(s, "SP") > 1
        /\ \A i \in 1 .. Find(s, "SP") - 1 : s[i] \in DOMAIN Digit
    BY <1>3 DEF PendingOctetFrame, OctetHeader
  <2>2. FrameLen(s) \in Nat
    <3> DEFINE d == Find(s, "SP") - 1
    <3>1. d \in Nat /\ d \in 0..d /\ \A i \in 1..d : s[i] \in DOMAIN Digit
      BY <1>2, <2>1
    <3> HIDE DEF d
    <3>2. Number(s, d) \in Nat
      BY <3>1, NumberDef
    <3>3. QED
      BY <3>2 DEF FrameLen, d
  <2>3. FrameLen(s) <= MaxLine /\ Len(s) < Find(s, "SP") + FrameLen(s)
    BY <1>3 DEF PendingOctetFrame, FrameEnd
  <2>4. QED
    BY <1>1, <1>2, <2>1, <2>2, <2>3
<1>4. CASE ~PendingOctetFrame(s)
  <2>1. Len(s) <= MaxLine
    BY <1>1, <1>4 DEF Overflows
  <2>2. OctetHeader(s) => Find(s, "SP") - 1 >= 0
    BY <1>2 DEF OctetHeader
  <2>3. QED
    BY <1>1, <1>2, <2>1, <2>2
<1>5. QED
  BY <1>3, <1>4

FramingInv == FramingTyped /\ \A c \in Clients : ClientOk(c)

\* The inductive invariant has the two the run checks.
LEMMA FramingInvType ==
    FramingInv => FramingTypeOK /\ FramesExact
<1> SUFFICES ASSUME FramingInv
             PROVE  FramingTypeOK /\ FramesExact
  OBVIOUS
<1>1. FramingTyped /\ \A c \in Clients : ClientOk(c)
  BY DEF FramingInv
<1>2. ProgressInv /\ FramesExact
  BY <1>1, ClientsOk
<1>3. ASSUME NEW c \in Clients, conn[c] = "open"
      PROVE  Len(buffer[c]) <=
                MaxLine + IF OctetHeader(buffer[c])
                          THEN Find(buffer[c], "SP") - 1 ELSE 0
  <2>1. buffer[c] \in Seq(Byte) /\ Incomplete(buffer[c]) /\ ~Overflows(buffer[c])
    BY <1>1, <1>2, <1>3 DEF FramingTyped, ProgressInv
  <2>2. QED
    BY <2>1, BufferBound
<1>4. FramingTypeOK
  BY <1>1, <1>3 DEF FramingTyped, FramingTypeOK
<1>5. QED
  BY <1>2, <1>4

\* It is inductive.
LEMMA StepFramingInv ==
    FramingInv /\ [FramingNext]_framing_vars => FramingInv'
<1> SUFFICES ASSUME FramingInv, [FramingNext]_framing_vars
             PROVE  FramingInv'
  OBVIOUS
<1>1. CASE FramingNext
  <2>1. FramingTyped /\ \A c \in Clients : ClientOk(c)
    BY DEF FramingInv
  <2>2. FramingTyped'
    BY <1>1, <2>1, StepFramingTyped
  <2>3. \A c \in Clients : ClientOk(c)'
    BY <1>1, <2>1, StepClients
  <2>4. QED
    BY <2>2, <2>3 DEF FramingInv
<1>2. CASE UNCHANGED framing_vars
  BY <1>2 DEF framing_vars, FramingInv, FramingTyped, ClientOk, Served
<1>3. QED
  BY <1>1, <1>2

\* The buffers are bounded, and no slot is lost but with the listener.
THEOREM FramingTypes ==
    FramingSpec => []FramingTypeOK
<1>1. FramingInit => FramingInv
  BY InitFraming DEF FramingInv
<1>2. QED
  BY <1>1, StepFramingInv, FramingInvType, PTL DEF FramingSpec

\* However its stream was cut into chunks, what a connection has published is
\* what its client sent, message by message (lines 319-383).
THEOREM FramingExact ==
    FramingSpec => []FramesExact
<1>1. FramingInit => FramingInv
  BY InitFraming DEF FramingInv
<1>2. QED
  BY <1>1, StepFramingInv, FramingInvType, PTL DEF FramingSpec
=============================================================================
