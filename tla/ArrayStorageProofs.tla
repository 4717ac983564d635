------------------------- MODULE ArrayStorageProofs -------------------------
(***************************************************************************)
(* For arrays of any capacity, any strings and callers: the references are *)
(* balanced, the calls of array.c that walk an array see the list that was *)
(* there, and an array is a list; for everything one thread may do with an *)
(* array, assignments between its length and its capacity and callbacks    *)
(* that make it shorter among it.                                          *)
(***************************************************************************)
EXTENDS ArrayStorage, SequenceTheorems, FiniteSetTheorems, FunctionTheorems,
        WellFoundedInduction, TLAPS

Cells == Values \cup {Junk}
Calls == {"map", "filter"}
Kinds == Calls \cup {"copy", "splice", "none"}
Walks == [kind: Kinds, at: {"none", "step", "callback", "given"}, index: 0..MaxCap,
          count: 0..MaxCap, arg: Cells, was: Seq(Cells), same: BOOLEAN,
          shrunk: BOOLEAN]

(* The cells of an array of n items, and the list they are.                *)
FitsIn(cells, n) ==
  \E cap \in 0..MaxCap : /\ cells \in [0..(cap - 1) -> Cells] /\ n \in 0..cap
                         /\ \A i \in 0..(n - 1) : cells[i] \in Values

ListOf(cells, n) == [k \in 1..n |-> cells[k - 1]]

(* t is the sequence s without its i-th element.                           *)
Lacks(t, s, i) ==
  /\ i \in 1..Len(s) /\ Len(t) = Len(s) - 1
  /\ \A k \in 1..Len(t) : t[k] = IF k < i THEN s[k] ELSE s[k + 1]

(* The items are values in cells the array has.                            *)
ItemsFit == FitsIn(items, items_len)

(* A walk is in one place; its callback is given an element it has not     *)
(* seen.                                                                   *)
WalkFits ==
  /\ walk \in Walks /\ result \in Seq(Cells)
  /\ walk.kind = "none" <=> walk.at = "none"
  /\ walk.kind = "none" => walk = NoWalk /\ result = <<>>
  /\ walk.at = "callback" => walk.kind \in Calls /\ walk.index < walk.count
  /\ walk.kind = "splice" => walk.index \in 0..MaxIdx

(* One thread at most is in array.pop, with an item to take.               *)
CallsFit ==
  /\ readonly \in BOOLEAN /\ stray \in BOOLEAN /\ popping \subseteq Threads
  /\ WalkFits
  /\ popping # {} => /\ items_len > 0 /\ walk.at \in {"none", "callback"}
                     /\ \E t \in Threads : popping = {t}

(* Every reference has an owner, and where something else than a live      *)
(* string was released nothing is said.                                    *)
Balanced ==
  /\ refs \in [Strings -> Nat] /\ held \in [Strings -> Nat] /\ stolen \in [Strings -> Nat]
  /\ ~stray =>
       \A s \in Strings : refs[s] + stolen[s] = held[s] + InResult(s) + Copies(List, s)

StoreInv == ItemsFit /\ CallsFit /\ Balanced

(* What a call has made of the elements it has seen. *)
CallInv ==
  /\ walk.same => ~walk.shrunk
  /\ walk.kind \in Calls /\ walk.at \in {"step", "callback"} =>
       /\ walk.index <= walk.count /\ (~walk.shrunk => walk.count <= items_len)
       /\ walk.same => \A n \in 1..Len(walk.was) : walk.was[n] = items[n - 1]
  /\ walk.at = "callback" => /\ ~walk.shrunk => walk.arg \in Values
                             /\ walk.same => walk.arg = walk.was[walk.index + 1]
  /\ walk.kind \in Calls \cup {"copy"} /\ walk.same =>
       walk.count = Len(walk.was) /\ walk.index <= walk.count
  /\ walk.at = "given" /\ walk.kind # "splice" => walk.index = walk.count
  /\ walk.kind = "map" /\ walk.same =>
       Len(result) = walk.index /\ \A n \in 1..Len(result) : result[n] \in {walk.was[n], Null}
  /\ walk.kind = "filter" /\ walk.same => PickedFrom(result, SubSeq(walk.was, 1, walk.index))

CopyInv ==
  /\ walk.kind = "copy" =>
       /\ walk.same /\ result = SubSeq(walk.was, 1, walk.index)
       /\ walk.at = "step" => walk.was = List
  /\ walk.kind = "splice" /\ walk.at = "step" =>
       /\ walk.index <= items_len
       /\ walk.was = SubSeq(List, 1, walk.index) \o result \o SubSeq(List, walk.index + 1, items_len)

-----------------------------------------------------------------------------
(* How often a string occurs in a sequence.                                *)

LEMMA SeqFacts ==
  ASSUME NEW S, NEW s \in Seq(S)
  PROVE  /\ Len(s) \in Nat /\ DOMAIN s = 1..Len(s)
         /\ \A i \in 1..Len(s) : s[i] \in S
  BY LenProperties

LEMMA CopiesType ==
  ASSUME NEW S, NEW s \in Seq(S), NEW v
  PROVE  /\ IsFiniteSet({n \in DOMAIN s : s[n] = v}) /\ Copies(s, v) \in Nat
         /\ Copies(s, v) = Cardinality({n \in 1..Len(s) : s[n] = v})
  <1>1. Len(s) \in Nat /\ DOMAIN s = 1..Len(s)
    BY SeqFacts
  <1>2. IsFiniteSet(1..Len(s))
    BY <1>1, FS_Interval
  <1>3. {n \in DOMAIN s : s[n] = v} \in SUBSET (1..Len(s))
    BY <1>1
  <1>4. IsFiniteSet({n \in DOMAIN s : s[n] = v})
    BY <1>2, <1>3, FS_Subset
  <1> QED BY <1>1, <1>4, FS_CardinalityType DEF Copies

LEMMA CopiesConcat ==
  ASSUME NEW S, NEW s \in Seq(S), NEW t \in Seq(S), NEW v
  PROVE  /\ s \o t \in Seq(S)
         /\ Copies(s \o t, v) = Copies(s, v) + Copies(t, v)
  <1> DEFINE m == Len(s)
             k == Len(t)
             A == {n \in 1..m : s[n] = v}
             B == {n \in 1..k : t[n] = v}
             C == {n \in m + 1..m + k : t[n - m] = v}
             D == {n \in 1..Len(s \o t) : (s \o t)[n] = v}
             f == [n \in B |-> n + m]
  <1>1. m \in Nat /\ k \in Nat
    BY SeqFacts
  <1>2. /\ s \o t \in Seq(S) /\ Len(s \o t) = m + k
        /\ \A i \in 1..m + k : (s \o t)[i] = IF i <= m THEN s[i] ELSE t[i - m]
    BY ConcatProperties
  <1>3. D = A \cup C
    <2>1. \A i \in 1..m + k : \/ i \in 1..m /\ i <= m /\ i \notin m + 1..m + k
                              \/ i \in m + 1..m + k /\ ~(i <= m) /\ i \notin 1..m
      BY <1>1
    <2>2. \A i : i \in 1..m \/ i \in m + 1..m + k => i \in 1..m + k
      BY <1>1
    <2> QED BY <1>2, <2>1, <2>2
  <1>4. A \cap C = {}
    BY <1>1
  <1>5. IsFiniteSet(A) /\ IsFiniteSet(B) /\ IsFiniteSet(C)
    <2>1. IsFiniteSet(1..m) /\ IsFiniteSet(1..k) /\ IsFiniteSet(m + 1..m + k)
      BY <1>1, FS_Interval
    <2> QED BY <2>1, FS_Subset
  <1>6. ExistsBijection(B, C)
    <2>1. \A n \in B : f[n] \in C /\ f[n] = n + m /\ n \in Nat
      BY <1>1
    <2>2. f \in [B -> C]
      BY <2>1
    <2>3. \A a, b \in B : f[a] = f[b] => a = b
      BY <1>1, <2>1
    <2>4. \A c \in C : \E b \in B : f[b] = c
      <3> SUFFICES ASSUME NEW c \in C
                   PROVE  \E b \in B : f[b] = c
        OBVIOUS
      <3>1. c - m \in B /\ (c - m) + m = c
        BY <1>1
      <3> QED BY <2>1, <3>1
    <2> HIDE DEF f, B, C
    <2>5. f \in Bijection(B, C)
      BY <2>2, <2>3, <2>4 DEF Bijection, Injection, Surjection, IsInjective
    <2> QED BY <2>5 DEF ExistsBijection
  <1>7. Cardinality(C) = Cardinality(B)
    BY <1>5, <1>6, FS_Bijection
  <1>8. Cardinality(D) = Cardinality(A) + Cardinality(B)
    <2> HIDE DEF A, B, C, D
    <2>1. Cardinality(A \cup C) = Cardinality(A) + Cardinality(C) - Cardinality(A \cap C)
      BY <1>5, FS_Union
    <2>2. Cardinality(A \cap C) = 0
      BY <1>4, FS_EmptySet
    <2>3. Cardinality(A) \in Nat /\ Cardinality(C) \in Nat
      BY <1>5, FS_CardinalityType
    <2> QED BY <1>3, <1>7, <2>1, <2>2, <2>3
  <1>9. Copies(s \o t, v) = Cardinality(D) /\ Copies(s, v) = Cardinality(A) /\ Copies(t, v) = Cardinality(B)
    BY <1>2, CopiesType
  <1> QED BY <1>2, <1>8, <1>9

LEMMA CopiesOne ==
  ASSUME NEW x, NEW v
  PROVE  Copies(<<x>>, v) = IF x = v THEN 1 ELSE 0
  <1>1. DOMAIN <<x>> = {1} /\ <<x>>[1] = x
    OBVIOUS
  <1>2. {n \in DOMAIN <<x>> : <<x>>[n] = v} = IF x = v THEN {1} ELSE {}
    BY <1>1
  <1> QED BY <1>2, FS_Singleton, FS_EmptySet DEF Copies

LEMMA CopiesAppend ==
  ASSUME NEW S, NEW s \in Seq(S), NEW v \in S
  PROVE  /\ Append(s, v) \in Seq(S)
         /\ \A x : Copies(Append(s, v), x) = Copies(s, x) + Copies(<<v>>, x)
  <1>1. Append(s, v) = s \o <<v>> /\ Append(s, v) \in Seq(S)
    BY AppendProperties, AppendIsConcat
  <1>2. PICK e : e = <<v>>
    OBVIOUS
  <1>3. e \in Seq(S)
    BY <1>2
  <1>4. ASSUME NEW x
        PROVE  Copies(Append(s, v), x) = Copies(s, x) + Copies(<<v>>, x)
    <2>1. Copies(s \o e, x) = Copies(s, x) + Copies(e, x)
      BY <1>3, CopiesConcat
    <2> QED BY <1>1, <1>2, <2>1
  <1> QED BY <1>1, <1>4

LEMMA CopiesNat ==
  \A x, v : Copies(<<x>>, v) \in Nat
  <1>1. ASSUME NEW x, NEW v
        PROVE  Copies(<<x>>, v) \in Nat
    BY CopiesOne
  <1> QED BY <1>1

LEMMA FunctionIsSeq ==
  ASSUME NEW S, NEW n \in Nat, NEW f \in [1..n -> S]
  PROVE  f \in Seq(S) /\ Len(f) = n
  OBVIOUS

LEMMA CopiesNone ==
  ASSUME NEW S, NEW s \in Seq(S), NEW v, \A i \in 1..Len(s) : s[i] # v
  PROVE  Copies(s, v) = 0
  <1>1. {n \in 1..Len(s) : s[n] = v} = {}
    OBVIOUS
  <1> QED BY <1>1, CopiesType, FS_EmptySet

(* A sequence is what is before an element, the element and the rest.      *)
LEMMA SplitAt ==
  ASSUME NEW S, NEW s \in Seq(S), NEW i \in 1..Len(s)
  PROVE  /\ SubSeq(s, 1, i - 1) \in Seq(S) /\ SubSeq(s, i + 1, Len(s)) \in Seq(S)
         /\ s[i] \in S /\ <<s[i]>> \in Seq(S)
         /\ s = (SubSeq(s, 1, i - 1) \o <<s[i]>>) \o SubSeq(s, i + 1, Len(s))
  <1> DEFINE a == SubSeq(s, 1, i - 1)
             e == <<s[i]>>
             b == SubSeq(s, i + 1, Len(s))
             n == Len(s)
  <1>1. n \in Nat /\ i \in Nat /\ 1 <= i /\ i <= n /\ \A k \in 1..n : s[k] \in S
    BY SeqFacts
  <1>2. /\ a \in Seq(S) /\ Len(a) = i - 1 /\ \A k \in 1..i - 1 : a[k] = s[k]
    <2>1. \A k \in 1..i - 1 : s[k] \in S
      BY <1>1
    <2>2. /\ a \in Seq(S) /\ Len(a) = IF 1 <= i - 1 THEN i - 1 - 1 + 1 ELSE 0
          /\ \A k \in 1..i - 1 - 1 + 1 : a[k] = s[1 + k - 1]
      BY <1>1, <2>1, SubSeqProperties
    <2> QED BY <1>1, <2>2
  <1>3. /\ b \in Seq(S) /\ Len(b) = n - i /\ \A k \in 1..n - i : b[k] = s[i + k]
    <2>1. \A k \in i + 1..n : s[k] \in S
      BY <1>1
    <2>2. /\ b \in Seq(S) /\ Len(b) = IF i + 1 <= n THEN n - (i + 1) + 1 ELSE 0
          /\ \A k \in 1..n - (i + 1) + 1 : b[k] = s[(i + 1) + k - 1]
      BY <1>1, <2>1, SubSeqProperties
    <2> QED BY <1>1, <2>2
  <1>4. s[i] \in S /\ e \in Seq(S) /\ Len(e) = 1 /\ e[1] = s[i]
    BY <1>1
  <1> HIDE DEF a, b, e, n
  <1> DEFINE c == a \o e
  <1>5. /\ c \in Seq(S) /\ Len(c) = i
        /\ \A k \in 1..i : c[k] = s[k]
    <2>1. /\ a \o e \in Seq(S) /\ Len(a \o e) = Len(a) + Len(e)
          /\ \A k \in 1..Len(a) + Len(e) : (a \o e)[k] = IF k <= Len(a) THEN a[k] ELSE e[k - Len(a)]
      BY <1>2, <1>4, ConcatProperties
    <2>2. \A k \in 1..i : (k <= i - 1 /\ k \in 1..i - 1) \/ (~(k <= i - 1) /\ k = i /\ k - (i - 1) = 1)
      BY <1>1
    <2> QED BY <1>1, <1>2, <1>4, <2>1, <2>2
  <1> HIDE DEF c
  <1>6. /\ c \o b \in Seq(S) /\ Len(c \o b) = n
        /\ \A k \in 1..n : (c \o b)[k] = s[k]
    <2>1. /\ c \o b \in Seq(S) /\ Len(c \o b) = Len(c) + Len(b)
          /\ \A k \in 1..Len(c) + Len(b) : (c \o b)[k] = IF k <= Len(c) THEN c[k] ELSE b[k - Len(c)]
      BY <1>3, <1>5, ConcatProperties
    <2>2. Len(c) + Len(b) = n
      BY <1>1, <1>3, <1>5
    <2>3. \A k \in 1..n : (k <= i /\ k \in 1..i) \/ (~(k <= i) /\ k - i \in 1..n - i /\ i + (k - i) = k)
      BY <1>1
    <2> QED BY <1>3, <1>5, <2>1, <2>2, <2>3
  <1>7. c \o b = s
    BY <1>6, SeqEqual DEF n
  <1> QED BY <1>2, <1>3, <1>4, <1>7 DEF a, b, c, e, n

(* a and b are what is before and after the i-th element, x, of s; without *)
(* it they are t.                                                          *)
Parts(a, b, t, s, i, x) ==
  /\ a = SubSeq(s, 1, i - 1) /\ a = SubSeq(t, 1, i - 1)
  /\ b = SubSeq(s, i + 1, Len(s)) /\ b = SubSeq(t, i, Len(t))
  /\ t = a \o b /\ s = (a \o <<x>>) \o b

(* Taking an element out of a sequence: what is left, and how it is put    *)
(* back.                                                                   *)
LEMMA TakeOut ==
  ASSUME NEW S, NEW s \in Seq(S), NEW t \in Seq(S), NEW i, Lacks(t, s, i), NEW x, s[i] = x
  PROVE  \E a, b \in Seq(S) : Parts(a, b, t, s, i, x)
  <1> DEFINE a == SubSeq(s, 1, i - 1)
             b == SubSeq(s, i + 1, Len(s))
             c == SubSeq(t, 1, i - 1)
             d == SubSeq(t, i, Len(t))
             e == <<x>>
             n == Len(s)
  <1>1. n \in Nat /\ i \in Nat /\ 1 <= i /\ i <= n /\ i \in 1..n /\ \A k \in 1..n : s[k] \in S
    BY SeqFacts DEF Lacks
  <1>2. /\ Len(t) = n - 1 /\ \A k \in 1..n - 1 : t[k] \in S
        /\ \A k \in 1..n - 1 : t[k] = IF k < i THEN s[k] ELSE s[k + 1]
    BY SeqFacts DEF Lacks
  <1>3. a \in Seq(S) /\ Len(a) = i - 1 /\ \A k \in 1..i - 1 : a[k] = s[k]
    <2>1. \A k \in 1..i - 1 : s[k] \in S
      BY <1>1
    <2>2. /\ a \in Seq(S) /\ Len(a) = IF 1 <= i - 1 THEN i - 1 - 1 + 1 ELSE 0
          /\ \A k \in 1..i - 1 - 1 + 1 : a[k] = s[1 + k - 1]
      BY <1>1, <2>1, SubSeqProperties
    <2> QED BY <1>1, <2>2
  <1>4. b \in Seq(S) /\ Len(b) = n - i /\ \A k \in 1..n - i : b[k] = s[i + k]
    <2>1. \A k \in i + 1..n : s[k] \in S
      BY <1>1
    <2>2. /\ b \in Seq(S) /\ Len(b) = IF i + 1 <= n THEN n - (i + 1) + 1 ELSE 0
          /\ \A k \in 1..n - (i + 1) + 1 : b[k] = s[(i + 1) + k - 1]
      BY <1>1, <2>1, SubSeqProperties
    <2> QED BY <1>1, <2>2
  <1>5. c \in Seq(S) /\ Len(c) = i - 1 /\ \A k \in 1..i - 1 : c[k] = t[k]
    <2>1. \A k \in 1..i - 1 : t[k] \in S
      BY <1>1, <1>2
    <2>2. /\ c \in Seq(S) /\ Len(c) = IF 1 <= i - 1 THEN i - 1 - 1 + 1 ELSE 0
          /\ \A k \in 1..i - 1 - 1 + 1 : c[k] = t[1 + k - 1]
      BY <1>1, <2>1, SubSeqProperties
    <2> QED BY <1>1, <2>2
  <1>6. d \in Seq(S) /\ Len(d) = n - i /\ \A k \in 1..n - i : d[k] = t[i + k - 1]
    <2>1. \A k \in i..Len(t) : t[k] \in S
      BY <1>1, <1>2
    <2>2. /\ d \in Seq(S) /\ Len(d) = IF i <= Len(t) THEN Len(t) - i + 1 ELSE 0
          /\ \A k \in 1..Len(t) - i + 1 : d[k] = t[i + k - 1]
      BY <1>1, <1>2, <2>1, SubSeqProperties
    <2> QED BY <1>1, <1>2, <2>2
  <1>7. s = (a \o e) \o b /\ e \in Seq(S)
    <2>1. e = <<s[i]>>
      OBVIOUS
    <2> HIDE DEF e
    <2> QED BY <1>1, <2>1, SplitAt
  <1> HIDE DEF a, b, c, d, e
  <1>8. a = c
    <2>1. \A k \in 1..i - 1 : k \in 1..n - 1 /\ k < i
      BY <1>1
    <2>2. \A k \in 1..i - 1 : a[k] = c[k]
      BY <1>2, <1>3, <1>5, <2>1
    <2> QED BY <1>3, <1>5, <2>2, SeqEqual
  <1>9. b = d
    <2>1. \A k \in 1..n - i : i + k - 1 \in 1..n - 1 /\ ~(i + k - 1 < i) /\ (i + k - 1) + 1 = i + k
      BY <1>1
    <2>2. \A k \in 1..n - i : b[k] = d[k]
      BY <1>2, <1>4, <1>6, <2>1
    <2> QED BY <1>4, <1>6, <2>2, SeqEqual
  <1>10. t = a \o b
    <2>1. /\ a \o b \in Seq(S) /\ Len(a \o b) = Len(a) + Len(b)
          /\ \A k \in 1..Len(a) + Len(b) : (a \o b)[k] = IF k <= Len(a) THEN a[k] ELSE b[k - Len(a)]
      BY <1>3, <1>4, ConcatProperties
    <2>2. Len(a) + Len(b) = n - 1
      BY <1>1, <1>3, <1>4
    <2>3. \A k \in 1..n - 1 : \/ k <= i - 1 /\ k < i /\ k \in 1..i - 1
                              \/ ~(k <= i - 1) /\ ~(k < i) /\ k - (i - 1) \in 1..n - i /\ i + (k - (i - 1)) = k + 1
      BY <1>1
    <2>4. ASSUME NEW k \in 1..n - 1
          PROVE  (a \o b)[k] = t[k]
      <3>1. (a \o b)[k] = IF k <= i - 1 THEN a[k] ELSE b[k - (i - 1)]
        BY <1>3, <2>1, <2>2
      <3>2. t[k] = IF k < i THEN s[k] ELSE s[k + 1]
        BY <1>2
      <3> QED BY <1>3, <1>4, <2>3, <3>1, <3>2
    <2> QED BY <1>2, <2>1, <2>2, <2>4, SeqEqual
  <1>11. Parts(a, b, t, s, i, x)
    BY <1>7, <1>8, <1>9, <1>10 DEF Parts, a, b, c, d, e
  <1> QED BY <1>3, <1>4, <1>11

LEMMA LacksCopies ==
  ASSUME NEW S, NEW s \in Seq(S), NEW t \in Seq(S), NEW i, Lacks(t, s, i),
         NEW e, s[i] = e, NEW v
  PROVE  Copies(s, v) = Copies(t, v) + Copies(<<e>>, v)
  <1>0. PICK a, b \in Seq(S) : Parts(a, b, t, s, i, e)
    BY TakeOut
  <1>1. t = a \o b /\ s = (a \o <<e>>) \o b
    BY <1>0 DEF Parts
  <1>2. PICK f : f = <<e>>
    OBVIOUS
  <1>3. PICK y : y = a \o f
    OBVIOUS
  <1>4. f \in Seq(S) /\ s = y \o b
    <2>1. e \in S
      BY SeqFacts DEF Lacks
    <2> QED BY <1>1, <1>2, <1>3, <2>1
  <1>5. y \in Seq(S) /\ Copies(y, v) = Copies(a, v) + Copies(f, v)
    BY <1>3, <1>4, CopiesConcat
  <1>6. Copies(s, v) = Copies(y, v) + Copies(b, v)
    BY <1>4, <1>5, CopiesConcat
  <1>7. Copies(t, v) = Copies(a, v) + Copies(b, v)
    BY <1>1, CopiesConcat
  <1>8. Copies(a, v) \in Nat /\ Copies(b, v) \in Nat /\ Copies(f, v) \in Nat
    BY <1>4, CopiesType
  <1> QED BY <1>2, <1>5, <1>6, <1>7, <1>8

-----------------------------------------------------------------------------
(* Numbers and cells.                                                      *)

LEMMA NatWellFounded == IsWellFoundedOn({r \in Nat \X Nat : r[1] < r[2]}, Nat)
  BY NatLessThanWellFounded DEF OpToRel

LEMMA LeastNat ==
  ASSUME NEW T \in SUBSET Nat, T # {}
  PROVE  \E n \in T : \A m \in T : n <= m
  <1> DEFINE R == {r \in Nat \X Nat : r[1] < r[2]}
  <1>1. PICK n \in T : \A m \in T : ~ (<<m, n>> \in R)
    <2> HIDE DEF R
    <2>1. IsWellFoundedOn(R, Nat)
      BY NatWellFounded DEF R
    <2> QED BY <2>1, WFMin
  <1>2. ASSUME NEW m \in T
        PROVE  n <= m
    <2>1. m \in Nat /\ n \in Nat
      OBVIOUS
    <2>2. m < n => <<m, n>> \in R
      BY <2>1
    <2> HIDE DEF R
    <2> QED BY <1>1, <2>1, <2>2
  <1> QED BY <1>2

LEMMA Interval ==
  ASSUME NEW c \in Nat
  PROVE  Cardinality(0..(c - 1)) = c
  <1>1. Cardinality(0..(c - 1)) = IF 0 > c - 1 THEN 0 ELSE c - 1 - 0 + 1
    BY FS_Interval
  <1> QED BY <1>1

LEMMA Fits ==
  ASSUME NEW cells, NEW n, FitsIn(cells, n)
  PROVE  /\ Cardinality(DOMAIN cells) \in 0..MaxCap /\ MaxCap \in Nat
         /\ cells \in [0..(Cardinality(DOMAIN cells) - 1) -> Cells]
         /\ n \in 0..Cardinality(DOMAIN cells) /\ n \in Nat
         /\ \A i \in 0..(n - 1) : i \in DOMAIN cells /\ cells[i] \in Values
         /\ ListOf(cells, n) \in Seq(Cells) /\ Len(ListOf(cells, n)) = n
         /\ \A k \in 1..n : ListOf(cells, n)[k] = cells[k - 1]
  <1>0. MaxCap \in Nat
    BY ArrayAssumption
  <1>1. PICK cap \in 0..MaxCap : /\ cells \in [0..(cap - 1) -> Cells] /\ n \in 0..cap
                                 /\ \A i \in 0..(n - 1) : cells[i] \in Values
    BY DEF FitsIn
  <1>2. cap \in Nat /\ n \in Nat /\ n <= cap
    BY <1>0, <1>1
  <1>3. DOMAIN cells = 0..(cap - 1) /\ Cardinality(DOMAIN cells) = cap
    BY <1>1, <1>2, Interval
  <1>4. \A i \in 0..(n - 1) : i \in 0..(cap - 1)
    BY <1>2
  <1>5. \A k \in 1..n : k - 1 \in 0..(n - 1)
    BY <1>2
  <1>6. ListOf(cells, n) \in [1..n -> Values]
    BY <1>1, <1>5 DEF ListOf
  <1>7. ListOf(cells, n) \in Seq(Cells) /\ Len(ListOf(cells, n)) = n
    <2>1. ListOf(cells, n) \in [1..n -> Cells]
      BY <1>6 DEF Cells
    <2> QED BY <1>2, <2>1, FunctionIsSeq
  <1> QED BY <1>0, <1>1, <1>2, <1>3, <1>4, <1>7 DEF ListOf

LEMMA FitsFrom ==
  ASSUME NEW cells, NEW cap \in Nat, cap <= MaxCap, cells \in [0..(cap - 1) -> Cells],
         NEW n \in Nat, n <= cap, \A i \in 0..(n - 1) : cells[i] \in Values
  PROVE  FitsIn(cells, n)
  <1>1. cap \in 0..MaxCap /\ n \in 0..cap
    BY ArrayAssumption
  <1> QED BY <1>1 DEF FitsIn

(* What Resized leaves of the cells.                                       *)
LEMMA ResizedCells ==
  ASSUME ItemsFit, NEW cap \in Nat, items_cap <= cap, cap <= MaxCap, NEW filler \in Cells
  PROVE  /\ Resized(cap, filler) \in [0..(cap - 1) -> Cells]
         /\ \A i \in 0..(items_len - 1) : Resized(cap, filler)[i] = items[i]
         /\ \A i \in 0..(cap - 1) : i >= items_cap => Resized(cap, filler)[i] = filler
  <1>1. /\ items_cap \in Nat /\ items \in [0..(items_cap - 1) -> Cells]
        /\ items_len \in Nat /\ items_len <= items_cap
    BY Fits DEF ItemsFit, items_cap
  <1> HIDE DEF items_cap
  <1>2. \A i \in 0..(cap - 1) : i < items_cap => i \in 0..(items_cap - 1)
    BY <1>1
  <1>3. \A i \in 0..(items_len - 1) : i < items_cap /\ i \in 0..(cap - 1)
    BY <1>1
  <1>4. \A i \in 0..(cap - 1) : i >= items_cap => ~ (i < items_cap)
    BY <1>1
  <1> QED BY <1>1, <1>2, <1>3, <1>4 DEF Resized

(* Room for one more item: the array's own cells, or twice as many.        *)
LEMMA RoomCells ==
  ASSUME ItemsFit, WithinBound(Room)
  PROVE  \E cap \in Nat : /\ cap <= MaxCap /\ Room \in [0..(cap - 1) -> Cells] /\ items_len < cap
                          /\ \A i \in 0..(items_len - 1) : Room[i] = items[i]
  <1>1. /\ items_cap \in Nat /\ items_cap <= MaxCap /\ items \in [0..(items_cap - 1) -> Cells]
        /\ items_len \in Nat /\ items_len <= items_cap
    BY Fits DEF ItemsFit, items_cap
  <1>2. CASE items_len < items_cap
    <2>1. Room = items
      BY <1>2 DEF Room
    <2> HIDE DEF items_cap
    <2> QED BY <1>1, <1>2, <2>1
  <1>3. CASE ~(items_len < items_cap)
    <2> DEFINE new == IF items_cap = 0 THEN InitCap ELSE items_cap * 2
    <2>1. Room = Resized(new, Junk)
      BY <1>3 DEF Room
    <2>2. new \in Nat /\ items_cap <= new /\ items_len < new
      <3> HIDE DEF items_cap
      <3>1. InitCap \in Nat \ {0}
        BY ArrayAssumption
      <3> QED BY <1>1, <3>1
    <2> HIDE DEF new
    <2>3. DOMAIN Resized(new, Junk) = 0..(new - 1)
      BY DEF Resized
    <2>4. new <= MaxCap
      BY <2>1, <2>2, <2>3, Interval DEF WithinBound
    <2>5. Junk \in Cells
      BY DEF Cells
    <2> QED BY <2>1, <2>2, <2>4, <2>5, ResizedCells
  <1> QED BY <1>2, <1>3

(* Room for an index, and the cell that is there before it is assigned to. *)
LEMMA RoomForCells ==
  ASSUME ItemsFit, NEW idx \in Nat, idx < items_cap \/ Capacities(idx) # {}
  PROVE  \E cap \in Nat : /\ cap <= MaxCap /\ RoomFor(idx) \in [0..(cap - 1) -> Cells]
                          /\ idx < cap /\ items_len <= cap
                          /\ \A i \in 0..(items_len - 1) : RoomFor(idx)[i] = items[i]
                          /\ idx >= items_cap => RoomFor(idx)[idx] = Null
  <1>1. /\ items_cap \in Nat /\ items_cap <= MaxCap /\ items \in [0..(items_cap - 1) -> Cells]
        /\ items_len \in Nat /\ items_len <= items_cap /\ MaxCap \in Nat
    BY Fits DEF ItemsFit, items_cap
  <1>2. CASE idx < items_cap
    <2>1. RoomFor(idx) = items
      BY <1>2 DEF RoomFor
    <2> HIDE DEF items_cap
    <2>2. ~ (idx >= items_cap)
      BY <1>1, <1>2
    <2> SUFFICES /\ items_cap <= MaxCap /\ items \in [0..(items_cap - 1) -> Cells]
                 /\ idx < items_cap /\ items_len <= items_cap
                 /\ \A i \in 0..(items_len - 1) : items[i] = items[i]
      BY <1>1, <2>1, <2>2
    <2> QED BY <1>1, <1>2
  <1>3. CASE ~(idx < items_cap)
    <2> DEFINE T == Capacities(idx)
               Least(c) == \A d \in T : c <= d
    <2>1. T # {}
      BY <1>3
    <2>2. \A c \in T : c \in Nat /\ idx + 1 <= c /\ c <= MaxCap
      BY <1>1 DEF Capacities
    <2> HIDE DEF T
    <2>3. T \in SUBSET Nat
      BY <2>2
    <2>4. \E c \in T : Least(c)
      BY <2>1, <2>3, LeastNat
    <2> DEFINE new == CHOOSE c \in T : Least(c)
    <2>5. new \in T
      BY <2>4
    <2>6. RoomFor(idx) = Resized(new, Null)
      BY <1>3 DEF RoomFor, T
    <2> HIDE DEF new, items_cap
    <2>7. /\ new \in Nat /\ items_cap <= new /\ idx < new /\ new <= MaxCap /\ idx \in 0..(new - 1)
          /\ items_len <= new
      BY <1>1, <1>3, <2>2, <2>5
    <2>8. Null \in Cells
      BY DEF Cells, Values
    <2>9. /\ Resized(new, Null) \in [0..(new - 1) -> Cells]
          /\ \A i \in 0..(items_len - 1) : Resized(new, Null)[i] = items[i]
          /\ \A i \in 0..(new - 1) : i >= items_cap => Resized(new, Null)[i] = Null
      BY <2>7, <2>8, ResizedCells
    <2> QED BY <2>6, <2>7, <2>9
  <1> QED BY <1>2, <1>3

(* An item more.                                                           *)
LEMMA InsertedList ==
  ASSUME ItemsFit, WithinBound(Room), NEW at \in 0..items_len, NEW v \in Values,
         NEW cells, cells = [i \in DOMAIN Room |->
                               IF i = at THEN v
                               ELSE IF i > at /\ i <= items_len THEN Room[i - 1]
                               ELSE Room[i]]
  PROVE  /\ FitsIn(cells, items_len + 1)
         /\ Lacks(List, ListOf(cells, items_len + 1), at + 1)
         /\ ListOf(cells, items_len + 1)[at + 1] = v
  <1>1. items_len \in Nat /\ at \in Nat /\ at <= items_len
    BY Fits DEF ItemsFit
  <1>2. PICK cap \in Nat : /\ cap <= MaxCap /\ Room \in [0..(cap - 1) -> Cells] /\ items_len < cap
                           /\ \A i \in 0..(items_len - 1) : Room[i] = items[i]
    BY RoomCells
  <1>3. \A i \in 0..(items_len - 1) : items[i] \in Values
    BY Fits DEF ItemsFit
  <1>4. \A i \in 0..(cap - 1) : cells[i] = IF i = at THEN v
                                           ELSE IF i > at /\ i <= items_len THEN Room[i - 1]
                                           ELSE Room[i]
    BY <1>2
  <1>5. v \in Cells /\ Values \subseteq Cells
    BY DEF Cells
  <1>6. cells \in [0..(cap - 1) -> Cells]
    <2>1. \A i \in 0..(cap - 1) : i > at => i - 1 \in 0..(cap - 1)
      BY <1>1, <1>2
    <2> QED BY <1>2, <1>5, <2>1
  <1>7. ASSUME NEW i \in 0..items_len
        PROVE  i \in 0..(cap - 1) /\ cells[i] = IF i = at THEN v ELSE IF i > at THEN items[i - 1] ELSE items[i]
    <2>1. i \in 0..(cap - 1) /\ i <= items_len
      BY <1>1, <1>2
    <2>2. i > at => i - 1 \in 0..(items_len - 1)
      BY <1>1
    <2>3. ~ (i = at) /\ ~ (i > at) => i \in 0..(items_len - 1)
      BY <1>1
    <2> QED BY <1>2, <1>4, <2>1, <2>2, <2>3
  <1>8. \A i \in 0..items_len : cells[i] \in Values
    <2>1. ASSUME NEW i \in 0..items_len
          PROVE  cells[i] \in Values
      <3>1. i > at => i - 1 \in 0..(items_len - 1)
        BY <1>1
      <3>2. ~ (i = at) /\ ~ (i > at) => i \in 0..(items_len - 1)
        BY <1>1
      <3> QED BY <1>3, <1>7, <3>1, <3>2
    <2> QED BY <2>1
  <1>9. FitsIn(cells, items_len + 1)
    <2>1. items_len + 1 \in Nat /\ items_len + 1 <= cap /\ (items_len + 1) - 1 = items_len
      BY <1>1, <1>2
    <2> QED BY <1>2, <1>6, <1>8, <2>1, FitsFrom
  <1> DEFINE l == ListOf(cells, items_len + 1)
  <1>10. Len(l) = items_len + 1 /\ \A k \in 1..(items_len + 1) : l[k] = cells[k - 1]
    BY <1>9, Fits
  <1>11. List = ListOf(items, items_len)
    BY DEF List, ListOf
  <1>12. Len(List) = items_len /\ \A k \in 1..items_len : List[k] = items[k - 1]
    BY <1>11, Fits DEF ItemsFit
  <1> HIDE DEF l
  <1>13. l[at + 1] = v
    <2>1. at + 1 \in 1..(items_len + 1) /\ (at + 1) - 1 = at /\ at \in 0..items_len
      BY <1>1
    <2> QED BY <1>7, <1>10, <2>1
  <1>14. Lacks(List, l, at + 1)
    <2>1. at + 1 \in 1..Len(l) /\ Len(List) = Len(l) - 1
      BY <1>1, <1>10, <1>12
    <2>2. ASSUME NEW k \in 1..items_len
          PROVE  List[k] = IF k < at + 1 THEN l[k] ELSE l[k + 1]
      <3>1. k \in 1..(items_len + 1) /\ k + 1 \in 1..(items_len + 1) /\ k - 1 \in 0..items_len
            /\ (k + 1) - 1 = k /\ k \in 0..items_len
        BY <1>1
      <3>2. l[k] = cells[k - 1] /\ l[k + 1] = cells[k] /\ List[k] = items[k - 1]
        BY <1>10, <1>12, <3>1
      <3>3. CASE k < at + 1
        <4>1. ~ (k - 1 = at) /\ ~ (k - 1 > at)
          BY <1>1, <3>3
        <4>2. cells[k - 1] = items[k - 1]
          BY <1>7, <3>1, <4>1
        <4> QED BY <3>2, <3>3, <4>2
      <3>4. CASE ~ (k < at + 1)
        <4>1. ~ (k = at) /\ k > at
          BY <1>1, <3>4
        <4>2. cells[k] = items[k - 1]
          BY <1>7, <3>1, <4>1
        <4> QED BY <3>2, <3>4, <4>2
      <3> QED BY <3>3, <3>4
    <2> QED BY <1>12, <2>1, <2>2 DEF Lacks
  <1> QED BY <1>9, <1>13, <1>14 DEF l

LEMMA PushedList ==
  ASSUME ItemsFit, WithinBound(Room), NEW v \in Values,
         NEW cells, cells = [Room EXCEPT ![items_len] = v]
  PROVE  /\ FitsIn(cells, items_len + 1)
         /\ Lacks(List, ListOf(cells, items_len + 1), items_len + 1)
         /\ ListOf(cells, items_len + 1)[items_len + 1] = v
  <1> DEFINE c == [i \in DOMAIN Room |->
                     IF i = items_len THEN v
                     ELSE IF i > items_len /\ i <= items_len THEN Room[i - 1]
                     ELSE Room[i]]
  <1>1. items_len \in Nat /\ items_len \in 0..items_len
    BY Fits DEF ItemsFit
  <1>2. PICK cap \in Nat : Room \in [0..(cap - 1) -> Cells] /\ items_len < cap
    BY RoomCells
  <1>3. cells = c
    <2>1. \A i \in 0..(cap - 1) : ~ (i > items_len /\ i <= items_len)
      BY <1>1, <1>2
    <2>2. DOMAIN Room = 0..(cap - 1)
      BY <1>2
    <2>3. cells = [i \in DOMAIN Room |-> IF i = items_len THEN v ELSE Room[i]]
      OBVIOUS
    <2> QED BY <2>1, <2>2, <2>3
  <1> HIDE DEF c
  <1>4. c = [i \in DOMAIN Room |->
               IF i = items_len THEN v
               ELSE IF i > items_len /\ i <= items_len THEN Room[i - 1]
               ELSE Room[i]]
    BY DEF c
  <1>5. /\ FitsIn(c, items_len + 1)
        /\ Lacks(List, ListOf(c, items_len + 1), items_len + 1)
        /\ ListOf(c, items_len + 1)[items_len + 1] = v
    BY <1>1, <1>4, InsertedList
  <1> QED BY <1>3, <1>5

(* An item less.                                                           *)
LEMMA RemovedList ==
  ASSUME ItemsFit, NEW idx \in Nat, idx < items_len
  PROVE  /\ FitsIn(Without(idx), items_len - 1)
         /\ Lacks(ListOf(Without(idx), items_len - 1), List, idx + 1)
         /\ List[idx + 1] = items[idx] /\ items[idx] \in Values
  <1> DEFINE c == Without(idx)
             n == items_len - 1
  <1>1. /\ items_cap \in Nat /\ items_cap <= MaxCap /\ items \in [0..(items_cap - 1) -> Cells]
        /\ items_len \in Nat /\ items_len <= items_cap
        /\ \A i \in 0..(items_len - 1) : items[i] \in Values
    BY Fits DEF ItemsFit, items_cap
  <1> HIDE DEF items_cap
  <1>2. /\ n \in Nat /\ idx \in 0..(items_len - 1) /\ n <= items_cap /\ n + 1 = items_len
    BY <1>1
  <1>3. c = [i \in 0..(items_cap - 1) |->
               IF i >= idx /\ i + 1 < items_len THEN items[i + 1] ELSE items[i]]
    BY <1>1 DEF Without
  <1>4. c \in [0..(items_cap - 1) -> Cells]
    <2>1. \A i \in 0..(items_cap - 1) : i + 1 < items_len => i + 1 \in 0..(items_cap - 1)
      BY <1>1
    <2> QED BY <1>1, <1>3, <2>1
  <1> HIDE DEF c
  <1>5. ASSUME NEW i \in 0..(n - 1)
        PROVE  /\ c[i] = (IF i >= idx THEN items[i + 1] ELSE items[i]) /\ c[i] \in Values
    <2>1. i \in 0..(items_cap - 1) /\ i + 1 < items_len /\ i + 1 \in 0..(items_len - 1) /\ i \in 0..(items_len - 1)
      BY <1>1
    <2>2. c[i] = IF i >= idx THEN items[i + 1] ELSE items[i]
      BY <1>3, <2>1
    <2> QED BY <1>1, <2>1, <2>2
  <1> HIDE DEF n
  <1>6. FitsIn(c, n)
    BY <1>1, <1>2, <1>4, <1>5, FitsFrom
  <1>7. List = ListOf(items, items_len)
    BY DEF List, ListOf
  <1>8. Len(List) = items_len /\ \A k \in 1..items_len : List[k] = items[k - 1]
    BY <1>7, Fits DEF ItemsFit
  <1>9. Len(ListOf(c, n)) = n /\ \A k \in 1..n : ListOf(c, n)[k] = c[k - 1]
    BY <1>6, Fits
  <1>10. Lacks(ListOf(c, n), List, idx + 1)
    <2>1. idx + 1 \in 1..items_len /\ items_len - 1 = n
      BY <1>1, <1>2
    <2>2. ASSUME NEW k \in 1..n
          PROVE  ListOf(c, n)[k] = IF k < idx + 1 THEN List[k] ELSE List[k + 1]
      <3>1. /\ k - 1 \in 0..(n - 1) /\ k \in 1..items_len /\ k + 1 \in 1..items_len
            /\ (k - 1) + 1 = k /\ (k + 1) - 1 = k
        BY <1>1, <1>2
      <3>2. k < idx + 1 <=> ~ (k - 1 >= idx)
        BY <1>2
      <3>3. c[k - 1] = IF k - 1 >= idx THEN items[k] ELSE items[k - 1]
        BY <1>5, <3>1
      <3> QED BY <1>8, <1>9, <3>1, <3>2, <3>3
    <2> QED BY <1>8, <1>9, <2>1, <2>2 DEF Lacks
  <1>11. List[idx + 1] = items[idx]
    <2>1. idx + 1 \in 1..items_len /\ (idx + 1) - 1 = idx
      BY <1>1, <1>2
    <2> QED BY <1>8, <2>1
  <1> QED BY <1>1, <1>2, <1>6, <1>10, <1>11 DEF c, n

(* array.pop leaves the cells alone.                                       *)
LEMMA PoppedList ==
  ASSUME ItemsFit, items_len > 0
  PROVE  /\ FitsIn(items, items_len - 1)
         /\ Lacks(ListOf(items, items_len - 1), List, items_len)
         /\ List[items_len] = items[items_len - 1] /\ items[items_len - 1] \in Values
  <1> DEFINE n == items_len - 1
  <1>1. /\ items_cap \in Nat /\ items_cap <= MaxCap /\ items \in [0..(items_cap - 1) -> Cells]
        /\ items_len \in Nat /\ items_len <= items_cap
        /\ \A i \in 0..(items_len - 1) : items[i] \in Values
    BY Fits DEF ItemsFit, items_cap
  <1> HIDE DEF items_cap
  <1>2. /\ n \in Nat /\ n \in 0..(items_len - 1) /\ n <= items_cap /\ n + 1 = items_len
        /\ \A i \in 0..(n - 1) : i \in 0..(items_len - 1)
    BY <1>1
  <1> HIDE DEF n
  <1>3. FitsIn(items, n)
    BY <1>1, <1>2, FitsFrom
  <1>4. List = ListOf(items, items_len)
    BY DEF List, ListOf
  <1>5. Len(List) = items_len /\ \A k \in 1..items_len : List[k] = items[k - 1]
    BY <1>4, Fits DEF ItemsFit
  <1>6. Len(ListOf(items, n)) = n /\ \A k \in 1..n : ListOf(items, n)[k] = items[k - 1]
    BY <1>3, Fits
  <1>7. Lacks(ListOf(items, n), List, items_len)
    <2>1. items_len \in 1..items_len /\ items_len - 1 = n
      BY <1>1, <1>2
    <2>2. \A k \in 1..n : k < items_len /\ k \in 1..items_len
      BY <1>1, <1>2
    <2> QED BY <1>5, <1>6, <2>1, <2>2 DEF Lacks
  <1>8. List[items_len] = items[n]
    <2>1. items_len \in 1..items_len /\ items_len - 1 = n
      BY <1>1, <1>2
    <2> QED BY <1>5, <2>1
  <1> QED BY <1>1, <1>2, <1>3, <1>7, <1>8 DEF n

(* An item assigned to, or past the end with null in the gap.              *)
Assigned(list, idx, v) ==
  [n \in 1..(IF idx >= Len(list) THEN idx + 1 ELSE Len(list)) |->
     IF n = idx + 1 THEN v ELSE IF n > Len(list) THEN Null ELSE list[n]]

LEMMA ListIs ==
  ASSUME ItemsFit
  PROVE  /\ List \in Seq(Cells) /\ Len(List) = items_len /\ items_len \in Nat
         /\ \A k \in 1..items_len : List[k] = items[k - 1]
  <1>1. List = ListOf(items, items_len)
    BY DEF List, ListOf
  <1> QED BY <1>1, Fits DEF ItemsFit

LEMMA AssignedList ==
  ASSUME ItemsFit, NEW idx \in Nat, idx < items_cap \/ Capacities(idx) # {}, NEW v \in Values,
         NEW cells, cells = [i \in DOMAIN RoomFor(idx) |->
                               IF i = idx THEN v
                               ELSE IF i >= items_len /\ i < idx THEN Null
                               ELSE RoomFor(idx)[i]]
  PROVE  /\ FitsIn(cells, IF idx >= items_len THEN idx + 1 ELSE items_len)
         /\ ListOf(cells, IF idx >= items_len THEN idx + 1 ELSE items_len) = Assigned(List, idx, v)
         /\ idx < items_len => RoomFor(idx)[idx] = List[idx + 1]
         /\ RoomFor(idx)[idx] \in Cells
  <1> DEFINE m == IF idx >= items_len THEN idx + 1 ELSE items_len
  <1>1. items_len \in Nat /\ \A i \in 0..(items_len - 1) : items[i] \in Values
    BY Fits DEF ItemsFit
  <1>2. PICK cap \in Nat : /\ cap <= MaxCap /\ RoomFor(idx) \in [0..(cap - 1) -> Cells]
                           /\ idx < cap /\ items_len <= cap
                           /\ \A i \in 0..(items_len - 1) : RoomFor(idx)[i] = items[i]
                           /\ idx >= items_cap => RoomFor(idx)[idx] = Null
    BY RoomForCells
  <1>3. /\ v \in Cells /\ Null \in Cells /\ Null \in Values
    BY DEF Cells, Values
  <1>4. \A i \in 0..(cap - 1) : cells[i] = IF i = idx THEN v
                                           ELSE IF i >= items_len /\ i < idx THEN Null
                                           ELSE RoomFor(idx)[i]
    BY <1>2
  <1>5. cells \in [0..(cap - 1) -> Cells]
    BY <1>2, <1>3
  <1>6. /\ m \in Nat /\ m <= cap /\ items_len <= m /\ idx + 1 <= m
        /\ m > items_len => m = idx + 1
    BY <1>1, <1>2
  <1>7. m = IF idx >= items_len THEN idx + 1 ELSE items_len
    OBVIOUS
  <1> HIDE DEF m
  <1>8. ASSUME NEW i \in 0..(m - 1)
        PROVE  /\ cells[i] = (IF i = idx THEN v ELSE IF i >= items_len THEN Null ELSE items[i])
               /\ cells[i] \in Values
    <2>1. i \in 0..(cap - 1) /\ i >= 0
      BY <1>2, <1>6
    <2>2. CASE i = idx
      BY <1>4, <2>1, <2>2
    <2>3. CASE i # idx /\ i >= items_len
      <3>1. i < idx
        BY <1>1, <1>6, <2>3
      <3> QED BY <1>3, <1>4, <2>1, <2>3, <3>1
    <2>4. CASE i # idx /\ ~ (i >= items_len)
      <3>1. i \in 0..(items_len - 1)
        BY <1>1, <2>4
      <3> QED BY <1>1, <1>2, <1>4, <2>1, <2>4, <3>1
    <2> QED BY <2>2, <2>3, <2>4
  <1>9. FitsIn(cells, m)
    BY <1>2, <1>5, <1>6, <1>8, FitsFrom
  <1>10. Len(List) = items_len /\ \A k \in 1..items_len : List[k] = items[k - 1]
    BY ListIs
  <1>11. ListOf(cells, m) = Assigned(List, idx, v)
    <2>1. ASSUME NEW n \in 1..m
          PROVE  cells[n - 1] = IF n = idx + 1 THEN v ELSE IF n > items_len THEN Null ELSE List[n]
      <3>1. n - 1 \in 0..(m - 1) /\ (n - 1 = idx <=> n = idx + 1) /\ (n - 1 >= items_len <=> n > items_len)
        BY <1>1, <1>6
      <3>2. ~ (n > items_len) => n \in 1..items_len
        BY <1>1, <1>6
      <3> QED BY <1>8, <1>10, <3>1, <3>2
    <2>2. Assigned(List, idx, v) = [n \in 1..m |->
                                      IF n = idx + 1 THEN v ELSE IF n > items_len THEN Null ELSE List[n]]
      BY <1>7, <1>10 DEF Assigned
    <2> QED BY <2>1, <2>2 DEF ListOf
  <1>12. idx < items_len => RoomFor(idx)[idx] = List[idx + 1]
    <2>1. idx < items_len => idx \in 0..(items_len - 1) /\ idx + 1 \in 1..items_len /\ (idx + 1) - 1 = idx
      BY <1>1
    <2> QED BY <1>2, <1>10, <2>1
  <1>13. RoomFor(idx)[idx] \in Cells
    <2>1. idx \in 0..(cap - 1)
      BY <1>2
    <2> QED BY <1>2, <2>1
  <1> QED BY <1>7, <1>9, <1>11, <1>12, <1>13

(* A string in an assigned list is one it was assigned, or kept.           *)
LEMMA AssignedCopies ==
  ASSUME NEW list \in Seq(Cells), NEW idx \in Nat, NEW v \in Values, NEW s \in Strings
  PROVE  /\ Assigned(list, idx, v) \in Seq(Cells)
         /\ idx < Len(list) => /\ idx + 1 \in 1..Len(list)
                               /\ Copies(Assigned(list, idx, v), s) + Copies(<<list[idx + 1]>>, s)
                                    = Copies(list, s) + Copies(<<v>>, s)
         /\ idx >= Len(list) => Copies(Assigned(list, idx, v), s) = Copies(list, s) + Copies(<<v>>, s)
  <1> DEFINE n == Len(list)
             m == IF idx >= n THEN idx + 1 ELSE n
             l == Assigned(list, idx, v)
  <1>1. n \in Nat /\ \A k \in 1..n : list[k] \in Cells
    BY SeqFacts
  <1>2. /\ m \in Nat /\ n <= m /\ idx + 1 \in 1..m /\ \A k \in 1..m : ~ (k > n) => k \in 1..n
    BY <1>1
  <1>3. l = [k \in 1..m |-> IF k = idx + 1 THEN v ELSE IF k > n THEN Null ELSE list[k]]
    BY DEF Assigned
  <1>4. Null \in Cells /\ v \in Cells /\ s # Null
    BY ArrayAssumption DEF Cells, Values
  <1>5. l \in [1..m -> Cells]
    BY <1>1, <1>2, <1>3, <1>4
  <1>6. m = IF idx >= n THEN idx + 1 ELSE n
    OBVIOUS
  <1> HIDE DEF l, m, n
  <1>7. l \in Seq(Cells) /\ Len(l) = m
    BY <1>2, <1>5
  <1>8. \A k \in 1..m : l[k] = IF k = idx + 1 THEN v ELSE IF k > n THEN Null ELSE list[k]
    BY <1>3
  <1>9. l[idx + 1] = v
    BY <1>2, <1>8
  <1>10. ASSUME idx < n
         PROVE  /\ idx + 1 \in 1..n
                /\ Copies(l, s) + Copies(<<list[idx + 1]>>, s) = Copies(list, s) + Copies(<<v>>, s)
    <2>1. m = n /\ idx + 1 \in 1..n
      BY <1>1, <1>6, <1>10
    <2> DEFINE g == [k \in 1..(n - 1) |-> IF k < idx + 1 THEN list[k] ELSE list[k + 1]]
    <2>2. n - 1 \in Nat /\ \A k \in 1..(n - 1) : k \in 1..n /\ k + 1 \in 1..n
      BY <1>1, <2>1
    <2>3. g \in [1..(n - 1) -> Cells]
      BY <1>1, <2>2
    <2>4. g \in Seq(Cells) /\ Len(g) = n - 1
      <3> HIDE DEF g
      <3> QED BY <2>2, <2>3, FunctionIsSeq
    <2>5. \A k \in 1..(n - 1) : g[k] = IF k < idx + 1 THEN list[k] ELSE list[k + 1]
      OBVIOUS
    <2> HIDE DEF g
    <2>6. Lacks(g, list, idx + 1)
      BY <2>1, <2>4, <2>5 DEF Lacks, n
    <2>7. \A k \in 1..(n - 1) : /\ k < idx + 1 => k # idx + 1 /\ ~ (k > n)
                                /\ ~ (k < idx + 1) => k + 1 # idx + 1 /\ ~ (k + 1 > n)
      BY <1>1, <2>1
    <2>8. Lacks(g, l, idx + 1)
      <3>1. \A k \in 1..(n - 1) : g[k] = IF k < idx + 1 THEN l[k] ELSE l[k + 1]
        BY <1>8, <2>1, <2>2, <2>5, <2>7
      <3> QED BY <1>7, <2>1, <2>4, <3>1 DEF Lacks
    <2>9. Copies(list, s) = Copies(g, s) + Copies(<<list[idx + 1]>>, s)
      <3>1. PICK e : list[idx + 1] = e
        OBVIOUS
      <3>2. Copies(list, s) = Copies(g, s) + Copies(<<e>>, s)
        BY <2>4, <2>6, <3>1, LacksCopies
      <3> QED BY <3>1, <3>2
    <2>10. Copies(l, s) = Copies(g, s) + Copies(<<v>>, s)
      BY <1>7, <1>9, <2>4, <2>8, LacksCopies
    <2>11. Copies(g, s) \in Nat
      BY <2>4, CopiesType
    <2> QED BY <2>1, <2>9, <2>10, <2>11, CopiesNat
  <1>11. ASSUME idx >= n
         PROVE  Copies(l, s) = Copies(list, s) + Copies(<<v>>, s)
    <2>1. m = idx + 1 /\ idx - n \in Nat
      BY <1>1, <1>6, <1>11
    <2> DEFINE g == [k \in 1..(idx - n) |-> Null]
               h == list \o g
    <2>2. g \in [1..(idx - n) -> Cells]
      BY <1>4
    <2>3. g \in Seq(Cells) /\ Len(g) = idx - n
      BY <2>1, <2>2
    <2>4. \A k \in 1..(idx - n) : g[k] = Null
      OBVIOUS
    <2> HIDE DEF g
    <2>5. Copies(g, s) = 0
      BY <1>4, <2>3, <2>4, CopiesNone
    <2>6. h \in Seq(Cells) /\ Copies(h, s) = Copies(list, s) + Copies(g, s)
      BY <2>3, CopiesConcat
    <2>7. Len(h) = Len(list) + Len(g) /\ \A k \in 1..Len(list) + Len(g) :
                                           h[k] = IF k <= Len(list) THEN list[k] ELSE g[k - Len(list)]
      BY <2>3, ConcatProperties
    <2> HIDE DEF h
    <2>8. Len(h) = idx /\ \A k \in 1..idx : h[k] = IF k > n THEN Null ELSE list[k]
      <3>1. Len(list) + Len(g) = idx
        BY <1>1, <2>3 DEF n
      <3>2. ASSUME NEW k \in 1..idx
            PROVE  h[k] = IF k > n THEN Null ELSE list[k]
        <4>1. (k > n <=> ~ (k <= n)) /\ (k > n => k - n \in 1..(idx - n))
          BY <1>1
        <4> QED BY <2>4, <2>7, <3>1, <4>1 DEF n
      <3> QED BY <2>7, <3>1, <3>2
    <2>9. Lacks(h, l, idx + 1)
      <3>1. \A k \in 1..idx : k < idx + 1 /\ k # idx + 1 /\ k \in 1..(idx + 1)
        OBVIOUS
      <3>2. (idx + 1) - 1 = idx /\ idx + 1 \in 1..(idx + 1)
        OBVIOUS
      <3> QED BY <1>7, <1>8, <2>1, <2>8, <3>1, <3>2 DEF Lacks
    <2>10. Copies(l, s) = Copies(h, s) + Copies(<<v>>, s)
      BY <1>7, <1>9, <2>6, <2>9, LacksCopies
    <2>11. Copies(list, s) \in Nat
      BY CopiesType
    <2> QED BY <2>5, <2>6, <2>10, <2>11
  <1> QED BY <1>7, <1>10, <1>11 DEF l, n

-----------------------------------------------------------------------------
(* References.                                                             *)

LEMMA CopiedRefs ==
  ASSUME NEW r \in [Strings -> Nat], NEW v \in Values
  PROVE  /\ Copied(r, v) \in [Strings -> Nat]
         /\ \A s \in Strings : Copied(r, v)[s] = r[s] + Copies(<<v>>, s)
  <1>1. CASE v \in Strings
    <2> DEFINE q == [r EXCEPT ![v] = @ + 1]
    <2>1. Copied(r, v) = q
      BY <1>1 DEF Copied
    <2>2. q \in [Strings -> Nat] /\ \A s \in Strings : q[s] = IF s = v THEN r[s] + 1 ELSE r[s]
      BY <1>1
    <2> HIDE DEF q
    <2>3. ASSUME NEW s \in Strings
          PROVE  q[s] = r[s] + Copies(<<v>>, s)
      <3>1. Copies(<<v>>, s) = IF v = s THEN 1 ELSE 0
        BY CopiesOne
      <3>2. r[s] \in Nat
        OBVIOUS
      <3> QED BY <2>2, <3>1, <3>2
    <2> QED BY <2>1, <2>2, <2>3
  <1>2. CASE v \notin Strings
    <2>1. Copied(r, v) = r
      BY <1>2 DEF Copied
    <2>2. ASSUME NEW s \in Strings
          PROVE  r[s] = r[s] + Copies(<<v>>, s)
      <3>1. Copies(<<v>>, s) = IF v = s THEN 1 ELSE 0
        BY CopiesOne
      <3>2. r[s] \in Nat
        OBVIOUS
      <3> QED BY <1>2, <3>1, <3>2
    <2> QED BY <2>1, <2>2
  <1> QED BY <1>1, <1>2

LEMMA ReleasedRefs ==
  ASSUME NEW r \in [Strings -> Nat], NEW v, v \in Strings => r[v] > 0
  PROVE  /\ Released(r, v) \in [Strings -> Nat]
         /\ \A s \in Strings : /\ r[s] >= Copies(<<v>>, s)
                               /\ Released(r, v)[s] = r[s] - Copies(<<v>>, s)
  <1>1. CASE v \in Strings
    <2> DEFINE q == [r EXCEPT ![v] = @ - 1]
    <2>1. Released(r, v) = q
      BY <1>1 DEF Released
    <2>2. \A n \in Nat : n > 0 => n - 1 \in Nat
      OBVIOUS
    <2>3. r[v] - 1 \in Nat
      BY <1>1, <2>2
    <2>4. q \in [Strings -> Nat] /\ \A s \in Strings : q[s] = IF s = v THEN r[s] - 1 ELSE r[s]
      BY <1>1, <2>3
    <2> HIDE DEF q
    <2>5. ASSUME NEW s \in Strings
          PROVE  r[s] >= Copies(<<v>>, s) /\ q[s] = r[s] - Copies(<<v>>, s)
      <3>1. Copies(<<v>>, s) = IF v = s THEN 1 ELSE 0
        BY CopiesOne
      <3>2. r[s] \in Nat
        OBVIOUS
      <3>3. v = s => r[s] >= 1
        BY <1>1, <3>2
      <3> QED BY <2>4, <3>1, <3>2, <3>3
    <2> QED BY <2>1, <2>4, <2>5
  <1>2. CASE v \notin Strings
    <2>1. Released(r, v) = r
      BY <1>2 DEF Released
    <2>2. ASSUME NEW s \in Strings
          PROVE  r[s] >= Copies(<<v>>, s) /\ r[s] = r[s] - Copies(<<v>>, s)
      <3>1. Copies(<<v>>, s) = IF v = s THEN 1 ELSE 0
        BY CopiesOne
      <3>2. r[s] \in Nat
        OBVIOUS
      <3> QED BY <1>2, <3>1, <3>2
    <2> QED BY <2>1, <2>2
  <1> QED BY <1>1, <1>2

LEMMA ReleasedType ==
  ASSUME NEW r \in [Strings -> Nat], NEW v
  PROVE  Released(r, v) \in [Strings -> Nat]
  <1>1. CASE v \in Strings /\ r[v] > 0
    BY <1>1, ReleasedRefs
  <1>2. CASE ~ (v \in Strings /\ r[v] > 0)
    BY <1>2 DEF Released
  <1> QED BY <1>1, <1>2

LEMMA ResultType ==
  ASSUME CallsFit, NEW s
  PROVE  InResult(s) \in Nat
  <1>1. result \in Seq(Cells)
    BY DEF CallsFit, WalkFits
  <1>2. Copies(result, s) \in Nat
    BY <1>1, CopiesType
  <1> QED BY <1>2 DEF InResult

(* A string that somebody owns, and one in the list, has a reference.      *)
LEMMA OwnedIsHeld ==
  ASSUME StoreInv, Sane, NEW s \in Strings
  PROVE  /\ ~stray /\ refs[s] \in Nat /\ held[s] \in Nat /\ stolen[s] \in Nat
         /\ InResult(s) \in Nat /\ Copies(List, s) \in Nat
         /\ refs[s] + stolen[s] = held[s] + InResult(s) + Copies(List, s)
         /\ held[s] > 0 \/ InResult(s) > 0 \/ Copies(List, s) > 0 => refs[s] > 0
  <1>1. refs[s] \in Nat /\ held[s] \in Nat /\ stolen[s] \in Nat
    BY DEF StoreInv, Balanced
  <1>2. InResult(s) \in Nat /\ Copies(List, s) \in Nat
    BY ResultType, ListIs, CopiesType DEF StoreInv
  <1>3. ~stray /\ (Owners(s) > 0 => refs[s] > 0)
    BY DEF Sane
  <1>4. refs[s] + stolen[s] = held[s] + InResult(s) + Copies(List, s)
    BY <1>3 DEF StoreInv, Balanced
  <1>5. Owners(s) = held[s] + InResult(s) + Copies(List, s)
    BY DEF Owners
  <1> QED BY <1>1, <1>2, <1>3, <1>4, <1>5

LEMMA ListedIsHeld ==
  ASSUME StoreInv, Sane, NEW t \in Seq(Cells), NEW i, Lacks(t, List, i), NEW v, List[i] = v
  PROVE  v \in Strings => refs[v] > 0
  <1>1. Copies(List, v) = Copies(t, v) + Copies(<<v>>, v)
    BY ListIs, LacksCopies DEF StoreInv
  <1>2. Copies(<<v>>, v) = 1
    BY CopiesOne
  <1>3. Copies(t, v) \in Nat
    BY CopiesType
  <1>4. ASSUME v \in Strings
        PROVE  refs[v] > 0
    <2>1. Copies(List, v) > 0
      BY <1>1, <1>2, <1>3
    <2> QED BY <1>4, <2>1, OwnedIsHeld
  <1> QED BY <1>4

-----------------------------------------------------------------------------
(* The script's steps, between the calls of array.c and in callbacks.      *)

InScript == walk.at \in {"none", "callback"}

LEMMA ScriptHasNoResult ==
  ASSUME WalkFits, InScript
  PROVE  walk.kind \notin {"copy", "splice"} /\ \A s : InResult(s) = 0
  BY DEF WalkFits, InScript, InResult, Calls

LEMMA DisturbsWalk ==
  ASSUME WalkFits, InScript, NEW shrinks \in BOOLEAN, Disturbs(shrinks)
  PROVE  /\ WalkFits' /\ \A s : InResult(s)' = 0
         /\ walk'.kind = walk.kind /\ walk'.at = walk.at
         /\ walk'.index = walk.index /\ walk'.count = walk.count /\ walk'.arg = walk.arg
         /\ walk.at = "none" => walk' = walk /\ result' = result
         /\ walk.at = "callback" => ~walk'.same /\ walk'.shrunk = (walk.shrunk \/ shrinks)
  <1>1. walk.at \in {"none", "callback"} /\ walk.kind \notin {"copy", "splice"}
    BY ScriptHasNoResult DEF InScript
  <1>2. CASE walk.at = "none"
    <2>1. walk' = walk /\ result' = result
      BY <1>2 DEF Disturbs, InCallback
    <2>2. WalkFits'
      BY <2>1 DEF WalkFits
    <2> QED BY <1>1, <1>2, <2>1, <2>2 DEF InResult
  <1>3. CASE walk.at = "callback"
    <2> DEFINE w == [walk EXCEPT !.was = <<>>, !.same = FALSE, !.shrunk = @ \/ shrinks]
    <2>1. walk' = w /\ result' = <<>>
      BY <1>3 DEF Disturbs, InCallback
    <2>2. walk \in Walks
      BY DEF WalkFits
    <2>3. <<>> \in Seq(Cells)
      BY EmptySeq
    <2>4. /\ w \in Walks /\ w.kind = walk.kind /\ w.at = walk.at /\ w.index = walk.index
          /\ w.count = walk.count /\ w.arg = walk.arg /\ ~w.same
          /\ w.shrunk = (walk.shrunk \/ shrinks)
      BY <2>2, <2>3 DEF Walks
    <2>5. walk.kind \in Calls /\ walk.index < walk.count /\ walk.kind # "none" /\ walk.kind # "splice"
      BY <1>3 DEF WalkFits, Calls
    <2> HIDE DEF w
    <2>6. /\ walk' \in Walks /\ walk'.kind = walk.kind /\ walk'.at = walk.at /\ walk'.index = walk.index
          /\ walk'.count = walk.count /\ walk'.arg = walk.arg /\ ~walk'.same /\ result' \in Seq(Cells)
          /\ walk'.shrunk = (walk.shrunk \/ shrinks)
      BY <2>1, <2>3, <2>4
    <2>7. WalkFits'
      BY <1>3, <2>5, <2>6 DEF WalkFits
    <2> QED BY <1>1, <1>3, <2>6, <2>7 DEF InResult
  <1> QED BY <1>1, <1>2, <1>3

(* An item more, with a reference of its own.                              *)
LEMMA MoreBalanced ==
  ASSUME StoreInv, Sane, NEW v \in Values, NEW i, NEW cells, FitsIn(cells, items_len + 1),
         Lacks(List, ListOf(cells, items_len + 1), i), ListOf(cells, items_len + 1)[i] = v,
         items' = cells, items_len' = items_len + 1, refs' = Copied(refs, v), held' = held,
         stolen' = stolen,
         \A s \in Strings : InResult(s)' = InResult(s)
  PROVE  ItemsFit' /\ Balanced'
  <1> DEFINE l == ListOf(cells, items_len + 1)
  <1>1. l \in Seq(Cells) /\ List \in Seq(Cells)
    BY Fits, ListIs DEF StoreInv
  <1>2. ASSUME NEW s \in Strings
        PROVE  Copies(l, s) = Copies(List, s) + Copies(<<v>>, s)
    <2> HIDE DEF l
    <2>1. Lacks(List, l, i) /\ l[i] = v
      BY DEF l
    <2> QED BY <1>1, <2>1, LacksCopies
  <1>3. List' = l /\ ItemsFit'
    BY DEF List, ListOf, ItemsFit
  <1> HIDE DEF l
  <1>4. refs \in [Strings -> Nat] /\ held \in [Strings -> Nat] /\ stolen \in [Strings -> Nat]
    BY DEF StoreInv, Balanced
  <1>5. refs' \in [Strings -> Nat] /\ \A s \in Strings : refs'[s] = refs[s] + Copies(<<v>>, s)
    BY <1>4, CopiedRefs
  <1>6. ASSUME NEW s \in Strings
        PROVE  refs'[s] + stolen'[s] = held'[s] + InResult(s)' + Copies(List', s)
    <2>1. /\ held[s] \in Nat /\ refs[s] \in Nat /\ stolen[s] \in Nat /\ Copies(<<v>>, s) \in Nat
          /\ Copies(List, s) \in Nat /\ InResult(s) \in Nat
          /\ refs[s] + stolen[s] = held[s] + InResult(s) + Copies(List, s)
      BY CopiesNat, OwnedIsHeld
    <2>2. InResult(s)' = InResult(s) /\ held'[s] = held[s] /\ stolen'[s] = stolen[s]
      OBVIOUS
    <2>3. Copies(List', s) = Copies(List, s) + Copies(<<v>>, s)
      BY <1>2, <1>3
    <2>4. refs'[s] = refs[s] + Copies(<<v>>, s)
      BY <1>5
    <2> QED BY <2>1, <2>2, <2>3, <2>4
  <1>7. held' \in [Strings -> Nat] /\ stolen' \in [Strings -> Nat]
    BY <1>4
  <1> QED BY <1>3, <1>5, <1>6, <1>7 DEF Balanced

LEMMA PushStores ==
  ASSUME StoreInv, Sane, InScript, popping = {}, NEW v \in Values, Push(v)
  PROVE  StoreInv'
  <1> DEFINE c == [Room EXCEPT ![items_len] = v]
  <1>1. /\ FitsIn(c, items_len + 1) /\ Lacks(List, ListOf(c, items_len + 1), items_len + 1)
        /\ ListOf(c, items_len + 1)[items_len + 1] = v
    BY PushedList DEF StoreInv, Push
  <1>2. /\ items' = c /\ items_len' = items_len + 1 /\ refs' = Copied(refs, v)
        /\ UNCHANGED <<readonly, held, popping, stray, stolen, walk, result>>
    BY DEF Push
  <1> HIDE DEF c
  <1>3. \A s \in Strings : InResult(s)' = InResult(s)
    BY <1>2 DEF InResult
  <1>4. ItemsFit' /\ Balanced'
    BY <1>1, <1>2, <1>3, MoreBalanced
  <1>5. CallsFit'
    BY <1>2 DEF StoreInv, CallsFit, WalkFits
  <1> QED BY <1>4, <1>5 DEF StoreInv

LEMMA InsertStores ==
  ASSUME StoreInv, Sane, InScript, popping = {}, NEW idx \in Nat, NEW v \in Values, Insert(idx, v)
  PROVE  StoreInv'
  <1> DEFINE at == IF idx > items_len THEN items_len ELSE idx
             c == [i \in DOMAIN Room |->
                     IF i = at THEN v
                     ELSE IF i > at /\ i <= items_len THEN Room[i - 1]
                     ELSE Room[i]]
  <1>1. items_len \in Nat /\ at \in 0..items_len
    BY Fits DEF StoreInv, ItemsFit
  <1>2. /\ items' = c /\ items_len' = items_len + 1 /\ refs' = Copied(refs, v) /\ Disturbs(FALSE)
        /\ UNCHANGED <<readonly, held, popping, stray, stolen>>
    BY DEF Insert
  <1>3. WithinBound(Room)
    BY DEF Insert
  <1> HIDE DEF at
  <1>4. /\ FitsIn(c, items_len + 1) /\ Lacks(List, ListOf(c, items_len + 1), at + 1)
        /\ ListOf(c, items_len + 1)[at + 1] = v
    BY <1>1, <1>3, InsertedList DEF StoreInv
  <1> HIDE DEF c
  <1>5. WalkFits
    BY DEF StoreInv, CallsFit
  <1>6. WalkFits' /\ walk'.at = walk.at /\ \A s \in Strings : InResult(s)' = InResult(s)
    BY <1>2, <1>5, DisturbsWalk, ScriptHasNoResult
  <1>7. ItemsFit' /\ Balanced'
    BY <1>2, <1>4, <1>6, MoreBalanced
  <1>8. CallsFit'
    BY <1>2, <1>6 DEF StoreInv, CallsFit
  <1> QED BY <1>7, <1>8 DEF StoreInv

(* An item less, whose reference went elsewhere.                           *)
LEMMA LessBalanced ==
  ASSUME StoreInv, Sane, NEW v, NEW i, NEW cells, FitsIn(cells, items_len - 1),
         Lacks(ListOf(cells, items_len - 1), List, i), List[i] = v,
         items' = cells, items_len' = items_len - 1,
         refs' \in [Strings -> Nat], held' \in [Strings -> Nat],
         stolen' = stolen,
         \A s \in Strings :
           /\ InResult(s)' \in Nat
           /\ refs'[s] + held[s] + InResult(s) + Copies(<<v>>, s) = refs[s] + held'[s] + InResult(s)'
  PROVE  ItemsFit' /\ Balanced'
  <1> DEFINE l == ListOf(cells, items_len - 1)
  <1>1. l \in Seq(Cells) /\ List \in Seq(Cells)
    BY Fits, ListIs DEF StoreInv
  <1>2. ASSUME NEW s \in Strings
        PROVE  Copies(List, s) = Copies(l, s) + Copies(<<v>>, s)
    <2> HIDE DEF l
    <2>1. Lacks(l, List, i) /\ List[i] = v
      BY DEF l
    <2> QED BY <1>1, <2>1, LacksCopies
  <1>3. List' = l /\ ItemsFit'
    BY DEF List, ListOf, ItemsFit
  <1> HIDE DEF l
  <1>4. stolen' \in [Strings -> Nat]
    BY DEF StoreInv, Balanced
  <1>5. ASSUME NEW s \in Strings
        PROVE  refs'[s] + stolen'[s] = held'[s] + InResult(s)' + Copies(List', s)
    <2>1. /\ held[s] \in Nat /\ Copies(<<v>>, s) \in Nat /\ Copies(l, s) \in Nat /\ InResult(s) \in Nat
          /\ held'[s] \in Nat /\ refs'[s] \in Nat /\ refs[s] \in Nat /\ InResult(s)' \in Nat
          /\ stolen[s] \in Nat /\ stolen'[s] = stolen[s]
      BY <1>1, CopiesNat, CopiesType, OwnedIsHeld
    <2>2. refs'[s] + held[s] + InResult(s) + Copies(<<v>>, s) = refs[s] + held'[s] + InResult(s)'
      OBVIOUS
    <2>3. refs[s] + stolen[s] = held[s] + InResult(s) + Copies(l, s) + Copies(<<v>>, s)
      <3>1. refs[s] + stolen[s] = held[s] + InResult(s) + Copies(List, s)
        BY OwnedIsHeld
      <3> QED BY <1>2, <2>1, <3>1
    <2>4. Copies(List', s) = Copies(l, s)
      BY <1>3
    <2>5. PICK mine, out, left, inside, own, count, count2, inside2, took \in Nat :
            /\ mine = held[s] /\ out = Copies(<<v>>, s) /\ left = Copies(l, s) /\ inside = InResult(s)
            /\ own = held'[s] /\ count2 = refs'[s] /\ count = refs[s] /\ inside2 = InResult(s)'
            /\ took = stolen[s]
      BY <2>1
    <2>6. /\ count2 + mine + inside + out = count + own + inside2
          /\ count + took = mine + inside + left + out
      BY <2>2, <2>3, <2>5
    <2>7. count2 + took = own + inside2 + left
      BY <2>6
    <2> QED BY <2>1, <2>4, <2>5, <2>7
  <1> QED BY <1>3, <1>4, <1>5 DEF Balanced

LEMMA RemoveStores ==
  ASSUME StoreInv, Sane, InScript, popping = {}, NEW idx \in Nat, Remove(idx)
  PROVE  StoreInv'
  <1>1. /\ items' = Without(idx) /\ items_len' = items_len - 1 /\ held' = Copied(held, items[idx]) /\ Disturbs(TRUE)
        /\ UNCHANGED <<readonly, refs, popping, stray, stolen>> /\ idx < items_len
    BY DEF Remove
  <1>2. PICK v : v = items[idx]
    OBVIOUS
  <1>3. /\ FitsIn(Without(idx), items_len - 1)
        /\ Lacks(ListOf(Without(idx), items_len - 1), List, idx + 1)
        /\ List[idx + 1] = v /\ v \in Values
    BY <1>1, <1>2, RemovedList DEF StoreInv
  <1>4. refs \in [Strings -> Nat] /\ held \in [Strings -> Nat]
    BY DEF StoreInv, Balanced
  <1>5. held' = Copied(held, v)
    BY <1>1, <1>2
  <1>6. held' \in [Strings -> Nat] /\ \A s \in Strings : held'[s] = held[s] + Copies(<<v>>, s)
    BY <1>3, <1>4, <1>5, CopiedRefs
  <1>7. WalkFits
    BY DEF StoreInv, CallsFit
  <1>8. WalkFits' /\ walk'.at = walk.at /\ \A s \in Strings : InResult(s)' = 0 /\ InResult(s) = 0
    BY <1>1, <1>7, DisturbsWalk, ScriptHasNoResult
  <1>9. ASSUME NEW s \in Strings
        PROVE  /\ InResult(s)' \in Nat
               /\ refs'[s] + held[s] + InResult(s) + Copies(<<v>>, s) = refs[s] + held'[s] + InResult(s)'
    <2>1. held[s] \in Nat /\ refs[s] \in Nat /\ Copies(<<v>>, s) \in Nat
      BY <1>4, CopiesNat
    <2>2. refs'[s] = refs[s]
      BY <1>1
    <2> QED BY <1>6, <1>8, <2>1, <2>2
  <1>10. PICK c : c = Without(idx)
    OBVIOUS
  <1>11. refs' \in [Strings -> Nat] /\ items' = c /\ items_len' = items_len - 1 /\ stolen' = stolen
    BY <1>1, <1>4, <1>10
  <1>12. FitsIn(c, items_len - 1) /\ Lacks(ListOf(c, items_len - 1), List, idx + 1) /\ List[idx + 1] = v
    BY <1>3, <1>10
  <1>13. ItemsFit' /\ Balanced'
    BY <1>6, <1>9, <1>11, <1>12, LessBalanced
  <1>14. CallsFit'
    BY <1>1, <1>8 DEF StoreInv, CallsFit
  <1> QED BY <1>13, <1>14 DEF StoreInv

LEMMA PopTestStores ==
  ASSUME StoreInv, InScript, popping = {}, NEW t \in Threads, PopTest(t)
  PROVE  StoreInv'
  <1>1. /\ items_len # 0 /\ popping' = {t}
        /\ UNCHANGED <<items, items_len, readonly, refs, held, stray, stolen, walk, result>>
    BY DEF PopTest
  <1>2. items_len \in Nat
    BY Fits DEF StoreInv, ItemsFit
  <1>3. ItemsFit' /\ WalkFits'
    BY <1>1 DEF StoreInv, ItemsFit, CallsFit, WalkFits
  <1>4. CallsFit'
    BY <1>1, <1>2, <1>3 DEF StoreInv, CallsFit, InScript
  <1>5. Balanced'
    BY <1>1 DEF StoreInv, Balanced, List, InResult
  <1> QED BY <1>3, <1>4, <1>5 DEF StoreInv

LEMMA PoppedLen ==
  ASSUME StoreInv, items_len > 0
  PROVE  (items_len + Modulus - 1) % Modulus = items_len - 1
  <1>1. /\ items_len \in Nat /\ items_len <= MaxCap /\ MaxCap \in Nat /\ Modulus \in Nat
        /\ Modulus > 2 * MaxCap
    BY Fits, ArrayAssumption DEF StoreInv, ItemsFit
  <1>2. items_len - 1 \in 0..(Modulus - 1) /\ Modulus > 0
    BY <1>1
  <1>3. \A m, k \in Nat : m > 0 /\ k < m => (k + m) % m = k
    OBVIOUS
  <1>4. PICK k \in Nat : k = items_len - 1
    BY <1>2
  <1>5. items_len + Modulus - 1 = k + Modulus /\ k < Modulus
    BY <1>1, <1>4
  <1> QED BY <1>1, <1>2, <1>3, <1>4, <1>5

LEMMA PopTakeStores ==
  ASSUME StoreInv, Sane, InScript, NEW t \in Threads, PopTake(t)
  PROVE  StoreInv' /\ items_len > 0 /\ items' = items /\ items_len' = items_len - 1
  <1>1. /\ t \in popping /\ popping' = popping \ {t} /\ Disturbs(TRUE)
        /\ items_len' = (items_len + Modulus - 1) % Modulus
        /\ refs' = (IF items_len' \in DOMAIN items THEN Released(refs, items[items_len']) ELSE refs)
        /\ UNCHANGED <<items, readonly, held, stray, stolen>>
    BY DEF PopTake
  <1>2. items_len > 0 /\ popping' = {}
    BY <1>1 DEF StoreInv, CallsFit
  <1>3. items_len' = items_len - 1
    BY <1>1, <1>2, PoppedLen
  <1>4. PICK v : v = items[items_len - 1]
    OBVIOUS
  <1>5. /\ FitsIn(items, items_len - 1)
        /\ Lacks(ListOf(items, items_len - 1), List, items_len)
        /\ List[items_len] = v /\ v \in Values
    BY <1>2, <1>4, PoppedList DEF StoreInv
  <1>6. items_len - 1 \in DOMAIN items
    <2>1. items_len \in Nat /\ items_len - 1 \in 0..(items_len - 1)
      BY <1>2, Fits DEF StoreInv, ItemsFit
    <2> QED BY <2>1, Fits DEF StoreInv, ItemsFit
  <1>7. refs' = Released(refs, v)
    BY <1>1, <1>3, <1>4, <1>6
  <1>8. refs \in [Strings -> Nat] /\ held \in [Strings -> Nat]
    BY DEF StoreInv, Balanced
  <1>9. v \in Strings => refs[v] > 0
    <2>1. ListOf(items, items_len - 1) \in Seq(Cells)
      BY <1>5, Fits
    <2> QED BY <1>5, <2>1, ListedIsHeld
  <1>10. /\ refs' \in [Strings -> Nat]
         /\ \A s \in Strings : refs[s] >= Copies(<<v>>, s) /\ refs'[s] = refs[s] - Copies(<<v>>, s)
    BY <1>7, <1>8, <1>9, ReleasedRefs
  <1>11. WalkFits
    BY DEF StoreInv, CallsFit
  <1>12. WalkFits' /\ walk'.at = walk.at /\ \A s \in Strings : InResult(s)' = 0 /\ InResult(s) = 0
    BY <1>1, <1>11, DisturbsWalk, ScriptHasNoResult
  <1>13. ASSUME NEW s \in Strings
        PROVE  /\ InResult(s)' \in Nat
               /\ refs'[s] + held[s] + InResult(s) + Copies(<<v>>, s) = refs[s] + held'[s] + InResult(s)'
    <2>1. held[s] \in Nat /\ refs[s] \in Nat /\ Copies(<<v>>, s) \in Nat
      BY <1>8, CopiesNat
    <2>2. held'[s] = held[s]
      BY <1>1
    <2> QED BY <1>10, <1>12, <2>1, <2>2
  <1>14. held' \in [Strings -> Nat] /\ items' = items /\ stolen' = stolen
    BY <1>1, <1>8
  <1>15. ItemsFit' /\ Balanced'
    <2>1. PICK c : c = items
      OBVIOUS
    <2>2. FitsIn(c, items_len - 1) /\ Lacks(ListOf(c, items_len - 1), List, items_len) /\ items' = c
      BY <1>5, <1>14, <2>1
    <2> QED BY <1>3, <1>5, <1>10, <1>13, <1>14, <2>2, LessBalanced
  <1>16. CallsFit'
    BY <1>1, <1>2, <1>12 DEF StoreInv, CallsFit
  <1> QED BY <1>2, <1>3, <1>14, <1>15, <1>16 DEF StoreInv

(* What the cell held before is released: its item, nothing, a string that *)
(* somebody else owns, or what is none.                                    *)
LEMMA RawSetIdxStores ==
  ASSUME StoreInv, Sane, InScript, popping = {},
         NEW idx \in Nat, NEW v \in Values, RawSetIdx(idx, v)
  PROVE  StoreInv'
  <1> DEFINE c == [i \in DOMAIN RoomFor(idx) |->
                     IF i = idx THEN v
                     ELSE IF i >= items_len /\ i < idx THEN Null
                     ELSE RoomFor(idx)[i]]
             m == IF idx >= items_len THEN idx + 1 ELSE items_len
             foreign(old) == idx >= items_len /\ old # Null
  <1>1. PICK old : old = RoomFor(idx)[idx]
    OBVIOUS
  <1>2. idx < items_cap \/ Capacities(idx) # {}
    BY DEF RawSetIdx
  <1>3. /\ items' = c /\ items_len' = m /\ Disturbs(FALSE)
        /\ stray' = (foreign(old) /\ (old = Junk \/ refs[old] = 0))
        /\ stolen' = (IF foreign(old) /\ ~stray' THEN Copied(stolen, old) ELSE stolen)
        /\ refs' = Copied(Released(refs, old), v)
        /\ UNCHANGED <<readonly, held, popping>>
    BY <1>1 DEF RawSetIdx
  <1>4. /\ FitsIn(c, m) /\ ListOf(c, m) = Assigned(List, idx, v)
        /\ idx < items_len => RoomFor(idx)[idx] = List[idx + 1]
        /\ old \in Cells
    BY <1>1, <1>2, AssignedList DEF StoreInv
  <1>5. foreign(old) <=> idx >= items_len /\ old # Null
    OBVIOUS
  <1> HIDE DEF c, m, foreign
  <1>6. /\ items_len \in Nat /\ Len(List) = items_len /\ List \in Seq(Cells)
        /\ idx < items_len <=> ~ (idx >= items_len)
    BY ListIs DEF StoreInv
  <1>7. /\ refs \in [Strings -> Nat] /\ held \in [Strings -> Nat] /\ stolen \in [Strings -> Nat]
        /\ Null \notin Strings /\ Junk \notin Strings
    BY ArrayAssumption DEF StoreInv, Balanced
  <1>8. PICK r : r = Released(refs, old)
    OBVIOUS
  <1>9. r \in [Strings -> Nat]
    BY <1>7, <1>8, ReleasedType
  <1>10. refs' = Copied(r, v)
    BY <1>3, <1>8
  <1>11. refs' \in [Strings -> Nat] /\ \A s \in Strings : refs'[s] = r[s] + Copies(<<v>>, s)
    BY <1>9, <1>10, CopiedRefs
  <1>12. idx < items_len => idx + 1 \in 1..Len(List) /\ old = List[idx + 1] /\ old \in Values
    <2>1. ASSUME idx < items_len
          PROVE  idx + 1 \in 1..items_len /\ idx \in 0..(items_len - 1) /\ (idx + 1) - 1 = idx
      BY <1>6, <2>1
    <2>2. ASSUME idx < items_len
          PROVE  List[idx + 1] \in Values
      <3>1. List[idx + 1] = items[idx]
        BY <2>1, <2>2, ListIs DEF StoreInv
      <3> QED BY <2>1, <2>2, <3>1, Fits DEF StoreInv, ItemsFit
    <2> QED BY <1>1, <1>4, <1>6, <2>1, <2>2
  <1>13. stolen' \in [Strings -> Nat]
    <2>1. ASSUME foreign(old), ~stray'
          PROVE  old \in Values
      BY <1>3, <1>4, <2>1 DEF Cells
    <2> QED BY <1>3, <1>7, <2>1, CopiedRefs
  <1>14. WalkFits
    BY DEF StoreInv, CallsFit
  <1>15. WalkFits' /\ walk'.at = walk.at /\ \A s \in Strings : InResult(s)' = 0 /\ InResult(s) = 0
    BY <1>3, <1>14, DisturbsWalk, ScriptHasNoResult
  <1>16. List' = Assigned(List, idx, v)
    <2>1. List' = ListOf(c, m)
      BY <1>3 DEF List, ListOf
    <2> QED BY <1>4, <2>1
  <1>17. ASSUME ~stray'
         PROVE  old \in Strings => refs[old] > 0
    <2>1. CASE idx < items_len
      <3>1. ASSUME old \in Strings
            PROVE  refs[old] > 0
        <4>1. \E k \in DOMAIN List : List[k] = old
          BY <1>6, <1>12, <2>1
        <4>2. {k \in DOMAIN List : List[k] = old} # {} /\ IsFiniteSet({k \in DOMAIN List : List[k] = old})
          BY <1>6, <4>1, CopiesType
        <4>3. Copies(List, old) # 0
          BY <4>2, FS_EmptySet DEF Copies
        <4>4. Copies(List, old) \in Nat
          BY <1>6, CopiesType
        <4>5. Copies(List, old) > 0
          BY <4>3, <4>4
        <4> QED BY <3>1, <4>5, OwnedIsHeld
      <3> QED BY <3>1
    <2>2. CASE ~ (idx < items_len)
      <3>1. ASSUME old \in Strings
            PROVE  refs[old] > 0
        <4>1. foreign(old)
          BY <1>5, <1>6, <1>7, <2>2, <3>1
        <4>2. refs[old] # 0 /\ refs[old] \in Nat
          BY <1>3, <1>7, <1>17, <3>1, <4>1
        <4> QED BY <4>2
      <3> QED BY <3>1
    <2> QED BY <2>1, <2>2
  <1>18. ASSUME ~stray', NEW s \in Strings
         PROVE  /\ stolen'[s] \in Nat
                /\ Copies(List', s) + Copies(<<old>>, s) + stolen[s]
                     = Copies(List, s) + Copies(<<v>>, s) + stolen'[s]
    <2>1. /\ Assigned(List, idx, v) \in Seq(Cells)
          /\ idx < Len(List) => /\ idx + 1 \in 1..Len(List)
                                /\ Copies(Assigned(List, idx, v), s) + Copies(<<List[idx + 1]>>, s)
                                     = Copies(List, s) + Copies(<<v>>, s)
          /\ idx >= Len(List) => Copies(Assigned(List, idx, v), s) = Copies(List, s) + Copies(<<v>>, s)
      BY <1>6, AssignedCopies
    <2>2. /\ Copies(List', s) \in Nat /\ Copies(<<old>>, s) \in Nat /\ Copies(<<v>>, s) \in Nat
          /\ Copies(List, s) \in Nat /\ stolen[s] \in Nat
      BY <1>6, <1>7, <1>16, <2>1, CopiesType, CopiesNat
    <2>3. CASE idx < items_len
      <3>1. stolen' = stolen
        BY <1>3, <1>5, <1>6, <2>3
      <3>2. Copies(List', s) + Copies(<<old>>, s) = Copies(List, s) + Copies(<<v>>, s)
        BY <1>6, <1>12, <1>16, <2>1, <2>3
      <3> QED BY <2>2, <3>1, <3>2
    <2>4. CASE ~ (idx < items_len)
      <3>1. Copies(List', s) = Copies(List, s) + Copies(<<v>>, s)
        BY <1>6, <1>16, <2>1, <2>4
      <3>2. CASE old = Null
        <4>1. stolen' = stolen /\ Copies(<<old>>, s) = 0
          BY <1>3, <1>5, <1>7, <3>2, CopiesOne
        <4> QED BY <2>2, <3>1, <4>1
      <3>3. CASE old # Null
        <4>1. stolen' = Copied(stolen, old) /\ old \in Values
          BY <1>3, <1>4, <1>5, <1>6, <1>18, <2>4, <3>3 DEF Cells
        <4>2. stolen'[s] = stolen[s] + Copies(<<old>>, s)
          BY <1>7, <4>1, CopiedRefs
        <4> QED BY <2>2, <3>1, <4>2
      <3> QED BY <3>2, <3>3
    <2> QED BY <2>3, <2>4
  <1>19. ASSUME ~stray', NEW s \in Strings
         PROVE  refs'[s] + stolen'[s] = held'[s] + InResult(s)' + Copies(List', s)
    <2>1. refs[s] >= Copies(<<old>>, s) /\ r[s] = refs[s] - Copies(<<old>>, s)
      BY <1>7, <1>8, <1>17, <1>19, ReleasedRefs
    <2>2. /\ Copies(<<old>>, s) \in Nat /\ Copies(<<v>>, s) \in Nat /\ held'[s] = held[s]
          /\ refs'[s] = r[s] + Copies(<<v>>, s) /\ InResult(s)' = 0 /\ InResult(s) = 0
      BY <1>3, <1>11, <1>15, CopiesNat
    <2>3. /\ refs[s] \in Nat /\ held[s] \in Nat /\ stolen[s] \in Nat /\ Copies(List, s) \in Nat
          /\ refs[s] + stolen[s] = held[s] + InResult(s) + Copies(List, s)
      BY OwnedIsHeld
    <2>4. Copies(List', s) \in Nat
      <3>1. Assigned(List, idx, v) \in Seq(Cells)
        BY <1>6, AssignedCopies
      <3> QED BY <1>16, <3>1, CopiesType
    <2>5. PICK after, before, out, in, own, took, gone, count \in Nat :
            /\ after = Copies(List', s) /\ before = Copies(List, s) /\ out = Copies(<<old>>, s)
            /\ in = Copies(<<v>>, s) /\ own = held[s] /\ took = stolen[s] /\ gone = stolen'[s]
            /\ count = refs[s]
      BY <1>18, <1>19, <2>2, <2>3, <2>4
    <2>6. PICK mid, new : mid = r[s] /\ new = refs'[s]
      OBVIOUS
    <2>7. /\ after + out + took = before + in + gone /\ new = mid + in /\ mid = count - out
          /\ count + took = own + 0 + before
      BY <1>18, <1>19, <2>1, <2>2, <2>3, <2>5, <2>6
    <2>8. new + gone = own + 0 + after
      BY <2>7
    <2> QED BY <2>2, <2>5, <2>6, <2>8
  <1>20. held' \in [Strings -> Nat]
    BY <1>3, <1>7
  <1>21. Balanced'
    BY <1>11, <1>13, <1>19, <1>20 DEF Balanced
  <1>22. ItemsFit'
    BY <1>3, <1>4 DEF ItemsFit
  <1>23. stray' \in BOOLEAN
    BY <1>3
  <1>24. CallsFit'
    BY <1>3, <1>15, <1>23 DEF StoreInv, CallsFit
  <1> QED BY <1>21, <1>22, <1>24 DEF StoreInv

LEMMA CallerStores ==
  ASSUME StoreInv, Sane, InScript, NEW s \in Strings, NewString(s) \/ Drop(s)
  PROVE  StoreInv'
  <1>1. UNCHANGED <<items, items_len, readonly, popping, stray, stolen, walk, result>>
    BY DEF NewString, Drop
  <1>2. ItemsFit' /\ WalkFits' /\ CallsFit' /\ List' = List
    BY <1>1 DEF StoreInv, ItemsFit, CallsFit, WalkFits, List
  <1>3. refs \in [Strings -> Nat] /\ held \in [Strings -> Nat] /\ stolen \in [Strings -> Nat]
    BY DEF StoreInv, Balanced
  <1>4. /\ refs[s] \in Nat /\ held[s] \in Nat /\ stolen[s] \in Nat
        /\ refs[s] + stolen[s] = held[s] + InResult(s) + Copies(List, s)
        /\ InResult(s) \in Nat /\ Copies(List, s) \in Nat
        /\ held[s] > 0 \/ InResult(s) > 0 \/ Copies(List, s) > 0 => refs[s] > 0
    BY OwnedIsHeld
  <1>5. \A q : InResult(q)' = InResult(q)
    BY <1>1 DEF InResult
  <1>6. ASSUME refs' \in [Strings -> Nat], held' \in [Strings -> Nat],
               \A q \in Strings : refs'[q] - refs[q] = held'[q] - held[q]
        PROVE  StoreInv'
    <2>1. ASSUME NEW q \in Strings
          PROVE  refs'[q] + stolen'[q] = held'[q] + InResult(q)' + Copies(List', q)
      <3>1. /\ refs[q] + stolen[q] = held[q] + InResult(q) + Copies(List, q)
            /\ refs[q] \in Nat /\ held[q] \in Nat /\ stolen[q] \in Nat
            /\ InResult(q) \in Nat /\ Copies(List, q) \in Nat
        BY OwnedIsHeld
      <3>2. Copies(List', q) = Copies(List, q) /\ stolen'[q] = stolen[q] /\ InResult(q)' = InResult(q)
        BY <1>1, <1>2, <1>5
      <3>3. refs'[q] \in Nat /\ held'[q] \in Nat /\ refs'[q] - refs[q] = held'[q] - held[q]
        BY <1>6
      <3> QED BY <3>1, <3>2, <3>3
    <2>2. stolen' \in [Strings -> Nat]
      BY <1>1, <1>3
    <2> QED BY <1>2, <1>6, <2>1, <2>2 DEF StoreInv, Balanced
  <1>7. CASE NewString(s)
    <2>1. refs[s] = 0
      BY <1>7 DEF NewString
    <2>2. held[s] = 0
      BY <1>4, <2>1
    <2> DEFINE r == [refs EXCEPT ![s] = 1]
               h == [held EXCEPT ![s] = 1]
    <2>3. refs' = r /\ held' = h
      BY <1>7 DEF NewString
    <2>4. /\ r \in [Strings -> Nat] /\ h \in [Strings -> Nat]
          /\ \A q \in Strings : /\ r[q] = (IF q = s THEN 1 ELSE refs[q])
                                /\ h[q] = (IF q = s THEN 1 ELSE held[q])
      BY <1>3
    <2> HIDE DEF r, h
    <2>5. ASSUME NEW q \in Strings
          PROVE  r[q] - refs[q] = h[q] - held[q]
      <3>1. refs[q] \in Nat /\ held[q] \in Nat
        BY <1>3
      <3> QED BY <2>1, <2>2, <2>4, <3>1
    <2> QED BY <1>6, <2>3, <2>4, <2>5
  <1>8. CASE Drop(s)
    <2>1. held[s] > 0 /\ refs[s] > 0
      BY <1>4, <1>8 DEF Drop
    <2> DEFINE h == [held EXCEPT ![s] = @ - 1]
    <2>2. held' = h /\ refs' = Released(refs, s)
      BY <1>8 DEF Drop
    <2>3. held[s] - 1 \in Nat
      BY <1>4, <2>1
    <2>4. h \in [Strings -> Nat] /\ \A q \in Strings : h[q] = IF q = s THEN held[q] - 1 ELSE held[q]
      BY <1>3, <2>3
    <2> HIDE DEF h
    <2>5. PICK r : r = Released(refs, s)
      OBVIOUS
    <2>6. /\ r \in [Strings -> Nat]
          /\ \A q \in Strings : r[q] = refs[q] - Copies(<<s>>, q)
      BY <1>3, <2>1, <2>5, ReleasedRefs
    <2>7. ASSUME NEW q \in Strings
          PROVE  r[q] - refs[q] = h[q] - held[q]
      <3>1. Copies(<<s>>, q) = IF s = q THEN 1 ELSE 0
        BY CopiesOne
      <3>2. refs[q] \in Nat /\ held[q] \in Nat
        BY <1>3
      <3> QED BY <2>4, <2>6, <3>1, <3>2
    <2> QED BY <1>6, <2>2, <2>4, <2>5, <2>6, <2>7
  <1> QED BY <1>7, <1>8

LEMMA SetReadonlyStores ==
  ASSUME StoreInv, NEW b \in BOOLEAN, SetReadonly(b)
  PROVE  StoreInv'
  BY DEF SetReadonly, StoreInv, ItemsFit, CallsFit, WalkFits, Balanced, List, InResult

-----------------------------------------------------------------------------
(* The steps of the calls that walk the array.                             *)

(* What they have in common when they leave the array alone.               *)
LEMMA WalkOnly ==
  ASSUME StoreInv, popping = {}, UNCHANGED storage, WalkFits',
         \A s \in Strings : InResult(s)' = InResult(s)
  PROVE  StoreInv'
  <1>1. UNCHANGED <<items, items_len, readonly, refs, held, popping, stray, stolen>>
    BY DEF storage
  <1>2. ItemsFit' /\ CallsFit'
    BY <1>1 DEF StoreInv, ItemsFit, CallsFit
  <1>3. Balanced'
    BY <1>1 DEF StoreInv, Balanced, List
  <1> QED BY <1>2, <1>3 DEF StoreInv

LEMMA EmptyCopies ==
  \A s : Copies(<<>>, s) = 0
  <1>1. ASSUME NEW s
        PROVE  Copies(<<>>, s) = 0
    <2>1. {n \in DOMAIN <<>> : <<>>[n] = s} = {}
      OBVIOUS
    <2> QED BY <2>1, FS_EmptySet DEF Copies
  <1> QED BY <1>1

LEMMA NoWalkType ==
  NoWalk \in Walks /\ <<>> \in Seq(Cells)
  <1>1. Null \in Cells /\ 0 \in 0..MaxCap /\ "none" \in Kinds /\ <<>> \in Seq(Cells)
    BY ArrayAssumption, EmptySeq DEF Cells, Values, Kinds
  <1> QED BY <1>1 DEF NoWalk, Walks

LEMMA BeginStores ==
  ASSUME StoreInv, popping = {}, NEW kind \in {"map", "filter", "copy"}, WalkBegin(kind)
  PROVE  StoreInv'
  <1>1. /\ walk = NoWalk /\ UNCHANGED storage /\ result' = result
        /\ walk' = [NoWalk EXCEPT !.kind = kind, !.at = "step", !.count = items_len, !.was = List]
    BY DEF WalkBegin
  <1>2. result = <<>>
    BY <1>1 DEF StoreInv, CallsFit, WalkFits, NoWalk
  <1>3. items_len \in 0..MaxCap /\ List \in Seq(Cells) /\ MaxCap \in Nat
    <2>1. items_len \in Nat /\ items_len <= MaxCap /\ MaxCap \in Nat
      BY Fits DEF StoreInv, ItemsFit
    <2> QED BY <2>1, ListIs DEF StoreInv
  <1> DEFINE w == [NoWalk EXCEPT !.kind = kind, !.at = "step", !.count = items_len, !.was = List]
  <1>4. /\ w \in Walks /\ w.kind = kind /\ w.at = "step"
    <2>1. Null \in Cells /\ kind \in Kinds /\ 0 \in 0..MaxCap
      BY <1>3 DEF Cells, Values, Kinds, Calls
    <2> QED BY <1>3, <2>1, NoWalkType DEF Walks
  <1> HIDE DEF w
  <1>5. walk' = w
    BY <1>1 DEF w
  <1>6. WalkFits'
    BY <1>1, <1>2, <1>4, <1>5, EmptySeq DEF WalkFits
  <1>7. \A s \in Strings : InResult(s)' = 0 /\ InResult(s) = 0
    <2>1. result' = <<>>
      BY <1>1, <1>2
    <2> QED BY <1>2, <2>1, EmptyCopies DEF InResult
  <1> QED BY <1>1, <1>6, <1>7, WalkOnly

LEMMA SpliceBeginStores ==
  ASSUME StoreInv, popping = {}, NEW start \in 0..MaxIdx, NEW count \in Nat, SpliceBegin(start, count)
  PROVE  StoreInv'
  <1> DEFINE from == IF start > items_len THEN items_len ELSE start
             some == IF count > items_len - from THEN items_len - from ELSE count
             w == [NoWalk EXCEPT !.kind = "splice", !.at = "step", !.index = from, !.was = List,
                                 !.count = some]
  <1>1. walk = NoWalk /\ UNCHANGED storage /\ result' = result /\ walk' = w
    BY DEF SpliceBegin
  <1>2. result = <<>>
    BY <1>1 DEF StoreInv, CallsFit, WalkFits, NoWalk
  <1>3. /\ from \in 0..MaxCap /\ some \in 0..MaxCap /\ from \in 0..MaxIdx
        /\ List \in Seq(Cells)
    <2>1. items_len \in Nat /\ items_len <= MaxCap /\ MaxCap \in Nat /\ MaxIdx \in Nat
      BY Fits, ArrayAssumption DEF StoreInv, ItemsFit
    <2> QED BY <2>1, ListIs DEF StoreInv
  <1> HIDE DEF from, some
  <1>4. w \in Walks /\ w.kind = "splice" /\ w.at = "step" /\ w.index = from
    <2>1. "splice" \in Kinds
      BY DEF Kinds
    <2> QED BY <1>3, <2>1, NoWalkType DEF Walks
  <1> HIDE DEF w
  <1>5. WalkFits'
    BY <1>1, <1>2, <1>3, <1>4, NoWalkType DEF WalkFits
  <1>6. \A s \in Strings : InResult(s)' = 0 /\ InResult(s) = 0
    <2>1. result' = <<>>
      BY <1>1, <1>2
    <2> QED BY <1>2, <2>1, EmptyCopies DEF InResult
  <1> QED BY <1>1, <1>5, <1>6, WalkOnly

LEMMA GiveStores ==
  ASSUME StoreInv, popping = {}, GiveElement
  PROVE  /\ StoreInv' /\ walk'.kind = walk.kind /\ walk'.at = "callback" /\ walk'.index = walk.index
         /\ walk'.count = walk.count /\ walk'.was = walk.was /\ walk'.same = walk.same
         /\ walk'.shrunk = walk.shrunk
         /\ walk'.arg = IF walk.index < items_len THEN items[walk.index] ELSE Junk
  <1> DEFINE a == IF walk.index < items_len THEN items[walk.index] ELSE Junk
             w == [walk EXCEPT !.at = "callback", !.arg = a]
  <1>1. /\ walk.kind \in Calls /\ walk.at = "step" /\ ~ (walk.index >= walk.count)
        /\ UNCHANGED storage /\ result' = result /\ walk' = w
    BY DEF GiveElement, Calls, Walked
  <1>2. WalkFits /\ walk \in Walks
    BY DEF StoreInv, CallsFit, WalkFits
  <1>3. walk.index \in Nat /\ walk.count \in Nat
    BY <1>2, ArrayAssumption DEF Walks
  <1>4. a \in Cells
    <2>1. walk.index < items_len => walk.index \in 0..(items_len - 1)
      BY <1>3, Fits DEF StoreInv, ItemsFit
    <2> QED BY <2>1, Fits DEF StoreInv, ItemsFit, Cells
  <1>5. a = IF walk.index < items_len THEN items[walk.index] ELSE Junk
    OBVIOUS
  <1> HIDE DEF a
  <1>6. /\ w \in Walks /\ w.kind = walk.kind /\ w.at = "callback" /\ w.index = walk.index
        /\ w.count = walk.count /\ w.was = walk.was /\ w.same = walk.same /\ w.arg = a
        /\ w.shrunk = walk.shrunk
    BY <1>2, <1>4 DEF Walks
  <1> HIDE DEF w
  <1>7. WalkFits'
    <2>1. walk.index < walk.count
      BY <1>1, <1>3
    <2>2. walk.kind # "none" /\ walk.kind # "splice"
      BY <1>1 DEF Calls
    <2> QED BY <1>1, <1>2, <1>6, <2>1, <2>2 DEF WalkFits
  <1>8. \A s \in Strings : InResult(s)' = InResult(s)
    BY <1>1, <1>6 DEF InResult
  <1> QED BY <1>1, <1>5, <1>6, <1>7, <1>8, WalkOnly

(* What a callback's return adds to the result.                            *)
Returned(something) ==
  IF ~walk.same THEN <<>>
  ELSE IF walk.kind = "map" THEN Append(result, IF something THEN walk.arg ELSE Null)
  ELSE IF walk.kind = "filter" /\ something THEN Append(result, walk.arg)
  ELSE result

LEMMA ReturnStores ==
  ASSUME StoreInv, popping = {}, NEW b \in BOOLEAN, CallbackReturns(b)
  PROVE  /\ StoreInv' /\ walk'.kind = walk.kind /\ walk'.at = "step" /\ walk'.index = walk.index + 1
         /\ walk'.count = walk.count /\ walk'.was = walk.was /\ walk'.same = walk.same
         /\ walk'.shrunk = walk.shrunk /\ result' = Returned(b)
  <1> DEFINE w == [walk EXCEPT !.at = "step", !.index = @ + 1, !.arg = Null]
  <1>1. /\ walk.at = "callback"
        /\ UNCHANGED storage /\ result' = Returned(b) /\ walk' = w
    BY DEF CallbackReturns, InCallback, Returned
  <1>2. WalkFits /\ walk \in Walks /\ result \in Seq(Cells) /\ walk.kind \in Calls /\ walk.index < walk.count
    BY <1>1 DEF StoreInv, CallsFit, WalkFits
  <1>3. walk.index + 1 \in 0..MaxCap /\ Null \in Cells /\ walk.arg \in Cells
    <2>1. walk.index \in 0..MaxCap /\ walk.count \in 0..MaxCap /\ MaxCap \in Nat /\ walk.arg \in Cells
      BY <1>2, ArrayAssumption DEF Walks
    <2> QED BY <1>2, <2>1 DEF Cells, Values
  <1>4. Returned(b) \in Seq(Cells)
    <2>1. \A v \in Cells : Append(result, v) \in Seq(Cells)
      BY <1>2, AppendProperties
    <2> QED BY <1>2, <1>3, <2>1, NoWalkType DEF Returned
  <1>5. /\ w \in Walks /\ w.kind = walk.kind /\ w.at = "step" /\ w.index = walk.index + 1
        /\ w.count = walk.count /\ w.was = walk.was /\ w.same = walk.same
        /\ w.shrunk = walk.shrunk
    <2>1. walk.index + 1 \in 0..MaxCap
      BY <1>3
    <2> QED BY <1>2, <1>3, <2>1 DEF Walks
  <1> HIDE DEF w
  <1>6. walk.kind # "none" /\ walk.kind # "splice" /\ walk.kind # "copy"
    BY <1>2 DEF Calls
  <1>7. WalkFits'
    BY <1>1, <1>4, <1>5, <1>6 DEF WalkFits
  <1>8. \A s \in Strings : InResult(s)' = InResult(s)
    BY <1>1, <1>5, <1>6 DEF InResult
  <1> QED BY <1>1, <1>5, <1>7, <1>8, WalkOnly

LEMMA FailStores ==
  ASSUME StoreInv, popping = {}, CallbackFails
  PROVE  StoreInv'
  <1>1. walk.at = "callback" /\ UNCHANGED storage /\ walk' = NoWalk /\ result' = <<>>
    BY DEF CallbackFails, InCallback
  <1>2. WalkFits /\ InScript
    BY <1>1 DEF StoreInv, CallsFit, InScript
  <1>3. WalkFits'
    <2>1. NoWalk.kind = "none" /\ NoWalk.at = "none"
      BY DEF NoWalk
    <2> QED BY <1>1, <2>1, NoWalkType DEF WalkFits
  <1>4. \A s \in Strings : InResult(s)' = InResult(s)
    <2>1. NoWalk.kind = "none"
      BY DEF NoWalk
    <2> QED BY <1>1, <1>2, <2>1, ScriptHasNoResult DEF InResult
  <1> QED BY <1>1, <1>3, <1>4, WalkOnly

LEMMA EndStores ==
  ASSUME StoreInv, popping = {}, WalkEnd
  PROVE  /\ StoreInv' /\ walk'.kind = walk.kind /\ walk'.at = "given" /\ walk'.index = walk.index
         /\ walk'.count = walk.count /\ walk'.was = walk.was /\ walk'.same = walk.same
         /\ walk'.shrunk = walk.shrunk
  <1> DEFINE w == [walk EXCEPT !.at = "given"]
  <1>1. walk.at = "step" /\ UNCHANGED storage /\ result' = result /\ walk' = w
    BY DEF WalkEnd
  <1>2. WalkFits /\ walk \in Walks
    BY DEF StoreInv, CallsFit, WalkFits
  <1>3. /\ w \in Walks /\ w.kind = walk.kind /\ w.at = "given" /\ w.index = walk.index
        /\ w.count = walk.count /\ w.was = walk.was /\ w.same = walk.same
        /\ w.shrunk = walk.shrunk
    BY <1>2 DEF Walks
  <1> HIDE DEF w
  <1>4. WalkFits'
    BY <1>1, <1>2, <1>3 DEF WalkFits
  <1>5. \A s \in Strings : InResult(s)' = InResult(s)
    BY <1>1, <1>3 DEF InResult
  <1> QED BY <1>1, <1>3, <1>4, <1>5, WalkOnly

(* The result's strings are its own, and released with it.                 *)
LEMMA DropStores ==
  ASSUME StoreInv, Sane, popping = {}, DropResult
  PROVE  StoreInv'
  <1> DEFINE r == [s \in Strings |-> IF InResult(s) < refs[s] THEN refs[s] - InResult(s) ELSE 0]
  <1>1. /\ walk' = NoWalk /\ result' = <<>> /\ refs' = r
        /\ stray' = \E s \in Strings : InResult(s) > refs[s]
        /\ UNCHANGED <<items, items_len, readonly, held, popping, stolen>>
    BY DEF DropResult
  <1>2. WalkFits'
    <2>1. NoWalk.kind = "none" /\ NoWalk.at = "none"
      BY DEF NoWalk
    <2> QED BY <1>1, <2>1, NoWalkType DEF WalkFits
  <1>3. ItemsFit' /\ CallsFit' /\ List' = List
    <2>1. stray' \in BOOLEAN
      BY <1>1
    <2> QED BY <1>1, <1>2, <2>1 DEF StoreInv, ItemsFit, CallsFit, List
  <1>4. refs \in [Strings -> Nat] /\ held \in [Strings -> Nat] /\ stolen \in [Strings -> Nat]
    BY DEF StoreInv, Balanced
  <1>5. \A s : InResult(s)' = 0
    BY <1>1, EmptyCopies DEF InResult
  <1>6. ASSUME NEW s \in Strings
        PROVE  /\ r[s] \in Nat
               /\ ~stray' => r[s] = refs[s] - InResult(s)
    <2>1. r[s] = IF InResult(s) < refs[s] THEN refs[s] - InResult(s) ELSE 0
      OBVIOUS
    <2>2. refs[s] \in Nat /\ InResult(s) \in Nat
      BY OwnedIsHeld
    <2>3. ~stray' => ~ (InResult(s) > refs[s])
      BY <1>1
    <2> QED BY <2>1, <2>2, <2>3
  <1>7. r \in [Strings -> Nat]
    BY <1>6
  <1> HIDE DEF r
  <1>8. ASSUME ~stray', NEW s \in Strings
        PROVE  refs'[s] + stolen'[s] = held'[s] + InResult(s)' + Copies(List', s)
    <2>1. Copies(List', s) = Copies(List, s) /\ held'[s] = held[s] /\ stolen'[s] = stolen[s]
      BY <1>1, <1>3
    <2>2. /\ refs[s] \in Nat /\ held[s] \in Nat /\ stolen[s] \in Nat /\ InResult(s) \in Nat
          /\ Copies(List, s) \in Nat
          /\ refs[s] + stolen[s] = held[s] + InResult(s) + Copies(List, s)
      BY OwnedIsHeld
    <2>3. refs'[s] = refs[s] - InResult(s) /\ InResult(s)' = 0
      BY <1>1, <1>5, <1>6, <1>8
    <2> QED BY <2>1, <2>2, <2>3
  <1> QED BY <1>1, <1>3, <1>4, <1>7, <1>8 DEF StoreInv, Balanced

LEMMA CopyStores ==
  ASSUME StoreInv, Sane, popping = {}, CopyElement
  PROVE  /\ StoreInv' /\ walk'.kind = "copy" /\ walk'.at = "step" /\ walk'.index = walk.index + 1
         /\ walk'.count = walk.count /\ walk'.was = walk.was /\ walk'.same = walk.same
         /\ walk'.shrunk = walk.shrunk
         /\ result' = IF walk.index < items_len THEN Append(result, items[walk.index]) ELSE result
         /\ List' = List
  <1> DEFINE w == [walk EXCEPT !.index = @ + 1]
             new == Append(result, items[walk.index])
  <1>1. /\ walk.kind = "copy" /\ walk.at = "step" /\ ~ (walk.index >= walk.count) /\ walk' = w
        /\ walk.index < items_len => result' = new /\ refs' = Copied(refs, items[walk.index])
        /\ ~ (walk.index < items_len) => result' = result /\ refs' = refs
        /\ UNCHANGED <<items, items_len, readonly, held, popping, stray, stolen>>
    BY DEF CopyElement, Walked
  <1>2. WalkFits /\ walk \in Walks /\ result \in Seq(Cells)
    BY DEF StoreInv, CallsFit, WalkFits
  <1>3. walk.index \in Nat /\ walk.index + 1 \in 0..MaxCap
    <2>1. walk.index \in 0..MaxCap /\ walk.count \in 0..MaxCap /\ MaxCap \in Nat
      BY <1>2, ArrayAssumption DEF Walks
    <2> QED BY <1>1, <2>1
  <1>4. /\ w \in Walks /\ w.kind = "copy" /\ w.at = "step" /\ w.index = walk.index + 1
        /\ w.count = walk.count /\ w.was = walk.was /\ w.same = walk.same
        /\ w.shrunk = walk.shrunk
    BY <1>1, <1>2, <1>3 DEF Walks
  <1> HIDE DEF w
  <1>5. List' = List /\ ItemsFit'
    BY <1>1 DEF StoreInv, ItemsFit, List
  <1>6. refs \in [Strings -> Nat] /\ held \in [Strings -> Nat] /\ stolen \in [Strings -> Nat]
    BY DEF StoreInv, Balanced
  <1>7. CASE walk.index < items_len
    <2>1. PICK v : v = items[walk.index]
      OBVIOUS
    <2>2. v \in Values
      <3>1. walk.index \in 0..(items_len - 1)
        BY <1>3, <1>7, Fits DEF StoreInv, ItemsFit
      <3> QED BY <2>1, <3>1, Fits DEF StoreInv, ItemsFit
    <2>3. new = Append(result, v) /\ refs' = Copied(refs, v)
      BY <1>1, <1>7, <2>1
    <2> HIDE DEF new
    <2>4. new \in Seq(Cells) /\ \A s : Copies(new, s) = Copies(result, s) + Copies(<<v>>, s)
      <3>1. v \in Cells
        BY <2>2 DEF Cells
      <3> QED BY <1>2, <2>3, <3>1, CopiesAppend
    <2>5. refs' \in [Strings -> Nat] /\ \A s \in Strings : refs'[s] = refs[s] + Copies(<<v>>, s)
      BY <1>6, <2>2, <2>3, CopiedRefs
    <2>6. result' = new
      BY <1>1, <1>7
    <2>7. WalkFits'
      BY <1>1, <1>4, <2>4, <2>6 DEF WalkFits
    <2>8. ASSUME NEW s \in Strings
          PROVE  refs'[s] + stolen'[s] = held'[s] + InResult(s)' + Copies(List', s)
      <3>1. InResult(s) = Copies(result, s) /\ InResult(s)' = Copies(new, s)
        BY <1>1, <1>4, <2>6 DEF InResult
      <3>2. /\ Copies(result, s) \in Nat /\ Copies(<<v>>, s) \in Nat /\ Copies(List, s) \in Nat
            /\ refs[s] \in Nat /\ held[s] \in Nat /\ stolen[s] \in Nat
            /\ held'[s] = held[s] /\ stolen'[s] = stolen[s]
        BY <1>1, <1>2, CopiesType, CopiesNat, OwnedIsHeld
      <3>3. Copies(List', s) = Copies(List, s)
        BY <1>5
      <3>4. /\ refs[s] + stolen[s] = held[s] + InResult(s) + Copies(List, s)
            /\ refs'[s] = refs[s] + Copies(<<v>>, s)
            /\ Copies(new, s) = Copies(result, s) + Copies(<<v>>, s)
        BY <2>4, <2>5, OwnedIsHeld
      <3> QED BY <3>1, <3>2, <3>3, <3>4
    <2>9. Balanced'
      BY <1>1, <1>6, <2>5, <2>8 DEF Balanced
    <2>10. CallsFit'
      BY <1>1, <2>7 DEF StoreInv, CallsFit
    <2> QED BY <1>1, <1>4, <1>5, <1>7, <2>9, <2>10 DEF StoreInv, new
  <1>8. CASE ~ (walk.index < items_len)
    <2>1. result' = result /\ refs' = refs
      BY <1>1, <1>8
    <2>2. UNCHANGED storage
      BY <1>1, <2>1 DEF storage
    <2>3. WalkFits'
      BY <1>1, <1>2, <1>4, <2>1 DEF WalkFits
    <2>4. \A s \in Strings : InResult(s)' = InResult(s)
      BY <1>1, <1>4, <2>1 DEF InResult
    <2>5. StoreInv'
      BY <2>2, <2>3, <2>4, WalkOnly
    <2> QED BY <1>1, <1>4, <1>5, <1>8, <2>1, <2>5
  <1> QED BY <1>7, <1>8

LEMMA SpliceStores ==
  ASSUME StoreInv, Sane, popping = {}, SpliceElement
  PROVE  /\ StoreInv' /\ walk'.kind = "splice" /\ walk'.at = "step" /\ walk'.index = walk.index
         /\ walk'.was = walk.was /\ walk'.same = walk.same /\ walk'.shrunk = walk.shrunk
         /\ IF ~readonly /\ walk.index < items_len
            THEN result' = Append(result, items[walk.index]) /\ items' = Without(walk.index)
                 /\ items_len' = items_len - 1
            ELSE UNCHANGED <<result, items, items_len>>
  <1> DEFINE w == [walk EXCEPT !.count = @ - 1]
             new == Append(result, items[walk.index])
             takes == ~readonly /\ walk.index < items_len
  <1>1. /\ walk.kind = "splice" /\ walk.at = "step" /\ walk.count > 0 /\ walk' = w
        /\ takes => result' = new /\ items' = Without(walk.index) /\ items_len' = items_len - 1
        /\ ~takes => UNCHANGED <<result, items, items_len>>
        /\ UNCHANGED <<readonly, refs, held, popping, stray, stolen>>
    BY DEF SpliceElement
  <1>2. WalkFits /\ walk \in Walks /\ result \in Seq(Cells) /\ walk.index \in 0..MaxIdx
    BY <1>1 DEF StoreInv, CallsFit, WalkFits
  <1>3. walk.index \in Nat /\ walk.count - 1 \in 0..MaxCap
    <2>1. walk.index \in 0..MaxCap /\ walk.count \in 0..MaxCap /\ MaxCap \in Nat
      BY <1>2, ArrayAssumption DEF Walks
    <2> QED BY <1>1, <2>1
  <1>4. /\ w \in Walks /\ w.kind = "splice" /\ w.at = "step" /\ w.index = walk.index
        /\ w.was = walk.was /\ w.same = walk.same /\ w.shrunk = walk.shrunk
    BY <1>1, <1>2, <1>3 DEF Walks
  <1> HIDE DEF w
  <1>5. CASE takes
    <2>1. PICK v : v = items[walk.index]
      OBVIOUS
    <2>2. /\ FitsIn(Without(walk.index), items_len - 1)
          /\ Lacks(ListOf(Without(walk.index), items_len - 1), List, walk.index + 1)
          /\ List[walk.index + 1] = v /\ v \in Values
      BY <1>3, <1>5, <2>1, RemovedList DEF StoreInv
    <2>3. new = Append(result, v)
      BY <2>1
    <2> HIDE DEF new
    <2>4. new \in Seq(Cells) /\ \A s : Copies(new, s) = Copies(result, s) + Copies(<<v>>, s)
      <3>1. v \in Cells
        BY <2>2 DEF Cells
      <3> QED BY <1>2, <2>3, <3>1, CopiesAppend
    <2>5. result' = new /\ items' = Without(walk.index) /\ items_len' = items_len - 1
      BY <1>1, <1>5
    <2>6. WalkFits'
      BY <1>1, <1>2, <1>4, <2>4, <2>5 DEF WalkFits
    <2>7. refs \in [Strings -> Nat] /\ held \in [Strings -> Nat]
      BY DEF StoreInv, Balanced
    <2>8. ASSUME NEW s \in Strings
          PROVE  /\ InResult(s)' \in Nat
                 /\ refs'[s] + held[s] + InResult(s) + Copies(<<v>>, s) = refs[s] + held'[s] + InResult(s)'
      <3>1. InResult(s) = Copies(result, s) /\ InResult(s)' = Copies(new, s)
        BY <1>1, <1>4, <2>5 DEF InResult
      <3>2. /\ Copies(result, s) \in Nat /\ Copies(<<v>>, s) \in Nat /\ held[s] \in Nat /\ refs[s] \in Nat
            /\ held'[s] = held[s] /\ refs'[s] = refs[s] /\ Copies(new, s) \in Nat
        BY <1>1, <1>2, <2>4, <2>7, CopiesType, CopiesNat
      <3> QED BY <2>4, <3>1, <3>2
    <2>9. PICK c : c = Without(walk.index)
      OBVIOUS
    <2>10. /\ FitsIn(c, items_len - 1) /\ Lacks(ListOf(c, items_len - 1), List, walk.index + 1)
           /\ items' = c /\ refs' \in [Strings -> Nat] /\ held' \in [Strings -> Nat]
           /\ stolen' = stolen
      BY <1>1, <2>2, <2>5, <2>7, <2>9
    <2>11. ItemsFit' /\ Balanced'
      BY <2>2, <2>5, <2>8, <2>10, LessBalanced
    <2>12. CallsFit'
      BY <1>1, <2>6 DEF StoreInv, CallsFit
    <2> QED BY <1>1, <1>4, <1>5, <2>11, <2>12 DEF StoreInv, new
  <1>6. CASE ~takes
    <2>1. UNCHANGED <<result, items, items_len>>
      BY <1>1, <1>6
    <2>2. UNCHANGED storage
      BY <1>1, <2>1 DEF storage
    <2>3. WalkFits'
      BY <1>1, <1>2, <1>4, <2>1 DEF WalkFits
    <2>4. \A s \in Strings : InResult(s)' = InResult(s)
      BY <1>1, <1>4, <2>1 DEF InResult
    <2>5. StoreInv'
      BY <2>2, <2>3, <2>4, WalkOnly
    <2> QED BY <1>1, <1>4, <1>6, <2>1, <2>5
  <1> QED BY <1>5, <1>6

-----------------------------------------------------------------------------
(* Every step.                                                             *)

(* The steps of one thread: it does nothing else while it is in array.pop. *)
ScriptStep ==
  \/ \E s \in Strings : NewString(s) \/ Drop(s)
  \/ popping = {} /\ \E v \in Values : Push(v)
  \/ popping = {} /\ \E i \in 0..MaxIdx, v \in Values : Insert(i, v)
  \/ popping = {} /\ \E i \in 0..MaxIdx : Remove(i)
  \/ popping = {} /\ \E i \in 0..MaxIdx, v \in Values : RawSetIdx(i, v)
  \/ popping = {} /\ \E t \in Threads : PopTest(t)
  \/ \E t \in Threads : PopTake(t)
  \/ \E b \in BOOLEAN : SetReadonly(b)

LEMMA OwnSteps ==
  ASSUME StoreInv, Next
  PROVE  \/ Sane /\ InScript /\ ScriptStep
         \/ Sane /\ popping = {} /\ Walk
         \/ UNCHANGED vars
  <1>1. Passable \subseteq Values
    BY DEF Passable, Values
  <1>2. \/ Sane /\ popping = {} /\ InScript /\ Script
        \/ Sane /\ popping # {} /\ Pop
        \/ Sane /\ popping = {} /\ Walk
        \/ UNCHANGED vars
    BY DEF Next, InScript, Wild
  <1>3. ASSUME popping = {}, Script
        PROVE  ScriptStep
    BY <1>1, <1>3 DEF Script, ScriptStep
  <1>4. ASSUME popping # {}, Pop
        PROVE  InScript /\ ScriptStep
    BY <1>4 DEF Pop, ScriptStep, StoreInv, CallsFit, InScript
  <1> QED BY <1>2, <1>3, <1>4

LEMMA StoreInit ==
  ASSUME Init
  PROVE  StoreInv
  <1>1. MaxCap \in Nat
    BY ArrayAssumption
  <1>2. ItemsFit
    <2>1. 0..(0 - 1) = {}
      OBVIOUS
    <2>2. DOMAIN <<>> = {} /\ <<>> \in [{} -> Cells]
      OBVIOUS
    <2>3. 0 \in 0..MaxCap /\ 0 \in 0..0
      BY <1>1
    <2>4. FitsIn(<<>>, 0)
      BY <2>1, <2>2, <2>3 DEF FitsIn
    <2> QED BY <2>4 DEF Init, ItemsFit
  <1>3. WalkFits
    <2>1. NoWalk.kind = "none" /\ NoWalk.at = "none"
      BY DEF NoWalk
    <2> QED BY <2>1, NoWalkType DEF Init, WalkFits
  <1>4. CallsFit
    BY <1>3 DEF Init, CallsFit
  <1>5. List \in Seq(Cells) /\ Len(List) = 0
    BY <1>2, ListIs DEF Init
  <1>6. ASSUME NEW s \in Strings
        PROVE  Copies(List, s) = 0
    <2>1. \A i \in 1..Len(List) : List[i] # s
      BY <1>5
    <2> QED BY <1>5, <2>1, CopiesNone
  <1>7. \A s \in Strings : InResult(s) = 0
    BY EmptyCopies DEF Init, InResult
  <1>8. refs \in [Strings -> Nat] /\ held \in [Strings -> Nat] /\ stolen \in [Strings -> Nat]
        /\ \A s \in Strings : refs[s] = 0 /\ held[s] = 0 /\ stolen[s] = 0
    BY DEF Init
  <1> QED BY <1>2, <1>4, <1>6, <1>7, <1>8 DEF StoreInv, Balanced

LEMMA StoreStep ==
  ASSUME StoreInv, [Next]_vars
  PROVE  StoreInv'
  <1>0. 0..MaxIdx \subseteq Nat
    BY ArrayAssumption
  <1>1. CASE Sane /\ InScript /\ ScriptStep
    <2>1. CASE \E s \in Strings : NewString(s) \/ Drop(s)
      BY <1>1, <2>1, CallerStores
    <2>2. CASE popping = {} /\ \E v \in Values : Push(v)
      BY <1>1, <2>2, PushStores
    <2>3. CASE popping = {} /\ \E i \in 0..MaxIdx, v \in Values : Insert(i, v)
      BY <1>0, <1>1, <2>3, InsertStores
    <2>4. CASE popping = {} /\ \E i \in 0..MaxIdx : Remove(i)
      BY <1>0, <1>1, <2>4, RemoveStores
    <2>5. CASE popping = {} /\ \E i \in 0..MaxIdx, v \in Values : RawSetIdx(i, v)
      BY <1>0, <1>1, <2>5, RawSetIdxStores
    <2>6. CASE popping = {} /\ \E t \in Threads : PopTest(t)
      BY <1>1, <2>6, PopTestStores
    <2>7. CASE \E t \in Threads : PopTake(t)
      BY <1>1, <2>7, PopTakeStores
    <2>8. CASE \E b \in BOOLEAN : SetReadonly(b)
      BY <2>8, SetReadonlyStores
    <2> QED BY <1>1, <2>1, <2>2, <2>3, <2>4, <2>5, <2>6, <2>7, <2>8 DEF ScriptStep
  <1>2. CASE Sane /\ popping = {} /\ Walk
    <2>1. CASE \E kind \in {"map", "filter", "copy"} : WalkBegin(kind)
      BY <1>2, <2>1, BeginStores
    <2>2. CASE \E i, n \in 0..MaxIdx : SpliceBegin(i, n)
      BY <1>0, <1>2, <2>2, SpliceBeginStores
    <2>3. CASE GiveElement
      BY <1>2, <2>3, GiveStores
    <2>4. CASE CallbackFails
      BY <1>2, <2>4, FailStores
    <2>5. CASE CopyElement
      BY <1>2, <2>5, CopyStores
    <2>6. CASE SpliceElement
      BY <1>2, <2>6, SpliceStores
    <2>7. CASE WalkEnd
      BY <1>2, <2>7, EndStores
    <2>8. CASE DropResult
      BY <1>2, <2>8, DropStores
    <2>9. CASE \E b \in BOOLEAN : CallbackReturns(b)
      BY <1>2, <2>9, ReturnStores
    <2> QED BY <1>2, <2>1, <2>2, <2>3, <2>4, <2>5, <2>6, <2>7, <2>8, <2>9 DEF Walk
  <1>3. CASE UNCHANGED vars
    <2>1. /\ UNCHANGED <<items, items_len, readonly, refs, held, popping, stray, stolen, walk, result>>
      BY <1>3 DEF vars, storage, walking
    <2>2. WalkFits'
      BY <2>1 DEF StoreInv, CallsFit, WalkFits
    <2> QED BY <2>1, <2>2 DEF StoreInv, ItemsFit, CallsFit, Balanced, List, InResult
  <1> QED BY <1>1, <1>2, <1>3, OwnSteps

LEMMA StoreIsSound ==
  ASSUME StoreInv
  PROVE  StorageInvariant
  <1>1. /\ items_cap \in Nat /\ items_cap <= MaxCap /\ items \in [0..(items_cap - 1) -> Cells]
        /\ items_len \in Nat /\ items_len <= items_cap
        /\ \A i \in 0..(items_len - 1) : items[i] \in Values
    BY Fits DEF StoreInv, ItemsFit, items_cap
  <1>3. DOMAIN items = 0..(items_cap - 1)
    BY <1>1
  <1>4. ASSUME NEW i \in DOMAIN items
        PROVE  items[i] \in Values \/ (items[i] = Junk /\ i >= items_len)
    <2> HIDE DEF items_cap
    <2>1. i \in Nat /\ items[i] \in Values \cup {Junk}
      BY <1>1, <1>3 DEF Cells
    <2>2. i >= items_len \/ i \in 0..(items_len - 1)
      BY <1>1, <2>1
    <2> QED BY <1>1, <2>1, <2>2
  <1>5. items_len \in 0..(Modulus - 1)
    BY <1>1, ArrayAssumption
  <1>6. /\ walk.count \in 0..MaxCap /\ walk.index \in 0..MaxCap /\ walk.arg \in Values \cup {Junk}
    BY DEF StoreInv, CallsFit, WalkFits, Walks, Cells
  <1>7. TypeOK
    BY <1>3, <1>4, <1>5, <1>6 DEF TypeOK, StoreInv, CallsFit, Balanced
  <1>8. RefsBalanced
    BY DEF RefsBalanced, StoreInv, Balanced, Owners
  <1> QED BY <1>7, <1>8 DEF StorageInvariant

-----------------------------------------------------------------------------
(* The list of array.h.                                                    *)

LEMMA AppendedIs ==
  ASSUME NEW S, NEW s \in Seq(S), NEW t \in Seq(S), NEW v \in S, NEW i, Lacks(t, s, i),
         i = Len(t) + 1, s[i] = v
  PROVE  s = Append(t, v)
  <1> DEFINE n == Len(t)
  <1>1. n \in Nat /\ Len(s) \in Nat
    BY SeqFacts
  <1>2. Len(s) = n + 1 /\ \A k \in 1..n : t[k] = s[k]
    <2>1. Len(t) = Len(s) - 1 /\ \A k \in 1..Len(t) : t[k] = IF k < i THEN s[k] ELSE s[k + 1]
      BY DEF Lacks
    <2>2. \A k \in 1..n : k < n + 1
      BY <1>1
    <2> QED BY <1>1, <2>1, <2>2
  <1>3. s[n + 1] = v
    OBVIOUS
  <1>4. /\ Append(t, v) \in Seq(S) /\ Len(Append(t, v)) = n + 1
        /\ \A k \in 1..n : Append(t, v)[k] = t[k]
        /\ Append(t, v)[n + 1] = v
    BY AppendProperties
  <1>5. PICK a : a = Append(t, v)
    OBVIOUS
  <1> HIDE DEF n
  <1>6. a \in Seq(S) /\ Len(a) = n + 1 /\ (\A k \in 1..n : a[k] = t[k]) /\ a[n + 1] = v
    BY <1>4, <1>5
  <1>7. \A k \in 1..n + 1 : k \in 1..n \/ k = n + 1
    BY <1>1
  <1>8. \A k \in 1..Len(s) : s[k] = a[k]
    BY <1>2, <1>3, <1>6, <1>7
  <1>9. s = a
    BY <1>2, <1>6, <1>8, SeqEqual
  <1> QED BY <1>5, <1>9

LEMMA InsertedIs ==
  ASSUME NEW S, NEW s \in Seq(S), NEW t \in Seq(S), NEW i, Lacks(t, s, i), NEW v, s[i] = v
  PROVE  s = Promise!InsertAt(t, i, v)
  <1>1. PICK a, b \in Seq(S) : Parts(a, b, t, s, i, v)
    BY TakeOut
  <1> QED BY <1>1 DEF Parts, Promise!InsertAt

LEMMA RemovedIs ==
  ASSUME NEW S, NEW s \in Seq(S), NEW t \in Seq(S), NEW i, Lacks(t, s, i)
  PROVE  t = Promise!RemoveAt(s, i)
  <1>1. PICK x : s[i] = x
    OBVIOUS
  <1>2. PICK a, b \in Seq(S) : Parts(a, b, t, s, i, x)
    BY <1>1, TakeOut
  <1> QED BY <1>2 DEF Parts, Promise!RemoveAt

LEMMA PoppedIs ==
  ASSUME NEW S, NEW s \in Seq(S), NEW t \in Seq(S), NEW i, Lacks(t, s, i), i = Len(s)
  PROVE  t = Promise!Front(s) /\ s # <<>>
  <1> DEFINE n == Len(t)
  <1>1. n \in Nat /\ Len(s) \in Nat /\ Len(s) = n + 1 /\ Len(s) - 1 = n
    BY SeqFacts DEF Lacks
  <1>2. \A k \in 1..n : t[k] = s[k]
    <2>1. \A k \in 1..Len(t) : t[k] = IF k < i THEN s[k] ELSE s[k + 1]
      BY DEF Lacks
    <2>2. \A k \in 1..n : k < Len(s)
      BY <1>1
    <2> QED BY <2>1, <2>2
  <1>3. \A k \in 1..n : s[k] \in S
    BY <1>1, SeqFacts
  <1>4. PICK f : f = SubSeq(s, 1, n)
    OBVIOUS
  <1> HIDE DEF n
  <1>5. /\ f \in Seq(S) /\ Len(f) = n
        /\ \A k \in 1..n : f[k] = s[k]
    <2>1. /\ SubSeq(s, 1, n) \in Seq(S) /\ Len(SubSeq(s, 1, n)) = IF 1 <= n THEN n - 1 + 1 ELSE 0
          /\ \A k \in 1..n - 1 + 1 : SubSeq(s, 1, n)[k] = s[1 + k - 1]
      BY <1>1, <1>3, SubSeqProperties
    <2>2. (IF 1 <= n THEN n - 1 + 1 ELSE 0) = n /\ n - 1 + 1 = n /\ \A k \in 1..n : 1 + k - 1 = k
      BY <1>1
    <2> QED BY <1>4, <2>1, <2>2
  <1>6. t = f
    <2>1. Len(t) = n
      BY DEF n
    <2> QED BY <1>2, <1>5, <2>1, SeqEqual
  <1>7. Promise!Front(s) = f
    BY <1>1, <1>4 DEF Promise!Front
  <1>8. s # <<>>
    BY <1>1
  <1> QED BY <1>6, <1>7, <1>8

(* The actions of the list a step of the array is.                         *)
ListStep ==
  \/ /\ ~readonly /\ readonly' = readonly
     /\ \/ \E v \in Values : List' = Append(List, v)
        \/ \E v \in Values, i \in 0..MaxIdx : Promise!Insert(i, v)
        \/ \E i \in 0..MaxIdx : Promise!Take(i)
        \/ \E v \in Values, i \in 0..MaxIdx : Promise!Assign(i, v)
  \/ Promise!Pop /\ readonly' = readonly
  \/ List' = List /\ (readonly' = readonly \/ readonly' \in BOOLEAN)

LEMMA PushIsAppend ==
  ASSUME StoreInv, NEW v \in Values, Push(v)
  PROVE  List' = Append(List, v)
  <1> DEFINE c == [Room EXCEPT ![items_len] = v]
             l == ListOf(c, items_len + 1)
  <1>1. FitsIn(c, items_len + 1) /\ Lacks(List, l, items_len + 1) /\ l[items_len + 1] = v
    BY PushedList DEF StoreInv, Push
  <1>2. List' = l
    BY DEF Push, List, ListOf
  <1>3. l \in Seq(Cells)
    BY <1>1, Fits
  <1> HIDE DEF c, l
  <1>4. List \in Seq(Cells) /\ items_len + 1 = Len(List) + 1
    BY ListIs DEF StoreInv
  <1>5. v \in Cells
    BY DEF Cells
  <1>6. l = Append(List, v)
    BY <1>1, <1>3, <1>4, <1>5, AppendedIs
  <1> QED BY <1>2, <1>6

LEMMA InsertIsInsert ==
  ASSUME StoreInv, NEW idx \in Nat, NEW v \in Values, Insert(idx, v)
  PROVE  IF idx > items_len THEN List' = Append(List, v) ELSE Promise!Insert(idx, v)
  <1> DEFINE at == IF idx > items_len THEN items_len ELSE idx
             c == [i \in DOMAIN Room |->
                     IF i = at THEN v
                     ELSE IF i > at /\ i <= items_len THEN Room[i - 1]
                     ELSE Room[i]]
             l == ListOf(c, items_len + 1)
  <1>1. items_len \in Nat /\ at \in 0..items_len
    BY Fits DEF StoreInv, ItemsFit
  <1>2. items' = c /\ items_len' = items_len + 1
    BY DEF Insert
  <1>3. WithinBound(Room)
    BY DEF Insert
  <1>4. List' = l
    BY <1>2 DEF List, ListOf
  <1>5. at = IF idx > items_len THEN items_len ELSE idx
    OBVIOUS
  <1> HIDE DEF at
  <1>6. FitsIn(c, items_len + 1) /\ Lacks(List, l, at + 1) /\ l[at + 1] = v
    BY <1>1, <1>3, InsertedList DEF StoreInv
  <1>7. l \in Seq(Cells)
    BY <1>6, Fits
  <1> HIDE DEF c, l
  <1>8. List \in Seq(Cells) /\ Len(List) = items_len
    BY ListIs DEF StoreInv
  <1>9. l = Promise!InsertAt(List, at + 1, v)
    BY <1>6, <1>7, <1>8, InsertedIs
  <1>10. CASE idx > items_len
    <2>1. at = items_len /\ at + 1 = Len(List) + 1 /\ v \in Cells
      BY <1>5, <1>8, <1>10 DEF Cells
    <2>2. l = Append(List, v)
      BY <1>6, <1>7, <1>8, <2>1, AppendedIs
    <2> QED BY <1>4, <1>10, <2>2
  <1>11. CASE ~ (idx > items_len)
    <2>1. at = idx /\ idx <= Len(List)
      BY <1>1, <1>5, <1>8, <1>11
    <2> QED BY <1>4, <1>9, <1>11, <2>1 DEF Promise!Insert
  <1> QED BY <1>10, <1>11

LEMMA WithoutIsTake ==
  ASSUME StoreInv, NEW idx \in Nat, idx < items_len, items' = Without(idx), items_len' = items_len - 1
  PROVE  Promise!Take(idx)
  <1> DEFINE l == ListOf(Without(idx), items_len - 1)
  <1>1. FitsIn(Without(idx), items_len - 1) /\ Lacks(l, List, idx + 1)
    BY RemovedList DEF StoreInv
  <1>2. List' = l
    BY DEF List, ListOf
  <1>3. l \in Seq(Cells)
    BY <1>1, Fits
  <1> HIDE DEF l
  <1>4. List \in Seq(Cells) /\ Len(List) = items_len
    BY ListIs DEF StoreInv
  <1>5. l = Promise!RemoveAt(List, idx + 1)
    BY <1>1, <1>3, <1>4, RemovedIs
  <1> QED BY <1>2, <1>4, <1>5 DEF Promise!Take

LEMMA TakeIsPop ==
  ASSUME StoreInv, items_len > 0, items' = items, items_len' = items_len - 1
  PROVE  Promise!Pop
  <1> DEFINE l == ListOf(items, items_len - 1)
  <1>1. FitsIn(items, items_len - 1) /\ Lacks(l, List, items_len)
    BY PoppedList DEF StoreInv
  <1>2. List' = l
    BY DEF List, ListOf
  <1>3. l \in Seq(Cells)
    BY <1>1, Fits
  <1> HIDE DEF l
  <1>4. List \in Seq(Cells) /\ items_len = Len(List)
    BY ListIs DEF StoreInv
  <1>5. l = Promise!Front(List) /\ List # <<>>
    BY <1>1, <1>3, <1>4, PoppedIs
  <1> QED BY <1>2, <1>5 DEF Promise!Pop

LEMMA RawSetIdxIsAssign ==
  ASSUME StoreInv, NEW idx \in Nat, NEW v \in Values, RawSetIdx(idx, v)
  PROVE  Promise!Assign(idx, v)
  <1> DEFINE c == [i \in DOMAIN RoomFor(idx) |->
                     IF i = idx THEN v
                     ELSE IF i >= items_len /\ i < idx THEN Null
                     ELSE RoomFor(idx)[i]]
             m == IF idx >= items_len THEN idx + 1 ELSE items_len
  <1>1. items' = c /\ items_len' = m /\ (idx < items_cap \/ Capacities(idx) # {})
    BY DEF RawSetIdx
  <1>2. ListOf(c, m) = Assigned(List, idx, v)
    BY <1>1, AssignedList DEF StoreInv
  <1>3. List' = ListOf(c, m)
    BY <1>1 DEF List, ListOf
  <1> HIDE DEF c, m
  <1>4. List' = Assigned(List, idx, v)
    BY <1>2, <1>3
  <1> QED BY <1>4 DEF Assigned, Promise!Assign

LEMMA ListFollows ==
  ASSUME StoreInv, [Next]_vars
  PROVE  ListStep
  <1>0. 0..MaxIdx \subseteq Nat
    BY ArrayAssumption
  <1>1. ASSUME items' = items, items_len' = items_len
        PROVE  List' = List
    BY <1>1 DEF List
  <1>2. CASE Sane /\ InScript /\ ScriptStep
    <2>1. CASE \E s \in Strings : NewString(s) \/ Drop(s)
      <3>1. items' = items /\ items_len' = items_len /\ readonly' = readonly
        BY <2>1 DEF NewString, Drop
      <3> QED BY <1>1, <3>1 DEF ListStep
    <2>2. CASE \E v \in Values : Push(v)
      <3>1. PICK v \in Values : Push(v)
        BY <2>2
      <3>2. ~readonly /\ readonly' = readonly
        BY <3>1 DEF Push
      <3> QED BY <3>1, <3>2, PushIsAppend DEF ListStep
    <2>3. CASE \E i \in 0..MaxIdx, v \in Values : Insert(i, v)
      <3>1. PICK i \in 0..MaxIdx, v \in Values : Insert(i, v)
        BY <2>3
      <3>2. ~readonly /\ readonly' = readonly
        BY <3>1 DEF Insert
      <3>3. List' = Append(List, v) \/ Promise!Insert(i, v)
        BY <1>0, <3>1, InsertIsInsert
      <3> QED BY <3>2, <3>3 DEF ListStep
    <2>4. CASE \E i \in 0..MaxIdx : Remove(i)
      <3>1. PICK i \in 0..MaxIdx : Remove(i)
        BY <2>4
      <3>2. /\ ~readonly /\ readonly' = readonly /\ i < items_len
            /\ items' = Without(i) /\ items_len' = items_len - 1
        BY <3>1 DEF Remove
      <3>3. Promise!Take(i)
        BY <1>0, <3>2, WithoutIsTake
      <3> QED BY <3>2, <3>3 DEF ListStep
    <2>5. CASE \E i \in 0..MaxIdx, v \in Values : RawSetIdx(i, v)
      <3>1. PICK i \in 0..MaxIdx, v \in Values : RawSetIdx(i, v)
        BY <2>5
      <3>2. ~readonly /\ readonly' = readonly
        BY <3>1 DEF RawSetIdx
      <3>3. Promise!Assign(i, v)
        BY <1>0, <3>1, RawSetIdxIsAssign
      <3> QED BY <3>2, <3>3 DEF ListStep
    <2>6. CASE \E t \in Threads : PopTest(t)
      <3>1. items' = items /\ items_len' = items_len /\ readonly' = readonly
        BY <2>6 DEF PopTest
      <3> QED BY <1>1, <3>1 DEF ListStep
    <2>7. CASE \E t \in Threads : PopTake(t)
      <3>1. PICK t \in Threads : PopTake(t)
        BY <2>7
      <3>2. items_len > 0 /\ items' = items /\ items_len' = items_len - 1
        BY <1>2, <3>1, PopTakeStores
      <3>3. readonly' = readonly
        BY <3>1 DEF PopTake
      <3>4. Promise!Pop
        BY <3>2, TakeIsPop
      <3> QED BY <3>3, <3>4 DEF ListStep
    <2>8. CASE \E b \in BOOLEAN : SetReadonly(b)
      <3>1. items' = items /\ items_len' = items_len /\ readonly' \in BOOLEAN
        BY <2>8 DEF SetReadonly
      <3> QED BY <1>1, <3>1 DEF ListStep
    <2> QED BY <1>2, <2>1, <2>2, <2>3, <2>4, <2>5, <2>6, <2>7, <2>8 DEF ScriptStep
  <1>3. CASE Sane /\ popping = {} /\ Walk
    <2>1. CASE SpliceElement
      <3>1. readonly' = readonly /\ walk.kind = "splice"
        BY <2>1 DEF SpliceElement
      <3>2. walk.index \in 0..MaxIdx
        BY <3>1 DEF StoreInv, CallsFit, WalkFits
      <3>3. IF ~readonly /\ walk.index < items_len
            THEN items' = Without(walk.index) /\ items_len' = items_len - 1
            ELSE items' = items /\ items_len' = items_len
        BY <2>1 DEF SpliceElement
      <3>4. CASE ~readonly /\ walk.index < items_len
        <4>1. PICK i \in 0..MaxIdx : i = walk.index
          BY <3>2
        <4>2. i \in Nat /\ i < items_len /\ items' = Without(i) /\ items_len' = items_len - 1
          BY <1>0, <3>3, <3>4, <4>1
        <4>3. Promise!Take(i)
          BY <4>2, WithoutIsTake
        <4> QED BY <3>1, <3>4, <4>3 DEF ListStep
      <3>5. CASE ~ (~readonly /\ walk.index < items_len)
        BY <1>1, <3>1, <3>3, <3>5 DEF ListStep
      <3> QED BY <3>4, <3>5
    <2>2. CASE CopyElement
      <3>1. items' = items /\ items_len' = items_len /\ readonly' = readonly
        BY <2>2 DEF CopyElement
      <3> QED BY <1>1, <3>1 DEF ListStep
    <2>3. CASE DropResult
      <3>1. items' = items /\ items_len' = items_len /\ readonly' = readonly
        BY <2>3 DEF DropResult
      <3> QED BY <1>1, <3>1 DEF ListStep
    <2>4. CASE UNCHANGED storage
      <3>1. items' = items /\ items_len' = items_len /\ readonly' = readonly
        BY <2>4 DEF storage
      <3> QED BY <1>1, <3>1 DEF ListStep
    <2>5. \/ SpliceElement \/ CopyElement \/ DropResult
          \/ UNCHANGED storage
      BY <1>3 DEF Walk, WalkBegin, SpliceBegin, GiveElement, CallbackReturns, CallbackFails, WalkEnd
    <2> QED BY <2>1, <2>2, <2>3, <2>4, <2>5
  <1>4. CASE UNCHANGED vars
    <2>1. items' = items /\ items_len' = items_len /\ readonly' = readonly
      BY <1>4 DEF vars, storage
    <2> QED BY <1>1, <2>1 DEF ListStep
  <1> QED BY <1>2, <1>3, <1>4, OwnSteps

LEMMA ListStepIsPromised ==
  ASSUME ListStep
  PROVE  [Promise!Next]_(Promise!lvars)
  <1>1. ASSUME ~readonly, readonly' = readonly, NEW v \in Values, List' = Append(List, v)
        PROVE  Promise!Next
    BY <1>1 DEF Promise!Next, Promise!Push
  <1>2. ASSUME ~readonly, readonly' = readonly, NEW v \in Values, NEW i \in 0..MaxIdx, Promise!Insert(i, v)
        PROVE  Promise!Next
    BY <1>2 DEF Promise!Next
  <1>3. ASSUME ~readonly, readonly' = readonly, NEW i \in 0..MaxIdx, Promise!Take(i)
        PROVE  Promise!Next
    BY <1>3 DEF Promise!Next
  <1>4. ASSUME ~readonly, readonly' = readonly, NEW v \in Values, NEW i \in 0..MaxIdx, Promise!Assign(i, v)
        PROVE  Promise!Next
    BY <1>4 DEF Promise!Next
  <1>5. ASSUME Promise!Pop, readonly' = readonly
        PROVE  Promise!Next
    BY <1>5 DEF Promise!Next
  <1>6. ASSUME List' = List, readonly' = readonly \/ readonly' \in BOOLEAN
        PROVE  [Promise!Next]_(Promise!lvars)
    <2>1. CASE readonly' = readonly
      BY <1>6, <2>1 DEF Promise!lvars
    <2>2. CASE readonly' \in BOOLEAN
      <3>1. Promise!Next
        BY <1>6, <2>2 DEF Promise!Next
      <3> QED BY <3>1
    <2> QED BY <1>6, <2>1, <2>2
  <1> QED BY <1>1, <1>2, <1>3, <1>4, <1>5, <1>6 DEF ListStep

-----------------------------------------------------------------------------
(* The calls of source/object/array.c and source/lib/array.c keep ref_count *)
(* exact whatever a script and its callbacks do, but for what an           *)
(* assignment between the length and the capacity releases: the array owns *)
(* one reference for each of its items, none is lost or given away twice.  *)
THEOREM StorageIsSound ==
  Spec => []StorageInvariant
  <1>1. Init => StoreInv
    BY StoreInit
  <1>2. StoreInv /\ [Next]_vars => StoreInv'
    BY StoreStep
  <1>3. StoreInv => StorageInvariant
    BY StoreIsSound
  <1> QED BY <1>1, <1>2, <1>3, PTL DEF Spec

(* The cells of an array are a list: push, insert, remove, rawset_idx, pop *)
(* and splice change it as array.h says or not at all, in the middle of a  *)
(* walk too; but an insert past the end appends.                           *)
THEOREM ArrayImplementsList ==
  Spec => ImplementsList
  <1>1. Init => StoreInv
    BY StoreInit
  <1>2. StoreInv /\ [Next]_vars => StoreInv'
    BY StoreStep
  <1>3. Init => Promise!Init
    <2>1. ASSUME Init
          PROVE  List = <<>> /\ readonly = FALSE
      <3>1. StoreInv
        BY <2>1, StoreInit
      <3>2. List \in Seq(Cells) /\ Len(List) = 0
        BY <2>1, <3>1, ListIs DEF StoreInv, Init
      <3>3. List = <<>>
        BY <3>2, EmptySeq
      <3> QED BY <2>1, <3>3 DEF Init
    <2> QED BY <2>1 DEF Promise!Init
  <1>4. StoreInv /\ [Next]_vars => [Promise!Next]_(Promise!lvars)
    BY ListFollows, ListStepIsPromised
  <1> QED BY <1>1, <1>2, <1>3, <1>4, PTL DEF Spec, ImplementsList, Promise!Spec

-----------------------------------------------------------------------------
(* What the calls that walk the array see of it.                           *)

(* Between calls there is nothing to say.                                  *)
LEMMA NoCall ==
  ASSUME walk.kind = "none", walk.at = "none", walk.same, ~walk.shrunk
  PROVE  CallInv /\ CopyInv
  BY DEF CallInv, CopyInv, Calls

(* The items stay as they are, or more are appended.                       *)
LEMMA QuietStep ==
  ASSUME StoreInv, InScript, CallInv, CopyInv, walk' = walk, result' = result,
         items_len' \in Nat, items_len <= items_len',
         \A i \in 0..(items_len - 1) : items'[i] = items[i]
  PROVE  CallInv' /\ CopyInv'
  <1>1. walk.kind \notin {"copy", "splice"} /\ walk.at \in {"none", "callback"}
    BY ScriptHasNoResult DEF StoreInv, CallsFit, InScript
  <1>2. CopyInv'
    BY <1>1 DEF CopyInv
  <1>3. CASE walk.at = "none"
    <2>1. walk'.at = "none" /\ walk'.kind = "none" /\ (walk'.same => ~walk'.shrunk)
      BY <1>3 DEF StoreInv, CallsFit, WalkFits, CallInv
    <2> QED BY <1>2, <2>1 DEF CallInv, Calls
  <1>4. CASE walk.at = "callback"
    <2>1. items_len \in Nat /\ walk \in Walks /\ walk.count \in Nat /\ walk.kind \in Calls
      <3>1. walk \in Walks /\ walk.kind \in Calls
        BY <1>4 DEF StoreInv, CallsFit, WalkFits
      <3>2. walk.count \in 0..MaxCap /\ MaxCap \in Nat
        BY <3>1, ArrayAssumption DEF Walks
      <3> QED BY <3>1, <3>2, Fits DEF StoreInv, ItemsFit
    <2>2. /\ walk.index <= walk.count /\ (~walk.shrunk => walk.count <= items_len)
          /\ walk.same => ~walk.shrunk
          /\ walk.same => \A n \in 1..Len(walk.was) : walk.was[n] = items[n - 1]
          /\ walk.same => walk.count = Len(walk.was)
      BY <1>4, <2>1 DEF CallInv
    <2>3. ~walk.shrunk => walk.count <= items_len'
      BY <2>1, <2>2
    <2>4. ASSUME walk.same, NEW n \in 1..Len(walk.was)
          PROVE  walk.was[n] = items'[n - 1]
      <3>1. n - 1 \in 0..(items_len - 1)
        BY <2>1, <2>2, <2>4
      <3> QED BY <2>2, <2>4, <3>1
    <2> QED BY <1>2, <1>4, <2>2, <2>3, <2>4 DEF CallInv
  <1> QED BY <1>1, <1>3, <1>4

(* A callback changes the list: from then on the call follows it no more.  *)
LEMMA DisturbedStep ==
  ASSUME StoreInv, InScript, CallInv, CopyInv, NEW shrinks \in BOOLEAN, Disturbs(shrinks),
         items_len' \in Nat, ~shrinks => items_len <= items_len'
  PROVE  CallInv' /\ CopyInv'
  <1>1. WalkFits /\ walk.kind \notin {"copy", "splice"} /\ walk.at \in {"none", "callback"}
    BY ScriptHasNoResult DEF StoreInv, CallsFit, InScript
  <1>2. /\ walk'.kind = walk.kind /\ walk'.at = walk.at
        /\ walk'.index = walk.index /\ walk'.count = walk.count /\ walk'.arg = walk.arg
        /\ walk.at = "callback" => ~walk'.same /\ walk'.shrunk = (walk.shrunk \/ shrinks)
        /\ walk.at = "none" => walk' = walk
    BY <1>1, DisturbsWalk
  <1>3. CopyInv'
    BY <1>1, <1>2 DEF CopyInv
  <1>4. CASE walk.at = "none"
    <2>1. walk'.at = "none" /\ walk'.kind = "none" /\ (walk'.same => ~walk'.shrunk)
      BY <1>1, <1>2, <1>4 DEF WalkFits, CallInv
    <2> QED BY <1>3, <2>1 DEF CallInv, Calls
  <1>5. CASE walk.at = "callback"
    <2>1. items_len \in Nat /\ walk.count \in Nat /\ walk.kind \in Calls
      <3>1. walk \in Walks /\ walk.kind \in Calls
        BY <1>5 DEF StoreInv, CallsFit, WalkFits
      <3>2. walk.count \in 0..MaxCap /\ MaxCap \in Nat
        BY <3>1, ArrayAssumption DEF Walks
      <3> QED BY <3>1, <3>2, Fits DEF StoreInv, ItemsFit
    <2>2. walk.index <= walk.count /\ (~walk.shrunk => walk.count <= items_len /\ walk.arg \in Values)
      BY <1>5, <2>1 DEF CallInv
    <2>3. ~walk.shrunk /\ ~shrinks => walk.count <= items_len'
      BY <1>5, <2>1, <2>2
    <2> QED BY <1>2, <1>3, <1>5, <2>2, <2>3 DEF CallInv
  <1> QED BY <1>1, <1>4, <1>5

LEMMA ScriptKeepsCalls ==
  ASSUME Sane, StoreInv, StoreInv', InScript, ScriptStep, CallInv, CopyInv
  PROVE  CallInv' /\ CopyInv'
  <1>0. 0..MaxIdx \subseteq Nat /\ items_len \in Nat /\ items_len' \in Nat
    <2>1. items_len \in Nat /\ MaxIdx \in Nat
      BY Fits, ArrayAssumption DEF StoreInv, ItemsFit
    <2>2. FitsIn(items', items_len')
      BY DEF StoreInv, ItemsFit
    <2>3. items_len' \in Nat
      BY <2>2, Fits
    <2> QED BY <2>1, <2>3
  <1>1. FALSE \in BOOLEAN /\ TRUE \in BOOLEAN
    OBVIOUS
  <1>2. ASSUME items' = items, items_len' = items_len, walk' = walk, result' = result
        PROVE  CallInv' /\ CopyInv'
    BY <1>0, <1>2, QuietStep
  <1>3. CASE \E s \in Strings : NewString(s) \/ Drop(s)
    BY <1>2, <1>3 DEF NewString, Drop
  <1>4. CASE popping = {} /\ \E v \in Values : Push(v)
    <2>1. PICK v \in Values : Push(v)
      BY <1>4
    <2>2. PICK c : c = [Room EXCEPT ![items_len] = v]
      OBVIOUS
    <2>3. items' = c /\ items_len' = items_len + 1 /\ walk' = walk /\ result' = result
      BY <2>1, <2>2 DEF Push
    <2>4. PICK cap \in Nat : /\ Room \in [0..(cap - 1) -> Cells] /\ items_len < cap
                             /\ \A i \in 0..(items_len - 1) : Room[i] = items[i]
      BY <2>1, RoomCells DEF StoreInv, Push
    <2>5. \A i \in 0..(items_len - 1) : c[i] = items[i]
      <3>1. \A i \in 0..(items_len - 1) : i \in 0..(cap - 1) /\ i # items_len
        BY <1>0, <2>4
      <3> QED BY <2>2, <2>4, <3>1
    <2> HIDE <2>2
    <2>6. \A i \in 0..(items_len - 1) : items'[i] = items[i]
      BY <2>3, <2>5
    <2>7. items_len <= items_len'
      BY <1>0, <2>3
    <2> QED BY <1>0, <2>3, <2>6, <2>7, QuietStep
  <1>5. CASE popping = {} /\ \E i \in 0..MaxIdx, v \in Values : Insert(i, v)
    <2>1. PICK i \in 0..MaxIdx, v \in Values : Insert(i, v)
      BY <1>5
    <2>2. items_len' = items_len + 1 /\ Disturbs(FALSE)
      BY <2>1 DEF Insert
    <2>3. items_len <= items_len'
      BY <1>0, <2>2
    <2> QED BY <1>0, <1>1, <2>2, <2>3, DisturbedStep
  <1>6. CASE popping = {} /\ \E i \in 0..MaxIdx : Remove(i)
    <2>1. PICK i \in 0..MaxIdx : Remove(i)
      BY <1>6
    <2>2. Disturbs(TRUE)
      BY <2>1 DEF Remove
    <2> QED BY <1>0, <1>1, <2>2, DisturbedStep
  <1>7. CASE popping = {} /\ \E i \in 0..MaxIdx, v \in Values : RawSetIdx(i, v)
    <2>1. PICK i \in 0..MaxIdx, v \in Values : RawSetIdx(i, v)
      BY <1>7
    <2>2. items_len' = (IF i >= items_len THEN i + 1 ELSE items_len) /\ Disturbs(FALSE)
      BY <2>1 DEF RawSetIdx
    <2>3. items_len <= items_len'
      <3>1. i \in Nat
        BY <1>0
      <3> QED BY <1>0, <2>2, <3>1
    <2> QED BY <1>0, <1>1, <2>2, <2>3, DisturbedStep
  <1>8. CASE popping = {} /\ \E t \in Threads : PopTest(t)
    BY <1>2, <1>8 DEF PopTest
  <1>9. CASE \E t \in Threads : PopTake(t)
    <2>1. PICK t \in Threads : PopTake(t)
      BY <1>9
    <2>2. Disturbs(TRUE)
      BY <2>1 DEF PopTake
    <2> QED BY <1>0, <1>1, <2>2, DisturbedStep
  <1>10. CASE \E b \in BOOLEAN : SetReadonly(b)
    BY <1>2, <1>10 DEF SetReadonly
  <1> QED BY <1>3, <1>4, <1>5, <1>6, <1>7, <1>8, <1>9, <1>10 DEF ScriptStep

LEMMA PrefixIs ==
  ASSUME NEW S, NEW s \in Seq(S), NEW i \in Nat, i <= Len(s)
  PROVE  /\ SubSeq(s, 1, i) \in Seq(S) /\ Len(SubSeq(s, 1, i)) = i
         /\ \A k \in 1..i : SubSeq(s, 1, i)[k] = s[k]
  <1>1. Len(s) \in Nat /\ \A k \in 1..i : s[k] \in S
    BY SeqFacts
  <1>2. /\ SubSeq(s, 1, i) \in Seq(S) /\ Len(SubSeq(s, 1, i)) = IF 1 <= i THEN i - 1 + 1 ELSE 0
        /\ \A k \in 1..i - 1 + 1 : SubSeq(s, 1, i)[k] = s[1 + k - 1]
    BY <1>1, SubSeqProperties
  <1>3. (IF 1 <= i THEN i - 1 + 1 ELSE 0) = i /\ i - 1 + 1 = i /\ \A k \in 1..i : 1 + k - 1 = k
    OBVIOUS
  <1> QED BY <1>2, <1>3

LEMMA PrefixGrows ==
  ASSUME NEW S, NEW s \in Seq(S), NEW i \in Nat, i < Len(s), NEW x, s[i + 1] = x
  PROVE  SubSeq(s, 1, i + 1) = Append(SubSeq(s, 1, i), x)
  <1>1. Len(s) \in Nat /\ x \in S /\ i + 1 \in Nat /\ i + 1 <= Len(s) /\ i <= Len(s)
    <2>1. Len(s) \in Nat
      BY SeqFacts
    <2>2. i + 1 \in 1..Len(s)
      BY <2>1
    <2> QED BY <2>1, <2>2, SeqFacts
  <1>2. PICK a : a = SubSeq(s, 1, i)
    OBVIOUS
  <1>3. a \in Seq(S) /\ Len(a) = i /\ \A k \in 1..i : a[k] = s[k]
    BY <1>1, <1>2, PrefixIs
  <1>4. PICK b : b = SubSeq(s, 1, i + 1)
    OBVIOUS
  <1>5. b \in Seq(S) /\ Len(b) = i + 1 /\ \A k \in 1..i + 1 : b[k] = s[k]
    BY <1>1, <1>4, PrefixIs
  <1>6. PICK c : c = Append(a, x)
    OBVIOUS
  <1>7. c \in Seq(S) /\ Len(c) = i + 1 /\ (\A k \in 1..i : c[k] = a[k]) /\ c[i + 1] = x
    BY <1>1, <1>3, <1>6, AppendProperties
  <1>8. \A k \in 1..i + 1 : k \in 1..i \/ k = i + 1
    OBVIOUS
  <1>9. \A k \in 1..Len(b) : b[k] = c[k]
    BY <1>3, <1>5, <1>7, <1>8
  <1>10. b = c
    BY <1>5, <1>7, <1>9, SeqEqual
  <1> QED BY <1>2, <1>4, <1>6, <1>10

(* Elements picked from a list in its order, and one more element of it.   *)
LEMMA PickedMore ==
  ASSUME NEW S, NEW seq \in Seq(S), NEW part \in Seq(S), PickedFrom(part, seq), NEW x \in S
  PROVE  PickedFrom(part, Append(seq, x)) /\ PickedFrom(Append(part, x), Append(seq, x))
  <1> DEFINE n == Len(seq)
             m == Len(part)
  <1>1. /\ n \in Nat /\ DOMAIN seq = 1..n /\ m \in Nat /\ DOMAIN part = 1..m
    BY SeqFacts
  <1>2. PICK pick \in [1..m -> 1..n] :
          /\ \A j, k \in 1..m : j < k => pick[j] < pick[k]
          /\ \A k \in 1..m : part[k] = seq[pick[k]]
    BY <1>1 DEF PickedFrom
  <1>3. PICK q : q = Append(seq, x)
    OBVIOUS
  <1>4. /\ DOMAIN q = 1..n + 1 /\ q[n + 1] = x /\ \A k \in 1..n : q[k] = seq[k]
    <2>1. /\ q \in Seq(S) /\ Len(q) = n + 1 /\ q[n + 1] = x /\ \A k \in 1..n : q[k] = seq[k]
      BY <1>3, AppendProperties
    <2> QED BY <2>1, SeqFacts
  <1>5. PICK p : p = Append(part, x)
    OBVIOUS
  <1>6. /\ DOMAIN p = 1..m + 1 /\ p[m + 1] = x /\ \A k \in 1..m : p[k] = part[k]
    <2>1. /\ p \in Seq(S) /\ Len(p) = m + 1 /\ p[m + 1] = x /\ \A k \in 1..m : p[k] = part[k]
      BY <1>5, AppendProperties
    <2> QED BY <2>1, SeqFacts
  <1> HIDE DEF n, m
  <1>7. \A k \in 1..m : pick[k] \in 1..n /\ pick[k] \in 1..n + 1 /\ pick[k] < n + 1 /\ k \in 1..m + 1 /\ k # m + 1
    <2>1. \A k \in 1..n : k \in 1..n + 1 /\ k < n + 1
      BY <1>1
    <2>2. \A k \in 1..m : pick[k] \in 1..n /\ k \in 1..m + 1 /\ k # m + 1
      BY <1>1, <1>2
    <2> QED BY <2>1, <2>2
  <1>8. PickedFrom(part, q)
    <2>1. pick \in [DOMAIN part -> DOMAIN q]
      BY <1>1, <1>2, <1>4, <1>7
    <2>2. \A k \in DOMAIN part : part[k] = q[pick[k]]
      BY <1>1, <1>2, <1>4, <1>7
    <2>3. \A j, k \in DOMAIN part : j < k => pick[j] < pick[k]
      BY <1>1, <1>2
    <2> QED BY <2>1, <2>2, <2>3 DEF PickedFrom
  <1>9. PickedFrom(p, q)
    <2> DEFINE more == [k \in 1..m + 1 |-> IF k = m + 1 THEN n + 1 ELSE pick[k]]
    <2>1. \A k \in 1..m + 1 : k = m + 1 \/ k \in 1..m
      BY <1>1
    <2>2. n + 1 \in 1..n + 1 /\ m + 1 \in 1..m + 1
      BY <1>1
    <2>3. more \in [1..m + 1 -> 1..n + 1]
      BY <1>7, <2>1, <2>2
    <2>4. more[m + 1] = n + 1 /\ \A k \in 1..m : more[k] = pick[k]
      BY <1>7, <2>2
    <2> HIDE DEF more
    <2>5. ASSUME NEW j \in 1..m + 1, NEW k \in 1..m + 1, j < k
          PROVE  more[j] < more[k]
      <3>1. j \in 1..m
        BY <1>1, <2>5
      <3>2. CASE k = m + 1
        BY <1>7, <2>4, <3>1, <3>2
      <3>3. CASE k \in 1..m
        <4>1. pick[j] < pick[k]
          BY <1>2, <2>5, <3>1, <3>3
        <4> QED BY <2>4, <3>1, <3>3, <4>1
      <3> QED BY <2>1, <3>2, <3>3
    <2>6. ASSUME NEW k \in 1..m + 1
          PROVE  p[k] = q[more[k]]
      <3>1. CASE k = m + 1
        BY <1>4, <1>6, <2>4, <3>1
      <3>2. CASE k \in 1..m
        <4>1. p[k] = part[k] /\ part[k] = seq[pick[k]] /\ more[k] = pick[k] /\ pick[k] \in 1..n
          BY <1>2, <1>6, <1>7, <2>4, <3>2
        <4>2. \A l \in 1..n : q[l] = seq[l]
          BY <1>4
        <4> QED BY <4>1, <4>2
      <3> QED BY <2>1, <3>1, <3>2
    <2>7. more \in [DOMAIN p -> DOMAIN q]
      BY <1>4, <1>6, <2>3
    <2>8. \A j, k \in DOMAIN p : j < k => more[j] < more[k]
      BY <1>6, <2>5
    <2>9. \A k \in DOMAIN p : p[k] = q[more[k]]
      BY <1>6, <2>6
    <2> QED BY <2>7, <2>8, <2>9 DEF PickedFrom
  <1> QED BY <1>3, <1>5, <1>8, <1>9

LEMMA WalkBounds ==
  ASSUME StoreInv
  PROVE  /\ walk \in Walks /\ walk.index \in Nat /\ walk.count \in Nat /\ walk.was \in Seq(Cells)
         /\ result \in Seq(Cells) /\ items_len \in Nat /\ walk.kind \in Kinds
  <1>1. walk \in Walks /\ result \in Seq(Cells) /\ MaxCap \in Nat
    BY ArrayAssumption DEF StoreInv, CallsFit, WalkFits
  <1> QED BY <1>1, Fits DEF Walks, StoreInv, ItemsFit

LEMMA BeginKeepsCalls ==
  ASSUME StoreInv, popping = {}, NEW kind \in {"map", "filter", "copy"}, WalkBegin(kind)
  PROVE  CallInv' /\ CopyInv'
  <1>1. /\ walk = NoWalk /\ UNCHANGED storage /\ result' = result
        /\ walk' = [NoWalk EXCEPT !.kind = kind, !.at = "step", !.count = items_len, !.was = List]
    BY DEF WalkBegin
  <1>2. /\ walk'.kind = kind /\ walk'.at = "step" /\ walk'.index = 0 /\ walk'.count = items_len
        /\ walk'.was = List /\ walk'.same = TRUE /\ walk'.shrunk = FALSE
    BY <1>1 DEF NoWalk
  <1>3. result' = <<>>
    BY <1>1 DEF StoreInv, CallsFit, WalkFits, NoWalk
  <1>4. items' = items /\ items_len' = items_len /\ popping' = {} /\ List' = List
    BY <1>1 DEF storage, List
  <1>5. /\ List \in Seq(Cells) /\ Len(List) = items_len /\ items_len \in Nat
        /\ \A n \in 1..Len(List) : List[n] = items[n - 1]
    BY ListIs DEF StoreInv
  <1>6. SubSeq(List, 1, 0) = <<>>
    BY SubSeqEmpty
  <1>7. PickedFrom(<<>>, <<>>)
    <2>1. DOMAIN <<>> = {} /\ <<>> \in [{} -> {}]
      OBVIOUS
    <2> QED BY <2>1 DEF PickedFrom
  <1>8. Len(<<>>) = 0
    OBVIOUS
  <1>9. kind # "splice" /\ 0 <= items_len
    BY <1>5
  <1>10. CopyInv'
    BY <1>2, <1>3, <1>4, <1>6, <1>9 DEF CopyInv
  <1>11. (walk.kind = "map" /\ walk.same =>
            Len(result) = walk.index /\ \A n \in 1..Len(result) : result[n] \in {walk.was[n], Null})'
    BY <1>2, <1>3, <1>8
  <1>12. (walk.kind = "filter" /\ walk.same => PickedFrom(result, SubSeq(walk.was, 1, walk.index)))'
    BY <1>2, <1>3, <1>6, <1>7
  <1>13. (walk.kind \in Calls /\ walk.at \in {"step", "callback"} =>
            /\ walk.index <= walk.count /\ (~walk.shrunk => walk.count <= items_len)
            /\ walk.same => \A n \in 1..Len(walk.was) : walk.was[n] = items[n - 1])'
    BY <1>2, <1>4, <1>5, <1>9
  <1>14. (walk.kind \in Calls \cup {"copy"} /\ walk.same =>
            walk.count = Len(walk.was) /\ walk.index <= walk.count)'
    BY <1>2, <1>5, <1>9
  <1> QED BY <1>2, <1>4, <1>10, <1>11, <1>12, <1>13, <1>14 DEF CallInv

LEMMA SpliceBeginKeepsCalls ==
  ASSUME StoreInv, popping = {}, NEW start \in Nat, NEW count \in Nat, SpliceBegin(start, count)
  PROVE  CallInv' /\ CopyInv'
  <1> DEFINE from == IF start > items_len THEN items_len ELSE start
             some == IF count > items_len - from THEN items_len - from ELSE count
  <1>1. /\ walk = NoWalk /\ UNCHANGED storage /\ result' = result
        /\ walk' = [NoWalk EXCEPT !.kind = "splice", !.at = "step", !.index = from, !.was = List,
                                  !.count = some]
    BY DEF SpliceBegin
  <1>2. walk'.kind = "splice" /\ walk'.at = "step" /\ walk'.index = from /\ walk'.was = List
        /\ walk'.shrunk = FALSE
    BY <1>1 DEF NoWalk
  <1>3. result' = <<>>
    BY <1>1 DEF StoreInv, CallsFit, WalkFits, NoWalk
  <1>4. items' = items /\ items_len' = items_len /\ popping' = {} /\ List' = List
    BY <1>1 DEF storage, List
  <1>5. List \in Seq(Cells) /\ Len(List) = items_len /\ items_len \in Nat
    BY ListIs DEF StoreInv
  <1>6. from \in 0..items_len /\ from <= items_len
    BY <1>5
  <1> HIDE DEF from, some
  <1>7. List = SubSeq(List, 1, from) \o <<>> \o SubSeq(List, from + 1, items_len)
    <2>1. SubSeq(List, 1, from) \in Seq(Cells)
      BY <1>5, <1>6, PrefixIs
    <2>2. SubSeq(List, 1, from) \o <<>> = SubSeq(List, 1, from)
      BY <2>1, ConcatEmptySeq
    <2>3. SubSeq(List, 1, from) \o SubSeq(List, from + 1, items_len) = SubSeq(List, 1, items_len)
      <3>1. 1 \in 1..Len(List) + 1 /\ from \in 1 - 1..Len(List) /\ items_len \in from..Len(List)
        BY <1>5, <1>6
      <3> QED BY <1>5, <3>1, ConcatAdjacentSubSeq
    <2>4. SubSeq(List, 1, items_len) = List
      BY <1>5, SubSeqFull
    <2> QED BY <2>2, <2>3, <2>4
  <1>8. CopyInv'
    BY <1>2, <1>3, <1>4, <1>6, <1>7 DEF CopyInv
  <1>9. CallInv'
    BY <1>2, <1>4 DEF CallInv, Calls
  <1> QED BY <1>8, <1>9

LEMMA GiveKeepsCalls ==
  ASSUME StoreInv, popping = {}, CallInv, CopyInv, GiveElement
  PROVE  CallInv' /\ CopyInv'
  <1>1. /\ walk.kind \in Calls /\ walk.at = "step" /\ ~ (walk.index >= walk.count)
        /\ UNCHANGED storage /\ result' = result
    BY DEF GiveElement, Calls, Walked
  <1>2. /\ walk'.kind = walk.kind /\ walk'.at = "callback" /\ walk'.index = walk.index
        /\ walk'.count = walk.count /\ walk'.was = walk.was /\ walk'.same = walk.same
        /\ walk'.shrunk = walk.shrunk
        /\ walk'.arg = IF walk.index < items_len THEN items[walk.index] ELSE Junk
    BY GiveStores
  <1>3. /\ walk.index \in Nat /\ walk.count \in Nat /\ items_len \in Nat
    BY WalkBounds
  <1>4. /\ walk.index <= walk.count /\ (~walk.shrunk => walk.count <= items_len)
        /\ walk.same => ~walk.shrunk
        /\ walk.same => \A n \in 1..Len(walk.was) : walk.was[n] = items[n - 1]
        /\ walk.same => walk.count = Len(walk.was)
    BY <1>1 DEF CallInv
  <1>5. /\ walk.index < walk.count
        /\ ~walk.shrunk => walk.index < items_len /\ walk.index \in 0..(items_len - 1)
    BY <1>1, <1>3, <1>4
  <1>6. ~walk.shrunk => walk'.arg = items[walk.index] /\ items[walk.index] \in Values
    BY <1>2, <1>5, Fits DEF StoreInv, ItemsFit
  <1>7. walk.same => items[walk.index] = walk.was[walk.index + 1]
    <2>1. walk.index + 1 \in 1..walk.count /\ (walk.index + 1) - 1 = walk.index
      BY <1>3, <1>5
    <2> QED BY <1>4, <2>1
  <1>8. items' = items /\ items_len' = items_len /\ popping' = {}
    BY <1>1 DEF storage
  <1>9. CopyInv'
    BY <1>1, <1>2 DEF CopyInv, Calls
  <1>10. walk.kind # "none"
    BY <1>1 DEF Calls
  <1> QED BY <1>1, <1>2, <1>4, <1>6, <1>7, <1>8, <1>9 DEF CallInv

LEMMA ReturnKeepsCalls ==
  ASSUME StoreInv, popping = {}, CallInv, CopyInv, NEW b \in BOOLEAN, CallbackReturns(b)
  PROVE  CallInv' /\ CopyInv'
  <1> DEFINE i == walk.index
             was == walk.was
  <1>1. walk.at = "callback" /\ UNCHANGED storage
    BY DEF CallbackReturns, InCallback
  <1>2. /\ walk'.kind = walk.kind /\ walk'.at = "step" /\ walk'.index = i + 1
        /\ walk'.count = walk.count /\ walk'.was = was /\ walk'.same = walk.same
        /\ walk'.shrunk = walk.shrunk /\ result' = Returned(b)
    BY ReturnStores
  <1>3. /\ i \in Nat /\ walk.count \in Nat /\ items_len \in Nat
        /\ was \in Seq(Cells) /\ result \in Seq(Cells)
    BY WalkBounds
  <1>4. walk.kind \in Calls /\ i < walk.count
    BY <1>1 DEF StoreInv, CallsFit, WalkFits
  <1>5. /\ walk.same => ~walk.shrunk
        /\ ~walk.shrunk => walk.count <= items_len /\ walk.arg \in Values
        /\ walk.same => /\ \A n \in 1..Len(was) : was[n] = items[n - 1]
                        /\ walk.count = Len(was) /\ walk.arg = was[i + 1]
    BY <1>1, <1>4 DEF CallInv
  <1>6. items' = items /\ items_len' = items_len /\ popping' = {}
    BY <1>1 DEF storage
  <1>7. i + 1 <= walk.count
    BY <1>3, <1>4
  <1>8. CopyInv'
    BY <1>2, <1>4 DEF CopyInv, Calls
  <1>9. ASSUME walk.kind = "map", walk.same
        PROVE  /\ Len(Returned(b)) = i + 1
               /\ \A n \in 1..Len(Returned(b)) : Returned(b)[n] \in {was[n], Null}
    <2>1. PICK v \in Cells : v = IF b THEN walk.arg ELSE Null
      BY <1>5, <1>9 DEF Values, Cells
    <2>2. Returned(b) = Append(result, v)
      BY <1>9, <2>1 DEF Returned
    <2>3. Len(result) = i /\ \A n \in 1..i : result[n] \in {was[n], Null}
      BY <1>9 DEF CallInv
    <2>4. PICK r : r = Append(result, v)
      OBVIOUS
    <2>5. Len(r) = Len(result) + 1 /\ r[Len(result) + 1] = v /\ \A n \in 1..Len(result) : r[n] = result[n]
      BY <1>3, <2>4, AppendProperties
    <2>6. v \in {was[i + 1], Null}
      BY <1>5, <1>9, <2>1
    <2>7. \A n \in 1..i + 1 : n \in 1..i \/ n = i + 1
      BY <1>3
    <2> QED BY <2>2, <2>3, <2>4, <2>5, <2>6, <2>7
  <1>10. ASSUME walk.kind = "filter", walk.same
         PROVE  PickedFrom(Returned(b), SubSeq(was, 1, i + 1))
    <2>1. PickedFrom(result, SubSeq(was, 1, i))
      BY <1>10 DEF CallInv
    <2>2. walk.arg = was[i + 1] /\ i < Len(was) /\ i <= Len(was)
      BY <1>3, <1>4, <1>5, <1>10
    <2>3. PICK v \in Cells : v = walk.arg
      BY <1>5, <1>10 DEF Cells
    <2>4. SubSeq(was, 1, i) \in Seq(Cells)
      BY <1>3, <2>2, PrefixIs
    <2>5. SubSeq(was, 1, i + 1) = Append(SubSeq(was, 1, i), v)
      BY <1>3, <2>2, <2>3, PrefixGrows
    <2>6. Returned(b) = IF b THEN Append(result, v) ELSE result
      BY <1>10, <2>3 DEF Returned
    <2>7. /\ PickedFrom(result, Append(SubSeq(was, 1, i), v))
          /\ PickedFrom(Append(result, v), Append(SubSeq(was, 1, i), v))
      BY <1>3, <2>1, <2>4, PickedMore
    <2> QED BY <2>5, <2>6, <2>7
  <1>11. (walk.kind \in Calls /\ walk.at \in {"step", "callback"} =>
            /\ walk.index <= walk.count /\ (~walk.shrunk => walk.count <= items_len)
            /\ walk.same => \A n \in 1..Len(walk.was) : walk.was[n] = items[n - 1])'
    BY <1>2, <1>5, <1>6, <1>7
  <1>12. (walk.kind \in Calls \cup {"copy"} /\ walk.same =>
            walk.count = Len(walk.was) /\ walk.index <= walk.count)'
    BY <1>2, <1>5, <1>7
  <1>13. (walk.kind = "map" /\ walk.same =>
            Len(result) = walk.index /\ \A n \in 1..Len(result) : result[n] \in {walk.was[n], Null})'
    BY <1>2, <1>9
  <1>14. (walk.kind = "filter" /\ walk.same => PickedFrom(result, SubSeq(walk.was, 1, walk.index)))'
    BY <1>2, <1>10
  <1> QED BY <1>2, <1>5, <1>6, <1>8, <1>11, <1>12, <1>13, <1>14 DEF CallInv

LEMMA CopyKeepsCalls ==
  ASSUME StoreInv, Sane, popping = {}, CallInv, CopyInv, CopyElement
  PROVE  CallInv' /\ CopyInv'
  <1> DEFINE i == walk.index
             was == walk.was
  <1>1. /\ walk.kind = "copy" /\ walk.at = "step" /\ ~ (i >= walk.count) /\ popping' = popping
    BY DEF CopyElement, Walked
  <1>2. /\ walk'.kind = "copy" /\ walk'.at = "step" /\ walk'.index = i + 1
        /\ walk'.count = walk.count /\ walk'.was = was /\ walk'.same = walk.same
        /\ walk'.shrunk = walk.shrunk
        /\ result' = (IF i < items_len THEN Append(result, items[i]) ELSE result)
        /\ List' = List
    BY CopyStores
  <1>3. /\ i \in Nat /\ walk.count \in Nat /\ items_len \in Nat
        /\ was \in Seq(Cells) /\ result \in Seq(Cells)
    BY WalkBounds
  <1>4. walk.same /\ result = SubSeq(was, 1, i) /\ was = List
    BY <1>1 DEF CopyInv
  <1>5. walk.count = Len(was) /\ ~walk.shrunk
    BY <1>1, <1>4 DEF CallInv
  <1>6. Len(List) = items_len /\ \A k \in 1..items_len : List[k] = items[k - 1]
    BY ListIs DEF StoreInv
  <1>7. i < items_len /\ i < Len(was) /\ i + 1 <= Len(was)
    BY <1>1, <1>3, <1>4, <1>5, <1>6
  <1>8. PICK v : v = items[i]
    OBVIOUS
  <1>9. was[i + 1] = v
    <2>1. i + 1 \in 1..items_len /\ (i + 1) - 1 = i
      BY <1>3, <1>7
    <2> QED BY <1>4, <1>6, <1>8, <2>1
  <1>10. SubSeq(was, 1, i + 1) = Append(SubSeq(was, 1, i), v)
    BY <1>3, <1>7, <1>9, PrefixGrows
  <1>11. result' = SubSeq(was, 1, i + 1)
    <2>1. result' = Append(result, v)
      BY <1>2, <1>7, <1>8
    <2> QED BY <1>4, <1>10, <2>1
  <1>12. CopyInv'
    BY <1>2, <1>4, <1>11 DEF CopyInv
  <1>13. CallInv'
    BY <1>1, <1>2, <1>5, <1>7 DEF CallInv, Calls
  <1> QED BY <1>12, <1>13

LEMMA SpliceKeepsCalls ==
  ASSUME StoreInv, Sane, popping = {}, CallInv, CopyInv, SpliceElement
  PROVE  CallInv' /\ CopyInv'
  <1> DEFINE i == walk.index
             was == walk.was
  <1>1. walk.kind = "splice" /\ walk.at = "step" /\ popping' = popping
    BY DEF SpliceElement
  <1>2. /\ walk'.kind = "splice" /\ walk'.at = "step" /\ walk'.index = i /\ walk'.was = was
        /\ walk'.same = walk.same /\ walk'.shrunk = walk.shrunk
        /\ IF ~readonly /\ i < items_len
           THEN result' = Append(result, items[i]) /\ items' = Without(i) /\ items_len' = items_len - 1
           ELSE UNCHANGED <<result, items, items_len>>
    BY SpliceStores
  <1>3. i \in Nat /\ items_len \in Nat /\ result \in Seq(Cells)
    BY WalkBounds
  <1>4. /\ i <= items_len
        /\ was = SubSeq(List, 1, i) \o result \o SubSeq(List, i + 1, items_len)
    BY <1>1 DEF CopyInv
  <1>5. CallInv'
    BY <1>1, <1>2 DEF CallInv, Calls
  <1>6. CASE ~readonly /\ i < items_len
    <2>1. PICK l : l = ListOf(Without(i), items_len - 1)
      OBVIOUS
    <2>2. PICK v \in Values : v = items[i]
      BY <1>3, <1>6, RemovedList DEF StoreInv
    <2>3. FitsIn(Without(i), items_len - 1) /\ Lacks(l, List, i + 1) /\ List[i + 1] = v
      BY <1>3, <1>6, <2>1, <2>2, RemovedList DEF StoreInv
    <2>4. l \in Seq(Cells) /\ Len(l) = items_len - 1
      BY <2>1, <2>3, Fits
    <2>5. List' = l
      BY <1>2, <1>6, <2>1 DEF List, ListOf
    <2>6. List \in Seq(Cells) /\ Len(List) = items_len
      BY ListIs DEF StoreInv
    <2>7. PICK j : j = i + 1
      OBVIOUS
    <2>8. PICK a, c \in Seq(Cells) : Parts(a, c, l, List, j, v)
      BY <2>3, <2>4, <2>6, <2>7, TakeOut
    <2>9. /\ a = SubSeq(List, 1, i) /\ a = SubSeq(l, 1, i)
          /\ c = SubSeq(List, (i + 1) + 1, items_len) /\ c = SubSeq(l, i + 1, items_len - 1)
      <3>1. j - 1 = i
        BY <1>3, <2>7
      <3> QED BY <2>4, <2>6, <2>7, <2>8, <3>1 DEF Parts
    <2>10. SubSeq(List, i + 1, items_len) = <<v>> \o c
      <3>1. i + 1 \in 1..Len(List) /\ items_len \in (i + 1)..Len(List)
        BY <1>3, <1>6, <2>6
      <3>2. SubSeq(List, i + 1, items_len) = <<List[i + 1]>> \o SubSeq(List, (i + 1) + 1, items_len)
        BY <2>6, <3>1, SubSeqRecursiveFirst
      <3> QED BY <2>3, <2>9, <3>2
    <2>11. PICK e : e = <<v>>
      OBVIOUS
    <2>12. v \in Cells /\ e \in Seq(Cells)
      <3>1. v \in Cells
        BY DEF Cells
      <3> QED BY <2>11, <3>1
    <2>13. PICK r : r = Append(result, v)
      OBVIOUS
    <2>14. r = result \o e /\ r \in Seq(Cells)
      BY <1>3, <2>11, <2>12, <2>13, AppendIsConcat, AppendProperties
    <2>15. (a \o result) \o (e \o c) = (a \o (result \o e)) \o c
      <3>1. PICK x : x = a \o result
        OBVIOUS
      <3>2. x \in Seq(Cells)
        BY <1>3, <3>1, ConcatProperties
      <3>3. (x \o e) \o c = x \o (e \o c)
        BY <2>12, <3>2, ConcatAssociative
      <3>4. (a \o result) \o e = a \o (result \o e)
        BY <1>3, <2>12, ConcatAssociative
      <3> QED BY <3>1, <3>3, <3>4
    <2>16. was = (a \o r) \o c
      <3>1. was = (a \o result) \o (e \o c)
        BY <1>4, <2>9, <2>10, <2>11
      <3> QED BY <2>14, <2>15, <3>1
    <2>17. result' = r /\ items_len' = items_len - 1
      BY <1>2, <1>6, <2>2, <2>13
    <2>18. i <= items_len'
      BY <1>3, <1>6, <2>17
    <2>19. was = SubSeq(List', 1, i) \o result' \o SubSeq(List', i + 1, items_len')
      BY <2>5, <2>9, <2>16, <2>17
    <2>20. CopyInv'
      BY <1>2, <2>18, <2>19 DEF CopyInv
    <2> QED BY <1>5, <2>20
  <1>7. CASE ~ (~readonly /\ i < items_len)
    <2>1. result' = result /\ items' = items /\ items_len' = items_len
      BY <1>2, <1>7
    <2>2. List' = List
      BY <2>1 DEF List
    <2>3. CopyInv'
      BY <1>2, <1>4, <2>1, <2>2 DEF CopyInv
    <2> QED BY <1>5, <2>3
  <1> QED BY <1>6, <1>7

LEMMA EndKeepsCalls ==
  ASSUME StoreInv, popping = {}, CallInv, CopyInv, WalkEnd
  PROVE  CallInv' /\ CopyInv'
  <1>1. /\ walk.at = "step" /\ UNCHANGED storage /\ result' = result
        /\ walk.kind # "splice" => walk.index >= walk.count
    BY DEF WalkEnd, Walked
  <1>2. /\ walk'.kind = walk.kind /\ walk'.at = "given" /\ walk'.index = walk.index
        /\ walk'.count = walk.count /\ walk'.was = walk.was /\ walk'.same = walk.same
        /\ walk'.shrunk = walk.shrunk /\ (walk.same => ~walk.shrunk)
    BY EndStores DEF CallInv
  <1>3. walk.index \in Nat /\ walk.count \in Nat /\ walk.kind \in Kinds
    BY WalkBounds
  <1>4. walk.kind # "none"
    BY <1>1 DEF StoreInv, CallsFit, WalkFits
  <1>5. walk.kind # "splice" => walk.index = walk.count
    <2>1. ASSUME walk.kind \in Calls
          PROVE  walk.index <= walk.count
      BY <1>1, <2>1 DEF CallInv
    <2>2. ASSUME walk.kind = "copy"
          PROVE  walk.index <= walk.count
      BY <2>2 DEF CallInv, CopyInv
    <2>3. walk.kind # "splice" => walk.kind \in Calls \/ walk.kind = "copy"
      BY <1>3, <1>4 DEF Kinds
    <2> QED BY <1>1, <1>3, <2>1, <2>2, <2>3
  <1>6. popping' = {}
    BY <1>1 DEF storage
  <1>7. CopyInv'
    BY <1>1, <1>2 DEF CopyInv
  <1>8. (walk.kind \in Calls \cup {"copy"} /\ walk.same =>
           walk.count = Len(walk.was) /\ walk.index <= walk.count)'
    BY <1>2 DEF CallInv
  <1>9. /\ (walk.kind = "map" /\ walk.same =>
              Len(result) = walk.index /\ \A n \in 1..Len(result) : result[n] \in {walk.was[n], Null})'
        /\ (walk.kind = "filter" /\ walk.same => PickedFrom(result, SubSeq(walk.was, 1, walk.index)))'
    BY <1>1, <1>2 DEF CallInv
  <1> QED BY <1>2, <1>5, <1>6, <1>7, <1>8, <1>9 DEF CallInv

LEMMA WalkKeepsCalls ==
  ASSUME StoreInv, Sane, popping = {}, CallInv, CopyInv, Walk
  PROVE  CallInv' /\ CopyInv'
  <1>0. 0..MaxIdx \subseteq Nat /\ NoWalk.kind = "none" /\ NoWalk.at = "none" /\ ~NoWalk.shrunk
    BY ArrayAssumption DEF NoWalk
  <1>1. CASE \E kind \in {"map", "filter", "copy"} : WalkBegin(kind)
    BY <1>1, BeginKeepsCalls
  <1>2. CASE \E i, n \in 0..MaxIdx : SpliceBegin(i, n)
    BY <1>0, <1>2, SpliceBeginKeepsCalls
  <1>3. CASE GiveElement
    BY <1>3, GiveKeepsCalls
  <1>4. CASE CallbackFails \/ DropResult
    <2>1. walk' = NoWalk /\ popping' = {}
      BY <1>4 DEF CallbackFails, DropResult, storage
    <2>2. walk'.kind = "none" /\ walk'.at = "none" /\ ~walk'.shrunk
      BY <1>0, <2>1
    <2> QED BY <2>1, <2>2 DEF CallInv, CopyInv, Calls
  <1>5. CASE CopyElement
    BY <1>5, CopyKeepsCalls
  <1>6. CASE SpliceElement
    BY <1>6, SpliceKeepsCalls
  <1>7. CASE WalkEnd
    BY <1>7, EndKeepsCalls
  <1>8. CASE \E b \in BOOLEAN : CallbackReturns(b)
    BY <1>8, ReturnKeepsCalls
  <1> QED BY <1>1, <1>2, <1>3, <1>4, <1>5, <1>6, <1>7, <1>8 DEF Walk

LEMMA CallStep ==
  ASSUME StoreInv, CallInv, CopyInv, [Next]_vars
  PROVE  StoreInv' /\ CallInv' /\ CopyInv'
  <1>1. StoreInv'
    BY StoreStep
  <1>2. CASE Sane /\ InScript /\ ScriptStep
    BY <1>1, <1>2, ScriptKeepsCalls
  <1>3. CASE Sane /\ popping = {} /\ Walk
    BY <1>1, <1>3, WalkKeepsCalls
  <1>4. CASE UNCHANGED vars
    <2>1. UNCHANGED <<items, items_len, popping, walk, result>>
      BY <1>4 DEF vars, storage, walking
    <2>2. List' = List
      BY <2>1 DEF List
    <2>3. CallInv'
      BY <2>1 DEF CallInv
    <2>4. CopyInv'
      BY <2>1, <2>2 DEF CopyInv
    <2> QED BY <1>1, <2>3, <2>4
  <1> QED BY <1>1, <1>2, <1>3, <1>4, OwnSteps

LEMMA CallsSeeTheList ==
  ASSUME StoreInv, CallInv, CopyInv
  PROVE  WalksSeeTheList
  <1>1. /\ walk.index \in Nat /\ walk.count \in Nat /\ walk.was \in Seq(Cells)
        /\ result \in Seq(Cells)
    BY WalkBounds
  <1>2. InCallback => /\ ~walk.shrunk => walk.arg # Junk
                      /\ walk.same => /\ walk.index < Len(walk.was)
                                      /\ walk.arg = walk.was[walk.index + 1]
    <2>1. Junk \notin Values
      BY ArrayAssumption DEF Values
    <2>2. ASSUME walk.at = "callback"
          PROVE  walk.kind \in Calls /\ walk.index < walk.count
      BY <2>2 DEF StoreInv, CallsFit, WalkFits
    <2> QED BY <2>1, <2>2 DEF InCallback, CallInv
  <1>3. walk.kind = "splice" /\ walk.at = "step" =>
          walk.was = SubSeq(List, 1, walk.index) \o result \o SubSeq(List, walk.index + 1, items_len)
    BY DEF CopyInv
  <1>4. ASSUME walk.same, walk.at = "given", walk.kind \in {"map", "filter", "copy"}
        PROVE  walk.index = Len(walk.was) /\ SubSeq(walk.was, 1, Len(walk.was)) = walk.was
    <2>1. walk.index = walk.count
      BY <1>4 DEF CallInv
    <2>2. walk.count = Len(walk.was)
      BY <1>4 DEF CallInv, Calls
    <2> QED BY <1>1, <2>1, <2>2, SubSeqFull
  <1>5. ASSUME walk.same, walk.at = "given", walk.kind = "map"
        PROVE  /\ Len(result) = Len(walk.was)
               /\ \A n \in DOMAIN result : result[n] \in {walk.was[n], Null}
    <2>1. DOMAIN result = 1..Len(result)
      BY <1>1, SeqFacts
    <2> QED BY <1>4, <1>5, <2>1 DEF CallInv
  <1>6. ASSUME walk.same, walk.at = "given", walk.kind = "filter"
        PROVE  PickedFrom(result, walk.was)
    BY <1>4, <1>6 DEF CallInv
  <1>7. ASSUME walk.same, walk.at = "given", walk.kind = "copy"
        PROVE  result = walk.was
    BY <1>4, <1>7 DEF CopyInv
  <1> QED BY <1>2, <1>3, <1>5, <1>6, <1>7 DEF WalksSeeTheList

(* Until a callback makes the array shorter, arr_map and arr_filter give   *)
(* it elements of the array although they read the length only once; and   *)
(* where callbacks only append, the elements that were there, in their     *)
(* order, of which map and filter make their results.  copy loses no       *)
(* element, and splice takes out what it returns.                          *)
THEOREM WalksAreRight ==
  Spec => []WalksSeeTheList
  <1>1. Init => StoreInv /\ CallInv /\ CopyInv
    <2>1. NoWalk.kind = "none" /\ NoWalk.at = "none" /\ NoWalk.same /\ ~NoWalk.shrunk
      BY DEF NoWalk
    <2> QED BY <2>1, StoreInit, NoCall DEF Init
  <1>2. StoreInv /\ CallInv /\ CopyInv /\ [Next]_vars => (StoreInv /\ CallInv /\ CopyInv)'
    BY CallStep
  <1>3. StoreInv /\ CallInv /\ CopyInv => WalksSeeTheList
    BY CallsSeeTheList
  <1> QED BY <1>1, <1>2, <1>3, PTL DEF Spec

=============================================================================
