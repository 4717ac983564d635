------------------------ MODULE ObjectForeachProofs ------------------------
(***************************************************************************)
(* The object of ObjectMap and the walk of ObjectForeach: the table        *)
(* invariant, the ordered map the table implements, and what an            *)
(* undisturbed walk gives its callback.                                    *)
(***************************************************************************)
EXTENDS ObjectForeach, FiniteSetTheorems, WellFoundedInduction, TLAPS

-----------------------------------------------------------------------------
(* Numbers.                                                                *)

LEMMA NatWellFounded == IsWellFoundedOn({r \in Nat \X Nat : r[1] < r[2]}, Nat)
  BY NatLessThanWellFounded DEF OpToRel

LEMMA LeastNat ==
  ASSUME NEW T \in SUBSET Nat, T # {}
  PROVE  \E n \in T : \A m \in T : n <= m
  <1> DEFINE R == {r \in Nat \X Nat : r[1] < r[2]}
  <1>1. PICK n \in T : \A m \in T : ~ (<<m, n>> \in R)
    <2> HIDE DEF R
    <2>1. IsWellFoundedOn(R, Nat)
      BY NatWellFounded DEF R
    <2> QED BY <2>1, WFMin
  <1>2. ASSUME NEW m \in T
        PROVE  n <= m
    <2>1. m \in Nat /\ n \in Nat
      OBVIOUS
    <2>2. m < n => <<m, n>> \in R
      BY <2>1
    <2> HIDE DEF R
    <2> QED BY <1>1, <2>1, <2>2
  <1> QED BY <1>2

(* Min of a set of numbers. *)
LEMMA MinIs ==
  ASSUME NEW T \in SUBSET Nat, T # {}
  PROVE  Min(T) \in T /\ \A m \in T : Min(T) <= m
  BY LeastNat DEF Min

LEMMA Interval ==
  ASSUME NEW c \in Nat
  PROVE  IsFiniteSet(0..(c - 1)) /\ Cardinality(0..(c - 1)) = c
  <1>1. Cardinality(0..(c - 1)) = IF 0 > c - 1 THEN 0 ELSE c - 1 - 0 + 1
    BY FS_Interval
  <1> QED BY <1>1, FS_Interval

LEMMA Multiples ==
  ASSUME NEW c \in Nat \ {0}, NEW z \in Int, c * z < c, -c < c * z
  PROVE  z = 0
  <1>1. z >= 1 => c * z >= c
    OBVIOUS
  <1>2. z <= -1 => c * z <= -c
    OBVIOUS
  <1> QED BY <1>1, <1>2

LEMMA Residue ==
  ASSUME NEW c \in Nat \ {0}, NEW q \in Int, NEW j \in 0..(c - 1)
  PROVE  (c * q + j) % c = j
  <1> DEFINE x == c * q + j
             d == x \div c
             r == x % c
  <1>0. x \in Int /\ c * q \in Int
    OBVIOUS
  <1>1. d \in Int /\ r \in 0..(c - 1) /\ x = c * d + r
    BY <1>0
  <1> HIDE DEF d, r
  <1>2. c * (q - d) = c * q - c * d
    BY <1>1
  <1>3. c * (q - d) = r - j
    BY <1>0, <1>1, <1>2
  <1>4. q - d = 0
    BY <1>1, <1>3, Multiples
  <1> QED BY <1>1, <1>4 DEF r

(* Counting steps from any number, every residue comes up. *)
LEMMA Residues ==
  ASSUME NEW x \in Nat, NEW c \in Nat \ {0}, NEW j \in 0..(c - 1)
  PROVE  \E i \in 1..c : (x + i - 1) % c = j
  <1> DEFINE h == x % c
             q == x \div c
             i == IF j >= h THEN j - h + 1 ELSE j - h + c + 1
             p == IF j >= h THEN q ELSE q + 1
  <1>1. h \in 0..(c - 1) /\ q \in Int /\ x = c * q + h
    OBVIOUS
  <1> HIDE DEF h, q
  <1>2. i \in 1..c /\ p \in Int
    BY <1>1
  <1>3. c * (q + 1) = c * q + c
    BY <1>1
  <1>4. x + i - 1 = c * p + j
    BY <1>1, <1>3
  <1> QED BY <1>2, <1>4, Residue

-----------------------------------------------------------------------------
(* A table of c slots.                                                     *)

Link(c) == 0..(c - 1) \cup {None}
Slot(c) == [key : Keys \cup {Empty, Tombstone}, value : Values \cup {NoValue},
            static : BOOLEAN, prev : Link(c), next : Link(c)]
IsTable(t, c) == c \in Nat /\ t \in [0..(c - 1) -> Slot(c)]

(* The n-th slot a search for k inspects. *)
Try(k, n, c) == (Hash[k] + n - 1) % c

(* A search for the key of slot j gets to slot j. *)
Reached(t, c, j) ==
  \E n \in 1..c : /\ Try(t[j].key, n, c) = j
                  /\ \A m \in 1..(n - 1) :
                       t[Try(t[j].key, m, c)].key \notin {t[j].key, Empty}
Findable(t, c) == \A j \in 0..(c - 1) : t[j].key \in Keys => Reached(t, c, j)
KeysDiffer(t, c) ==
  \A i, j \in 0..(c - 1) : t[i].key \in Keys /\ t[i].key = t[j].key => i = j
HasEmpty(t, c) == \E i \in 0..(c - 1) : t[i].key = Empty

LEMMA Capacity ==
  ASSUME NEW t, NEW c, IsTable(t, c)
  PROVE  c \in Nat /\ DOMAIN t = 0..(c - 1) /\ Cardinality(DOMAIN t) = c
         /\ IsFiniteSet(DOMAIN t)
  BY Interval DEF IsTable

LEMMA Tries ==
  ASSUME NEW k \in Keys, NEW c \in Nat \ {0}, NEW n \in 1..c
  PROVE  Try(k, n, c) \in 0..(c - 1)
  <1>1. Hash[k] \in Nat
    BY ObjectMapAssumption
  <1> QED BY <1>1 DEF Try

LEMMA ProbeIs ==
  ASSUME NEW t, NEW c, IsTable(t, c), NEW k \in Keys
  PROVE  /\ DOMAIN Probe(t, k) = 1..c /\ Len(Probe(t, k)) = c
         /\ \A n \in 1..c : Probe(t, k)[n] = Try(k, n, c) /\ Try(k, n, c) \in 0..(c - 1)
  <1>1. c \in Nat /\ Cardinality(DOMAIN t) = c
    BY Capacity
  <1>2. \A n \in 1..c : Try(k, n, c) \in 0..(c - 1)
    BY <1>1, Tries
  <1>3. Probe(t, k) = [n \in 1..c |-> Try(k, n, c)]
    BY <1>1 DEF Probe, Try
  <1>4. Probe(t, k) \in Seq(0..(c - 1))
    BY <1>1, <1>2, <1>3
  <1> QED BY <1>1, <1>2, <1>3, <1>4

(* Where a search for k ends, and what it passed. *)
LEMMA ProbeEndIs ==
  ASSUME NEW t, NEW c, IsTable(t, c), NEW k \in Keys
  PROVE  /\ ProbeEnd(t, k) \in 1..(c + 1)
         /\ ProbeEnd(t, k) <= c => t[Try(k, ProbeEnd(t, k), c)].key \in {k, Empty}
         /\ \A n \in 1..c : n < ProbeEnd(t, k) => t[Try(k, n, c)].key \notin {k, Empty}
  <1> DEFINE stops == {n \in 1..c : t[Try(k, n, c)].key \in {k, Empty}}
             e == ProbeEnd(t, k)
  <1>0. c \in Nat
    BY Capacity
  <1>1. e = IF stops = {} THEN c + 1 ELSE Min(stops)
    <2>1. {n \in DOMAIN Probe(t, k) : t[Probe(t, k)[n]].key \in {k, Empty}} = stops
      BY ProbeIs
    <2> QED BY <2>1, ProbeIs DEF ProbeEnd
  <1> HIDE DEF e
  <1>2. stops \in SUBSET Nat
    BY <1>0
  <1>3. CASE stops = {}
    <2>1. e = c + 1 /\ \A n \in 1..c : n \notin stops
      BY <1>1, <1>3
    <2> QED BY <1>0, <2>1 DEF e
  <1>4. CASE stops # {}
    <2>1. e \in stops /\ \A n \in stops : e <= n
      BY <1>1, <1>2, <1>4, MinIs
    <2>2. e \in 1..c /\ t[Try(k, e, c)].key \in {k, Empty}
      BY <2>1
    <2>3. \A n \in 1..c : n < e => n \notin stops
      BY <2>1, <2>2
    <2> QED BY <1>0, <2>2, <2>3 DEF e
  <1> QED BY <1>3, <1>4

LEMMA LookupIs ==
  ASSUME NEW t, NEW c, IsTable(t, c), NEW k \in Keys
  PROVE  LET e == ProbeEnd(t, k)
         IN  Lookup(t, k) = IF e <= c /\ t[Try(k, e, c)].key = k THEN Try(k, e, c)
                            ELSE None
  <1>1. Len(Probe(t, k)) = c /\ c \in Nat
    BY ProbeIs, Capacity
  <1>2. ProbeEnd(t, k) <= c => Probe(t, k)[ProbeEnd(t, k)] = Try(k, ProbeEnd(t, k), c)
    BY <1>1, ProbeIs, ProbeEndIs
  <1> QED BY <1>1, <1>2 DEF Lookup

(* What is found is a slot with the key. *)
LEMMA LookupFinds ==
  ASSUME NEW t, NEW c, IsTable(t, c), NEW k \in Keys, Lookup(t, k) # None
  PROVE  Lookup(t, k) \in 0..(c - 1) /\ t[Lookup(t, k)].key = k
  <1> DEFINE e == ProbeEnd(t, k)
  <1>1. e \in 1..(c + 1) /\ c \in Nat
    BY ProbeEndIs, Capacity
  <1>2. e <= c /\ t[Try(k, e, c)].key = k /\ Lookup(t, k) = Try(k, e, c)
    BY LookupIs
  <1>3. e \in 1..c /\ c \in Nat \ {0}
    BY <1>1, <1>2
  <1> QED BY <1>2, <1>3, Tries

(* Every slot that is reached is found by its key. *)
LEMMA LookupReaches ==
  ASSUME NEW t, NEW c, IsTable(t, c), NEW j \in 0..(c - 1), t[j].key \in Keys,
         Reached(t, c, j), KeysDiffer(t, c)
  PROVE  Lookup(t, t[j].key) = j
  <1> DEFINE k == t[j].key
             e == ProbeEnd(t, k)
  <1>0. c \in Nat
    BY Capacity
  <1>1. e \in 1..(c + 1)
        /\ (e <= c => t[Try(k, e, c)].key \in {k, Empty})
        /\ \A n \in 1..c : n < e => t[Try(k, n, c)].key \notin {k, Empty}
    BY ProbeEndIs
  <1>2. PICK n \in 1..c : /\ Try(k, n, c) = j
                          /\ \A m \in 1..(n - 1) : t[Try(k, m, c)].key \notin {k, Empty}
    BY DEF Reached
  <1> HIDE DEF e
  <1>3. ~ (n < e)
    BY <1>1, <1>2
  <1>4. ~ (e < n)
    <2>1. e < n => e \in 1..(n - 1) /\ e <= c
      BY <1>0, <1>1
    <2> QED BY <1>1, <1>2, <2>1
  <1>5. e = n
    BY <1>0, <1>1, <1>3, <1>4
  <1> QED BY <1>0, <1>2, <1>5, LookupIs DEF e

LEMMA LookupMisses ==
  ASSUME NEW t, NEW c, IsTable(t, c), NEW k \in Keys,
         \A j \in 0..(c - 1) : t[j].key # k
  PROVE  Lookup(t, k) = None
  BY LookupFinds

(* A key that is nowhere goes to an unused slot, past slots that are none. *)
LEMMA InsertSlotIs ==
  ASSUME NEW t, NEW c, IsTable(t, c), HasEmpty(t, c), NEW k \in Keys,
         \A j \in 0..(c - 1) : t[j].key # k
  PROVE  \E n \in 1..c :
           /\ InsertSlot(t, k) = Try(k, n, c)
           /\ t[Try(k, n, c)].key \in {Empty, Tombstone}
           /\ \A m \in 1..(n - 1) : t[Try(k, m, c)].key \notin {k, Empty}
                                    /\ Try(k, m, c) # Try(k, n, c)
  <1> DEFINE p == Probe(t, k)
             e == ProbeEnd(t, k)
             tombs == {n \in 1..(e - 1) : t[Try(k, n, c)].key = Tombstone}
  <1>0. PICK j \in 0..(c - 1) : t[j].key = Empty
    BY DEF HasEmpty
  <1>1. c \in Nat \ {0} /\ Hash[k] \in Nat /\ k # Empty
    BY <1>0, Capacity, ObjectMapAssumption
  <1>2. e \in 1..(c + 1)
        /\ (e <= c => t[Try(k, e, c)].key \in {k, Empty})
        /\ \A n \in 1..c : n < e => t[Try(k, n, c)].key \notin {k, Empty}
    BY ProbeEndIs
  <1>3. \A n \in 1..c : p[n] = Try(k, n, c) /\ Try(k, n, c) \in 0..(c - 1)
    BY ProbeIs
  <1>4. Len(p) = c
    BY ProbeIs
  <1> HIDE DEF e, p
  <1>5. PICK i \in 1..c : Try(k, i, c) = j
    BY <1>0, <1>1, Residues DEF Try
  <1>6. e \in 1..c
    BY <1>0, <1>1, <1>2, <1>5
  <1>7. t[Try(k, e, c)].key = Empty
    <2>1. t[Try(k, e, c)].key \in {k, Empty}
      BY <1>2, <1>6
    <2> QED BY <1>3, <1>6, <2>1
  <1>8. \A n \in 1..(e - 1) : n \in 1..c /\ p[n] = Try(k, n, c)
    BY <1>1, <1>3, <1>6
  <1>9. {n \in 1..(e - 1) : t[p[n]].key = Tombstone} = tombs
    BY <1>8
  <1>10. InsertSlot(t, k) = IF tombs # {} THEN p[Min(tombs)] ELSE p[e]
    <2>1. e <= c
      BY <1>1, <1>6
    <2> QED BY <1>4, <1>9, <2>1 DEF InsertSlot, e, p
  <1>11. \A m \in 1..(e - 1) : t[Try(k, m, c)].key \notin {k, Empty}
    BY <1>2, <1>6, <1>8
  <1>12. CASE tombs = {}
    <2>1. InsertSlot(t, k) = Try(k, e, c)
      BY <1>3, <1>6, <1>10, <1>12
    <2> QED BY <1>6, <1>7, <1>11, <2>1
  <1>13. CASE tombs # {}
    <2>1. tombs \in SUBSET Nat
      BY <1>6
    <2>2. PICK n : n = Min(tombs) /\ n \in tombs /\ \A m \in tombs : n <= m
      BY <1>13, <2>1, MinIs
    <2>3. n \in 1..(e - 1) /\ n \in 1..c /\ t[Try(k, n, c)].key = Tombstone
      BY <1>1, <1>6, <1>8, <2>2
    <2>4. \A m \in 1..(n - 1) : m \in 1..(e - 1) /\ m \notin tombs
      BY <1>6, <2>2, <2>3
    <2>5. \A m \in 1..(n - 1) : t[Try(k, m, c)].key # Tombstone
      BY <2>4
    <2>6. InsertSlot(t, k) = Try(k, n, c)
      BY <1>3, <1>10, <1>13, <2>2, <2>3
    <2> QED BY <1>11, <2>3, <2>4, <2>5, <2>6
  <1> QED BY <1>12, <1>13

-----------------------------------------------------------------------------
(* The list.                                                               *)

(* list is the list of table t with the given ends: the live slots, once   *)
(* each, linked both ways.                                                 *)
IsList(t, c, head, tail, list) ==
  /\ list \in Seq(0..(c - 1))
  /\ \A n \in 1..Len(list) : t[list[n]].key \in Keys
  /\ \A i \in 0..(c - 1) : t[i].key \in Keys => \E n \in 1..Len(list) : list[n] = i
  /\ \A m, n \in 1..Len(list) : list[m] = list[n] => m = n
  /\ head = IF list = <<>> THEN None ELSE list[1]
  /\ tail = IF list = <<>> THEN None ELSE list[Len(list)]
  /\ \A n \in 1..Len(list) :
       /\ t[list[n]].prev = IF n = 1 THEN None ELSE list[n - 1]
       /\ t[list[n]].next = IF n = Len(list) THEN None ELSE list[n + 1]

HashTable(t, c, head, tail, list) ==
  IsTable(t, c) /\ IsList(t, c, head, tail, list) /\ Findable(t, c) /\ KeysDiffer(t, c)

LEMMA ListTypes ==
  ASSUME NEW t, NEW c, IsTable(t, c), NEW head, NEW tail, NEW list,
         IsList(t, c, head, tail, list)
  PROVE  /\ Len(list) \in Nat /\ c \in Nat /\ list \in Seq(0..(c - 1))
         /\ \A n \in 1..Len(list) : list[n] \in 0..(c - 1) /\ list[n] # None
         /\ list = <<>> <=> Len(list) = 0
         /\ head \in Link(c) /\ tail \in Link(c)
         /\ head = None <=> list = <<>>
         /\ tail = None <=> list = <<>>
  <1>1. c \in Nat /\ list \in Seq(0..(c - 1)) /\ None \notin Nat
    BY Capacity, ObjectMapAssumption DEF IsList
  <1>2. Len(list) \in Nat /\ \A n \in 1..Len(list) : list[n] \in 0..(c - 1) /\ list[n] # None
    BY <1>1
  <1>3. list = <<>> <=> Len(list) = 0
    BY <1>1
  <1>4. head = (IF list = <<>> THEN None ELSE list[1])
        /\ tail = (IF list = <<>> THEN None ELSE list[Len(list)])
    BY DEF IsList
  <1>5. list # <<>> => 1 \in 1..Len(list) /\ Len(list) \in 1..Len(list)
    BY <1>2, <1>3
  <1>6. list = <<>> => head = None /\ tail = None
    BY <1>4
  <1>7. list # <<>> => /\ head = list[1] /\ tail = list[Len(list)]
                       /\ list[1] \in 0..(c - 1) /\ list[Len(list)] \in 0..(c - 1)
    BY <1>2, <1>4, <1>5
  <1>8. head \in Link(c) /\ tail \in Link(c)
    BY <1>6, <1>7 DEF Link
  <1>9. (head = None <=> list = <<>>) /\ (tail = None <=> list = <<>>)
    BY <1>1, <1>6, <1>7
  <1> QED BY <1>1, <1>2, <1>3, <1>8, <1>9

(* The slots after a field is put in slot i at the end of the list. *)
LEMMA EnterSlots ==
  ASSUME NEW t, NEW c, NEW head, NEW tail, NEW list, IsTable(t, c),
         IsList(t, c, head, tail, list), NEW i \in 0..(c - 1), NEW f,
         f.key \in Keys, f.value \in Values \cup {NoValue}, f.static \in BOOLEAN,
         t[i].key \notin Keys
  PROVE  LET new == Enter([slots |-> t, head |-> head, tail |-> tail], i, f)
         IN  /\ IsTable(new.slots, c)
             /\ new.head = IF head = None THEN i ELSE head
             /\ new.tail = i
             /\ new.slots[i] = [key |-> f.key, value |-> f.value, static |-> f.static,
                                prev |-> tail, next |-> None]
             /\ \A j \in 0..(c - 1) :
                  /\ j # i /\ j # tail => new.slots[j] = t[j]
                  /\ j = tail => new.slots[j] = [t[j] EXCEPT !.next = i]
  <1> DEFINE cell == [key |-> f.key, value |-> f.value, static |-> f.static,
                      prev |-> tail, next |-> None]
             placed == [t EXCEPT ![i] = cell]
             new == Enter([slots |-> t, head |-> head, tail |-> tail], i, f)
  <1>1. c \in Nat /\ t \in [0..(c - 1) -> Slot(c)] /\ tail \in Link(c)
        /\ (head = None <=> tail = None) /\ None \notin Nat
    BY ListTypes, ObjectMapAssumption DEF IsTable
  <1>2. tail # None => tail \in 0..(c - 1) /\ t[tail].key \in Keys
    <2>1. tail # None => list # <<>> /\ tail = list[Len(list)] /\ Len(list) \in 1..Len(list)
      BY ListTypes DEF IsList
    <2> QED BY <2>1, ListTypes DEF IsList
  <1>3. tail # i
    BY <1>1, <1>2
  <1>4. cell \in Slot(c)
    BY <1>1 DEF Slot, Link
  <1>5. placed \in [0..(c - 1) -> Slot(c)] /\ placed[i] = cell
        /\ \A j \in 0..(c - 1) : j # i => placed[j] = t[j]
    BY <1>1, <1>4
  <1>6. /\ new.slots = (IF head = None THEN placed ELSE [placed EXCEPT ![tail].next = i])
        /\ new.head = (IF head = None THEN i ELSE head) /\ new.tail = i
    BY DEF Enter
  <1> HIDE DEF cell, placed, new
  <1>7. CASE head = None
    <2>1. new.slots = placed /\ tail = None
      BY <1>1, <1>6, <1>7
    <2>2. \A j \in 0..(c - 1) : j # tail
      BY <1>1, <2>1
    <2> QED BY <1>1, <1>5, <1>6, <2>1, <2>2 DEF IsTable, cell, new
  <1>8. CASE head # None
    <2>1. tail \in 0..(c - 1)
      BY <1>1, <1>2, <1>8
    <2>2. placed[tail] = t[tail] /\ t[tail] \in Slot(c)
      BY <1>1, <1>3, <1>5, <2>1
    <2>3. [t[tail] EXCEPT !.next = i] \in Slot(c)
      BY <2>2 DEF Slot, Link
    <2>4. new.slots = [placed EXCEPT ![tail] = [t[tail] EXCEPT !.next = i]]
      BY <1>5, <1>6, <1>8, <2>1, <2>2
    <2>5. /\ new.slots \in [0..(c - 1) -> Slot(c)]
          /\ new.slots[tail] = [t[tail] EXCEPT !.next = i]
          /\ \A j \in 0..(c - 1) : j # tail => new.slots[j] = placed[j]
      BY <1>5, <2>1, <2>3, <2>4
    <2> QED BY <1>1, <1>3, <1>5, <1>6, <2>5 DEF IsTable, cell, new
  <1> QED BY <1>7, <1>8

(* u is table t with a field for k put in slot i, after slot tail. *)
Entered(t, u, c, tail, i, k) ==
  /\ IsTable(u, c)
  /\ u[i].key = k /\ u[i].prev = tail /\ u[i].next = None
  /\ \A j \in 0..(c - 1) :
       /\ j # i => u[j].key = t[j].key /\ u[j].prev = t[j].prev
                   /\ u[j].value = t[j].value /\ u[j].static = t[j].static
       /\ j # i /\ j # tail => u[j].next = t[j].next
       /\ j = tail => u[j].next = i

LEMMA EnterIsEntered ==
  ASSUME NEW t, NEW c, NEW head, NEW tail, NEW list, IsTable(t, c),
         IsList(t, c, head, tail, list), NEW i \in 0..(c - 1), NEW f,
         f.key \in Keys, f.value \in Values \cup {NoValue}, f.static \in BOOLEAN,
         t[i].key \notin Keys
  PROVE  LET new == Enter([slots |-> t, head |-> head, tail |-> tail], i, f)
         IN  /\ Entered(t, new.slots, c, tail, i, f.key)
             /\ new.slots[i].value = f.value /\ new.slots[i].static = f.static
             /\ new.head = IF head = None THEN i ELSE head
             /\ new.tail = i
  <1> DEFINE new == Enter([slots |-> t, head |-> head, tail |-> tail], i, f)
  <1>1. PICK u : u = new.slots
    OBVIOUS
  <1>2. /\ IsTable(u, c)
        /\ new.head = (IF head = None THEN i ELSE head)
        /\ new.tail = i
        /\ u[i] = [key |-> f.key, value |-> f.value, static |-> f.static,
                   prev |-> tail, next |-> None]
        /\ \A j \in 0..(c - 1) :
             /\ j # i /\ j # tail => u[j] = t[j]
             /\ j = tail => u[j] = [t[j] EXCEPT !.next = i]
    BY <1>1, EnterSlots
  <1> HIDE DEF new
  <1>3. \A j \in 0..(c - 1) : t[j] \in Slot(c)
    BY DEF IsTable
  <1>4. ASSUME NEW j \in 0..(c - 1), j = tail
        PROVE  /\ u[j].key = t[j].key /\ u[j].prev = t[j].prev
               /\ u[j].value = t[j].value /\ u[j].static = t[j].static
               /\ u[j].next = i
    <2>1. PICK s \in Slot(c) : s = t[j]
      BY <1>3
    <2>2. PICK w : w = [s EXCEPT !.next = i]
      OBVIOUS
    <2>3. u[j] = w
      BY <1>2, <1>4, <2>1, <2>2
    <2>4. /\ w.key = s.key /\ w.prev = s.prev /\ w.value = s.value
          /\ w.static = s.static /\ w.next = i
      BY <2>2 DEF Slot
    <2> QED BY <2>1, <2>3, <2>4
  <1>5. u[i].key = f.key /\ u[i].prev = tail /\ u[i].next = None
        /\ u[i].value = f.value /\ u[i].static = f.static
    BY <1>2
  <1>6. Entered(t, u, c, tail, i, f.key)
    BY <1>2, <1>4, <1>5 DEF Entered
  <1> QED BY <1>1, <1>2, <1>5, <1>6 DEF new

LEMMA EnteredList ==
  ASSUME NEW t, NEW u, NEW c, NEW head, NEW tail, NEW list, IsTable(t, c),
         IsList(t, c, head, tail, list), NEW i \in 0..(c - 1), NEW k \in Keys,
         t[i].key \notin Keys, Entered(t, u, c, tail, i, k)
  PROVE  IsList(u, c, IF head = None THEN i ELSE head, i, Append(list, i))
  <1>0. /\ Len(list) \in Nat /\ c \in Nat /\ list \in Seq(0..(c - 1))
        /\ \A n \in 1..Len(list) : list[n] \in 0..(c - 1) /\ list[n] # None
        /\ (list = <<>> <=> Len(list) = 0) /\ (head = None <=> list = <<>>)
    BY ListTypes
  <1>1. PICK longer : longer = Append(list, i)
    OBVIOUS
  <1>2. /\ longer \in Seq(0..(c - 1)) /\ Len(longer) = Len(list) + 1
        /\ \A n \in 1..Len(list) : longer[n] = list[n]
        /\ longer[Len(list) + 1] = i
    BY <1>0, <1>1
  <1>3. \A n \in 1..Len(list) : list[n] # i
    BY DEF IsList
  <1>4. \A n \in 1..Len(longer) : n \in 1..Len(list) \/ n = Len(list) + 1
    BY <1>0, <1>2
  <1>5. ASSUME NEW n \in 1..Len(longer)
        PROVE  u[longer[n]].key \in Keys
    <2>1. CASE n \in 1..Len(list)
      <3>1. longer[n] = list[n] /\ list[n] \in 0..(c - 1) /\ list[n] # i
        BY <1>0, <1>2, <1>3, <2>1
      <3>2. t[list[n]].key \in Keys
        BY <2>1 DEF IsList
      <3>3. u[list[n]].key = t[list[n]].key
        BY <3>1 DEF Entered
      <3> QED BY <3>1, <3>2, <3>3
    <2>2. CASE n = Len(list) + 1
      BY <1>2, <2>2 DEF Entered
    <2> QED BY <1>4, <2>1, <2>2
  <1>6. ASSUME NEW j \in 0..(c - 1), u[j].key \in Keys
        PROVE  \E n \in 1..Len(longer) : longer[n] = j
    <2>1. CASE j = i
      BY <1>0, <1>2, <2>1
    <2>2. CASE j # i
      <3>1. PICK n \in 1..Len(list) : list[n] = j
        BY <1>6, <2>2 DEF IsList, Entered
      <3> QED BY <1>0, <1>2, <3>1
    <2> QED BY <2>1, <2>2
  <1>7. ASSUME NEW m \in 1..Len(longer), NEW n \in 1..Len(longer), longer[m] = longer[n]
        PROVE  m = n
    BY <1>2, <1>3, <1>4, <1>7 DEF IsList
  <1>8. (IF head = None THEN i ELSE head) = IF longer = <<>> THEN None ELSE longer[1]
    <2>1. longer # <<>>
      BY <1>0, <1>2
    <2>2. CASE head = None
      BY <1>0, <1>2, <2>1, <2>2
    <2>3. CASE head # None
      <3>1. head = list[1] /\ 1 \in 1..Len(list)
        BY <1>0, <2>3 DEF IsList
      <3> QED BY <1>2, <2>1, <2>3, <3>1
    <2> QED BY <2>2, <2>3
  <1>9. i = IF longer = <<>> THEN None ELSE longer[Len(longer)]
    BY <1>0, <1>2
  <1>10. tail = IF list = <<>> THEN None ELSE list[Len(list)]
    BY DEF IsList
  <1>11. ASSUME NEW n \in 1..Len(longer)
         PROVE  /\ u[longer[n]].prev = IF n = 1 THEN None ELSE longer[n - 1]
                /\ u[longer[n]].next = IF n = Len(longer) THEN None ELSE longer[n + 1]
    <2>1. CASE n = Len(list) + 1
      <3>1. u[i].prev = tail /\ u[i].next = None
        BY DEF Entered
      <3>2. n # 1 => n - 1 \in 1..Len(list) /\ n - 1 = Len(list)
        BY <1>0, <2>1
      <3>3. tail = IF n = 1 THEN None ELSE longer[n - 1]
        <4>1. CASE n = 1
          BY <1>0, <1>10, <2>1, <4>1
        <4>2. CASE n # 1
          <5>1. list # <<>> /\ longer[n - 1] = list[Len(list)]
            <6>1. PICK m \in 1..Len(list) : m = n - 1 /\ m = Len(list)
              BY <3>2, <4>2
            <6>2. longer[m] = list[m]
              BY <1>2
            <6> QED BY <1>0, <6>1, <6>2
          <5> QED BY <1>10, <4>2, <5>1
        <4> QED BY <4>1, <4>2
      <3> QED BY <1>2, <2>1, <3>1, <3>3
    <2>2. CASE n \in 1..Len(list)
      <3>1. longer[n] = list[n] /\ list[n] \in 0..(c - 1) /\ list[n] # i /\ n # Len(longer)
        BY <1>0, <1>2, <1>3, <2>2
      <3>2. u[list[n]].prev = t[list[n]].prev
        BY <3>1 DEF Entered
      <3>3. t[list[n]].prev = (IF n = 1 THEN None ELSE list[n - 1])
            /\ t[list[n]].next = IF n = Len(list) THEN None ELSE list[n + 1]
        BY <2>2 DEF IsList
      <3>4. n # 1 => n - 1 \in 1..Len(list)
        BY <1>0, <2>2
      <3>5. u[longer[n]].prev = IF n = 1 THEN None ELSE longer[n - 1]
        BY <1>2, <3>1, <3>2, <3>3, <3>4
      <3>6. CASE n = Len(list)
        <4>1. list[n] = tail
          BY <1>0, <1>10, <2>2, <3>6
        <4>2. u[list[n]].next = i
          BY <3>1, <4>1 DEF Entered
        <4> QED BY <1>2, <3>1, <3>5, <3>6, <4>2
      <3>7. CASE n # Len(list)
        <4>1. n + 1 \in 1..Len(list) /\ Len(list) \in 1..Len(list)
          BY <1>0, <2>2, <3>7
        <4>2. list[n] # tail
          BY <1>0, <1>10, <2>2, <3>7, <4>1 DEF IsList
        <4>3. u[list[n]].next = list[n + 1]
          BY <3>1, <3>3, <3>7, <4>2 DEF Entered
        <4> QED BY <1>2, <3>1, <3>5, <4>1, <4>3
      <3> QED BY <3>6, <3>7
    <2> QED BY <1>4, <2>1, <2>2
  <1>12. IsList(u, c, IF head = None THEN i ELSE head, i, longer)
    BY <1>2, <1>5, <1>6, <1>7, <1>8, <1>9, <1>11 DEF IsList
  <1> QED BY <1>1, <1>12

LEMMA EnteredTable ==
  ASSUME NEW t, NEW u, NEW c, NEW head, NEW tail, NEW list,
         HashTable(t, c, head, tail, list), NEW k \in Keys, NEW i, NEW n \in 1..c,
         i = Try(k, n, c), t[i].key \in {Empty, Tombstone},
         \A j \in 0..(c - 1) : t[j].key # k,
         \A m \in 1..(n - 1) : t[Try(k, m, c)].key \notin {k, Empty} /\ Try(k, m, c) # i,
         Entered(t, u, c, tail, i, k)
  PROVE  HashTable(u, c, IF head = None THEN i ELSE head, i, Append(list, i))
  <1>0. IsTable(t, c) /\ IsList(t, c, head, tail, list) /\ Findable(t, c) /\ KeysDiffer(t, c)
    BY DEF HashTable
  <1>1. /\ Empty \notin Keys /\ Tombstone \notin Keys /\ Empty # Tombstone
        /\ c \in Nat /\ c # 0
    BY <1>0, Capacity, ObjectMapAssumption
  <1>2. i \in 0..(c - 1) /\ t[i].key \notin Keys
    BY <1>1, Tries
  <1>3. IsTable(u, c) /\ u[i].key = k
        /\ \A j \in 0..(c - 1) : j # i => u[j].key = t[j].key
    BY DEF Entered
  <1>4. IsList(u, c, IF head = None THEN i ELSE head, i, Append(list, i))
    BY <1>0, <1>2, EnteredList
  <1>5. KeysDiffer(u, c)
    BY <1>0, <1>2, <1>3 DEF KeysDiffer
  <1>6. ASSUME NEW j \in 0..(c - 1), u[j].key \in Keys
        PROVE  Reached(u, c, j)
    <2>1. CASE j = i
      <3>1. ASSUME NEW m \in 1..(n - 1)
            PROVE  u[Try(k, m, c)].key \notin {k, Empty}
        <4>1. m \in 1..c
          BY <1>1
        <4>2. Try(k, m, c) \in 0..(c - 1)
          BY <1>1, <4>1, Tries
        <4> QED BY <1>3, <4>2
      <3> QED BY <1>3, <2>1, <3>1 DEF Reached
    <2>2. CASE j # i
      <3>1. u[j].key = t[j].key
        BY <1>3, <2>2
      <3>2. PICK q : q = t[j].key
        OBVIOUS
      <3>3. q \in Keys /\ q # k
        BY <1>6, <3>1, <3>2
      <3>4. PICK p \in 1..c : /\ Try(q, p, c) = j
                              /\ \A m \in 1..(p - 1) : t[Try(q, m, c)].key \notin {q, Empty}
        BY <1>0, <1>6, <3>1, <3>2 DEF Findable, Reached
      <3>5. ASSUME NEW m \in 1..(p - 1)
            PROVE  u[Try(q, m, c)].key \notin {q, Empty}
        <4>1. m \in 1..c
          BY <1>1
        <4>2. Try(q, m, c) \in 0..(c - 1)
          BY <1>1, <3>3, <4>1, Tries
        <4>3. t[Try(q, m, c)].key \notin {q, Empty}
          BY <3>4
        <4> QED BY <1>1, <1>3, <3>3, <4>2, <4>3
      <3> QED BY <3>1, <3>2, <3>4, <3>5 DEF Reached
    <2> QED BY <2>1, <2>2
  <1> QED BY <1>3, <1>4, <1>5, <1>6 DEF HashTable, Findable

-----------------------------------------------------------------------------
(* Counting slots.                                                         *)

LiveSlots(t, c) == {j \in 0..(c - 1) : t[j].key \in Keys}
TombSlots(t, c) == {j \in 0..(c - 1) : t[j].key = Tombstone}

(* list has one entry per live slot, and there are tombs tombstones. *)
Counted(t, c, list, tombs) ==
  /\ Cardinality(LiveSlots(t, c)) = Len(list)
  /\ Cardinality(TombSlots(t, c)) = tombs

LEMMA SlotSets ==
  ASSUME NEW t, NEW c, IsTable(t, c)
  PROVE  /\ IsFiniteSet(LiveSlots(t, c)) /\ IsFiniteSet(TombSlots(t, c))
         /\ Cardinality(LiveSlots(t, c)) \in Nat /\ Cardinality(TombSlots(t, c)) \in Nat
         /\ LiveSlots(t, c) \cap TombSlots(t, c) = {}
         /\ ~ HasEmpty(t, c) => LiveSlots(t, c) \cup TombSlots(t, c) = 0..(c - 1)
  <1>1. IsFiniteSet(0..(c - 1)) /\ c \in Nat
    BY Capacity, Interval
  <1>2. LiveSlots(t, c) \subseteq 0..(c - 1) /\ TombSlots(t, c) \subseteq 0..(c - 1)
    BY DEF LiveSlots, TombSlots
  <1>3. IsFiniteSet(LiveSlots(t, c)) /\ IsFiniteSet(TombSlots(t, c))
    BY <1>1, <1>2, FS_Subset
  <1>4. Cardinality(LiveSlots(t, c)) \in Nat /\ Cardinality(TombSlots(t, c)) \in Nat
    BY <1>3, FS_CardinalityType
  <1>5. LiveSlots(t, c) \cap TombSlots(t, c) = {}
    BY ObjectMapAssumption DEF LiveSlots, TombSlots
  <1>6. \A j \in 0..(c - 1) : t[j].key \in Keys \cup {Empty, Tombstone}
    BY DEF IsTable, Slot
  <1>7. ~ HasEmpty(t, c) => LiveSlots(t, c) \cup TombSlots(t, c) = 0..(c - 1)
    BY <1>6 DEF HasEmpty, LiveSlots, TombSlots
  <1> QED BY <1>3, <1>4, <1>5, <1>7

(* A table that is not full of fields and tombstones has an unused slot. *)
LEMMA RoomLeft ==
  ASSUME NEW t, NEW c, IsTable(t, c), NEW list, NEW tombs, Counted(t, c, list, tombs),
         Len(list) + tombs < c
  PROVE  HasEmpty(t, c)
  <1> SUFFICES ASSUME ~ HasEmpty(t, c)
               PROVE  FALSE
    OBVIOUS
  <1>1. /\ IsFiniteSet(LiveSlots(t, c)) /\ IsFiniteSet(TombSlots(t, c))
        /\ Cardinality(LiveSlots(t, c)) \in Nat /\ Cardinality(TombSlots(t, c)) \in Nat
        /\ LiveSlots(t, c) \cap TombSlots(t, c) = {}
        /\ LiveSlots(t, c) \cup TombSlots(t, c) = 0..(c - 1)
    BY SlotSets
  <1>2. Cardinality(LiveSlots(t, c) \cup TombSlots(t, c))
          = Cardinality(LiveSlots(t, c)) + Cardinality(TombSlots(t, c))
            - Cardinality(LiveSlots(t, c) \cap TombSlots(t, c))
    BY <1>1, FS_Union
  <1>3. Cardinality(0..(c - 1)) = c /\ c \in Nat
    BY Capacity, Interval
  <1>4. Cardinality(LiveSlots(t, c) \cap TombSlots(t, c)) = 0
    BY <1>1, FS_EmptySet
  <1>5. PICK f, d : f = Cardinality(LiveSlots(t, c)) /\ d = Cardinality(TombSlots(t, c))
    OBVIOUS
  <1>6. f \in Nat /\ d \in Nat /\ f + d = c
    <2>1. f + d - 0 = c
      BY <1>1, <1>2, <1>3, <1>4, <1>5
    <2> QED BY <1>1, <1>5, <2>1
  <1>7. Len(list) = f /\ tombs = d
    BY <1>5 DEF Counted
  <1> QED BY <1>3, <1>6, <1>7

LEMMA EnteredCounts ==
  ASSUME NEW t, NEW u, NEW c, IsTable(t, c), IsTable(u, c), NEW i \in 0..(c - 1),
         NEW list \in Seq(0..(c - 1)), NEW tombs, Counted(t, c, list, tombs),
         t[i].key \in {Empty, Tombstone}, u[i].key \in Keys,
         \A j \in 0..(c - 1) : j # i => u[j].key = t[j].key
  PROVE  Counted(u, c, Append(list, i), IF t[i].key = Tombstone THEN tombs - 1 ELSE tombs)
  <1>0. Empty \notin Keys /\ Tombstone \notin Keys /\ Empty # Tombstone
    BY ObjectMapAssumption
  <1>1. IsFiniteSet(LiveSlots(t, c)) /\ IsFiniteSet(TombSlots(t, c))
    BY SlotSets
  <1>2. LiveSlots(u, c) = LiveSlots(t, c) \cup {i} /\ i \notin LiveSlots(t, c)
    BY <1>0 DEF LiveSlots
  <1>3. Cardinality(LiveSlots(u, c)) = Cardinality(LiveSlots(t, c)) + 1
    BY <1>1, <1>2, FS_AddElement
  <1>4. Len(Append(list, i)) = Len(list) + 1
    OBVIOUS
  <1>5. CASE t[i].key = Tombstone
    <2>1. TombSlots(u, c) = TombSlots(t, c) \ {i} /\ i \in TombSlots(t, c)
      BY <1>0, <1>5 DEF TombSlots
    <2>2. Cardinality(TombSlots(u, c)) = Cardinality(TombSlots(t, c)) - 1
      BY <1>1, <2>1, FS_RemoveElement
    <2> QED BY <1>3, <1>4, <1>5, <2>2 DEF Counted
  <1>6. CASE t[i].key = Empty
    <2>1. TombSlots(u, c) = TombSlots(t, c)
      BY <1>0, <1>6 DEF TombSlots
    <2> QED BY <1>0, <1>3, <1>4, <1>6, <2>1 DEF Counted
  <1> QED BY <1>5, <1>6

-----------------------------------------------------------------------------
(* A field added to a table with room: the insertion of cdo_object_rawset  *)
(* and one step of obj_rehash.                                             *)

LEMMA Insertion ==
  ASSUME NEW t, NEW c, NEW head, NEW tail, NEW list, HashTable(t, c, head, tail, list),
         NEW tombs, Counted(t, c, list, tombs), HasEmpty(t, c), NEW f,
         f.key \in Keys, f.value \in Values \cup {NoValue}, f.static \in BOOLEAN,
         \A j \in 0..(c - 1) : t[j].key # f.key,
         NEW i, i = InsertSlot(t, f.key), NEW new,
         new = Enter([slots |-> t, head |-> head, tail |-> tail], i, f)
  PROVE  /\ i \in 0..(c - 1) /\ t[i].key \in {Empty, Tombstone}
         /\ HashTable(new.slots, c, new.head, new.tail, Append(list, i))
         /\ Counted(new.slots, c, Append(list, i),
                    IF t[i].key = Tombstone THEN tombs - 1 ELSE tombs)
         /\ new.tail = i
         /\ new.slots[i].value = f.value /\ new.slots[i].static = f.static
         /\ Entered(t, new.slots, c, tail, i, f.key)
  <1>0. IsTable(t, c) /\ IsList(t, c, head, tail, list) /\ c \in Nat
    BY Capacity DEF HashTable
  <1>1. PICK k \in Keys : k = f.key
    OBVIOUS
  <1>2. PICK n \in 1..c :
           /\ i = Try(k, n, c) /\ t[i].key \in {Empty, Tombstone}
           /\ \A m \in 1..(n - 1) : t[Try(k, m, c)].key \notin {k, Empty}
                                    /\ Try(k, m, c) # i
    <2>1. \E n \in 1..c :
           /\ InsertSlot(t, k) = Try(k, n, c)
           /\ t[Try(k, n, c)].key \in {Empty, Tombstone}
           /\ \A m \in 1..(n - 1) : t[Try(k, m, c)].key \notin {k, Empty}
                                    /\ Try(k, m, c) # Try(k, n, c)
      BY <1>0, <1>1, InsertSlotIs
    <2> QED BY <1>1, <2>1
  <1>3. i \in 0..(c - 1) /\ t[i].key \notin Keys
    <2>1. c \in Nat \ {0}
      BY <1>0
    <2> QED BY <1>2, <2>1, Tries, ObjectMapAssumption
  <1>4. /\ Entered(t, new.slots, c, tail, i, k)
        /\ new.slots[i].value = f.value /\ new.slots[i].static = f.static
        /\ new.head = (IF head = None THEN i ELSE head) /\ new.tail = i
    BY <1>0, <1>1, <1>3, EnterIsEntered
  <1>5. HashTable(new.slots, c, new.head, new.tail, Append(list, i))
    BY <1>1, <1>2, <1>4, EnteredTable
  <1>6. Counted(new.slots, c, Append(list, i), IF t[i].key = Tombstone THEN tombs - 1 ELSE tombs)
    <2>1. IsTable(new.slots, c) /\ new.slots[i].key \in Keys
          /\ \A j \in 0..(c - 1) : j # i => new.slots[j].key = t[j].key
      BY <1>4 DEF Entered
    <2>2. list \in Seq(0..(c - 1))
      BY <1>0 DEF IsList
    <2> QED BY <1>0, <1>2, <1>3, <2>1, <2>2, EnteredCounts
  <1> QED BY <1>1, <1>2, <1>3, <1>4, <1>5, <1>6

-----------------------------------------------------------------------------
(* The walk along the links finds the list.                                *)

LEMMA ListFits ==
  ASSUME NEW t, NEW c, IsTable(t, c), NEW list, NEW tombs, Counted(t, c, list, tombs)
  PROVE  Len(list) <= c
  <1>1. IsFiniteSet(0..(c - 1)) /\ Cardinality(0..(c - 1)) = c
    BY Capacity, Interval
  <1>2. LiveSlots(t, c) \subseteq 0..(c - 1)
    BY DEF LiveSlots
  <1>3. Cardinality(LiveSlots(t, c)) <= Cardinality(0..(c - 1))
    BY <1>1, <1>2, FS_Subset
  <1> QED BY <1>1, <1>3 DEF Counted

LEMMA ChainIs ==
  ASSUME NEW t, NEW c, NEW head, NEW tail, NEW list, IsTable(t, c),
         IsList(t, c, head, tail, list), Len(list) <= c
  PROVE  Chain(t, head) = list
  <1> DEFINE cap == Cardinality(DOMAIN t)
             succ == [i \in DOMAIN t \cup {None} |-> IF i = None THEN None ELSE t[i].next]
             after == CHOOSE f : f = [n \in 0..cap |-> IF n = 0 THEN head ELSE succ[f[n - 1]]]
             reach == [n \in 0..c |-> IF n < Len(list) THEN list[n + 1] ELSE None]
  <1>0. /\ Len(list) \in Nat /\ c \in Nat /\ list \in Seq(0..(c - 1))
        /\ \A n \in 1..Len(list) : list[n] \in 0..(c - 1) /\ list[n] # None
        /\ (list = <<>> <=> Len(list) = 0) /\ (head = None <=> list = <<>>)
    BY ListTypes
  <1>1. head = (IF list = <<>> THEN None ELSE list[1])
    BY DEF IsList
  <1>2. DOMAIN t = 0..(c - 1) /\ Cardinality(DOMAIN t) = c
    BY Capacity
  <1>3. \A n \in 0..c : /\ n < Len(list) => reach[n] = list[n + 1]
                        /\ n >= Len(list) => reach[n] = None
    BY <1>0
  <1>4. 0 < Len(list) => reach[0] = list[1]
    <2>1. 0 \in 0..c /\ 0 + 1 = 1
      BY <1>0
    <2> QED BY <1>3, <2>1
  <1>5. reach[0] = head
    BY <1>0, <1>1, <1>3, <1>4
  <1>6. ASSUME NEW n \in 0..c, n # 0
        PROVE  reach[n] = succ[reach[n - 1]]
    <2>1. PICK m \in 0..c : m = n - 1 /\ m + 1 = n
      BY <1>0, <1>6
    <2>2. CASE m < Len(list)
      <3>1. n \in 1..Len(list) /\ reach[m] = list[n]
        BY <1>0, <1>3, <2>1, <2>2
      <3>2. succ[list[n]] = t[list[n]].next
        BY <1>0, <1>2, <3>1
      <3>3. t[list[n]].next = IF n = Len(list) THEN None ELSE list[n + 1]
        BY <3>1 DEF IsList
      <3> HIDE DEF succ, reach
      <3>4. reach[n] = IF n = Len(list) THEN None ELSE list[n + 1]
        BY <1>0, <1>3, <3>1
      <3> QED BY <2>1, <3>1, <3>2, <3>3, <3>4
    <2>3. CASE m >= Len(list)
      <3>1. n >= Len(list)
        BY <1>0, <2>1, <2>3
      <3>2. reach[m] = None /\ reach[n] = None
        BY <1>3, <2>1, <2>3, <3>1
      <3>3. succ[None] = None
        OBVIOUS
      <3> HIDE DEF succ, reach
      <3> QED BY <2>1, <3>2, <3>3
    <2> QED BY <1>0, <2>1, <2>2, <2>3
  <1>7. reach = [n \in 0..cap |-> IF n = 0 THEN head ELSE succ[reach[n - 1]]]
    <2> HIDE DEF succ, cap
    <2>0. cap = c
      BY <1>2 DEF cap
    <2>1. PICK g : g = reach
      OBVIOUS
    <2>2. g = [n \in 0..c |-> g[n]]
      BY <2>1
    <2>3. \A n \in 0..c : g[n] = IF n = 0 THEN head ELSE succ[g[n - 1]]
      BY <1>5, <1>6, <2>1
    <2> QED BY <2>0, <2>1, <2>2, <2>3
  <1> HIDE DEF reach, succ, cap
  <1>8. after = [n \in 0..cap |-> IF n = 0 THEN head ELSE succ[after[n - 1]]]
    BY <1>7
  <1> HIDE DEF after
  <1>9. after[0] = head /\ \A n \in 0..c : n # 0 => after[n] = succ[after[n - 1]]
    <2>1. 0 \in 0..c /\ cap = c
      BY <1>0, <1>2 DEF cap
    <2> QED BY <1>8, <2>1
  <1>10. ASSUME NEW n \in 0..c
         PROVE  after[n] = reach[n]
    <2> DEFINE wrong == {m \in 0..c : after[m] # reach[m]}
    <2> SUFFICES ASSUME wrong # {}
                 PROVE  FALSE
      OBVIOUS
    <2>1. wrong \in SUBSET Nat
      BY <1>0
    <2>2. PICK m \in wrong : \A q \in wrong : m <= q
      BY <2>1, LeastNat
    <2>3. m \in 0..c /\ m # 0 /\ after[m] # reach[m]
      BY <1>5, <1>9, <2>2
    <2>4. PICK p \in 0..c : p = m - 1 /\ p < m
      BY <1>0, <2>3
    <2>5. after[p] = reach[p]
      BY <1>0, <2>2, <2>4
    <2> QED BY <1>6, <1>9, <2>3, <2>4, <2>5
  <1>11. \A n \in 0..c : /\ n < Len(list) => after[n] = list[n + 1]
                         /\ n >= Len(list) => after[n] = None
    BY <1>3, <1>10
  <1> DEFINE len == CHOOSE n \in 0..cap : /\ n = cap \/ after[n] = None
                                          /\ n = 0 \/ after[n - 1] # None
  <1>12. len = Len(list)
    <2>1. Len(list) \in 0..c /\ (Len(list) = c \/ after[Len(list)] = None)
      BY <1>0, <1>11
    <2>2. Len(list) = 0 \/ after[Len(list) - 1] # None
      <3>1. PICK q \in Nat : q = Len(list)
        BY <1>0
      <3>2. q # 0 => \E p \in 0..c : p = q - 1 /\ p < q /\ p + 1 \in 1..q
        BY <1>0, <3>1
      <3> QED BY <1>0, <1>11, <3>1, <3>2
    <2>3. ASSUME NEW n \in 0..c, n = c \/ after[n] = None, n = 0 \/ after[n - 1] # None
          PROVE  n = Len(list)
      <3>1. ~ (n < Len(list))
        <4>1. n < Len(list) => n # c /\ after[n] = list[n + 1] /\ n + 1 \in 1..Len(list)
          BY <1>0, <1>11
        <4> QED BY <1>0, <2>3, <4>1
      <3>2. ~ (n > Len(list))
        <4>1. n > Len(list) => \E p \in 0..c : p = n - 1 /\ p >= Len(list)
          BY <1>0
        <4> QED BY <1>0, <1>11, <2>3, <4>1
      <3> QED BY <1>0, <3>1, <3>2
    <2>4. cap = c
      BY <1>2 DEF cap
    <2> QED BY <2>1, <2>2, <2>3, <2>4
  <1>13. Chain(t, head) = [n \in 1..len |-> after[n - 1]]
    BY DEF Chain, after, succ, cap
  <1> HIDE DEF len
  <1>14. \A n \in 1..Len(list) : after[n - 1] = list[n]
    <2>1. \A n \in 1..Len(list) : \E p \in 0..c : p = n - 1 /\ p < Len(list) /\ p + 1 = n
      BY <1>0
    <2> QED BY <1>11, <2>1
  <1>15. [n \in 1..Len(list) |-> after[n - 1]] = [n \in 1..Len(list) |-> list[n]]
    BY <1>14
  <1>16. list = [n \in 1..Len(list) |-> list[n]]
    BY <1>0
  <1> QED BY <1>12, <1>13, <1>15, <1>16

-----------------------------------------------------------------------------
(* The rehash.                                                             *)

OnSteps(g, last) == g = [n \in 0..last |-> g[n]]

(* The tables after each step of the loop of obj_rehash over the slots     *)
(* from of table t.                                                        *)
Steps(g, first, t, from, last) ==
  /\ OnSteps(g, last)
  /\ g[0] = first
  /\ \A n \in 1..last : g[n] = Reinsert(g[n - 1], t[from[n]])

LEMMA StepsExist ==
  ASSUME NEW first, NEW t, NEW from, NEW last \in Nat
  PROVE  \E g : Steps(g, first, t, from, last)
  <1> DEFINE wrong == {n \in Nat : ~ \E g : Steps(g, first, t, from, n)}
  <1> SUFFICES ASSUME wrong # {}
               PROVE  FALSE
    OBVIOUS
  <1>1. PICK n \in wrong : \A m \in wrong : n <= m
    BY LeastNat
  <1>2. n \in Nat /\ ~ \E g : Steps(g, first, t, from, n)
    BY <1>1
  <1>3. CASE n = 0
    <2> DEFINE g == [m \in 0..0 |-> first]
    <2>1. Steps(g, first, t, from, 0)
      BY DEF Steps, OnSteps
    <2> QED BY <1>2, <1>3, <2>1
  <1>4. CASE n # 0
    <2>1. PICK p \in Nat : n = p + 1
      BY <1>2, <1>4
    <2>2. p \notin wrong
      BY <1>1, <2>1
    <2>3. PICK g : Steps(g, first, t, from, p)
      BY <2>2
    <2>4. PICK next : next = Reinsert(g[p], t[from[n]])
      OBVIOUS
    <2> DEFINE h == [m \in 0..n |-> IF m = n THEN next ELSE g[m]]
    <2>5. OnSteps(h, n) /\ h[n] = next /\ \A m \in 0..p : h[m] = g[m]
      BY <2>1 DEF OnSteps
    <2> HIDE DEF h
    <2>6. h[0] = first
      BY <2>1, <2>3, <2>5 DEF Steps
    <2>7. ASSUME NEW m \in 1..n
          PROVE  h[m] = Reinsert(h[m - 1], t[from[m]])
      <3>1. PICK q \in 0..p : q = m - 1
        BY <2>1
      <3>2. h[q] = g[q]
        BY <2>5
      <3>3. CASE m = n
        BY <2>1, <2>4, <2>5, <3>1, <3>2, <3>3
      <3>4. CASE m # n
        <4>1. m \in 1..p /\ m \in 0..p
          BY <2>1, <3>4
        <4>2. g[m] = Reinsert(g[m - 1], t[from[m]])
          BY <2>3, <4>1 DEF Steps
        <4> QED BY <2>5, <3>1, <3>2, <4>1, <4>2
      <3> QED BY <3>3, <3>4
    <2>8. Steps(h, first, t, from, n)
      BY <2>5, <2>6, <2>7 DEF Steps
    <2> QED BY <1>2, <2>8
  <1> QED BY <1>3, <1>4

LEMMA RehashedIs ==
  ASSUME NEW cap, Len(Fifo) \in Nat
  PROVE  \E g : /\ Steps(g, FreshTable(cap), slots, Fifo, Len(Fifo))
                /\ Rehashed(cap) = g[Len(Fifo)]
  <1> DEFINE from == Fifo
             moved == CHOOSE f : f = [n \in 0..Len(from) |->
                        IF n = 0 THEN FreshTable(cap)
                        ELSE Reinsert(f[n - 1], slots[from[n]])]
  <1>1. PICK g : Steps(g, FreshTable(cap), slots, from, Len(from))
    BY StepsExist
  <1>2. Rehashed(cap) = moved[Len(from)]
    BY DEF Rehashed
  <1> HIDE DEF from
  <1>3. PICK first : first = FreshTable(cap)
    OBVIOUS
  <1>4. \A n \in 0..Len(from) : g[n] = IF n = 0 THEN first ELSE Reinsert(g[n - 1], slots[from[n]])
    BY <1>1, <1>3 DEF Steps
  <1>5. g = [n \in 0..Len(from) |-> g[n]]
    BY <1>1 DEF Steps, OnSteps
  <1>6. g = [n \in 0..Len(from) |->
               IF n = 0 THEN FreshTable(cap) ELSE Reinsert(g[n - 1], slots[from[n]])]
    BY <1>3, <1>4, <1>5
  <1>7. moved = [n \in 0..Len(from) |->
                   IF n = 0 THEN FreshTable(cap) ELSE Reinsert(moved[n - 1], slots[from[n]])]
    BY <1>6
  <1> HIDE DEF moved
  <1>8. Len(from) \in Nat
    BY DEF from
  <1>9. Steps(moved, FreshTable(cap), slots, from, Len(from))
    <2>1. 0 \in 0..Len(from) /\ \A n \in 1..Len(from) : n \in 0..Len(from) /\ n # 0
      BY <1>8
    <2>2. OnSteps(moved, Len(from))
      BY <1>7 DEF OnSteps
    <2> QED BY <1>7, <2>1, <2>2 DEF Steps
  <1> QED BY <1>2, <1>9 DEF from

(* The fields of list in t are the first fields of list2 in u. *)
Copied(t, list, u, list2) ==
  /\ Len(list2) <= Len(list)
  /\ \A n \in 1..Len(list2) : /\ u[list2[n]].key = t[list[n]].key
                              /\ u[list2[n]].value = t[list[n]].value
                              /\ u[list2[n]].static = t[list[n]].static

LEMMA FreshIs ==
  ASSUME NEW cap \in Nat, NEW t, NEW list \in Seq(0..(cap - 1)), list = <<>>,
         NEW from, Len(from) \in Nat
  PROVE  LET new == FreshTable(cap)
         IN  /\ HashTable(new.slots, cap, new.head, new.tail, list)
             /\ Counted(new.slots, cap, list, 0)
             /\ Copied(t, from, new.slots, list)
  <1> DEFINE new == FreshTable(cap)
  <1>0. Empty \notin Keys /\ Tombstone \notin Keys /\ Empty # Tombstone
    BY ObjectMapAssumption
  <1>1. PICK u : u = new.slots
    OBVIOUS
  <1>2. u = [i \in 0..(cap - 1) |-> EmptySlot] /\ new.head = None /\ new.tail = None
    BY <1>1 DEF FreshTable
  <1> HIDE DEF new
  <1>3. EmptySlot \in Slot(cap) /\ EmptySlot.key = Empty
    BY DEF EmptySlot, Slot, Link
  <1>4. \A i \in 0..(cap - 1) : u[i].key = Empty
    BY <1>2, <1>3
  <1>5. IsTable(u, cap)
    BY <1>2, <1>3 DEF IsTable
  <1>6. Len(list) = 0
    OBVIOUS
  <1>7. IsList(u, cap, None, None, list)
    BY <1>0, <1>4, <1>6 DEF IsList
  <1>8. Findable(u, cap) /\ KeysDiffer(u, cap)
    BY <1>0, <1>4 DEF Findable, KeysDiffer
  <1>9. LiveSlots(u, cap) = {} /\ TombSlots(u, cap) = {}
    BY <1>0, <1>4 DEF LiveSlots, TombSlots
  <1>10. Counted(u, cap, list, 0)
    BY <1>6, <1>9, FS_EmptySet DEF Counted
  <1>11. Copied(t, from, u, list)
    BY <1>6 DEF Copied
  <1> QED BY <1>1, <1>2, <1>5, <1>7, <1>8, <1>10, <1>11 DEF HashTable, new

(* One field of list moved to a table with room for it. *)
LEMMA Moved ==
  ASSUME NEW t, NEW c, NEW head, NEW tail, NEW list, HashTable(t, c, head, tail, list),
         NEW u, NEW cap, NEW head2, NEW tail2, NEW list2,
         HashTable(u, cap, head2, tail2, list2), Counted(u, cap, list2, 0),
         Copied(t, list, u, list2), NEW n \in 1..Len(list), n = Len(list2) + 1, n <= cap,
         NEW new, new = Reinsert([slots |-> u, head |-> head2, tail |-> tail2], t[list[n]])
  PROVE  \E list3 : /\ HashTable(new.slots, cap, new.head, new.tail, list3)
                    /\ Counted(new.slots, cap, list3, 0)
                    /\ Copied(t, list, new.slots, list3)
                    /\ Len(list3) = n
  <1> DEFINE f == t[list[n]]
             i == InsertSlot(u, f.key)
  <1>0. /\ IsTable(t, c) /\ IsList(t, c, head, tail, list) /\ KeysDiffer(t, c)
        /\ IsTable(u, cap) /\ IsList(u, cap, head2, tail2, list2)
    BY DEF HashTable
  <1>1. /\ Len(list) \in Nat /\ \A m \in 1..Len(list) : list[m] \in 0..(c - 1)
        /\ Len(list2) \in Nat /\ \A m \in 1..Len(list2) : list2[m] \in 0..(cap - 1)
        /\ cap \in Nat /\ list2 \in Seq(0..(cap - 1))
    BY <1>0, ListTypes
  <1>2. f \in Slot(c)
    BY <1>0, <1>1 DEF IsTable
  <1>3. f.key \in Keys /\ f.value \in Values \cup {NoValue} /\ f.static \in BOOLEAN
    BY <1>0, <1>2 DEF Slot, IsList
  <1>4. HasEmpty(u, cap)
    BY <1>0, <1>1, RoomLeft
  <1>5. ASSUME NEW j \in 0..(cap - 1), u[j].key = f.key
        PROVE  FALSE
    <2>1. PICK m \in 1..Len(list2) : list2[m] = j
      BY <1>0, <1>3, <1>5 DEF IsList
    <2>2. m \in 1..Len(list) /\ m # n
      BY <1>1, <2>1
    <2>3. t[list[m]].key = t[list[n]].key
      BY <1>5, <2>1 DEF Copied
    <2>4. list[m] = list[n]
      BY <1>0, <1>1, <1>3, <2>2, <2>3 DEF KeysDiffer
    <2> QED BY <1>0, <2>2, <2>4 DEF IsList
  <1>6. new = Enter([slots |-> u, head |-> head2, tail |-> tail2], i, f)
    BY DEF Reinsert
  <1> HIDE DEF i, f
  <1>7. i = InsertSlot(u, f.key)
    BY DEF i
  <1>8. /\ i \in 0..(cap - 1) /\ u[i].key \in {Empty, Tombstone}
        /\ HashTable(new.slots, cap, new.head, new.tail, Append(list2, i))
        /\ Counted(new.slots, cap, Append(list2, i), IF u[i].key = Tombstone THEN 0 - 1 ELSE 0)
        /\ new.slots[i].value = f.value /\ new.slots[i].static = f.static
        /\ Entered(u, new.slots, cap, tail2, i, f.key)
    BY <1>3, <1>4, <1>5, <1>6, <1>7, Insertion
  <1>9. PICK list3 : list3 = Append(list2, i)
    OBVIOUS
  <1>10. Len(list3) = n /\ list3[n] = i /\ \A m \in 1..Len(list2) : list3[m] = list2[m]
    BY <1>1, <1>8, <1>9
  <1>11. Counted(new.slots, cap, list3, 0)
    <2>1. IsTable(new.slots, cap)
      BY <1>8 DEF HashTable
    <2>2. Cardinality(TombSlots(new.slots, cap)) \in Nat
      BY <2>1, SlotSets
    <2>3. Cardinality(TombSlots(new.slots, cap)) = IF u[i].key = Tombstone THEN 0 - 1 ELSE 0
      BY <1>8 DEF Counted
    <2>4. Cardinality(TombSlots(new.slots, cap)) = 0
      BY <2>2, <2>3
    <2> QED BY <1>8, <1>9, <2>4 DEF Counted
  <1>12. ASSUME NEW m \in 1..Len(list3)
         PROVE  /\ new.slots[list3[m]].key = t[list[m]].key
                /\ new.slots[list3[m]].value = t[list[m]].value
                /\ new.slots[list3[m]].static = t[list[m]].static
    <2>1. CASE m = n
      BY <1>8, <1>10, <2>1 DEF Entered, f
    <2>2. CASE m # n
      <3>1. m \in 1..Len(list2) /\ list3[m] = list2[m]
        BY <1>1, <1>10, <2>2
      <3>2. PICK j \in 0..(cap - 1) : j = list2[m]
        BY <1>1, <3>1
      <3>3. u[j].key \in Keys
        BY <1>0, <3>1, <3>2 DEF IsList
      <3>4. j # i
        BY <1>8, <3>3, ObjectMapAssumption
      <3>5. /\ new.slots[j].key = u[j].key /\ new.slots[j].value = u[j].value
            /\ new.slots[j].static = u[j].static
        BY <1>8, <3>4 DEF Entered
      <3>6. /\ u[list2[m]].key = t[list[m]].key /\ u[list2[m]].value = t[list[m]].value
            /\ u[list2[m]].static = t[list[m]].static
        BY <3>1 DEF Copied
      <3> QED BY <3>1, <3>2, <3>5, <3>6
    <2> QED BY <2>1, <2>2
  <1>13. Copied(t, list, new.slots, list3)
    BY <1>1, <1>10, <1>12 DEF Copied
  <1> QED BY <1>8, <1>9, <1>10, <1>11, <1>13

(* obj_rehash: the same fields in the same order, in a table without       *)
(* tombstones.                                                             *)
LEMMA RehashKeepsFields ==
  ASSUME HashTable(slots, slot_cap, fifo_head, fifo_tail, Fifo),
         NEW cap \in Nat, Len(Fifo) <= cap, NEW new, new = Rehashed(cap)
  PROVE  \E list2 : /\ HashTable(new.slots, cap, new.head, new.tail, list2)
                    /\ Counted(new.slots, cap, list2, 0)
                    /\ Copied(slots, Fifo, new.slots, list2)
                    /\ Len(list2) = Len(Fifo)
  <1>1. PICK list : list = Fifo
    OBVIOUS
  <1>2. Len(list) \in Nat /\ HashTable(slots, slot_cap, fifo_head, fifo_tail, list)
    BY <1>1, ListTypes DEF HashTable
  <1>3. PICK g : Steps(g, FreshTable(cap), slots, list, Len(list)) /\ new = g[Len(list)]
    BY <1>1, <1>2, RehashedIs
  <1> DEFINE Done(n) == \E list2 : /\ HashTable(g[n].slots, cap, g[n].head, g[n].tail, list2)
                                   /\ Counted(g[n].slots, cap, list2, 0)
                                   /\ Copied(slots, list, g[n].slots, list2)
                                   /\ Len(list2) = n
             wrong == {n \in 0..Len(list) : ~ Done(n)}
  <1>4. ASSUME wrong # {}
        PROVE  FALSE
    <2>1. wrong \in SUBSET Nat
      BY <1>2
    <2>2. PICK n \in wrong : \A m \in wrong : n <= m
      BY <1>4, <2>1, LeastNat
    <2>3. n \in 0..Len(list) /\ ~ Done(n)
      BY <2>2
    <2>4. n # 0
      <3>1. g[0] = FreshTable(cap)
        BY <1>3 DEF Steps
      <3>2. PICK none \in Seq(0..(cap - 1)) : none = <<>>
        <4>1. <<>> \in Seq(0..(cap - 1))
          OBVIOUS
        <4> QED BY <4>1
      <3>3. Len(none) = 0
        BY <3>2
      <3>4. /\ HashTable(g[0].slots, cap, g[0].head, g[0].tail, none)
            /\ Counted(g[0].slots, cap, none, 0)
            /\ Copied(slots, list, g[0].slots, none)
        BY <1>2, <3>1, <3>2, FreshIs
      <3>5. Done(0)
        BY <3>3, <3>4
      <3> QED BY <2>3, <3>5
    <2>5. PICK p \in 0..Len(list) : p = n - 1 /\ p < n
      BY <1>2, <2>3, <2>4
    <2>6. p \notin wrong
      BY <1>2, <2>2, <2>3, <2>5
    <2>7. Done(p)
      BY <2>6
    <2>8. PICK list2 : /\ HashTable(g[p].slots, cap, g[p].head, g[p].tail, list2)
                       /\ Counted(g[p].slots, cap, list2, 0)
                       /\ Copied(slots, list, g[p].slots, list2)
                       /\ Len(list2) = p
      BY <2>7
    <2>9. n \in 1..Len(list) /\ n = Len(list2) + 1 /\ n <= cap
      BY <1>1, <1>2, <2>3, <2>4, <2>5, <2>8
    <2>10. g[n] = Reinsert(g[p], slots[list[n]])
      BY <1>3, <2>5, <2>9 DEF Steps
    <2>11. g[n] = Reinsert([slots |-> g[p].slots, head |-> g[p].head, tail |-> g[p].tail],
                           slots[list[n]])
      BY <2>10 DEF Reinsert, Enter
    <2>12. Done(n)
      BY <1>2, <2>8, <2>9, <2>11, Moved
    <2> QED BY <2>3, <2>12
  <1>5. Len(list) \notin wrong /\ Len(list) \in 0..Len(list)
    BY <1>2, <1>4
  <1>6. Done(Len(list))
    BY <1>5
  <1> QED BY <1>1, <1>3, <1>6

-----------------------------------------------------------------------------
(* The inductive invariant: the slots are a hash table threaded by the     *)
(* list, the counters count, and at most three quarters of it is used.     *)

ObjectInv ==
  /\ HashTable(slots, slot_cap, fifo_head, fifo_tail, Fifo)
  /\ Counted(slots, slot_cap, Fifo, tombstone_count)
  /\ field_count = Len(Fifo)
  /\ (field_count + tombstone_count) * 4 <= slot_cap * 3

LEMMA InvTypes ==
  ASSUME ObjectInv
  PROVE  /\ slot_cap \in Nat /\ field_count \in Nat /\ tombstone_count \in Nat
         /\ IsTable(slots, slot_cap) /\ IsList(slots, slot_cap, fifo_head, fifo_tail, Fifo)
         /\ Findable(slots, slot_cap) /\ KeysDiffer(slots, slot_cap)
         /\ field_count = Len(Fifo) /\ (field_count + tombstone_count) * 4 <= slot_cap * 3
         /\ Counted(slots, slot_cap, Fifo, tombstone_count)
  <1>1. /\ IsTable(slots, slot_cap) /\ IsList(slots, slot_cap, fifo_head, fifo_tail, Fifo)
        /\ Findable(slots, slot_cap) /\ KeysDiffer(slots, slot_cap)
        /\ Counted(slots, slot_cap, Fifo, tombstone_count)
        /\ field_count = Len(Fifo) /\ (field_count + tombstone_count) * 4 <= slot_cap * 3
    BY DEF ObjectInv, HashTable
  <1>2. slot_cap \in Nat
    BY <1>1, Capacity
  <1>3. Len(Fifo) \in Nat
    BY <1>1, ListTypes
  <1>4. tombstone_count \in Nat
    BY <1>1, SlotSets DEF Counted
  <1> QED BY <1>1, <1>2, <1>3, <1>4

(* What a state needs for the invariant to hold with a given list. *)
LEMMA InvFrom ==
  ASSUME NEW list, HashTable(slots, slot_cap, fifo_head, fifo_tail, list),
         Counted(slots, slot_cap, list, tombstone_count), field_count = Len(list),
         (field_count + tombstone_count) * 4 <= slot_cap * 3
  PROVE  Fifo = list /\ ObjectInv
  <1>1. IsTable(slots, slot_cap) /\ IsList(slots, slot_cap, fifo_head, fifo_tail, list)
    BY DEF HashTable
  <1>2. Len(list) <= slot_cap
    BY <1>1, ListFits
  <1>3. Chain(slots, fifo_head) = list
    BY <1>1, <1>2, ChainIs
  <1>4. Fifo = list
    BY <1>3 DEF Fifo
  <1> QED BY <1>4 DEF ObjectInv

LEMMA InvFromNext ==
  ASSUME NEW list, HashTable(slots', slot_cap', fifo_head', fifo_tail', list),
         Counted(slots', slot_cap', list, tombstone_count'), field_count' = Len(list),
         (field_count' + tombstone_count') * 4 <= slot_cap' * 3
  PROVE  Fifo' = list /\ ObjectInv'
  <1>1. IsTable(slots', slot_cap') /\ IsList(slots', slot_cap', fifo_head', fifo_tail', list)
    BY DEF HashTable
  <1>2. Len(list) <= slot_cap'
    BY <1>1, ListFits
  <1>3. Chain(slots', fifo_head') = list
    BY <1>1, <1>2, ChainIs
  <1>4. Fifo' = list
    BY <1>3 DEF Fifo
  <1> QED BY <1>4 DEF ObjectInv

LEMMA InvStart == Init => ObjectInv /\ Fifo = <<>>
  <1> SUFFICES ASSUME Init
               PROVE  ObjectInv /\ Fifo = <<>>
    OBVIOUS
  <1>1. /\ slots = <<>> /\ slot_cap = 0 /\ field_count = 0 /\ tombstone_count = 0
        /\ fifo_head = None /\ fifo_tail = None
    BY DEF Init
  <1>2. PICK none \in Seq(0..(0 - 1)) : none = <<>>
    <2>1. <<>> \in Seq(0..(0 - 1))
      OBVIOUS
    <2> QED BY <2>1
  <1>3. Len(none) = 0
    BY <1>2
  <1>4. slots \in [0..(0 - 1) -> Slot(0)]
    BY <1>1
  <1>5. IsTable(slots, 0)
    BY <1>4 DEF IsTable
  <1>6. IsList(slots, 0, None, None, none)
    BY <1>2, <1>3 DEF IsList
  <1>7. Findable(slots, 0) /\ KeysDiffer(slots, 0)
    BY DEF Findable, KeysDiffer
  <1>8. LiveSlots(slots, 0) = {} /\ TombSlots(slots, 0) = {}
    BY DEF LiveSlots, TombSlots
  <1>9. Counted(slots, 0, none, 0)
    BY <1>3, <1>8, FS_EmptySet DEF Counted
  <1>10. HashTable(slots, 0, None, None, none)
    BY <1>5, <1>6, <1>7 DEF HashTable
  <1> QED BY <1>1, <1>2, <1>3, <1>9, <1>10, InvFrom

-----------------------------------------------------------------------------
(* obj_ensure_capacity *)

NewSize == IF slot_cap = 0 \/ Crowded THEN NewCap ELSE slot_cap

LEMMA TableIs ==
  ASSUME ObjectInv, NEW new, new = Table
  PROVE  /\ NewSize \in Nat
         /\ TombstonesLeft \in Nat
         /\ NewSize = slot_cap => TombstonesLeft = tombstone_count /\ new.slots = slots
                                  /\ new.head = fifo_head /\ new.tail = fifo_tail
         /\ (field_count + 1 + TombstonesLeft) * 4 <= NewSize * 3
         /\ \E list : /\ HashTable(new.slots, NewSize, new.head, new.tail, list)
                      /\ Counted(new.slots, NewSize, list, TombstonesLeft)
                      /\ Copied(slots, Fifo, new.slots, list)
                      /\ Len(list) = Len(Fifo)
                      /\ NewSize = slot_cap => list = Fifo
  <1>0. /\ slot_cap \in Nat /\ field_count \in Nat /\ tombstone_count \in Nat
        /\ field_count = Len(Fifo) /\ (field_count + tombstone_count) * 4 <= slot_cap * 3
        /\ InitCap \in Nat /\ InitCap >= 2
    BY InvTypes, ObjectMapAssumption
  <1>1. CASE slot_cap = 0 \/ Crowded
    <2>1. new = Rehashed(NewCap) /\ TombstonesLeft = 0 /\ NewSize = NewCap
      BY <1>1 DEF Table, TombstonesLeft, NewSize
    <2>2. /\ NewCap \in Nat /\ NewCap # slot_cap
          /\ (field_count + 1) * 4 <= NewCap * 3 /\ field_count <= NewCap
      BY <1>0 DEF NewCap
    <2>3. Len(Fifo) <= NewCap
      BY <1>0, <2>2
    <2>4. PICK list : /\ HashTable(new.slots, NewCap, new.head, new.tail, list)
                      /\ Counted(new.slots, NewCap, list, 0)
                      /\ Copied(slots, Fifo, new.slots, list)
                      /\ Len(list) = Len(Fifo)
      <3>1. HashTable(slots, slot_cap, fifo_head, fifo_tail, Fifo)
        BY DEF ObjectInv
      <3> QED BY <2>1, <2>2, <2>3, <3>1, RehashKeepsFields
    <2> QED BY <1>0, <2>1, <2>2, <2>4
  <1>2. CASE ~ (slot_cap = 0 \/ Crowded)
    <2>1. /\ new.slots = slots /\ new.head = fifo_head /\ new.tail = fifo_tail
          /\ TombstonesLeft = tombstone_count /\ NewSize = slot_cap
      BY <1>2 DEF Table, TombstonesLeft, NewSize
    <2>2. (field_count + 1 + tombstone_count) * 4 <= slot_cap * 3
      BY <1>0, <1>2 DEF Crowded
    <2>3. Copied(slots, Fifo, slots, Fifo)
      BY <1>0 DEF Copied
    <2>4. HashTable(slots, slot_cap, fifo_head, fifo_tail, Fifo)
          /\ Counted(slots, slot_cap, Fifo, tombstone_count)
      BY DEF ObjectInv
    <2> QED BY <1>0, <2>1, <2>2, <2>3, <2>4
  <1> QED BY <1>1, <1>2

-----------------------------------------------------------------------------
(* A field's value changed in place.                                       *)

(* u is table t up to values and static flags. *)
SameKeys(t, u, c) ==
  /\ IsTable(u, c)
  /\ \A j \in 0..(c - 1) : u[j].key = t[j].key /\ u[j].prev = t[j].prev
                           /\ u[j].next = t[j].next

LEMMA SameKeysTable ==
  ASSUME NEW t, NEW u, NEW c, NEW head, NEW tail, NEW list, NEW tombs,
         HashTable(t, c, head, tail, list), Counted(t, c, list, tombs), SameKeys(t, u, c)
  PROVE  HashTable(u, c, head, tail, list) /\ Counted(u, c, list, tombs)
  <1>0. IsTable(t, c) /\ IsList(t, c, head, tail, list) /\ Findable(t, c) /\ KeysDiffer(t, c)
    BY DEF HashTable
  <1>1. /\ Len(list) \in Nat /\ c \in Nat
        /\ \A n \in 1..Len(list) : list[n] \in 0..(c - 1)
    BY <1>0, ListTypes
  <1>2. IsTable(u, c) /\ \A j \in 0..(c - 1) : u[j].key = t[j].key
    BY DEF SameKeys
  <1>3. \A n \in 1..Len(list) : /\ u[list[n]].key = t[list[n]].key
                                /\ u[list[n]].prev = t[list[n]].prev
                                /\ u[list[n]].next = t[list[n]].next
    BY <1>1 DEF SameKeys
  <1>4. IsList(u, c, head, tail, list)
    BY <1>0, <1>2, <1>3 DEF IsList
  <1>5. KeysDiffer(u, c)
    BY <1>0, <1>2 DEF KeysDiffer
  <1>6. ASSUME NEW j \in 0..(c - 1), u[j].key \in Keys
        PROVE  Reached(u, c, j)
    <2>1. PICK q \in Keys : q = u[j].key /\ q = t[j].key
      BY <1>2, <1>6
    <2>2. PICK p \in 1..c : /\ Try(q, p, c) = j
                            /\ \A m \in 1..(p - 1) : t[Try(q, m, c)].key \notin {q, Empty}
      BY <1>0, <2>1 DEF Findable, Reached
    <2>3. ASSUME NEW m \in 1..(p - 1)
          PROVE  u[Try(q, m, c)].key \notin {q, Empty}
      <3>1. m \in 1..c /\ c \in Nat \ {0}
        BY <1>1
      <3>2. Try(q, m, c) \in 0..(c - 1)
        BY <3>1, Tries
      <3> QED BY <1>2, <2>2, <3>2
    <2> QED BY <2>1, <2>2, <2>3 DEF Reached
  <1>7. LiveSlots(u, c) = LiveSlots(t, c) /\ TombSlots(u, c) = TombSlots(t, c)
    BY <1>2 DEF LiveSlots, TombSlots
  <1> QED BY <1>2, <1>4, <1>5, <1>6, <1>7 DEF HashTable, Findable, Counted

(* The slot of a key that is in the table. *)
LEMMA FoundIs ==
  ASSUME NEW t, NEW c, NEW head, NEW tail, NEW list, HashTable(t, c, head, tail, list),
         NEW k \in Keys, NEW f, f = Lookup(t, k)
  PROVE  /\ f # None => \E p \in 1..Len(list) : list[p] = f /\ t[f].key = k /\ f \in 0..(c - 1)
         /\ f = None => \A j \in 0..(c - 1) : t[j].key # k
  <1>0. IsTable(t, c) /\ IsList(t, c, head, tail, list) /\ Findable(t, c) /\ KeysDiffer(t, c)
        /\ None \notin Nat
    BY ObjectMapAssumption DEF HashTable
  <1>1. ASSUME f # None
        PROVE  \E p \in 1..Len(list) : list[p] = f /\ t[f].key = k /\ f \in 0..(c - 1)
    <2>1. f \in 0..(c - 1) /\ t[f].key = k
      BY <1>0, <1>1, LookupFinds
    <2> QED BY <1>0, <2>1 DEF IsList
  <1>2. ASSUME NEW j \in 0..(c - 1), t[j].key = k
        PROVE  f # None
    <2>1. Lookup(t, k) = j
      BY <1>0, <1>2, LookupReaches DEF Findable
    <2> QED BY <1>0, <2>1
  <1> QED BY <1>1, <1>2

(* The fields in list order. *)
Entry(s) == [key |-> s.key, value |-> s.value, static |-> s.static]
Entries == [n \in 1..Len(Fifo) |-> Entry(slots[Fifo[n]])]

(* The two ways a call that keeps the list can leave it; with the same     *)
(* capacity the slots themselves are kept.                                 *)
Kept == slot_cap' = slot_cap =>
          /\ Len(Fifo) <= Len(Fifo')
          /\ \A n \in 1..Len(Fifo) : Fifo'[n] = Fifo[n]
                                     /\ slots'[Fifo[n]].key = slots[Fifo[n]].key

LEMMA UpdateStep ==
  ASSUME ObjectInv, NEW k \in Keys, NEW v \in Values, NEW s \in BOOLEAN,
         RawSetUpdate(k, v, s)
  PROVE  /\ ObjectInv' /\ Kept /\ Len(Fifo') = Len(Fifo)
         /\ \E p \in 1..Len(Fifo) :
              /\ slots[Fifo[p]].key = k
              /\ answer' = ~ slots[Fifo[p]].static
              /\ \A n \in 1..Len(Fifo) :
                   Entry(slots'[Fifo'[n]]) =
                     IF n = p /\ ~ slots[Fifo[p]].static
                     THEN [key |-> k, value |-> v, static |-> s] ELSE Entry(slots[Fifo[n]])
  <1>1. PICK new : new = Table
    OBVIOUS
  <1>2. PICK t, f : t = new.slots /\ f = Lookup(t, k)
    OBVIOUS
  <1>3. /\ f # None /\ slot_cap' = NewSize
        /\ slots' = (IF t[f].static THEN t ELSE [t EXCEPT ![f].value = v, ![f].static = s])
        /\ answer' = ~ t[f].static
        /\ fifo_head' = new.head /\ fifo_tail' = new.tail
        /\ tombstone_count' = TombstonesLeft /\ field_count' = field_count
    BY <1>1, <1>2 DEF RawSetUpdate, Grow, NewSize
  <1>4. /\ NewSize \in Nat /\ TombstonesLeft \in Nat
        /\ NewSize = slot_cap => TombstonesLeft = tombstone_count /\ t = slots
                                 /\ new.head = fifo_head /\ new.tail = fifo_tail
        /\ (field_count + 1 + TombstonesLeft) * 4 <= NewSize * 3
        /\ \E list : /\ HashTable(t, NewSize, new.head, new.tail, list)
                     /\ Counted(t, NewSize, list, TombstonesLeft)
                     /\ Copied(slots, Fifo, t, list)
                     /\ Len(list) = Len(Fifo)
                     /\ NewSize = slot_cap => list = Fifo
    BY <1>1, <1>2, TableIs
  <1>5. PICK list : /\ HashTable(t, NewSize, new.head, new.tail, list)
                    /\ Counted(t, NewSize, list, TombstonesLeft)
                    /\ Copied(slots, Fifo, t, list)
                    /\ Len(list) = Len(Fifo)
                    /\ NewSize = slot_cap => list = Fifo
    BY <1>4
  <1>6. PICK p \in 1..Len(list) : list[p] = f /\ t[f].key = k /\ f \in 0..(NewSize - 1)
    BY <1>2, <1>3, <1>5, FoundIs
  <1>7. PICK c \in Nat : c = NewSize
    BY <1>4
  <1>8. IsTable(t, c) /\ IsList(t, c, new.head, new.tail, list)
    BY <1>5, <1>7 DEF HashTable
  <1>9. t \in [0..(c - 1) -> Slot(c)] /\ f \in 0..(c - 1)
    BY <1>6, <1>7, <1>8 DEF IsTable
  <1>10. PICK u : u = slots'
    OBVIOUS
  <1>11. /\ u \in [0..(c - 1) -> Slot(c)]
         /\ \A j \in 0..(c - 1) : j # f => u[j] = t[j]
         /\ u[f].key = t[f].key /\ u[f].prev = t[f].prev /\ u[f].next = t[f].next
         /\ t[f].static => u[f] = t[f]
         /\ ~ t[f].static => u[f].value = v /\ u[f].static = s
    <2>1. CASE t[f].static
      BY <1>3, <1>9, <1>10, <2>1
    <2>2. CASE ~ t[f].static
      <3>1. PICK r \in Slot(c) : r = t[f]
        BY <1>9
      <3>2. PICK w : w = [r EXCEPT !.value = v, !.static = s]
        OBVIOUS
      <3>3. /\ w \in Slot(c) /\ w.key = r.key /\ w.prev = r.prev /\ w.next = r.next
            /\ w.value = v /\ w.static = s
        BY <3>2 DEF Slot
      <3>4. u = [t EXCEPT ![f] = w]
        BY <1>3, <1>9, <1>10, <2>2, <3>1, <3>2
      <3>5. u \in [0..(c - 1) -> Slot(c)] /\ u[f] = w
            /\ \A j \in 0..(c - 1) : j # f => u[j] = t[j]
        BY <1>9, <3>3, <3>4
      <3> QED BY <2>2, <3>1, <3>3, <3>5
    <2> QED BY <2>1, <2>2
  <1>12. SameKeys(t, u, c)
    BY <1>11 DEF SameKeys, IsTable
  <1>13. HashTable(u, c, new.head, new.tail, list) /\ Counted(u, c, list, TombstonesLeft)
    BY <1>5, <1>7, <1>12, SameKeysTable
  <1>14. field_count = Len(Fifo) /\ field_count \in Nat
    BY InvTypes
  <1>15. Fifo' = list /\ ObjectInv'
    <2>1. (field_count' + tombstone_count') * 4 <= slot_cap' * 3
      BY <1>3, <1>4, <1>14
    <2> QED BY <1>3, <1>5, <1>7, <1>10, <1>13, <1>14, <2>1, InvFromNext
  <1>16. \A n \in 1..Len(list) : /\ list[n] \in 0..(c - 1)
                                 /\ n # p => list[n] # f
    BY <1>6, <1>8, ListTypes DEF IsList
  <1>17. ASSUME NEW n \in 1..Len(list)
         PROVE  /\ t[list[n]].key = slots[Fifo[n]].key
                /\ t[list[n]].value = slots[Fifo[n]].value
                /\ t[list[n]].static = slots[Fifo[n]].static
    BY <1>5 DEF Copied
  <1>18. slots[Fifo[p]].key = k /\ t[f].static = slots[Fifo[p]].static
    BY <1>6, <1>17
  <1>19. ASSUME NEW n \in 1..Len(list)
         PROVE  Entry(u[list[n]]) =
                     IF n = p /\ ~ slots[Fifo[p]].static
                     THEN [key |-> k, value |-> v, static |-> s] ELSE Entry(slots[Fifo[n]])
    <2>1. CASE n # p
      BY <1>11, <1>16, <1>17, <2>1 DEF Entry
    <2>2. CASE n = p /\ t[f].static
      BY <1>6, <1>11, <1>17, <1>18, <2>2 DEF Entry
    <2>3. CASE n = p /\ ~ t[f].static
      BY <1>6, <1>11, <1>18, <2>3 DEF Entry
    <2> QED BY <2>1, <2>2, <2>3
  <1>20. Kept
    <2>1. ASSUME slot_cap' = slot_cap
          PROVE  list = Fifo /\ t = slots /\ \A n \in 1..Len(list) : u[list[n]].key = t[list[n]].key
      BY <1>3, <1>4, <1>5, <1>12, <1>16, <2>1 DEF SameKeys
    <2> QED BY <1>10, <1>14, <1>15, <2>1 DEF Kept
  <1> QED BY <1>3, <1>5, <1>6, <1>10, <1>15, <1>18, <1>19, <1>20

LEMMA InsertStep ==
  ASSUME ObjectInv, NEW k \in Keys, NEW v \in Values, NEW s \in BOOLEAN,
         RawSetInsert(k, v, s)
  PROVE  /\ ObjectInv' /\ Kept /\ Len(Fifo') = Len(Fifo) + 1
         /\ \A n \in 1..Len(Fifo) : slots[Fifo[n]].key # k
         /\ \A n \in 1..Len(Fifo) : Entry(slots'[Fifo'[n]]) = Entry(slots[Fifo[n]])
         /\ Entry(slots'[Fifo'[Len(Fifo) + 1]]) = [key |-> k, value |-> v, static |-> s]
         /\ answer' = TRUE
  <1>1. PICK new : new = Table
    OBVIOUS
  <1>2. PICK t, i : t = new.slots /\ i = InsertSlot(t, k)
    OBVIOUS
  <1>3. PICK f : f = [key |-> k, value |-> v, static |-> s]
    OBVIOUS
  <1>4. PICK put : put = Enter(new, i, f)
    OBVIOUS
  <1>5. /\ Lookup(t, k) = None /\ slot_cap' = NewSize
        /\ slots' = put.slots /\ fifo_head' = put.head /\ fifo_tail' = put.tail
        /\ tombstone_count' = (IF t[i].key = Tombstone THEN TombstonesLeft - 1
                               ELSE TombstonesLeft)
        /\ field_count' = field_count + 1 /\ answer' = TRUE
    BY <1>1, <1>2, <1>3, <1>4 DEF RawSetInsert, Grow, NewSize
  <1>6. /\ NewSize \in Nat /\ TombstonesLeft \in Nat
        /\ NewSize = slot_cap => TombstonesLeft = tombstone_count /\ t = slots
                                 /\ new.head = fifo_head /\ new.tail = fifo_tail
        /\ (field_count + 1 + TombstonesLeft) * 4 <= NewSize * 3
        /\ \E list : /\ HashTable(t, NewSize, new.head, new.tail, list)
                     /\ Counted(t, NewSize, list, TombstonesLeft)
                     /\ Copied(slots, Fifo, t, list)
                     /\ Len(list) = Len(Fifo)
                     /\ NewSize = slot_cap => list = Fifo
    BY <1>1, <1>2, TableIs
  <1>7. PICK list : /\ HashTable(t, NewSize, new.head, new.tail, list)
                    /\ Counted(t, NewSize, list, TombstonesLeft)
                    /\ Copied(slots, Fifo, t, list)
                    /\ Len(list) = Len(Fifo)
                    /\ NewSize = slot_cap => list = Fifo
    BY <1>6
  <1>8. PICK c \in Nat : c = NewSize
    BY <1>6
  <1>9. /\ IsTable(t, c) /\ IsList(t, c, new.head, new.tail, list)
        /\ HashTable(t, c, new.head, new.tail, list)
    BY <1>7, <1>8 DEF HashTable
  <1>10. field_count = Len(Fifo) /\ field_count \in Nat
    BY InvTypes
  <1>11. \A j \in 0..(c - 1) : t[j].key # k
    BY <1>5, <1>9, FoundIs
  <1>12. HasEmpty(t, c)
    <2>1. Len(list) + TombstonesLeft < c
      BY <1>6, <1>7, <1>8, <1>10
    <2> QED BY <1>7, <1>8, <1>9, <2>1, RoomLeft
  <1>13. f.key = k /\ f.value = v /\ f.static = s
    BY <1>3
  <1>14. put = Enter([slots |-> t, head |-> new.head, tail |-> new.tail], i, f)
    BY <1>2, <1>4 DEF Enter
  <1>15. /\ i \in 0..(c - 1) /\ t[i].key \in {Empty, Tombstone}
         /\ HashTable(put.slots, c, put.head, put.tail, Append(list, i))
         /\ Counted(put.slots, c, Append(list, i),
                    IF t[i].key = Tombstone THEN TombstonesLeft - 1 ELSE TombstonesLeft)
         /\ put.slots[i].value = f.value /\ put.slots[i].static = f.static
         /\ Entered(t, put.slots, c, new.tail, i, f.key)
    <2>1. f.key \in Keys /\ f.value \in Values \cup {NoValue} /\ f.static \in BOOLEAN
      BY <1>13
    <2>2. \A j \in 0..(c - 1) : t[j].key # f.key
      BY <1>11, <1>13
    <2>3. i = InsertSlot(t, f.key) /\ Counted(t, c, list, TombstonesLeft)
      BY <1>2, <1>7, <1>8, <1>13
    <2> QED BY <1>9, <1>12, <1>14, <2>1, <2>2, <2>3, Insertion
  <1>16. PICK longer : longer = Append(list, i)
    OBVIOUS
  <1>17. /\ Len(list) \in Nat /\ list \in Seq(0..(c - 1))
         /\ \A n \in 1..Len(list) : list[n] \in 0..(c - 1)
    BY <1>9, ListTypes
  <1>18. Len(longer) = Len(list) + 1 /\ longer[Len(list) + 1] = i
         /\ \A n \in 1..Len(list) : longer[n] = list[n]
    BY <1>15, <1>16, <1>17
  <1>19. Fifo' = longer /\ ObjectInv'
    <2>1. (field_count' + tombstone_count') * 4 <= slot_cap' * 3
      BY <1>5, <1>6, <1>10
    <2>2. field_count' = Len(longer)
      BY <1>5, <1>7, <1>10, <1>18
    <2>3. HashTable(slots', slot_cap', fifo_head', fifo_tail', longer)
      BY <1>5, <1>8, <1>15, <1>16
    <2>4. Counted(slots', slot_cap', longer, tombstone_count')
      BY <1>5, <1>8, <1>15, <1>16
    <2> QED BY <2>1, <2>2, <2>3, <2>4, InvFromNext
  <1>20. PICK u : u = slots'
    OBVIOUS
  <1>21. Entered(t, u, c, new.tail, i, k) /\ u[i].value = v /\ u[i].static = s
    BY <1>5, <1>13, <1>15, <1>20
  <1>22. \A n \in 1..Len(list) : t[list[n]].key \in Keys
    BY <1>9 DEF IsList
  <1>23. \A n \in 1..Len(list) : list[n] # i
    BY <1>15, <1>22, ObjectMapAssumption
  <1>24. ASSUME NEW n \in 1..Len(list)
         PROVE  /\ t[list[n]].key = slots[Fifo[n]].key
                /\ t[list[n]].value = slots[Fifo[n]].value
                /\ t[list[n]].static = slots[Fifo[n]].static
    BY <1>7 DEF Copied
  <1>25. ASSUME NEW n \in 1..Len(list)
         PROVE  /\ u[list[n]].key = t[list[n]].key
                /\ u[list[n]].value = t[list[n]].value
                /\ u[list[n]].static = t[list[n]].static
    BY <1>17, <1>21, <1>23 DEF Entered
  <1>26. \A n \in 1..Len(list) : Entry(u[longer[n]]) = Entry(slots[Fifo[n]])
    BY <1>18, <1>24, <1>25 DEF Entry
  <1>27. Entry(u[i]) = [key |-> k, value |-> v, static |-> s]
    BY <1>21 DEF Entry, Entered
  <1>28. \A n \in 1..Len(list) : slots[Fifo[n]].key # k
    BY <1>11, <1>17, <1>24
  <1>29. Kept
    <2>1. ASSUME slot_cap' = slot_cap
          PROVE  list = Fifo /\ t = slots
      BY <1>5, <1>6, <1>7, <2>1
    <2>2. Len(Fifo) <= Len(longer)
      BY <1>7, <1>17, <1>18
    <2> QED BY <1>7, <1>18, <1>19, <1>20, <1>24, <1>25, <2>1, <2>2 DEF Kept
  <1> QED BY <1>5, <1>7, <1>18, <1>19, <1>20, <1>26, <1>27, <1>28, <1>29

-----------------------------------------------------------------------------
(* A field taken out of the list.                                          *)

(* u is table t with slot i, which was between p and n, a tombstone.       *)
Unlinked(t, u, c, i, p, n) ==
  /\ IsTable(u, c) /\ u[i].key = Tombstone
  /\ \A j \in 0..(c - 1) :
       /\ j # i => u[j].key = t[j].key /\ u[j].value = t[j].value
                   /\ u[j].static = t[j].static
       /\ j # i /\ j # p => u[j].next = t[j].next
       /\ j # i /\ j # n => u[j].prev = t[j].prev
       /\ j # i /\ j = p => u[j].next = n
       /\ j # i /\ j = n => u[j].prev = p

(* u is table t with one link of slot p, or of slot n, changed.            *)
Forward(t, u, c, p, n) ==
  /\ u \in [0..(c - 1) -> Slot(c)]
  /\ \A j \in 0..(c - 1) :
       /\ u[j].key = t[j].key /\ u[j].value = t[j].value
       /\ u[j].static = t[j].static /\ u[j].prev = t[j].prev
       /\ u[j].next = IF j = p THEN n ELSE t[j].next

Backward(t, u, c, p, n) ==
  /\ u \in [0..(c - 1) -> Slot(c)]
  /\ \A j \in 0..(c - 1) :
       /\ u[j].key = t[j].key /\ u[j].value = t[j].value
       /\ u[j].static = t[j].static /\ u[j].next = t[j].next
       /\ u[j].prev = IF j = n THEN p ELSE t[j].prev

LEMMA Relinked ==
  ASSUME NEW c, NEW t \in [0..(c - 1) -> Slot(c)], NEW p \in 0..(c - 1), NEW n \in Link(c)
  PROVE  Forward(t, [t EXCEPT ![p].next = n], c, p, n)
  <1>1. PICK u : u = [t EXCEPT ![p].next = n]
    OBVIOUS
  <1>2. PICK r \in Slot(c) : r = t[p]
    OBVIOUS
  <1>3. PICK w : w = [r EXCEPT !.next = n]
    OBVIOUS
  <1>4. /\ w \in Slot(c) /\ w.key = r.key /\ w.prev = r.prev /\ w.value = r.value
        /\ w.static = r.static /\ w.next = n
    BY <1>3 DEF Slot
  <1>5. u = [t EXCEPT ![p] = w]
    BY <1>1, <1>2, <1>3
  <1>6. u \in [0..(c - 1) -> Slot(c)] /\ u[p] = w
        /\ \A j \in 0..(c - 1) : j # p => u[j] = t[j]
    BY <1>1, <1>4, <1>5
  <1>7. Forward(t, u, c, p, n)
    BY <1>2, <1>4, <1>6 DEF Forward
  <1> QED BY <1>1, <1>7

LEMMA RelinkedBack ==
  ASSUME NEW c, NEW t \in [0..(c - 1) -> Slot(c)], NEW p \in Link(c), NEW n \in 0..(c - 1)
  PROVE  Backward(t, [t EXCEPT ![n].prev = p], c, p, n)
  <1>1. PICK u : u = [t EXCEPT ![n].prev = p]
    OBVIOUS
  <1>2. PICK r \in Slot(c) : r = t[n]
    OBVIOUS
  <1>3. PICK w : w = [r EXCEPT !.prev = p]
    OBVIOUS
  <1>4. /\ w \in Slot(c) /\ w.key = r.key /\ w.prev = p /\ w.value = r.value
        /\ w.static = r.static /\ w.next = r.next
    BY <1>3 DEF Slot
  <1>5. u = [t EXCEPT ![n] = w]
    BY <1>1, <1>2, <1>3
  <1>6. u \in [0..(c - 1) -> Slot(c)] /\ u[n] = w
        /\ \A j \in 0..(c - 1) : j # n => u[j] = t[j]
    BY <1>1, <1>4, <1>5
  <1>7. Backward(t, u, c, p, n)
    BY <1>2, <1>4, <1>6 DEF Backward
  <1> QED BY <1>1, <1>7

LEMMA UnlinkIs ==
  ASSUME NEW c, IsTable(slots, c), NEW i \in 0..(c - 1)
  PROVE  Unlinked(slots, Unlink(i), c, i, slots[i].prev, slots[i].next)
  <1>1. PICK p, n : p = slots[i].prev /\ n = slots[i].next
    OBVIOUS
  <1>2. c \in Nat /\ slots \in [0..(c - 1) -> Slot(c)] /\ None \notin Nat
    BY ObjectMapAssumption DEF IsTable
  <1>3. p \in Link(c) /\ n \in Link(c)
    BY <1>1, <1>2 DEF Slot
  <1>4. PICK left : left = IF p = None THEN slots ELSE [slots EXCEPT ![p].next = n]
    OBVIOUS
  <1>5. Forward(slots, left, c, p, n)
    <2>1. CASE p = None
      <3>1. left = slots /\ \A j \in 0..(c - 1) : j # p
        BY <1>2, <1>4, <2>1
      <3> QED BY <1>2, <3>1 DEF Forward
    <2>2. CASE p # None
      <3>1. p \in 0..(c - 1)
        BY <1>3, <2>2 DEF Link
      <3>2. Forward(slots, [slots EXCEPT ![p].next = n], c, p, n)
        BY <1>2, <1>3, <3>1, Relinked
      <3> QED BY <1>4, <2>2, <3>2
    <2> QED BY <2>1, <2>2
  <1>6. PICK right : right = IF n = None THEN left ELSE [left EXCEPT ![n].prev = p]
    OBVIOUS
  <1>7. Backward(left, right, c, p, n)
    <2>1. CASE n = None
      <3>1. right = left /\ \A j \in 0..(c - 1) : j # n
        BY <1>2, <1>6, <2>1
      <3> QED BY <1>5, <3>1 DEF Forward, Backward
    <2>2. CASE n # None
      <3>1. n \in 0..(c - 1)
        BY <1>3, <2>2 DEF Link
      <3>2. left \in [0..(c - 1) -> Slot(c)]
        BY <1>5 DEF Forward
      <3>3. Backward(left, [left EXCEPT ![n].prev = p], c, p, n)
        BY <1>3, <3>1, <3>2, RelinkedBack
      <3> QED BY <1>6, <2>2, <3>3
    <2> QED BY <2>1, <2>2
  <1>8. PICK dead : dead = [EmptySlot EXCEPT !.key = Tombstone]
    OBVIOUS
  <1>9. dead \in Slot(c) /\ dead.key = Tombstone
    BY <1>8 DEF EmptySlot, Slot, Link
  <1>10. PICK u : u = Unlink(i)
    OBVIOUS
  <1>11. u = [right EXCEPT ![i] = dead]
    BY <1>1, <1>4, <1>6, <1>8, <1>10 DEF Unlink
  <1>12. u \in [0..(c - 1) -> Slot(c)] /\ u[i] = dead
         /\ \A j \in 0..(c - 1) : j # i => u[j] = right[j]
    BY <1>7, <1>9, <1>11 DEF Backward
  <1>13. ASSUME NEW j \in 0..(c - 1), j # i
         PROVE  /\ u[j].key = slots[j].key /\ u[j].value = slots[j].value
                /\ u[j].static = slots[j].static
                /\ u[j].next = IF j = p THEN n ELSE slots[j].next
                /\ u[j].prev = IF j = n THEN p ELSE slots[j].prev
    BY <1>5, <1>7, <1>12, <1>13 DEF Forward, Backward
  <1>14. Unlinked(slots, u, c, i, p, n)
    BY <1>2, <1>9, <1>12, <1>13 DEF Unlinked, IsTable
  <1> QED BY <1>1, <1>10, <1>14

(* list without its q-th entry. *)
Without(list, q) ==
  [m \in 1..(Len(list) - 1) |-> IF m < q THEN list[m] ELSE list[m + 1]]

LEMMA WithoutIs ==
  ASSUME NEW S, NEW list \in Seq(S), NEW q \in 1..Len(list)
  PROVE  /\ Without(list, q) \in Seq(S) /\ Len(Without(list, q)) = Len(list) - 1
         /\ \A m \in 1..(Len(list) - 1) :
              /\ m < q => Without(list, q)[m] = list[m]
              /\ m >= q => Without(list, q)[m] = list[m + 1]
         /\ Without(list, q) = RemoveAt(list, q)
  <1>1. PICK last \in Nat : last = Len(list)
    OBVIOUS
  <1>2. q \in 1..last /\ last - 1 \in Nat
    BY <1>1
  <1>3. \A m \in 1..(last - 1) : m \in 1..last /\ m + 1 \in 1..last
    BY <1>1
  <1>4. Without(list, q) \in [1..(last - 1) -> S]
    BY <1>1, <1>3 DEF Without
  <1>5. Without(list, q) \in Seq(S) /\ Len(Without(list, q)) = last - 1
    BY <1>2, <1>4
  <1>6. \A m \in 1..(last - 1) :
              /\ m < q => Without(list, q)[m] = list[m]
              /\ m >= q => Without(list, q)[m] = list[m + 1]
    BY <1>1, <1>2 DEF Without
  <1>7. Without(list, q) = RemoveAt(list, q)
    <2>1. PICK front, back : front = SubSeq(list, 1, q - 1) /\ back = SubSeq(list, q + 1, last)
      OBVIOUS
    <2>2. /\ front \in Seq(S) /\ Len(front) = q - 1
          /\ \A m \in 1..(q - 1) : front[m] = list[m]
      BY <1>1, <1>2, <2>1
    <2>3. /\ back \in Seq(S) /\ Len(back) = last - q
          /\ \A m \in 1..(last - q) : back[m] = list[m + q]
      BY <1>1, <1>2, <2>1
    <2>4. PICK both : both = front \o back
      OBVIOUS
    <2>5. both \in Seq(S) /\ Len(both) = last - 1
      <3>1. both \in Seq(S) /\ Len(both) = Len(front) + Len(back)
        <4>1. front \in Seq(S) /\ back \in Seq(S)
          BY <2>2, <2>3
        <4> QED BY <2>4, <4>1
      <3>2. PICK a, b : a = Len(front) /\ b = Len(back)
        OBVIOUS
      <3>3. a = q - 1 /\ b = last - q
        BY <2>2, <2>3, <3>2
      <3> QED BY <1>2, <3>1, <3>2, <3>3
    <2>6. ASSUME NEW m \in 1..(last - 1)
          PROVE  both[m] = Without(list, q)[m]
      <3>1. CASE m < q
        <4>1. m \in 1..Len(front)
          BY <1>2, <2>2, <3>1
        <4>2. both[m] = front[m]
          BY <2>2, <2>3, <2>4, <4>1
        <4> QED BY <1>6, <2>2, <3>1, <4>1, <4>2
      <3>2. CASE m >= q
        <4>1. PICK d \in 1..(last - q) : d = m - (q - 1) /\ d + q = m + 1
          BY <1>2, <3>2
        <4>2. both[m] = back[d]
          BY <1>2, <2>2, <2>3, <2>4, <3>2, <4>1
        <4>3. back[d] = list[m + 1]
          BY <2>3, <4>1
        <4> QED BY <1>6, <3>2, <4>2, <4>3
      <3> QED BY <1>2, <3>1, <3>2
    <2>7. both = Without(list, q)
      BY <1>5, <2>5, <2>6
    <2> QED BY <1>1, <2>1, <2>4, <2>7 DEF RemoveAt
  <1> QED BY <1>1, <1>5, <1>6, <1>7

(* The entry of list that the m-th entry of Without(list, q) is. *)
Past(m, q) == IF m < q THEN m ELSE m + 1

(* The new ends of a list without slot i. *)
NewEnds(t, i, head, tail, head2, tail2) ==
  /\ head2 = IF t[i].prev = None THEN t[i].next ELSE head
  /\ tail2 = IF t[i].next = None THEN t[i].prev ELSE tail

LEMMA UnlinkedList ==
  ASSUME NEW t, NEW u, NEW c, NEW head, NEW tail, NEW list, IsTable(t, c),
         IsList(t, c, head, tail, list), NEW q \in 1..Len(list),
         Unlinked(t, u, c, list[q], t[list[q]].prev, t[list[q]].next),
         NEW head2, NEW tail2, NewEnds(t, list[q], head, tail, head2, tail2)
  PROVE  IsList(u, c, head2, tail2, Without(list, q))
  <1>a. PICK i : i = list[q]
    OBVIOUS
  <1>b. PICK p, n : p = t[i].prev /\ n = t[i].next
    OBVIOUS
  <1>c. /\ Unlinked(t, u, c, i, p, n)
        /\ head2 = (IF p = None THEN n ELSE head) /\ tail2 = (IF n = None THEN p ELSE tail)
    BY <1>a, <1>b DEF NewEnds
  <1>0. /\ Len(list) \in Nat /\ c \in Nat /\ list \in Seq(0..(c - 1))
        /\ \A m \in 1..Len(list) : list[m] \in 0..(c - 1) /\ list[m] # None
    BY ListTypes
  <1>1. PICK last \in Nat : last = Len(list)
    BY <1>0
  <1>2. PICK short : short = Without(list, q)
    OBVIOUS
  <1>3. q \in 1..last /\ last - 1 \in Nat
    BY <1>1
  <1>4. /\ short \in Seq(0..(c - 1)) /\ Len(short) = last - 1
        /\ \A m \in 1..(last - 1) : /\ m < q => short[m] = list[m]
                                    /\ m >= q => short[m] = list[m + 1]
    BY <1>0, <1>1, <1>2, WithoutIs
  <1>5. \A m \in 1..(last - 1) : /\ Past(m, q) \in 1..last /\ Past(m, q) # q
                                 /\ short[m] = list[Past(m, q)]
    BY <1>3, <1>4 DEF Past
  <1>6. \A a, b \in 1..last : list[a] = list[b] => a = b
    BY <1>1 DEF IsList
  <1>7. i \in 0..(c - 1) /\ \A m \in 1..last : m # q => list[m] # i
    BY <1>a, <1>0, <1>1, <1>3, <1>6
  <1>8. /\ p = (IF q = 1 THEN None ELSE list[q - 1])
        /\ n = (IF q = last THEN None ELSE list[q + 1])
    BY <1>a, <1>b, <1>1 DEF IsList
  <1>9. \A m \in 1..last : t[list[m]].key \in Keys
    BY <1>1 DEF IsList
  <1>10. ASSUME NEW m \in 1..(last - 1)
         PROVE  u[short[m]].key \in Keys
    <2>1. PICK s \in 1..last : s # q /\ short[m] = list[s]
      BY <1>5
    <2>2. u[list[s]].key = t[list[s]].key
      BY <1>c, <1>0, <1>1, <1>7, <2>1 DEF Unlinked
    <2> QED BY <1>9, <2>1, <2>2
  <1>11. ASSUME NEW j \in 0..(c - 1), u[j].key \in Keys
         PROVE  \E m \in 1..(last - 1) : short[m] = j
    <2>1. j # i /\ t[j].key \in Keys
      BY <1>c, <1>11, ObjectMapAssumption DEF Unlinked
    <2>2. PICK s \in 1..last : list[s] = j
      BY <1>1, <2>1 DEF IsList
    <2>3. s # q
      BY <1>a, <2>1, <2>2
    <2>4. CASE s < q
      <3>1. s \in 1..(last - 1)
        BY <1>3, <2>4
      <3> QED BY <1>4, <2>2, <2>4, <3>1
    <2>5. CASE s > q
      <3>1. PICK m \in 1..(last - 1) : m = s - 1 /\ m >= q /\ m + 1 = s
        BY <1>3, <2>5
      <3> QED BY <1>4, <2>2, <3>1
    <2> QED BY <1>3, <2>3, <2>4, <2>5
  <1>12. ASSUME NEW a \in 1..(last - 1), NEW b \in 1..(last - 1), short[a] = short[b]
         PROVE  a = b
    <2>1. Past(a, q) = Past(b, q)
      BY <1>5, <1>6, <1>12
    <2> QED BY <1>3, <2>1 DEF Past
  <1>13. short = <<>> <=> last = 1
    BY <1>3, <1>4
  <1>14. None \notin Nat
    BY ObjectMapAssumption
  <1>15. (p = None <=> q = 1) /\ (n = None <=> q = last)
    <2>1. q # 1 => q - 1 \in 1..last
      BY <1>3
    <2>2. q # last => q + 1 \in 1..last
      BY <1>3
    <2> QED BY <1>0, <1>1, <1>8, <2>1, <2>2
  <1>16. /\ head = list[1] /\ tail = list[last]
    <2>1. list # <<>>
      BY <1>1, <1>3
    <2> QED BY <1>1, <2>1 DEF IsList
  <1>17. head2 = IF short = <<>> THEN None ELSE short[1]
    <2>1. CASE q = 1
      <3>1. last # 1 => short[1] = list[1 + 1]
        BY <1>3, <1>4, <2>1
      <3> QED BY <1>c, <1>8, <1>13, <1>15, <2>1, <3>1
    <2>2. CASE q # 1
      <3>1. last # 1 /\ 1 \in 1..(last - 1) /\ 1 < q
        BY <1>3, <2>2
      <3> QED BY <1>c, <1>4, <1>13, <1>15, <1>16, <2>2, <3>1
    <2> QED BY <2>1, <2>2
  <1>18. tail2 = IF short = <<>> THEN None ELSE short[Len(short)]
    <2>1. CASE last = 1
      <3>1. q = 1 /\ q = last
        BY <1>3, <2>1
      <3> QED BY <1>c, <1>8, <1>13, <1>15, <2>1, <3>1
    <2>2. CASE last # 1
      <3>1. PICK m \in 1..(last - 1) : m = last - 1 /\ m + 1 = last
        BY <1>3, <2>2
      <3>2. CASE q = last
        <4>1. m < q /\ m = q - 1 /\ q # 1
          BY <1>3, <2>2, <3>1, <3>2
        <4> QED BY <1>c, <1>4, <1>8, <1>13, <1>15, <2>2, <3>1, <3>2, <4>1
      <3>3. CASE q # last
        <4>1. m >= q
          BY <1>3, <3>1, <3>3
        <4> QED BY <1>c, <1>4, <1>13, <1>15, <1>16, <2>2, <3>1, <3>3, <4>1
      <3> QED BY <3>2, <3>3
    <2> QED BY <2>1, <2>2
  <1>19. ASSUME NEW m \in 1..(last - 1)
         PROVE  /\ u[short[m]].prev = IF m = 1 THEN None ELSE short[m - 1]
                /\ u[short[m]].next = IF m = last - 1 THEN None ELSE short[m + 1]
    <2>1. PICK s \in 1..last : s = Past(m, q) /\ s # q /\ short[m] = list[s]
      BY <1>5
    <2>2. PICK j \in 0..(c - 1) : j = list[s] /\ j # i
      BY <1>0, <1>1, <1>7, <2>1
    <2>3. /\ t[j].prev = (IF s = 1 THEN None ELSE list[s - 1])
          /\ t[j].next = (IF s = last THEN None ELSE list[s + 1])
      BY <1>1, <2>2 DEF IsList
    <2>4. u[j].prev = IF m = 1 THEN None ELSE short[m - 1]
      <3>1. CASE s = q + 1
        <4>1. m = q /\ n = j
          BY <1>3, <1>8, <2>1, <2>2, <3>1 DEF Past
        <4>2. u[j].prev = p
          BY <1>c, <2>2, <4>1 DEF Unlinked
        <4>3. m # 1 => \E l \in 1..(last - 1) : l = m - 1 /\ l < q
          BY <1>3, <4>1
        <4> QED BY <1>4, <1>8, <4>1, <4>2, <4>3
      <3>2. CASE s # q + 1
        <4>1. n # j
          <5>1. q # last => q + 1 \in 1..last
            BY <1>3
          <5> QED BY <1>0, <1>1, <1>6, <1>8, <1>15, <2>2, <3>2, <5>1
        <4>2. u[j].prev = t[j].prev
          BY <1>c, <2>2, <4>1 DEF Unlinked
        <4>3. CASE m < q
          <5>1. s = m
            BY <2>1, <4>3 DEF Past
          <5>2. m # 1 => \E l \in 1..(last - 1) : l = m - 1 /\ l < q
            BY <1>3, <4>3
          <5> QED BY <1>4, <2>3, <4>2, <5>1, <5>2
        <4>4. CASE m >= q
          <5>1. s = m + 1 /\ m > q
            BY <1>3, <2>1, <3>2, <4>4 DEF Past
          <5>2. m # 1 /\ s # 1 /\ \E l \in 1..(last - 1) : l = m - 1 /\ l >= q /\ l + 1 = s - 1
            BY <1>3, <5>1
          <5> QED BY <1>4, <2>3, <4>2, <5>2
        <4> QED BY <1>3, <4>3, <4>4
      <3> QED BY <3>1, <3>2
    <2>5. u[j].next = IF m = last - 1 THEN None ELSE short[m + 1]
      <3>1. CASE s = q - 1
        <4>1. m = q - 1 /\ p = j /\ q # 1
          BY <1>3, <1>8, <2>1, <2>2, <3>1 DEF Past
        <4>2. u[j].next = n
          BY <1>c, <2>2, <4>1 DEF Unlinked
        <4>3. m # last - 1 => \E l \in 1..(last - 1) : l = m + 1 /\ l >= q /\ l + 1 = q + 1
          BY <1>3, <4>1
        <4>4. m = last - 1 <=> q = last
          BY <1>3, <4>1
        <4> QED BY <1>4, <1>8, <4>2, <4>3, <4>4
      <3>2. CASE s # q - 1
        <4>1. p # j
          <5>1. q # 1 => q - 1 \in 1..last
            BY <1>3
          <5> QED BY <1>0, <1>1, <1>6, <1>8, <1>15, <2>2, <3>2, <5>1
        <4>2. u[j].next = t[j].next
          BY <1>c, <2>2, <4>1 DEF Unlinked
        <4>3. CASE m < q
          <5>1. s = m /\ m < q - 1
            BY <1>3, <2>1, <3>2, <4>3 DEF Past
          <5>2. m # last - 1 /\ s # last
                /\ \E l \in 1..(last - 1) : l = m + 1 /\ l < q
            BY <1>3, <5>1
          <5> QED BY <1>4, <2>3, <4>2, <5>1, <5>2
        <4>4. CASE m >= q
          <5>1. s = m + 1 /\ (m = last - 1 <=> s = last)
            BY <1>3, <2>1, <4>4 DEF Past
          <5>2. m # last - 1 => \E l \in 1..(last - 1) : l = m + 1 /\ l >= q /\ l + 1 = s + 1
            BY <1>3, <4>4, <5>1
          <5> QED BY <1>4, <2>3, <4>2, <5>1, <5>2
        <4> QED BY <1>3, <4>3, <4>4
      <3> QED BY <3>1, <3>2
    <2> QED BY <2>1, <2>2, <2>4, <2>5
  <1>20. IsList(u, c, head2, tail2, short)
    BY <1>4, <1>10, <1>11, <1>12, <1>17, <1>18, <1>19 DEF IsList
  <1> QED BY <1>2, <1>20

LEMMA UnlinkedTable ==
  ASSUME NEW t, NEW u, NEW c, NEW head, NEW tail, NEW list,
         HashTable(t, c, head, tail, list), NEW tombs, Counted(t, c, list, tombs),
         tombs \in Nat, NEW q \in 1..Len(list),
         Unlinked(t, u, c, list[q], t[list[q]].prev, t[list[q]].next),
         NEW head2, NEW tail2, NewEnds(t, list[q], head, tail, head2, tail2)
  PROVE  /\ HashTable(u, c, head2, tail2, Without(list, q))
         /\ Counted(u, c, Without(list, q), tombs + 1)
  <1>0. IsTable(t, c) /\ IsList(t, c, head, tail, list) /\ Findable(t, c) /\ KeysDiffer(t, c)
    BY DEF HashTable
  <1>1. /\ Len(list) \in Nat /\ c \in Nat /\ list \in Seq(0..(c - 1))
        /\ \A m \in 1..Len(list) : list[m] \in 0..(c - 1)
    BY <1>0, ListTypes
  <1>2. IsList(u, c, head2, tail2, Without(list, q))
    BY <1>0, UnlinkedList
  <1>a. PICK i : i = list[q]
    OBVIOUS
  <1>3. /\ IsTable(u, c) /\ u[i].key = Tombstone
        /\ \A j \in 0..(c - 1) : j # i => u[j].key = t[j].key
    BY <1>a DEF Unlinked
  <1>4. i \in 0..(c - 1) /\ t[i].key \in Keys
    BY <1>0, <1>1, <1>a DEF IsList
  <1>5. Tombstone \notin Keys /\ Tombstone # Empty /\ Empty \notin Keys
    BY ObjectMapAssumption
  <1>6. KeysDiffer(u, c)
    BY <1>0, <1>3, <1>5 DEF KeysDiffer
  <1>7. ASSUME NEW j \in 0..(c - 1), u[j].key \in Keys
        PROVE  Reached(u, c, j)
    <2>1. PICK k \in Keys : k = u[j].key /\ k = t[j].key
      BY <1>3, <1>5, <1>7
    <2>2. PICK a \in 1..c : /\ Try(k, a, c) = j
                            /\ \A m \in 1..(a - 1) : t[Try(k, m, c)].key \notin {k, Empty}
      BY <1>0, <2>1 DEF Findable, Reached
    <2>3. ASSUME NEW m \in 1..(a - 1)
          PROVE  u[Try(k, m, c)].key \notin {k, Empty}
      <3>1. m \in 1..c /\ c \in Nat \ {0}
        BY <1>1
      <3>2. Try(k, m, c) \in 0..(c - 1)
        BY <3>1, Tries
      <3> QED BY <1>3, <1>5, <2>2, <3>2
    <2> QED BY <2>1, <2>2, <2>3 DEF Reached
  <1>8. HashTable(u, c, head2, tail2, Without(list, q))
    BY <1>2, <1>3, <1>6, <1>7 DEF HashTable, Findable
  <1>9. IsFiniteSet(LiveSlots(t, c)) /\ IsFiniteSet(TombSlots(t, c))
    BY <1>0, SlotSets
  <1>10. LiveSlots(u, c) = LiveSlots(t, c) \ {i} /\ i \in LiveSlots(t, c)
    BY <1>3, <1>4, <1>5 DEF LiveSlots
  <1>11. TombSlots(u, c) = TombSlots(t, c) \cup {i} /\ i \notin TombSlots(t, c)
    BY <1>3, <1>4, <1>5 DEF TombSlots
  <1>12. Cardinality(LiveSlots(u, c)) = Cardinality(LiveSlots(t, c)) - 1
    BY <1>9, <1>10, FS_RemoveElement
  <1>13. Cardinality(TombSlots(u, c)) = Cardinality(TombSlots(t, c)) + 1
    BY <1>9, <1>11, FS_AddElement
  <1>14. Len(Without(list, q)) = Len(list) - 1
    BY <1>1, WithoutIs
  <1>15. Counted(u, c, Without(list, q), tombs + 1)
    BY <1>12, <1>13, <1>14 DEF Counted
  <1> QED BY <1>8, <1>15

(* The step of cdo_object_rawdelete that deletes. *)
Deleted(k) ==
  LET i == Lookup(slots, k)
  IN  /\ ~readonly /\ i # None /\ ~slots[i].static
      /\ slots' = Unlink(i)
      /\ fifo_head' = IF slots[i].prev = None THEN slots[i].next ELSE fifo_head
      /\ fifo_tail' = IF slots[i].next = None THEN slots[i].prev ELSE fifo_tail
      /\ field_count' = field_count - 1
      /\ tombstone_count' = tombstone_count + 1
      /\ answer' = TRUE
      /\ UNCHANGED <<slot_cap, readonly>>

LEMMA DeleteStep ==
  ASSUME ObjectInv, NEW k \in Keys, Deleted(k)
  PROVE  /\ ObjectInv' /\ field_count' < field_count
         /\ \E q \in 1..Len(Fifo) :
              /\ slots[Fifo[q]].key = k /\ ~ slots[Fifo[q]].static
              /\ Len(Fifo') = Len(Fifo) - 1
              /\ \A n \in 1..(Len(Fifo) - 1) :
                   Entry(slots'[Fifo'[n]]) = Entry(slots[Fifo[Past(n, q)]])
  <1>0. /\ slot_cap \in Nat /\ field_count \in Nat /\ tombstone_count \in Nat
        /\ IsTable(slots, slot_cap) /\ IsList(slots, slot_cap, fifo_head, fifo_tail, Fifo)
        /\ field_count = Len(Fifo) /\ (field_count + tombstone_count) * 4 <= slot_cap * 3
        /\ Counted(slots, slot_cap, Fifo, tombstone_count)
    BY InvTypes
  <1>1. HashTable(slots, slot_cap, fifo_head, fifo_tail, Fifo)
    BY DEF ObjectInv
  <1>2. PICK i : i = Lookup(slots, k)
    OBVIOUS
  <1>3. PICK p, n : p = slots[i].prev /\ n = slots[i].next
    OBVIOUS
  <1>4. /\ i # None /\ ~slots[i].static /\ slots' = Unlink(i)
        /\ fifo_head' = (IF p = None THEN n ELSE fifo_head)
        /\ fifo_tail' = (IF n = None THEN p ELSE fifo_tail)
        /\ field_count' = field_count - 1 /\ tombstone_count' = tombstone_count + 1
        /\ slot_cap' = slot_cap
    BY <1>2, <1>3 DEF Deleted
  <1>5. PICK q \in 1..Len(Fifo) : Fifo[q] = i /\ slots[i].key = k /\ i \in 0..(slot_cap - 1)
    BY <1>1, <1>2, <1>4, FoundIs
  <1>6. Unlinked(slots, slots', slot_cap, i, p, n)
    BY <1>0, <1>3, <1>4, <1>5, UnlinkIs
  <1>7. PICK short : short = Without(Fifo, q)
    OBVIOUS
  <1>8. /\ HashTable(slots', slot_cap', fifo_head', fifo_tail', short)
        /\ Counted(slots', slot_cap', short, tombstone_count')
    <2>1. /\ HashTable(slots', slot_cap, fifo_head', fifo_tail', Without(Fifo, q))
          /\ Counted(slots', slot_cap, Without(Fifo, q), tombstone_count + 1)
      <3>1. NewEnds(slots, Fifo[q], fifo_head, fifo_tail, fifo_head', fifo_tail')
        BY <1>3, <1>4, <1>5 DEF NewEnds
      <3>2. Unlinked(slots, slots', slot_cap, Fifo[q], slots[Fifo[q]].prev, slots[Fifo[q]].next)
        BY <1>3, <1>5, <1>6
      <3> QED BY <1>0, <1>1, <3>1, <3>2, UnlinkedTable
    <2> QED BY <1>4, <1>7, <2>1
  <1>9. PICK last \in Nat : last = Len(Fifo)
    BY <1>0
  <1>10. /\ Fifo \in Seq(0..(slot_cap - 1))
         /\ \A m \in 1..last : Fifo[m] \in 0..(slot_cap - 1)
    BY <1>0, <1>9, ListTypes
  <1>11. /\ Len(short) = last - 1
         /\ \A m \in 1..(last - 1) : /\ m < q => short[m] = Fifo[m]
                                     /\ m >= q => short[m] = Fifo[m + 1]
    BY <1>7, <1>9, <1>10, WithoutIs
  <1>12. Fifo' = short /\ ObjectInv'
    <2>1. field_count' = Len(short)
      BY <1>0, <1>4, <1>9, <1>11
    <2>2. (field_count' + tombstone_count') * 4 <= slot_cap' * 3
      BY <1>0, <1>4
    <2> QED BY <1>8, <2>1, <2>2, InvFromNext
  <1>13. ASSUME NEW m \in 1..(last - 1)
         PROVE  Entry(slots'[short[m]]) = Entry(slots[Fifo[Past(m, q)]])
    <2>1. PICK s \in 1..last : s = Past(m, q) /\ s # q /\ short[m] = Fifo[s]
      BY <1>5, <1>9, <1>11 DEF Past
    <2>2. Fifo[s] # i /\ Fifo[s] \in 0..(slot_cap - 1)
      BY <1>0, <1>5, <1>9, <1>10, <2>1 DEF IsList
    <2>3. PICK j \in 0..(slot_cap - 1) : j = Fifo[s] /\ j # i
      BY <2>2
    <2>4. /\ slots'[j].key = slots[j].key /\ slots'[j].value = slots[j].value
          /\ slots'[j].static = slots[j].static
      BY <1>6, <2>3 DEF Unlinked
    <2> QED BY <2>1, <2>3, <2>4 DEF Entry
  <1>14. field_count' < field_count
    BY <1>0, <1>4
  <1> QED BY <1>4, <1>5, <1>9, <1>11, <1>12, <1>13, <1>14

-----------------------------------------------------------------------------
(* The ordered map of a sequence of fields.                                *)

IsMap(f) == f = [x \in DOMAIN f |-> f[x]]
Stored(v, s) == [value |-> v, static |-> s]

(* order and field are the keys of the entries and what is under each.     *)
Contents(order, field, entries) ==
  /\ entries \in Seq([key : Keys, value : Values \cup {NoValue}, static : BOOLEAN])
  /\ order = [n \in 1..Len(entries) |-> entries[n].key]
  /\ DOMAIN field = {entries[n].key : n \in 1..Len(entries)}
  /\ IsMap(field)
  /\ \A n \in 1..Len(entries) :
       field[entries[n].key] = Stored(entries[n].value, entries[n].static)
  /\ \A m, n \in 1..Len(entries) : entries[m].key = entries[n].key => m = n

LEMMA ContentsTypes ==
  ASSUME NEW order, NEW field, NEW entries, Contents(order, field, entries)
  PROVE  /\ Len(entries) \in Nat /\ order \in Seq(Keys) /\ Len(order) = Len(entries)
         /\ \A n \in 1..Len(entries) : order[n] = entries[n].key /\ entries[n].key \in Keys
  <1>1. PICK last \in Nat : last = Len(entries)
    BY DEF Contents
  <1>2. \A n \in 1..last : entries[n].key \in Keys
    <2>1. \A n \in 1..last :
            entries[n] \in [key : Keys, value : Values \cup {NoValue}, static : BOOLEAN]
      <3>1. PICK S : S = [key : Keys, value : Values \cup {NoValue}, static : BOOLEAN]
        OBVIOUS
      <3>2. entries \in Seq(S)
        BY <3>1 DEF Contents
      <3>3. \A n \in 1..last : entries[n] \in S
        BY <1>1, <3>2
      <3> QED BY <3>1, <3>3
    <2> QED BY <2>1
  <1>3. order = [n \in 1..last |-> entries[n].key]
    BY <1>1 DEF Contents
  <1>4. order \in Seq(Keys) /\ Len(order) = last
    BY <1>2, <1>3
  <1> QED BY <1>1, <1>2, <1>3, <1>4

LEMMA SameContents ==
  ASSUME NEW order, NEW field, NEW order2, NEW field2, NEW entries,
         Contents(order, field, entries), Contents(order2, field2, entries)
  PROVE  order2 = order /\ field2 = field
  <1>1. order2 = order
    BY DEF Contents
  <1>2. DOMAIN field = DOMAIN field2
    BY DEF Contents
  <1>3. \A k \in DOMAIN field : field2[k] = field[k]
    BY DEF Contents
  <1>4. field2 = [k \in DOMAIN field2 |-> field2[k]] /\ field = [k \in DOMAIN field |-> field[k]]
    BY DEF Contents, IsMap
  <1>5. [k \in DOMAIN field2 |-> field2[k]] = [k \in DOMAIN field |-> field[k]]
    BY <1>2, <1>3
  <1>6. field2 = field
    BY <1>4, <1>5, Zenon
  <1> QED BY <1>1, <1>6

(* The fields after one is set, and after one is deleted. *)
FieldSet(field, field2, k, v, s) ==
  field2 = [x \in DOMAIN field \cup {k} |->
              IF x = k THEN [value |-> v, static |-> s] ELSE field[x]]
FieldGone(field, field2, k) == field2 = [x \in DOMAIN field \ {k} |-> field[x]]

(* What the calls do to the entries. *)
EntrySet(e, e2, p, k, v, s) ==
  /\ Len(e2) = Len(e) /\ p \in 1..Len(e) /\ e[p].key = k
  /\ e2[p] = [key |-> k, value |-> v, static |-> s]
  /\ \A n \in 1..Len(e) : n # p => e2[n] = e[n]
EntryAdded(e, e2, k, v, s) ==
  /\ Len(e2) = Len(e) + 1 /\ \A n \in 1..Len(e) : e[n].key # k
  /\ e2[Len(e) + 1] = [key |-> k, value |-> v, static |-> s]
  /\ \A n \in 1..Len(e) : e2[n] = e[n]
EntryGone(e, e2, q, k) ==
  /\ Len(e2) = Len(e) - 1 /\ q \in 1..Len(e) /\ e[q].key = k
  /\ \A n \in 1..(Len(e) - 1) : e2[n] = e[Past(n, q)]

(* One field given a new value. *)
LEMMA ValueContents ==
  ASSUME NEW order, NEW field, NEW order2, NEW field2, NEW e, NEW e2,
         Contents(order, field, e), Contents(order2, field2, e2),
         NEW p, NEW k, NEW v, NEW s, EntrySet(e, e2, p, k, v, s)
  PROVE  /\ order2 = order
         /\ FieldSet(field, field2, k, v, s)
  <1> USE DEF EntrySet
  <1>1. PICK last \in Nat : last = Len(e)
    BY DEF Contents
  <1>2. p \in 1..last /\ e2[p].key = k /\ e2[p].value = v /\ e2[p].static = s
    BY <1>1
  <1>3. \A n \in 1..last : e2[n].key = e[n].key
    BY <1>1, <1>2
  <1>4. order2 = order
    BY <1>1, <1>3 DEF Contents
  <1>5. DOMAIN field = {e[n].key : n \in 1..last} /\ DOMAIN field2 = {e2[n].key : n \in 1..last}
    BY <1>1 DEF Contents
  <1>6. DOMAIN field2 = DOMAIN field \cup {k}
    BY <1>2, <1>3, <1>5
  <1>7. ASSUME NEW x \in DOMAIN field \cup {k}
        PROVE  field2[x] = IF x = k THEN [value |-> v, static |-> s] ELSE field[x]
    <2>1. CASE x = k
      BY <1>1, <1>2, <2>1 DEF Contents, Stored
    <2>2. CASE x # k
      <3>1. PICK n \in 1..last : e[n].key = x
        BY <1>5, <2>2
      <3>2. n # p /\ e2[n] = e[n]
        BY <1>1, <2>2, <3>1
      <3>3. field2[e2[n].key] = Stored(e2[n].value, e2[n].static)
            /\ field[e[n].key] = Stored(e[n].value, e[n].static)
        BY <1>1 DEF Contents
      <3> QED BY <2>2, <3>1, <3>2, <3>3
    <2> QED BY <2>1, <2>2
  <1>8. field2 = [x \in DOMAIN field2 |-> field2[x]]
    BY DEF Contents, IsMap
  <1>9. [x \in DOMAIN field2 |-> field2[x]] =
          [x \in DOMAIN field \cup {k} |->
             IF x = k THEN [value |-> v, static |-> s] ELSE field[x]]
    BY <1>6, <1>7
  <1> QED BY <1>4, <1>8, <1>9, Zenon DEF FieldSet

(* One field more, at the end. *)
LEMMA MoreContents ==
  ASSUME NEW order, NEW field, NEW order2, NEW field2, NEW e, NEW e2,
         Contents(order, field, e), Contents(order2, field2, e2),
         NEW k, NEW v, NEW s, EntryAdded(e, e2, k, v, s)
  PROVE  /\ k \notin DOMAIN field
         /\ order2 = Append(order, k)
         /\ FieldSet(field, field2, k, v, s)
  <1> USE DEF EntryAdded
  <1>1. PICK last \in Nat : last = Len(e)
    BY DEF Contents
  <1>2. PICK p \in 1..Len(e2) : p = last + 1
    BY <1>1
  <1>3. e2[p].key = k /\ e2[p].value = v /\ e2[p].static = s
    BY <1>1, <1>2
  <1>4. Len(e2) = p /\ \A n \in 1..p : n = p \/ n \in 1..last
    BY <1>1, <1>2
  <1>5. /\ order \in Seq(Keys) /\ Len(order) = last
        /\ \A n \in 1..last : order[n] = e[n].key
    BY <1>1, ContentsTypes
  <1>6. /\ order2 \in Seq(Keys) /\ Len(order2) = p
        /\ \A n \in 1..p : order2[n] = e2[n].key
    BY <1>4, ContentsTypes
  <1>7. k \in Keys
    BY <1>2, <1>3, ContentsTypes
  <1>8. PICK longer : longer = Append(order, k)
    OBVIOUS
  <1>9. /\ longer \in Seq(Keys) /\ Len(longer) = last + 1 /\ longer[last + 1] = k
        /\ \A n \in 1..last : longer[n] = order[n]
    BY <1>1, <1>5, <1>7, <1>8
  <1>10. \A n \in 1..last : order2[n] = order[n] /\ order2[p] = k
    BY <1>1, <1>2, <1>3, <1>4, <1>5, <1>6
  <1>11. order2 = longer
    <2>1. order2[p] = k
      BY <1>3, <1>2, <1>4, <1>6
    <2>2. \A n \in 1..p : order2[n] = longer[n]
      BY <1>2, <1>4, <1>9, <1>10, <2>1
    <2> QED BY <1>2, <1>6, <1>9, <2>2
  <1>12. DOMAIN field = {e[n].key : n \in 1..last} /\ DOMAIN field2 = {e2[n].key : n \in 1..p}
    BY <1>1, <1>4 DEF Contents
  <1>13. DOMAIN field2 = DOMAIN field \cup {k}
    <2>1. \A n \in 1..last : n \in 1..p /\ e2[n].key = e[n].key
      BY <1>1, <1>2
    <2>2. p \in 1..p
      BY <1>2, <1>4
    <2>3. ASSUME NEW x \in DOMAIN field2
          PROVE  x \in DOMAIN field \cup {k}
      <3>1. PICK n \in 1..p : x = e2[n].key
        BY <1>12
      <3>2. CASE n = p
        BY <1>3, <3>1, <3>2
      <3>3. CASE n \in 1..last
        BY <1>12, <2>1, <3>1, <3>3
      <3> QED BY <1>4, <3>2, <3>3
    <2>4. ASSUME NEW x \in DOMAIN field
          PROVE  x \in DOMAIN field2
      <3>1. PICK n \in 1..last : x = e[n].key
        BY <1>12
      <3> QED BY <1>12, <2>1, <3>1
    <2>5. k \in DOMAIN field2
      BY <1>3, <1>12, <2>2
    <2> QED BY <2>3, <2>4, <2>5
  <1>14. ASSUME NEW x \in DOMAIN field \cup {k}
         PROVE  field2[x] = IF x = k THEN [value |-> v, static |-> s] ELSE field[x]
    <2>1. CASE x = k
      <3>1. field2[e2[p].key] = Stored(e2[p].value, e2[p].static)
        BY <1>2 DEF Contents
      <3> QED BY <1>3, <2>1, <3>1 DEF Stored
    <2>2. CASE x # k
      <3>1. PICK n \in 1..last : e[n].key = x
        BY <1>12, <2>2
      <3>2. n \in 1..Len(e2) /\ e2[n] = e[n]
        BY <1>1, <1>2, <1>4, <3>1
      <3>3. field2[e2[n].key] = Stored(e2[n].value, e2[n].static)
        BY <3>2 DEF Contents
      <3>4. field[e[n].key] = Stored(e[n].value, e[n].static)
        BY <1>1 DEF Contents
      <3> QED BY <2>2, <3>1, <3>2, <3>3, <3>4
    <2> QED BY <2>1, <2>2
  <1>15. field2 = [x \in DOMAIN field2 |-> field2[x]]
    BY DEF Contents, IsMap
  <1>16. [x \in DOMAIN field2 |-> field2[x]] =
          [x \in DOMAIN field \cup {k} |->
             IF x = k THEN [value |-> v, static |-> s] ELSE field[x]]
    BY <1>13, <1>14
  <1>17. k \notin DOMAIN field
    BY <1>1, <1>12
  <1> QED BY <1>8, <1>11, <1>15, <1>16, <1>17, Zenon DEF FieldSet

(* One field less. *)
LEMMA FewerContents ==
  ASSUME NEW order, NEW field, NEW order2, NEW field2, NEW e, NEW e2,
         Contents(order, field, e), Contents(order2, field2, e2),
         NEW q, NEW k, EntryGone(e, e2, q, k)
  PROVE  /\ q \in DOMAIN order /\ order[q] = k
         /\ order2 = RemoveAt(order, q)
         /\ FieldGone(field, field2, k)
  <1> USE DEF EntryGone
  <1>1. PICK last \in Nat : last = Len(e)
    BY DEF Contents
  <1>2. q \in 1..last /\ last - 1 \in Nat /\ Len(e2) = last - 1
    BY <1>1
  <1>3. /\ order \in Seq(Keys) /\ Len(order) = last
        /\ \A n \in 1..last : order[n] = e[n].key
    BY <1>1, ContentsTypes
  <1>4. /\ order2 \in Seq(Keys) /\ Len(order2) = last - 1
        /\ \A n \in 1..(last - 1) : order2[n] = e2[n].key
    BY <1>2, ContentsTypes
  <1>5. \A n \in 1..(last - 1) : Past(n, q) \in 1..last /\ Past(n, q) # q
                                 /\ e2[n] = e[Past(n, q)]
    BY <1>1, <1>2 DEF Past
  <1>6. \A n \in 1..last : n # q => \E m \in 1..(last - 1) : Past(m, q) = n
    <2>1. ASSUME NEW n \in 1..last, n # q
          PROVE  \E m \in 1..(last - 1) : Past(m, q) = n
      <3>1. CASE n < q
        <4>1. n \in 1..(last - 1) /\ Past(n, q) = n
          BY <1>2, <3>1 DEF Past
        <4> QED BY <4>1
      <3>2. CASE n > q
        <4>1. PICK m \in 1..(last - 1) : m = n - 1
          BY <1>2, <3>2
        <4>2. Past(m, q) = n
          BY <1>2, <3>2, <4>1 DEF Past
        <4> QED BY <4>2
      <3> QED BY <1>2, <2>1, <3>1, <3>2
    <2> QED BY <2>1
  <1>7. PICK short : short = Without(order, q)
    OBVIOUS
  <1>8. /\ short \in Seq(Keys) /\ Len(short) = last - 1 /\ short = RemoveAt(order, q)
        /\ \A m \in 1..(last - 1) : /\ m < q => short[m] = order[m]
                                    /\ m >= q => short[m] = order[m + 1]
    <2>1. order \in Seq(Keys) /\ q \in 1..Len(order)
      BY <1>2, <1>3
    <2>2. /\ Without(order, q) \in Seq(Keys) /\ Len(Without(order, q)) = Len(order) - 1
          /\ \A m \in 1..(Len(order) - 1) :
               /\ m < q => Without(order, q)[m] = order[m]
               /\ m >= q => Without(order, q)[m] = order[m + 1]
          /\ Without(order, q) = RemoveAt(order, q)
      BY <2>1, WithoutIs
    <2>3. Len(order) = last
      BY <1>3
    <2> HIDE <1>1, <1>2, <1>3
    <2> QED BY <1>7, <2>2, <2>3
  <1>9. ASSUME NEW n \in 1..(last - 1)
        PROVE  order2[n] = short[n]
    <2>1. order2[n] = e[Past(n, q)].key /\ order[Past(n, q)] = e[Past(n, q)].key
      BY <1>3, <1>4, <1>5
    <2>2. short[n] = order[Past(n, q)]
      BY <1>2, <1>8 DEF Past
    <2> QED BY <2>1, <2>2
  <1>10. order2 = short
    BY <1>2, <1>4, <1>8, <1>9
  <1>11. /\ DOMAIN field = {e[n].key : n \in 1..last}
         /\ DOMAIN field2 = {e2[n].key : n \in 1..(last - 1)}
    BY <1>1, <1>2 DEF Contents
  <1>12. \A n \in 1..last : n # q => e[n].key # k
    BY <1>1, <1>2 DEF Contents
  <1>13. DOMAIN field2 = DOMAIN field \ {k}
    <2>1. ASSUME NEW x \in DOMAIN field2
          PROVE  x \in DOMAIN field /\ x # k
      <3>1. PICK n \in 1..(last - 1) : x = e2[n].key
        BY <1>11
      <3> QED BY <1>5, <1>11, <1>12, <3>1
    <2>2. ASSUME NEW x \in DOMAIN field, x # k
          PROVE  x \in DOMAIN field2
      <3>1. PICK n \in 1..last : x = e[n].key
        BY <1>11
      <3>2. n # q
        BY <2>2, <3>1
      <3>3. PICK m \in 1..(last - 1) : Past(m, q) = n
        BY <1>6, <3>2
      <3> QED BY <1>5, <1>11, <3>1, <3>3
    <2> QED BY <2>1, <2>2
  <1>14. ASSUME NEW x \in DOMAIN field2
         PROVE  field2[x] = field[x]
    <2>1. PICK n \in 1..(last - 1) : x = e2[n].key
      BY <1>11
    <2>2. PICK m \in 1..last : e2[n] = e[m]
      BY <1>5
    <2>3. field2[e2[n].key] = Stored(e2[n].value, e2[n].static)
      BY <1>2 DEF Contents
    <2>4. field[e[m].key] = Stored(e[m].value, e[m].static)
      BY <1>1 DEF Contents
    <2> QED BY <2>1, <2>2, <2>3, <2>4
  <1>15. field2 = [x \in DOMAIN field2 |-> field2[x]]
    BY DEF Contents, IsMap
  <1>16. [x \in DOMAIN field2 |-> field2[x]] = [x \in DOMAIN field \ {k} |-> field[x]]
    BY <1>13, <1>14
  <1>17. q \in DOMAIN order /\ order[q] = k
    BY <1>2, <1>3
  <1>18. field2 = [x \in DOMAIN field \ {k} |-> field[x]]
    BY <1>15, <1>16, Zenon
  <1>19. FieldGone(field, field2, k)
    BY <1>18 DEF FieldGone
  <1> QED BY <1>8, <1>10, <1>17, <1>19

(* The slots hold the ordered map of their entries. *)
LEMMA EntriesAre == ObjectInv => Contents(KeyOrder, FieldMap, Entries)
  <1> SUFFICES ASSUME ObjectInv
               PROVE  Contents(KeyOrder, FieldMap, Entries)
    OBVIOUS
  <1>1. /\ IsTable(slots, slot_cap) /\ KeysDiffer(slots, slot_cap)
        /\ IsList(slots, slot_cap, fifo_head, fifo_tail, Fifo)
    BY InvTypes
  <1>2. PICK list : list = Fifo
    OBVIOUS
  <1>3. PICK last \in Nat : last = Len(list)
    BY <1>1, <1>2, ListTypes
  <1>4. /\ list \in Seq(0..(slot_cap - 1))
        /\ \A n \in 1..last : list[n] \in 0..(slot_cap - 1) /\ slots[list[n]].key \in Keys
        /\ \A m, n \in 1..last : list[m] = list[n] => m = n
        /\ \A i \in 0..(slot_cap - 1) :
             slots[i].key \in Keys => \E n \in 1..last : list[n] = i
    <2>1. IsList(slots, slot_cap, fifo_head, fifo_tail, list)
      BY <1>1, <1>2
    <2>2. /\ list \in Seq(0..(slot_cap - 1))
          /\ \A n \in 1..last : list[n] \in 0..(slot_cap - 1)
      BY <1>1, <1>3, <2>1, ListTypes
    <2>3. /\ \A n \in 1..last : slots[list[n]].key \in Keys
          /\ \A m, n \in 1..last : list[m] = list[n] => m = n
          /\ \A i \in 0..(slot_cap - 1) :
               slots[i].key \in Keys => \E n \in 1..last : list[n] = i
      BY <1>3, <2>1, Zenon DEF IsList
    <2> QED BY <2>2, <2>3
  <1>5. PICK e : e = [n \in 1..last |-> Entry(slots[list[n]])]
    OBVIOUS
  <1>6. Entries = e
    <2>1. Entries = [n \in 1..Len(Fifo) |-> Entry(slots[Fifo[n]])]
      BY Zenon DEF Entries
    <2> QED BY <1>2, <1>3, <1>5, <2>1, Zenon
  <1>7. \A n \in 1..last :
          /\ e[n] = Entry(slots[list[n]])
          /\ e[n].key = slots[list[n]].key
          /\ e[n].value = slots[list[n]].value
          /\ e[n].static = slots[list[n]].static
    BY <1>5 DEF Entry
  <1>8. /\ e \in Seq([key : Keys, value : Values \cup {NoValue}, static : BOOLEAN])
        /\ Len(e) = last
    <2>1. \A n \in 1..last : e[n] \in [key : Keys, value : Values \cup {NoValue}, static : BOOLEAN]
      <3> TAKE n \in 1..last
      <3>1. PICK s \in Slot(slot_cap) : s = slots[list[n]]
        BY <1>1, <1>4 DEF IsTable
      <3>2. s.key \in Keys /\ s.value \in Values \cup {NoValue} /\ s.static \in BOOLEAN
        BY <1>4, <3>1 DEF Slot
      <3>3. e[n] = [key |-> s.key, value |-> s.value, static |-> s.static]
        BY <1>7, <3>1, Zenon DEF Entry
      <3> QED BY <3>2, <3>3
    <2> QED BY <1>5, <2>1
  <1>9. KeyOrder = [n \in 1..Len(e) |-> e[n].key]
    BY <1>2, <1>3, <1>7, <1>8 DEF KeyOrder
  <1>10. \A m, n \in 1..last : e[m].key = e[n].key => m = n
    <2> SUFFICES ASSUME NEW m \in 1..last, NEW n \in 1..last, e[m].key = e[n].key
                 PROVE  m = n
      OBVIOUS
    <2>1. slots[list[m]].key = slots[list[n]].key /\ slots[list[m]].key \in Keys
      BY <1>4, <1>7
    <2>2. list[m] = list[n]
      BY <1>1, <1>4, <2>1 DEF KeysDiffer
    <2> QED BY <1>4, <2>2
  <1>11. PICK field : field = FieldMap
    OBVIOUS
  <1>12. DOMAIN slots = 0..(slot_cap - 1)
    BY <1>1, Capacity
  <1>13. DOMAIN field = {slots[i].key : i \in DOMAIN slots} \cap Keys
    BY <1>11 DEF FieldMap
  <1>14. DOMAIN field = {e[n].key : n \in 1..last}
    <2>1. ASSUME NEW x \in DOMAIN field
          PROVE  x \in {e[n].key : n \in 1..last}
      <3>1. PICK i \in 0..(slot_cap - 1) : slots[i].key = x /\ x \in Keys
        BY <1>12, <1>13
      <3>2. PICK n \in 1..last : list[n] = i
        BY <1>4, <3>1
      <3> QED BY <1>7, <3>1, <3>2
    <2>2. ASSUME NEW n \in 1..last
          PROVE  e[n].key \in DOMAIN field
      BY <1>4, <1>7, <1>12, <1>13
    <2> QED BY <2>1, <2>2
  <1>15. IsMap(field)
    BY <1>11 DEF FieldMap, IsMap
  <1>16. ASSUME NEW n \in 1..last
         PROVE  field[e[n].key] = Stored(e[n].value, e[n].static)
    <2>1. PICK k \in Keys : k = e[n].key /\ k \in DOMAIN field
      BY <1>4, <1>7, <1>14
    <2>2. PICK i \in DOMAIN slots : i = list[n] /\ slots[i].key = k
      BY <1>4, <1>7, <1>12, <2>1
    <2>3. \A j \in DOMAIN slots : slots[j].key = k => j = i
      BY <1>1, <1>12, <2>2 DEF KeysDiffer
    <2>4. (CHOOSE j \in DOMAIN slots : slots[j].key = k) = i
      BY <2>2, <2>3
    <2>5. field[k] = LET j == CHOOSE j \in DOMAIN slots : slots[j].key = k
                     IN  [value |-> slots[j].value, static |-> slots[j].static]
      BY <1>11, <1>13, <2>1 DEF FieldMap
    <2>6. field[k] = [value |-> slots[i].value, static |-> slots[i].static]
      BY <2>4, <2>5
    <2> QED BY <1>7, <2>1, <2>2, <2>6 DEF Stored
  <1> HIDE <1>2, <1>3, <1>5
  <1> QED BY <1>6, <1>8, <1>9, <1>10, <1>11, <1>14, <1>15, <1>16 DEF Contents

LEMMA EntriesAreNext == (ObjectInv => Contents(KeyOrder, FieldMap, Entries))'
  BY EntriesAre, PTL

LEMMA EntriesNext == ASSUME ObjectInv' PROVE Contents(KeyOrder', FieldMap', Entries')
  BY EntriesAreNext

-----------------------------------------------------------------------------
(* The steps.                                                              *)

LEMMA UnchangedStep ==
  ASSUME ObjectInv, UNCHANGED <<slots, slot_cap, field_count, tombstone_count, fifo_head,
                                fifo_tail>>
  PROVE  ObjectInv' /\ Fifo' = Fifo /\ Entries' = Entries /\ Kept
  <1>1. Fifo' = Fifo
    BY DEF Fifo
  <1>2. ObjectInv'
    BY <1>1 DEF ObjectInv
  <1>3. Entries' = Entries
    BY <1>1 DEF Entries
  <1>4. Len(Fifo) <= Len(Fifo)
    BY InvTypes, ListTypes
  <1> QED BY <1>1, <1>2, <1>3, <1>4 DEF Kept

LEMMA DeleteCases ==
  ASSUME NEW k, RawDelete(k)
  PROVE  \/ Refuse /\ (readonly \/ Lookup(slots, k) = None
                                \/ slots[Lookup(slots, k)].static)
         \/ Deleted(k)
  BY Zenon DEF RawDelete, Deleted

(* A call that deletes nothing and keeps the capacity keeps the list.      *)
LEMMA NextStep ==
  ASSUME ObjectInv, Next
  PROVE  ObjectInv' /\ (field_count' < field_count \/ Kept)
  <1>1. ASSUME Refuse
        PROVE  ObjectInv' /\ Kept
    BY <1>1, UnchangedStep DEF Refuse
  <1>2. ASSUME NEW k \in Keys, NEW v \in Values, NEW s \in BOOLEAN, RawSet(k, v, s)
        PROVE  ObjectInv' /\ Kept
    BY <1>1, <1>2, UpdateStep, InsertStep DEF RawSet
  <1>3. ASSUME NEW k \in Keys, RawDelete(k)
        PROVE  ObjectInv' /\ (field_count' < field_count \/ Kept)
    BY <1>1, <1>3, DeleteCases, DeleteStep
  <1>4. ASSUME NEW b \in BOOLEAN, SetReadonly(b)
        PROVE  ObjectInv' /\ Kept
    BY <1>4, UnchangedStep DEF SetReadonly
  <1> QED BY <1>2, <1>3, <1>4 DEF Next

LEMMA StutterStep == ASSUME ObjectInv, UNCHANGED vars PROVE ObjectInv' /\ Fifo' = Fifo
  BY UnchangedStep DEF vars

LEMMA InvHolds == ObjectInv => TableInvariant
  <1> SUFFICES ASSUME ObjectInv
               PROVE  TableInvariant
    OBVIOUS
  <1>1. /\ IsTable(slots, slot_cap) /\ KeysDiffer(slots, slot_cap)
        /\ Findable(slots, slot_cap)
        /\ IsList(slots, slot_cap, fifo_head, fifo_tail, Fifo)
        /\ Counted(slots, slot_cap, Fifo, tombstone_count)
        /\ field_count = Len(Fifo) /\ (field_count + tombstone_count) * 4 <= slot_cap * 3
        /\ slot_cap \in Nat /\ field_count \in Nat /\ tombstone_count \in Nat
    BY InvTypes
  <1>2. DOMAIN slots = 0..(slot_cap - 1)
    BY <1>1, Capacity
  <1>3. \A i \in DOMAIN slots : /\ slots[i].key \in Keys \cup {Empty, Tombstone}
                                /\ slots[i].prev \in Links /\ slots[i].next \in Links
    <2> TAKE i \in DOMAIN slots
    <2>1. slots[i] \in Slot(slot_cap)
      BY <1>1, <1>2 DEF IsTable
    <2> QED BY <1>2, <2>1 DEF Slot, Link, Links
  <1>4. Live = LiveSlots(slots, slot_cap) /\ Tombs = TombSlots(slots, slot_cap)
    BY <1>2 DEF Live, Tombs, LiveSlots, TombSlots
  <1>5. TypeOK
    BY <1>1, <1>2, <1>3, <1>4, ListTypes DEF TypeOK, Links, Link, Counted
  <1>6. EveryFieldIsFound
    <2>1. ASSUME NEW k \in Keys
          PROVE  (Lookup(slots, k) # None) <=> (\E j \in Live : slots[j].key = k)
      BY <1>1, <1>2, LookupFinds, LookupMisses, FoundIs DEF Live, HashTable
    <2>2. \A i, j \in Live : slots[i].key = slots[j].key => i = j
      BY <1>1, <1>2 DEF Live, KeysDiffer
    <2> QED BY <2>1, <2>2 DEF EveryFieldIsFound
  <1>7. ListThreadsLiveSlots
    <2>1. PICK list : list = Fifo
      OBVIOUS
    <2>2. IsList(slots, slot_cap, fifo_head, fifo_tail, list)
      BY <1>1, <2>1
    <2>3. PICK last \in Nat : last = Len(list)
      BY <1>1, <2>2, ListTypes
    <2>4. DOMAIN list = 1..last
      BY <2>2, <2>3 DEF IsList
    <2>5. ToSet(list) = Live
      <3>1. ToSet(list) = {list[n] : n \in 1..last}
        BY <2>4 DEF ToSet
      <3>2. ASSUME NEW n \in 1..last
            PROVE  list[n] \in Live
        BY <1>1, <1>2, <2>2, <2>3, ListTypes DEF Live, IsList
      <3>3. ASSUME NEW i \in Live
            PROVE  \E n \in 1..last : list[n] = i
        BY <1>2, <2>2, <2>3 DEF Live, IsList
      <3> QED BY <3>1, <3>2, <3>3
    <2>6. Len(list) = Cardinality(Live)
      BY <1>1, <1>4, <2>1 DEF Counted
    <2>7. ASSUME NEW n \in 1..Len(list)
          PROVE  /\ slots[list[n]].prev = IF n = 1 THEN None ELSE list[n - 1]
                 /\ n = Len(list) => fifo_tail = list[n]
      <3>1. list # <<>>
        BY <1>1, <2>2, <2>3, ListTypes
      <3> QED BY <2>2, <3>1 DEF IsList
    <2>8. list = <<>> => fifo_tail = None
      BY <2>2 DEF IsList
    <2> QED BY <2>1, <2>5, <2>6, <2>7, <2>8 DEF ListThreadsLiveSlots
  <1>8. SearchesEnd
    <2> SUFFICES ASSUME slot_cap > 0
                 PROVE  \E i \in DOMAIN slots : slots[i].key = Empty
      BY DEF SearchesEnd
    <2>1. Len(Fifo) + tombstone_count < slot_cap
      BY <1>1
    <2> QED BY <1>1, <1>2, <2>1, RoomLeft DEF HasEmpty
  <1> QED BY <1>5, <1>6, <1>7, <1>8 DEF TableInvariant

-----------------------------------------------------------------------------
(* Every call is a call of the ordered map.                                *)

LEMMA EntriesList ==
  ObjectInv => /\ Len(Entries) = Len(Fifo) /\ Len(Fifo) \in Nat
               /\ \A n \in 1..Len(Fifo) : Entries[n] = Entry(slots[Fifo[n]])
  <1> SUFFICES ASSUME ObjectInv
               PROVE  /\ Len(Entries) = Len(Fifo) /\ Len(Fifo) \in Nat
                      /\ \A n \in 1..Len(Fifo) : Entries[n] = Entry(slots[Fifo[n]])
    OBVIOUS
  <1>1. PICK last \in Nat : last = Len(Fifo)
    BY InvTypes
  <1> QED BY <1>1 DEF Entries

LEMMA EntriesListNext ==
  (ObjectInv => /\ Len(Entries) = Len(Fifo) /\ Len(Fifo) \in Nat
                /\ \A n \in 1..Len(Fifo) : Entries[n] = Entry(slots[Fifo[n]]))'
  BY EntriesList, PTL

LEMMA SameMap ==
  ASSUME ObjectInv, ObjectInv', Entries' = Entries
  PROVE  KeyOrder' = KeyOrder /\ FieldMap' = FieldMap
  <1>1. Contents(KeyOrder, FieldMap, Entries)
    BY EntriesAre
  <1>2. Contents(KeyOrder', FieldMap', Entries')
    BY EntriesNext
  <1>3. Contents(KeyOrder', FieldMap', Entries)
    BY <1>2
  <1> QED BY <1>1, <1>3, SameContents

LEMMA RefuseMaps ==
  ASSUME ObjectInv, Refuse
  PROVE  Promise!Refuse
  <1>1. ObjectInv' /\ Entries' = Entries
    BY UnchangedStep DEF Refuse
  <1>2. KeyOrder' = KeyOrder /\ FieldMap' = FieldMap
    BY <1>1, SameMap
  <1> QED BY <1>2 DEF Refuse, Promise!Refuse

LEMMA ReadonlyMaps ==
  ASSUME ObjectInv, NEW b, SetReadonly(b)
  PROVE  Promise!SetReadonly(b)
  <1>1. ObjectInv' /\ Entries' = Entries
    BY UnchangedStep DEF SetReadonly
  <1>2. KeyOrder' = KeyOrder /\ FieldMap' = FieldMap
    BY <1>1, SameMap
  <1> QED BY <1>2 DEF SetReadonly, Promise!SetReadonly

(* What the map holds for the key of a slot in the list. *)
LEMMA FieldIs ==
  ASSUME ObjectInv, NEW p \in 1..Len(Fifo)
  PROVE  /\ slots[Fifo[p]].key \in DOMAIN FieldMap
         /\ FieldMap[slots[Fifo[p]].key].static = slots[Fifo[p]].static
  <1>1. Contents(KeyOrder, FieldMap, Entries)
    BY EntriesAre
  <1>2. Len(Entries) = Len(Fifo) /\ Entries[p] = Entry(slots[Fifo[p]])
    BY EntriesList
  <1>3. /\ Entries[p].key = slots[Fifo[p]].key
        /\ Entries[p].static = slots[Fifo[p]].static
    BY <1>2 DEF Entry
  <1>4. /\ Entries[p].key \in DOMAIN FieldMap
        /\ FieldMap[Entries[p].key] = Stored(Entries[p].value, Entries[p].static)
    BY <1>1, <1>2 DEF Contents
  <1> QED BY <1>3, <1>4 DEF Stored

LEMMA UpdateMaps ==
  ASSUME ObjectInv, NEW k \in Keys, NEW v \in Values, NEW s \in BOOLEAN,
         RawSetUpdate(k, v, s)
  PROVE  Promise!Set(k, v, s)
  <1>1. ~ readonly /\ readonly' = readonly
    BY Zenon DEF RawSetUpdate
  <1>2. ObjectInv' /\ Len(Fifo') = Len(Fifo)
    BY UpdateStep
  <1>3. PICK p \in 1..Len(Fifo) :
              /\ slots[Fifo[p]].key = k
              /\ answer' = ~ slots[Fifo[p]].static
              /\ \A n \in 1..Len(Fifo) :
                   Entry(slots'[Fifo'[n]]) =
                     IF n = p /\ ~ slots[Fifo[p]].static
                     THEN [key |-> k, value |-> v, static |-> s] ELSE Entry(slots[Fifo[n]])
    BY UpdateStep
  <1>4. /\ Len(Entries) = Len(Fifo) /\ Len(Fifo) \in Nat
        /\ \A n \in 1..Len(Fifo) : Entries[n] = Entry(slots[Fifo[n]])
    BY EntriesList
  <1>5. /\ Len(Entries') = Len(Fifo')
        /\ \A n \in 1..Len(Fifo') : Entries'[n] = Entry(slots'[Fifo'[n]])
    BY <1>2, EntriesListNext
  <1>6. Contents(KeyOrder, FieldMap, Entries) /\ Contents(KeyOrder', FieldMap', Entries')
    BY <1>2, EntriesAre, EntriesNext
  <1>7. k \in DOMAIN FieldMap /\ FieldMap[k].static = slots[Fifo[p]].static
    BY <1>3, FieldIs
  <1>8. Entries[p].key = k
    <2>1. Entries[p] = Entry(slots[Fifo[p]])
      BY <1>4
    <2> QED BY <1>3, <2>1 DEF Entry
  <1>9. slots[Fifo[p]].static \in BOOLEAN
    BY InvTypes, ListTypes DEF IsTable, Slot
  <1>10. CASE slots[Fifo[p]].static
    <2>1. \A n \in 1..Len(Fifo) : Entries'[n] = Entries[n]
      BY <1>2, <1>3, <1>4, <1>5, <1>10
    <2>2. Entries' = Entries
      BY <1>2, <1>4, <1>5, <1>6, <2>1 DEF Contents
    <2>3. KeyOrder' = KeyOrder /\ FieldMap' = FieldMap
      BY <1>2, <2>2, SameMap
    <2>4. answer' = FALSE
      BY <1>3, <1>10
    <2> QED BY <1>1, <1>7, <1>10, <2>3, <2>4
            DEF Promise!Set, Promise!Refuse, Promise!Frozen, Promise!Fields
  <1>11. CASE ~ slots[Fifo[p]].static
    <2>1. Entries'[p] = [key |-> k, value |-> v, static |-> s]
      BY <1>2, <1>3, <1>5, <1>11
    <2>2. \A n \in 1..Len(Fifo) : n # p => Entries'[n] = Entries[n]
      BY <1>2, <1>3, <1>4, <1>5
    <2>3. KeyOrder' = KeyOrder /\ FieldSet(FieldMap, FieldMap', k, v, s)
      <3>1. Len(Entries') = Len(Entries) /\ p \in 1..Len(Entries)
        BY <1>2, <1>4, <1>5
      <3>2. \A n \in 1..Len(Entries) : n # p => Entries'[n] = Entries[n]
        BY <1>4, <2>2
      <3>3. EntrySet(Entries, Entries', p, k, v, s)
        BY <1>8, <2>1, <3>1, <3>2, Zenon DEF EntrySet
      <3> QED BY <1>6, <3>3, ValueContents
    <2>4. answer' = TRUE
      BY <1>3, <1>11
    <2>5. ~ Promise!Frozen(k)
      BY <1>1, <1>7, <1>11 DEF Promise!Frozen
    <2> QED BY <1>1, <1>7, <2>3, <2>4, <2>5, Zenon DEF Promise!Set, Promise!Fields, FieldSet
  <1> QED BY <1>9, <1>10, <1>11

LEMMA InsertMaps ==
  ASSUME ObjectInv, NEW k \in Keys, NEW v \in Values, NEW s \in BOOLEAN,
         RawSetInsert(k, v, s)
  PROVE  Promise!Set(k, v, s)
  <1>1. ~ readonly /\ readonly' = readonly
    BY Zenon DEF RawSetInsert
  <1>2. /\ ObjectInv' /\ Len(Fifo') = Len(Fifo) + 1
        /\ \A n \in 1..Len(Fifo) : slots[Fifo[n]].key # k
        /\ \A n \in 1..Len(Fifo) : Entry(slots'[Fifo'[n]]) = Entry(slots[Fifo[n]])
        /\ Entry(slots'[Fifo'[Len(Fifo) + 1]]) = [key |-> k, value |-> v, static |-> s]
        /\ answer' = TRUE
    BY InsertStep
  <1>3. /\ Len(Entries) = Len(Fifo) /\ Len(Fifo) \in Nat
        /\ \A n \in 1..Len(Fifo) : Entries[n] = Entry(slots[Fifo[n]])
    BY EntriesList
  <1>4. /\ Len(Entries') = Len(Fifo')
        /\ \A n \in 1..Len(Fifo') : Entries'[n] = Entry(slots'[Fifo'[n]])
    BY <1>2, EntriesListNext
  <1>5. Contents(KeyOrder, FieldMap, Entries) /\ Contents(KeyOrder', FieldMap', Entries')
    BY <1>2, EntriesAre, EntriesNext
  <1>6. Len(Entries') = Len(Entries) + 1
    BY <1>2, <1>3, <1>4
  <1>7. ASSUME NEW n \in 1..Len(Entries)
        PROVE  Entries[n].key # k
    <2>1. n \in 1..Len(Fifo) /\ Entries[n] = Entry(slots[Fifo[n]])
      BY <1>3
    <2>2. Entries[n].key = slots[Fifo[n]].key
      BY <2>1 DEF Entry
    <2> QED BY <1>2, <2>1, <2>2
  <1>8. Entries'[Len(Entries) + 1] = [key |-> k, value |-> v, static |-> s]
    <2>1. Len(Fifo) + 1 \in 1..Len(Fifo')
      BY <1>2, <1>3
    <2>2. Entries'[Len(Fifo) + 1] = Entry(slots'[Fifo'[Len(Fifo) + 1]])
      BY <1>4, <2>1
    <2> QED BY <1>2, <1>3, <2>2
  <1>9. ASSUME NEW n \in 1..Len(Entries)
        PROVE  Entries'[n] = Entries[n]
    <2>1. n \in 1..Len(Fifo) /\ n \in 1..Len(Fifo')
      BY <1>2, <1>3
    <2> QED BY <1>2, <1>3, <1>4, <2>1
  <1>10. /\ k \notin DOMAIN FieldMap
         /\ KeyOrder' = Append(KeyOrder, k)
         /\ FieldSet(FieldMap, FieldMap', k, v, s)
    <2>1. EntryAdded(Entries, Entries', k, v, s)
      BY <1>6, <1>7, <1>8, <1>9, Zenon DEF EntryAdded
    <2> QED BY <1>5, <2>1, MoreContents
  <1>11. ~ Promise!Frozen(k)
    BY <1>1, <1>10, Zenon DEF Promise!Frozen, Promise!Fields
  <1> QED BY <1>1, <1>2, <1>10, <1>11, Zenon DEF Promise!Set, Promise!Fields, FieldSet

LEMMA DeleteMaps ==
  ASSUME ObjectInv, NEW k \in Keys, Deleted(k)
  PROVE  Promise!Delete(k)
  <1>1. ~ readonly /\ readonly' = readonly /\ answer' = TRUE
    BY Zenon DEF Deleted
  <1>2. ObjectInv'
    BY DeleteStep
  <1>3. PICK q \in 1..Len(Fifo) :
              /\ slots[Fifo[q]].key = k /\ ~ slots[Fifo[q]].static
              /\ Len(Fifo') = Len(Fifo) - 1
              /\ \A n \in 1..(Len(Fifo) - 1) :
                   Entry(slots'[Fifo'[n]]) = Entry(slots[Fifo[Past(n, q)]])
    BY DeleteStep
  <1>4. /\ Len(Entries) = Len(Fifo) /\ Len(Fifo) \in Nat
        /\ \A n \in 1..Len(Fifo) : Entries[n] = Entry(slots[Fifo[n]])
    BY EntriesList
  <1>5. /\ Len(Entries') = Len(Fifo')
        /\ \A n \in 1..Len(Fifo') : Entries'[n] = Entry(slots'[Fifo'[n]])
    BY <1>2, EntriesListNext
  <1>6. Contents(KeyOrder, FieldMap, Entries) /\ Contents(KeyOrder', FieldMap', Entries')
    BY <1>2, EntriesAre, EntriesNext
  <1>7. Len(Entries') = Len(Entries) - 1 /\ q \in 1..Len(Entries)
    BY <1>3, <1>4, <1>5
  <1>8. Entries[q].key = k
    <2>1. Entries[q] = Entry(slots[Fifo[q]])
      BY <1>4
    <2> QED BY <1>3, <2>1 DEF Entry
  <1>9. ASSUME NEW n \in 1..(Len(Entries) - 1)
        PROVE  Entries'[n] = Entries[Past(n, q)]
    <2>1. n \in 1..(Len(Fifo) - 1) /\ n \in 1..Len(Fifo') /\ Past(n, q) \in 1..Len(Fifo)
      BY <1>3, <1>4 DEF Past
    <2> QED BY <1>3, <1>4, <1>5, <2>1
  <1>10. /\ q \in DOMAIN KeyOrder /\ KeyOrder[q] = k
         /\ KeyOrder' = RemoveAt(KeyOrder, q)
         /\ FieldGone(FieldMap, FieldMap', k)
    <2>1. EntryGone(Entries, Entries', q, k)
      BY <1>7, <1>8, <1>9, Zenon DEF EntryGone
    <2> QED BY <1>6, <2>1, FewerContents
  <1>11. k \in DOMAIN FieldMap /\ FieldMap[k].static = slots[Fifo[q]].static
    BY <1>3, FieldIs
  <1>12. ~ Promise!Frozen(k) /\ k \in Promise!Fields
    BY <1>1, <1>3, <1>11 DEF Promise!Frozen, Promise!Fields
  <1>13. \E i \in DOMAIN KeyOrder :
            KeyOrder[i] = k /\ KeyOrder' = Promise!RemoveAt(KeyOrder, i)
    <2>1. RemoveAt(KeyOrder, q) = Promise!RemoveAt(KeyOrder, q)
      BY Zenon DEF RemoveAt, Promise!RemoveAt
    <2> QED BY <1>10, <2>1
  <1>14. FieldMap' = [x \in DOMAIN FieldMap \ {k} |-> FieldMap[x]]
    BY <1>10 DEF FieldGone
  <1> QED BY <1>1, <1>12, <1>13, <1>14 DEF Promise!Delete, Promise!Fields

(* A deletion the slots refuse is one the map refuses. *)
LEMMA RefusedDelete ==
  ASSUME ObjectInv, NEW k \in Keys,
         Refuse /\ (readonly \/ Lookup(slots, k) = None \/ slots[Lookup(slots, k)].static)
  PROVE  Promise!Delete(k)
  <1>1. Promise!Refuse
    BY RefuseMaps
  <1>2. CASE readonly
    BY <1>1, <1>2 DEF Promise!Delete, Promise!Frozen
  <1>3. HashTable(slots, slot_cap, fifo_head, fifo_tail, Fifo)
    BY DEF ObjectInv
  <1>4. CASE Lookup(slots, k) = None
    <2>1. DOMAIN slots = 0..(slot_cap - 1)
      BY InvTypes, Capacity
    <2>2. k \notin DOMAIN FieldMap
      <3>1. \A j \in DOMAIN slots : slots[j].key # k
        <4> SUFFICES ASSUME NEW j \in 0..(slot_cap - 1), slots[j].key = k
                     PROVE  FALSE
          BY <2>1
        <4>1. Lookup(slots, slots[j].key) = j
          BY InvTypes, LookupReaches DEF Findable
        <4> QED BY <1>4, <4>1, InvTypes, ObjectMapAssumption
      <3>2. DOMAIN FieldMap = {slots[i].key : i \in DOMAIN slots} \cap Keys
        BY DEF FieldMap
      <3> QED BY <3>1, <3>2
    <2> QED BY <1>1, <2>2 DEF Promise!Delete, Promise!Fields
  <1>5. CASE Lookup(slots, k) # None /\ slots[Lookup(slots, k)].static
    <2>1. PICK p \in 1..Len(Fifo) : Fifo[p] = Lookup(slots, k)
                                    /\ slots[Lookup(slots, k)].key = k
      BY <1>3, <1>5, FoundIs
    <2>2. k \in DOMAIN FieldMap /\ FieldMap[k].static
      BY <1>5, <2>1, FieldIs
    <2> QED BY <1>1, <2>2 DEF Promise!Delete, Promise!Frozen, Promise!Fields
  <1> QED BY <1>2, <1>4, <1>5

LEMMA StepMaps ==
  ASSUME ObjectInv, [Next]_vars
  PROVE  [Promise!Next]_(Promise!mvars)
  <1>1. ASSUME NEW k \in Keys, NEW v \in Values, NEW s \in BOOLEAN, RawSet(k, v, s)
        PROVE  Promise!Set(k, v, s)
    <2>1. CASE readonly /\ Refuse
      BY <2>1, RefuseMaps DEF Promise!Set, Promise!Frozen
    <2> QED BY <1>1, <2>1, UpdateMaps, InsertMaps DEF RawSet
  <1>2. ASSUME NEW k \in Keys, RawDelete(k)
        PROVE  Promise!Delete(k)
    BY <1>2, DeleteCases, DeleteMaps, RefusedDelete
  <1>3. ASSUME NEW b \in BOOLEAN, SetReadonly(b)
        PROVE  Promise!SetReadonly(b)
    BY <1>3, ReadonlyMaps
  <1>4. ASSUME UNCHANGED vars
        PROVE  UNCHANGED Promise!mvars
    <2>1. ObjectInv' /\ Entries' = Entries
      BY <1>4, UnchangedStep DEF vars
    <2> QED BY <1>4, <2>1, SameMap DEF vars, Promise!mvars
  <1> QED BY <1>1, <1>2, <1>3, <1>4, Zenon DEF Next, Promise!Next

LEMMA InitMaps == ASSUME Init PROVE Promise!Init
  <1>1. ObjectInv /\ Fifo = <<>>
    BY InvStart
  <1>2. KeyOrder = <<>>
    BY <1>1 DEF KeyOrder
  <1>3. FieldMap = <<>>
    BY DEF Init, FieldMap
  <1> QED BY <1>2, <1>3 DEF Init, Promise!Init

-----------------------------------------------------------------------------
(* The theorems about the table.                                           *)

LEMMA WalkStep == ASSUME WalkNext PROVE [Next]_vars
  BY DEF WalkNext, Begin, CallFn, Continue, Finish, Interfere

LEMMA ObjectInvHolds == WalkSpec => []ObjectInv
  <1>1. WalkInit => ObjectInv
    BY InvStart DEF WalkInit
  <1>2. ASSUME ObjectInv, [WalkNext]_allvars
        PROVE  ObjectInv'
    <2>1. CASE UNCHANGED allvars
      BY <1>2, <2>1, StutterStep DEF allvars
    <2>2. CASE WalkNext
      BY <1>2, <2>2, WalkStep, NextStep, StutterStep
    <2> QED BY <1>2, <2>1, <2>2
  <1> QED BY <1>1, <1>2, PTL DEF WalkSpec

(* After any history of cdo_object_rawset and cdo_object_rawdelete, with   *)
(* tombstones reused and tables rebuilt, every field is found by its key,  *)
(* no other is, the list threads the fields, and a search always ends.     *)
THEOREM TableHolds == WalkSpec => []TableInvariant
  BY ObjectInvHolds, InvHolds, PTL

(* The hash table is the ordered map object.h promises: every call answers *)
(* and changes it as a call of the map, or leaves it as it is.             *)
THEOREM MapImplemented == WalkSpec => ImplementsOrderedMap
  <1>1. WalkInit => Promise!Init
    BY InitMaps DEF WalkInit
  <1>2. ASSUME ObjectInv, [WalkNext]_allvars
        PROVE  [Promise!Next]_(Promise!mvars)
    <2>1. [Next]_vars
      BY <1>2, WalkStep DEF allvars
    <2> QED BY <1>2, <2>1, StepMaps
  <1> QED BY <1>1, <1>2, ObjectInvHolds, PTL
          DEF WalkSpec, ImplementsOrderedMap, Promise!Spec

-----------------------------------------------------------------------------
(* The walk.                                                               *)

(* What a walk goes on from after the n-th field of list: slot i, the next *)
(* one, or nothing when the fields of the beginning are behind it.         *)
GoesOn(list, i, first, n) ==
  \/ n < Len(list) /\ i = list[n + 1]
  \/ i = None /\ first <= n

(* s is what the first fields of list are keyed by. *)
FirstKeys(list, t, s) ==
  /\ s \in Seq(Keys) /\ Len(s) <= Len(list)
  /\ \A n \in 1..Len(s) : s[n] = t[list[n]].key

(* As long as nothing is deleted or rebuilt, the walk is as far in the     *)
(* list as it has given keys.                                              *)
WalkInv ==
  walk # "idle" /\ ~ disturbed =>
    /\ FirstKeys(Fifo, slots, seen) /\ FirstKeys(Fifo, slots, due)
    /\ walk = "read" => /\ size = slot_cap
                        /\ Len(seen) < Len(Fifo) /\ at = Fifo[Len(seen) + 1]
                        /\ GoesOn(Fifo, idx, Len(due), Len(seen) + 1)
    /\ walk = "call" => GoesOn(Fifo, idx, Len(due), Len(seen))
    /\ walk \in {"read", "call"}

LEMMA NextGoesOn ==
  ASSUME NEW t, NEW c, NEW head, NEW tail, NEW list, IsTable(t, c),
         IsList(t, c, head, tail, list), NEW n \in 1..Len(list),
         NEW first \in Nat, first <= Len(list)
  PROVE  GoesOn(list, t[list[n]].next, first, n)
  <1>1. t[list[n]].next = IF n = Len(list) THEN None ELSE list[n + 1]
    BY DEF IsList
  <1>2. Len(list) \in Nat
    BY ListTypes
  <1> QED BY <1>1, <1>2 DEF GoesOn

LEMMA LongerGoesOn ==
  ASSUME NEW list, NEW list2, Len(list) \in Nat, Len(list2) \in Nat, Len(list) <= Len(list2),
         \A m \in 1..Len(list) : list2[m] = list[m],
         NEW i, NEW first, NEW n \in Nat, GoesOn(list, i, first, n)
  PROVE  GoesOn(list2, i, first, n)
  <1>1. CASE n < Len(list) /\ i = list[n + 1]
    <2>1. n + 1 \in 1..Len(list) /\ n < Len(list2)
      BY <1>1
    <2> QED BY <1>1, <2>1 DEF GoesOn
  <1>2. CASE i = None /\ first <= n
    BY <1>2 DEF GoesOn
  <1> QED BY <1>1, <1>2 DEF GoesOn

LEMMA LongerFirstKeys ==
  ASSUME NEW list, NEW list2, Len(list) \in Nat, Len(list2) \in Nat, Len(list) <= Len(list2),
         NEW t, NEW u,
         \A m \in 1..Len(list) : list2[m] = list[m] /\ u[list[m]].key = t[list[m]].key,
         NEW s, FirstKeys(list, t, s)
  PROVE  FirstKeys(list2, u, s)
  <1>1. PICK last \in Nat : last = Len(s)
    BY DEF FirstKeys
  <1>2. \A m \in 1..last : s[m] = t[list[m]].key /\ m \in 1..Len(list)
    BY <1>1 DEF FirstKeys
  <1>3. \A m \in 1..last : s[m] = u[list2[m]].key
    BY <1>2
  <1> QED BY <1>1, <1>3 DEF FirstKeys

LEMMA OneMoreKey ==
  ASSUME NEW list, NEW t, NEW s, FirstKeys(list, t, s), Len(list) \in Nat, Len(s) < Len(list),
         NEW k \in Keys, k = t[list[Len(s) + 1]].key
  PROVE  FirstKeys(list, t, Append(s, k)) /\ Len(Append(s, k)) = Len(s) + 1
  <1>1. PICK last \in Nat : last = Len(s)
    BY DEF FirstKeys
  <1>2. PICK longer : longer = Append(s, k)
    OBVIOUS
  <1>3. s \in Seq(Keys) /\ \A n \in 1..last : s[n] = t[list[n]].key
    BY <1>1 DEF FirstKeys
  <1>4. /\ longer \in Seq(Keys) /\ Len(longer) = last + 1 /\ longer[last + 1] = k
        /\ \A n \in 1..last : longer[n] = s[n]
    BY <1>1, <1>2, <1>3
  <1>5. ASSUME NEW n \in 1..(last + 1)
        PROVE  longer[n] = t[list[n]].key
    <2>1. CASE n = last + 1
      BY <1>1, <1>4, <2>1
    <2>2. CASE n \in 1..last
      BY <1>3, <1>4, <2>2
    <2> QED BY <1>1, <2>1, <2>2
  <1>6. last + 1 <= Len(list)
    BY <1>1
  <1>7. FirstKeys(list, t, longer)
    BY <1>4, <1>5, <1>6 DEF FirstKeys
  <1> HIDE <1>1, <1>2
  <1> QED BY <1>1, <1>2, <1>4, <1>7

LEMMA AllKeys ==
  ASSUME ObjectInv
  PROVE  FirstKeys(Fifo, slots, KeyOrder) /\ FirstKeys(Fifo, slots, <<>>)
         /\ Len(KeyOrder) = Len(Fifo)
  <1>1. Contents(KeyOrder, FieldMap, Entries)
    BY EntriesAre
  <1>2. KeyOrder \in Seq(Keys) /\ Len(KeyOrder) = Len(Entries)
    BY <1>1, ContentsTypes
  <1>3. Len(Entries) = Len(Fifo) /\ Len(Fifo) \in Nat
    BY EntriesList
  <1>4. \A n \in 1..Len(Fifo) : KeyOrder[n] = slots[Fifo[n]].key
    BY DEF KeyOrder
  <1>5. FirstKeys(Fifo, slots, KeyOrder)
    BY <1>2, <1>3, <1>4 DEF FirstKeys
  <1>6. FirstKeys(Fifo, slots, <<>>)
    BY <1>3 DEF FirstKeys
  <1> QED BY <1>2, <1>3, <1>5, <1>6

LEMMA BeginWalk ==
  ASSUME ObjectInv, Begin
  PROVE  WalkInv'
  <1>1. /\ fifo_head # None /\ walk' = "read" /\ at' = fifo_head /\ size' = slot_cap
        /\ idx' = slots[fifo_head].next /\ seen' = <<>> /\ due' = KeyOrder
        /\ UNCHANGED vars
    BY DEF Begin, VisitFrom
  <1>2. Fifo' = Fifo /\ slots' = slots /\ slot_cap' = slot_cap
    BY <1>1, StutterStep DEF vars
  <1>3. /\ IsTable(slots, slot_cap) /\ IsList(slots, slot_cap, fifo_head, fifo_tail, Fifo)
    BY InvTypes
  <1>4. Len(Fifo) \in Nat /\ Len(Fifo) > 0 /\ fifo_head = Fifo[1]
    BY <1>1, <1>3, ListTypes DEF IsList
  <1>5. GoesOn(Fifo, slots[Fifo[1]].next, Len(Fifo), 1)
    BY <1>3, <1>4, NextGoesOn
  <1>6. FirstKeys(Fifo, slots, KeyOrder) /\ FirstKeys(Fifo, slots, <<>>)
        /\ Len(KeyOrder) = Len(Fifo)
    BY AllKeys
  <1>7. Len(<<>>) = 0
    OBVIOUS
  <1>8. FirstKeys(Fifo', slots', seen') /\ FirstKeys(Fifo', slots', due')
    BY <1>1, <1>2, <1>6
  <1>9. Len(seen') = 0 /\ Len(due') = Len(Fifo)
    BY <1>1, <1>6, <1>7
  <1>10. GoesOn(Fifo', idx', Len(due'), Len(seen') + 1)
    BY <1>1, <1>2, <1>4, <1>5, <1>9
  <1>11. /\ size' = slot_cap' /\ Len(seen') < Len(Fifo') /\ at' = Fifo'[Len(seen') + 1]
         /\ walk' = "read"
    BY <1>1, <1>2, <1>4, <1>9
  <1> QED BY <1>8, <1>10, <1>11 DEF WalkInv

LEMMA CallWalk ==
  ASSUME ObjectInv, WalkInv, CallFn
  PROVE  WalkInv'
  <1>1. /\ walk = "read" /\ walk' = "call" /\ UNCHANGED vars
        /\ idx' = idx /\ due' = due /\ disturbed' = disturbed
    BY DEF CallFn
  <1>2. Fifo' = Fifo /\ slots' = slots
    BY <1>1, StutterStep DEF vars
  <1> SUFFICES ASSUME ~ disturbed
               PROVE  WalkInv'
    BY <1>1 DEF WalkInv
  <1>3. /\ FirstKeys(Fifo, slots, seen) /\ FirstKeys(Fifo, slots, due)
        /\ size = slot_cap
        /\ Len(seen) < Len(Fifo) /\ at = Fifo[Len(seen) + 1]
        /\ GoesOn(Fifo, idx, Len(due), Len(seen) + 1)
    BY <1>1 DEF WalkInv
  <1>4. Len(Fifo) \in Nat /\ Len(seen) \in Nat
    BY <1>3, InvTypes DEF FirstKeys
  <1>5. PICK k : k = slots[at].key
    OBVIOUS
  <1>6. k \in Keys /\ k = slots[Fifo[Len(seen) + 1]].key
    BY <1>3, <1>4, <1>5, InvTypes DEF IsList
  <1>7. seen' = Append(seen, k)
    BY <1>3, <1>5 DEF CallFn
  <1>8. FirstKeys(Fifo, slots, Append(seen, k)) /\ Len(Append(seen, k)) = Len(seen) + 1
    BY <1>3, <1>4, <1>6, OneMoreKey
  <1>9. FirstKeys(Fifo', slots', seen') /\ Len(seen') = Len(seen) + 1
    BY <1>2, <1>7, <1>8, Zenon
  <1>10. FirstKeys(Fifo', slots', due') /\ GoesOn(Fifo', idx', Len(due'), Len(seen'))
    BY <1>1, <1>2, <1>3, <1>9
  <1> QED BY <1>1, <1>9, <1>10 DEF WalkInv

LEMMA ContinueWalk ==
  ASSUME ObjectInv, WalkInv, Continue
  PROVE  WalkInv'
  <1>1. /\ walk = "call" /\ idx # None /\ walk' = "read" /\ at' = idx /\ size' = slot_cap
        /\ idx' = slots[idx].next /\ seen' = seen /\ due' = due /\ disturbed' = disturbed
        /\ UNCHANGED vars
    BY DEF Continue, VisitFrom
  <1>2. Fifo' = Fifo /\ slots' = slots /\ slot_cap' = slot_cap
    BY <1>1, StutterStep DEF vars
  <1> SUFFICES ASSUME ~ disturbed
               PROVE  WalkInv'
    BY <1>1 DEF WalkInv
  <1>3. /\ FirstKeys(Fifo, slots, seen) /\ FirstKeys(Fifo, slots, due)
        /\ GoesOn(Fifo, idx, Len(due), Len(seen))
    BY <1>1 DEF WalkInv
  <1>4. Len(seen) < Len(Fifo) /\ idx = Fifo[Len(seen) + 1]
    BY <1>1, <1>3 DEF GoesOn
  <1>5. /\ Len(Fifo) \in Nat /\ Len(seen) \in Nat /\ Len(due) \in Nat
        /\ Len(due) <= Len(Fifo)
    BY <1>3, InvTypes DEF FirstKeys
  <1>6. GoesOn(Fifo, slots[Fifo[Len(seen) + 1]].next, Len(due), Len(seen) + 1)
    BY <1>4, <1>5, InvTypes, NextGoesOn
  <1>7. FirstKeys(Fifo', slots', seen') /\ FirstKeys(Fifo', slots', due')
    BY <1>1, <1>2, <1>3
  <1>8. GoesOn(Fifo', idx', Len(due'), Len(seen') + 1)
    BY <1>1, <1>2, <1>4, <1>6
  <1> QED BY <1>1, <1>2, <1>4, <1>7, <1>8 DEF WalkInv

(* What other threads do to a walk that they leave undisturbed. *)
LEMMA InterfereWalk ==
  ASSUME ObjectInv, WalkInv, Interfere
  PROVE  WalkInv'
  <1>1. /\ Next /\ walk' = walk /\ at' = at /\ size' = size /\ idx' = idx
        /\ seen' = seen /\ due' = due
        /\ disturbed' = (walk # "idle" /\ (disturbed \/ field_count' < field_count
                                                      \/ slot_cap' # slot_cap))
    BY DEF Interfere
  <1> SUFFICES ASSUME walk # "idle", ~ disturbed, ~ (field_count' < field_count),
                      slot_cap' = slot_cap
               PROVE  WalkInv'
    BY <1>1 DEF WalkInv
  <1>2. ObjectInv' /\ Kept
    BY <1>1, NextStep
  <1>3. /\ Len(Fifo) <= Len(Fifo')
        /\ \A n \in 1..Len(Fifo) : Fifo'[n] = Fifo[n]
                                   /\ slots'[Fifo[n]].key = slots[Fifo[n]].key
    BY <1>2 DEF Kept
  <1>4. Len(Fifo) \in Nat /\ Len(Fifo') \in Nat
    BY <1>2, EntriesList, EntriesListNext
  <1>5. FirstKeys(Fifo, slots, seen) /\ FirstKeys(Fifo, slots, due)
    BY DEF WalkInv
  <1>6. FirstKeys(Fifo', slots', seen) /\ FirstKeys(Fifo', slots', due)
    BY <1>3, <1>4, <1>5, LongerFirstKeys
  <1>7. Len(seen) \in Nat
    BY <1>5 DEF FirstKeys
  <1>8. ASSUME walk = "read"
        PROVE  /\ size = slot_cap /\ Len(seen) < Len(Fifo') /\ at = Fifo'[Len(seen) + 1]
               /\ GoesOn(Fifo', idx, Len(due), Len(seen) + 1)
    <2>1. /\ size = slot_cap /\ Len(seen) < Len(Fifo) /\ at = Fifo[Len(seen) + 1]
          /\ GoesOn(Fifo, idx, Len(due), Len(seen) + 1)
      BY <1>8 DEF WalkInv
    <2>2. Len(seen) + 1 \in 1..Len(Fifo) /\ Len(seen) + 1 \in Nat
      BY <1>4, <1>7, <2>1
    <2>3. GoesOn(Fifo', idx, Len(due), Len(seen) + 1)
      BY <1>3, <1>4, <2>1, <2>2, LongerGoesOn
    <2> QED BY <1>3, <1>4, <1>7, <2>1, <2>2, <2>3
  <1>9. ASSUME walk = "call"
        PROVE  GoesOn(Fifo', idx, Len(due), Len(seen))
    <2>1. GoesOn(Fifo, idx, Len(due), Len(seen))
      BY <1>9 DEF WalkInv
    <2> QED BY <1>3, <1>4, <1>7, <2>1, LongerGoesOn
  <1>10. walk \in {"read", "call"}
    BY DEF WalkInv
  <1> QED BY <1>1, <1>6, <1>8, <1>9, <1>10 DEF WalkInv

LEMMA FinishWalk == ASSUME Finish PROVE WalkInv'
  BY DEF Finish, WalkInv

LEMMA StutterWalk == ASSUME ObjectInv, WalkInv, UNCHANGED allvars PROVE WalkInv'
  <1>1. Fifo' = Fifo /\ slots' = slots /\ slot_cap' = slot_cap
    BY StutterStep DEF allvars, vars
  <1> QED BY <1>1 DEF allvars, wvars, WalkInv

LEMMA WalkInvHolds == WalkSpec => []WalkInv
  <1>1. WalkInit => WalkInv
    BY DEF WalkInit, WalkInv
  <1>2. ASSUME ObjectInv, WalkInv, [WalkNext]_allvars
        PROVE  WalkInv'
    BY <1>2, BeginWalk, CallWalk, ContinueWalk, FinishWalk, InterfereWalk, StutterWalk
       DEF WalkNext
  <1> QED BY <1>1, <1>2, ObjectInvHolds, PTL DEF WalkSpec

LEMMA WalkIsComplete == ObjectInv /\ WalkInv => UndisturbedWalkIsComplete
  <1> SUFFICES ASSUME ObjectInv, WalkInv, walk = "call", ~ disturbed
               PROVE  IsPrefix(seen, KeyOrder) /\ (idx = None => IsPrefix(due, seen))
    BY DEF UndisturbedWalkIsComplete
  <1>1. /\ FirstKeys(Fifo, slots, seen) /\ FirstKeys(Fifo, slots, due)
        /\ GoesOn(Fifo, idx, Len(due), Len(seen))
    BY DEF WalkInv
  <1>2. FirstKeys(Fifo, slots, KeyOrder) /\ Len(KeyOrder) = Len(Fifo)
    BY AllKeys
  <1>3. ASSUME NEW s, NEW u, FirstKeys(Fifo, slots, s), FirstKeys(Fifo, slots, u),
               Len(s) <= Len(u)
        PROVE  IsPrefix(s, u)
    <2>1. PICK m, n : m = Len(s) /\ n = Len(u)
      OBVIOUS
    <2>2. /\ s \in Seq(Keys) /\ u \in Seq(Keys) /\ m \in Nat /\ n \in Nat /\ m <= n
          /\ \A i \in 1..m : s[i] = slots[Fifo[i]].key
          /\ \A i \in 1..n : u[i] = slots[Fifo[i]].key
      BY <1>3, <2>1 DEF FirstKeys
    <2>3. \A i \in 1..m : s[i] = u[i]
      BY <2>2
    <2>4. SubSeq(s, 1, m) = SubSeq(u, 1, m)
      BY <2>1, <2>2, <2>3
    <2> QED BY <2>1, <2>2, <2>4 DEF IsPrefix
  <1>4. IsPrefix(seen, KeyOrder)
    BY <1>1, <1>2, <1>3 DEF FirstKeys
  <1>5. ASSUME idx = None
        PROVE  IsPrefix(due, seen)
    <2>1. ~ (Len(seen) < Len(Fifo) /\ idx = Fifo[Len(seen) + 1])
      <3> SUFFICES ASSUME Len(seen) < Len(Fifo)
                   PROVE  Fifo[Len(seen) + 1] # None
        BY <1>5
      <3>1. Len(seen) \in Nat /\ Len(Fifo) \in Nat
        BY <1>1, InvTypes DEF FirstKeys
      <3> QED BY <3>1, InvTypes, ListTypes
    <2>2. Len(due) <= Len(seen)
      BY <1>1, <2>1 DEF GoesOn
    <2> QED BY <1>1, <1>3, <2>2
  <1> QED BY <1>4, <1>5

(* A walk during which fields are only added and updated, in a table that  *)
(* keeps its size, gives cdo_object_foreach's callback every field that    *)
(* was there when it began, in insertion order.                            *)
THEOREM WalkComplete == WalkSpec => []UndisturbedWalkIsComplete
  BY ObjectInvHolds, WalkInvHolds, WalkIsComplete, PTL

=============================================================================
