---------------------------- MODULE ArrayStorage ----------------------------
(***************************************************************************)
(* The dense items of an array: source/object/array.c, and the calls of    *)
(* source/lib/array.c: pop, which reaches into the items itself, and those *)
(* that walk the array to make another: map, filter, copy and splice.      *)
(* reduce walks as a filter does that keeps nothing.  Strings are reference *)
(* counted; the cells of items beyond items_len are memory the array owns  *)
(* but whose content it does not.                                          *)
(*                                                                         *)
(* The operations of array.c hold the array's lock throughout and are one  *)
(* action each.  array.pop tests items_len before it takes the lock, and a *)
(* walk takes it for every element; its callback may change the array.     *)
(*                                                                         *)
(* Spec is an array that one thread uses, with everything its calls and    *)
(* callbacks may do.  SharedSpec is about array.pop by several threads.    *)
(***************************************************************************)
EXTENDS Integers, Sequences, FiniteSets

CONSTANTS
  Threads,   (* threads that pop; every other call is made by any thread   *)
  Strings,   (* string addresses: one that was freed can be allocated anew *)
  Null,      (* cdo_null()                                                 *)
  Junk,      (* memory from realloc that nothing was written to            *)
  InitCap,   (* the first capacity; 8 in the code                          *)
  MaxIdx,    (* bound: the largest index assigned                          *)
  MaxCap,    (* bound: the largest capacity                                *)
  MaxRefs,   (* bound: references to one string the callers hold           *)
  Modulus    (* 2^32, the width of items_len                               *)

ASSUME ArrayAssumption ==
  /\ InitCap \in Nat \ {0} /\ MaxIdx \in Nat /\ MaxCap \in Nat
  /\ MaxRefs \in Nat /\ Modulus \in Nat /\ Modulus > 2 * MaxCap
  /\ Null \notin Strings /\ Junk \notin Strings /\ Null # Junk

VARIABLES
  items,     (* the cells 0 .. items_cap-1                                 *)
  items_len,
  readonly,
  refs,      (* ref_count of each string, 0 when it is freed               *)
  held,      (* references to each string the callers own                  *)
  popping,   (* the threads in array.pop past the test of items_len        *)
  stray,     (* memory that is no live string was released                 *)
  stolen,    (* history: how many references to each string were released  *)
             (* by assignments although the array did not own them         *)
  walk,      (* the call of array.c that walks the array, or NoWalk        *)
  result     (* the array it makes, and gives to the script                *)

storage == <<items, items_len, readonly, refs, held, popping, stray,
             stolen>>
walking == <<walk, result>>
vars == <<storage, walking>>

Values == Strings \cup {Null}
items_cap == Cardinality(DOMAIN items)

(* index is the next element, count how many there were when it began,     *)
(* arg what the callback is given; was is the list when it began, as long  *)
(* as only appends have changed it, and <<>> and not same after that;      *)
(* shrunk says that the array was made shorter since.                      *)
NoWalk == [kind |-> "none", at |-> "none", index |-> 0, count |-> 0, arg |-> Null,
           was |-> <<>>, same |-> TRUE, shrunk |-> FALSE]

(* cdo_array_new *)
Init ==
  /\ items = <<>>
  /\ items_len = 0
  /\ readonly = FALSE
  /\ refs = [s \in Strings |-> 0]
  /\ held = [s \in Strings |-> 0]
  /\ popping = {}
  /\ stray = FALSE
  /\ stolen = [s \in Strings |-> 0]
  /\ walk = NoWalk
  /\ result = <<>>

(* A value a caller can pass: null or a string it has a reference to. *)
Passable == {Null} \cup {s \in Strings : held[s] > 0}

-----------------------------------------------------------------------------
(* cdo_value_copy, cdo_value_release *)

Copied(r, v) == IF v \in Strings THEN [r EXCEPT ![v] = @ + 1] ELSE r
Released(r, v) ==
  IF v \in Strings /\ r[v] > 0 THEN [r EXCEPT ![v] = @ - 1] ELSE r

(* Callers allocate strings and release theirs. *)
NewString(s) ==
  /\ refs[s] = 0
  /\ refs' = [refs EXCEPT ![s] = 1]
  /\ held' = [held EXCEPT ![s] = 1]
  /\ UNCHANGED <<items, items_len, readonly, popping, stray, stolen, walk, result>>

Drop(s) ==
  /\ held[s] > 0
  /\ held' = [held EXCEPT ![s] = @ - 1]
  /\ refs' = Released(refs, s)
  /\ UNCHANGED <<items, items_len, readonly, popping, stray, stolen, walk, result>>

-----------------------------------------------------------------------------
(* Storage *)

Resized(cap, filler) ==
  [i \in 0..(cap - 1) |-> IF i < items_cap THEN items[i] ELSE filler]

(* push and insert double a full array; realloc leaves the rest unwritten. *)
Room ==
  IF items_len < items_cap THEN items
  ELSE Resized(IF items_cap = 0 THEN InitCap ELSE items_cap * 2, Junk)

WithinBound(cells) == Cardinality(DOMAIN cells) <= MaxCap

(* cdo_array_rawset_idx doubles until idx fits, within the bound, and      *)
(* fills with null.                                                        *)
Capacities(idx) ==
  LET start == IF items_cap = 0 THEN InitCap ELSE items_cap
  IN  {c \in (idx + 1)..MaxCap : \E n \in 0..MaxCap : c = start * 2^n}

RoomFor(idx) ==
  IF idx < items_cap THEN items
  ELSE Resized(CHOOSE c \in Capacities(idx) : \A d \in Capacities(idx) : c <= d, Null)

(* A change by a callback, other than an append; the result of the call,   *)
(* whose strings are its own, is not followed from then on.                *)
InCallback == walk.at = "callback"
Disturbs(shrinks) ==
  /\ walk' = IF InCallback
               THEN [walk EXCEPT !.was = <<>>, !.same = FALSE, !.shrunk = @ \/ shrinks]
               ELSE walk
  /\ result' = IF InCallback THEN <<>> ELSE result

-----------------------------------------------------------------------------
(* cdo_array_push, cdo_array_insert, cdo_array_remove *)

(* variant: the array keeps the caller's reference *)
PushUncopied(v) ==
  /\ ~readonly
  /\ WithinBound(Room)
  /\ items' = [Room EXCEPT ![items_len] = v]
  /\ items_len' = items_len + 1
  /\ UNCHANGED <<readonly, refs, held, popping, stray, stolen, walk, result>>

Push(v) ==
  /\ ~readonly
  /\ WithinBound(Room)
  /\ items' = [Room EXCEPT ![items_len] = v]
  /\ items_len' = items_len + 1
  /\ refs' = Copied(refs, v)
  /\ UNCHANGED <<readonly, held, popping, stray, stolen, walk, result>>

(* An index past the end is the end. *)
Insert(idx, v) ==
  LET at == IF idx > items_len THEN items_len ELSE idx
  IN  /\ ~readonly
      /\ WithinBound(Room)
      /\ items' = [i \in DOMAIN Room |->
                     IF i = at THEN v
                     ELSE IF i > at /\ i <= items_len THEN Room[i - 1]
                     ELSE Room[i]]
      /\ items_len' = items_len + 1
      /\ refs' = Copied(refs, v)
      /\ Disturbs(FALSE)
      /\ UNCHANGED <<readonly, held, popping, stray, stolen>>

(* variant: the last element is moved into the gap *)
RemoveSwap(idx) ==
  /\ ~readonly /\ idx < items_len
  /\ items' = [items EXCEPT ![idx] = items[items_len - 1]]
  /\ items_len' = items_len - 1
  /\ held' = Copied(held, items[idx])
  /\ Disturbs(TRUE)
  /\ UNCHANGED <<readonly, refs, popping, stray, stolen>>

Without(idx) ==
  [i \in DOMAIN items |-> IF i >= idx /\ i + 1 < items_len THEN items[i + 1] ELSE items[i]]

(* The array's reference becomes the caller's.  The cell that was last     *)
(* keeps its content.                                                      *)
Remove(idx) ==
  /\ ~readonly /\ idx < items_len
  /\ items[idx] \in Strings => held[items[idx]] < MaxRefs
  /\ items' = Without(idx)
  /\ items_len' = items_len - 1
  /\ held' = Copied(held, items[idx])
  /\ Disturbs(TRUE)
  /\ UNCHANGED <<readonly, refs, popping, stray, stolen>>

-----------------------------------------------------------------------------
(* cdo_array_rawset_idx *)

(* The cell's old content is released, whether it was an item or lies      *)
(* behind the last one: there it is null, what push's realloc left, or an  *)
(* item that was given away before.                                        *)
RawSetIdx(idx, v) ==
  LET room == RoomFor(idx)
      old == room[idx]
      foreign == idx >= items_len /\ old # Null
  IN  /\ ~readonly
      /\ idx < items_cap \/ Capacities(idx) # {}
      /\ items' = [i \in DOMAIN room |->
                     IF i = idx THEN v
                     ELSE IF i >= items_len /\ i < idx THEN Null
                     ELSE room[i]]
      /\ items_len' = IF idx >= items_len THEN idx + 1 ELSE items_len
      /\ stray' = (foreign /\ (old = Junk \/ refs[old] = 0))
      /\ stolen' = IF foreign /\ ~stray' THEN Copied(stolen, old) ELSE stolen
      /\ refs' = Copied(Released(refs, old), v)
      /\ Disturbs(FALSE)
      /\ UNCHANGED <<readonly, held, popping>>

-----------------------------------------------------------------------------
(* array.pop *)

PopTest(t) ==
  /\ t \notin popping
  /\ items_len # 0
  /\ popping' = popping \cup {t}
  /\ UNCHANGED <<items, items_len, readonly, refs, held, stray, stolen, walk, result>>

(* Under the lock, the last item; what it returns is a copy for the script *)
(* and the array's reference is released.  readonly is not consulted.      *)
PopTake(t) ==
  /\ t \in popping
  /\ popping' = popping \ {t}
  /\ items_len' = (items_len + Modulus - 1) % Modulus
  /\ refs' = IF items_len' \in DOMAIN items
             THEN Released(refs, items[items_len']) ELSE refs
  /\ Disturbs(TRUE)
  /\ UNCHANGED <<items, readonly, held, stray, stolen>>

-----------------------------------------------------------------------------
(* array.map, filter (and reduce), copy and splice *)

List == [n \in 1..items_len |-> items[n - 1]]

WalkBegin(kind) ==
  /\ walk = NoWalk
  /\ walk' = [NoWalk EXCEPT !.kind = kind, !.at = "step", !.count = items_len, !.was = List]
  /\ UNCHANGED <<storage, result>>

SpliceBegin(start, count) ==
  LET from == IF start > items_len THEN items_len ELSE start
      most == items_len - from
  IN  /\ walk = NoWalk
      /\ walk' = [NoWalk EXCEPT !.kind = "splice", !.at = "step", !.index = from, !.was = List,
                                !.count = IF count > most THEN most ELSE count]
      /\ UNCHANGED <<storage, result>>

(* variant: the length is read anew for every element *)
WalkedGrowing == walk.index >= items_len

Walked == walk.index >= walk.count

(* The callback gets a copy of the element; where there is none any more,  *)
(* what the variable on the C stack holds.                                 *)
GiveElement ==
  /\ walk.kind \in {"map", "filter"} /\ walk.at = "step" /\ ~Walked
  /\ walk' = [walk EXCEPT !.at = "callback",
                          !.arg = IF walk.index < items_len THEN items[walk.index] ELSE Junk]
  /\ UNCHANGED <<storage, result>>

(* It returns something, which for map stands for its argument and for     *)
(* filter is true, or nothing; or it fails, and the result is abandoned.   *)
CallbackReturns(something) ==
  /\ InCallback
  /\ walk' = [walk EXCEPT !.at = "step", !.index = @ + 1, !.arg = Null]
  /\ result' = IF ~walk.same THEN <<>>
               ELSE IF walk.kind = "map" THEN Append(result, IF something THEN walk.arg ELSE Null)
               ELSE IF walk.kind = "filter" /\ something THEN Append(result, walk.arg)
               ELSE result
  /\ UNCHANGED storage

CallbackFails ==
  /\ InCallback
  /\ walk' = NoWalk
  /\ result' = <<>>
  /\ UNCHANGED storage

CopyElement ==
  /\ walk.kind = "copy" /\ walk.at = "step" /\ ~Walked
  /\ walk' = [walk EXCEPT !.index = @ + 1]
  /\ IF walk.index < items_len
     THEN /\ result' = Append(result, items[walk.index])
          /\ refs' = Copied(refs, items[walk.index])
     ELSE UNCHANGED <<result, refs>>
  /\ UNCHANGED <<items, items_len, readonly, held, popping, stray, stolen>>

(* Always at start, where the next element has moved to; the result's copy *)
(* takes the place of the reference that the removal has handed out.       *)
SpliceElement ==
  /\ walk.kind = "splice" /\ walk.at = "step" /\ walk.count > 0
  /\ walk' = [walk EXCEPT !.count = @ - 1]
  /\ IF ~readonly /\ walk.index < items_len
     THEN /\ result' = Append(result, items[walk.index])
          /\ items' = Without(walk.index)
          /\ items_len' = items_len - 1
     ELSE UNCHANGED <<result, items, items_len>>
  /\ UNCHANGED <<readonly, refs, held, popping, stray, stolen>>

WalkEnd ==
  /\ walk.at = "step"
  /\ IF walk.kind = "splice" THEN walk.count = 0 ELSE Walked
  /\ walk' = [walk EXCEPT !.at = "given"]
  /\ UNCHANGED <<storage, result>>

(* Only copy and splice share the strings of the array; those of the other *)
(* results were made by the bridge.                                        *)
Copies(seq, s) == Cardinality({n \in DOMAIN seq : seq[n] = s})
InResult(s) == IF walk.kind \in {"copy", "splice"} THEN Copies(result, s) ELSE 0

(* The script looks at the result and drops it; its destruction releases   *)
(* the strings in it.                                                      *)
DropResult ==
  /\ walk.at = "given"
  /\ walk' = NoWalk
  /\ result' = <<>>
  /\ refs' = [s \in Strings |-> IF InResult(s) < refs[s] THEN refs[s] - InResult(s) ELSE 0]
  /\ stray' = \E s \in Strings : InResult(s) > refs[s]
  /\ UNCHANGED <<items, items_len, readonly, held, popping, stolen>>

Walk ==
  \/ \E kind \in {"map", "filter", "copy"} : WalkBegin(kind)
  \/ \E i, n \in 0..MaxIdx : SpliceBegin(i, n)
  \/ GiveElement \/ CallbackFails \/ CopyElement \/ SpliceElement \/ WalkEnd \/ DropResult
  \/ \E b \in BOOLEAN : CallbackReturns(b)

-----------------------------------------------------------------------------
SetReadonly(b) ==
  /\ readonly' = b
  /\ UNCHANGED <<items, items_len, refs, held, popping, stray, stolen, walk, result>>

(* What a script does with the array, between its walks and in callbacks.  *)
Script ==
  \/ \E s \in Strings : NewString(s) \/ Drop(s)
  \/ \E v \in Passable : Push(v) \/ \E i \in 0..MaxIdx : Insert(i, v)
  \/ \E i \in 0..MaxIdx : Remove(i)
  \/ \E i \in 0..MaxIdx, v \in Passable : RawSetIdx(i, v)
  \/ \E t \in Threads : PopTest(t)
  \/ \E b \in BOOLEAN : SetReadonly(b)

Pop == \E t \in Threads : PopTake(t)

(* The references to a string that somebody releases in time.              *)
Owners(s) == held[s] + InResult(s) + Copies(List, s)

(* What is out of bounds, or freed, has not been used yet.  From there on  *)
(* nothing can be said about the program.                                  *)
Sane ==
  /\ items_len <= items_cap
  /\ ~stray
  /\ \A s \in Strings : Owners(s) > 0 => refs[s] > 0

Wild == ~Sane /\ UNCHANGED vars

Next ==
  \/ /\ Sane
     /\ \/ popping # {} /\ Pop
        \/ popping = {} /\ walk.at \in {"none", "callback"} /\ Script
        \/ popping = {} /\ Walk
  \/ Wild

Spec == Init /\ [][Next]_vars

(* Several threads push, remove and pop.  (What other calls do among       *)
(* threads is not modelled: they use items after they have given the lock  *)
(* back, see README.)                                                      *)
SharedNext == (Sane /\ (Script \/ Pop)) \/ Wild

SharedSpec == Init /\ [][SharedNext]_vars

(* An array that is only inserted into, past its end. *)
InsertNext ==
  \/ \E s \in Strings : NewString(s)
  \/ \E i \in 0..MaxIdx, v \in Passable : i > items_len /\ Insert(i, v)

InsertSpec == Init /\ [][InsertNext]_vars

-----------------------------------------------------------------------------
(* Correctness: ownership of the strings in it, and the list it implements. *)

(* Every variable has its type; no item is memory nothing was written to,  *)
(* in the gaps an assignment past the end leaves either.                   *)
TypeOK ==
  /\ DOMAIN items = 0..(items_cap - 1)
  /\ \A i \in DOMAIN items :
       items[i] \in Values \/ (items[i] = Junk /\ i >= items_len)
  /\ items_len \in 0..(Modulus - 1)
  /\ readonly \in BOOLEAN
  /\ refs \in [Strings -> Nat] /\ held \in [Strings -> Nat] /\ stolen \in [Strings -> Nat]
  /\ popping \subseteq Threads
  /\ walk.count \in 0..MaxCap /\ walk.index \in 0..MaxCap
  /\ walk.arg \in Values \cup {Junk}

(* The count of every string is the number of references the array, a copy *)
(* of it and the callers own, less those that were stolen: no operation    *)
(* copies, shifts or hands out a reference without accounting for it, and  *)
(* where no assignment between length and capacity has stolen one, no      *)
(* string is freed that can be reached, and none leaks in the array.       *)
RefsBalanced ==
  ~stray => \A s \in Strings : refs[s] + stolen[s] = Owners(s)

(* A callback is given elements of the array, and never memory that is     *)
(* none of them, unless callbacks have made the array shorter; where they  *)
(* only append, it is given the elements that there were when the call     *)
(* began, one after another.  What map, filter and copy make of these is   *)
(* as long and in the order as the list was; and splice takes out what it  *)
(* returns and nothing else.                                               *)
PickedFrom(part, seq) ==
  \E pick \in [DOMAIN part -> DOMAIN seq] :
    /\ \A m, n \in DOMAIN part : m < n => pick[m] < pick[n]
    /\ \A n \in DOMAIN part : part[n] = seq[pick[n]]

WalksSeeTheList ==
  /\ InCallback => /\ ~walk.shrunk => walk.arg # Junk
                   /\ walk.same => /\ walk.index < Len(walk.was)
                                   /\ walk.arg = walk.was[walk.index + 1]
  /\ walk.kind = "splice" /\ walk.at = "step" =>
       walk.was = SubSeq(List, 1, walk.index) \o result \o SubSeq(List, walk.index + 1, items_len)
  /\ walk.same /\ walk.at = "given" =>
       CASE walk.kind = "map" -> /\ Len(result) = Len(walk.was)
                                 /\ \A n \in DOMAIN result : result[n] \in {walk.was[n], Null}
         [] walk.kind = "filter" -> PickedFrom(result, walk.was)
         [] walk.kind = "copy" -> result = walk.was
         [] OTHER -> TRUE

(* Cells with content of their own, and references that are accounted for. *)
StorageInvariant == TypeOK /\ RefsBalanced

(* The array is the list of array.h, whatever is done to it: the cells     *)
(* behind the length and the capacity do not show.                         *)
Promise ==
  INSTANCE ArrayList WITH
    list <- List, frozen <- readonly,
    Vals <- Values, NullVal <- Null, MaxIndex <- MaxIdx

ImplementsList == Promise!Spec

-----------------------------------------------------------------------------
(* What comments and documents say and the code does not do *)

(* array.h:39-41: an insert past the end fills the gap with null.  The     *)
(* code inserts at the end.                                                *)
InsertsFillGaps == Promise!InsertedPastEnd

(* array.c:127: remove will "hand ownership to caller"; what the array has *)
(* handed over it never releases.  An assignment between the length and    *)
(* the capacity does.                                                      *)
ReleasesOnlyOwn == ~stray /\ \A s \in Strings : stolen[s] = 0

(* docs/standard-library.md:109-111: map, filter and reduce apply f to     *)
(* elements.  The callback gets what is on the C stack where there is no   *)
(* element any more.                                                       *)
CallbacksGetElements == InCallback => walk.arg # Junk

(* docs/threading.md:90-95: reads and writes of arrays by several threads  *)
(* are free of data races.  pop tests the length before it locks.          *)
LengthFits == items_len <= items_cap

=============================================================================
