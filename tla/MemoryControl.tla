---------------------------- MODULE MemoryControl ----------------------------
(***************************************************************************)
(* The memory controller of source/core/memory.c: blocks reached through   *)
(* handles, the registry of live blocks, and the mark-and-sweep collector. *)
(* Allocating, freeing and sweeping exclude each other through gc_lock;    *)
(* clearing the marks and marking the roots do not take it.                *)
(***************************************************************************)
EXTENDS HandleTable

VARIABLES
  live_blocks, (* the registry: a sequence of blocks                       *)
  handle_of,   (* hdr->handle of each block                                *)
  reach,       (* the handles the program can still reach                  *)
  gc,          (* what the collector is doing                              *)
  roots,       (* the roots it was given                                   *)
  todo,        (* those it has yet to mark                                 *)
  next         (* the index the sweep is at                                *)

mvars == <<live_blocks, handle_of, reach, gc, roots, todo, next>>

Blocks == Objects
Registered == {live_blocks[i] : i \in DOMAIN live_blocks}
Remaining == Len(live_blocks)

(* cando_memctrl_init *)
MemInit ==
  /\ Init
  /\ live_blocks = <<>>
  /\ handle_of = [b \in Blocks |-> Invalid]
  /\ reach = {}
  /\ gc = "idle"
  /\ roots = {}
  /\ todo = {}
  /\ next = 1

-----------------------------------------------------------------------------
(* memory.h calls the collection stop-the-world; nothing in memory.c stops *)
(* the program, its caller must.  gc_lock is then never contended.         *)
ProgramRuns == gc = "idle"

(* cando_memctrl_alloc; a block that was freed can be allocated anew. *)
MemAlloc(b) ==
  /\ ProgramRuns
  /\ b \notin Registered
  /\ Alloc(b)
  /\ handle_of' = [handle_of EXCEPT
                     ![b] = IF free_head = Invalid THEN capacity ELSE free_head]
  /\ live_blocks' = Append(live_blocks, b)
  /\ reach' = reach \cup {handle_of'[b]}
  /\ UNCHANGED <<gvars, gc, roots, todo, next>>

(* The program forgets a handle. *)
Forget(h) ==
  /\ ProgramRuns
  /\ reach' = reach \ {h}
  /\ UNCHANGED <<tvars, gvars, live_blocks, handle_of, gc, roots, todo, next>>

(* variant: the last entry is dropped but not moved into the hole *)
UnregisteredDropLast(b) == SubSeq(live_blocks, 1, Remaining - 1)

(* live_unregister: the last entry takes the place of the removed one. *)
Unregistered(b) ==
  [i \in 1..(Remaining - 1) |->
     IF live_blocks[i] = b THEN live_blocks[Remaining] ELSE live_blocks[i]]

(* cando_memctrl_free *)
MemFree(h) ==
  /\ ProgramRuns
  /\ h \in reach
  /\ live_blocks' = Unregistered(slots[h].ptr)
  /\ Free(h)
  /\ reach' = reach \ {h}
  /\ UNCHANGED <<gvars, handle_of, gc, roots, todo, next>>

-----------------------------------------------------------------------------
(* cando_gc_collect, given what the program can reach *)

CollectBegin ==
  /\ gc = "idle"
  /\ gc' = "mark"
  /\ roots' = reach
  /\ todo' = reach
  /\ slots' = [h \in DOMAIN slots |-> [slots[h] EXCEPT !.marked = FALSE]]
  /\ UNCHANGED <<capacity, count, free_head, gvars, live_blocks, handle_of,
                 reach, next>>

MarkRoot(h) ==
  /\ gc = "mark" /\ h \in todo
  /\ todo' = todo \ {h}
  /\ slots' = [slots EXCEPT ![h].marked = TRUE]
  /\ UNCHANGED <<capacity, count, free_head, gvars, live_blocks, handle_of,
                 reach, gc, roots, next>>

(* variant: sweeping before every root is marked *)
SweepEarly ==
  /\ gc = "mark"
  /\ gc' = "sweep"
  /\ next' = 1
  /\ UNCHANGED <<tvars, gvars, live_blocks, handle_of, reach, roots, todo>>

(* cando_gc_sweep takes gc_lock. *)
SweepBegin ==
  /\ gc = "mark" /\ todo = {}
  /\ gc' = "sweep"
  /\ next' = 1
  /\ UNCHANGED <<tvars, gvars, live_blocks, handle_of, reach, roots, todo>>

(* variant: goes on to the next index after freeing *)
SweepSkipping ==
  /\ gc = "sweep" /\ next <= Remaining
  /\ LET b == live_blocks[next] h == handle_of[b]
     IN  \/ /\ ~slots[h].marked
            /\ live_blocks' = Unregistered(b)
            /\ Free(h)
            /\ next' = next + 1
         \/ /\ slots[h].marked
            /\ next' = next + 1
            /\ UNCHANGED <<tvars, live_blocks>>
  /\ UNCHANGED <<gvars, handle_of, reach, gc, roots, todo>>

(* An unmarked block is freed, and the index it was at looked at again. *)
SweepStep ==
  /\ gc = "sweep" /\ next <= Remaining
  /\ LET b == live_blocks[next] h == handle_of[b]
     IN  \/ /\ ~slots[h].marked
            /\ live_blocks' = Unregistered(b)
            /\ Free(h)
            /\ UNCHANGED next
         \/ /\ slots[h].marked
            /\ next' = next + 1
            /\ UNCHANGED <<tvars, live_blocks>>
  /\ UNCHANGED <<gvars, handle_of, reach, gc, roots, todo>>

SweepEnd ==
  /\ gc = "sweep" /\ next > Remaining
  /\ gc' = "idle"
  /\ UNCHANGED <<tvars, gvars, live_blocks, handle_of, reach, roots, todo, next>>

MemNext ==
  \/ \E b \in Blocks : MemAlloc(b)
  \/ \E h \in reach : Forget(h) \/ MemFree(h)
  \/ CollectBegin \/ SweepBegin \/ SweepStep \/ SweepEnd
  \/ \E h \in todo : MarkRoot(h)

MemSpec == MemInit /\ [][MemNext]_<<vars, mvars>>

-----------------------------------------------------------------------------
(* The registry holds each live block once, and a block and its handle     *)
(* name each other: the swap in live_unregister loses and repeats nothing. *)
RegistryMatchesHandles ==
  /\ Cardinality(Registered) = Remaining
  /\ {handle_of[b] : b \in Registered} = LiveSlots
  /\ \A b \in Registered : slots[handle_of[b]].ptr = b

(* What the program can reach is never freed. *)
ReachableSurvives == \A h \in reach : slots[h].live

(* A collection leaves nothing but its roots, however blocks move in the   *)
(* registry while it sweeps.                                               *)
SweepIsComplete ==
  [][SweepEnd => LiveSlots \subseteq roots]_<<vars, mvars>>

=============================================================================
