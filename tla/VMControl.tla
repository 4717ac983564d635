----------------------------- MODULE VMControl -----------------------------
(***************************************************************************)
(* The control flow of vm_run (source/vm/vm.c): call frames, the TRY and   *)
(* loop stacks, the value stack, the error flag, and the nested vm_run     *)
(* calls a library function makes when it calls back into the program.     *)
(*                                                                         *)
(* A code address is [fn, at, head]: the function whose code it lies in,   *)
(* the blocks around it there, and "head" when it is the condition of a    *)
(* loop just inside those blocks.  The compiler emits well-nested code, so *)
(* this is all that tells addresses apart here; what a program does next   *)
(* at an address is any statement that may stand there.  The values on the *)
(* stack are counted in blocks: "locals" for the slots of a call, "iter"   *)
(* for the iterator a FOR keeps below its body.                            *)
(*                                                                         *)
(* Exits names the ways of leaving a block early that the program uses.    *)
(***************************************************************************)
EXTENDS Integers, SequencesExt, FiniteSets

CONSTANTS
    Main, Fns, Native,
    Exits,       \* subset of ExitKinds
    FramesMax,   \* CANDO_FRAMES_MAX
    TryMax,      \* CANDO_TRY_MAX
    LoopMax,     \* CANDO_LOOP_MAX
    StackMax,    \* CANDO_STACK_MAX, in blocks
    MaxScopes,   \* bound: blocks nested in one function
    MaxRuns      \* bound: vm_run calls nested in one another

ExitKinds == {"return_in_try", "return_in_loop", "break_in_try", "throw_in_callback"}

ASSUME ControlAssumption ==
    /\ Exits \subseteq ExitKinds
    /\ {FramesMax, TryMax, LoopMax, StackMax, MaxScopes, MaxRuns} \subseteq Nat \ {0}
    /\ Main \notin Fns

VARIABLES
    frames,      \* vm->frames[0 .. frame_count-1]: [ip, base]
    runs,        \* the vm_run activations: [stop, frame, ip], ip and frame its C locals
    tries,       \* vm->try_stack[0 .. try_depth-1]
    loops,       \* vm->loop_stack, with the dead entries a TRY may still bring back
    loop_depth,
    stack,       \* the value stack
    has_error,
    mode         \* "code": vm_run executes; "native": a library function does;
                 \* then how the execution ended

vars == <<frames, runs, tries, loops, loop_depth, stack, has_error, mode>>

LoopKinds == {"while", "for"}

NoStop == -1     \* thread_stop_frame = ~0u

Start(f) == [fn |-> f, at |-> <<>>, head |-> "none"]

run == Last(runs)

ip == run.ip

Goto(where) == runs' = [runs EXCEPT ![Len(runs)].ip = where]

Inside(k) == \E i \in 1 .. Len(ip.at) : ip.at[i] = k

\* stack_top is set to n: above the old top lie values already released.
Cut(s, n) == [i \in 1 .. n |-> IF i <= Len(s) THEN s[i] ELSE "released"]

Shorter(s, n) == IF Len(s) > n THEN Cut(s, n) ELSE s

\* Entries of the loop stack above its depth matter only while a TRY frame
\* holds a larger depth to go back to.
Remembered(s, depth, t) ==
    SubSeq(s, 1, CHOOSE n \in 0 .. Len(s) :
                    /\ n = depth \/ \E i \in 1 .. Len(t) : n = t[i].loop_save
                    /\ n >= depth /\ \A i \in 1 .. Len(t) : n >= t[i].loop_save)

Init == /\ frames = <<[ip |-> Start(Main), base |-> 0]>>
        /\ runs = <<[stop |-> NoStop, frame |-> 1, ip |-> Start(Main)]>>
        /\ tries = <<>>
        /\ loops = <<>>
        /\ loop_depth = 0
        /\ stack = <<"locals">>
        /\ has_error = FALSE
        /\ mode = "code"

Abort == /\ mode' = "aborted"
         /\ UNCHANGED <<frames, runs, tries, loops, loop_depth, stack, has_error>>

-----------------------------------------------------------------------------
(* Leaving vm_run and unwinding. *)

\* The innermost vm_run returns to its caller: the host, or the library
\* function that called back.
RunEnds(result) ==
    IF Len(runs) = 1
    THEN mode' = result /\ UNCHANGED runs
    ELSE mode' = "native" /\ runs' = Front(runs)

\* handle_error: the newest TRY frame is the handler, whoever pushed it.
\* Nothing checks that it saved fewer frames, values or loops than there are.
\* Every TRY has a CATCH, so one TRY frame is enough.
HandleError ==
    IF tries = <<>>
    THEN /\ has_error' = TRUE
         /\ RunEnds("error")
         /\ UNCHANGED <<frames, tries, loops, loop_depth, stack>>
    ELSE LET tf == Last(tries) IN
         /\ frames' = Shorter(frames, tf.frame_save)
         /\ stack' = Shorter(stack, tf.stack_save)
         /\ loop_depth' = tf.loop_save
         /\ tries' = Front(tries)
         /\ loops' = Remembered(loops, loop_depth', tries')
         /\ has_error' = FALSE
         /\ mode' = "code"
         /\ runs' = [runs EXCEPT ![Len(runs)].ip = tf.catch_ip,
                                 ![Len(runs)].frame = Len(frames')]

\* Where the program may fail: in a callback with a TRY around the call of
\* the library function only if Exits says so.
MayFail == (tries # <<>> /\ Last(tries).frame_save <= run.stop)
             => "throw_in_callback" \in Exits

\* THROW, or any statement that fails.
Throw == mode = "code" /\ MayFail /\ HandleError

-----------------------------------------------------------------------------
(* TRY *)

TryBegin ==
    /\ mode = "code" /\ ip.head = "none" /\ Len(ip.at) < MaxScopes
    /\ IF Len(tries) >= TryMax
       THEN Abort
       ELSE /\ tries' = Append(tries, [catch_ip   |-> ip,
                                       stack_save |-> Len(stack),
                                       frame_save |-> Len(frames),
                                       loop_save  |-> loop_depth])
            /\ Goto([ip EXCEPT !.at = Append(@, "try")])
            /\ UNCHANGED <<frames, loops, loop_depth, stack, has_error, mode>>

TryEnd ==
    /\ mode = "code" /\ ip.head = "none" /\ ip.at # <<>> /\ Last(ip.at) = "try"
    /\ tries' = IF tries = <<>> THEN tries ELSE Front(tries)
    /\ Goto([ip EXCEPT !.at = Front(@)])
    /\ loops' = Remembered(loops, loop_depth, tries')
    /\ UNCHANGED <<frames, loop_depth, stack, has_error, mode>>

-----------------------------------------------------------------------------
(* Loops *)

\* WHILE, or FOR with OP_FOR_INIT: the next thing is the loop's condition.
LoopInit(kind) ==
    /\ mode = "code" /\ ip.head = "none" /\ Len(ip.at) < MaxScopes
    /\ IF kind = "for" /\ Len(stack) >= StackMax
       THEN Abort
       ELSE /\ stack' = IF kind = "for" THEN Append(stack, "iter") ELSE stack
            /\ Goto([ip EXCEPT !.head = kind])
            /\ UNCHANGED <<frames, tries, loops, loop_depth, has_error, mode>>

\* The condition holds: OP_LOOP_MARK at the top of the body.
LoopMark ==
    LET mark == [break_ip   |-> [ip EXCEPT !.head = "none"],
                 cont_ip    |-> ip,
                 stack_save |-> Len(stack),
                 loop_type  |-> ip.head]
    IN  /\ mode = "code" /\ ip.head \in LoopKinds
        /\ IF loop_depth >= LoopMax
           THEN Abort
           ELSE /\ loops' = [i \in 1 .. loop_depth + 1 |->
                                IF i <= loop_depth THEN loops[i] ELSE mark]
                             \o SubSeq(loops, loop_depth + 2, Len(loops))
                /\ loop_depth' = loop_depth + 1
                /\ Goto([ip EXCEPT !.at = Append(@, ip.head), !.head = "none"])
                /\ UNCHANGED <<frames, tries, stack, has_error, mode>>

\* The iterator is on top of s and is popped; anything else there is read as
\* the counter of an iterator, which the model does not follow.
PopIterator(s) ==
    IF s # <<>> /\ Last(s) = "iter"
    THEN stack' = Front(s) /\ UNCHANGED mode
    ELSE stack' = s /\ mode' = "lost"

\* The condition fails: the WHILE's jump, or OP_FOR_NEXT at the end.
LoopExhausted ==
    /\ mode = "code" /\ ip.head \in LoopKinds
    /\ IF ip.head = "for" THEN PopIterator(stack) ELSE UNCHANGED <<stack, mode>>
    /\ Goto([ip EXCEPT !.head = "none"])
    /\ UNCHANGED <<frames, tries, loops, loop_depth, has_error>>

\* The body ends: OP_LOOP_END, and back to the condition.
LoopEnd ==
    /\ mode = "code" /\ ip.head = "none" /\ ip.at # <<>> /\ Last(ip.at) \in LoopKinds
    /\ loop_depth' = IF loop_depth > 0 THEN loop_depth - 1 ELSE 0
    /\ loops' = Remembered(loops, loop_depth', tries)
    /\ Goto([ip EXCEPT !.at = Front(@), !.head = Last(ip.at)])
    /\ UNCHANGED <<frames, tries, stack, has_error, mode>>

\* Where the source allows BREAK and CONTINUE: in a loop of the same function.
InLoop ==
    /\ mode = "code" /\ ip.head = "none"
    /\ \E k \in LoopKinds : Inside(k)
    /\ Last(ip.at) \notin LoopKinds => "break_in_try" \in Exits

BreakKeepsIterator ==
    /\ InLoop /\ loop_depth > 0
    /\ LET lf == loops[loop_depth] IN
       /\ stack' = Shorter(stack, lf.stack_save)
       /\ loop_depth' = loop_depth - 1
       /\ loops' = Remembered(loops, loop_depth', tries)
       /\ Goto(lf.break_ip)
       /\ UNCHANGED <<frames, tries, has_error, mode>>

Break ==
    /\ InLoop
    /\ IF loop_depth = 0
       THEN HandleError
       ELSE LET lf == loops[loop_depth]
                left == Shorter(stack, lf.stack_save)
            IN  /\ IF lf.loop_type = "for" THEN PopIterator(left)
                   ELSE stack' = left /\ UNCHANGED mode
                /\ loop_depth' = loop_depth - 1
                /\ loops' = Remembered(loops, loop_depth', tries)
                /\ Goto(lf.break_ip)
                /\ UNCHANGED <<frames, tries, has_error>>

Continue ==
    /\ InLoop
    /\ IF loop_depth = 0
       THEN HandleError
       ELSE /\ Goto(loops[loop_depth].cont_ip)
            /\ loop_depth' = loop_depth - 1
            /\ loops' = Remembered(loops, loop_depth', tries)
            /\ UNCHANGED <<frames, tries, stack, has_error, mode>>

-----------------------------------------------------------------------------
(* Calls *)

Call(f) ==
    /\ mode = "code"
    /\ IF Len(frames) >= FramesMax
       THEN MayFail /\ HandleError
       ELSE IF Len(stack) >= StackMax
       THEN Abort
       ELSE /\ frames' = Append([frames EXCEPT ![Len(frames)].ip = ip],
                                [ip |-> Start(f), base |-> Len(stack)])
            /\ stack' = Append(stack, "locals")
            /\ runs' = [runs EXCEPT ![Len(runs)].ip = Start(f),
                                    ![Len(runs)].frame = Len(frames')]
            /\ UNCHANGED <<tries, loops, loop_depth, has_error, mode>>

\* Where the program says RETURN.
MayReturn ==
    /\ mode = "code" /\ ip.head = "none" /\ ip.fn # Main
    /\ Inside("try") => "return_in_try" \in Exits
    /\ (\E k \in LoopKinds : Inside(k)) => "return_in_loop" \in Exits

\* OP_RETURN pops the frame and its part of the value stack, and neither the
\* TRY frames nor the loop frames the function's code has pushed.
Return ==
    LET count == Len(frames) - 1 IN
    /\ MayReturn
    /\ frames' = Front(frames)
    /\ IF count = run.stop
       THEN stack' = Cut(stack, Last(frames).base) /\ RunEnds("halted")
       ELSE IF count = 0
       THEN stack' = <<>> /\ RunEnds("halted")
       ELSE /\ stack' = Cut(stack, Last(frames).base)
            /\ runs' = [runs EXCEPT ![Len(runs)].ip = frames[count].ip,
                                    ![Len(runs)].frame = count]
            /\ UNCHANGED mode
    /\ UNCHANGED <<tries, loops, loop_depth, has_error>>

\* OP_HALT at the end of the top-level chunk.
Halt ==
    /\ mode = "code" /\ ip = Start(Main)
    /\ RunEnds("halted")
    /\ UNCHANGED <<frames, tries, loops, loop_depth, stack, has_error>>

-----------------------------------------------------------------------------
(* Library functions that call back: array.map, filter and reduce, then/catch *)

CallNative ==
    /\ mode = "code" /\ Len(runs) < MaxRuns
    /\ frames' = [frames EXCEPT ![Len(frames)].ip = ip]
    /\ mode' = "native"
    /\ UNCHANGED <<runs, tries, loops, loop_depth, stack, has_error>>

\* vm_call_closure_with_args: a vm_run of its own that stops at this depth.
\* With no frame left it returns as if the callback had returned nothing; the
\* slot-0 value is pushed before that is tested.
CallBack(f) ==
    /\ mode = "native" /\ ~has_error
    /\ IF Len(stack) >= StackMax
       THEN mode' = "aborted" /\ UNCHANGED <<frames, runs, stack>>
       ELSE IF Len(frames) >= FramesMax
       THEN UNCHANGED <<frames, runs, stack, mode>>
       ELSE /\ frames' = Append(frames, [ip |-> Start(f), base |-> Len(stack)])
            /\ stack' = Append(stack, "locals")
            /\ runs' = Append(runs, [stop  |-> Len(frames),
                                     frame |-> Len(frames) + 1,
                                     ip    |-> Start(f)])
            /\ mode' = "code"
    /\ UNCHANGED <<tries, loops, loop_depth, has_error>>

NativeReturnUnchecked ==
    /\ mode = "native"
    /\ mode' = IF run.frame = Len(frames) THEN "code" ELSE "lost"
    /\ UNCHANGED <<frames, runs, tries, loops, loop_depth, stack, has_error>>

\* The library function returns into OP_CALL, which looks at has_error.  A
\* vm_run whose frame is no longer the top one executes on with stale C
\* locals, which the model does not follow.
NativeReturn ==
    /\ mode = "native"
    /\ IF has_error
       THEN HandleError
       ELSE /\ mode' = IF run.frame = Len(frames) THEN "code" ELSE "lost"
            /\ UNCHANGED <<frames, runs, tries, loops, loop_depth, stack, has_error>>

-----------------------------------------------------------------------------

Ended == mode \notin {"code", "native"} /\ UNCHANGED vars

Next == \/ Throw \/ TryBegin \/ TryEnd
        \/ \E k \in LoopKinds : LoopInit(k)
        \/ LoopMark \/ LoopExhausted \/ LoopEnd \/ Break \/ Continue
        \/ \E f \in Fns : Call(f) \/ CallBack(f)
        \/ Return \/ Halt \/ CallNative \/ NativeReturn
        \/ Ended

Spec == Init /\ [][Next]_vars

-----------------------------------------------------------------------------
(***************************************************************************)
(* What the three stacks of saved positions are for: to agree with the     *)
(* blocks the running code is really inside of.                            *)
(***************************************************************************)
Address == [fn : Fns \cup {Main}, at : Seq(LoopKinds \cup {"try"}), head : LoopKinds \cup {"none"}]

\* The vm_run activations and their frames, the saved depths within the
\* limits of vm.h (vm.c:266-277, 3088, 2228).
TypeOK ==
    /\ \A i \in DOMAIN frames : frames[i].ip \in Address /\ frames[i].base \in Nat
    /\ Len(frames) <= FramesMax
    /\ Len(runs) \in 1 .. MaxRuns
    /\ \A r \in DOMAIN runs : runs[r].ip \in Address /\ runs[r].stop \in Nat \cup {NoStop}
    /\ Len(tries) <= TryMax
    /\ loop_depth \in 0 .. LoopMax
    /\ Len(loops) \in loop_depth .. LoopMax
    /\ has_error \in BOOLEAN
    /\ mode \in {"code", "native", "halted", "error", "aborted", "lost"}

Running == mode = "code" \/ (mode = "native" /\ ~has_error)

\* Where the code of frame i is: the running function has it in ip, the
\* others in their frame.
Where(i) == IF i = Len(frames) /\ mode = "code" THEN ip ELSE frames[i].ip

\* The blocks around that place, the loop whose condition is evaluated included.
Blocks(i) == Where(i).at \o (IF Where(i).head = "none" THEN <<>> ELSE <<Where(i).head>>)

\* Frame i's blocks that have pushed a frame on the TRY or the loop stack.
Marked(i, K) == SelectSeq(Where(i).at, LAMBDA s : s \in K)

OverFrames(Part(_)) == FlattenSeq([i \in 1 .. Len(frames) |-> Part(i)])

\* A TRY frame for every TRY block the running code and its callers are
\* inside of, innermost last, each saving the frame count of its function and
\* the loop depth and stack height there were when the block began
\* (vm.c:3086-3101, 3503-3516).
TriesMatch ==
    /\ [k \in DOMAIN tries |-> tries[k].frame_save]
         = OverFrames(LAMBDA i : [k \in DOMAIN Marked(i, {"try"}) |-> i])
    /\ \A k \in DOMAIN tries : /\ tries[k].loop_save <= loop_depth
                               /\ tries[k].stack_save <= Len(stack)
                               /\ tries[k].catch_ip.fn = Where(tries[k].frame_save).fn

\* A loop frame for every loop body, with the loop's kind (vm.c:2219-2241).
LoopsMatch ==
    /\ Len(loops) = loop_depth
    /\ [k \in DOMAIN loops |-> loops[k].loop_type]
         = OverFrames(LAMBDA i : Marked(i, LoopKinds))

\* The value stack holds the slots of every call and, above them, the
\* iterators of that call's FOR loops, and nothing else (vm.c:2178-2199,
\* 2830-2840).
StackMatches ==
    stack = OverFrames(LAMBDA i : <<"locals">> \o
                [k \in DOMAIN SelectSeq(Blocks(i), LAMBDA s : s = "for") |-> "iter"])

\* In a program that leaves its blocks only at their ends or by an error,
\* through any nesting of calls, callbacks, TRY blocks and loops.
StacksMatchCode == TypeOK /\ (Running => TriesMatch /\ LoopsMatch /\ StackMatches)

-----------------------------------------------------------------------------
(* Refinement of StructuredControl *)

Activation(i) == [fn |-> Where(i).fn, at |-> Blocks(i)]

NativeAct == [fn |-> Native, at |-> <<>>]

\* A library function stands above frame i if a nested vm_run stops there.
Acts ==
    LET chain == OverFrames(LAMBDA i : <<Activation(i)>> \o
                    (IF \E r \in DOMAIN runs : runs[r].stop = i THEN <<NativeAct>> ELSE <<>>))
    IN  CASE mode = "code" -> chain
          [] mode = "native" /\ ~has_error -> Append(chain, NativeAct)
          [] OTHER -> <<>>

Outcome == CASE Running -> "running"
             [] mode = "native" /\ has_error -> "error"
             [] OTHER -> mode

Structured == INSTANCE StructuredControl WITH acts <- Acts, outcome <- Outcome

\* RETURN, BREAK, CONTINUE, THROW and callbacks do what block structure says
\* (vm.c:2170-2241, 2577-2681, 3086-3149, 3498-3533).
ImplementsStructuredControl == Structured!Spec

-----------------------------------------------------------------------------
(* What the documentation says *)

\* docs/vm-internals.md:119-120: on error the three saved depths are restored
\* before the jump to catch_ip.
RestoresSavedDepths ==
    [][(Throw /\ tries # <<>>) => /\ Len(frames') = Last(tries).frame_save
                                  /\ Len(stack') = Last(tries).stack_save
                                  /\ loop_depth' = Last(tries).loop_save]_vars
=============================================================================
