------------------------- MODULE StructuredControl -------------------------
(***************************************************************************)
(* What block-structured control flow promises a CanDo program.  The state *)
(* is the chain of activations, each with the blocks its code is inside    *)
(* of: RETURN leaves the activation whatever blocks it is in, BREAK and    *)
(* CONTINUE act on the innermost loop of their own function, and THROW     *)
(* reaches the innermost TRY that is still open, in whichever activation   *)
(* that is.  VMControl does the same work with three stacks of saved       *)
(* positions and is shown to implement this module.                        *)
(***************************************************************************)
EXTENDS Integers, Sequences, FiniteSets

CONSTANTS
    Main,           \* the top-level chunk
    Fns,            \* the functions of the program
    Native,         \* stands for a library function that calls back
    TryMax, LoopMax, StackMax

VARIABLES acts,     \* the activations, outermost first: [fn, at]
          outcome   \* how the execution ended, "running" before that

vars == <<acts, outcome>>

Loops == {"while", "for"}

Scopes == Loops \cup {"try"}

Top == acts[Len(acts)]

InCode == outcome = "running" /\ Top.fn # Native

\* The open blocks whose kind is in K, as positions in the chain.
OpenScopes(K) ==
    {p \in UNION {{i} \X DOMAIN acts[i].at : i \in DOMAIN acts} :
        acts[p[1]].at[p[2]] \in K}

\* Code leaves block k of activation j and everything opened after it.
LeaveTo(j, k) ==
    acts' = Append(SubSeq(acts, 1, j - 1),
                   [acts[j] EXCEPT !.at = SubSeq(@, 1, k)])

Latest(S) == CHOOSE p \in S : \A q \in S :
                q[1] < p[1] \/ (q[1] = p[1] /\ q[2] <= p[2])

Innermost == Latest({p \in OpenScopes(Loops) : p[1] = Len(acts)})

Ended(how) == acts' = <<>> /\ outcome' = how

Init == acts = <<[fn |-> Main, at |-> <<>>]>> /\ outcome = "running"

Open(s) == /\ InCode
           /\ acts' = [acts EXCEPT ![Len(acts)].at = Append(@, s)]
           /\ UNCHANGED outcome

Close == /\ InCode /\ Top.at # <<>>
         /\ LeaveTo(Len(acts), Len(Top.at) - 1)
         /\ UNCHANGED outcome

\* "inside" is 1 for CONTINUE, which stays in the loop, and 0 for BREAK.
LeaveLoop(inside) ==
    /\ InCode /\ \E p \in OpenScopes(Loops) : p[1] = Len(acts)
    /\ LeaveTo(Len(acts), Innermost[2] - 1 + inside)
    /\ UNCHANGED outcome

Call(f) == /\ InCode
           /\ acts' = Append(acts, [fn |-> f, at |-> <<>>])
           /\ UNCHANGED outcome

CallBack(f) == /\ outcome = "running" /\ Top.fn = Native
               /\ acts' = Append(acts, [fn |-> f, at |-> <<>>])
               /\ UNCHANGED outcome

Return == /\ InCode
          /\ IF Len(acts) = 1
             THEN Ended("halted")
             ELSE acts' = SubSeq(acts, 1, Len(acts) - 1) /\ UNCHANGED outcome

NativeReturn == /\ outcome = "running" /\ Top.fn = Native
                /\ acts' = SubSeq(acts, 1, Len(acts) - 1)
                /\ UNCHANGED outcome

Throw == LET tries == OpenScopes({"try"}) IN
         /\ InCode
         /\ IF tries = {}
            THEN Ended("error")
            ELSE /\ LeaveTo(Latest(tries)[1], Latest(tries)[2] - 1)
                 /\ UNCHANGED outcome

\* A limit stops the program only when that many blocks really are open.
Limit == /\ outcome = "running"
         /\ \/ Cardinality(OpenScopes({"try"})) >= TryMax
            \/ Cardinality(OpenScopes(Loops)) >= LoopMax
            \/ Cardinality(OpenScopes({"for"})) + Len(acts) >= StackMax
         /\ Ended("aborted")

Next == \/ \E s \in Scopes : Open(s)
        \/ Close
        \/ \E i \in {0, 1} : LeaveLoop(i)
        \/ \E f \in Fns \cup {Native} : Call(f)
        \/ \E f \in Fns : CallBack(f)
        \/ Return
        \/ NativeReturn
        \/ Throw
        \/ Limit

Spec == Init /\ [][Next]_vars
=============================================================================
