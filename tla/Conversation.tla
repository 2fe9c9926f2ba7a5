---------------------------- MODULE Conversation -----------------------------
(***************************************************************************)
(* What a Quick Share connection is to the code above the transport: two   *)
(* streams of frames, each delivered once and in the order written, that   *)
(* may stop but never skip, repeat or reorder.                             *)
(***************************************************************************)
EXTENDS Integers, Sequences

CONSTANT Ends

VARIABLES said, heard      \* frames written by, and delivered to, each end

Init == said = [e \in Ends |-> 0] /\ heard = [e \in Ends |-> <<>>]

\* An end writes its next frame.
Say(e) == said' = [said EXCEPT ![e] = @ + 1] /\ UNCHANGED heard

\* An end is handed the next frame of the other.
Hear(e, o) ==
    /\ Len(heard[e]) < said[o]
    /\ heard' = [heard EXCEPT ![e] = Append(@, Len(@) + 1)]
    /\ UNCHANGED said

Next == \E e \in Ends : Say(e) \/ \E o \in Ends \ {e} : Hear(e, o)

Spec == Init /\ [][Next]_<<said, heard>>
==============================================================================
