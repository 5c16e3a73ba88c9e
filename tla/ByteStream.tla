------------------------------ MODULE ByteStream ------------------------------
(***************************************************************************)
(* What the receiving half of a TCP connection promises its application:   *)
(* the bytes the peer sent, each once and in order, and the end of the     *)
(* stream only after the last of them.                                     *)
(***************************************************************************)
EXTENDS Naturals, Sequences

CONSTANT Total      \* how many bytes the peer sends; byte i is number i

VARIABLES
    delivered,      \* the bytes the application has, in the order it got them
    ended           \* a reader was told that there is no more

streamVars == <<delivered, ended>>

FirstBytes(n) == [i \in 1..n |-> i - 1]

Init ==
    /\ delivered = <<>>
    /\ ended = FALSE

Deliver ==
    /\ ~ended
    /\ \E n \in Len(delivered) + 1..Total : delivered' = FirstBytes(n)
    /\ UNCHANGED ended

\* The last bytes may arrive in the step that ends the stream.
End ==
    /\ delivered' = FirstBytes(Total)
    /\ ended' = TRUE

Next == Deliver \/ End

Spec == Init /\ [][Next]_streamVars

=============================================================================
