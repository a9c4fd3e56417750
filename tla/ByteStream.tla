----------------------------- MODULE ByteStream -----------------------------
(***************************************************************************)
(* What a net.Conn keeps of the promise of a byte stream, in one           *)
(* direction: the bytes read are those written, in order and without gaps, *)
(* and io.EOF comes after all of them, but where an empty message comes    *)
(* next, which may be taken for the end.                                   *)
(***************************************************************************)
EXTENDS Naturals, Sequences, SequencesExt

VARIABLES sent, got, eof, empty

vars == <<sent, got, eof>>

Init == sent = <<>> /\ got = <<>> /\ eof = FALSE

Send == /\ IsPrefix(sent, sent') /\ UNCHANGED <<got, eof>>

Receive == /\ IsPrefix(got, got') /\ IsPrefix(got', sent) /\ ~eof
           /\ UNCHANGED <<sent, eof>>

End == /\ got = sent \/ empty
       /\ eof' = TRUE /\ UNCHANGED <<sent, got>>

Next == Send \/ Receive \/ End

Spec == Init /\ [][Next]_vars

=============================================================================
