--------------------------- MODULE OrderedStream ---------------------------
(***************************************************************************)
(* What a goremote session promises its client about the data of its       *)
(* stream: each packet at most once and in the order in which the server   *)
(* sent them, possibly with gaps, and nothing once the client's connection *)
(* is closed.  The promise ends where two sessions share a stream id.      *)
(***************************************************************************)
EXTENDS Naturals

CONSTANT Sessions

VARIABLES
    sent,       \* packets the server has sent on each stream
    got,        \* number of the last packet the client has received
    open,       \* sessions whose client connection is open
    mixed       \* two sessions have the same stream id

vars == <<sent, got, open, mixed>>

Init == /\ sent = [s \in Sessions |-> 0] /\ got = [s \in Sessions |-> 0]
        /\ open = Sessions /\ mixed = FALSE

Send(s) == sent' = [sent EXCEPT ![s] = @ + 1] /\ UNCHANGED <<got, open>>

Deliver(s) ==
    /\ s \in open
    /\ \E k \in (got[s] + 1)..sent[s] : got' = [got EXCEPT ![s] = k]
    /\ UNCHANGED <<sent, open>>

End(s) == open' = open \ {s} /\ UNCHANGED <<sent, got>>

Next == \E s \in Sessions : Send(s) \/ Deliver(s) \/ End(s)

Spec == Init /\ [][mixed' \/ Next]_vars

=============================================================================
