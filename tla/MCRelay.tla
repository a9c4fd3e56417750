------------------------------ MODULE MCRelay ------------------------------
(* Each side has one item of data, which makes two with the client's first. *)
EXTENDS Relay

MCItems == <<"d1">>

=============================================================================
