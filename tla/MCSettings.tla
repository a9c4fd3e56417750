----------------------------- MODULE MCSettings -----------------------------
(* Constants for the runs of Settings.                                      *)
EXTENDS Settings, TLC

CONSTANTS g1, g2

\* Both gateway settings ask for the same balancer; or for different ones.
SameBalancer == [g \in Gateways |-> "round_robin"]
OtherBalancer == g1 :> "least_connections" @@ g2 :> "round_robin"

=============================================================================
