---------------------------- MODULE MCAppServer ----------------------------
(* Model values and symmetry for the runs of AppServer.                     *)
EXTENDS AppServer, TLC

Symmetry == Permutations(Servers) \cup Permutations(Profiles)
              \cup Permutations(Instances) \cup Permutations(Requests)

=============================================================================
