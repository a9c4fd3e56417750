---------------------------- MODULE MCDispatcher ----------------------------
(* Constants for the runs of Dispatcher.                                    *)
EXTENDS Dispatcher, TLC

CONSTANTS a, b, q1, q2, x, y, w, k1, r1, r2, r3

MCOrder == a :> 1 @@ b :> 2

\* Two rules for servers, the later one (in the file) of higher rank, and a
\* virtual one after both; they match the same key.  Both servers have the
\* remark that the second rule names.
MCHits == [r \in Rules |-> {k1}]
MCPriority == [r \in Rules |-> IF r = r1 THEN 20 ELSE IF r = r2 THEN 10 ELSE 30]
MCNamed == [r \in Rules |-> IF r = r1 THEN {a} ELSE IF r = r2 THEN {a, b} ELSE {Reject}]

\* All zones; or those in which b runs, and a runs, is down at another address, has lost
\* its instance or was deleted.
MCAllZones == Zones
State(q, u, c) == [profile |-> q, up |-> u, addr |-> c, load |-> 0]
MCSomeZones ==
    {a :> State(q1, c[1], c[2]) @@ b :> State(q2, TRUE, w) :
        c \in {<<TRUE, x>>, <<FALSE, y>>, <<TRUE, NoAddr>>}}
    \cup {b :> State(q2, TRUE, w)}

\* Connections and records, and profiles and addresses where no zone names them.
SameCallers == Permutations(Callers) \cup Permutations(RecordIds)
SameObjects == SameCallers \cup Permutations(Addrs) \cup Permutations(Profiles)

=============================================================================
