------------------------------- MODULE Links -------------------------------
(***************************************************************************)
(* The connections of one client's path through the program: client to     *)
(* gateway, gateway to the strategy's listener (or to the target, when the *)
(* route is DIRECT), strategy to its remote server.  Each has two          *)
(* directions, named by their ends: client c, gateway g, strategy b,       *)
(* remote r.  This is the net.Conn of the library as the code uses it: a   *)
(* direction delivers what was written in order, ends when its writer has  *)
(* closed it (CloseWrite or Close), and a write to a reader that is gone   *)
(* is lost or fails.                                                       *)
(***************************************************************************)
EXTENDS Naturals, Sequences

CONSTANT Cap        \* bound: items on their way in a direction

Dirs == {"cg", "gc", "gb", "bg", "br", "rb"}

VARIABLES
    q,      \* what is on its way in each direction
    fin,    \* directions their writer has closed
    deaf,   \* directions their reader has closed
    mid     \* gateway's connection: "none", "pending" in a backlog, "accepted", "direct"

links == <<q, fin, deaf>>

LinksInit == q = [d \in Dirs |-> <<>>] /\ fin = {} /\ deaf = {} /\ mid = "none"

-----------------------------------------------------------------------------
Arrived(d) == d \notin deaf /\ q[d] # <<>>
Heard(d, S) == Arrived(d) /\ Head(q[d]) \in S

\* A read returns EOF or an error.
AtEnd(d) == d \in deaf \/ (d \in fin /\ q[d] = <<>>)

\* A write returns; it may fail when the other side is gone.
CanWrite(d) == d \notin fin /\ (d \in deaf \/ Len(q[d]) < Cap)
Broken(d) == d \in fin \cup deaf

Take(Q, d) == [Q EXCEPT ![d] = Tail(@)]
Put(Q, d, x) == IF d \in deaf \cup fin THEN Q ELSE [Q EXCEPT ![d] = Append(@, x)]

Set(Q) == q' = Q /\ UNCHANGED <<fin, deaf>>

\* CloseWrite.
Shut(d) == fin' = fin \cup {d} /\ UNCHANGED <<q, deaf>>

\* Close of connections, by the end that writes to outs and reads from ins, after Q was sent.
CloseAfter(Q, outs, ins) ==
    /\ fin' = fin \cup outs /\ deaf' = deaf \cup ins
    /\ q' = [d \in Dirs |-> IF d \in ins THEN <<>> ELSE Q[d]]
Close(outs, ins) == CloseAfter(q, outs, ins)

\* One pass of io.Copy; and its end, by EOF or a failed write.
Copy(from, to) == /\ Arrived(from) /\ CanWrite(to)
                  /\ Set(Put(Take(q, from), to, Head(q[from])))
CopyEnds(from, to) == AtEnd(from) \/ (Arrived(from) /\ Broken(to))

=============================================================================
