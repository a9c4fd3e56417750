--------------------------- MODULE GoRemoteTunnel ---------------------------
(***************************************************************************)
(* The single persistent tunnel of a goremote instance:                    *)
(* internal/tunnel/goremote/agent.go.                                      *)
(*                                                                         *)
(* GetConnection gives its callers the current tunnel.  If there is none,  *)
(* one caller dials, without connMutex, and the others wait on connCond.   *)
(* Each tunnel has a read loop of its own, started before the tunnel is    *)
(* installed.  Sections of connMutex are single steps.                     *)
(*                                                                         *)
(* A caller is a goroutine in WritePacket - of a session, or a UDP relay,  *)
(* which is not in the WaitGroup - or one in CheckHealth, which may hold   *)
(* an instance that is being closed.  A write has no deadline: it blocks,  *)
(* with writeMutex, while its peer takes no data.  A tunnel is a dialled   *)
(* connection, never dialled twice; a dial that succeeds needs one that is *)
(* left, which bounds the successful dials of a behaviour.                 *)
(***************************************************************************)
EXTENDS Naturals

CONSTANTS
    Sessions, Relays, Checkers,     \* the callers, by what they are
    Tunnels, NoTunnel,
    MaxCalls        \* bound: calls in a behaviour

ASSUME TunnelAssumption == NoTunnel \notin Tunnels /\ MaxCalls \in Nat

Callers == Sessions \cup Relays \cup Checkers
Readers == {"none", "reading", "closing", "ended"}

VARIABLES
    current,        \* currentTunnel
    reconnecting,   \* the flag of the caller that dials
    open,           \* tunnels whose connection this side has not closed
    broken,         \* tunnels whose connection the network or the server has ended
    stalled,        \* tunnels whose peer takes no more data
    reader,         \* the read loop of each tunnel
    pc, got,        \* a caller's place, and the tunnel it has
    writer,         \* holder of writeMutex; NoTunnel if free
    agent,          \* "running", "closing" (sessions are told to end) or "closed"
    calls           \* calls so far, for the bound

vars == <<current, reconnecting, open, broken, stalled, reader, pc, got, writer,
          agent, calls>>

Init ==
    /\ current = NoTunnel /\ reconnecting = FALSE
    /\ open = {} /\ broken = {} /\ stalled = {}
    /\ reader = [t \in Tunnels |-> "none"]
    /\ pc = [p \in Callers |-> "idle"]
    /\ got = [p \in Callers |-> NoTunnel]
    /\ writer = NoTunnel
    /\ agent = "running" /\ calls = 0

-----------------------------------------------------------------------------
(* GetConnection.                                                           *)

\* WritePacket and CheckHealth start alike; nothing refuses them after Close, which
\* has waited for the sessions only.
Call(p) ==
    /\ pc[p] = "idle"
    /\ calls < MaxCalls /\ calls' = calls + 1
    /\ agent = "closed" => p \notin Sessions
    /\ pc' = [pc EXCEPT ![p] = "get"]
    /\ UNCHANGED <<current, reconnecting, open, broken, stalled, reader, got, writer,
                   agent>>

\* A caller goes on with the tunnel t that GetConnection returned: only
\* WritePacket uses it.
Resume(p) == IF p \in Checkers THEN "idle" ELSE "write"
Keep(p, t) == got' = [got EXCEPT ![p] = IF p \in Checkers THEN NoTunnel ELSE t]
Drop(p) == got' = [got EXCEPT ![p] = NoTunnel]

GetCurrent(p) ==
    /\ pc[p] = "get" /\ current # NoTunnel
    /\ Keep(p, current)
    /\ pc' = [pc EXCEPT ![p] = Resume(p)]
    /\ UNCHANGED <<current, reconnecting, open, broken, stalled, reader, writer, agent,
                   calls>>

GetWait(p) ==
    /\ pc[p] = "get" /\ current = NoTunnel /\ reconnecting
    /\ pc' = [pc EXCEPT ![p] = "wait"]
    /\ UNCHANGED <<current, reconnecting, open, broken, stalled, reader, got, writer,
                   agent, calls>>

\* Nobody else dials; or whoever does (the CompareAndSwap left out).
MayDial_Always == TRUE
MayDial == ~reconnecting

GetDial(p) ==
    /\ pc[p] = "get" /\ current = NoTunnel /\ MayDial
    /\ reconnecting' = TRUE
    /\ pc' = [pc EXCEPT ![p] = "dial"]
    /\ UNCHANGED <<current, open, broken, stalled, reader, got, writer, agent, calls>>

\* The read loop starts at once, before the tunnel is installed.
DialSucceeds(p, t) ==
    /\ pc[p] = "dial" /\ reader[t] = "none"
    /\ open' = open \cup {t}
    /\ reader' = [reader EXCEPT ![t] = "reading"]
    /\ got' = [got EXCEPT ![p] = t]
    /\ pc' = [pc EXCEPT ![p] = "install"]
    /\ UNCHANGED <<current, reconnecting, broken, stalled, writer, agent, calls>>

DialFails(p) ==
    /\ pc[p] = "dial"
    /\ pc' = [pc EXCEPT ![p] = "install"]
    /\ UNCHANGED <<current, reconnecting, open, broken, stalled, reader, got, writer,
                   agent, calls>>

\* Who wakes up: Broadcast wakes every waiter, a failed dial too; or only a good one.
Woken_OnSuccess(p) == IF got[p] = NoTunnel THEN {} ELSE {q \in Callers : pc[q] = "wait"}
Woken(p) == {q \in Callers : pc[q] = "wait"}

\* A failed dial returns an error; or the nil tunnel.
AfterDial_NoCheck(p) == Resume(p)
AfterDial(p) == IF got[p] = NoTunnel THEN "idle" ELSE Resume(p)

Install(p) ==
    /\ pc[p] = "install"
    /\ current' = got[p] /\ Keep(p, got[p])
    /\ reconnecting' = FALSE
    /\ pc' = [q \in Callers |-> IF q = p THEN AfterDial(p)
                                ELSE IF q \in Woken(p) THEN "get" ELSE pc[q]]
    /\ UNCHANGED <<open, broken, stalled, reader, writer, agent, calls>>

-----------------------------------------------------------------------------
(* Use and end of a tunnel.                                                 *)

\* closeConnection closes the connection, if it is the current one; or forgets it.
StillOpen_Forgotten(t) == open
StillOpen(t) == IF current = t THEN open \ {t} ELSE open
CurrentWithout(t) == IF current = t THEN NoTunnel ELSE current

WriteLock(p) ==
    /\ pc[p] = "write" /\ writer = NoTunnel
    /\ writer' = p
    /\ pc' = [pc EXCEPT ![p] = "writing"]
    /\ UNCHANGED <<current, reconnecting, open, broken, stalled, reader, got, agent,
                   calls>>

\* A broken connection may still take data; a closed one does not, and a stalled
\* one neither takes it nor reports an error.
WriteSucceeds(p) ==
    /\ pc[p] = "writing" /\ got[p] \in open \ stalled
    /\ writer' = NoTunnel /\ Drop(p)
    /\ pc' = [pc EXCEPT ![p] = "idle"]
    /\ UNCHANGED <<current, reconnecting, open, broken, stalled, reader, agent, calls>>

WriteFails(p) ==
    /\ pc[p] = "writing" /\ got[p] \in broken \cup (Tunnels \ open)
    /\ open' = StillOpen(got[p]) /\ current' = CurrentWithout(got[p])
    /\ writer' = NoTunnel /\ Drop(p)
    /\ pc' = [pc EXCEPT ![p] = "idle"]
    /\ UNCHANGED <<reconnecting, broken, stalled, reader, agent, calls>>

\* The connection ends, installed or not.
Break(t) ==
    /\ t \in open \ broken
    /\ broken' = broken \cup {t}
    /\ UNCHANGED <<current, reconnecting, open, stalled, reader, pc, got, writer,
                   agent, calls>>

\* The peer stops taking data for good, so that writes block; a stall that passes is
\* a slow write.
Stall(t) ==
    /\ t \in open \ (broken \cup stalled)
    /\ stalled' = stalled \cup {t}
    /\ UNCHANGED <<current, reconnecting, open, broken, reader, pc, got, writer, agent, calls>>

\* The read loop gets an error ...
ReadFails(t) ==
    /\ reader[t] = "reading" /\ t \in broken \cup (Tunnels \ open)
    /\ reader' = [reader EXCEPT ![t] = "closing"]
    /\ UNCHANGED <<current, reconnecting, open, broken, stalled, pc, got, writer,
                   agent, calls>>

\* ... and its deferred closeConnection runs.
ReaderCloses(t) ==
    /\ reader[t] = "closing"
    /\ open' = StillOpen(t) /\ current' = CurrentWithout(t)
    /\ reader' = [reader EXCEPT ![t] = "ended"]
    /\ UNCHANGED <<reconnecting, broken, stalled, pc, got, writer, agent, calls>>

\* UpdateServerProfile drops the current tunnel; a dial under way is not affected.
UpdateServerProfile ==
    /\ current # NoTunnel
    /\ open' = open \ {current} /\ current' = NoTunnel
    /\ UNCHANGED <<reconnecting, broken, stalled, reader, pc, got, writer, agent,
                   calls>>

\* Close: the current tunnel first, then the sessions, each of which says goodbye
\* to the server through WritePacket ...
CloseTunnel ==
    /\ agent = "running"
    /\ agent' = "closing"
    /\ open' = open \ {current} /\ current' = NoTunnel
    /\ UNCHANGED <<reconnecting, broken, stalled, reader, pc, got, writer, calls>>

\* ... and is waited for.  Health checks and UDP relays are not in the WaitGroup.
CloseReturns ==
    /\ agent = "closing"
    /\ \A p \in Sessions : pc[p] = "idle"
    /\ agent' = "closed"
    /\ UNCHANGED <<current, reconnecting, open, broken, stalled, reader, pc, got,
                   writer, calls>>

-----------------------------------------------------------------------------
Step(p) == \/ GetCurrent(p) \/ GetWait(p) \/ GetDial(p)
           \/ (\E t \in Tunnels : DialSucceeds(p, t)) \/ DialFails(p) \/ Install(p)
           \/ WriteLock(p) \/ WriteSucceeds(p) \/ WriteFails(p)

ReadLoop(t) == ReadFails(t) \/ ReaderCloses(t)

Next == \/ \E p \in Callers : Step(p) \/ Call(p)
        \/ \E t \in Tunnels : ReadLoop(t) \/ Break(t) \/ Stall(t)
        \/ UpdateServerProfile \/ CloseTunnel \/ CloseReturns

\* Goroutines run, a dial ends one way or the other (it has a timeout), and a
\* mutex that is let go of is not withheld for ever.  Connections need not break, and
\* one that stalls need not go on.
Spec == Init /\ [][Next]_vars /\ (\A p \in Callers : SF_vars(Step(p)))
             /\ \A t \in Tunnels : WF_vars(ReadLoop(t))

-----------------------------------------------------------------------------
(* Properties.                                                              *)

\* The variables keep their types; WritePacket always has a tunnel to write to.
TypeOK ==
    /\ current \in Tunnels \cup {NoTunnel} /\ reconnecting \in BOOLEAN
    /\ open \in SUBSET Tunnels /\ broken \in SUBSET Tunnels /\ stalled \in SUBSET Tunnels
    /\ reader \in [Tunnels -> Readers]
    /\ pc \in [Callers -> {"idle", "get", "wait", "dial", "install", "write", "writing"}]
    /\ got \in [Callers -> Tunnels \cup {NoTunnel}]
    /\ \A p \in Callers : pc[p] \in {"write", "writing"} => got[p] \in Tunnels
    /\ writer \in Callers \cup {NoTunnel}
    /\ agent \in {"running", "closing", "closed"} /\ calls \in 0..MaxCalls

Dialling(p) == pc[p] \in {"dial", "install"}

\* At most one caller dials, and only while there is no tunnel: a second tunnel
\* never displaces a first (GetConnection, CompareAndSwap on reconnecting).
OneDialer ==
    \A p \in Callers : Dialling(p) =>
        /\ current = NoTunnel
        /\ \A q \in Callers : Dialling(q) => q = p

\* No connection is lost: one that is open is the current tunnel or is about to
\* be installed, whatever breaks, fails or is updated meanwhile.
NoLostTunnel ==
    \A t \in open : t = current \/ \E p \in Callers : pc[p] = "install" /\ got[p] = t

Connecting(p) == pc[p] \in {"get", "wait", "dial", "install"}
Writing(p) == pc[p] \in {"write", "writing"}

\* Every call of GetConnection ends, also for those that wait while another caller's
\* dial fails (the calls of a behaviour are finite).  So does every write, whoever
\* has writeMutex before it, unless some peer takes no data for good and neither
\* the network nor this side ends its connection.
CallsEnd ==
    /\ \A p \in Callers : Connecting(p) ~> ~Connecting(p)
    /\ \/ \A p \in Callers : Writing(p) ~> ~Writing(p)
       \/ \E t \in Tunnels : <>[](t \in stalled /\ t \in open \ broken)

-----------------------------------------------------------------------------
(* The inductive invariant behind the safety properties.                    *)

\* Whoever dials has set the flag, and has no tunnel before the dial succeeds.
DialInv == \A p \in Callers : /\ Dialling(p) => reconnecting
                              /\ pc[p] \in {"idle", "get", "wait", "dial"} => got[p] = NoTunnel

IInv == TypeOK /\ OneDialer /\ NoLostTunnel /\ DialInv

=============================================================================
