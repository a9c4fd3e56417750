----------------------------- MODULE Lifecycle -----------------------------
(***************************************************************************)
(* Start and stop of the AppServer: the health check loop, its done()      *)
(* channel, and Stop (internal/app/appserver.go), with Gateway.Close.      *)
(*                                                                         *)
(* Every pass of the loop calls done(), which makes a new channel and a    *)
(* goroutine that closes it under stopOnce, the same sync.Once that guards *)
(* the body of Stop.  A sync.Once lets its first caller run its function   *)
(* and the others wait for it, whoever they are and whatever they passed.  *)
(*                                                                         *)
(* Stop has no caller in the repository; it is modelled as the API offers  *)
(* it, to any goroutine at any time.  It works under configLock, which the *)
(* loop's checks and the requests of the web API take too; a request may   *)
(* start and close instances under it, which AppServer models.             *)
(***************************************************************************)
EXTENDS Naturals

CONSTANTS
    Stoppers,       \* goroutines that may call Stop
    Instances,      \* running strategy instances
    Clients,        \* connections the gateway serves
    MaxPasses,      \* bound: passes of the loop
    Nobody, Finished, Request, NoInstance

Passes == 1..MaxPasses

VARIABLES
    once,        \* stopOnce: free (Nobody), its running caller, or Finished
    loop,        \* "select", "check" and "write" (runHealthChecks) or "exited"
    pass,        \* the loop's current pass; it waits on this pass's channel
    closers,     \* done() goroutines that have not returned, by pass
    closed,      \* done() channels that are closed, by pass
    ticking,     \* the ticker runs
    tick,        \* a tick waits in the ticker's channel of capacity 1
    pc,          \* of the stoppers
    lock,        \* configLock: free (Nobody), a stopper or a Request
    open,        \* instances whose listener is open
    closing,     \* the instance whose CloseTunnel a stopper waits for
    gateway,     \* the gateway's listener is open
    clients      \* connections in the gateway's WaitGroup

vars == <<once, loop, pass, closers, closed, ticking, tick, pc, lock, open, closing,
          gateway, clients>>

Init ==
    /\ once = Nobody
    /\ loop = "select" /\ pass = 1
    /\ closers = {1} /\ closed = {}
    /\ ticking = TRUE
    /\ tick \in BOOLEAN              \* the ticker was started before the bootstrap
    /\ pc = [p \in Stoppers |-> "idle"]
    /\ lock = Nobody /\ closing = NoInstance
    /\ open = Instances /\ gateway = TRUE /\ clients \in SUBSET Clients

-----------------------------------------------------------------------------
(* The health check loop.                                                   *)

\* The ticker never waits: a tick that finds the channel full is dropped.
TimePasses ==
    /\ ticking /\ ~tick
    /\ tick' = TRUE
    /\ UNCHANGED <<once, loop, pass, closers, closed, ticking, pc, lock, open, closing,
                   gateway, clients>>

\* A tick is taken; select chooses freely when the channel is closed too.
TakeTick ==
    /\ loop = "select" /\ tick
    /\ tick' = FALSE
    /\ loop' = "check"
    /\ UNCHANGED <<once, pass, closers, closed, ticking, pc, lock, open, closing, gateway,
                   clients>>

\* runHealthChecks reads the instances under configLock, checks them without it,
\* and writes the results under it, unless there was nothing to check; then the
\* next pass calls done() again.
CheckRead ==
    /\ loop = "check" /\ lock = Nobody
    /\ loop' = "write"
    /\ UNCHANGED <<once, pass, closers, closed, ticking, tick, pc, lock, open, closing, gateway,
                   clients>>

NextPass ==
    /\ loop \in {"check", "write"} /\ lock = Nobody /\ pass < MaxPasses
    /\ loop' = "select" /\ pass' = pass + 1
    /\ closers' = closers \cup {pass'}
    /\ UNCHANGED <<once, closed, ticking, tick, pc, lock, open, closing, gateway, clients>>

LoopExit ==
    /\ loop = "select" /\ pass \in closed
    /\ loop' = "exited"
    /\ UNCHANGED <<once, pass, closers, closed, ticking, tick, pc, lock, open, closing,
                   gateway, clients>>

\* The function a done() goroutine runs under stopOnce closes its channel; or
\* sends on it, and waits for a loop that is still in that pass.
Closing_Send(i) == pass = i /\ loop = "select" /\ closed' = closed \cup {i}
Closing(i) == closed' = closed \cup {i}

\* The goroutine that is first in stopOnce ...
CloserFirst(i) ==
    /\ i \in closers /\ once = Nobody
    /\ once' = i
    /\ UNCHANGED <<loop, pass, closers, closed, ticking, tick, pc, lock, open, closing,
                   gateway, clients>>

CloserRuns(i) ==
    /\ once = i
    /\ Closing(i)
    /\ once' = Finished
    /\ closers' = closers \ {i}
    /\ UNCHANGED <<loop, pass, ticking, tick, pc, lock, open, closing, gateway, clients>>

\* ... and the others, which only wait for the first.
CloserReturns(i) ==
    /\ i \in closers /\ once = Finished
    /\ closers' = closers \ {i}
    /\ UNCHANGED <<once, loop, pass, closed, ticking, tick, pc, lock, open, closing,
                   gateway, clients>>

-----------------------------------------------------------------------------
(* Stop.                                                                    *)

StopCall(p) ==
    /\ pc[p] = "idle"
    /\ pc' = [pc EXCEPT ![p] = "enter"]
    /\ UNCHANGED <<once, loop, pass, closers, closed, ticking, tick, lock, open, closing,
                   gateway, clients>>

\* First in stopOnce: the ticker stops.
StopFirst(p) ==
    /\ pc[p] = "enter" /\ once = Nobody
    /\ once' = p
    /\ ticking' = FALSE
    /\ pc' = [pc EXCEPT ![p] = "lock"]
    /\ UNCHANGED <<loop, pass, closers, closed, tick, lock, open, closing, gateway, clients>>

StopLock(p) ==
    /\ pc[p] = "lock" /\ lock = Nobody
    /\ lock' = p
    /\ pc' = [pc EXCEPT ![p] = "instances"]
    /\ UNCHANGED <<once, loop, pass, closers, closed, ticking, tick, open, closing, gateway,
                   clients>>

\* Under configLock every instance is closed: its CloseTunnel closes the listener
\* and waits for its connections, ...
StopInstance(p, i) ==
    /\ pc[p] = "instances" /\ closing = NoInstance /\ i \in open
    /\ open' = open \ {i} /\ closing' = i
    /\ UNCHANGED <<once, loop, pass, closers, closed, ticking, tick, pc, lock, gateway, clients>>

\* ... which may take for ever.
InstanceClosed(p) ==
    /\ pc[p] = "instances" /\ closing # NoInstance
    /\ closing' = NoInstance
    /\ UNCHANGED <<once, loop, pass, closers, closed, ticking, tick, pc, lock, open, gateway,
                   clients>>

\* Then Gateway.Close closes its listener ...
StopGateway(p) ==
    /\ pc[p] = "instances" /\ closing = NoInstance /\ open = {}
    /\ gateway' = FALSE
    /\ pc' = [pc EXCEPT ![p] = "wait"]
    /\ UNCHANGED <<once, loop, pass, closers, closed, ticking, tick, lock, open, closing, clients>>

\* ... and waits for its connections.
StopWait(p) ==
    /\ pc[p] = "wait" /\ clients = {}
    /\ once' = Finished /\ lock' = Nobody
    /\ pc' = [pc EXCEPT ![p] = "returned"]
    /\ UNCHANGED <<loop, pass, closers, closed, ticking, tick, open, closing, gateway, clients>>

StopReturn(p) ==
    /\ pc[p] = "enter" /\ once = Finished
    /\ pc' = [pc EXCEPT ![p] = "returned"]
    /\ UNCHANGED <<once, loop, pass, closers, closed, ticking, tick, lock, open, closing,
                   gateway, clients>>

\* A request of the web API takes configLock ...
RequestLocks ==
    /\ lock = Nobody
    /\ lock' = Request
    /\ UNCHANGED <<once, loop, pass, closers, closed, ticking, tick, pc, open, closing, gateway,
                   clients>>

\* ... and leaves it, unless a CloseTunnel of its own never returns.
RequestUnlocks ==
    /\ lock = Request
    /\ lock' = Nobody
    /\ open' \in SUBSET Instances
    /\ UNCHANGED <<once, loop, pass, closers, closed, ticking, tick, pc, closing, gateway, clients>>

\* acceptLoop accepts a connection and adds it to the WaitGroup, in which it is itself.
ClientArrives(c) ==
    /\ gateway /\ c \notin clients
    /\ clients' = clients \cup {c}
    /\ UNCHANGED <<once, loop, pass, closers, closed, ticking, tick, pc, lock, open,
                   closing, gateway>>

\* handleConnection returns.
ClientEnds(c) ==
    /\ c \in clients
    /\ clients' = clients \ {c}
    /\ UNCHANGED <<once, loop, pass, closers, closed, ticking, tick, pc, lock, open,
                   closing, gateway>>

-----------------------------------------------------------------------------
Loop == TakeTick \/ CheckRead \/ NextPass \/ LoopExit
Closer(i) == CloserFirst(i) \/ CloserRuns(i) \/ CloserReturns(i)
Stop(p) == \/ StopFirst(p) \/ StopLock(p) \/ (\E i \in Instances : StopInstance(p, i))
           \/ StopGateway(p) \/ StopWait(p) \/ StopReturn(p)

Next == \/ TimePasses \/ Loop
        \/ \E i \in Passes : Closer(i)
        \/ \E p \in Stoppers : StopCall(p) \/ Stop(p) \/ InstanceClosed(p)
        \/ RequestLocks \/ RequestUnlocks
        \/ \E c \in Clients : ClientArrives(c) \/ ClientEnds(c)

\* Goroutines that can run do run, a mutex is not withheld for ever, and time
\* passes.  Nobody has to call Stop, a client may stay for ever, and a CloseTunnel,
\* of Stop or of a request, need not return.
Spec == /\ Init /\ [][Next]_vars
        /\ WF_vars(TimePasses) /\ SF_vars(Loop)
        /\ \A i \in Passes : WF_vars(Closer(i))
        /\ \A p \in Stoppers : SF_vars(Stop(p))

-----------------------------------------------------------------------------
(* Properties.                                                              *)

\* Stop returns, whichever of the loop's goroutines and the other callers are in
\* stopOnce and however requests and checks take configLock, unless one client of
\* the gateway stays for good, or one CloseTunnel never returns.
StopReturns ==
    \/ \A p \in Stoppers : pc[p] = "enter" ~> pc[p] = "returned"
    \/ \E c \in Clients : <>[](c \in clients)
    \/ <>[](closing # NoInstance) \/ <>[](lock = Request)

=============================================================================
