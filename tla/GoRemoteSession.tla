-------------------------- MODULE GoRemoteSession --------------------------
(***************************************************************************)
(* Sessions and streams of a goremote instance:                            *)
(* internal/tunnel/goremote/session.go, the dispatch of TCP packets in     *)
(* Agent.StartReadLoop and CloseAllSessions in Agent.Close (agent.go).     *)
(* GoRemoteAgent models the handshake before a session and what Close      *)
(* waits for.                                                              *)
(*                                                                         *)
(* A session carries one client connection over the shared tunnel.  Four   *)
(* goroutines touch it: Start with its two copy loops, and the read loop   *)
(* of the tunnel, which finds sessions and pipes by stream id.  Its        *)
(* closeOnce lets one of them run Close while the other callers wait.      *)
(*                                                                         *)
(* WritePacket is one step here, with its dial (GoRemoteTunnel has its     *)
(* details): it goes to the current tunnel, or to a new one, or fails.  A  *)
(* tunnel that breaks takes with it what is in flight and the server's     *)
(* streams.  The server is not in this repository: it answers, sends data  *)
(* and closes streams as it likes.                                         *)
(***************************************************************************)
EXTENDS Naturals, Sequences

CONSTANTS
    Sessions,   \* client connections
    MaxID,      \* the last stream id before they start again (65530)
    ChanSize,   \* dataChannelSize (512)
    Dials,      \* bound: successful dials
    MaxData,    \* bound: data packets of the server for any two sessions together
    MaxNet,     \* bound: packets in flight from the server
    MaxFaults,  \* bound: clients that leave, tunnels that break, writes that fail
    None

ASSUME SessionAssumption ==
    /\ MaxID \in Nat \ {0} /\ ChanSize \in Nat /\ Dials \in Nat /\ MaxData \in Nat
    /\ None \notin Sessions

IDs == 1..MaxID

VARIABLES
    nextID, id,         \* nextStreamID; the id each session got, 0 before
    sessions, pipes,    \* the SessionManager's maps, by id
    pc, up, down,       \* Start and whether its copy loops run
    once,               \* closeOnce: "free", "closing", "over"
    ready,              \* sessions with a value in readyChan
    chan, shut,         \* dataChan of each session's TunnelStream; those closed
    late,               \* history: sessions whose pipe came after the end of their Close
    plain, gone,        \* client connections this side has open; clients that left
    cur, dialled,       \* current tunnel (0: none), tunnels so far
    faults,             \* faults so far, for the bound
    net, loop,          \* packets on their way here; what each read loop has in hand
    srv, answered,      \* the server's streams by id; those it has confirmed
    sent, got,          \* number of the last packet sent, and of the last one received
    ending,             \* Agent.Close has been called
    crashed             \* the process has panicked

manager == <<nextID, id, sessions, pipes>>
copying == <<up, down, chan, shut, late>>
clients == <<plain, gone>>
tunnel == <<cur, dialled, net, faults>>
server == <<srv, answered, sent>>
vars == <<manager, pc, copying, once, ready, clients, tunnel, loop, server, got,
          ending, crashed>>

NoStreams == [i \in IDs |-> None]
Idle == [at |-> "read", s |-> None, k |-> 0]

\* The clients' handshakes are done, and the ids are about to start again.
Init ==
    /\ nextID = MaxID /\ id = [s \in Sessions |-> 0]
    /\ sessions = NoStreams /\ pipes = NoStreams
    /\ pc = [s \in Sessions |-> "new"] /\ up = {} /\ down = {}
    /\ once = [s \in Sessions |-> "free"] /\ ready = {}
    /\ chan = [s \in Sessions |-> <<>>] /\ shut = {} /\ late = {}
    /\ plain = Sessions /\ gone = {}
    /\ cur = 0 /\ dialled = 0 /\ faults = 0 /\ net = <<>> /\ loop = [t \in 1..Dials |-> Idle]
    /\ srv = NoStreams /\ answered = {}
    /\ sent = [s \in Sessions |-> 0] /\ got = [s \in Sessions |-> 0]
    /\ ending = FALSE /\ crashed = FALSE

Goto(s, from, to) == pc[s] = from /\ pc' = [pc EXCEPT ![s] = to]

-----------------------------------------------------------------------------
(* The tunnel, as sessions see it.                                          *)

Fault == faults < MaxFaults /\ faults' = faults + 1

\* The tunnel is lost; or none can be had any more.
Drop == /\ Fault \/ (cur = 0 /\ dialled = Dials /\ UNCHANGED faults)
        /\ cur' = 0 /\ net' = <<>> /\ srv' = NoStreams
        /\ UNCHANGED <<dialled, answered, sent>>

\* WritePacket succeeds; S is what the server makes of its streams.
Streams == IF cur = 0 THEN NoStreams ELSE srv
WriteOK(S) ==
    /\ cur # 0 \/ dialled < Dials
    /\ cur' = IF cur = 0 THEN dialled + 1 ELSE cur
    /\ dialled' = IF cur = 0 THEN dialled + 1 ELSE dialled
    /\ srv' = S
    /\ UNCHANGED <<net, faults, answered, sent>>

Break ==
    /\ cur # 0 /\ Drop
    /\ UNCHANGED <<manager, pc, copying, once, ready, clients, loop, got, ending, crashed>>

-----------------------------------------------------------------------------
(* NewTCPSession and Session.Start.                                         *)

\* NewTCPSession: the counter is advanced, in another step perhaps started again, and
\* the session stored under its id, whoever was there.
Store(s, i) ==
    /\ id' = [id EXCEPT ![s] = i]
    /\ sessions' = [sessions EXCEPT ![i] = s]

AddStreamID(s) ==
    /\ nextID' = nextID + 1
    /\ IF nextID' > MaxID THEN Goto(s, "new", "restart") /\ UNCHANGED <<id, sessions>>
                          ELSE Goto(s, "new", "start") /\ Store(s, nextID')
    /\ UNCHANGED <<pipes, copying, once, ready, clients, tunnel, loop, server, got,
                   ending, crashed>>

RestartStreamID(s) ==
    /\ Goto(s, "restart", "start")
    /\ nextID' = 1 /\ Store(s, 1)
    /\ UNCHANGED <<pipes, copying, once, ready, clients, tunnel, loop, server, got,
                   ending, crashed>>

\* The first caller of Close starts its body; all of them wait for its end.
CallClose(s) == once' = [once EXCEPT ![s] = IF @ = "free" THEN "closing" ELSE @]

RequestStream(s) ==
    /\ Goto(s, "start", "ready")
    /\ WriteOK([Streams EXCEPT ![id[s]] = s])
    /\ UNCHANGED <<manager, copying, once, ready, clients, loop, got, ending, crashed>>

\* Every return of Start runs its deferred Close.
RequestFails(s) ==
    /\ Goto(s, "start", "ended") /\ CallClose(s) /\ Drop
    /\ UNCHANGED <<manager, copying, ready, clients, loop, got, ending, crashed>>

\* The server has confirmed: the pipe is registered and both copy loops start.
SetStreamPipe(s) ==
    /\ s \in ready /\ Goto(s, "ready", "copy")
    /\ ready' = ready \ {s}
    /\ pipes' = [pipes EXCEPT ![id[s]] = s]
    /\ up' = up \cup {s} /\ down' = down \cup {s}
    /\ late' = IF once[s] = "over" THEN late \cup {s} ELSE late
    /\ UNCHANGED <<nextID, id, sessions, chan, shut, once, clients, tunnel, loop, server, got, ending, crashed>>

\* Ten seconds are over.
TimesOut(s) ==
    /\ Goto(s, "ready", "ended") /\ CallClose(s)
    /\ UNCHANGED <<manager, copying, ready, clients, tunnel, loop, server, got, ending,
                   crashed>>

\* Client to tunnel.  A write may dial a new tunnel, whose server does not know the
\* stream.  The end of this loop closes nothing.
Upload(s) ==
    /\ s \in up /\ s \in plain \ gone /\ WriteOK(Streams)
    /\ UNCHANGED <<manager, pc, copying, once, ready, clients, loop, got, ending, crashed>>

UploadFails(s) ==
    /\ s \in up /\ s \in plain \ gone /\ Drop
    /\ up' = up \ {s}
    /\ UNCHANGED <<manager, pc, down, chan, shut, late, once, ready, clients, loop, got,
                   ending, crashed>>

UploadEnds(s) ==
    /\ s \in up /\ s \notin plain \ gone
    /\ up' = up \ {s}
    /\ UNCHANGED <<manager, pc, down, chan, shut, late, once, ready, clients, tunnel, loop,
                   server, got, ending, crashed>>

\* Tunnel to client.  A client that has left may or may not let the write fail.
Deliver(s) ==
    /\ s \in down /\ chan[s] # <<>> /\ s \in plain
    /\ got' = [got EXCEPT ![s] = Head(chan[s])]
    /\ chan' = [chan EXCEPT ![s] = Tail(@)]
    /\ UNCHANGED <<manager, pc, up, down, shut, late, once, ready, clients, tunnel, loop,
                   server, ending, crashed>>

\* The loop ends with the channel, or with a write that fails, and closes the client.
DeliverEnds(s) ==
    /\ s \in down
    /\ IF chan[s] = <<>> THEN s \in shut ELSE s \notin plain \ gone
    /\ down' = down \ {s} /\ plain' = plain \ {s}
    /\ UNCHANGED <<manager, pc, up, chan, shut, late, once, ready, gone, tunnel, loop,
                   server, got, ending, crashed>>

CopyEnds(s) ==
    /\ s \notin up \cup down /\ Goto(s, "copy", "ended") /\ CallClose(s)
    /\ UNCHANGED <<manager, copying, ready, clients, tunnel, loop, server, got, ending,
                   crashed>>

ClientLeaves(s) ==
    /\ s \in plain \ gone
    /\ Fault /\ gone' = gone \cup {s}
    /\ UNCHANGED <<manager, pc, copying, once, ready, plain, cur, dialled, net, loop, server, got,
                   ending, crashed>>

-----------------------------------------------------------------------------
(* Session.Close.                                                           *)

RemoveStreamPipe_NoClose(i) == pipes' = [pipes EXCEPT ![i] = None] /\ UNCHANGED shut

\* RemoveStreamPipe: whichever pipe has the id is taken from the map and closed.
RemoveStreamPipe(i) ==
    /\ pipes' = [pipes EXCEPT ![i] = None]
    /\ shut' = shut \cup ({pipes[i]} \ {None})

\* The client connection, the pipe, the word to the server (or none, if it cannot be
\* told) and doneChan.
CloseBody(s) ==
    /\ once[s] = "closing"
    /\ once' = [once EXCEPT ![s] = "over"]
    /\ plain' = plain \ {s}
    /\ RemoveStreamPipe(id[s])
    /\ WriteOK([Streams EXCEPT ![id[s]] = None]) \/ Drop
    /\ UNCHANGED <<nextID, id, sessions, pc, up, down, chan, late, ready, gone, loop, got,
                   ending, crashed>>

-----------------------------------------------------------------------------
(* The read loop of tunnel t.                                               *)

Reads(t, kind) ==
    /\ t = cur /\ loop[t] = Idle
    /\ net # <<>> /\ Head(net).kind = kind
    /\ net' = Tail(net)
    /\ UNCHANGED <<cur, dialled, faults, server>>

ReadSuccess(t) ==
    /\ Reads(t, "success")
    /\ ready' = ready \cup ({sessions[Head(net).id]} \ {None})
    /\ UNCHANGED <<manager, pc, copying, once, clients, loop, got, ending, crashed>>

ReadData_Latest(t) ==
    /\ Reads(t, "data")
    /\ loop' = IF down = {} THEN loop
               ELSE [loop EXCEPT ![t] = [at |-> "push", s |-> CHOOSE s \in down : TRUE,
                                         k |-> Head(net).k]]
    /\ UNCHANGED <<manager, pc, copying, once, ready, clients, got, ending, crashed>>

\* GetStreamPipe; data without a pipe is dropped.
ReadData(t) ==
    /\ Reads(t, "data")
    /\ LET p == pipes[Head(net).id]
       IN loop' = IF p = None THEN loop
                  ELSE [loop EXCEPT ![t] = [at |-> "push", s |-> p, k |-> Head(net).k]]
    /\ UNCHANGED <<manager, pc, copying, once, ready, clients, got, ending, crashed>>

PushDownstreamData_Grow(t) ==
    LET s == loop[t].s IN
    /\ loop[t].at = "push"
    /\ loop' = [loop EXCEPT ![t] = Idle]
    /\ crashed' = (s \in shut)
    /\ chan' = [chan EXCEPT ![s] = IF s \in shut THEN @ ELSE Append(@, loop[t].k)]
    /\ UNCHANGED <<manager, pc, up, down, shut, late, once, ready, clients, tunnel, server,
                   got, ending>>

\* PushDownstreamData: a send on a closed channel panics, a full one drops the data.
PushDownstreamData(t) ==
    LET s == loop[t].s IN
    /\ loop[t].at = "push"
    /\ loop' = [loop EXCEPT ![t] = Idle]
    /\ crashed' = (s \in shut)
    /\ chan' = [chan EXCEPT ![s] = IF s \in shut \/ Len(@) >= ChanSize THEN @
                                   ELSE Append(@, loop[t].k)]
    /\ UNCHANGED <<manager, pc, up, down, shut, late, once, ready, clients, tunnel, server,
                   got, ending>>

\* CloseStream: the pipe first ...
ReadClose(t) ==
    /\ Reads(t, "close")
    /\ RemoveStreamPipe(Head(net).id)
    /\ loop' = [loop EXCEPT ![t] = [at |-> "remove", s |-> None, k |-> Head(net).id]]
    /\ UNCHANGED <<nextID, id, sessions, pc, up, down, chan, late, once, ready, clients,
                   got, ending, crashed>>

\* ... then RemoveSession, which waits for the session's Close.
RemoveSession(t) ==
    LET s == sessions[loop[t].k] IN
    /\ loop[t].at = "remove"
    /\ sessions' = [sessions EXCEPT ![loop[t].k] = None]
    /\ IF s = None THEN loop' = [loop EXCEPT ![t] = Idle] /\ UNCHANGED once
       ELSE loop' = [loop EXCEPT ![t] = [at |-> "close", s |-> s, k |-> 0]] /\ CallClose(s)
    /\ UNCHANGED <<nextID, id, pipes, pc, copying, ready, clients, tunnel, server, got,
                   ending, crashed>>

SessionRemoved(t) ==
    /\ loop[t].at = "close" /\ once[loop[t].s] = "over"
    /\ loop' = [loop EXCEPT ![t] = Idle]
    /\ UNCHANGED <<manager, pc, copying, once, ready, clients, tunnel, server, got,
                   ending, crashed>>

-----------------------------------------------------------------------------
(* The server.                                                              *)

Sends(i, kind, k) ==
    /\ cur # 0 /\ srv[i] # None /\ Len(net) < MaxNet
    /\ net' = Append(net, [kind |-> kind, id |-> i, s |-> srv[i], k |-> k])
    /\ UNCHANGED <<manager, pc, copying, once, ready, clients, cur, dialled, faults, loop, got,
                   ending, crashed>>

ServerAnswers(i) ==
    /\ Sends(i, "success", 0)
    /\ srv[i] \notin answered /\ answered' = answered \cup {srv[i]}
    /\ UNCHANGED <<srv, sent>>

ServerSends(i) ==
    /\ Sends(i, "data", sent[srv[i]] + 1)
    /\ srv[i] \in answered /\ sent[srv[i]] < MaxData
    /\ \A s \in Sessions \ {srv[i]} : sent[s] + sent[srv[i]] < MaxData
    /\ sent' = [sent EXCEPT ![srv[i]] = @ + 1]
    /\ UNCHANGED <<srv, answered>>

ServerCloses(i) ==
    /\ Sends(i, "close", 0)
    /\ srv' = [srv EXCEPT ![i] = None]
    /\ UNCHANGED <<answered, sent>>

-----------------------------------------------------------------------------
(* Agent.Close (its waiting is modelled in GoRemoteAgent).                  *)

AgentClose ==
    /\ ~ending /\ ending' = TRUE
    /\ Drop
    /\ UNCHANGED <<manager, pc, copying, once, ready, clients, loop, got, crashed>>

\* CloseAllSessions comes to id i of the map, in no particular order.
CloseSession(i) ==
    /\ ending /\ sessions[i] # None
    /\ CallClose(sessions[i])
    /\ UNCHANGED <<manager, pc, copying, ready, clients, tunnel, loop, server, got, ending,
                   crashed>>

-----------------------------------------------------------------------------
Start(s) == \/ RestartStreamID(s) \/ RequestStream(s) \/ RequestFails(s)
            \/ SetStreamPipe(s) \/ TimesOut(s) \/ CopyEnds(s)
UpLoop(s) == UploadFails(s) \/ UploadEnds(s)
DownLoop(s) == Deliver(s) \/ DeliverEnds(s)
ReadLoop(t) == \/ ReadSuccess(t) \/ ReadData(t) \/ PushDownstreamData(t)
               \/ ReadClose(t) \/ RemoveSession(t) \/ SessionRemoved(t)
Server(i) == ServerAnswers(i) \/ ServerSends(i) \/ ServerCloses(i)

Next ==
    /\ ~crashed
    /\ \/ \E s \in Sessions :
             \/ AddStreamID(s) \/ ClientLeaves(s)
             \/ Start(s) \/ Upload(s) \/ UpLoop(s) \/ DownLoop(s) \/ CloseBody(s)
       \/ \E t \in 1..Dials : ReadLoop(t)
       \/ \E i \in IDs : Server(i) \/ CloseSession(i)
       \/ AgentClose \/ Break

Spec == Init /\ [][Next]_vars

-----------------------------------------------------------------------------
(* Properties.                                                              *)

\* Every variable has its type; no data channel holds more than it can.
TypeOK ==
    /\ nextID \in Nat /\ id \in [Sessions -> 0..MaxID]
    /\ sessions \in [IDs -> Sessions \cup {None}] /\ pipes \in [IDs -> Sessions \cup {None}]
    /\ up \subseteq Sessions /\ down \subseteq Sessions /\ shut \subseteq Sessions
    /\ late \subseteq Sessions
    /\ once \in [Sessions -> {"free", "closing", "over"}]
    /\ chan \in [Sessions -> Seq(1..MaxData)] /\ \A s \in Sessions : Len(chan[s]) <= ChanSize
    /\ cur \in 0..Dials /\ srv \in [IDs -> Sessions \cup {None}]
    /\ got \in [Sessions -> 0..MaxData] /\ ending \in BOOLEAN

Shared == \E s, q \in Sessions : s # q /\ id[s] = id[q] /\ id[s] # 0

Ordered == INSTANCE OrderedStream WITH open <- plain, mixed <- Shared

\* What a client receives is an ordered stream (OrderedStream): its own packets, in
\* order, each once at most, although they are looked up by id, pushed into a channel
\* that may be full, and dropped before the pipe is there.  It holds as long as no two
\* sessions have the same id.
OrderedStreams == Ordered!Spec

\* A download loop waits on its channel only.  As long as that is open, the session's id
\* leads to it in the map, for RemoveStreamPipe to close it, and the session's Close is
\* still to come - unless it was over before SetStreamPipe, after which nobody need
\* come.  (Sessions that share an id are left out.)
NoOrphanedLoop ==
    \A s \in down :
        \/ Shared
        \/ s \in shut
        \/ pipes[id[s]] = s /\ (once[s] = "over" => s \in late)

=============================================================================
