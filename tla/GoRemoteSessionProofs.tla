----------------------- MODULE GoRemoteSessionProofs -----------------------
(***************************************************************************)
(* The sessions of a goremote instance, for any number of sessions, stream *)
(* ids, tunnels, faults and packets: their download loops can always be    *)
(* ended, and they implement OrderedStream.                                *)
(***************************************************************************)
EXTENDS GoRemoteSession, TLAPS

Places == {"new", "restart", "start", "ready", "copy", "ended"}
Fresh == {"new", "restart"}
OnceStates == {"free", "closing", "over"}

\* A session has an id once NewTCPSession is done with it, and no loops before.
IdInv ==
    /\ nextID \in Nat
    /\ id \in [Sessions -> 0..MaxID] /\ pc \in [Sessions -> Places]
    /\ pipes \in [IDs -> Sessions \cup {None}] /\ down \subseteq Sessions
    /\ once \in [Sessions -> OnceStates] /\ late \subseteq Sessions
    /\ \A s \in Sessions : IF pc[s] \in Fresh THEN id[s] = 0 /\ s \notin down
                                              ELSE id[s] \in IDs

IInv == IdInv /\ NoOrphanedLoop

\* At most the Close of a session of S ends in this step.
EndsOnly(S) ==
    /\ once' \in [Sessions -> OnceStates]
    /\ \A s \in Sessions \ S : once'[s] = "over" => once[s] = "over"

\* Sessions before NewTCPSession satisfy the inductive invariant.
LEMMA Initially == Init => IInv
<1> SUFFICES ASSUME Init PROVE IInv
  OBVIOUS
<1>1. pipes \in [IDs -> Sessions \cup {None}]
  BY DEF Init, NoStreams
<1>2. IdInv
  BY <1>1, SessionAssumption DEF Init, IdInv, Places, Fresh, OnceStates
<1>3. NoOrphanedLoop
  BY DEF Init, NoOrphanedLoop
<1> QED  BY <1>2, <1>3 DEF IInv

\* Steps that give no ids, register no pipe and start no loop: a session may go on to a
\* later place, a loop may end, the pipe of an id may be removed, as it is when a Close
\* ends.
LEMMA LaterStep ==
  ASSUME IInv, UNCHANGED <<nextID, id, late>>, down' \subseteq down,
         \/ pc' = pc
         \/ \E s \in Sessions, x \in Places \ Fresh :
                pc[s] \notin Fresh /\ pc' = [pc EXCEPT ![s] = x],
         \/ EndsOnly({}) /\ UNCHANGED <<pipes, shut>>
         \/ EndsOnly({}) /\ \E i : RemoveStreamPipe(i)
         \/ \E s \in Sessions : EndsOnly({s}) /\ RemoveStreamPipe(id[s])
  PROVE  IInv'
<1>1. IdInv'
  BY DEF IInv, IdInv, RemoveStreamPipe, EndsOnly
<1>2. Shared' = Shared
  BY DEF Shared
<1>3. NoOrphanedLoop'
  <2> SUFFICES ASSUME NEW s \in down', ~Shared, s \notin shut'
               PROVE  pipes'[id'[s]] = s /\ (once'[s] = "over" => s \in late')
    BY <1>2 DEF NoOrphanedLoop
  <2>1. s \in Sessions /\ s # None /\ id[s] \in IDs
    BY SessionAssumption DEF IInv, IdInv
  <2>2. shut \subseteq shut'
    BY DEF RemoveStreamPipe
  <2>3. pipes[id[s]] = s /\ (once[s] = "over" => s \in late)
    BY <2>2 DEF IInv, NoOrphanedLoop
  <2>4. pipes'[id[s]] = s
    BY <2>1, <2>3 DEF IInv, IdInv, RemoveStreamPipe
  <2>5. \A q \in Sessions : RemoveStreamPipe(id[q]) => q # s
    BY <2>1, <2>3, <2>4 DEF IInv, IdInv, RemoveStreamPipe
  <2>6. once'[s] = "over" => once[s] = "over"
    BY <2>1, <2>5 DEF EndsOnly
  <2> QED  BY <2>3, <2>4, <2>6
<1> QED  BY <1>1, <1>3 DEF IInv

\* An id is given to a session that had none: the ids that were shared still are.
LEMMA GiveID ==
  ASSUME IInv, NEW s \in Sessions, pc[s] \in Fresh, NEW i \in IDs, Store(s, i),
         nextID' \in Nat, pc' = [pc EXCEPT ![s] = "start"], UNCHANGED <<pipes, down, shut, once, late>>
  PROVE  IInv'
<1>1. IdInv'
  BY SessionAssumption DEF IInv, IdInv, Store, Places, Fresh, IDs
<1>2. id[s] = 0 /\ \A q \in Sessions : q # s => id'[q] = id[q]
  BY DEF IInv, IdInv, Store
<1>3. Shared => Shared'
  BY <1>2 DEF Shared
<1>4. NoOrphanedLoop'
  BY <1>2, <1>3 DEF IInv, IdInv, NoOrphanedLoop
<1> QED  BY <1>1, <1>4 DEF IInv

\* NewTCPSession advances the counter.
LEMMA AddStep == ASSUME IInv, NEW s \in Sessions, AddStreamID(s) PROVE IInv'
<1>1. CASE nextID' > MaxID
  <2>1. pc' = [pc EXCEPT ![s] = "restart"] /\ pc[s] = "new" /\ id' = id
    BY <1>1 DEF AddStreamID, Goto
  <2>2. IdInv'
    BY <2>1 DEF AddStreamID, IInv, IdInv, Places, Fresh, copying
  <2>3. NoOrphanedLoop'
    BY <2>1 DEF AddStreamID, IInv, NoOrphanedLoop, Shared, copying
  <2> QED  BY <2>2, <2>3 DEF IInv
<1>2. CASE ~(nextID' > MaxID)
  <2>1. nextID' \in IDs
    BY <1>2, SessionAssumption DEF AddStreamID, IInv, IdInv, IDs
  <2> QED
    BY <1>2, <2>1, GiveID DEF AddStreamID, Goto, Fresh, copying, IDs
<1> QED  BY <1>1, <1>2

\* NewTCPSession starts the ids again.
LEMMA RestartStep == ASSUME IInv, NEW s \in Sessions, RestartStreamID(s) PROVE IInv'
<1>1. 1 \in IDs
  BY SessionAssumption DEF IDs
<1> QED  BY <1>1, GiveID DEF RestartStreamID, Goto, Fresh, copying

\* Whoever loses its pipe to a new session has the same id as that session.
LEMMA PipeStep == ASSUME IInv, NEW s \in Sessions, SetStreamPipe(s) PROVE IInv'
<1>1. /\ pc[s] = "ready" /\ pc' = [pc EXCEPT ![s] = "copy"]
      /\ pipes' = [pipes EXCEPT ![id[s]] = s] /\ down' = down \cup {s}
      /\ id' = id /\ nextID' = nextID /\ shut' = shut /\ once' = once
      /\ late' = IF once[s] = "over" THEN late \cup {s} ELSE late
  BY DEF SetStreamPipe, Goto
<1>2. IdInv'
  BY <1>1 DEF IInv, IdInv, Places, Fresh
<1>3. id[s] \in IDs /\ id[s] # 0
  BY <1>1 DEF IInv, IdInv, Fresh, IDs
<1>4. NoOrphanedLoop'
  <2> SUFFICES ASSUME NEW q \in down \cup {s}, ~Shared, q \notin shut
               PROVE  pipes'[id[q]] = q /\ (once[q] = "over" => q \in late')
    BY <1>1 DEF NoOrphanedLoop, Shared
  <2>1. CASE q = s
    BY <1>1, <1>3, <2>1 DEF IInv, IdInv
  <2>2. CASE q # s
    <3>1. q \in Sessions /\ id[q] # id[s] /\ id[q] \in IDs
      BY <1>3, <2>2 DEF Shared, IInv, IdInv
    <3> QED  BY <1>1, <2>2, <3>1 DEF IInv, IdInv, NoOrphanedLoop
  <2> QED  BY <2>1, <2>2
<1> QED  BY <1>2, <1>4 DEF IInv

\* Session.Start, other than where it registers the pipe.
LEMMA StartStep ==
  ASSUME IInv, NEW s \in Sessions,
         RequestStream(s) \/ RequestFails(s) \/ TimesOut(s) \/ CopyEnds(s)
  PROVE  IInv'
<1>1. PICK x \in {"ready", "ended"} : pc[s] \notin Fresh /\ pc' = [pc EXCEPT ![s] = x]
  BY DEF RequestStream, RequestFails, TimesOut, CopyEnds, Goto, Fresh
<1>2. x \in Places \ Fresh
  BY DEF Places, Fresh
<1>3. UNCHANGED <<nextID, id, late, pipes, shut, down>>
  BY DEF RequestStream, RequestFails, TimesOut, CopyEnds, manager, copying
<1>4. EndsOnly({})
  BY DEF RequestStream, RequestFails, TimesOut, CopyEnds, CallClose, EndsOnly, OnceStates, IInv,
         IdInv
<1> QED  BY <1>1, <1>2, <1>3, <1>4, LaterStep

\* The copy loops, Session.Close and the client.
LEMMA LoopStep ==
  ASSUME IInv, NEW s \in Sessions,
         Upload(s) \/ UpLoop(s) \/ DownLoop(s) \/ CloseBody(s) \/ ClientLeaves(s)
  PROVE  IInv'
<1>1. UNCHANGED <<nextID, id, late, pc>> /\ down' \subseteq down
  BY DEF Upload, UpLoop, UploadFails, UploadEnds, DownLoop, Deliver, DeliverEnds, CloseBody,
         ClientLeaves, manager, copying
<1>2. CASE CloseBody(s)
  <2>1. EndsOnly({s}) /\ RemoveStreamPipe(id[s])
    BY <1>2 DEF CloseBody, EndsOnly, OnceStates, IInv, IdInv
  <2> QED  BY <1>1, <2>1, LaterStep
<1>3. CASE Upload(s) \/ UpLoop(s) \/ DownLoop(s) \/ ClientLeaves(s)
  <2>1. UNCHANGED <<pipes, shut, once>>
    BY <1>3 DEF Upload, UpLoop, UploadFails, UploadEnds, DownLoop, Deliver, DeliverEnds,
           ClientLeaves, manager, copying
  <2>2. EndsOnly({})
    BY <2>1 DEF EndsOnly, IInv, IdInv
  <2> QED  BY <1>1, <2>1, <2>2, LaterStep
<1> QED  BY <1>2, <1>3

\* The read loops; CloseStream removes a pipe.
LEMMA ReadStep == ASSUME IInv, NEW t, ReadLoop(t) PROVE IInv'
<1>1. UNCHANGED <<nextID, id, late, pc, down>>
  BY DEF ReadLoop, ReadSuccess, ReadData, PushDownstreamData, ReadClose, RemoveSession,
         SessionRemoved, manager, copying
<1>2. UNCHANGED <<pipes, shut>> \/ \E i : RemoveStreamPipe(i)
  BY DEF ReadLoop, ReadSuccess, ReadData, PushDownstreamData, ReadClose, RemoveSession,
         SessionRemoved, manager, copying
<1>3. EndsOnly({})
  BY DEF ReadLoop, ReadSuccess, ReadData, PushDownstreamData, ReadClose, RemoveSession,
         SessionRemoved, CallClose, EndsOnly, OnceStates, IInv, IdInv
<1> QED  BY <1>1, <1>2, <1>3, LaterStep

\* The server, Agent.Close and the network leave pipes and loops alone.
LEMMA OtherStep ==
  ASSUME IInv, \/ \E i \in IDs : Server(i) \/ CloseSession(i)
               \/ AgentClose \/ Break \/ UNCHANGED vars
  PROVE  IInv'
<1>1. UNCHANGED <<nextID, id, late, pc, down, pipes, shut>>
  BY DEF Server, ServerAnswers, ServerSends, ServerCloses, Sends, CloseSession, AgentClose,
         Break, manager, copying, vars
<1>2. EndsOnly({})
  BY DEF Server, ServerAnswers, ServerSends, ServerCloses, Sends, CloseSession, AgentClose,
         Break, CallClose, vars, EndsOnly, OnceStates, IInv, IdInv
<1> QED  BY <1>1, <1>2, LaterStep

\* Every step preserves the inductive invariant.
LEMMA Step == ASSUME IInv, [Next]_vars PROVE IInv'
<1>1. ASSUME NEW s \in Sessions, Start(s) PROVE IInv'
  BY <1>1, RestartStep, PipeStep, StartStep DEF Start
<1> QED  BY <1>1, AddStep, LoopStep, ReadStep, OtherStep DEF Next

\* A download loop whose channel is open has its pipe in the manager's map, where
\* RemoveStreamPipe finds it, and the Close of its session is still to come or was over
\* before the pipe was registered, whoever closed sessions, registered pipes or got ids
\* meanwhile; unless two sessions share an id.
THEOREM LoopsCanEnd == Spec => []NoOrphanedLoop
<1>1. IInv => NoOrphanedLoop
  BY DEF IInv
<1> QED  BY <1>1, Initially, Step, PTL DEF Spec

-----------------------------------------------------------------------------
(* The streams: types, and what keeps the packets of a session in order.    *)

Later == {"ready", "copy", "ended"}

Packets == [kind : {"success", "data", "close"}, id : IDs, s : Sessions, k : Nat]
Hands == [at : {"read", "push", "remove", "close"}, s : Sessions \cup {None}, k : Nat]

Types ==
    /\ srv \in [IDs -> Sessions \cup {None}] /\ net \in Seq(Packets)
    /\ loop \in [1..Dials -> Hands]
    /\ \A t \in 1..Dials : /\ loop[t].at = "push" => loop[t].s \in Sessions
                           /\ loop[t].at = "remove" => loop[t].k \in IDs
    /\ chan \in [Sessions -> Seq(Nat)]
    /\ got \in [Sessions -> Nat] /\ sent \in [Sessions -> Nat]
    /\ sessions \in [IDs -> Sessions \cup {None}]
    /\ cur \in 0..dialled /\ dialled \in 0..Dials

\* Streams, pipes and packets bear the id of their session, which has asked for its
\* stream already.
Known(s, i) == id[s] = i /\ pc[s] \in Later

KnownInv ==
    /\ \A i \in IDs : srv[i] # None => Known(srv[i], i)
    /\ \A i \in IDs : pipes[i] # None => Known(pipes[i], i)
    /\ \A n \in DOMAIN net : Known(net[n].s, net[n].id)
    /\ \A t \in 1..Dials : loop[t].at = "push" => pc[loop[t].s] \in Later

\* Nothing outlives its tunnel but what a read loop has in hand, and a session asks for
\* its stream once: the new tunnel has nothing of that session.
TunnelInv ==
    /\ cur = 0 => net = <<>> /\ srv = NoStreams
    /\ \A t \in 1..Dials : t > dialled => loop[t].at = "read"
    /\ \A t \in 1..Dials :
          t # cur /\ loop[t].at = "push" =>
              /\ \A i \in IDs : srv[i] # loop[t].s
              /\ \A n \in DOMAIN net : net[n].s # loop[t].s

\* Packet k of session s is after all that the client has received and that waits.
Beyond(s, k) == /\ got[s] < k /\ k <= sent[s]
                /\ \A j \in DOMAIN chan[s] : chan[s][j] < k

\* On their way to the client, packets stay in their order: in the channel, in the hands
\* of a read loop, in the tunnel.
ChanInv == \A s \in Sessions :
    /\ got[s] <= sent[s]
    /\ \A j \in DOMAIN chan[s] :
          /\ got[s] < chan[s][j] /\ chan[s][j] <= sent[s]
          /\ \A l \in DOMAIN chan[s] : l < j => chan[s][l] < chan[s][j]

HandInv == \A t \in 1..Dials : loop[t].at = "push" =>
    /\ Beyond(loop[t].s, loop[t].k)
    /\ \A v \in 1..Dials : v # t /\ loop[v].at = "push" => loop[v].s # loop[t].s

NetInv == \A n \in DOMAIN net : net[n].kind = "data" =>
    /\ Beyond(net[n].s, net[n].k)
    /\ \A t \in 1..Dials :
          loop[t].at = "push" /\ loop[t].s = net[n].s => loop[t].k < net[n].k
    /\ \A l \in DOMAIN net :
          net[l].kind = "data" /\ net[l].s = net[n].s /\ l < n => net[l].k < net[n].k

OrderInv == ChanInv /\ HandInv /\ NetInv

Rest == Types /\ KnownInv /\ TunnelInv
SInv == IInv /\ Rest /\ (Shared \/ OrderInv)

-----------------------------------------------------------------------------
\* The initial states satisfy the inductive invariant.
LEMMA SInitially == Init => SInv
<1> SUFFICES ASSUME Init PROVE SInv
  OBVIOUS
<1>1. IInv
  BY Initially
<1>2. Idle \in Hands /\ Idle.at = "read"
  BY DEF Idle, Hands
<1>3. NoStreams \in [IDs -> Sessions \cup {None}] /\ \A i \in IDs : NoStreams[i] = None
  BY DEF NoStreams
<1>4. <<>> \in Seq(Packets) /\ <<>> \in Seq(Nat) /\ DOMAIN <<>> = {}
  OBVIOUS
<1>5. Types
  BY <1>2, <1>3, <1>4, SessionAssumption DEF Init, Types
<1>6. KnownInv /\ TunnelInv
  BY <1>2, <1>3, <1>4 DEF Init, KnownInv, TunnelInv
<1>7. OrderInv
  BY <1>2, <1>4 DEF Init, OrderInv, ChanInv, HandInv, NetInv
<1> QED  BY <1>1, <1>5, <1>6, <1>7 DEF SInv, Rest

\* What sessions do to their places and pipes: nothing is unknown that was known.
Onward == /\ id' = id
          /\ \A s \in Sessions : pc[s] \in Later => pc'[s] \in Later
          /\ pipes' \in [IDs -> Sessions \cup {None}]
          /\ \A i \in IDs : pipes'[i] # None =>
                pipes'[i] = pipes[i] \/ (id[pipes'[i]] = i /\ pc'[pipes'[i]] \in Later)

stream == <<chan, got, loop>>

\* The order of packets is that of the channels, hands and tunnel, and of nothing else.
LEMMA OrderStays == ASSUME UNCHANGED <<stream, net, sent>>, OrderInv PROVE OrderInv'
<1>1. UNCHANGED <<chan, got, loop>>
  BY DEF stream
<1> QED  BY <1>1 DEF OrderInv, ChanInv, HandInv, NetInv, Beyond

\* What is in the tunnel is a packet of a session.
LEMMA NetTypes == ASSUME Types, NEW n \in DOMAIN net PROVE net[n] \in Packets /\ net[n].s \in Sessions
<1>1. net[n] \in Packets
  BY DEF Types
<1> QED  BY <1>1 DEF Packets

\* Whatever the tunnel loses, what is left of it is known.
LEMMA KnownStep ==
  ASSUME IInv, Rest, Onward, loop' = loop,
         \A n \in DOMAIN net' : n \in DOMAIN net /\ net'[n] = net[n],
         \A i \in IDs : srv'[i] # None =>
             srv'[i] = srv[i] \/ (id[srv'[i]] = i /\ pc'[srv'[i]] \in Later)
  PROVE  KnownInv'
<1>1. \A i \in IDs : srv'[i] # None => id'[srv'[i]] = i /\ pc'[srv'[i]] \in Later
  <2>1. \A i \in IDs : srv[i] # None => srv[i] \in Sessions
    BY DEF Rest, Types
  <2> QED  BY <2>1 DEF Rest, KnownInv, Known, Onward
<1>2. \A i \in IDs : pipes'[i] # None => id'[pipes'[i]] = i /\ pc'[pipes'[i]] \in Later
  BY DEF Rest, KnownInv, Known, Onward
<1>3. \A n \in DOMAIN net' : id'[net'[n].s] = net'[n].id /\ pc'[net'[n].s] \in Later
  BY NetTypes DEF Rest, KnownInv, Known, Onward
<1>4. \A t \in 1..Dials : loop'[t].at = "push" => pc'[loop'[t].s] \in Later
  BY DEF Rest, Types, KnownInv, Onward
<1> QED  BY <1>1, <1>2, <1>3, <1>4 DEF KnownInv, Known

\* Steps beside the tunnel.
LEMMA LocalStep ==
  ASSUME IInv, Rest, Onward, UNCHANGED <<stream, cur, dialled, net, srv, sent, sessions>>
  PROVE  Rest' /\ (OrderInv => OrderInv')
<1>1. UNCHANGED <<chan, got, loop, cur, dialled, net, srv, sent>>
  BY DEF stream
<1>2. Types'
  BY <1>1 DEF Rest, Types
<1>3. TunnelInv'
  BY <1>1 DEF Rest, TunnelInv
<1>4. KnownInv'
  BY <1>1, KnownStep
<1>5. OrderInv => OrderInv'
  BY <1>1, OrderStays DEF stream
<1> QED  BY <1>2, <1>3, <1>4, <1>5 DEF Rest

\* The tunnel is lost with all that is in it.
LEMMA DropStep ==
  ASSUME IInv, Rest, Onward, Drop, UNCHANGED <<stream, sessions>>
  PROVE  Rest' /\ (OrderInv => OrderInv')
<1>1. /\ UNCHANGED <<chan, got, loop, dialled, sent>>
      /\ cur' = 0 /\ net' = <<>> /\ srv' = NoStreams
  BY DEF stream, Drop
<1>2. NoStreams \in [IDs -> Sessions \cup {None}] /\ \A i \in IDs : NoStreams[i] = None
  BY DEF NoStreams
<1>3. <<>> \in Seq(Packets) /\ DOMAIN <<>> = {}
  OBVIOUS
<1>4. Types'
  BY <1>1, <1>2, <1>3 DEF Rest, Types
<1>5. TunnelInv'
  BY <1>1, <1>2, <1>3, SessionAssumption DEF Rest, Types, TunnelInv
<1>6. KnownInv'
  BY <1>1, <1>2, <1>3, KnownStep
<1>7. OrderInv => OrderInv'
  BY <1>1, <1>3 DEF OrderInv, ChanInv, HandInv, NetInv, Beyond
<1> QED  BY <1>4, <1>5, <1>6, <1>7 DEF Rest

\* A write that succeeds, on the tunnel or on a new one.  The server adds a stream of a
\* session that has not asked before, or none.
LEMMA WriteStep ==
  ASSUME IInv, Rest, Onward, NEW S, WriteOK(S), UNCHANGED <<stream, sessions>>,
         S \in [IDs -> Sessions \cup {None}],
         \A i \in IDs : S[i] # None =>
             \/ S[i] = Streams[i]
             \/ id[S[i]] = i /\ pc'[S[i]] \in Later /\ pc[S[i]] \notin Later
  PROVE  Rest' /\ (OrderInv => OrderInv')
<1>1. /\ UNCHANGED <<chan, got, loop, net, sent>> /\ srv' = S
      /\ cur # 0 => cur' = cur /\ dialled' = dialled
      /\ cur = 0 => cur' = dialled + 1 /\ dialled' = dialled + 1 /\ dialled < Dials
  BY DEF stream, WriteOK
<1>2. /\ NoStreams \in [IDs -> Sessions \cup {None}] /\ \A i \in IDs : NoStreams[i] = None
      /\ DOMAIN <<>> = {}
  BY DEF NoStreams
<1>3. \A i \in IDs : S[i] # None =>
          S[i] = srv[i] \/ (id[S[i]] = i /\ pc'[S[i]] \in Later /\ pc[S[i]] \notin Later)
  BY <1>2 DEF Streams
<1>4. Types'
  BY <1>1, SessionAssumption DEF Rest, Types
<1>5. TunnelInv'
  <2>1. cur' # 0 /\ \A t \in 1..Dials : t > dialled' => loop'[t].at = "read"
    BY <1>1, SessionAssumption DEF Rest, Types, TunnelInv
  <2>2. ASSUME NEW t \in 1..Dials, t # cur', loop'[t].at = "push"
        PROVE  /\ \A i \in IDs : srv'[i] # loop'[t].s
               /\ \A n \in DOMAIN net' : net'[n].s # loop'[t].s
    <3>1. t # cur \/ cur = 0
      BY <1>1, <2>2
    <3>2. loop[t].s \in Sessions /\ loop[t].s # None /\ pc[loop[t].s] \in Later
      BY <1>1, <2>2, SessionAssumption DEF Rest, Types, KnownInv
    <3>3. t # cur
      BY <3>1
    <3> QED  BY <1>1, <1>3, <2>2, <3>2, <3>3 DEF Rest, TunnelInv
  <2> QED  BY <2>1, <2>2 DEF TunnelInv
<1>6. KnownInv'
  BY <1>1, <1>3, KnownStep
<1>7. OrderInv => OrderInv'
  BY <1>1, OrderStays DEF stream
<1> QED  BY <1>4, <1>5, <1>6, <1>7 DEF Rest

-----------------------------------------------------------------------------
(* The actions.                                                             *)

\* RemoveStreamPipe makes nothing unknown that stays.
LEMMA RemovedPipe == ASSUME IInv, NEW i, RemoveStreamPipe(i), id' = id, pc' = pc PROVE Onward
  BY DEF IInv, IdInv, RemoveStreamPipe, Onward

\* Session.Start asks for its stream, fails, times out or ends.
LEMMA StartKeeps ==
  ASSUME IInv, Rest, NEW s \in Sessions,
         RequestStream(s) \/ RequestFails(s) \/ TimesOut(s) \/ CopyEnds(s)
  PROVE  Rest' /\ (OrderInv => OrderInv')
<1>1. PICK x \in {"ready", "ended"} : pc[s] \notin Fresh /\ pc' = [pc EXCEPT ![s] = x]
  BY DEF RequestStream, RequestFails, TimesOut, CopyEnds, Goto, Fresh
<1>2. UNCHANGED <<nextID, id, pipes, sessions, stream>>
  BY DEF RequestStream, RequestFails, TimesOut, CopyEnds, manager, copying, stream
<1>3. Onward
  BY <1>1, <1>2 DEF Onward, IInv, IdInv, Later
<1>4. CASE RequestStream(s)
  <2> DEFINE S == [Streams EXCEPT ![id[s]] = s]
  <2>1. pc[s] = "start" /\ pc'[s] = "ready" /\ id[s] \in IDs /\ WriteOK(S)
    BY <1>4 DEF RequestStream, Goto, IInv, IdInv, Fresh
  <2>2. Streams \in [IDs -> Sessions \cup {None}]
    BY DEF Streams, NoStreams, Rest, Types
  <2>3. S \in [IDs -> Sessions \cup {None}]
    BY <2>1, <2>2
  <2>4. \A i \in IDs : S[i] # None =>
             \/ S[i] = Streams[i]
             \/ id[S[i]] = i /\ pc'[S[i]] \in Later /\ pc[S[i]] \notin Later
    BY <2>1, <2>2 DEF Later
  <2> HIDE DEF S
  <2> QED  BY <1>2, <1>3, <2>1, <2>3, <2>4, WriteStep
<1>5. CASE RequestFails(s)
  BY <1>2, <1>3, <1>5, DropStep DEF RequestFails
<1>6. CASE TimesOut(s) \/ CopyEnds(s)
  BY <1>2, <1>3, <1>6, LocalStep DEF TimesOut, CopyEnds, tunnel, server
<1> QED  BY <1>4, <1>5, <1>6

\* Session.Start registers its pipe.
LEMMA PipeKeeps ==
  ASSUME IInv, Rest, NEW s \in Sessions, SetStreamPipe(s) PROVE Rest' /\ (OrderInv => OrderInv')
<1>1. /\ pc[s] = "ready" /\ pc' = [pc EXCEPT ![s] = "copy"] /\ id' = id /\ id[s] \in IDs
      /\ pipes' = [pipes EXCEPT ![id[s]] = s]
  BY DEF SetStreamPipe, Goto, IInv, IdInv, Fresh
<1>2. Onward
  BY <1>1 DEF Onward, IInv, IdInv, Later
<1> QED  BY <1>2, LocalStep DEF SetStreamPipe, stream, tunnel, server

\* Sessions that get their id are not known to anyone yet.
LEMMA IdKeeps ==
  ASSUME IInv, Rest, NEW s \in Sessions, AddStreamID(s) \/ RestartStreamID(s)
  PROVE  Rest' /\ (OrderInv => OrderInv')
<1>1. UNCHANGED <<pipes, chan, got, loop, cur, dialled, net, srv, sent>>
  BY DEF AddStreamID, RestartStreamID, copying, tunnel, server
<1>2. pc[s] \in Fresh /\ \A q \in Sessions : q # s => pc'[q] = pc[q] /\ id'[q] = id[q]
  BY DEF AddStreamID, RestartStreamID, Goto, Store, IInv, IdInv, Fresh
<1>3. \A q \in Sessions : pc[q] \in Later => pc'[q] = pc[q] /\ id'[q] = id[q]
  BY <1>2 DEF Fresh, Later
<1>4. sessions' \in [IDs -> Sessions \cup {None}]
  BY DEF Rest, Types, AddStreamID, RestartStreamID, Store
<1>5. Types'
  BY <1>1, <1>4 DEF Rest, Types
<1>6. TunnelInv'
  BY <1>1 DEF Rest, TunnelInv
<1>7. \A i \in IDs : /\ srv[i] # None => srv[i] \in Sessions
                     /\ pipes[i] # None => pipes[i] \in Sessions
  BY DEF Rest, Types, IInv, IdInv
<1>8. \A t \in 1..Dials : loop[t].at = "push" => loop[t].s \in Sessions
  BY DEF Rest, Types
<1>9. \A n \in DOMAIN net : net[n].s \in Sessions
  BY NetTypes DEF Rest
<1>10. KnownInv'
  BY <1>1, <1>3, <1>7, <1>8, <1>9 DEF Rest, KnownInv, Known
<1> QED  BY <1>1, <1>5, <1>6, <1>10, OrderStays DEF Rest, stream

\* The upload loop, the client, Break and Agent.Close.
LEMMA LoopKeeps ==
  ASSUME IInv, Rest, NEW s \in Sessions,
         \/ Upload(s) \/ UpLoop(s) \/ DeliverEnds(s) \/ ClientLeaves(s)
         \/ Break \/ AgentClose \/ \E i \in IDs : CloseSession(i)
  PROVE  Rest' /\ (OrderInv => OrderInv')
<1>1. UNCHANGED <<id, pc, pipes, sessions, stream>>
  BY DEF Upload, UpLoop, UploadFails, UploadEnds, DeliverEnds, ClientLeaves, Break, AgentClose,
         CloseSession, manager, copying, stream
<1>2. Onward
  BY <1>1 DEF Onward, IInv, IdInv
<1>3. CASE Upload(s)
  <2>1. Streams \in [IDs -> Sessions \cup {None}]
    BY DEF Streams, NoStreams, Rest, Types
  <2> QED  BY <1>1, <1>2, <1>3, <2>1, WriteStep DEF Upload
<1>4. CASE UploadFails(s) \/ Break \/ AgentClose
  BY <1>1, <1>2, <1>4, DropStep DEF UploadFails, Break, AgentClose
<1>5. CASE \/ UploadEnds(s) \/ DeliverEnds(s) \/ ClientLeaves(s)
           \/ \E i \in IDs : CloseSession(i)
  <2>1. UNCHANGED <<cur, dialled, net, srv, sent>>
    BY <1>5 DEF UploadEnds, DeliverEnds, ClientLeaves, CloseSession, tunnel, server
  <2> QED  BY <1>1, <1>2, <2>1, LocalStep
<1> QED  BY <1>3, <1>4, <1>5 DEF UpLoop

\* Session.Close removes the pipe and tells the server.
LEMMA CloseKeeps ==
  ASSUME IInv, Rest, NEW s \in Sessions, CloseBody(s) PROVE Rest' /\ (OrderInv => OrderInv')
<1> DEFINE S == [Streams EXCEPT ![id[s]] = None]
<1>1. UNCHANGED <<id, pc, sessions, stream>> /\ RemoveStreamPipe(id[s])
  BY DEF CloseBody, stream
<1>2. Onward
  BY <1>1, RemovedPipe
<1>3. Streams \in [IDs -> Sessions \cup {None}]
  BY DEF Streams, NoStreams, Rest, Types
<1>4. S \in [IDs -> Sessions \cup {None}] /\ \A i \in IDs : S[i] # None => S[i] = Streams[i]
  BY <1>3
<1>5. WriteOK(S) \/ Drop
  BY DEF CloseBody
<1> HIDE DEF S
<1> QED  BY <1>1, <1>2, <1>4, <1>5, WriteStep, DropStep

\* An element is added at the end of a sequence.
LEMMA AppendFacts ==
  ASSUME NEW P, NEW q \in Seq(P), NEW x \in P
  PROVE  /\ Append(q, x) \in Seq(P) /\ DOMAIN q \subseteq Nat
         /\ \A n \in DOMAIN Append(q, x) :
               \/ n \in DOMAIN q /\ Append(q, x)[n] = q[n]
               \/ n = Len(q) + 1 /\ Append(q, x)[n] = x
         /\ \A n \in DOMAIN q : n < Len(q) + 1
  OBVIOUS

\* The first element of a sequence is removed.
LEMMA TailFacts ==
  ASSUME NEW P, NEW q \in Seq(P), q # <<>>
  PROVE  /\ Head(q) \in P /\ Head(q) = q[1] /\ 1 \in DOMAIN q /\ Tail(q) \in Seq(P)
         /\ \A n \in DOMAIN Tail(q) : /\ n \in Nat /\ n + 1 \in DOMAIN q /\ 1 < n + 1
                                      /\ Tail(q)[n] = q[n + 1]
  OBVIOUS

\* The first packet of the channel is received: the rest of it, and all that comes after,
\* is beyond that.
LEMMA DeliverKeeps ==
  ASSUME IInv, Rest, NEW s \in Sessions, Deliver(s)
  PROVE  Rest' /\ (OrderInv => OrderInv' /\ got[s] < got'[s] /\ got'[s] <= sent[s])
<1>1. /\ UNCHANGED <<id, pc, pipes, sessions, loop, cur, dialled, net, srv, sent>>
      /\ chan[s] # <<>> /\ got' = [got EXCEPT ![s] = Head(chan[s])]
      /\ chan' = [chan EXCEPT ![s] = Tail(chan[s])]
  BY DEF Deliver, manager, tunnel, server
<1>2. /\ chan[s] \in Seq(Nat) /\ chan \in [Sessions -> Seq(Nat)]
      /\ got \in [Sessions -> Nat] /\ sent \in [Sessions -> Nat]
  BY DEF Rest, Types
<1>3. /\ Head(chan[s]) \in Nat /\ Head(chan[s]) = chan[s][1] /\ 1 \in DOMAIN chan[s]
      /\ Tail(chan[s]) \in Seq(Nat)
      /\ \A j \in DOMAIN Tail(chan[s]) : /\ j + 1 \in DOMAIN chan[s] /\ j \in Nat /\ 1 < j + 1
                                         /\ Tail(chan[s])[j] = chan[s][j + 1]
  BY <1>1, <1>2, TailFacts
<1>4. Types'
  BY <1>1, <1>2, <1>3 DEF Rest, Types
<1>5. TunnelInv' /\ KnownInv'
  <2>1. TunnelInv'
    BY <1>1 DEF Rest, TunnelInv
  <2>2. KnownInv'
    BY <1>1 DEF Rest, KnownInv, Known
  <2> QED  BY <2>1, <2>2
<1>6. ASSUME OrderInv PROVE OrderInv' /\ got[s] < got'[s] /\ got'[s] <= sent[s]
  <2>1. got'[s] = chan[s][1] /\ got[s] < got'[s] /\ got'[s] <= sent[s]
    BY <1>1, <1>2, <1>3, <1>6 DEF OrderInv, ChanInv
  <2>0. /\ 1 \in DOMAIN chan[s]
        /\ \A j \in DOMAIN chan'[s] : /\ j + 1 \in DOMAIN chan[s] /\ j \in Nat /\ 1 < j + 1
                                      /\ chan'[s][j] = chan[s][j + 1]
    <3>1. chan'[s] = Tail(chan[s])
      BY <1>1, <1>2
    <3> QED  BY <1>3, <3>1
  <2>2. \A q \in Sessions : q # s => chan'[q] = chan[q] /\ got'[q] = got[q]
    BY <1>1, <1>2
  <2>3. ChanInv'
    <3>0. \A q \in Sessions : got'[q] <= sent[q]
      BY <1>6, <2>1, <2>2 DEF OrderInv, ChanInv
    <3> SUFFICES ASSUME NEW q \in Sessions, NEW j \in DOMAIN chan'[q]
                 PROVE  /\ got'[q] < chan'[q][j] /\ chan'[q][j] <= sent[q]
                        /\ \A l \in DOMAIN chan'[q] : l < j => chan'[q][l] < chan'[q][j]
      BY <1>1, <3>0 DEF ChanInv
    <3>1. CASE q = s
      <4>1. /\ j + 1 \in DOMAIN chan[s] /\ chan'[s][j] = chan[s][j + 1] /\ 1 < j + 1
            /\ \A l \in DOMAIN chan'[s] : /\ l + 1 \in DOMAIN chan[s] /\ chan'[s][l] = chan[s][l + 1]
                                          /\ l < j => l + 1 < j + 1
        BY <2>0, <3>1
      <4>2. /\ chan[s][1] < chan[s][j + 1] /\ chan[s][j + 1] <= sent[s]
            /\ \A l \in DOMAIN chan[s] : l < j + 1 => chan[s][l] < chan[s][j + 1]
        BY <2>0, <1>6, <4>1 DEF OrderInv, ChanInv
      <4> QED  BY <2>1, <3>1, <4>1, <4>2
    <3>2. CASE q # s
      BY <1>6, <2>2, <3>2 DEF OrderInv, ChanInv
    <3> QED  BY <3>1, <3>2
  <2>4. ASSUME NEW q \in Sessions, NEW k, Beyond(q, k)
        PROVE  /\ got'[q] < k /\ k <= sent[q]
               /\ \A j \in DOMAIN chan'[q] : chan'[q][j] < k
    <3>1. CASE q = s
      BY <2>0, <2>1, <2>4, <3>1 DEF Beyond
    <3>2. CASE q # s
      BY <2>2, <2>4, <3>2 DEF Beyond
    <3> QED  BY <3>1, <3>2
  <2>5. HandInv'
    BY <1>1, <1>6, <2>4 DEF OrderInv, HandInv, Rest, Types, Beyond
  <2>6. NetInv'
    BY <1>1, <1>6, <2>4, NetTypes DEF OrderInv, NetInv, Rest, Beyond
  <2> QED  BY <2>1, <2>3, <2>5, <2>6 DEF OrderInv
<1> QED  BY <1>4, <1>5, <1>6 DEF Rest

-----------------------------------------------------------------------------
(* The server's packets.                                                    *)

\* The server sends a packet: data has the next number of its stream.
LEMMA ServerKeeps ==
  ASSUME IInv, Rest, NEW i \in IDs, NEW kind \in {"success", "data", "close"}, NEW k \in Nat,
         Sends(i, kind, k), srv' \in {srv, [srv EXCEPT ![i] = None]},
         IF kind = "data" THEN k = sent[srv[i]] + 1 /\ sent' = [sent EXCEPT ![srv[i]] = k]
                          ELSE sent' = sent
  PROVE  Rest' /\ (OrderInv => OrderInv')
<1> DEFINE s == srv[i]
           x == [kind |-> kind, id |-> i, s |-> s, k |-> k]
<1>1. /\ UNCHANGED <<id, pc, pipes, sessions, loop, cur, dialled, chan, got>>
      /\ net' = Append(net, x) /\ cur # 0 /\ s # None
  BY DEF Sends, manager, copying
<1>2. s \in Sessions /\ x \in Packets /\ net \in Seq(Packets)
  BY <1>1 DEF Rest, Types, Packets
<1>3. net' \in Seq(Packets) /\ \A n \in DOMAIN net' :
          \/ n \in DOMAIN net /\ net'[n] = net[n] /\ n < Len(net) + 1
          \/ n = Len(net) + 1 /\ net'[n] = x
  BY <1>1, <1>2, AppendFacts
<1>4. /\ srv' \in [IDs -> Sessions \cup {None}] /\ sent' \in [Sessions -> Nat]
      /\ \A q \in IDs : srv'[q] # None => srv'[q] = srv[q]
      /\ \A q \in Sessions : sent[q] <= sent'[q]
  <2>1. srv \in [IDs -> Sessions \cup {None}] /\ sent \in [Sessions -> Nat]
    BY DEF Rest, Types
  <2>2. srv' \in [IDs -> Sessions \cup {None}] /\ \A q \in IDs : srv'[q] # None => srv'[q] = srv[q]
    <3>1. CASE srv' = srv
      BY <2>1, <3>1
    <3>2. CASE srv' = [srv EXCEPT ![i] = None]
      BY <2>1, <3>2
    <3> QED  BY <3>1, <3>2
  <2>3. sent' \in [Sessions -> Nat] /\ \A q \in Sessions : sent[q] <= sent'[q]
    <3>1. CASE kind = "data"
      BY <1>2, <2>1, <3>1
    <3>2. CASE kind # "data"
      BY <2>1, <3>2
    <3> QED  BY <3>1, <3>2
  <2> QED  BY <2>2, <2>3
<1>5. Types'
  BY <1>1, <1>3, <1>4 DEF Rest, Types
<1>6. Known(s, i)
  BY <1>1 DEF Rest, KnownInv
<1>7. KnownInv'
  BY <1>1, <1>3, <1>4, <1>6 DEF Rest, KnownInv, Known
<1>8. TunnelInv'
  <2>1. ASSUME NEW t \in 1..Dials, t # cur, loop[t].at = "push"
        PROVE  /\ \A q \in IDs : srv'[q] # loop[t].s
               /\ \A n \in DOMAIN net' : net'[n].s # loop[t].s
    <3>1. loop[t].s \in Sessions /\ loop[t].s # None
      BY <2>1, SessionAssumption DEF Rest, Types
    <3>2. /\ \A q \in IDs : srv[q] # loop[t].s
          /\ \A n \in DOMAIN net : net[n].s # loop[t].s
      BY <2>1 DEF Rest, TunnelInv
    <3> QED  BY <1>3, <1>4, <3>1, <3>2
  <2> QED  BY <1>1, <2>1 DEF Rest, TunnelInv
<1>9. ASSUME OrderInv PROVE OrderInv'
  <2>1. sent \in [Sessions -> Nat] /\ got \in [Sessions -> Nat]
    BY DEF Rest, Types
  <2>2. ASSUME NEW q \in Sessions, NEW n \in Nat, n <= sent[q] PROVE n <= sent'[q]
    BY <1>4, <2>1, <2>2
  <2>3. \A q \in Sessions : \A j \in DOMAIN chan[q] : chan[q][j] \in Nat
    BY DEF Rest, Types
  <2>4. ChanInv'
    BY <1>1, <1>9, <2>1, <2>2, <2>3 DEF OrderInv, ChanInv
  <2>5. ASSUME NEW q \in Sessions, NEW n \in Nat, Beyond(q, n)
        PROVE  /\ got'[q] < n /\ n <= sent'[q]
               /\ \A j \in DOMAIN chan'[q] : chan'[q][j] < n
    BY <1>1, <2>2, <2>5 DEF Beyond
  <2>6. \A t \in 1..Dials : loop[t].at = "push" => loop[t].s \in Sessions /\ loop[t].k \in Nat
    BY DEF Rest, Types, Hands
  <2>7. HandInv'
    BY <1>1, <1>9, <2>5, <2>6 DEF OrderInv, HandInv, Beyond
  <2>8. \A n \in DOMAIN net : net[n].s \in Sessions /\ net[n].k \in Nat
    BY NetTypes DEF Rest, Packets
  <2>9. kind = "data" =>
          /\ got[s] < k /\ k <= sent'[s] /\ \A j \in DOMAIN chan[s] : chan[s][j] < k
          /\ \A t \in 1..Dials : loop[t].at = "push" /\ loop[t].s = s => loop[t].k < k
          /\ \A n \in DOMAIN net : net[n].kind = "data" /\ net[n].s = s => net[n].k < k
    BY <1>2, <1>9, <2>1, <2>3, <2>6, <2>8 DEF OrderInv, ChanInv, HandInv, NetInv, Beyond
  <2>10. NetInv'
    <3> SUFFICES ASSUME NEW n \in DOMAIN net', net'[n].kind = "data"
                 PROVE  /\ Beyond(net[n].s, net[n].k)'
                        /\ \A t \in 1..Dials :
                              loop'[t].at = "push" /\ loop'[t].s = net'[n].s => loop'[t].k < net'[n].k
                        /\ \A l \in DOMAIN net' :
                              net'[l].kind = "data" /\ net'[l].s = net'[n].s /\ l < n
                                  => net'[l].k < net'[n].k
      BY DEF NetInv
    <3>1. CASE n \in DOMAIN net /\ net'[n] = net[n] /\ n < Len(net) + 1
      <4>1. \A l \in DOMAIN net' : l < n => l \in DOMAIN net /\ net'[l] = net[l]
        BY <1>2, <1>3, <3>1
      <4>2. /\ net[n].kind = "data" /\ Beyond(net[n].s, net[n].k)
            /\ net[n].s \in Sessions /\ net[n].k \in Nat
            /\ \A t \in 1..Dials :
                  loop[t].at = "push" /\ loop[t].s = net[n].s => loop[t].k < net[n].k
            /\ \A l \in DOMAIN net :
                  net[l].kind = "data" /\ net[l].s = net[n].s /\ l < n => net[l].k < net[n].k
        BY <1>9, <2>8, <3>1 DEF OrderInv, NetInv
      <4>3. Beyond(net[n].s, net[n].k)'
        BY <2>5, <3>1, <4>2 DEF Beyond
      <4> QED  BY <1>1, <3>1, <4>1, <4>2, <4>3
    <3>2. CASE n = Len(net) + 1 /\ net'[n] = x
      <4>1. \A l \in DOMAIN net' : l < n => l \in DOMAIN net /\ net'[l] = net[l]
        BY <1>2, <1>3, <3>2
      <4> QED  BY <1>1, <2>9, <3>2, <4>1 DEF Beyond
    <3> QED  BY <1>3, <3>1, <3>2
  <2> QED  BY <2>4, <2>7, <2>10 DEF OrderInv
<1> QED  BY <1>5, <1>7, <1>8, <1>9 DEF Rest

-----------------------------------------------------------------------------
(* The read loops.                                                          *)

\* Read loop t takes a packet and has x in hand then; only data that has a pipe stays in
\* its hand for longer, and without shared ids the pipe is that of the packet's session.
LEMMA TakeKeeps ==
  ASSUME IInv, Rest, NEW t \in 1..Dials, NEW kind, Reads(t, kind), NEW x \in Hands,
         loop' = [loop EXCEPT ![t] = x], Onward, UNCHANGED <<pc, chan, got, sessions>>,
         x.at = "push" => /\ kind = "data" /\ x.s # None
                          /\ x.s = pipes[Head(net).id] /\ x.k = Head(net).k,
         x.at = "remove" => x.k \in IDs
  PROVE  Rest' /\ (~Shared /\ OrderInv => OrderInv')
<1>1. /\ t = cur /\ net # <<>> /\ net' = Tail(net) /\ Head(net).kind = kind
      /\ UNCHANGED <<cur, dialled, srv, sent, id>>
  BY DEF Reads, Onward, server
<1>2. net \in Seq(Packets) /\ loop \in [1..Dials -> Hands]
  BY DEF Rest, Types
<1>3. /\ Head(net) \in Packets /\ Head(net) = net[1] /\ 1 \in DOMAIN net /\ net' \in Seq(Packets)
      /\ \A n \in DOMAIN net' : /\ n \in Nat /\ n + 1 \in DOMAIN net /\ 1 < n + 1
                                /\ net'[n] = net[n + 1]
  BY <1>1, <1>2, TailFacts
<1>4. loop'[t] = x /\ \A v \in 1..Dials : v # t => loop'[v] = loop[v]
  BY <1>2
<1>5. Head(net).id \in IDs /\ Head(net).s \in Sessions /\ Known(Head(net).s, Head(net).id)
  BY <1>3 DEF Packets, Rest, KnownInv
<1>6. x.at = "push" => x.s \in Sessions /\ Known(x.s, Head(net).id)
  BY <1>5 DEF Rest, KnownInv, IInv, IdInv
<1>7. Types'
  <2>1. loop' \in [1..Dials -> Hands]
    BY <1>2
  <2>2. \A v \in 1..Dials : /\ loop'[v].at = "push" => loop'[v].s \in Sessions
                            /\ loop'[v].at = "remove" => loop'[v].k \in IDs
    BY <1>4, <1>6 DEF Rest, Types
  <2> QED  BY <1>1, <1>3, <2>1, <2>2 DEF Rest, Types
<1>8. KnownInv'
  <2>1. \A i \in IDs : pipes'[i] # None => id'[pipes'[i]] = i /\ pc'[pipes'[i]] \in Later
    BY DEF Onward, Rest, KnownInv, Known
  <2>2. \A n \in DOMAIN net' : id'[net'[n].s] = net'[n].id /\ pc'[net'[n].s] \in Later
    BY <1>1, <1>3 DEF Rest, KnownInv, Known
  <2>3. \A v \in 1..Dials : loop'[v].at = "push" => pc'[loop'[v].s] \in Later
    BY <1>4, <1>6 DEF Rest, KnownInv, Known
  <2>4. \A i \in IDs : srv'[i] # None => id'[srv'[i]] = i /\ pc'[srv'[i]] \in Later
    BY <1>1 DEF Rest, KnownInv, Known
  <2> QED  BY <2>1, <2>2, <2>3, <2>4 DEF KnownInv, Known
<1>9. TunnelInv'
  <2>1. cur' # 0 /\ \A v \in 1..Dials : v > dialled' => loop'[v].at = "read"
    BY <1>1, <1>4 DEF Rest, Types, TunnelInv
  <2>2. \A v \in 1..Dials : v # cur' /\ loop'[v].at = "push" =>
            /\ \A i \in IDs : srv'[i] # loop'[v].s
            /\ \A n \in DOMAIN net' : net'[n].s # loop'[v].s
    BY <1>1, <1>3, <1>4 DEF Rest, TunnelInv
  <2> QED  BY <2>1, <2>2 DEF TunnelInv
<1>10. ASSUME ~Shared, OrderInv PROVE OrderInv'
  <2>1. x.at = "push" => x.s = net[1].s /\ x.k = net[1].k /\ net[1].kind = "data"
    BY <1>1, <1>3, <1>5, <1>6, <1>10 DEF Known, Shared, IDs
  <2>2. ChanInv'
    BY <1>1, <1>10 DEF OrderInv, ChanInv
  <2>3. \A s, k : Beyond(s, k)' = Beyond(s, k)
    BY <1>1 DEF Beyond
  <2>4. HandInv'
    <3>1. x.at = "push" => /\ Beyond(x.s, x.k)
                           /\ \A v \in 1..Dials : v # t /\ loop[v].at = "push" => loop[v].s # x.s
      BY <1>1, <1>3, <1>10, <2>1 DEF OrderInv, NetInv, Rest, TunnelInv
    <3>2. \A v \in 1..Dials : loop'[v].at = "push" =>
            /\ Beyond(loop'[v].s, loop'[v].k)
            /\ \A w \in 1..Dials : w # v /\ loop'[w].at = "push" => loop'[w].s # loop'[v].s
      BY <1>4, <1>10, <3>1 DEF OrderInv, HandInv
    <3> QED  BY <1>1, <3>2 DEF HandInv, Beyond
  <2>5. NetInv'
    <3> SUFFICES ASSUME NEW n \in DOMAIN net', net'[n].kind = "data"
                 PROVE  /\ Beyond(net'[n].s, net'[n].k)
                        /\ \A v \in 1..Dials :
                              loop'[v].at = "push" /\ loop'[v].s = net'[n].s => loop'[v].k < net'[n].k
                        /\ \A l \in DOMAIN net' :
                              net'[l].kind = "data" /\ net'[l].s = net'[n].s /\ l < n
                                  => net'[l].k < net'[n].k
      BY <1>1 DEF NetInv, Beyond
    <3>1. /\ n + 1 \in DOMAIN net /\ net'[n] = net[n + 1] /\ 1 < n + 1 /\ net[n + 1].kind = "data"
          /\ \A l \in DOMAIN net' : /\ l + 1 \in DOMAIN net /\ net'[l] = net[l + 1]
                                    /\ l < n => l + 1 < n + 1
      BY <1>3
    <3>2. /\ Beyond(net[n + 1].s, net[n + 1].k)
          /\ \A v \in 1..Dials :
                loop[v].at = "push" /\ loop[v].s = net[n + 1].s => loop[v].k < net[n + 1].k
          /\ \A l \in DOMAIN net :
                net[l].kind = "data" /\ net[l].s = net[n + 1].s /\ l < n + 1 => net[l].k < net[n + 1].k
      BY <1>10, <3>1 DEF OrderInv, NetInv
    <3>3. x.at = "push" /\ x.s = net[n + 1].s => x.k < net[n + 1].k
      BY <1>3, <2>1, <3>1, <3>2
    <3> QED  BY <1>4, <3>1, <3>2, <3>3
  <2> QED  BY <2>2, <2>4, <2>5 DEF OrderInv
<1> QED  BY <1>7, <1>8, <1>9, <1>10 DEF Rest

\* StartReadLoop reads a packet.
LEMMA ReadKeeps ==
  ASSUME IInv, Rest, NEW t \in 1..Dials, ReadSuccess(t) \/ ReadData(t) \/ ReadClose(t)
  PROVE  Rest' /\ (~Shared /\ OrderInv => OrderInv')
<1>1. Idle \in Hands /\ Idle.at = "read"
  BY DEF Idle, Hands
<1>2. loop \in [1..Dials -> Hands] /\ loop[t] = Idle
  BY DEF Rest, Types, ReadSuccess, ReadData, ReadClose, Reads
<1>3. loop = [loop EXCEPT ![t] = Idle]
  BY <1>2
<1>4. UNCHANGED <<id, pc, chan, got, sessions>>
  BY DEF ReadSuccess, ReadData, ReadClose, manager, copying
<1>5. Head(net) \in Packets /\ Head(net).id \in IDs /\ Head(net).k \in Nat
  <2>1. net \in Seq(Packets) /\ net # <<>>
    BY DEF Rest, Types, ReadSuccess, ReadData, ReadClose, Reads
  <2>2. Head(net) \in Packets
    BY <2>1, TailFacts
  <2> QED  BY <2>2 DEF Packets
<1>6. CASE ReadSuccess(t)
  <2>1. Onward /\ loop' = loop /\ Reads(t, "success")
    BY <1>4, <1>6 DEF ReadSuccess, manager, Onward, IInv, IdInv
  <2> QED  BY <1>1, <1>3, <1>4, <2>1, TakeKeeps
<1>7. CASE ReadData(t)
  <2>1. Onward /\ Reads(t, "data")
    BY <1>4, <1>7 DEF ReadData, manager, Onward, IInv, IdInv
  <2> DEFINE p == pipes[Head(net).id]
  <2>2. CASE p = None
    BY <1>1, <1>3, <1>4, <1>7, <2>1, <2>2, TakeKeeps DEF ReadData
  <2>3. CASE p # None
    <3> DEFINE x == [at |-> "push", s |-> p, k |-> Head(net).k]
    <3>1. x \in Hands
      BY <1>5, <2>3 DEF IInv, IdInv, Hands
    <3>2. loop' = [loop EXCEPT ![t] = x] /\ x.at = "push" /\ x.s = p /\ x.k = Head(net).k
      BY <1>7, <2>3 DEF ReadData
    <3> HIDE DEF x
    <3> QED  BY <1>4, <2>1, <2>3, <3>1, <3>2, TakeKeeps
  <2> QED  BY <2>2, <2>3
<1>8. CASE ReadClose(t)
  <2> DEFINE x == [at |-> "remove", s |-> None, k |-> Head(net).id]
  <2>1. x \in Hands /\ x.at = "remove" /\ x.k \in IDs
    BY <1>5 DEF Hands, IDs
  <2>2. Onward /\ Reads(t, "close") /\ loop' = [loop EXCEPT ![t] = x]
    BY <1>4, <1>8, RemovedPipe DEF ReadClose
  <2> HIDE DEF x
  <2> QED  BY <1>4, <2>1, <2>2, TakeKeeps
<1> QED  BY <1>6, <1>7, <1>8

\* The hand of a read loop becomes empty, or waits for a session's Close.  What it held,
\* if anything, is in the channel then, or lost.
LEMMA HandKeeps ==
  ASSUME IInv, Rest, NEW t \in 1..Dials, loop[t].at # "read", NEW x \in Hands,
         x.at \in {"read", "close"}, loop' = [loop EXCEPT ![t] = x],
         sessions' \in [IDs -> Sessions \cup {None}],
         UNCHANGED <<id, pc, pipes, got, cur, dialled, net, srv, sent>>,
         \/ chan' = chan
         \/ /\ loop[t].at = "push"
            /\ chan' = [chan EXCEPT ![loop[t].s] = Append(chan[loop[t].s], loop[t].k)]
  PROVE  Rest' /\ (OrderInv => OrderInv')
<1>1. /\ loop \in [1..Dials -> Hands] /\ chan \in [Sessions -> Seq(Nat)]
      /\ loop[t].at = "push" => loop[t].s \in Sessions
      /\ loop[t].k \in Nat
  BY DEF Rest, Types, Hands
<1>2. /\ loop' \in [1..Dials -> Hands]
      /\ loop'[t] = x /\ \A v \in 1..Dials : v # t => loop'[v] = loop[v]
  BY <1>1
<1>3. \A v \in 1..Dials : loop'[v].at = "push" => v # t /\ loop[v].at = "push" /\ loop'[v] = loop[v]
  BY <1>2
<1>4. chan' \in [Sessions -> Seq(Nat)]
  <2>1. loop[t].at = "push" => Append(chan[loop[t].s], loop[t].k) \in Seq(Nat)
    BY <1>1, AppendFacts
  <2> QED  BY <1>1, <2>1
<1>5. Types'
  BY <1>2, <1>3, <1>4 DEF Rest, Types
<1>6. KnownInv'
  BY <1>3 DEF Rest, KnownInv, Known
<1>7. TunnelInv'
  <2>1. t <= dialled
    BY DEF Rest, Types, TunnelInv
  <2>2. \A v \in 1..Dials : v > dialled => loop'[v].at = "read"
    BY <1>2, <2>1 DEF Rest, Types, TunnelInv
  <2> QED  BY <1>3, <2>2 DEF Rest, TunnelInv
<1>8. ASSUME OrderInv, chan' = chan PROVE OrderInv'
  <2>1. ChanInv'
    BY <1>8 DEF OrderInv, ChanInv
  <2>2. \A v \in 1..Dials : loop'[v].at = "push" =>
          /\ Beyond(loop'[v].s, loop'[v].k)
          /\ \A w \in 1..Dials : w # v /\ loop'[w].at = "push" => loop'[w].s # loop'[v].s
    BY <1>3, <1>8 DEF OrderInv, HandInv
  <2>3. HandInv'
    BY <1>8, <2>2 DEF HandInv, Beyond
  <2>4. NetInv'
    BY <1>3, <1>8 DEF OrderInv, NetInv, Beyond
  <2> QED  BY <2>1, <2>3, <2>4 DEF OrderInv
<1>9. ASSUME OrderInv, loop[t].at = "push",
             chan' = [chan EXCEPT ![loop[t].s] = Append(chan[loop[t].s], loop[t].k)]
      PROVE  OrderInv'
  <2> DEFINE s == loop[t].s
             k == loop[t].k
  <2>1. s \in Sessions /\ k \in Nat /\ Beyond(s, k)
    BY <1>1, <1>9 DEF OrderInv, HandInv
  <2>2. /\ \A q \in Sessions : q # s => chan'[q] = chan[q]
        /\ \A j \in DOMAIN chan'[s] :
              \/ j \in DOMAIN chan[s] /\ chan'[s][j] = chan[s][j] /\ j < Len(chan[s]) + 1
              \/ j = Len(chan[s]) + 1 /\ chan'[s][j] = k
        /\ DOMAIN chan[s] \subseteq Nat /\ Len(chan[s]) \in Nat
    <3>1. chan[s] \in Seq(Nat) /\ chan'[s] = Append(chan[s], k)
      BY <1>1, <1>9, <2>1
    <3> QED  BY <1>1, <1>9, <2>1, <3>1, AppendFacts
  <2> HIDE DEF s, k
  <2>3. ChanInv'
    <3> SUFFICES ASSUME NEW q \in Sessions, NEW j \in DOMAIN chan'[q]
                 PROVE  /\ got[q] < chan'[q][j] /\ chan'[q][j] <= sent[q]
                        /\ \A l \in DOMAIN chan'[q] : l < j => chan'[q][l] < chan'[q][j]
      BY <1>9 DEF OrderInv, ChanInv
    <3>1. CASE q # s
      BY <1>9, <2>2, <3>1 DEF OrderInv, ChanInv
    <3>2. CASE q = s
      BY <1>9, <2>1, <2>2, <3>2 DEF OrderInv, ChanInv, Beyond
    <3> QED  BY <3>1, <3>2
  <2>4. \A q, n : q \in Sessions /\ q # s /\ Beyond(q, n) => Beyond(q, n)'
    BY <2>2 DEF Beyond
  <2>5. HandInv'
    <3> SUFFICES ASSUME NEW v \in 1..Dials, loop'[v].at = "push"
                 PROVE  /\ Beyond(loop[v].s, loop[v].k)'
                        /\ \A w \in 1..Dials : w # v /\ loop'[w].at = "push" => loop'[w].s # loop'[v].s
      BY DEF HandInv
    <3>1. loop[v].at = "push" /\ loop'[v] = loop[v] /\ loop[v].s # s /\ loop[v].s \in Sessions
      BY <1>3, <1>9 DEF OrderInv, HandInv, s, Rest, Types
    <3> QED  BY <1>3, <1>9, <2>2, <3>1 DEF OrderInv, HandInv, Beyond
  <2>6. NetInv'
    <3> SUFFICES ASSUME NEW n \in DOMAIN net, net[n].kind = "data"
                 PROVE  /\ got[net[n].s] < net[n].k /\ net[n].k <= sent[net[n].s]
                        /\ \A j \in DOMAIN chan'[net[n].s] : chan'[net[n].s][j] < net[n].k
      BY <1>3, <1>9 DEF OrderInv, NetInv, Beyond
    <3>1. net[n].s \in Sessions /\ Beyond(net[n].s, net[n].k) /\ (net[n].s = s => k < net[n].k)
      BY <1>9, NetTypes DEF Rest, OrderInv, NetInv, s, k
    <3> QED  BY <2>2, <3>1 DEF Beyond
  <2> QED  BY <2>3, <2>5, <2>6 DEF OrderInv
<1> QED  BY <1>5, <1>6, <1>7, <1>8, <1>9 DEF Rest

\* PushDownstreamData and RemoveSession empty the hand of a read loop.
LEMMA PushKeeps ==
  ASSUME IInv, Rest, NEW t \in 1..Dials,
         PushDownstreamData(t) \/ RemoveSession(t) \/ SessionRemoved(t)
  PROVE  Rest' /\ (OrderInv => OrderInv')
<1>1. Idle \in Hands /\ Idle.at = "read"
  BY DEF Idle, Hands
<1>2. UNCHANGED <<id, pc, pipes, got, cur, dialled, net, srv, sent>> /\ loop[t].at # "read"
  BY DEF PushDownstreamData, RemoveSession, SessionRemoved, manager, tunnel, server
<1>3. CASE PushDownstreamData(t)
  <2>1. /\ loop' = [loop EXCEPT ![t] = Idle] /\ sessions' = sessions /\ loop[t].at = "push"
        /\ chan' = [chan EXCEPT ![loop[t].s] =
                       IF loop[t].s \in shut \/ Len(@) >= ChanSize THEN @ ELSE Append(@, loop[t].k)]
    BY <1>3 DEF PushDownstreamData, manager
  <2>2. chan \in [Sessions -> Seq(Nat)] /\ sessions \in [IDs -> Sessions \cup {None}]
    BY DEF Rest, Types
  <2>3. \/ chan' = chan
        \/ chan' = [chan EXCEPT ![loop[t].s] = Append(chan[loop[t].s], loop[t].k)]
    BY <2>1, <2>2
  <2> QED  BY <1>1, <1>2, <2>1, <2>2, <2>3, HandKeeps
<1>4. CASE RemoveSession(t)
  <2> DEFINE s == sessions[loop[t].k]
             x == [at |-> "close", s |-> s, k |-> 0]
  <2>1. /\ sessions \in [IDs -> Sessions \cup {None}] /\ loop[t].k \in IDs /\ chan' = chan
        /\ sessions' = [sessions EXCEPT ![loop[t].k] = None]
    BY <1>4 DEF RemoveSession, Rest, Types, copying
  <2>2. x \in Hands /\ x.at = "close" /\ sessions' \in [IDs -> Sessions \cup {None}]
    BY <2>1 DEF Hands
  <2>3. loop' = [loop EXCEPT ![t] = Idle] \/ loop' = [loop EXCEPT ![t] = x]
    BY <1>4 DEF RemoveSession
  <2> HIDE DEF x
  <2> QED  BY <1>1, <1>2, <2>1, <2>2, <2>3, HandKeeps
<1>5. CASE SessionRemoved(t)
  <2>1. sessions' = sessions /\ chan' = chan /\ sessions \in [IDs -> Sessions \cup {None}]
    BY <1>5 DEF SessionRemoved, manager, copying, Rest, Types
  <2> QED  BY <1>1, <1>2, <1>5, <2>1, HandKeeps DEF SessionRemoved
<1> QED  BY <1>3, <1>4, <1>5

\* What the server does is covered by ServerKeeps.
LEMMA SendKeeps ==
  ASSUME IInv, Rest, NEW i \in IDs, Server(i) PROVE Rest' /\ (OrderInv => OrderInv')
<1>1. CASE ServerAnswers(i)
  BY <1>1, ServerKeeps DEF ServerAnswers
<1>2. CASE ServerSends(i)
  <2>1. Sends(i, "data", sent[srv[i]] + 1) /\ srv' = srv
        /\ sent' = [sent EXCEPT ![srv[i]] = sent[srv[i]] + 1]
    BY <1>2 DEF ServerSends
  <2>2. sent[srv[i]] + 1 \in Nat
    BY <2>1 DEF Sends, Rest, Types
  <2> QED  BY <2>1, <2>2, ServerKeeps
<1>3. CASE ServerCloses(i)
  BY <1>3, ServerKeeps DEF ServerCloses
<1> QED  BY <1>1, <1>2, <1>3 DEF Server

-----------------------------------------------------------------------------
(* The theorem.                                                             *)

\* Sessions keep their ids.
LEMMA IdStays ==
  ASSUME IInv, [Next]_vars PROVE \A p \in Sessions : id[p] # 0 => id'[p] = id[p]
<1>1. CASE id' = id
  BY <1>1
<1>2. CASE \E p \in Sessions : AddStreamID(p) \/ RestartStreamID(p)
  <2>1. PICK p \in Sessions : AddStreamID(p) \/ RestartStreamID(p)
    BY <1>2
  <2>2. id[p] = 0 /\ \A r \in Sessions : r # p => id'[r] = id[r]
    BY <2>1 DEF AddStreamID, RestartStreamID, Goto, Store, IInv, IdInv, Fresh
  <2> QED  BY <2>2
<1>3. id' = id \/ \E p \in Sessions : AddStreamID(p) \/ RestartStreamID(p)
  BY DEF Next, Start, RequestStream, RequestFails, SetStreamPipe, TimesOut, CopyEnds,
         Upload, UpLoop, UploadFails, UploadEnds, DownLoop, Deliver, DeliverEnds, CloseBody,
         ClientLeaves, ReadLoop, ReadSuccess, ReadData, PushDownstreamData, ReadClose,
         RemoveSession, SessionRemoved, Server, ServerAnswers, ServerSends, ServerCloses,
         Sends, CloseSession, AgentClose, Break, manager, vars
<1> QED  BY <1>1, <1>2, <1>3

\* So ids that are shared stay shared.
LEMMA SharedStays == ASSUME IInv, [Next]_vars, Shared PROVE Shared'
<1>1. PICK s \in Sessions, q \in Sessions : s # q /\ id[s] = id[q] /\ id[s] # 0
  BY DEF Shared
<1> QED  BY <1>1, IdStays DEF Shared

\* Every step keeps types, ids and tunnels, and the order unless ids are shared.
LEMMA Keeps ==
  ASSUME IInv, Rest, [Next]_vars PROVE Rest' /\ (~Shared /\ OrderInv => OrderInv')
<1>1. CASE UNCHANGED vars
  <2>1. UNCHANGED <<id, pc, pipes, sessions, stream, cur, dialled, net, srv, sent>>
    BY <1>1 DEF vars, manager, copying, tunnel, server, stream
  <2>2. Onward
    BY <2>1 DEF Onward, IInv, IdInv
  <2> QED  BY <2>1, <2>2, LocalStep
<1>2. ASSUME NEW s \in Sessions,
             \/ AddStreamID(s) \/ ClientLeaves(s)
             \/ Start(s) \/ Upload(s) \/ UpLoop(s) \/ DownLoop(s) \/ CloseBody(s)
      PROVE  Rest' /\ (OrderInv => OrderInv')
  BY <1>2, IdKeeps, StartKeeps, PipeKeeps, LoopKeeps, DeliverKeeps, CloseKeeps
     DEF Start, DownLoop
<1>3. ASSUME NEW t \in 1..Dials, ReadLoop(t) PROVE Rest' /\ (~Shared /\ OrderInv => OrderInv')
  BY <1>3, ReadKeeps, PushKeeps DEF ReadLoop
<1>4. ASSUME NEW i \in IDs, Server(i) PROVE Rest' /\ (OrderInv => OrderInv')
  BY <1>4, SendKeeps
<1>5. CASE AgentClose \/ Break \/ \E i \in IDs : CloseSession(i)
  <2>1. UNCHANGED <<id, pc, pipes, sessions, stream>>
    BY <1>5 DEF Break, AgentClose, CloseSession, manager, copying, stream
  <2>2. Onward
    BY <2>1 DEF Onward, IInv, IdInv
  <2>3. CASE AgentClose \/ Break
    BY <2>1, <2>2, <2>3, DropStep DEF AgentClose, Break
  <2>4. CASE \E i \in IDs : CloseSession(i)
    BY <2>1, <2>2, <2>4, LocalStep DEF CloseSession, tunnel, server
  <2> QED  BY <1>5, <2>3, <2>4
<1> QED  BY <1>1, <1>2, <1>3, <1>4, <1>5 DEF Next

\* Every step preserves the inductive invariant.
LEMMA SStep == ASSUME SInv, [Next]_vars PROVE SInv'
  BY Step, Keeps, SharedStays DEF SInv

\* Every step is one of OrderedStream or does not concern it.
LEMMA Implements ==
  ASSUME SInv, [Next]_vars PROVE [Shared' \/ Ordered!Next]_(Ordered!vars)
<1> SUFFICES ASSUME ~Shared' PROVE Ordered!Next \/ UNCHANGED Ordered!vars
  OBVIOUS
<1>1. IInv /\ Rest /\ ~Shared /\ OrderInv /\ Shared' = Shared
  <2>1. ~Shared
    BY SharedStays DEF SInv
  <2>2. Shared \in BOOLEAN /\ Shared' \in BOOLEAN
    BY DEF Shared
  <2> QED  BY <2>1, <2>2 DEF SInv
<1>2. ASSUME NEW i \in IDs, ServerSends(i) PROVE Ordered!Next
  <2>1. /\ srv[i] # None /\ sent' = [sent EXCEPT ![srv[i]] = @ + 1]
        /\ UNCHANGED <<got, plain>>
    BY <1>2 DEF ServerSends, Sends, clients
  <2>2. srv[i] \in Sessions
    BY <1>1, <2>1 DEF Rest, Types
  <2>3. Ordered!Send(srv[i])
    BY <2>1 DEF Ordered!Send
  <2> QED  BY <2>2, <2>3 DEF Ordered!Next
<1>3. ASSUME NEW s \in Sessions, Deliver(s) PROVE Ordered!Next
  <2>1. /\ s \in plain /\ got' = [got EXCEPT ![s] = Head(chan[s])] /\ UNCHANGED <<sent, plain>>
    BY <1>3 DEF Deliver, clients, server
  <2>2. got[s] < got'[s] /\ got'[s] <= sent[s]
    BY <1>1, <1>3, DeliverKeeps
  <2>3. got \in [Sessions -> Nat] /\ sent \in [Sessions -> Nat] /\ got' \in [Sessions -> Nat]
    BY <1>1, <1>3, DeliverKeeps DEF Rest, Types
  <2>4. got'[s] \in (got[s] + 1)..sent[s] /\ got' = [got EXCEPT ![s] = got'[s]]
    BY <2>1, <2>2, <2>3
  <2>5. Ordered!Deliver(s)
    BY <2>1, <2>4 DEF Ordered!Deliver
  <2> QED  BY <2>5 DEF Ordered!Next
<1>4. ASSUME NEW s \in Sessions, DeliverEnds(s) \/ CloseBody(s) PROVE Ordered!Next
  <2>1. plain' = plain \ {s} /\ UNCHANGED <<sent, got>>
    BY <1>4 DEF DeliverEnds, CloseBody, WriteOK, Drop, server
  <2> QED  BY <2>1 DEF Ordered!Next, Ordered!End
<1>5. \/ \E i \in IDs : ServerSends(i)
      \/ \E s \in Sessions : Deliver(s) \/ DeliverEnds(s) \/ CloseBody(s)
      \/ UNCHANGED <<sent, got, plain>>
  <2>1. ASSUME NEW s \in Sessions,
               AddStreamID(s) \/ ClientLeaves(s) \/ Start(s) \/ Upload(s) \/ UpLoop(s)
        PROVE  UNCHANGED <<sent, got, plain>>
    BY <2>1 DEF AddStreamID, ClientLeaves, Start, RestartStreamID, RequestStream, RequestFails,
           SetStreamPipe, TimesOut, CopyEnds, Upload, UpLoop, UploadFails, UploadEnds,
           WriteOK, Drop, clients, server
  <2>2. ASSUME NEW t \in 1..Dials, ReadLoop(t) PROVE UNCHANGED <<sent, got, plain>>
    BY <2>2 DEF ReadLoop, ReadSuccess, ReadData, PushDownstreamData, ReadClose, RemoveSession,
           SessionRemoved, Reads, clients, server
  <2>3. ASSUME NEW i \in IDs, ServerAnswers(i) \/ ServerCloses(i) \/ CloseSession(i)
        PROVE  UNCHANGED <<sent, got, plain>>
    BY <2>3 DEF ServerAnswers, ServerCloses, Sends, CloseSession, clients, server
  <2>4. ASSUME AgentClose \/ Break \/ UNCHANGED vars PROVE UNCHANGED <<sent, got, plain>>
    BY <2>4 DEF AgentClose, Break, Drop, clients, server, vars
  <2> QED  BY <2>1, <2>2, <2>3, <2>4 DEF Next, DownLoop, Server
<1> QED  BY <1>1, <1>2, <1>3, <1>4, <1>5 DEF Ordered!vars

\* The initial states are initial states of OrderedStream.
LEMMA OrderedInit == Init => Ordered!Init
<1> SUFFICES ASSUME Init PROVE Ordered!Init
  OBVIOUS
<1>1. Shared = FALSE
  BY DEF Init, Shared
<1> QED  BY <1>1 DEF Init, Ordered!Init

\* Whatever sessions, read loops, the server and the network do, a client receives the
\* packets of its own stream, in order and each at most once, until two sessions share an
\* id: the session manager, the pipes and the data channels of session.go implement
\* OrderedStream.
THEOREM StreamsOrdered == Spec => OrderedStreams
<1>1. SInv /\ [Next]_vars => SInv'
  BY SStep
<1>2. SInv /\ [Next]_vars => [Shared' \/ Ordered!Next]_(Ordered!vars)
  BY Implements
<1> QED  BY <1>1, <1>2, SInitially, OrderedInit, PTL DEF Spec, OrderedStreams, Ordered!Spec

-----------------------------------------------------------------------------
(* Types and the bounds of the channels.                                    *)

\* Close is called for sessions that have their id only: the pipe that CloseBody removes
\* is one of the map.  The map has a session under its id.
CloseInv ==
    /\ up \subseteq Sessions /\ shut \subseteq Sessions /\ ending \in BOOLEAN
    /\ once \in [Sessions -> {"free", "closing", "over"}]
    /\ \A s \in Sessions : once[s] # "free" => id[s] \in IDs
    /\ \A i \in IDs : sessions[i] # None => id[sessions[i]] = i

\* Channels keep to their size, and packets are numbered as the server counts them,
\* wherever they are.
PacketInv ==
    /\ sent \in [Sessions -> 0..MaxData] /\ got \in [Sessions -> 0..MaxData]
    /\ chan \in [Sessions -> Seq(1..MaxData)] /\ \A s \in Sessions : Len(chan[s]) <= ChanSize
    /\ \A t \in 1..Dials : loop[t].at = "push" => loop[t].k \in 1..MaxData
    /\ \A n \in DOMAIN net : net[n].kind = "data" => net[n].k \in 1..MaxData

TInv == SInv /\ CloseInv /\ PacketInv

\* The initial states satisfy the invariant.
LEMMA TInitially == Init => TInv
<1> SUFFICES ASSUME Init PROVE TInv
  OBVIOUS
<1>1. Idle.at = "read" /\ \A i \in IDs : NoStreams[i] = None
  BY DEF Idle, NoStreams
<1>2. CloseInv
  BY <1>1 DEF Init, CloseInv
<1>3. PacketInv
  BY <1>1, SessionAssumption DEF Init, PacketInv
<1> QED  BY <1>2, <1>3, SInitially DEF TInv

\* The pipe that is removed is one of a session.
LEMMA ShutStep ==
  ASSUME TInv, [Next]_vars PROVE UNCHANGED shut \/ \E i \in IDs : RemoveStreamPipe(i)
<1>1. ASSUME NEW s \in Sessions, CloseBody(s) PROVE \E i \in IDs : RemoveStreamPipe(i)
  <2>1. id[s] \in IDs
    BY <1>1 DEF CloseBody, TInv, CloseInv
  <2> QED  BY <1>1, <2>1 DEF CloseBody
<1>2. ASSUME NEW t \in 1..Dials, ReadClose(t) PROVE \E i \in IDs : RemoveStreamPipe(i)
  <2>1. net \in Seq(Packets) /\ net # <<>>
    BY <1>2 DEF ReadClose, Reads, TInv, SInv, Rest, Types
  <2>2. Head(net) \in Packets
    BY <2>1, TailFacts
  <2>3. Head(net).id \in IDs
    BY <2>2 DEF Packets
  <2> QED  BY <1>2, <2>3 DEF ReadClose
<1>3. \/ UNCHANGED shut
      \/ \E s \in Sessions : CloseBody(s)
      \/ \E t \in 1..Dials : ReadClose(t)
  BY DEF Next, AddStreamID, Start, RestartStreamID, RequestStream, RequestFails, SetStreamPipe,
         TimesOut, CopyEnds, Upload, UpLoop, UploadFails, UploadEnds, DownLoop, Deliver,
         DeliverEnds, ClientLeaves, ReadLoop, ReadSuccess, ReadData, PushDownstreamData,
         RemoveSession, SessionRemoved, Server, ServerAnswers, ServerSends, ServerCloses,
         Sends, CloseSession, AgentClose, Break, copying, vars
<1> QED  BY <1>1, <1>2, <1>3

\* Every call of Close is for a session that has its id.
LEMMA OnceStep ==
  ASSUME TInv, [Next]_vars
  PROVE  \/ once' = once
         \/ \E s \in Sessions : id[s] \in IDs /\ CallClose(s)
         \/ \E s \in Sessions : once[s] = "closing" /\ once' = [once EXCEPT ![s] = "over"]
<1>1. ASSUME NEW s \in Sessions, RequestFails(s) \/ TimesOut(s) \/ CopyEnds(s)
      PROVE  id[s] \in IDs /\ CallClose(s)
  BY <1>1 DEF RequestFails, TimesOut, CopyEnds, Goto, TInv, SInv, IInv, IdInv, Fresh
<1>2. \A i \in IDs : sessions[i] # None => sessions[i] \in Sessions /\ id[sessions[i]] = i
  BY DEF TInv, SInv, Rest, Types, CloseInv
<1>3. ASSUME NEW i \in IDs, CloseSession(i)
      PROVE  \E s \in Sessions : id[s] \in IDs /\ CallClose(s)
  BY <1>2, <1>3 DEF CloseSession
<1>4. ASSUME NEW t \in 1..Dials, RemoveSession(t)
      PROVE  once' = once \/ \E s \in Sessions : id[s] \in IDs /\ CallClose(s)
  <2>1. loop[t].k \in IDs
    BY <1>4 DEF RemoveSession, TInv, SInv, Rest, Types
  <2> QED  BY <1>2, <1>4, <2>1 DEF RemoveSession
<1>5. ASSUME NEW s \in Sessions, CloseBody(s)
      PROVE  once[s] = "closing" /\ once' = [once EXCEPT ![s] = "over"]
  BY <1>5 DEF CloseBody
<1>6. \/ once' = once
      \/ \E s \in Sessions : RequestFails(s) \/ TimesOut(s) \/ CopyEnds(s) \/ CloseBody(s)
      \/ \E i \in IDs : CloseSession(i)
      \/ \E t \in 1..Dials : RemoveSession(t)
  BY DEF Next, AddStreamID, Start, RestartStreamID, RequestStream, SetStreamPipe,
         Upload, UpLoop, UploadFails, UploadEnds, DownLoop, Deliver,
         DeliverEnds, ClientLeaves, ReadLoop, ReadSuccess, ReadData, PushDownstreamData,
         ReadClose, SessionRemoved, Server, ServerAnswers, ServerSends, ServerCloses,
         Sends, AgentClose, Break, vars
<1> QED  BY <1>1, <1>3, <1>4, <1>5, <1>6

\* The map loses sessions, or gets one under its new id.
LEMMA MapStep ==
  ASSUME TInv, [Next]_vars
  PROVE  \A i \in IDs : sessions'[i] # None => sessions'[i] = sessions[i] \/ id'[sessions'[i]] = i
<1>1. sessions \in [IDs -> Sessions \cup {None}] /\ id \in [Sessions -> 0..MaxID]
  BY DEF TInv, SInv, Rest, Types, IInv, IdInv
<1>2. ASSUME NEW s \in Sessions, AddStreamID(s) \/ RestartStreamID(s)
      PROVE  \A i \in IDs : sessions'[i] = sessions[i] \/ id'[sessions'[i]] = i
  BY <1>1, <1>2 DEF AddStreamID, RestartStreamID, Store
<1>3. ASSUME NEW t \in 1..Dials, RemoveSession(t)
      PROVE  \A i \in IDs : sessions'[i] = sessions[i] \/ sessions'[i] = None
  BY <1>1, <1>3 DEF RemoveSession
<1>4. \/ sessions' = sessions
      \/ \E s \in Sessions : AddStreamID(s) \/ RestartStreamID(s)
      \/ \E t \in 1..Dials : RemoveSession(t)
  BY DEF Next, Start, RequestStream, RequestFails, SetStreamPipe, TimesOut, CopyEnds,
         Upload, UpLoop, UploadFails, UploadEnds, DownLoop, Deliver, DeliverEnds, CloseBody,
         ClientLeaves, ReadLoop, ReadSuccess, ReadData, PushDownstreamData, ReadClose,
         SessionRemoved, Server, ServerAnswers, ServerSends, ServerCloses,
         Sends, CloseSession, AgentClose, Break, manager, vars
<1> QED  BY <1>2, <1>3, <1>4

\* Every step preserves what Close relies on.
LEMMA CloseStep == ASSUME TInv, [Next]_vars PROVE CloseInv'
<1>1. \A p \in Sessions : id[p] \in IDs => id'[p] = id[p]
  BY IdStays DEF TInv, SInv, IDs
<1>2. up' \subseteq Sessions /\ ending' \in BOOLEAN
  BY DEF TInv, CloseInv, Next, AddStreamID, Start, RestartStreamID, RequestStream, RequestFails,
         SetStreamPipe, TimesOut, CopyEnds, Upload, UpLoop, UploadFails, UploadEnds, DownLoop,
         Deliver, DeliverEnds, CloseBody, ClientLeaves, ReadLoop, ReadSuccess, ReadData,
         PushDownstreamData, ReadClose, RemoveSession, SessionRemoved, Server, ServerAnswers,
         ServerSends, ServerCloses, Sends, CloseSession, AgentClose, Break, copying, vars
<1>3. shut' \subseteq Sessions
  BY ShutStep DEF TInv, CloseInv, SInv, IInv, IdInv, RemoveStreamPipe
<1>4. /\ once' \in [Sessions -> {"free", "closing", "over"}]
      /\ \A s \in Sessions : once'[s] # "free" => id'[s] \in IDs
  BY <1>1, OnceStep DEF TInv, CloseInv, CallClose
<1>5. \A i \in IDs : sessions'[i] # None => id'[sessions'[i]] = i
  <2>1. \A i \in IDs : sessions[i] # None => sessions[i] \in Sessions /\ id[sessions[i]] = i
    BY DEF TInv, SInv, Rest, Types, CloseInv
  <2> QED  BY <1>1, <2>1, MapStep
<1> QED  BY <1>2, <1>3, <1>4, <1>5 DEF CloseInv

\* What was read from the tunnel leaves the rest of it as it was.
LEMMA RestOfNet ==
  ASSUME TInv, NEW t, NEW kind, Reads(t, kind)
  PROVE  /\ Head(net) \in Packets /\ Head(net).kind = kind
         /\ kind = "data" => Head(net).k \in 1..MaxData
         /\ \A n \in DOMAIN net' : net'[n].kind = "data" => net'[n].k \in 1..MaxData
<1>1. net \in Seq(Packets) /\ net # <<>> /\ Head(net).kind = kind /\ net' = Tail(net)
  BY DEF Reads, TInv, SInv, Rest, Types
<1>2. /\ Head(net) \in Packets /\ Head(net) = net[1] /\ 1 \in DOMAIN net
      /\ \A n \in DOMAIN Tail(net) : n + 1 \in DOMAIN net /\ Tail(net)[n] = net[n + 1]
  BY <1>1, TailFacts
<1> QED  BY <1>1, <1>2 DEF TInv, PacketInv

\* The server numbers the packets of a session.
LEMMA SentStep == ASSUME TInv, NEW i \in IDs, Server(i) PROVE PacketInv'
<1>1. UNCHANGED <<chan, got, loop>> /\ srv[i] # None
  BY DEF Server, ServerAnswers, ServerSends, ServerCloses, Sends, copying
<1>2. srv[i] \in Sessions /\ net \in Seq(Packets) /\ sent \in [Sessions -> 0..MaxData]
  BY <1>1 DEF TInv, SInv, Rest, Types, PacketInv
<1>3. PICK kind \in {"success", "data", "close"}, k \in Nat :
          /\ net' = Append(net, [kind |-> kind, id |-> i, s |-> srv[i], k |-> k])
          /\ kind = "data" => k \in 1..MaxData
          /\ sent' \in [Sessions -> 0..MaxData]
  <2>1. CASE ServerAnswers(i) \/ ServerCloses(i)
    BY <1>2, <2>1 DEF ServerAnswers, ServerCloses, Sends
  <2>2. CASE ServerSends(i)
    <3>1. /\ net' = Append(net, [kind |-> "data", id |-> i, s |-> srv[i], k |-> sent[srv[i]] + 1])
          /\ sent[srv[i]] < MaxData /\ sent' = [sent EXCEPT ![srv[i]] = sent[srv[i]] + 1]
      BY <2>2 DEF ServerSends, Sends
    <3>2. sent[srv[i]] + 1 \in 1..MaxData
      BY <1>2, <3>1, SessionAssumption
    <3>3. sent' \in [Sessions -> 0..MaxData]
      BY <1>2, <3>1, <3>2
    <3>4. sent[srv[i]] + 1 \in Nat
      BY <3>2
    <3> QED  BY <3>1, <3>2, <3>3, <3>4
  <2> QED  BY <2>1, <2>2 DEF Server
<1> DEFINE x == [kind |-> kind, id |-> i, s |-> srv[i], k |-> k]
<1>4. x \in Packets /\ x.kind = kind /\ x.k = k
  BY <1>2 DEF Packets
<1> HIDE DEF x
<1>5. \A n \in DOMAIN net' : (n \in DOMAIN net /\ net'[n] = net[n]) \/ net'[n] = x
  <2>1. net' = Append(net, x)
    BY <1>3 DEF x
  <2> QED  BY <1>2, <1>4, <2>1, AppendFacts
<1>6. \A n \in DOMAIN net' : net'[n].kind = "data" => net'[n].k \in 1..MaxData
  BY <1>3, <1>4, <1>5 DEF TInv, PacketInv
<1> QED  BY <1>1, <1>3, <1>6 DEF TInv, PacketInv

\* The read loops: what they take in hand is a packet of the tunnel, and what they push
\* fits into the channel.
LEMMA TakenStep == ASSUME TInv, NEW t \in 1..Dials, ReadLoop(t) PROVE PacketInv'
<1>1. UNCHANGED <<sent, got>> /\ loop \in [1..Dials -> Hands]
  BY DEF ReadLoop, ReadSuccess, ReadData, PushDownstreamData, ReadClose, RemoveSession,
         SessionRemoved, Reads, server, TInv, SInv, Rest, Types
<1>2. Idle.at = "read"
  BY DEF Idle
<1>3. CASE ReadSuccess(t)
  <2>1. UNCHANGED <<chan, loop>> /\ Reads(t, "success")
    BY <1>3 DEF ReadSuccess, copying
  <2> QED  BY <1>1, <2>1, RestOfNet DEF TInv, PacketInv
<1>4. CASE ReadData(t)
  <2> DEFINE x == [at |-> "push", s |-> pipes[Head(net).id], k |-> Head(net).k]
  <2>1. chan' = chan /\ Reads(t, "data") /\ loop' \in {loop, [loop EXCEPT ![t] = x]}
    BY <1>4 DEF ReadData, copying
  <2>2. x.k \in 1..MaxData
    BY <2>1, RestOfNet
  <2> HIDE DEF x
  <2>3. \A u \in 1..Dials : loop'[u].at = "push" => loop'[u].k \in 1..MaxData
    BY <1>1, <2>1, <2>2 DEF TInv, PacketInv
  <2> QED  BY <1>1, <2>1, <2>3, RestOfNet DEF TInv, PacketInv
<1>5. CASE ReadClose(t)
  <2> DEFINE x == [at |-> "remove", s |-> None, k |-> Head(net).id]
  <2>1. chan' = chan /\ Reads(t, "close") /\ loop' = [loop EXCEPT ![t] = x] /\ x.at = "remove"
    BY <1>5 DEF ReadClose
  <2> HIDE DEF x
  <2>2. \A u \in 1..Dials : loop'[u].at = "push" => loop'[u].k \in 1..MaxData
    BY <1>1, <2>1 DEF TInv, PacketInv
  <2> QED  BY <1>1, <2>1, <2>2, RestOfNet DEF TInv, PacketInv
<1>6. CASE RemoveSession(t) \/ SessionRemoved(t)
  <2> DEFINE x == [at |-> "close", s |-> sessions[loop[t].k], k |-> 0]
  <2>1. /\ UNCHANGED <<chan, net>> /\ x.at = "close"
        /\ loop' = [loop EXCEPT ![t] = Idle] \/ loop' = [loop EXCEPT ![t] = x]
    BY <1>6 DEF RemoveSession, SessionRemoved, copying, tunnel
  <2> HIDE DEF x
  <2>2. \A u \in 1..Dials : loop'[u].at = "push" => loop'[u].k \in 1..MaxData
    BY <1>1, <1>2, <2>1 DEF TInv, PacketInv
  <2> QED  BY <1>1, <2>1, <2>2 DEF TInv, PacketInv
<1>7. CASE PushDownstreamData(t)
  <2> DEFINE s == loop[t].s
             c == IF s \in shut \/ Len(chan[s]) >= ChanSize THEN chan[s]
                                                           ELSE Append(chan[s], loop[t].k)
  <2>1. /\ net' = net /\ loop' = [loop EXCEPT ![t] = Idle] /\ loop[t].at = "push"
        /\ chan' = [chan EXCEPT ![s] = c]
    BY <1>7 DEF PushDownstreamData, tunnel
  <2>2. s \in Sessions /\ loop[t].k \in 1..MaxData /\ chan[s] \in Seq(1..MaxData)
        /\ Len(chan[s]) <= ChanSize /\ ChanSize \in Nat
    BY <2>1, SessionAssumption DEF TInv, SInv, Rest, Types, PacketInv
  <2>3. c \in Seq(1..MaxData) /\ Len(c) <= ChanSize
    <3>1. /\ Append(chan[s], loop[t].k) \in Seq(1..MaxData)
          /\ Len(Append(chan[s], loop[t].k)) = Len(chan[s]) + 1 /\ Len(chan[s]) \in Nat
      BY <2>2
    <3>2. CASE s \in shut \/ Len(chan[s]) >= ChanSize
      <4>1. c = chan[s]
        BY <3>2
      <4> QED  BY <2>2, <4>1
    <3>3. CASE ~(s \in shut \/ Len(chan[s]) >= ChanSize)
      <4>1. c = Append(chan[s], loop[t].k)
        BY <3>3
      <4>2. Len(chan[s]) + 1 <= ChanSize
        BY <2>2, <3>1, <3>3
      <4> HIDE DEF c
      <4> QED  BY <3>1, <4>1, <4>2
    <3> QED  BY <3>2, <3>3
  <2>4. \A u \in 1..Dials : loop'[u].at = "push" => loop'[u].k \in 1..MaxData
    BY <1>1, <1>2, <2>1 DEF TInv, PacketInv
  <2> HIDE DEF s, c
  <2>5. chan' \in [Sessions -> Seq(1..MaxData)] /\ \A q \in Sessions : Len(chan'[q]) <= ChanSize
    BY <2>1, <2>2, <2>3 DEF TInv, PacketInv
  <2> QED  BY <1>1, <2>1, <2>4, <2>5 DEF TInv, PacketInv
<1> QED  BY <1>3, <1>4, <1>5, <1>6, <1>7 DEF ReadLoop

\* The client receives what was in the channel.
LEMMA ReceivedStep == ASSUME TInv, NEW s \in Sessions, Deliver(s) PROVE PacketInv'
<1>1. /\ UNCHANGED <<sent, loop, net>> /\ chan[s] # <<>>
      /\ got' = [got EXCEPT ![s] = Head(chan[s])] /\ chan' = [chan EXCEPT ![s] = Tail(chan[s])]
  BY DEF Deliver, tunnel, server
<1>2. /\ chan[s] \in Seq(1..MaxData) /\ Len(chan[s]) <= ChanSize
      /\ chan \in [Sessions -> Seq(1..MaxData)] /\ got \in [Sessions -> 0..MaxData]
  BY DEF TInv, PacketInv
<1>3. /\ Head(chan[s]) \in 1..MaxData /\ Tail(chan[s]) \in Seq(1..MaxData)
      /\ Len(Tail(chan[s])) <= ChanSize
  BY <1>1, <1>2, SessionAssumption
<1>4. Head(chan[s]) \in 0..MaxData
  BY <1>3
<1>5. /\ got' \in [Sessions -> 0..MaxData] /\ chan' \in [Sessions -> Seq(1..MaxData)]
      /\ \A q \in Sessions : Len(chan'[q]) <= ChanSize
  BY <1>1, <1>2, <1>3, <1>4 DEF TInv, PacketInv
<1> QED  BY <1>1, <1>5 DEF TInv, PacketInv

\* Every step keeps channels and packets as they should be.
LEMMA PacketStep == ASSUME TInv, [Next]_vars PROVE PacketInv'
<1>1. ASSUME UNCHANGED <<sent, got, chan, loop>>, net' = net \/ net' = <<>> PROVE PacketInv'
  BY <1>1 DEF TInv, PacketInv
<1>2. ASSUME NEW s \in Sessions,
             AddStreamID(s) \/ ClientLeaves(s) \/ Start(s) \/ Upload(s) \/ UpLoop(s)
             \/ DeliverEnds(s) \/ CloseBody(s)
      PROVE  UNCHANGED <<sent, got, chan, loop>> /\ (net' = net \/ net' = <<>>)
  BY <1>2 DEF AddStreamID, ClientLeaves, Start, RestartStreamID, RequestStream, RequestFails,
         SetStreamPipe, TimesOut, CopyEnds, Upload, UpLoop, UploadFails, UploadEnds,
         DeliverEnds, CloseBody, WriteOK, Drop, copying, tunnel, server
<1>3. ASSUME AgentClose \/ Break \/ UNCHANGED vars \/ \E i \in IDs : CloseSession(i)
      PROVE  UNCHANGED <<sent, got, chan, loop>> /\ (net' = net \/ net' = <<>>)
  BY <1>3 DEF CloseSession, AgentClose, Break, Drop, copying, tunnel, server, vars
<1> QED  BY <1>1, <1>2, <1>3, ReceivedStep, TakenStep, SentStep DEF Next, DownLoop

\* Whatever the server sends and however slowly clients read, no channel holds more than
\* dataChannelSize packets, no client has received a packet that was not sent, and Close
\* removes pipes that the maps can have: every variable keeps its type.
THEOREM TypeCorrect == Spec => []TypeOK
<1>1. TInv => TypeOK
  <2> SUFFICES ASSUME TInv PROVE TypeOK
    OBVIOUS
  <2>1. cur \in 0..Dials
    BY SessionAssumption DEF TInv, SInv, Rest, Types
  <2> QED  BY <2>1 DEF TypeOK, TInv, SInv, Rest, Types, IInv, IdInv, CloseInv, PacketInv,
                      OnceStates
<1>2. TInv /\ [Next]_vars => TInv'
  BY SStep, CloseStep, PacketStep DEF TInv
<1> QED  BY <1>1, <1>2, TInitially, PTL DEF Spec

=============================================================================
