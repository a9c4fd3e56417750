------------------------ MODULE GoRemoteAgentProofs ------------------------
(***************************************************************************)
(* Safety of the goremote agent's UDP side, for any number of clients,     *)
(* targets and UDP sessions.                                               *)
(***************************************************************************)
EXTENDS GoRemoteAgent, TLAPS

\* Client c has sent a datagram to a target of key k through session u.
Asked(u, c, k) == \E q \in asked : /\ q[1] = u /\ q[2] = c /\ Key(q[3]) = k
                                   /\ k \notin {UnknownType, Invalid} => q[3] = k

\* Whoever reverseMap names for a key has sent a datagram to a target of that key through
\* this session.
NamesAskers ==
    \A u \in UDP, k \in Keys : rev[u][k] # None => Asked(u, rev[u][k], k)

\* A key that is not one that many targets share is the target itself.
LEMMA OwnKey ==
  ASSUME NEW d \in Targets
  PROVE  /\ Key(d) \in Keys
         /\ Key(d) \notin {UnknownType, Invalid} => Key(d) = d
  BY DEF Key, Keys

\* UDP sessions are made in the order of their numbers.
Numbered == \A u, v \in UDP : v < u /\ udp[u] # "none" => udp[v] # "none"

IInv == TypeOK /\ Numbered /\ NewestIsCurrent /\ NamesAskers /\ AnswersToAskers

\* The agent as NewAgent makes it satisfies the inductive invariant.
LEMMA Initially == Init => IInv
<1> SUFFICES ASSUME Init PROVE IInv
  OBVIOUS
<1>1. rev \in [UDP -> [Keys -> Clients \cup {None}]]
  BY DEF Init
<1>2. single \in {0} \cup {u \in UDP : udp[u] # "ended"}
  BY DEF Init
<1>3. TypeOK
  BY <1>1, <1>2 DEF Init, TypeOK
<1>4. NewestIsCurrent /\ Numbered
  BY DEF Init, NewestIsCurrent, Numbered
<1>5. NamesAskers /\ AnswersToAskers
  BY DEF Init, NamesAskers, AnswersToAskers
<1> QED  BY <1>3, <1>4, <1>5 DEF IInv

\* The actions of the TCP side, which leave UDP sessions and their maps alone.
LEMMA TcpStep ==
  ASSUME IInv, UNCHANGED <<assoc, nat>>,
         h' \in [Clients -> {"out", "handshake", "session", "associated", "done"}],
         init' \in {"no", "dialling", "ok", "failed"}, listening' \in BOOLEAN,
         close' \in {"open", "sweep", "wait", "closed"}
  PROVE  IInv'
  BY DEF IInv, TypeOK, Numbered, NewestIsCurrent, NamesAskers, Asked, AnswersToAskers,
         assoc, nat

\* StartVPN: listening and the first dial.
LEMMA StartStep == ASSUME IInv, StartVPN PROVE IInv'
  BY TcpStep DEF IInv, TypeOK, StartVPN, Start, Dialled, tcp

\* StopVPN, which leaves UDP sessions alone, and the end of the accept loop.
LEMMA StopStep == ASSUME IInv, StopVPN \/ acceptLoopEnds PROVE IInv'
  BY TcpStep DEF IInv, TypeOK, StopVPN, CloseListener, CloseAllSessions, CloseEnds,
                 acceptLoopEnds, tcp

\* What a client and its handler do, other than to associate.
LEMMA ClientStep ==
  ASSUME IInv, NEW c \in Clients,
         \/ acceptLoop(c) \/ ClientLeaves(c) \/ HandshakeFails(c) \/ HandleConnect(c)
         \/ SessionEnds(c) \/ AssociationEnds(c)
  PROVE  IInv'
  BY TcpStep DEF IInv, TypeOK, acceptLoop, ClientLeaves, HandshakeFails, HandleConnect,
                 SessionEnds, AssociationEnds, Goto, tcp

\* A step that changes the state of UDP sessions, but none of their maps.
LEMMA AssocStep ==
  ASSUME IInv, UNCHANGED <<init, tcp, nat>>,
         h' \in [Clients -> {"out", "handshake", "session", "associated", "done"}],
         udp' \in [UDP -> {"none", "made", "running", "closing", "ended"}],
         single' \in {0} \cup {u \in UDP : udp'[u] # "ended"},
         NewestIsCurrent', Numbered'
  PROVE  IInv'
  BY DEF IInv, TypeOK, NamesAskers, Asked, AnswersToAskers, tcp, nat

\* A new session has the next number: it is the newest, and it is current.
LEMMA AssociateStep == ASSUME IInv, NEW c \in Clients, handleUdpAssociate(c) PROVE IInv'
<1>1. h' \in [Clients -> {"out", "handshake", "session", "associated", "done"}]
  BY DEF IInv, TypeOK, handleUdpAssociate, Goto
<1>2. CASE Joins(c)
  BY <1>1, <1>2, AssocStep DEF IInv, TypeOK, NewestIsCurrent, Numbered, Joins, handleUdpAssociate
<1>3. CASE Creates(c)
  <2>1. PICK u \in UDP :
          /\ udp[u] = "none" /\ \A v \in UDP : v < u => udp[v] # "none"
          /\ single' = u /\ udp' = [udp EXCEPT ![u] = "made"]
    BY <1>3 DEF Creates
  <2>2. udp' \in [UDP -> {"none", "made", "running", "closing", "ended"}]
    BY <2>1 DEF IInv, TypeOK
  <2>3. single' \in {0} \cup {v \in UDP : udp'[v] # "ended"}
    BY <2>1 DEF IInv, TypeOK
  <2>4. NewestIsCurrent'
    <3> SUFFICES ASSUME NEW v \in UDP, udp'[v] \in {"made", "running"}, v # u,
                        \A w \in UDP : w > v => udp'[w] = "none"
                 PROVE  FALSE
      BY <2>1 DEF NewestIsCurrent
    <3>1. udp[v] # "none" /\ udp'[u] = "made"
      BY <2>1 DEF IInv, TypeOK
    <3>2. u < v
      BY <3>1 DEF UDP
    <3> QED  BY <2>1, <3>1, <3>2 DEF IInv, Numbered
  <2>5. Numbered'
    BY <2>1 DEF IInv, TypeOK, Numbered, UDP
  <2> QED  BY <1>1, <2>2, <2>3, <2>4, <2>5, AssocStep DEF handleUdpAssociate
<1> QED  BY <1>2, <1>3 DEF handleUdpAssociate

\* The goroutine of a UDP session starts, fails and closes its session.
LEMMA SessionStep ==
  ASSUME IInv, NEW u \in UDP, runUpstreamLoop(u) \/ UpstreamFails(u) \/ CloseUDPSession(u)
  PROVE  IInv'
<1>1. PICK x \in {"running", "closing", "ended"} : udp' = [udp EXCEPT ![u] = x]
  BY DEF runUpstreamLoop, UpstreamFails, CloseUDPSession
<1>2. udp' \in [UDP -> {"none", "made", "running", "closing", "ended"}]
  BY <1>1 DEF IInv, TypeOK
<1>3. single' \in {0} \cup {v \in UDP : udp'[v] # "ended"}
  BY DEF IInv, TypeOK, runUpstreamLoop, UpstreamFails, CloseUDPSession
<1>4. NewestIsCurrent'
  BY DEF IInv, TypeOK, NewestIsCurrent, runUpstreamLoop, UpstreamFails, CloseUDPSession
<1>5. h' \in [Clients -> {"out", "handshake", "session", "associated", "done"}]
  BY DEF IInv, TypeOK, runUpstreamLoop, UpstreamFails, CloseUDPSession
<1>6. Numbered'
  BY <1>1 DEF IInv, TypeOK, Numbered, runUpstreamLoop, UpstreamFails, CloseUDPSession
<1> QED
  BY <1>2, <1>3, <1>4, <1>5, <1>6, AssocStep DEF runUpstreamLoop, UpstreamFails, CloseUDPSession

\* Steps of the NAT maps.
LEMMA MapStep ==
  ASSUME IInv, UNCHANGED <<init, h, tcp, assoc>>,
         rev' \in [UDP -> [Keys -> Clients \cup {None}]], NamesAskers', AnswersToAskers'
  PROVE  IInv'
  BY DEF IInv, TypeOK, Numbered, NewestIsCurrent, tcp, assoc

\* A datagram goes up: the target now belongs to its sender.
LEMMA UpstreamStep ==
  ASSUME IInv, NEW u \in UDP, NEW c \in Clients, NEW d \in Targets, Upstream(u, c, d)
  PROVE  IInv'
<1>1. /\ rev' = [rev EXCEPT ![u] = [rev[u] EXCEPT ![Key(d)] = c]]
      /\ asked' = asked \cup {<<u, c, d>>}
  BY DEF Upstream, IInv, TypeOK
<1>2. rev' \in [UDP -> [Keys -> Clients \cup {None}]]
  BY <1>1 DEF IInv, TypeOK
<1>3. NamesAskers'
  <2> DEFINE Names(v, k, x) == \E q \in asked' :
                                 /\ q[1] = v /\ q[2] = x /\ Key(q[3]) = k
                                 /\ k \notin {UnknownType, Invalid} => q[3] = k
  <2> SUFFICES ASSUME NEW v \in UDP, NEW k \in Keys, rev'[v][k] # None
               PROVE  Names(v, k, rev'[v][k])
    BY DEF NamesAskers, Asked
  <2>1. CASE v = u /\ k = Key(d)
    <3>1. rev'[v][k] = c
      BY <1>1, <2>1 DEF IInv, TypeOK
    <3>2. <<u, c, d>> \in asked' /\ (k \notin {UnknownType, Invalid} => d = k)
      BY <1>1, <2>1, OwnKey
    <3> QED  BY <2>1, <3>1, <3>2
  <2>2. CASE ~(v = u /\ k = Key(d))
    <3>1. rev'[v][k] = rev[v][k]
      BY <1>1, <2>2 DEF IInv, TypeOK
    <3>2. Asked(v, rev[v][k], k)
      BY <3>1 DEF IInv, NamesAskers
    <3> QED  BY <1>1, <3>1, <3>2 DEF Asked
  <2> QED  BY <2>1, <2>2
<1>4. AnswersToAskers'
  BY <1>1 DEF IInv, AnswersToAskers, Upstream
<1> QED  BY <1>2, <1>3, <1>4, MapStep DEF Upstream

\* An answer goes down, to whom reverseMap names.
LEMMA DownstreamStep == ASSUME IInv, NEW d \in Targets, HandleDownstreamPacket(d) PROVE IInv'
<1> DEFINE c == rev[single][Key(d)]
<1>1. single \in UDP /\ Key(d) \in Keys
  BY OwnKey DEF IInv, TypeOK, HandleDownstreamPacket, IsRunning
<1>2. Asked(single, c, Key(d))
  BY <1>1 DEF IInv, NamesAskers, HandleDownstreamPacket
<1>3. replied' = {<<single, c, d>>} /\ asked' = asked /\ rev' = rev
  BY DEF HandleDownstreamPacket
<1>4. AnswersToAskers'
  <2>1. PICK q \in asked : /\ q[1] = single /\ q[2] = c /\ Key(q[3]) = Key(d)
                           /\ Key(d) \notin {UnknownType, Invalid} => q[3] = Key(d)
    BY <1>2 DEF Asked
  <2> QED  BY <1>3, <2>1, OwnKey DEF AnswersToAskers
<1>5. NamesAskers'
  BY <1>3 DEF IInv, NamesAskers, Asked
<1> QED  BY <1>3, <1>4, <1>5, MapStep DEF IInv, TypeOK, HandleDownstreamPacket

\* Nothing changes.
LEMMA Stutter == ASSUME IInv, UNCHANGED vars PROVE IInv'
  BY DEF IInv, TypeOK, Numbered, NewestIsCurrent, NamesAskers, Asked, AnswersToAskers, vars, tcp, assoc, nat

\* Every step of the agent preserves the inductive invariant.
LEMMA Step == ASSUME IInv, [Next]_vars PROVE IInv'
  BY StartStep, StopStep, ClientStep, AssociateStep, SessionStep, UpstreamStep, DownstreamStep,
     Stutter DEF Next, Handler

\* The inductive invariant holds in every reachable state.
LEMMA Invariance == Spec => []IInv
  BY Initially, Step, PTL DEF Spec

\* The variables keep their types, and the UDP manager never holds a session that has
\* ended, however creation, failure and Close of sessions interleave.
THEOREM TypeCorrect == Spec => []TypeOK
<1>1. IInv => TypeOK
  BY DEF IInv
<1> QED  BY <1>1, Invariance, PTL

\* GetOrCreateSingletonSession and the Close of an older session never unseat the newest
\* UDP session while it lives.
THEOREM NewestStays == Spec => []NewestIsCurrent
<1>1. IInv => NewestIsCurrent
  BY DEF IInv
<1> QED  BY <1>1, Invariance, PTL

\* HandleDownstreamPacket answers only clients that have sent to a target of the same key,
\* through the session that they asked through: to the target that answers, unless it
\* has one of the two keys that many targets share.
THEOREM OnlyAskersAnswered == Spec => []AnswersToAskers
<1>1. IInv => AnswersToAskers
  BY DEF IInv
<1> QED  BY <1>1, Invariance, PTL

=============================================================================
