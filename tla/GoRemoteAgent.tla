--------------------------- MODULE GoRemoteAgent ---------------------------
(***************************************************************************)
(* The goremote agent around its tunnel and sessions: the local listener   *)
(* and its handlers, the SOCKS5 handshake, UDP associations with their     *)
(* singleton session, and Agent.Close                                      *)
(* (internal/tunnel/goremote: agent.go, strategy.go, socks5_handler.go,    *)
(* udp_manager.go, udp_session.go), started and stopped by the mobile API  *)
(* (mobile/api.go).                                                        *)
(*                                                                         *)
(* A TCP session is one state of its handler here (GoRemoteSession has its *)
(* life): it may end at any time, and does end once it is closed.          *)
(***************************************************************************)
EXTENDS Naturals

CONSTANTS
    Clients,    \* SOCKS5 clients, one connection each
    Named,      \* targets by IPv4 address or name, with a port
    Untyped,    \* targets of any other address type, IPv6 among them
    Short,      \* what datagrams that are too short are taken for
    UnknownType, Invalid,   \* "unknown_type" and "invalid", with port 0
    MaxUDP,     \* bound: UDP sessions made
    None

ASSUME AgentAssumption == MaxUDP \in Nat /\ None \notin Clients

UDP == 1..MaxUDP
Targets == Named \cup Untyped \cup Short
Keys == Named \cup {UnknownType, Invalid}

\* parseSocks5UDPTarget: what a target is called in reverseMap.
Key(d) == IF d \in Named THEN d ELSE IF d \in Untyped THEN UnknownType ELSE Invalid

VARIABLES
    init,           \* Initialize: "no", "dialling", "ok" or "failed"
    listening, loop,\* the listener is open; the accept loop runs
    h,              \* the handler of each client
    left,           \* clients that have closed their connection
    stored, swept,  \* sessions in the SessionManager's map; those Agent.Close has closed
    late,           \* history: those stored after that
    close,          \* Agent.Close: "open", "sweep", "wait", "closed"
    single,         \* singletonSession (0: nil)
    udp, bound,     \* state of each UDPSession; those whose localListener is open
    told,           \* the listener each client was given
    rev,            \* reverseMap of each UDPSession
    asked, replied  \* history: datagrams <<session, client, target>> sent; the last answer

tcp == <<listening, loop, left, stored, swept, late, close>>
assoc == <<single, udp, bound, told>>
nat == <<rev, asked, replied>>
vars == <<init, h, tcp, assoc, nat>>

Init ==
    /\ init = "no" /\ listening = FALSE /\ loop = FALSE /\ close = "open"
    /\ h = [c \in Clients |-> "out"] /\ left = {} /\ stored = {} /\ swept = {} /\ late = {}
    /\ single = 0 /\ udp = [u \in UDP |-> "none"] /\ bound = {}
    /\ told = [c \in Clients |-> 0]
    /\ rev = [u \in UDP |-> [k \in Keys |-> None]]
    /\ asked = {} /\ replied = {}

Goto(c, from, to) == h[c] = from /\ h' = [h EXCEPT ![c] = to]

-----------------------------------------------------------------------------
(* Agent.Start: listen, run the accept loop, then connect the tunnel.  When *)
(* the dial fails the listener stays open and clients are served.           *)

Start ==
    /\ init = "no"
    /\ \/ init' = "failed" /\ UNCHANGED tcp
       \/ /\ init' = "dialling" /\ listening' = TRUE /\ loop' = TRUE
          /\ UNCHANGED <<left, stored, swept, late, close>>
    /\ UNCHANGED <<h, assoc, nat>>

Dialled ==
    /\ init = "dialling" /\ init' \in {"ok", "failed"}
    /\ UNCHANGED <<h, tcp, assoc, nat>>

acceptLoop(c) ==
    /\ loop /\ listening /\ Goto(c, "out", "handshake")
    /\ UNCHANGED <<init, tcp, assoc, nat>>

acceptLoopEnds ==
    /\ loop /\ ~listening /\ loop' = FALSE
    /\ UNCHANGED <<init, h, listening, left, stored, swept, late, close, assoc, nat>>

ClientLeaves(c) ==
    /\ h[c] # "out" /\ left' = left \cup {c}
    /\ UNCHANGED <<init, h, listening, loop, stored, swept, late, close, assoc, nat>>

-----------------------------------------------------------------------------
(* handleSocks5 after HandshakeWithClient, which reads from the client for  *)
(* as long as the client likes: every read that fails, another version or   *)
(* address type, and every command but CONNECT and UDP ASSOCIATE end it.    *)

HandshakeFails(c) ==
    /\ Goto(c, "handshake", "done") /\ UNCHANGED <<init, tcp, assoc, nat>>

HandleConnect(c) ==
    /\ Goto(c, "handshake", "session") /\ stored' = stored \cup {c}
    /\ late' = IF close = "wait" THEN late \cup {c} ELSE late
    /\ UNCHANGED <<init, listening, loop, left, swept, close, assoc, nat>>

SessionEnds(c) ==
    /\ Goto(c, "session", "done") /\ UNCHANGED <<init, tcp, assoc, nat>>

IsRunning(u) == u # 0 /\ udp[u] \in {"running", "closing"}

\* GetOrCreateSingletonSession, under its lock, and the reply with the listener's
\* address.  A new session is not running before its goroutine has started.
Joins(c) ==
    /\ IsRunning(single)
    /\ told' = [told EXCEPT ![c] = single]
    /\ UNCHANGED <<single, udp, bound>>

Creates(c) ==
    /\ ~IsRunning(single)
    /\ \E u \in UDP :
          /\ udp[u] = "none" /\ \A v \in UDP : v < u => udp[v] # "none"
          /\ single' = u /\ told' = [told EXCEPT ![c] = u]
          /\ udp' = [udp EXCEPT ![u] = "made"] /\ bound' = bound \cup {u}

handleUdpAssociate(c) ==
    /\ Goto(c, "handshake", "associated")
    /\ Joins(c) \/ Creates(c)
    /\ UNCHANGED <<init, tcp, nat>>

\* io.Copy(io.Discard, client) returns when the client has gone.
AssociationEnds(c) ==
    /\ c \in left /\ Goto(c, "associated", "done")
    /\ UNCHANGED <<init, tcp, assoc, nat>>

-----------------------------------------------------------------------------
(* The goroutine of a UDPSession.                                           *)

runUpstreamLoop(u) ==
    /\ udp[u] = "made" /\ udp' = [udp EXCEPT ![u] = "running"]
    /\ UNCHANGED <<init, h, tcp, single, bound, told, nat>>

\* A datagram of client c for target d; it goes up on the one stream of all UDP.
\* (forwardMap, which cleanupNatMap keeps short, is never looked at.)
Upstream(u, c, d) ==
    /\ udp[u] = "running" /\ told[c] = u
    /\ rev' = [rev EXCEPT ![u][Key(d)] = c]
    /\ asked' = asked \cup {<<u, c, d>>}
    /\ UNCHANGED <<init, h, tcp, assoc, replied>>

\* Every error of the read but a timeout ends the loop, whose deferred Close closes the listener ...
UpstreamFails(u) ==
    /\ udp[u] = "running" /\ udp' = [udp EXCEPT ![u] = "closing"]
    /\ bound' = bound \ {u}
    /\ UNCHANGED <<init, h, tcp, single, told, nat>>

CloseUDPSession_Any(u) ==
    /\ udp[u] = "closing" /\ udp' = [udp EXCEPT ![u] = "ended"]
    /\ single' = 0
    /\ UNCHANGED <<init, h, tcp, bound, told, nat>>

CloseUDPSession_Keep(u) ==
    /\ udp[u] = "closing" /\ udp' = [udp EXCEPT ![u] = "ended"]
    /\ UNCHANGED <<init, h, tcp, single, bound, told, nat>>

\* ... and takes the session out of its manager, if it is still the one there.
CloseUDPSession(u) ==
    /\ udp[u] = "closing" /\ udp' = [udp EXCEPT ![u] = "ended"]
    /\ single' = IF single = u THEN 0 ELSE single
    /\ UNCHANGED <<init, h, tcp, bound, told, nat>>

HandleDownstreamPacket_Any(d) ==
    /\ IsRunning(single) /\ single \in bound
    /\ \E c \in Clients : told[c] = single /\ replied' = {<<single, c, d>>}
    /\ UNCHANGED <<init, h, tcp, assoc, rev, asked>>

\* HandleDownstreamPacket, in the tunnel's read loop: an answer of target d goes to the
\* client that sent the last datagram to a target of the same key.
HandleDownstreamPacket(d) ==
    /\ IsRunning(single) /\ single \in bound
    /\ rev[single][Key(d)] # None
    /\ replied' = {<<single, rev[single][Key(d)], d>>}
    /\ UNCHANGED <<init, h, tcp, assoc, rev, asked>>

-----------------------------------------------------------------------------
(* Agent.Close, of an agent whose Initialize is over: the AppServer closes  *)
(* one that failed, too.  UDP sessions are not closed.                      *)

CloseListener ==
    /\ init \in {"ok", "failed"} /\ close = "open" /\ close' = "sweep"
    /\ listening' = FALSE
    /\ UNCHANGED <<init, h, loop, left, stored, swept, late, assoc, nat>>

CloseAllSessions_Skip ==
    /\ close = "sweep" /\ close' = "wait"
    /\ UNCHANGED <<init, h, listening, loop, left, stored, swept, late, assoc, nat>>

CloseAllSessions ==
    /\ close = "sweep" /\ close' = "wait"
    /\ swept' = stored
    /\ UNCHANGED <<init, h, listening, loop, left, stored, late, assoc, nat>>

CloseEnds ==
    /\ close = "wait" /\ ~loop /\ \A c \in Clients : h[c] \in {"out", "done"}
    /\ close' = "closed"
    /\ UNCHANGED <<init, h, listening, loop, left, stored, swept, late, assoc, nat>>

-----------------------------------------------------------------------------
\* mobile/api.go: activeStrategy is set from a successful start to the end of StopVPN,
\* both under instanceMutex.  It drops an agent that failed to start as it is.
StartVPN == Start \/ Dialled
StopVPN == CloseListener \/ CloseAllSessions \/ CloseEnds

Handler(c) == HandshakeFails(c) \/ HandleConnect(c) \/ handleUdpAssociate(c)

Next ==
    \/ StartVPN \/ StopVPN \/ acceptLoopEnds
    \/ \E c \in Clients : \/ acceptLoop(c) \/ ClientLeaves(c) \/ Handler(c) \/ SessionEnds(c)
                          \/ AssociationEnds(c)
    \/ \E u \in UDP : \/ runUpstreamLoop(u) \/ UpstreamFails(u)
                      \/ CloseUDPSession(u)
                      \/ \E c \in Clients, d \in Targets : Upstream(u, c, d)
    \/ \E d \in Targets : HandleDownstreamPacket(d)

\* Goroutines run: Close, the accept loop, a handler whose client has left, a session
\* that was closed.  Clients need not leave, sessions need not end by themselves.
Fairness ==
    /\ WF_vars(CloseAllSessions \/ CloseEnds) /\ WF_vars(acceptLoopEnds)
    /\ \A c \in Clients : /\ WF_vars(c \in left /\ HandshakeFails(c))
                          /\ WF_vars(AssociationEnds(c))
                          /\ WF_vars(c \in swept /\ SessionEnds(c))

Spec == Init /\ [][Next]_vars /\ Fairness

-----------------------------------------------------------------------------
(* Properties.                                                              *)

\* Every variable has its type; the manager never holds a session that has ended.
TypeOK ==
    /\ init \in {"no", "dialling", "ok", "failed"} /\ listening \in BOOLEAN
    /\ h \in [Clients -> {"out", "handshake", "session", "associated", "done"}]
    /\ close \in {"open", "sweep", "wait", "closed"}
    /\ udp \in [UDP -> {"none", "made", "running", "closing", "ended"}]
    /\ single \in {0} \cup {u \in UDP : udp[u] # "ended"}
    /\ rev \in [UDP -> [Keys -> Clients \cup {None}]]

\* The newest UDP session, until it ends, is the one that joins and answers are looked
\* up in, although it can replace one that has not started yet, and that one can end
\* later.
NewestIsCurrent ==
    \A u \in UDP :
        (udp[u] \in {"made", "running"} /\ \A v \in UDP : v > u => udp[v] = "none")
            => single = u

\* An answer goes only to a client that sent a datagram to a target of the same key,
\* through the listener the client was told; to that very target, if the key is a
\* name or an IPv4 address and not one that many targets share.
AnswersToAskers ==
    \A r \in replied : \E q \in asked :
        /\ q[1] = r[1] /\ q[2] = r[2] /\ Key(q[3]) = Key(r[3])
        /\ Key(r[3]) \notin {UnknownType, Invalid} => q[3] = r[3]

\* Clients that Agent.Close neither closes nor can interrupt: in their handshake or
\* associated, or with a session that was stored too late.
Unreached == {c \in Clients : \/ h[c] \in {"handshake", "associated"} /\ c \notin left
                              \/ h[c] = "session" /\ c \in late}

\* Agent.Close returns, unless a client that it does not reach stays: CloseAllSessions
\* lets every other handler end.
CloseReturns == []<>(Unreached # {}) \/ (close # "open" ~> close = "closed")

=============================================================================
