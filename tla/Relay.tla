------------------------------- MODULE Relay -------------------------------
(***************************************************************************)
(* One client's connection on its whole way: the gateway's handler, the    *)
(* handler of a worker or VLESS strategy behind it, and the remote end,    *)
(* while the configuration changes (CloseTunnel).  Client and remote do as *)
(* they like, but they keep to their protocols: the client of a SOCKS5 or  *)
(* CONNECT request waits for the answer before it sends data.              *)
(***************************************************************************)
EXTENDS Gateway, Strategy, SequencesExt

CONSTANTS
    Firsts,     \* what a client may send first
    Items       \* bound: the data of the client, in order, and that of the remote

VARIABLES
    first, csent, cgot,     \* the client: its first item, data sent, items received
    rsent, rgot, ready,     \* the remote: data sent, items received, it may send data
    rdown                   \* the remote has ended the connection, or cannot be reached

N == Len(Items)

\* What the parts of the program say to each other; data is told apart from it.
Words == {"socks", "connect", "http", "tls", "hello", "method", "new", "success", "hdr",
          "close", "ok", "fail", "bad"}

ASSUME RelayAssumption == Items \in Seq(STRING) /\ \A i \in 1..N : Items[i] \notin Words

client == <<first, csent, cgot>>
remote == <<rsent, rgot, ready, rdown>>
vars == <<links, mid, gateway, strategy, client, remote>>

Init ==
    /\ LinksInit /\ GatewayInit /\ StrategyInit
    /\ first \in Firsts /\ csent = -1 /\ cgot = <<>>
    /\ rsent = 0 /\ rgot = <<>> /\ ready = FALSE /\ rdown = FALSE

-----------------------------------------------------------------------------
(* The client.                                                              *)

Waits == first \in {"socks", "connect"} /\ cgot = <<>>

ClientSends ==
    /\ csent < N /\ (csent >= 0 => ~Waits)
    /\ g # "out" /\ CanWrite("cg")
    /\ Set(Put(q, "cg", IF csent < 0 THEN first ELSE Items[csent + 1]))
    /\ csent' = csent + 1
    /\ UNCHANGED <<mid, gateway, strategy, first, cgot, remote>>

ClientReceives ==
    /\ Arrived("gc") /\ Set(Take(q, "gc")) /\ cgot' = Append(cgot, Head(q["gc"]))
    /\ UNCHANGED <<mid, gateway, strategy, first, csent, remote>>

ClientShuts ==
    /\ csent >= 0 /\ "cg" \notin fin /\ Shut("cg")
    /\ UNCHANGED <<mid, gateway, strategy, client, remote>>

ClientCloses ==
    /\ g # "out" /\ "gc" \notin deaf /\ Close({"cg"}, {"gc"})
    /\ UNCHANGED <<mid, gateway, strategy, client, remote>>

-----------------------------------------------------------------------------
(* The remote end: the strategy's server, or the target of DIRECT.          *)

In == IF mid = "direct" THEN "gb" ELSE "br"
Out == IF mid = "direct" THEN "bg" ELSE "rb"
Dialled == mid = "direct" \/ b \in {"success", "copy"}

\* The request of a stream is answered, data is received.
RemoteReceives ==
    LET x == Head(q[In]) IN
    /\ Dialled /\ Arrived(In)
    /\ \/ /\ x \in {"new", "hdr"} /\ ready' = TRUE /\ UNCHANGED rgot
          /\ Set(Put(Take(q, In), Out, IF x = "new" THEN "success" ELSE "hdr"))
       \/ x = "close" /\ Set(Take(q, In)) /\ UNCHANGED <<ready, rgot>>
       \/ /\ x \notin {"new", "hdr", "close"} /\ Set(Take(q, In))
          /\ rgot' = Append(rgot, x) /\ UNCHANGED ready
    /\ UNCHANGED <<mid, gateway, strategy, client, rsent, rdown>>

RemoteSends ==
    /\ Dialled /\ (ready \/ mid = "direct") /\ rsent < N /\ CanWrite(Out)
    /\ Set(Put(q, Out, Items[rsent + 1])) /\ rsent' = rsent + 1
    /\ UNCHANGED <<mid, gateway, strategy, client, rgot, ready, rdown>>

\* The server of a worker tells the end of a stream with a packet.
RemoteEndsStream ==
    /\ b = "copy" /\ kind = "worker" /\ ready /\ ~rdown /\ CanWrite("rb")
    /\ Set(Put(q, "rb", "close")) /\ rsent' = N
    /\ UNCHANGED <<mid, gateway, strategy, client, rgot, ready, rdown>>

RemoteCloses ==
    /\ ~rdown /\ rdown' = TRUE
    /\ IF Dialled THEN Close({Out}, {In}) ELSE UNCHANGED links
    /\ UNCHANGED <<mid, gateway, strategy, client, rsent, rgot, ready>>

-----------------------------------------------------------------------------
(* The goroutines of the program.  Dials meet the strategy's listener, or   *)
(* the remote.                                                              *)

GatewayHandler ==
    \/ sniffTargetForRouting \/ fillBuffer \/ (("cg" \in fin \/ Arrived("cg")) /\ SniffFails)
    \/ \E r \in {"direct", "backend"} : DispatchTo(r)
    \/ Rejected \/ (~rdown /\ DirectDial) \/ DirectDialFails
    \/ (bopen /\ (forwardTCP \/ forwardSocks5 \/ dialSocksProxy)) \/ (~bopen /\ BackendDialFails)
    \/ handleSocks5BackendHandshake \/ BackendHandshakeFails
    \/ ConnectRequest \/ HttpConnected \/ HttpPassingFails \/ dialSocksProxyFails \/ GCopied

GatewayUp == GUp \/ GUpEnds
GatewayDown == GDown \/ GDownEnds

\* A client that is slow may be dropped, one that stays silent need not be.
GatewayMay == acceptLoop \/ SniffFails

StrategyHandler ==
    \/ Register \/ Methods \/ Request \/ VlessRequest \/ HandshakeFails
    \/ (~rdown /\ (createTunnel \/ DialVlessWS \/ DialVlessGRPC \/ HeaderFails))
    \/ createTunnelFails \/ DialVlessFails \/ waitForSuccess \/ NoSuccess \/ BCopied

StrategyUp == FirstChunk \/ FirstChunkFails \/ BUp \/ BUpEnds \/ CloseWriter
StrategyDown == DecodeResponseHeader \/ NoResponseHeader \/ BDown \/ BDownEnds \/ VlessDownEnds
Closing == CloseActive \/ TunnelClosed

GatewayStep(A) == A /\ UNCHANGED <<strategy, client, remote>>
StrategyStep(A) == A /\ UNCHANGED <<gateway, client, remote>>

Next ==
    \/ GatewayStep(GatewayHandler \/ GatewayUp \/ GatewayDown \/ GatewayMay)
    \/ StrategyStep(Accept \/ StrategyHandler \/ StrategyUp \/ StrategyDown
                    \/ Closing \/ CloseTunnel)
    \/ ClientSends \/ ClientReceives \/ ClientShuts \/ ClientCloses
    \/ RemoteReceives \/ RemoteSends \/ RemoteEndsStream \/ RemoteCloses

\* Goroutines run and timeouts expire; client and remote need not do anything.
Fairness ==
    /\ WF_vars(GatewayStep(GatewayHandler)) /\ WF_vars(GatewayStep(GatewayUp))
    /\ WF_vars(GatewayStep(GatewayDown))
    /\ WF_vars(StrategyStep(Accept)) /\ WF_vars(StrategyStep(StrategyHandler))
    /\ WF_vars(StrategyStep(StrategyUp)) /\ WF_vars(StrategyStep(StrategyDown))
    /\ WF_vars(StrategyStep(Closing))

Spec == Init /\ [][Next]_vars /\ Fairness

-----------------------------------------------------------------------------
(* Properties.                                                              *)

\* Every variable has its type; nobody sends on a connection that is not there.
TypeOK ==
    /\ fin \subseteq Dirs /\ deaf \subseteq Dirs
    /\ g \in {"out", "sniff", "spin", "dispatch", "dial", "method", "reply", "copy", "done"}
    /\ b \in {"out", "accepted", "hello", "request", "dial", "success", "copy", "done"}
    /\ gcopy \subseteq {"up", "down"} /\ bcopy \subseteq {"first", "up", "header", "down"}
    /\ mid = "none" => q["gb"] = <<>> /\ q["bg"] = <<>>
    /\ b \in {"out", "accepted", "hello", "request", "dial"} => q["br"] = <<>> /\ q["rb"] = <<>>

\* DIRECT passes the request of the proxy protocol on to the target, unanswered.
Misrouted == route = "direct" /\ first \in {"socks", "connect"}

\* The remote receives the client's data, in order and without gaps, and no request of
\* the proxy protocols among it, whichever of the readers on the way holds it when a
\* handler is done with its handshake.
RemoteGetsPayload ==
    Misrouted \/ IsPrefix(rgot, (IF first \in {"http", "tls"} THEN <<first>> ELSE <<>>) \o Items)

\* The client receives the answer to its request, one only, and after it the data of the
\* remote, in order and without gaps.  VLESS has said yes already when its dial fails.
ClientGetsPayload ==
    \/ Misrouted
    \/ IsPrefix(cgot, (IF first \in {"socks", "connect"} THEN <<"ok">> ELSE <<>>) \o Items)
    \/ cgot = <<"bad">>
    \/ kind # "worker" /\ cgot \in {<<"ok", "fail">>, <<"fail">>}

Gone == "gc" \in deaf
Over == g \in {"out", "done"} /\ b \in {"out", "done"}

\* A write to the remote that does not return.
Stuck == Len(q["br"]) >= Cap \/ Len(q["gb"]) >= Cap \/ g = "spin"

\* When the client is gone, both handlers end and close all they have, unless a write is
\* stuck, or they wait for the remote: gRPC and DIRECT only close their sending side.
ClientEndsAll ==
    []<>Stuck \/ (Gone ~> Over \/ ((kind = "grpc" \/ mid = "direct") /\ ~rdown))

\* When the remote is gone, the worker's handler ends; that of VLESS half-closes the
\* client and then waits for it.
RemoteEndsHandler ==
    []<>Stuck \/ (rdown /\ b = "copy" ~> b = "done" \/ (kind # "worker" /\ "bg" \in fin /\ ~Gone))

\* CloseTunnel does not reach a connection that was registered after its sweep, and
\* gRPC waits for its remote.
Unreached == \/ late /\ b # "done"
             \/ kind = "grpc" /\ ~rdown
             \/ Stuck

\* CloseTunnel returns, unless there is a connection that it does not reach.
CloseTunnelReturns == []<>Unreached \/ (bclose # "no" ~> bclose = "done")

=============================================================================
