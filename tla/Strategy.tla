------------------------------ MODULE Strategy ------------------------------
(***************************************************************************)
(* The strategies that make one remote connection per client: worker       *)
(* (internal/tunnel/worker) and VLESS over WebSocket or gRPC               *)
(* (internal/tunnel/vless, internal/xray_core/transport).  Their listener, *)
(* their handler of one connection, and CloseTunnel.                       *)
(*                                                                         *)
(* worker: packets "new", data and "close" go up, "success", data and      *)
(* "close" come down.  VLESS: the request header goes up with the first    *)
(* data of the client, "hdr"; the response header comes down first.  The   *)
(* WebSocket connection has no CloseWrite, so CloseWriter closes it; that  *)
(* of gRPC only ends the sending side, whoever closes it.                  *)
(***************************************************************************)
EXTENDS Links

VARIABLES
    kind,           \* "worker", "ws" or "grpc"
    bopen, bclose,  \* the listener; CloseTunnel: "no", "sweep", "wait", "done"
    b,              \* where the handler is
    active, late,   \* the connection is in activeConns; it came after CloseTunnel's sweep
    bcopy           \* copy loops that run

strategy == <<kind, bopen, bclose, b, active, late, bcopy>>

\* The networks that VLESS has handlers for.
Networks == {"ws", "grpc"}

StrategyInit ==
    /\ kind \in {"worker"} \cup Networks /\ bopen = TRUE /\ bclose = "no"
    /\ b = "out" /\ active = FALSE /\ late = FALSE /\ bcopy = {}

BGoto(from, to) == b = from /\ b' = to

Accept ==
    /\ bopen /\ mid = "pending" /\ mid' = "accepted"
    /\ BGoto("out", "accepted")
    /\ UNCHANGED <<kind, bopen, bclose, active, late, bcopy, links>>

\* The accept loop registers the connection and starts its handler.
Register ==
    /\ BGoto("accepted", "hello") /\ active' = TRUE /\ late' = (bclose = "wait")
    /\ UNCHANGED <<kind, bopen, bclose, bcopy, links, mid>>

\* The handler returns, after Q was sent: both connections are closed, the gRPC one in
\* its sending direction.
BEndAfter(Q) ==
    /\ b' = "done" /\ active' = FALSE
    /\ CloseAfter(Q, {"bg", "br"}, {"gb", "rb"} \ IF kind = "grpc" THEN {"rb"} ELSE {})

-----------------------------------------------------------------------------
(* The SOCKS5 handshake.                                                    *)

Methods ==
    /\ Heard("gb", {"hello"}) /\ BGoto("hello", "request")
    /\ Set(Put(Take(q, "gb"), "bg", "method"))
    /\ UNCHANGED <<kind, bopen, bclose, active, late, bcopy, mid>>

Request_Early ==
    /\ kind = "worker" /\ Heard("gb", {"socks"}) /\ BGoto("request", "dial")
    /\ Set(Put(Take(q, "gb"), "br", "new"))
    /\ UNCHANGED <<kind, bopen, bclose, active, late, bcopy, mid>>

Request ==
    /\ kind = "worker" /\ Heard("gb", {"socks"}) /\ BGoto("request", "dial")
    /\ Set(Take(q, "gb"))
    /\ UNCHANGED <<kind, bopen, bclose, active, late, bcopy, mid>>

\* VLESS says yes before it has dialled.
VlessRequest ==
    /\ kind # "worker" /\ Heard("gb", {"socks"}) /\ BGoto("request", "dial")
    /\ Set(Put(Take(q, "gb"), "bg", "ok"))
    /\ UNCHANGED <<kind, bopen, bclose, active, late, bcopy, mid>>

\* The client is gone, says something else, or asks for a kind of address the worker
\* does not know.
HandshakeFails ==
    /\ b \in {"hello", "request"}
    /\ \/ AtEnd("gb")
       \/ Arrived("gb") /\ ~Heard("gb", {"hello", "socks"})
       \/ Arrived("gb") /\ b = "request" /\ kind = "worker"
    /\ BEndAfter(q)
    /\ UNCHANGED <<kind, bopen, bclose, late, bcopy, mid>>

-----------------------------------------------------------------------------
(* The remote connection.  All dials and the worker's wait have timeouts.   *)

\* The worker's tunnel carries one stream, which is requested at once.
createTunnel ==
    /\ kind = "worker" /\ BGoto("dial", "success") /\ Set(Put(q, "br", "new"))
    /\ UNCHANGED <<kind, bopen, bclose, active, late, bcopy, mid>>

createTunnelFails ==
    /\ kind = "worker" /\ b = "dial" /\ BEndAfter(q)
    /\ UNCHANGED <<kind, bopen, bclose, late, bcopy, mid>>

VlessCopies ==
    /\ BGoto("dial", "copy") /\ bcopy' = {"first", "header"}
    /\ UNCHANGED <<kind, bopen, bclose, active, late, mid, links>>

DialVlessWS == kind = "ws" /\ VlessCopies
DialVlessGRPC == kind = "grpc" /\ VlessCopies

\* VLESS sends a second answer.
DialVlessFails ==
    /\ kind # "worker" /\ b = "dial" /\ BEndAfter(Put(q, "bg", "fail"))
    /\ UNCHANGED <<kind, bopen, bclose, late, bcopy, mid>>

\* The profile's UUID is none, or the target's name is too long for the header.
HeaderFails ==
    /\ kind # "worker" /\ b = "dial" /\ BEndAfter(q)
    /\ UNCHANGED <<kind, bopen, bclose, late, bcopy, mid>>

waitForSuccess ==
    /\ BGoto("success", "copy") /\ Heard("rb", {"success"})
    /\ Set(Put(Take(q, "rb"), "bg", "ok")) /\ bcopy' = {"up", "down"}
    /\ UNCHANGED <<kind, bopen, bclose, active, late, mid>>

NoSuccess ==
    /\ b = "success" /\ ~Heard("rb", {"success"}) /\ BEndAfter(q)
    /\ UNCHANGED <<kind, bopen, bclose, late, bcopy, mid>>

-----------------------------------------------------------------------------
(* The copy loops.                                                          *)

others == <<kind, bopen, bclose, b, active, late, mid>>
Ends(loop) == bcopy' = bcopy \ {loop}
Becomes(loop, next) == loop \in bcopy /\ bcopy' = (bcopy \ {loop}) \cup {next}

\* VLESS uplink: the header and what one read gave, if anything.
FirstChunk ==
    /\ Becomes("first", "up") /\ CanWrite("br")
    /\ \/ Arrived("gb") /\ Set(Put(Put(Take(q, "gb"), "br", "hdr"), "br", Head(q["gb"])))
       \/ AtEnd("gb") /\ Set(Put(q, "br", "hdr"))
    /\ UNCHANGED others

FirstChunkFails ==
    /\ "first" \in bcopy /\ (Arrived("gb") \/ AtEnd("gb")) /\ Broken("br")
    /\ Ends("first") /\ UNCHANGED <<others, links>>

\* VLESS downlink: the response header, or an end.
DecodeResponseHeader ==
    /\ Becomes("header", "down") /\ Heard("rb", {"hdr"})
    /\ Set(Take(q, "rb")) /\ UNCHANGED others

NoResponseHeader ==
    /\ "header" \in bcopy
    /\ AtEnd("rb") \/ (Arrived("rb") /\ ~Heard("rb", {"hdr"}))
    /\ Ends("header") /\ Shut("bg") /\ UNCHANGED others

BUp == /\ "up" \in bcopy /\ Copy("gb", "br") /\ UNCHANGED strategy /\ UNCHANGED mid

BDown_All == /\ "down" \in bcopy /\ Copy("rb", "bg") /\ UNCHANGED strategy /\ UNCHANGED mid

BDown == /\ "down" \in bcopy /\ Arrived("rb") /\ ~Heard("rb", {"close"})
         /\ Copy("rb", "bg") /\ UNCHANGED strategy /\ UNCHANGED mid

\* worker: a close packet, then the tunnel is closed.
BUpEnds ==
    /\ kind = "worker" /\ "up" \in bcopy /\ CopyEnds("gb", "br") /\ Ends("up")
    /\ CloseAfter(IF AtEnd("gb") THEN Put(q, "br", "close") ELSE q, {"br"}, {"rb"})
    /\ UNCHANGED others

\* VLESS: CloseWriter(remoteConn).
CloseWriter ==
    /\ kind # "worker" /\ "up" \in bcopy /\ CopyEnds("gb", "br") /\ Ends("up")
    /\ IF kind = "ws" THEN Close({"br"}, {"rb"}) ELSE Shut("br")
    /\ UNCHANGED others

BDownEnds_Leave ==
    /\ kind = "worker" /\ "down" \in bcopy /\ Ends("down")
    /\ CopyEnds("rb", "bg") \/ Heard("rb", {"close"})
    /\ UNCHANGED <<others, links>>

\* worker: the client's connection is closed.
BDownEnds ==
    /\ kind = "worker" /\ "down" \in bcopy /\ Ends("down")
    /\ CopyEnds("rb", "bg") \/ Heard("rb", {"close"})
    /\ Close({"bg"}, {"gb"}) /\ UNCHANGED others

\* VLESS: CloseWriter(clientConn).
VlessDownEnds ==
    /\ kind # "worker" /\ "down" \in bcopy /\ Ends("down")
    /\ CopyEnds("rb", "bg") /\ Shut("bg") /\ UNCHANGED others

BCopied ==
    /\ b = "copy" /\ bcopy = {} /\ BEndAfter(q)
    /\ UNCHANGED <<kind, bopen, bclose, late, bcopy, mid>>

-----------------------------------------------------------------------------
(* CloseTunnel.                                                             *)

\* The listener, and with it the connections nobody has accepted.
CloseTunnel ==
    /\ bclose = "no" /\ bclose' = "sweep" /\ bopen' = FALSE
    /\ IF mid = "pending" THEN Close({"bg"}, {"gb"}) ELSE UNCHANGED links
    /\ UNCHANGED <<kind, b, active, late, bcopy, mid>>

CloseActive_Skip ==
    /\ bclose = "sweep" /\ bclose' = "wait"
    /\ UNCHANGED <<kind, bopen, b, active, late, bcopy, mid, links>>

CloseActive ==
    /\ bclose = "sweep" /\ bclose' = "wait"
    /\ IF active THEN Close({"bg"}, {"gb"}) ELSE UNCHANGED links
    /\ UNCHANGED <<kind, bopen, b, active, late, bcopy, mid>>

\* The accept loop, which may hold a connection, and the handler have returned.
TunnelClosed ==
    /\ bclose = "wait" /\ b \in {"out", "done"} /\ bclose' = "done"
    /\ UNCHANGED <<kind, bopen, b, active, late, bcopy, mid, links>>

=============================================================================
