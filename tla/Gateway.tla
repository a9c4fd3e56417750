------------------------------ MODULE Gateway ------------------------------
(***************************************************************************)
(* The handler of one connection in the gateway (internal/core/gateway):   *)
(* sniffing, dispatch, DIRECT and REJECT, forwarding of SOCKS5, HTTP and   *)
(* TLS to the strategy's listener.  Lifecycle has its listener and Close.  *)
(*                                                                         *)
(* What a client sends first is one item: "socks" (its SOCKS5 request; the *)
(* method exchange before it is part of sniffing), "connect" or "http"     *)
(* (the head of an HTTP request), "tls" (a ClientHello), "part" (less of a *)
(* SOCKS5 request or ClientHello than the sniffer asks for) or "junk".     *)
(* Sniffing only looks: the item stays in the reader.                      *)
(***************************************************************************)
EXTENDS Links

VARIABLES
    g,              \* where the handler is
    proto, route,   \* what was sniffed; what the dispatcher decided
    gcopy,          \* copy loops that run
    report          \* ReportFailure or ReportSuccess of this connection

gateway == <<g, proto, route, gcopy, report>>

GatewayInit ==
    /\ g = "out" /\ proto = "" /\ route = ""
    /\ gcopy = {} /\ report = ""

GGoto(from, to) == g = from /\ g' = to

\* handleConnection returns, and whatever it has open is closed, after Q was sent.
GEndAfter(Q) == g' = "done" /\ CloseAfter(Q, {"gc", "gb"}, {"cg", "bg"})

acceptLoop ==
    /\ GGoto("out", "sniff")
    /\ UNCHANGED <<proto, route, gcopy, mid, report, links>>

sniffTargetForRouting ==
    /\ Heard("cg", {"socks", "connect", "http", "tls"})
    /\ GGoto("sniff", "dispatch")
    /\ proto' = Head(q["cg"])
    /\ UNCHANGED <<route, gcopy, mid, report, links>>

\* The client is gone, or too slow, or speaks something else.
SniffFails ==
    /\ g = "sniff" /\ (q["cg"] # <<>> => Head(q["cg"]) = "junk")
    /\ GEndAfter(q)
    /\ UNCHANGED <<proto, route, gcopy, mid, report>>

\* fillBuffer never returns when the reader holds something, but not enough: its
\* Peek(1) does not read on.
fillBuffer ==
    /\ Heard("cg", {"part"}) /\ GGoto("sniff", "spin")
    /\ UNCHANGED <<proto, route, gcopy, mid, report, links>>

\* Dispatch (module Dispatcher): an error, REJECT, DIRECT or a strategy's address.
DispatchTo(r) ==
    /\ GGoto("dispatch", "dial") /\ route' = r
    /\ UNCHANGED <<proto, gcopy, mid, report, links>>

Rejected ==
    /\ g = "dispatch" /\ route' = "reject" /\ GEndAfter(q)
    /\ UNCHANGED <<proto, gcopy, mid, report>>

\* DirectStrategy.Handle.
DirectDial ==
    /\ route = "direct" /\ GGoto("dial", "copy")
    /\ mid' = "direct" /\ gcopy' = {"up", "down"}
    /\ UNCHANGED <<proto, route, report, links>>

\* The dial fails, or the target has no address to dial.
DirectDialFails ==
    /\ route = "direct" /\ g = "dial" /\ GEndAfter(q)
    /\ UNCHANGED <<proto, route, gcopy, mid, report>>

\* TLS is copied as it is to the strategy's SOCKS5 port.
forwardTCP ==
    /\ route = "backend" /\ proto = "tls" /\ GGoto("dial", "copy")
    /\ mid' = "pending" /\ report' = "success" /\ gcopy' = {"up", "down"}
    /\ UNCHANGED <<proto, route, links>>

forwardSocks5 ==
    /\ route = "backend" /\ proto = "socks" /\ GGoto("dial", "method")
    /\ mid' = "pending" /\ report' = "success" /\ Set(Put(q, "gb", "hello"))
    /\ UNCHANGED <<proto, route, gcopy>>

\* For HTTP; it reports failures only.
dialSocksProxy ==
    /\ route = "backend" /\ proto \in {"connect", "http"} /\ GGoto("dial", "method")
    /\ mid' = "pending" /\ Set(Put(q, "gb", "hello"))
    /\ UNCHANGED <<proto, route, gcopy, report>>

BadGateway == IF proto \in {"connect", "http"} THEN Put(q, "gc", "bad") ELSE q

BackendDialFails ==
    /\ route = "backend" /\ g = "dial"
    /\ report' = "failure" /\ GEndAfter(BadGateway)
    /\ UNCHANGED <<proto, route, gcopy, mid>>

\* The strategy has answered the method request: the client's own request follows, or
\* one that dialSocksProxy makes.
handleSocks5BackendHandshake ==
    /\ proto = "socks" /\ GGoto("method", "copy") /\ Heard("bg", {"method"})
    /\ Set(Take(q, "bg")) /\ gcopy' = {"up", "down"}
    /\ UNCHANGED <<proto, route, mid, report>>

ConnectRequest ==
    /\ proto # "socks" /\ GGoto("method", "reply") /\ Heard("bg", {"method"})
    /\ Set(Put(Take(q, "bg"), "gb", "socks"))
    /\ UNCHANGED <<proto, route, gcopy, mid, report>>

HttpConnected_Keep ==
    /\ GGoto("reply", "copy") /\ Heard("bg", {"ok"})
    /\ Set(LET R == Take(q, "bg") IN IF proto = "connect" THEN Put(R, "gc", "ok") ELSE R)
    /\ gcopy' = {"up", "down"}
    /\ UNCHANGED <<proto, route, mid, report>>

\* dialSocksProxy is done: CONNECT is answered and taken out of the reader, another
\* request is passed on.
HttpConnected ==
    /\ GGoto("reply", "copy") /\ Heard("bg", {"ok"})
    /\ Set(LET R == Take(Take(q, "bg"), "cg")
           IN IF proto = "connect" THEN Put(R, "gc", "ok") ELSE Put(R, "gb", "http"))
    /\ gcopy' = {"up", "down"}
    /\ UNCHANGED <<proto, route, mid, report>>

\* Neither the answer to CONNECT nor another request can be written any more.
HttpPassingFails ==
    /\ g = "reply" /\ Heard("bg", {"ok"})
    /\ Broken(IF proto = "connect" THEN "gc" ELSE "gb") /\ GEndAfter(q)
    /\ UNCHANGED <<proto, route, gcopy, mid, report>>

\* The strategy ends the connection or answers anything but x.
Unlike(x) == AtEnd("bg") \/ (Arrived("bg") /\ ~Heard("bg", {x}))

BackendHandshakeFails ==
    /\ proto = "socks" /\ g = "method" /\ Unlike("method") /\ GEndAfter(q)
    /\ UNCHANGED <<proto, route, gcopy, mid, report>>

dialSocksProxyFails ==
    /\ proto # "socks"
    /\ (g = "method" /\ Unlike("method")) \/ (g = "reply" /\ Unlike("ok"))
    /\ GEndAfter(BadGateway)
    /\ UNCHANGED <<proto, route, gcopy, mid, report>>

-----------------------------------------------------------------------------
(* The two copy loops; each ends with a CloseWrite of what it writes to.    *)

GUp == /\ "up" \in gcopy /\ Copy("cg", "gb") /\ UNCHANGED <<gateway, mid>>
GDown == /\ "down" \in gcopy /\ Copy("bg", "gc") /\ UNCHANGED <<gateway, mid>>

GUpEnds_Stays ==
    /\ "up" \in gcopy /\ CopyEnds("cg", "gb")
    /\ gcopy' = gcopy \ {"up"}
    /\ UNCHANGED <<g, proto, route, mid, report, links>>

GUpEnds ==
    /\ "up" \in gcopy /\ CopyEnds("cg", "gb")
    /\ gcopy' = gcopy \ {"up"} /\ Shut("gb")
    /\ UNCHANGED <<g, proto, route, mid, report>>

GDownEnds ==
    /\ "down" \in gcopy /\ CopyEnds("bg", "gc")
    /\ gcopy' = gcopy \ {"down"} /\ Shut("gc")
    /\ UNCHANGED <<g, proto, route, mid, report>>

GCopied ==
    /\ g = "copy" /\ gcopy = {} /\ GEndAfter(q)
    /\ UNCHANGED <<proto, route, gcopy, mid, report>>

=============================================================================
