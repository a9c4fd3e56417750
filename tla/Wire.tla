-------------------------------- MODULE Wire --------------------------------
(***************************************************************************)
(* A target and data on their way between a client and a strategy's        *)
(* server: what the client or the gateway asks, what the strategy makes of *)
(* it, packets or headers, and the connection that carries their bytes.    *)
(* Up, the strategy writes and the server reads; down, the server writes   *)
(* in its own way and the strategy reads.                                  *)
(***************************************************************************)
EXTENDS Formats, Connections

CONSTANTS
    Hosts, Ports,   \* what may be asked for: [atyp, bytes] as a client sends it
    Payloads,       \* data that follows
    Hellos          \* what TLS clients begin with

ByteStrings == Seq(0..(Base - 1))
Extra == {e \in [type : 0..MaxContent, body : ByteStrings] : e.type # 0 /\ Len(e.body) <= MaxContent}

\* They are bytes and an address has its length; a port is a number of any size, as HTTP
\* spells it, or it is missing; what a ClientHello is made of fits into the fields for it.
ASSUME WireAssumption ==
    /\ Hosts \subseteq [atyp : {"ip4", "ip6", "name"}, bytes : ByteStrings]
    /\ \A h \in Hosts : /\ h.atyp = "ip4" => Len(h.bytes) = V4
                        /\ h.atyp = "ip6" => Len(h.bytes) = V6
    /\ Ports \subseteq Nat \cup {NoPort}
    /\ Payloads \subseteq ByteStrings
    /\ Hellos \subseteq [first : ByteStrings, session : ByteStrings, suites : ByteStrings,
                         methods : ByteStrings, bare : BOOLEAN, before : Seq(Extra),
                         named : BOOLEAN, kind : 0..(Base - 1), name : ByteStrings,
                         after : Seq(Extra), covers : 0..MaxContent, come : Nat]
    /\ \A h \in Hellos : /\ Len(h.first) = HelloFixed /\ Len(h.session) < Base /\ Len(h.methods) < Base
                         /\ Len(Hello(h)) <= MaxContent

VARIABLES
    path,           \* "goremote", "worker", "vless", "raw"
    step,           \* "asks", "open", "refused", "looked"
    via, ask,       \* who asks: "socks", "CONNECT", "GET", "udp", "tls"; for what
    seen,           \* what was found in a datagram or a ClientHello
    data,           \* the data of this direction
    server          \* the key of the server; the strategy's is Key

request == <<path, step, via, ask, seen, data, server>>
vars == <<connection, request>>

Key == 1

Paths == [adapter |-> {"goremote", "worker"}, ws |-> {"vless"}, hunk |-> {"vless"},
          multi |-> {"vless"}, tcp |-> {"raw"}]

\* The target that is meant.
Asked == [ok |-> TRUE, host |-> HostString(ask.atyp, ask.bytes),
          port |-> IF via \in {"socks", "udp"} THEN ask.port
                   ELSE sniffTargetHTTP(via, HostString(ask.atyp, ask.bytes), ask.port)]

-----------------------------------------------------------------------------
(* The packets of a stream; WriteSecurePacket may refuse one, which ends    *)
(* the writing.                                                             *)

Stream(first) == <<first, [id |-> 9, flag |-> 3, payload |-> data], [id |-> 9, flag |-> 5, payload |-> <<>>]>>

UpPackets(t) == Stream([id |-> 9, flag |-> 1,
    payload |-> IF path = "worker" THEN buildMetadataForWorker(CONNECT, t.host, t.port)
                                   ELSE buildMetadata(CONNECT, t.host, t.port)])
DownPackets == Stream([id |-> 9, flag |-> 2, payload |-> <<>>])

\* The packets up to the first that is refused.
Written(out) ==
    LET fits == {n \in 0..Len(out) : \A i \in 1..n : out[i].ok}
        last == CHOOSE n \in fits : \A k \in fits : k <= n
    IN [i \in 1..last |-> out[i].bytes]

Sealed(packets, key) == [i \in DOMAIN packets |-> WriteSecurePacket(packets[i], key)]

\* VLESS sends its header with the first data.
UpHeader(t) ==
    LET h == EncodeRequestHeader(t.host, t.port)
    IN IF ~h.ok THEN <<>>
       ELSE <<h.bytes \o Take(data, 1)>> \o (IF Len(data) > 1 THEN <<Drop(data, 1)>> ELSE <<>>)

\* External: what a server sends.
Down ==
    CASE path = "goremote" -> Written(Sealed(DownPackets, server))
      [] path = "worker" -> Written([i \in DOMAIN DownPackets |-> WritePacket(DownPackets[i])])
      [] path = "vless" -> <<<<Version, 1, 5>>, data>>
      [] OTHER -> IF data = <<>> THEN <<>> ELSE <<data, data>>

-----------------------------------------------------------------------------
\* Only HTTP has targets without a port or with one of more than two bytes, and names
\* that are too long for SOCKS5.
Targets ==
    /\ via \in {"socks", "CONNECT", "GET"} \cup (IF path = "goremote" THEN {"udp"} ELSE {})
    /\ ask \in {[atyp |-> h.atyp, bytes |-> h.bytes, port |-> p] : h \in Hosts, p \in Ports}
    /\ via \in {"socks", "udp"} =>
           ask.port \in 0..(Base * Base - 1) /\ (ask.atyp = "name" => Len(ask.bytes) < Base)

Init ==
    /\ ConnectionInit
    /\ path \in Paths[kind] /\ data \in Payloads
    /\ server \in IF path = "goremote" THEN {Key, Key + 1} ELSE {Key}
    /\ seen = Fail
    /\ IF foreign THEN step = "open" /\ via = "" /\ ask = Fail /\ todo = Down
       ELSE IF path = "raw"
       THEN \/ step = "open" /\ via = "" /\ ask = Fail /\ todo = Down
            \/ step = "asks" /\ via = "tls" /\ ask \in Hellos /\ todo = <<>>
       ELSE step = "asks" /\ todo = <<>> /\ Targets
    \* Bound: data that fills a packet goes up only, and to one kind of target.
    /\ Len(data) > Base => path \in {"goremote", "worker"} /\ via \in {"socks", "udp"} /\ ask.atyp = "ip4"

\* External: the client's SOCKS5 request or datagram.
Says(head) == head \o <<Socks[ask.atyp]>>
                  \o (IF ask.atyp = "name" THEN <<Len(ask.bytes)>> ELSE <<>>)
                  \o ask.bytes \o PutUint16(ask.port)

\* The SOCKS5 request of the client, or of the gateway for an HTTP client.
Asks == IF via = "socks" THEN [ok |-> TRUE, bytes |-> Says(<<5, CONNECT, 0>>)]
                         ELSE dialSocksProxy(Asked.host, Asked.port)

Datagram == Says(<<0, 0, 0>>) \o data

\* What the strategy makes of it: its handshake joins the target to a string, which it
\* splits for the server's request.
Understands ==
    LET t == IF ~Asks.ok THEN Fail
             ELSE IF path = "vless" THEN HandshakeSocks5AndGetResponse(Asks.bytes)
                                    ELSE HandshakeWithClient(Asks.bytes)
    IN IF t.ok THEN Rejoined(t) ELSE Fail

\* What the gateway routes a SOCKS5 request by.
Routed == Rejoined(sniffTargetSocks5(Asks.bytes))

Request ==
    /\ step = "asks" /\ via \in {"socks", "CONNECT", "GET"}
    /\ IF Understands.ok
       THEN /\ step' = "open"
            /\ todo' = IF path = "vless" THEN UpHeader(Understands)
                                         ELSE Written(Sealed(UpPackets(Understands), Key))
       ELSE step' = "refused" /\ UNCHANGED todo
    /\ UNCHANGED <<path, via, ask, seen, data, server>>
    /\ UNCHANGED <<kind, foreign, sent, got, net, cache, alloc, wire, ended>>

\* goremote looks into a client's datagram, the gateway into a ClientHello.
Look ==
    /\ step = "asks" /\ via \in {"udp", "tls"} /\ step' = "looked"
    /\ seen' = IF via = "udp" THEN parseSocks5UDPTarget(Datagram)
               ELSE sniffTargetForRoutingTLS(Record(ask))
    /\ UNCHANGED <<path, via, ask, data, server, connection>>

Next == Request \/ Look \/ (step = "open" /\ ConnectionStep /\ UNCHANGED request)

\* A goroutine at the reading end goes on reading.
Spec == Init /\ [][Next]_vars /\ WF_vars(step = "open" /\ ReadStep /\ UNCHANGED request)

-----------------------------------------------------------------------------
(* Properties.                                                              *)

\* Nothing is held that was not sent, and ReadVReader allocates one to eight Buffers.
TypeOK ==
    /\ alloc \in 1..MaxAlloc /\ ended \in {"no", "eof", "error"}
    /\ \A i \in DOMAIN cache : /\ Len(cache[i].bytes) <= cache[i].end
                               /\ cache[i].end <= cache[i].cap
    /\ Len(sent) = Len(got) + Len(Content(cache)) + Len(FlattenSeq(FlattenSeq(net)))
       \/ wire = "broken"

\* The next message is empty, and the adapter has nothing else to read.
EmptyMessage == kind = "adapter" /\ Content(cache) = <<>> /\ net # <<>> /\ Head(net)[1] = <<>>

Stream0 == INSTANCE ByteStream WITH eof <- ended = "eof", empty <- EmptyMessage

\* Every kind of connection is a byte stream, however Writes, messages, Buffers and Reads
\* are cut; reading ends with io.EOF after the last byte, and before it only where the
\* WebSocket adapter gets an empty message.
IsByteStream == Stream0!Spec

\* The packet at the start of what a reader has read, and all the packets in it.
PacketAt(s) ==
    IF path = "goremote" THEN ReadSecurePacket(s, IF foreign THEN Key ELSE server)
    ELSE IF foreign THEN ReadUnsecurePacket(s) ELSE ReadSecurePacket(s, server)

PacketsIn(s) ==
    LET from[i \in 0..Len(s)] ==
            LET r == PacketAt(Drop(s, i))
            IN IF r.ok THEN <<r.packet>> \o from[Len(s) - Len(r.rest)] ELSE <<>>
    IN from[0]

\* What the server takes for the target.
Arrives ==
    IF path = "vless" THEN ServerHeader(got)
    ELSE LET r == PacketAt(got) IN IF r.ok THEN ServerMetadata(r.packet.payload) ELSE Fail

SameTarget(t) == t.host = Asked.host /\ t.port = Asked.port % (Base * Base)

\* What becomes of a name with brackets: the name in them, or nothing at port 0.
Misread(t) ==
    /\ Asked.host.form = "name" /\ ~Plain(Asked.host.bytes)
    /\ \/ t.host = HostString("name", Inside(Asked.host.bytes)) /\ t.port = Asked.port % (Base * Base)
       \/ t.host = Host("name", <<>>) /\ t.port = 0

\* The server is asked for the host that the client has asked for, after two translations
\* of it or three, at the port that the client has asked for or, of a larger number, at
\* what two bytes hold of it; the gateway has routed by that host too.  Only names with
\* brackets are misread; what does not fit is refused, and nothing else but the IPv6
\* addresses that goremote and worker do not know and, in HTTP, brackets and colons.
TargetArrives ==
    step \in {"open", "refused"} /\ via # "" =>
        /\ Arrives.ok => SameTarget(Arrives) \/ Misread(Arrives)
        /\ via = "socks" => SameTarget(Routed) \/ Misread(Routed)
        /\ step = "refused" =>
               \/ TooLong(Asked.host) \/ Asked.port = NoPort
               \/ ask.atyp = "ip6" /\ path # "vless"
               \/ Asked.host.form = "ip6" /\ path # "vless"
               \/ /\ via # "socks"
                  /\ Asked.host.form = "name"
                  /\ ~Plain(Asked.host.bytes) \/ HasColon(Asked.host.bytes)

\* The NAT map knows a datagram by its target, and cannot tell IPv6 targets apart, nor
\* datagrams of less than ten bytes.
DatagramIsSeen ==
    step = "looked" /\ via = "udp" =>
        \/ SameTarget(seen)
        \/ seen = Unparsed("unknown_type") /\ ask.atyp = "ip6"
        \/ seen = Unparsed("invalid") /\ Len(Datagram) < 6 + V4

\* A ClientHello is routed by its server name, if the gateway's reader holds all of it,
\* in one record, and it has one.
NameIsSeen ==
    step = "looked" /\ via = "tls" =>
        seen = IF /\ ask.first[1] = ClientHello /\ ~ask.bare /\ ask.named /\ ask.kind = 0
                  /\ ask.name # <<>> /\ ask.covers = Len(Hello(ask)) /\ ask.come >= 5 + ask.covers
               THEN [ok |-> TRUE, name |-> ask.name] ELSE Fail

\* What is looked at is filed and routed by its target.
TargetIsSeen == DatagramIsSeen /\ NameIsSeen

\* Packets are read as they were written; behind the headers of VLESS there is nothing
\* but the data.
DataArrives ==
    step = "open" =>
        CASE path \in {"goremote", "worker"} ->
                 IsPrefix(PacketsIn(got), IF foreign THEN DownPackets ELSE UpPackets(Understands))
          [] path = "vless" /\ ~foreign -> Arrives.ok => IsPrefix(Arrives.rest, data)
          [] path = "vless" /\ foreign ->
                 LET r == DecodeResponseHeader(got) IN r.ok => IsPrefix(r.rest, data)
          [] OTHER -> TRUE

\* What was written before the connection was closed is read to its last byte and then
\* io.EOF, unless the connection is lost or a server's empty message has ended it for the
\* adapter; this code sends none.
AllIsRead ==
    wire = "closed" ~> \/ ended = "eof" /\ (got = sent \/ (kind = "adapter" /\ foreign))
                       \/ wire = "broken"

=============================================================================
