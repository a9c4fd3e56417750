------------------------------ MODULE Formats ------------------------------
(***************************************************************************)
(* The byte formats: the SOCKS5 request, the request of goremote and       *)
(* worker, the header of VLESS, a SOCKS5 datagram, a TLS ClientHello, and  *)
(* the packets of goremote and worker with their encryption.               *)
(*                                                                         *)
(* A byte is a number below Base (256 in the code), an IPv4 address has V4 *)
(* bytes and an IPv6 address V6 (4 and 16).  A host is a string in the     *)
(* code; here it is what net.ParseIP makes of it: [form, bytes] with form  *)
(* "ip4", "ip6" or "name".                                                 *)
(***************************************************************************)
EXTENDS Slices

CONSTANTS Base, V4, V6,
          HelloFixed,   \* of a ClientHello before the session id (38)
          NoPort        \* of a host that an HTTP client names without a port

\* The numbers of the formats are bytes; an IPv6 address has room for an IPv4 one.
ASSUME FormatsAssumption ==
    /\ Base \in Nat /\ Base > 7 /\ V4 \in Nat \ {0} /\ V6 \in Nat /\ V4 < V6 /\ HelloFixed \in Nat \ {0}
    /\ NoPort \notin Nat

Fail == [ok |-> FALSE]

PutUint16(n) == <<(n \div Base) % Base, n % Base>>
Uint16(s, i) == s[i] * Base + s[i + 1]

Host(form, bytes) == [form |-> form, bytes |-> bytes]

\* Names that spell an IPv4 address, and IPv6 addresses that stand for one (To4).
Digit == 7
Spells(name) == Len(name) = V4 + 1 /\ name[1] = Digit
Mapped(ip) == \A i \in 1..(V6 - V4) : ip[i] = Digit

\* The string of an address or name that was read.
HostString(atyp, bytes) ==
    CASE atyp = "ip4" -> Host("ip4", bytes)
      [] atyp = "ip6" -> IF Mapped(bytes) THEN Host("ip4", SubSeq(bytes, V6 - V4 + 1, V6))
                                          ELSE Host("ip6", bytes)
      [] atyp = "name" -> IF Spells(bytes) THEN Host("ip4", Tail(bytes)) ELSE Host("name", bytes)

-----------------------------------------------------------------------------
(* Addresses.  types gives the numbers that a format has for its types.     *)

Socks == [ip4 |-> 1, name |-> 3, ip6 |-> 4]
SocksV4 == [ip4 |-> 1, name |-> 3]
Vless == [ip4 |-> 1, name |-> 2, ip6 |-> 3]

\* A type and an address; the length of a name is one byte.
PutAddress(host, types) ==
    <<types[host.form]>>
        \o (IF host.form = "name" THEN <<Len(host.bytes) % Base>> ELSE <<>>)
        \o host.bytes

\* The type and address at the start of s: the host and what follows, or Fail when the
\* type is unknown or s ends too soon (io.ReadFull).
GetAddress(s, types) ==
    IF s = <<>> \/ \A t \in DOMAIN types : types[t] # s[1] THEN Fail
    ELSE LET atyp == CHOOSE t \in DOMAIN types : types[t] = s[1]
             from == IF atyp = "name" THEN 3 ELSE 2
             len == CASE atyp = "ip4" -> V4
                      [] atyp = "ip6" -> V6
                      [] atyp = "name" -> IF Len(s) = 1 THEN Base ELSE s[2]
         IN IF Len(s) < from + len - 1 THEN Fail
            ELSE [ok |-> TRUE, host |-> HostString(atyp, SubSeq(s, from, from + len - 1)),
                  rest |-> SubSeq(s, from + len, Len(s))]

\* An address and then a port.
GetTarget(s, types) ==
    LET a == GetAddress(s, types)
    IN IF ~a.ok \/ Len(a.rest) < 2 THEN Fail
       ELSE [ok |-> TRUE, host |-> a.host, port |-> Uint16(a.rest, 1)]

-----------------------------------------------------------------------------
(* Strings of a host and a port.                                            *)

Colon == 3
Open == 4       \* '['
Close == 5      \* ']'
HasColon(name) == \E i \in 1..Len(name) : name[i] = Colon
Plain(name) == \A i \in 1..Len(name) : name[i] \notin {Open, Close}
InBrackets(name) == name # <<>> /\ name[1] = Open /\ name[Len(name)] = Close
Inside(name) == IF InBrackets(name) THEN SubSeq(name, 2, Len(name) - 1) ELSE name

\* net.JoinHostPort puts a host with a colon into brackets; net.SplitHostPort takes them
\* off and refuses other brackets and colons.  Neither looks at an address or the port.
JoinHost(name) == IF HasColon(name) THEN <<Open>> \o name \o <<Close>> ELSE name
SplitHost(name) ==
    IF Plain(Inside(name)) /\ (InBrackets(name) \/ ~HasColon(name))
    THEN [ok |-> TRUE, host |-> HostString("name", Inside(name))] ELSE Fail

\* A target whose string is split again, by callers that ignore the error: they are left
\* with an empty host and port 0.
Rejoined(t) ==
    LET s == SplitHost(JoinHost(t.host.bytes)) IN
    CASE t.host.form # "name" -> t
      [] t.host.form = "name" /\ s.ok -> [ok |-> TRUE, host |-> s.host, port |-> t.port]
      [] OTHER -> [ok |-> TRUE, host |-> Host("name", <<>>), port |-> 0]

-----------------------------------------------------------------------------
(* SOCKS5 requests: VER, CMD, RSV, the target.                              *)

CONNECT == 1

\* The target of an HTTP request is its Host as it is spelled, with a default port unless
\* it has a colon, as a port or an IPv6 address does.
sniffTargetHTTP(method, host, port) ==
    IF port # NoPort \/ host.form = "ip6" \/ (host.form = "name" /\ HasColon(host.bytes)) THEN port
    ELSE IF method = "CONNECT" THEN 443 % (Base * Base) ELSE 80 % (Base * Base)

TooLong(host) == host.form = "name" /\ Len(host.bytes) > Base - 1

\* The host that the gateway reads in the string of an HTTP target.
SpelledHost(host) == IF host.form = "name" THEN SplitHost(host.bytes) ELSE [ok |-> TRUE, host |-> host]

dialSocksProxy_AnyLength(host, port) ==
    LET s == SpelledHost(host) IN
    IF ~s.ok \/ port = NoPort THEN Fail
    ELSE [ok |-> TRUE, bytes |-> <<5, CONNECT, 0>> \o PutAddress(s.host, Socks) \o PutUint16(port)]

\* The gateway as SOCKS5 client of a strategy.  The port is a decimal number of any size,
\* of which uint16 takes what fits.
dialSocksProxy(host, port) ==
    LET s == SpelledHost(host) IN
    IF ~s.ok \/ port = NoPort \/ TooLong(s.host) THEN Fail
    ELSE [ok |-> TRUE, bytes |-> <<5, CONNECT, 0>> \o PutAddress(s.host, Socks) \o PutUint16(port)]

\* The strategies' handshakes; goremote and worker do not know IPv6.
HandshakeWithClient(req) == IF Len(req) < 4 THEN Fail ELSE GetTarget(Drop(req, 3), SocksV4)
HandshakeSocks5AndGetResponse(req) == IF Len(req) < 4 THEN Fail ELSE GetTarget(Drop(req, 3), Socks)

\* The gateway's look at a client's request.
sniffTargetSocks5(req) ==
    IF Len(req) < 4 \/ req[1] # 5 \/ req[2] # CONNECT THEN Fail ELSE GetTarget(Drop(req, 3), Socks)

-----------------------------------------------------------------------------
(* The requests that strategies send.                                       *)

buildMetadata(cmd, host, port) == <<cmd>> \o PutAddress(host, Socks) \o PutUint16(port)
buildMetadataForWorker(cmd, host, port) == buildMetadata(cmd, host, port)

UUID == <<6, 6>>
Version == 0

EncodeRequestHeader(host, port) ==
    IF TooLong(host) THEN Fail
    ELSE [ok |-> TRUE, bytes |-> <<Version>> \o UUID \o <<0, CONNECT>> \o PutUint16(port)
                                     \o PutAddress(host, Vless)]

DecodeResponseHeader_Addons(s) ==
    IF Len(s) < 2 \/ s[1] # Version THEN Fail ELSE [ok |-> TRUE, rest |-> Drop(s, 2)]

\* What is left after the response header: version, length of addons, addons.
DecodeResponseHeader(s) ==
    IF Len(s) < 2 \/ s[1] # Version \/ Len(s) < 2 + s[2] THEN Fail
    ELSE [ok |-> TRUE, rest |-> Drop(s, 2 + s[2])]

\* External: the servers' parsers of these requests.
ServerMetadata(s) == IF s = <<>> THEN Fail ELSE GetTarget(Tail(s), Socks)
ServerHeader(s) ==
    LET n == Len(UUID) + 3
        a == IF Len(s) < n + 3 THEN Fail ELSE GetAddress(Drop(s, n + 2), Vless)
    IN IF ~a.ok \/ s[n - 1] # 0 THEN Fail
       ELSE [ok |-> TRUE, host |-> a.host, port |-> Uint16(s, n + 1), rest |-> a.rest]

-----------------------------------------------------------------------------
(* Datagrams: RSV, FRAG, the target, data.                                  *)

\* The strings by which the NAT maps know a datagram that has no IPv4 address or name.
Unparsed(why) == [ok |-> TRUE, host |-> Host(why, <<>>), port |-> 0]

parseSocks5UDPTarget(data) ==
    IF Len(data) < 6 + V4 THEN Unparsed("invalid")
    ELSE LET t == GetTarget(Drop(data, 3), SocksV4)
         IN CASE t.ok -> t
              [] ~t.ok /\ data[4] = SocksV4.name -> Unparsed("invalid")
              [] OTHER -> Unparsed("unknown_type")

-----------------------------------------------------------------------------
(* The server name of a TLS ClientHello.                                    *)

Handshake == 6      \* record type 0x16
ClientHello == 1
MajorVersion == 3

\* External: the ClientHello h of a TLS client, in a record that covers as many of its
\* bytes as it says, and of which the gateway's reader (of 4096 bytes) holds the first.
\* bare: it has no extensions; named: among them is a server name of this kind (0 is a
\* host name).
Field8(b) == <<Len(b)>> \o b
Field16(b) == PutUint16(Len(b)) \o b

Extension(e) == PutUint16(e.type) \o Field16(e.body)
Encoded(es) == FlattenSeq([i \in DOMAIN es |-> Extension(es[i])])
HostName(kind, name) == [type |-> 0, body |-> Field16(<<kind>> \o Field16(name))]

ExtensionsOf(h) == h.before \o (IF h.named THEN <<HostName(h.kind, h.name)>> ELSE <<>>) \o h.after

Hello(h) == h.first \o Field8(h.session) \o Field16(h.suites) \o Field8(h.methods)
                    \o (IF h.bare THEN <<>> ELSE Field16(Encoded(ExtensionsOf(h))))

Record(h) == Take(<<Handshake, MajorVersion, 1>> \o PutUint16(h.covers) \o Hello(h), h.come)

\* The loop over the extensions: type, length, body.  The body of a server name holds
\* the length of a list, a type of name and a name with its length.
ServerName(ext) ==
    LET from[i \in 0..Len(ext)] ==
            IF Len(ext) - i < 4 \/ Len(ext) - i - 4 < Uint16(ext, i + 3) THEN Fail
            ELSE LET next == i + 4 + Uint16(ext, i + 3)
                     body == SubSeq(ext, i + 5, next)
                 IN IF Uint16(ext, i + 1) # 0 THEN from[next]
                    ELSE IF Len(body) < 5 \/ body[3] # 0 \/ Len(body) - 5 < Uint16(body, 4) THEN Fail
                    ELSE [ok |-> TRUE, name |-> SubSeq(body, 6, 5 + Uint16(body, 4))]
    IN from[0]

Extensions_NoSession(data) ==
    LET methods == HelloFixed + 3 + Uint16(data, HelloFixed + 2)
        exts == methods + 1 + data[methods + 1]
    IN IF methods + 1 > Len(data) \/ exts + 2 > Len(data)
       THEN Fail ELSE [ok |-> TRUE, bytes |-> SubSeq(data, exts + 3, Len(data))]

\* The extensions: session id, cipher suites and compression methods are skipped.
Extensions(data) ==
    LET suites == HelloFixed + 1 + data[HelloFixed + 1]
        methods == suites + 2 + Uint16(data, suites + 1)
        exts == methods + 1 + data[methods + 1]
    IN IF \/ suites + 2 > Len(data)
          \/ methods + 1 > Len(data)
          \/ exts + 2 > Len(data)
          \/ exts + 2 + Uint16(data, exts + 1) > Len(data)
       THEN Fail
       ELSE [ok |-> TRUE, bytes |-> SubSeq(data, exts + 3, exts + 2 + Uint16(data, exts + 1))]

sniffTargetTLS(record) ==
    LET data == SubSeq(record, 6, 5 + Uint16(record, 4)) IN
    IF \/ Len(record) < 5 \/ record[1] # Handshake \/ record[2] # MajorVersion
       \/ Len(record) < 5 + Uint16(record, 4)
       \/ Len(data) < HelloFixed + 4 \/ data[1] # ClientHello
       \/ ~Extensions(data).ok
    THEN Fail
    ELSE ServerName(Extensions(data).bytes)

\* The gateway does not route by an empty name.
sniffTargetForRoutingTLS(record) ==
    LET t == sniffTargetTLS(record) IN IF t.ok /\ t.name # <<>> THEN t ELSE Fail

-----------------------------------------------------------------------------
(* Packets: length of the content, stream id, flag, payload.                *)

MaxContent == Base * Base - 1

WritePacket(p) ==
    IF 3 + Len(p.payload) > MaxContent THEN Fail
    ELSE [ok |-> TRUE,
          bytes |-> PutUint16(3 + Len(p.payload)) \o PutUint16(p.id) \o <<p.flag>> \o p.payload]

\* The packet at the start of s.  wait: there is less than a packet; at the end of the
\* connection that is io.EOF or an error.
ReadUnsecurePacket(s) ==
    IF Len(s) < 2 \/ Len(s) - 2 < Uint16(s, 1) THEN [ok |-> FALSE, wait |-> Len(s) < 2 \/ Uint16(s, 1) >= 3]
    ELSE LET n == Uint16(s, 1) IN
         IF n < 3 THEN [ok |-> FALSE, wait |-> FALSE]
         ELSE [ok |-> TRUE, rest |-> Drop(s, 2 + n),
               packet |-> [id |-> Uint16(s, 3), flag |-> s[5], payload |-> SubSeq(s, 6, 2 + n)]]

\* External: AEAD with a nonce and a tag, of one byte each here.
Seal(key, plain) == <<1>> \o [i \in DOMAIN plain |-> (plain[i] + key) % Base] \o <<key>>
Overhead == 2

Encrypt(key, plain) == Seal(key, plain)

Decrypt(key, c) ==
    IF Len(c) < Overhead \/ Last(c) # key THEN Fail
    ELSE [ok |-> TRUE, plain |-> [i \in 1..(Len(c) - Overhead) |-> (c[i + 1] + Base - key) % Base]]

WriteSecurePacket(p, key) ==
    WritePacket(IF p.payload = <<>> THEN p ELSE [p EXCEPT !.payload = Encrypt(key, @)])

ReadPacket(s) == ReadUnsecurePacket(s)

ReadSecurePacket(s, key) ==
    LET r == ReadPacket(s) IN
    IF ~r.ok \/ r.packet.payload = <<>> THEN r
    ELSE LET d == Decrypt(key, r.packet.payload)
         IN IF d.ok THEN [r EXCEPT !.packet.payload = d.plain] ELSE [ok |-> FALSE, wait |-> FALSE]

=============================================================================
