------------------------------- MODULE MCWire -------------------------------
EXTENDS Wire

\* IPv4 and IPv6 addresses, an IPv6 form of an IPv4 address, a name that spells one, and
\* names of length zero, one, the largest and one more; then "[a]", "[a", "a:b", "[a:b]"
\* and "[", a name that spells an IPv4 address, "]".
MCHosts ==
    {[atyp |-> "ip4", bytes |-> <<1, 2>>],
     [atyp |-> "ip6", bytes |-> <<1, 2, 3, 4>>],
     [atyp |-> "ip6", bytes |-> <<7, 7, 1, 2>>],
     [atyp |-> "name", bytes |-> <<7, 1, 2>>]}
    \cup {[atyp |-> "name", bytes |-> [i \in 1..n |-> 2]] : n \in {0, 1, Base - 1, Base}}
    \cup {[atyp |-> "name", bytes |-> b] :
             b \in {<<Open, 2, Close>>, <<Open, 2>>, <<2, Colon, 2>>, <<Open, 2, Colon, 2, Close>>,
                   <<Open, 7, 1, 2, Close>>}}

MCPorts == {9, Base * Base + 9, NoPort}

\* The longer ones fill a packet when they are encrypted, and do not fit.
Bytes(n) == [i \in 1..n |-> i % Base]
MCPayloads == {<<>>, <<5, 0, 3, 1>>, Bytes(MaxContent - 3 - Overhead), Bytes(MaxContent - 3)}

\* ClientHellos with and without a session id, with other extensions before and after
\* the server name, with a name of another kind, with none, without extensions, another
\* message of the handshake, cut short, and in a record that covers less than they say.
MCHellos ==
    LET others == {<<>>, <<[type |-> 5, body |-> <<>>]>>, <<[type |-> 1, body |-> <<0, 0, 3>>]>>}
        plain == [first |-> <<ClientHello, 3>>, session |-> <<>>, suites |-> <<4, 5>>, methods |-> <<0>>,
                  bare |-> FALSE, before |-> <<>>, named |-> TRUE, kind |-> 0, name |-> <<1>>,
                  after |-> <<>>, covers |-> 0, come |-> 0]
        good == {[plain EXCEPT !.session = s, !.name = n, !.before = a, !.after = z] :
                     s \in {<<>>, <<2, 2>>}, n \in {<<>>, <<1>>, <<1, 2, 3>>}, a, z \in others}
        none == {[h EXCEPT !.named = FALSE] : h \in good} \cup {[h EXCEPT !.kind = 1] : h \in good}
                \cup {[h EXCEPT !.bare = TRUE] : h \in good} \cup {[h EXCEPT !.first[1] = 2] : h \in good}
        Sent(h, less, k) == LET n == Len(Hello(h)) IN [h EXCEPT !.covers = n - less, !.come = Fewer(k, 5 + n)]
    IN {Sent(h, 0, 5 + MaxContent) : h \in good \cup none}
       \cup {Sent(h, l, k) : h \in good, l \in {0, 1}, k \in {0, 3, 6, 12, 5 + MaxContent}}

=============================================================================
