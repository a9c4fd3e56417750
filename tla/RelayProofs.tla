---------------------------- MODULE RelayProofs ----------------------------
(***************************************************************************)
(* What client and remote receive from each other over gateway and         *)
(* strategy, for any data, any bound on what is on its way, every first    *)
(* item of the client, every kind of strategy and every order of closing.  *)
(*                                                                         *)
(* The invariant follows the data from the end where it arrives: whatever  *)
(* is on a connection continues what its reader has taken from it, as long *)
(* as everything behind that reader is still open.                         *)
(***************************************************************************)
EXTENDS Relay, TLAPS

Values == Firsts \cup Words \cup {Items[i] : i \in 1..N}
Protocols == {"socks", "connect", "http", "tls"}
Early == {"out", "sniff", "spin", "dispatch", "dial"}
Before == {"out", "accepted", "hello", "request", "dial"}

-----------------------------------------------------------------------------
(* Where the handlers are, and what there is of their connections.          *)

QueueInv == q \in [Dirs -> Seq(Values)] /\ rgot \in Seq(Values) /\ cgot \in Seq(Values)

TypeInv ==
    /\ fin \subseteq Dirs /\ deaf \subseteq Dirs
    /\ g \in Early \cup {"method", "reply", "copy", "done"}
    /\ b \in Before \cup {"success", "copy", "done"}
    /\ mid \in {"none", "pending", "accepted", "direct"} /\ kind \in {"worker", "ws", "grpc"}
    /\ gcopy \subseteq {"up", "down"} /\ bcopy \subseteq {"first", "up", "header", "down"}
    /\ ready \in BOOLEAN /\ first \in Firsts /\ csent \in -1..N /\ rsent \in 0..N

\* The gateway dials once it has sniffed and dispatched, and the strategy accepts then.
PlaceInv ==
    /\ g \in {"out", "sniff", "spin", "dispatch"} => route = ""
    /\ g \in Early => mid = "none"
    /\ mid = "none" => g \in Early \cup {"done"}
    /\ g \in {"dispatch", "dial"} \/ mid # "none" => proto = first /\ first \in Protocols
    /\ mid = "direct" => route = "direct" /\ g \in {"copy", "done"}
    /\ mid \in {"pending", "accepted"} => route = "backend"
    /\ mid = "accepted" <=> b # "out"
    /\ g = "method" => proto # "tls"
    /\ g = "reply" => proto \in {"connect", "http"}

\* Copy loops run, or have closed what they write to.
LoopInv ==
    /\ gcopy # {} => g = "copy"
    /\ bcopy # {} => b = "copy"
    /\ ~({"first", "up"} \subseteq bcopy) /\ ~({"header", "down"} \subseteq bcopy)
    /\ kind = "worker" => bcopy \subseteq {"up", "down"}
    /\ g = "copy" => ("up" \in gcopy \/ "gb" \in fin) /\ ("down" \in gcopy \/ "gc" \in fin)
    /\ b = "copy" => {"header", "down"} \cap bcopy # {} \/ "bg" \in fin
    /\ b = "copy" => {"first", "up"} \cap bcopy # {} \/ Broken("br")
    /\ "cg" \in deaf \/ "bg" \in deaf => g = "done"
    /\ "gb" \in fin \/ "gc" \in fin => g \in {"copy", "done"}
    /\ b \in Before => ~Broken("br") /\ ~Broken("rb")

\* Nothing is on a connection that is not there, and nobody has anything from it.
EmptyInv ==
    /\ mid = "none" => q["gb"] = <<>> /\ q["bg"] = <<>>
    /\ b \in Before => q["br"] = <<>> /\ q["rb"] = <<>>
    /\ b \in Before /\ mid # "direct" => rgot = <<>> /\ ~ready
    /\ g \in Early \cup {"method", "reply"} => q["gc"] = <<>> /\ cgot = <<>>

\* The gateway sniffs what the client sends first, which stays with its reader.
FirstInv ==
    /\ g = "out" => csent = -1
    /\ g \in {"dispatch", "dial", "method", "reply", "copy"} => csent >= 0
    /\ g \in Early \cup {"method", "reply"} =>
          IF csent = -1 THEN q["cg"] = <<>> ELSE q["cg"] # <<>> /\ Head(q["cg"]) = first

CtlInv == QueueInv /\ TypeInv /\ PlaceInv /\ LoopInv /\ EmptyInv /\ FirstInv

-----------------------------------------------------------------------------
(* The data.                                                                *)

\* What s holds are the items of W after the first n; from some place on it may be marks.
Fits(s, n, W, marks) ==
    \A j \in DOMAIN s :
        \/ n + j \in DOMAIN W /\ s[j] = W[n + j]
        \/ \A l \in DOMAIN s : l >= j => s[l] \in marks

One(x) == IF x THEN 1 ELSE 0

\* All that the remote should receive, that goes to the strategy, and to the remote.
Payload == (IF first \in {"http", "tls"} THEN <<first>> ELSE <<>>) \o Items
ToStrategy == (IF mid = "direct" \/ first = "tls" THEN <<>> ELSE <<"hello", "socks">>) \o Payload
ToRemote == <<IF kind = "worker" THEN "new" ELSE "hdr">> \o Payload

\* Items that were written to br, taken from gb, written to gb.
Uploaded == Len(rgot) + One(ready) + Len(q["br"])
Passed == IF mid = "direct" THEN Len(rgot)
          ELSE IF b \in {"out", "accepted", "hello"} THEN 0
          ELSE IF b = "request" THEN 1
          ELSE IF Uploaded = 0 THEN 2 ELSE Uploaded + 1
Written == Passed + Len(q["gb"])

UpOpen == mid = "direct" \/ (b # "done" /\ ~Broken("br"))

RemoteInv ==
    /\ Fits(rgot, 0, Payload, {})
    /\ mid # "direct" =>
          /\ Fits(q["br"], Len(rgot) + One(ready), ToRemote, IF "br" \in fin THEN {"close"} ELSE {})
          /\ ~ready => rgot = <<>>

StrategyInv ==
    /\ UpOpen => Fits(q["gb"], Passed, ToStrategy, {})
    /\ "first" \in bcopy => Uploaded = 0
    /\ mid # "direct" /\ b \in {"success", "copy"} /\ "first" \notin bcopy =>
          Uploaded > 0 \/ Broken("br")
    /\ mid # "direct" /\ first = "tls" => b \in {"out", "accepted", "hello", "done"}

GatewayInv ==
    /\ g \in Early \cup {"method", "reply"} =>
          /\ Fits(q["cg"], 0, <<first>> \o Items, {})
          /\ "cg" \notin fin => Len(q["cg"]) = csent + 1
    /\ UpOpen /\ ~Broken("gb") =>
          /\ g = "method" => Written = 1
          /\ g = "reply" => Written = 2
          /\ g = "copy" =>
                /\ Fits(q["cg"], Written, ToStrategy, {})
                /\ "cg" \notin fin => Written + Len(q["cg"]) = Len(ToStrategy) - N + csent

UpInv == RemoteInv /\ StrategyInv /\ GatewayInv

\* The same for the way back.  The client gets its answer and data, or a refusal.
Answer == IF first \in {"socks", "connect"} THEN <<"ok">> ELSE <<>>
Rest(x) == IF x = "fail" THEN <<"fail">> ELSE Items
ToClient(x) == IF x = "bad" THEN <<"bad">> ELSE Answer \o Rest(x)
FromStrategy(x) == (IF mid = "direct" THEN <<>> ELSE <<"method", "ok">>) \o Rest(x)
FromRemote == <<IF kind = "worker" THEN "success" ELSE "hdr">> \o Items

\* Items that were taken from bg, written to bg, taken from rb.
Taken == IF mid = "direct" THEN Len(cgot) + Len(q["gc"])
         ELSE IF g = "reply" THEN 1
         ELSE IF g = "copy" THEN 2 - Len(Answer) + Len(cgot) + Len(q["gc"]) ELSE 0
Answered == Taken + Len(q["bg"])
Received == IF "header" \in bcopy THEN 0 ELSE Answered - 1

\* How the server of a worker ends its data.
Marks == IF kind = "worker" /\ rsent = N THEN {"close"} ELSE {}

DownOpen == g # "done" /\ ~Broken("gc")

ClientInv(x) ==
    /\ Fits(cgot, 0, ToClient(x), {}) /\ Fits(q["gc"], Len(cgot), ToClient(x), {})
    /\ DownOpen => Fits(q["bg"], Taken, FromStrategy(x), {})

BadInv == g = "done" /\ ClientInv("bad")

FailInv == /\ b = "done" /\ kind # "worker" /\ first # "tls" /\ "bg" \in fin
           /\ ClientInv("fail")

AnswerInv ==
    DownOpen /\ ~Broken("bg") =>
       IF mid = "direct" THEN rsent < N => Answered = rsent
       ELSE first # "tls" =>
              /\ b \in {"out", "accepted", "hello"} => Answered = 0
              /\ b = "request" => Answered = 1
              /\ b = "dial" => Answered = IF kind = "worker" THEN 1 ELSE 2
              /\ b = "success" => Answered = 1
              /\ b = "copy" => Answered > 1
              /\ "header" \in bcopy => Answered = 2
              /\ b \in {"success", "copy"} =>
                    /\ Fits(q["rb"], Received, FromRemote, Marks)
                    /\ ~Broken("rb") /\ (rsent < N \/ ~ready) =>
                          Received + Len(q["rb"]) = One(ready) + rsent

DataInv ==
    /\ ClientInv("data") /\ AnswerInv
    /\ mid # "direct" /\ ~ready => rsent = 0 /\ q["rb"] = <<>>
    /\ mid # "direct" /\ first = "tls" => q["bg"] = <<>> /\ q["gc"] = <<>> /\ cgot = <<>>

DownInv == DataInv \/ FailInv \/ BadInv

IInv == CtlInv /\ (Misrouted \/ (UpInv /\ DownInv))

-----------------------------------------------------------------------------
(* Connections.                                                             *)

\* Words are values.
LEMMA WordTypes == \A x \in Words : x \in Values
  BY DEF Values

\* The data is a sequence of values, none of them a word.
LEMMA ItemTypes ==
  /\ Items \in Seq(Values) /\ N \in Nat /\ DOMAIN Items = 1..N
  /\ \A i \in 1..N : Items[i] \in Values /\ Items[i] \notin Words
<1>1. /\ N \in Nat /\ DOMAIN Items = 1..N /\ Items = [i \in 1..N |-> Items[i]]
  BY RelayAssumption DEF N
<1>2. \A i \in 1..N : Items[i] \in Values
  BY DEF Values
<1> QED  BY <1>1, <1>2, RelayAssumption

\* A write appends to the direction, unless one of its ends has closed it.
LEMMA PutQ ==
  ASSUME NEW Q \in [Dirs -> Seq(Values)], NEW d \in Dirs, NEW x \in Values
  PROVE  /\ Put(Q, d, x) \in [Dirs -> Seq(Values)]
         /\ \A e \in Dirs : e # d => Put(Q, d, x)[e] = Q[e]
         /\ Put(Q, d, x)[d] = IF d \in fin \cup deaf THEN Q[d] ELSE Append(Q[d], x)
<1>1. Append(Q[d], x) \in Seq(Values)
  OBVIOUS
<1> QED  BY <1>1 DEF Put

\* A read takes the first item.
LEMMA TakeQ ==
  ASSUME NEW Q \in [Dirs -> Seq(Values)], NEW d \in Dirs, Q[d] # <<>>
  PROVE  /\ Take(Q, d) \in [Dirs -> Seq(Values)] /\ Head(Q[d]) \in Values
         /\ \A e \in Dirs : Take(Q, d)[e] = IF e = d THEN Tail(Q[d]) ELSE Q[e]
<1>1. Tail(Q[d]) \in Seq(Values) /\ Head(Q[d]) \in Values
  OBVIOUS
<1> QED  BY <1>1 DEF Take

\* A step writes, and reads nothing.
LEMMA WriteQ ==
  ASSUME QueueInv, NEW e \in Dirs, NEW x \in Values, q' = Put(q, e, x)
  PROVE  /\ q' \in [Dirs -> Seq(Values)]
         /\ q'[e] = IF e \in fin \cup deaf THEN q[e] ELSE Append(q[e], x)
         /\ \A o \in Dirs : o # e => q'[o] = q[o]
<1>1. q \in [Dirs -> Seq(Values)] /\ Append(q[e], x) \in Seq(Values)
  BY DEF QueueInv
<1> QED  BY <1>1 DEF Put

\* A read is followed by a write.
LEMMA MoveQ ==
  ASSUME QueueInv, NEW d \in Dirs, NEW e \in Dirs, d # e, q[d] # <<>>, NEW x \in Values,
         q' = Put(Take(q, d), e, x)
  PROVE  /\ q' \in [Dirs -> Seq(Values)]
         /\ q'[d] = Tail(q[d])
         /\ q'[e] = IF e \in fin \cup deaf THEN q[e] ELSE Append(q[e], x)
         /\ \A o \in Dirs : o # d /\ o # e => q'[o] = q[o]
<1>1. Tail(q[d]) \in Seq(Values) /\ q \in [Dirs -> Seq(Values)]
  BY DEF QueueInv
<1>2. Append(q[e], x) \in Seq(Values)
  BY <1>1
<1> QED  BY <1>1, <1>2 DEF Put, Take

\* One pass of a copy loop.
LEMMA CopyQ ==
  ASSUME QueueInv, NEW d \in Dirs, NEW e \in Dirs, d # e, q[d] # <<>>,
         q' = Put(Take(q, d), e, Head(q[d]))
  PROVE  /\ q' \in [Dirs -> Seq(Values)]
         /\ q'[d] = Tail(q[d])
         /\ q'[e] = IF e \in fin \cup deaf THEN q[e] ELSE Append(q[e], Head(q[d]))
         /\ \A o \in Dirs : o # d /\ o # e => q'[o] = q[o]
<1>1. Head(q[d]) \in Values
  BY DEF QueueInv
<1> QED  BY <1>1, MoveQ

\* A close empties the directions that are not read any more.
LEMMA CloseQ ==
  ASSUME NEW Q \in [Dirs -> Seq(Values)], NEW outs, NEW ins, CloseAfter(Q, outs, ins)
  PROVE  /\ q' \in [Dirs -> Seq(Values)]
         /\ \A e \in Dirs : q'[e] = IF e \in ins THEN <<>> ELSE Q[e]
<1>1. <<>> \in Seq(Values)
  OBVIOUS
<1> QED  BY <1>1 DEF CloseAfter

\* Steps that write nothing to the directions D: what is there stays or is lost.
Shrinks(D) == /\ fin \subseteq fin' /\ deaf \subseteq deaf'
              /\ \A d \in D : q'[d] = q[d] \/ (q'[d] = <<>> /\ d \in deaf')

\* Handlers stay where they are, or return.
Stays == /\ g' \in {g, "done"} /\ b' \in {b, "done"}
         /\ UNCHANGED <<first, mid, kind, ready>>

UpQuiet == /\ Shrinks({"cg", "gb", "br"}) /\ Stays /\ UNCHANGED <<csent, rgot>>
           /\ "first" \in bcopy' => "first" \in bcopy
           /\ "first" \in bcopy \ bcopy' => (Broken("br"))'

DownQuiet == /\ Shrinks({"gc", "bg", "rb"}) /\ Stays /\ UNCHANGED <<rsent, cgot>>
             /\ "header" \in bcopy' => "header" \in bcopy
             /\ "header" \in bcopy \ bcopy' => "bg" \in fin'

\* A step that only closes.
Quiet == /\ QueueInv' /\ UpQuiet /\ DownQuiet

-----------------------------------------------------------------------------
(* The steps that only close or end.                                        *)

\* The gateway's handler returns.
LEMMA GatewayReturns ==
  ASSUME CtlInv, GEndAfter(q), UNCHANGED <<mid, strategy, client, remote>> PROVE Quiet
<1>1. CloseAfter(q, {"gc", "gb"}, {"cg", "bg"}) /\ g' = "done"
  BY DEF GEndAfter
<1>2. /\ q' \in [Dirs -> Seq(Values)]
      /\ \A e \in Dirs : q'[e] = IF e \in {"cg", "bg"} THEN <<>> ELSE q[e]
  BY <1>1, CloseQ DEF CtlInv, QueueInv
<1>3. fin' = fin \cup {"gc", "gb"} /\ deaf' = deaf \cup {"cg", "bg"}
  BY <1>1 DEF CloseAfter
<1>4. Shrinks(Dirs)
  BY <1>2, <1>3 DEF Shrinks
<1> QED
  BY <1>1, <1>2, <1>4 DEF Quiet, UpQuiet, DownQuiet, Shrinks, Stays, Dirs, QueueInv, CtlInv, strategy,
     client, remote

\* The strategy's handler returns.
LEMMA StrategyReturns ==
  ASSUME CtlInv, BEndAfter(q), "first" \notin bcopy, "header" \notin bcopy,
         UNCHANGED <<mid, kind, bcopy, gateway, client, remote>>
  PROVE  Quiet
<1>1. PICK ins \in SUBSET Dirs : CloseAfter(q, {"bg", "br"}, ins) /\ b' = "done"
  <2>1. {"gb", "rb"} \ (IF kind = "grpc" THEN {"rb"} ELSE {}) \in SUBSET Dirs
    BY DEF Dirs
  <2> QED  BY <2>1 DEF BEndAfter
<1>2. /\ q' \in [Dirs -> Seq(Values)]
      /\ \A e \in Dirs : q'[e] = IF e \in ins THEN <<>> ELSE q[e]
  BY <1>1, CloseQ DEF CtlInv, QueueInv
<1>3. fin' = fin \cup {"bg", "br"} /\ deaf' = deaf \cup ins
  BY <1>1 DEF CloseAfter
<1>4. Shrinks(Dirs)
  BY <1>2, <1>3 DEF Shrinks
<1> QED
  BY <1>1, <1>2, <1>4 DEF Quiet, UpQuiet, DownQuiet, Shrinks, Stays, Dirs, QueueInv, CtlInv, gateway,
     client, remote

\* Connections are closed, or a direction of one.
LEMMA ConnectionCloses ==
  ASSUME CtlInv, \/ UNCHANGED links
                 \/ \E d : Shut(d)
                 \/ \E outs, ins : Close(outs, ins),
         UNCHANGED <<g, b, first, mid, kind, ready, csent, rgot, rsent, cgot>>,
         bcopy' \subseteq bcopy,
         "first" \in bcopy \ bcopy' => Broken("br"), "header" \in bcopy \ bcopy' => "bg" \in fin'
  PROVE  Quiet
<1>1. q' \in [Dirs -> Seq(Values)] /\ Shrinks(Dirs)
  <2>1. CASE UNCHANGED links
    BY <2>1 DEF links, Shrinks, CtlInv, QueueInv
  <2>2. ASSUME NEW d, Shut(d) PROVE q' \in [Dirs -> Seq(Values)] /\ Shrinks(Dirs)
    BY <2>2 DEF Shut, Shrinks, CtlInv, QueueInv
  <2>3. ASSUME NEW outs, NEW ins, Close(outs, ins)
        PROVE  q' \in [Dirs -> Seq(Values)] /\ Shrinks(Dirs)
    <3>1. /\ q' \in [Dirs -> Seq(Values)]
          /\ \A e \in Dirs : q'[e] = IF e \in ins THEN <<>> ELSE q[e]
      BY <2>3, CloseQ DEF CtlInv, QueueInv, Close
    <3> QED  BY <2>3, <3>1 DEF Close, CloseAfter, Shrinks
  <2> QED  BY <2>1, <2>2, <2>3
<1>2. "first" \in bcopy \ bcopy' => (Broken("br"))'
  BY <1>1 DEF Broken, Shrinks
<1> QED  BY <1>1, <1>2 DEF Quiet, UpQuiet, DownQuiet, Shrinks, Stays, Dirs, QueueInv, CtlInv

\* All the steps that only close, or that no data is concerned with.
LEMMA GatewayQuiet ==
  ASSUME CtlInv,
         SniffFails \/ Rejected \/ DirectDialFails \/ BackendHandshakeFails \/ HttpPassingFails \/ GCopied
         \/ GUpEnds \/ GDownEnds,
         UNCHANGED <<strategy, client, remote>>
  PROVE  Quiet
<1>1. CASE SniffFails \/ Rejected \/ DirectDialFails \/ BackendHandshakeFails \/ HttpPassingFails \/ GCopied
  <2>1. GEndAfter(q) /\ UNCHANGED <<mid, strategy, client, remote>>
    BY <1>1 DEF SniffFails, Rejected, DirectDialFails, BackendHandshakeFails, HttpPassingFails, GCopied
  <2> QED  BY <2>1, GatewayReturns
<1>2. CASE GUpEnds \/ GDownEnds
  <2>1. /\ \E d : Shut(d)
        /\ UNCHANGED <<g, b, first, mid, kind, ready, csent, rgot, rsent, cgot, bcopy>>
    BY <1>2 DEF GUpEnds, GDownEnds, strategy, client, remote
  <2> QED  BY <2>1, ConnectionCloses
<1> QED  BY <1>1, <1>2

\* The same for the strategy.
LEMMA StrategyQuiet ==
  ASSUME CtlInv,
         HandshakeFails \/ createTunnelFails \/ HeaderFails \/ NoSuccess \/ BCopied \/ FirstChunkFails
         \/ CloseWriter \/ NoResponseHeader \/ BDownEnds \/ VlessDownEnds
         \/ (BUpEnds /\ ~AtEnd("gb")) \/ Closing \/ CloseTunnel,
         UNCHANGED <<gateway, client, remote>>
  PROVE  Quiet
<1>1. UNCHANGED <<g, first, csent, cgot, rsent, rgot, ready, kind, mid, gateway, client, remote>>
  BY DEF gateway, client, remote, HandshakeFails, createTunnelFails, HeaderFails, NoSuccess,
         BCopied, FirstChunkFails, CloseWriter, NoResponseHeader, BDownEnds, VlessDownEnds,
         BUpEnds, Closing, CloseActive, TunnelClosed, CloseTunnel, others
<1>2. CASE HandshakeFails \/ createTunnelFails \/ HeaderFails \/ NoSuccess \/ BCopied
  <2>1. BEndAfter(q) /\ bcopy = {} /\ bcopy' = bcopy
    BY <1>2 DEF HandshakeFails, createTunnelFails, HeaderFails, NoSuccess, BCopied, CtlInv, LoopInv
  <2> QED  BY <1>1, <2>1, StrategyReturns
<1>3. CASE FirstChunkFails
  <2>1. UNCHANGED links /\ bcopy' = bcopy \ {"first"} /\ Broken("br") /\ UNCHANGED b
    BY <1>3 DEF FirstChunkFails, Ends, others
  <2> QED  BY <1>1, <2>1, ConnectionCloses
<1>4. CASE NoResponseHeader
  <2>1. Shut("bg") /\ "bg" \in fin' /\ bcopy' = bcopy \ {"header"} /\ UNCHANGED b
    BY <1>4 DEF NoResponseHeader, Ends, Shut, others
  <2> QED  BY <1>1, <2>1, ConnectionCloses
<1>5. CASE CloseWriter \/ BDownEnds \/ VlessDownEnds \/ (BUpEnds /\ ~AtEnd("gb"))
  <2>1. /\ \E d : Shut(d) \/ \E outs, ins : Close(outs, ins)
        /\ bcopy' = bcopy \ {"up"} \/ bcopy' = bcopy \ {"down"}
        /\ UNCHANGED b
    BY <1>5 DEF CloseWriter, BDownEnds, VlessDownEnds, BUpEnds, Ends, others, Close
  <2> QED  BY <1>1, <2>1, ConnectionCloses
<1>6. CASE Closing \/ CloseTunnel
  <2>1. UNCHANGED links \/ \E outs, ins : Close(outs, ins)
    BY <1>6 DEF Closing, CloseActive, TunnelClosed, CloseTunnel
  <2>2. UNCHANGED <<b, bcopy>>
    BY <1>6 DEF Closing, CloseActive, TunnelClosed, CloseTunnel
  <2> QED  BY <1>1, <2>1, <2>2, ConnectionCloses
<1> QED  BY <1>2, <1>3, <1>4, <1>5, <1>6

\* Client and remote close as they like.
LEMMA EndsQuiet == ASSUME CtlInv, ClientShuts \/ ClientCloses \/ RemoteCloses PROVE Quiet
<1>1. /\ UNCHANGED <<g, b, first, mid, kind, ready, csent, rgot, rsent, cgot, bcopy>>
      /\ UNCHANGED links \/ \E d : Shut(d) \/ \E outs, ins : Close(outs, ins)
  BY DEF ClientShuts, ClientCloses, RemoteCloses, gateway, strategy, client, remote
<1> QED  BY <1>1, ConnectionCloses

-----------------------------------------------------------------------------
(* Handlers, connections and the first item.                                *)

\* A step that only closes leaves empty what is empty.
LEMMA QuietCtl ==
  ASSUME CtlInv, Quiet, TypeInv', PlaceInv', LoopInv' PROVE CtlInv'
<1>1. EmptyInv'
  BY DEF CtlInv, EmptyInv, Quiet, UpQuiet, DownQuiet, Shrinks, Stays, Early, Before
<1>2. FirstInv'
  BY DEF CtlInv, FirstInv, LoopInv, Quiet, UpQuiet, Shrinks, Stays, Early
<1> QED  BY <1>1, <1>2 DEF CtlInv, Quiet

\* The gateway's handler ends or one of its loops does.
LEMMA GatewayEnds ==
  ASSUME CtlInv,
         SniffFails \/ Rejected \/ DirectDialFails \/ BackendHandshakeFails \/ HttpPassingFails \/ GCopied
         \/ GUpEnds \/ GDownEnds,
         UNCHANGED <<strategy, client, remote>>
  PROVE  CtlInv'
<1>1. TypeInv' /\ PlaceInv'
  BY ZenonT(40) DEF SniffFails, Rejected, DirectDialFails, BackendHandshakeFails, HttpPassingFails, GCopied,
         GUpEnds, GDownEnds, GEndAfter, CloseAfter, Shut, strategy, client, remote, CtlInv, TypeInv,
         PlaceInv, LoopInv, Dirs, Early, Before
<1>2. LoopInv'
  BY ZenonT(40) DEF SniffFails, Rejected, DirectDialFails, BackendHandshakeFails, HttpPassingFails,
         GCopied, GUpEnds, GDownEnds, GEndAfter, CloseAfter, Shut, strategy, CtlInv, TypeInv,
         LoopInv, Broken, Before
<1> QED  BY <1>1, <1>2, GatewayQuiet, QuietCtl

\* The gateway's handler goes on, and has written or read nothing.
LEMMA GatewayMoves ==
  ASSUME CtlInv, NEW r \in {"direct", "backend"},
         acceptLoop \/ sniffTargetForRouting \/ fillBuffer \/ DispatchTo(r) \/ DirectDial
         \/ forwardTCP,
         UNCHANGED <<strategy, client, remote>>
  PROVE  CtlInv' /\ UNCHANGED links
<1>1. UNCHANGED <<q, fin, deaf, strategy, client, remote>>
  BY DEF acceptLoop, sniffTargetForRouting, fillBuffer, DispatchTo, DirectDial,
         forwardTCP, links
<1>2. QueueInv'
  BY <1>1 DEF CtlInv, QueueInv, client, remote
<1>3. CASE acceptLoop \/ fillBuffer \/ DispatchTo(r) \/ DirectDial \/ forwardTCP
  <2>1. TypeInv' /\ PlaceInv'
    BY <1>1, <1>3 DEF acceptLoop, fillBuffer, DispatchTo, DirectDial, forwardTCP, GGoto, CtlInv,
       TypeInv, PlaceInv, strategy, client, remote, Early, Before
  <2>2. LoopInv'
    BY <1>1, <1>3 DEF acceptLoop, fillBuffer, DispatchTo, DirectDial, forwardTCP, GGoto, CtlInv,
       LoopInv, strategy, Broken
  <2>3. EmptyInv'
    <3>1. UNCHANGED <<q, b, rgot, ready, cgot>>
      BY <1>1 DEF strategy, client, remote
    <3>2. CASE acceptLoop \/ fillBuffer \/ DispatchTo(r)
      BY <3>1, <3>2 DEF acceptLoop, fillBuffer, DispatchTo, GGoto, CtlInv, EmptyInv, Early
    <3>3. CASE DirectDial \/ forwardTCP
      BY <3>1, <3>3 DEF DirectDial, forwardTCP, GGoto, CtlInv, EmptyInv, PlaceInv, Early
    <3> QED  BY <1>3, <3>2, <3>3
  <2>4. UNCHANGED <<q, csent, first>>
    BY <1>1 DEF client
  <2>5. FirstInv'
    <3>1. CASE acceptLoop \/ DirectDial \/ forwardTCP
      BY <2>4, <3>1 DEF acceptLoop, DirectDial, forwardTCP, GGoto, CtlInv, FirstInv, Early
    <3>2. CASE fillBuffer \/ DispatchTo(r)
      BY <2>4, <3>2 DEF fillBuffer, DispatchTo, GGoto, CtlInv, FirstInv, Early
    <3> QED  BY <1>3, <3>1, <3>2
  <2> QED  BY <1>1, <1>2, <2>1, <2>2, <2>3, <2>5 DEF CtlInv, links
<1>4. CASE sniffTargetForRouting
  <2>1. /\ g = "sniff" /\ g' = "dispatch" /\ proto' = Head(q["cg"]) /\ q["cg"] # <<>>
        /\ Head(q["cg"]) \in Protocols /\ UNCHANGED <<route, gcopy, mid>>
    BY <1>4 DEF sniffTargetForRouting, GGoto, Heard, Arrived, Protocols
  <2>2. csent # -1 /\ Head(q["cg"]) = first
    BY <2>1 DEF CtlInv, FirstInv, Early
  <2>3. csent >= 0
    BY <2>2 DEF CtlInv, TypeInv
  <2>4. TypeInv' /\ PlaceInv' /\ LoopInv'
    BY <1>1, <2>1, <2>2 DEF CtlInv, TypeInv, PlaceInv, LoopInv, strategy, client, remote, Early, Broken
  <2>5. EmptyInv' /\ FirstInv'
    BY <1>1, <2>1, <2>2, <2>3 DEF CtlInv, EmptyInv, FirstInv, strategy, client, remote, Early
  <2> QED  BY <1>1, <1>2, <2>4, <2>5 DEF CtlInv, links
<1> QED  BY <1>1, <1>3, <1>4 DEF links

\* It speaks with the strategy.
LEMMA GatewaySpeaks ==
  ASSUME CtlInv,
         forwardSocks5 \/ dialSocksProxy \/ handleSocks5BackendHandshake
         \/ ConnectRequest \/ HttpConnected,
         UNCHANGED <<strategy, client, remote>>
  PROVE  CtlInv'
<1> USE DEF CtlInv
<1>1. UNCHANGED <<fin, deaf, strategy, client, remote>>
  BY DEF forwardSocks5, dialSocksProxy, handleSocks5BackendHandshake, ConnectRequest,
         HttpConnected, Set
<1>2. TypeInv' /\ PlaceInv'
  BY <1>1, ZenonT(40)
     DEF forwardSocks5, dialSocksProxy, handleSocks5BackendHandshake, ConnectRequest,
         HttpConnected, GGoto, TypeInv, PlaceInv, strategy, client, remote, Early, Before, Protocols
<1>3. LoopInv'
  BY <1>1 DEF forwardSocks5, dialSocksProxy, handleSocks5BackendHandshake, ConnectRequest,
         HttpConnected, GGoto, LoopInv, strategy, Broken
<1>4. CASE forwardSocks5 \/ dialSocksProxy
  <2>1. /\ q' = Put(q, "gb", "hello") /\ g = "dial" /\ g' = "method" /\ mid' = "pending"
    BY <1>4 DEF forwardSocks5, dialSocksProxy, GGoto, Set
  <2>2. q' \in [Dirs -> Seq(Values)] /\ \A e \in Dirs : e # "gb" => q'[e] = q[e]
    <3>1. "gb" \in Dirs /\ "hello" \in Values
      BY WordTypes DEF Words, Dirs
    <3> QED  BY <2>1, <3>1, WriteQ DEF QueueInv
  <2>3. QueueInv' /\ EmptyInv' /\ FirstInv'
    BY <1>1, <2>1, <2>2 DEF QueueInv, EmptyInv, FirstInv, PlaceInv, strategy, client, remote, Early,
       Before, Dirs
  <2> QED  BY <1>2, <1>3, <2>3
<1>5. CASE handleSocks5BackendHandshake \/ ConnectRequest
  <2>1. /\ g = "method" /\ g' \in {"reply", "copy"} /\ mid' = mid /\ q["bg"] # <<>>
        /\ q' = Take(q, "bg") \/ q' = Put(Take(q, "bg"), "gb", "socks")
    BY <1>5 DEF handleSocks5BackendHandshake, ConnectRequest, GGoto, Heard, Arrived, Set
  <2>2. Take(q, "bg") \in [Dirs -> Seq(Values)] /\ \A e \in Dirs : e # "bg" => Take(q, "bg")[e] = q[e]
    BY <2>1, TakeQ DEF QueueInv, Dirs
  <2>3. q' \in [Dirs -> Seq(Values)] /\ \A e \in Dirs : e \notin {"bg", "gb"} => q'[e] = q[e]
    <3>1. "gb" \in Dirs /\ "socks" \in Values
      BY WordTypes DEF Words, Dirs
    <3> QED  BY <2>1, <2>2, <3>1, PutQ
  <2>4. QueueInv' /\ EmptyInv' /\ FirstInv'
    BY <1>1, <2>1, <2>3 DEF QueueInv, EmptyInv, FirstInv, PlaceInv, strategy, client, remote, Early,
       Before, Dirs
  <2> QED  BY <1>2, <1>3, <2>4
<1>6. CASE HttpConnected
  <2> DEFINE R == Take(Take(q, "bg"), "cg")
  <2>1. /\ g = "reply" /\ g' = "copy" /\ mid' = mid /\ q["bg"] # <<>> /\ q["cg"] # <<>>
        /\ q' = Put(R, "gc", "ok") \/ q' = Put(R, "gb", "http")
    <3>1. g = "reply" /\ csent # -1
      BY <1>6 DEF HttpConnected, GGoto, FirstInv, TypeInv
    <3>2. q["cg"] # <<>>
      BY <3>1 DEF FirstInv
    <3> QED  BY <1>6, <3>2 DEF HttpConnected, GGoto, Heard, Arrived, Set
  <2>2. Take(q, "bg") \in [Dirs -> Seq(Values)] /\ \A e \in Dirs : e # "bg" => Take(q, "bg")[e] = q[e]
    BY <2>1, TakeQ DEF QueueInv, Dirs
  <2>3. R \in [Dirs -> Seq(Values)] /\ \A e \in Dirs : e \notin {"bg", "cg"} => R[e] = q[e]
    BY <2>1, <2>2, TakeQ DEF Dirs
  <2> HIDE DEF R
  <2>4. q' \in [Dirs -> Seq(Values)] /\ \A e \in {"br", "rb"} : q'[e] = q[e]
    <3>1. "gb" \in Dirs /\ "gc" \in Dirs /\ "ok" \in Values /\ "http" \in Values
      BY WordTypes DEF Words, Dirs
    <3>2. /\ Put(R, "gc", "ok") \in [Dirs -> Seq(Values)]
          /\ \A e \in Dirs : e # "gc" => Put(R, "gc", "ok")[e] = R[e]
      BY <2>3, <3>1, PutQ
    <3>3. /\ Put(R, "gb", "http") \in [Dirs -> Seq(Values)]
          /\ \A e \in Dirs : e # "gb" => Put(R, "gb", "http")[e] = R[e]
      BY <2>3, <3>1, PutQ, SMTT(30)
    <3>4. "br" \in Dirs /\ "rb" \in Dirs
      BY DEF Dirs
    <3> QED  BY <2>1, <2>3, <3>2, <3>3, <3>4
  <2>5. QueueInv' /\ EmptyInv' /\ FirstInv'
    BY <1>1, <2>1, <2>4 DEF QueueInv, EmptyInv, FirstInv, PlaceInv, strategy, client, remote, Early,
       Before, Dirs
  <2> QED  BY <1>2, <1>3, <2>5
<1> QED  BY <1>4, <1>5, <1>6


\* The copy loops of the gateway.
LEMMA GatewayCopies ==
  ASSUME CtlInv, GUp \/ GDown, UNCHANGED <<strategy, client, remote>> PROVE CtlInv'
<1>1. UNCHANGED <<gateway, mid, strategy, client, remote, fin, deaf>> /\ g = "copy"
  BY DEF GUp, GDown, Copy, Set, CtlInv, LoopInv
<1>2. q' \in [Dirs -> Seq(Values)] /\ \A e \in {"br", "rb"} : q'[e] = q[e]
  <2>1. QueueInv /\ "cg" \in Dirs /\ "gb" \in Dirs /\ "bg" \in Dirs /\ "gc" \in Dirs
        /\ "br" \in Dirs /\ "rb" \in Dirs
    BY DEF CtlInv, Dirs
  <2>2. CASE Copy("cg", "gb")
    <3>1. q' \in [Dirs -> Seq(Values)] /\ \A o \in Dirs : o # "cg" /\ o # "gb" => q'[o] = q[o]
      BY <2>1, <2>2, CopyQ DEF Copy, Arrived, Set
    <3> QED  BY <2>1, <3>1
  <2>3. CASE Copy("bg", "gc")
    <3>1. q' \in [Dirs -> Seq(Values)] /\ \A o \in Dirs : o # "bg" /\ o # "gc" => q'[o] = q[o]
      BY <2>1, <2>3, CopyQ DEF Copy, Arrived, Set
    <3> QED  BY <2>1, <3>1
  <2> QED  BY <2>2, <2>3 DEF GUp, GDown
<1>3. mid # "none"
  BY <1>1 DEF CtlInv, PlaceInv, Early
<1>4. QueueInv' /\ EmptyInv' /\ FirstInv'
  BY <1>1, <1>2, <1>3 DEF CtlInv, QueueInv, EmptyInv, FirstInv, gateway, strategy, client, remote, Early
<1>5. TypeInv' /\ PlaceInv' /\ LoopInv'
  BY <1>1 DEF CtlInv, TypeInv, PlaceInv, LoopInv, gateway, strategy, client, remote, Broken
<1> QED  BY <1>4, <1>5 DEF CtlInv

\* The gateway gives up, and tells a client that speaks HTTP.
LEMMA GatewayRefuses ==
  ASSUME CtlInv, BackendDialFails \/ dialSocksProxyFails, UNCHANGED <<strategy, client, remote>>
  PROVE  /\ CtlInv'
         /\ g' = "done" /\ UNCHANGED <<mid, strategy, client, remote>> /\ Shrinks(Dirs \ {"gc"})
         /\ q'["gc"] = IF proto \in {"connect", "http"} /\ "gc" \notin fin \cup deaf
                       THEN Append(q["gc"], "bad") ELSE q["gc"]
<1> USE DEF CtlInv
<1>1. GEndAfter(BadGateway) /\ g \in {"dial", "method", "reply"} /\ UNCHANGED <<proto, route, gcopy, mid>>
  BY DEF BackendDialFails, dialSocksProxyFails
<1>2. "gc" \in Dirs /\ "bad" \in Values
  BY WordTypes DEF Words, Dirs
<1>3. /\ BadGateway \in [Dirs -> Seq(Values)] /\ \A e \in Dirs : e # "gc" => BadGateway[e] = q[e]
      /\ BadGateway["gc"] = IF proto \in {"connect", "http"} /\ "gc" \notin fin \cup deaf
                            THEN Append(q["gc"], "bad") ELSE q["gc"]
  <2>1. q \in [Dirs -> Seq(Values)]
    BY DEF QueueInv
  <2> QED  BY <1>2, <2>1, PutQ DEF BadGateway
<1>4. CloseAfter(BadGateway, {"gc", "gb"}, {"cg", "bg"}) /\ g' = "done"
  BY <1>1 DEF GEndAfter
<1>5. /\ q' \in [Dirs -> Seq(Values)]
      /\ \A e \in Dirs : q'[e] = IF e \in {"cg", "bg"} THEN <<>> ELSE BadGateway[e]
  BY <1>3, <1>4, CloseQ
<1>6. fin' = fin \cup {"gc", "gb"} /\ deaf' = deaf \cup {"cg", "bg"}
  BY <1>4 DEF CloseAfter
<1>7. TypeInv' /\ PlaceInv' /\ LoopInv'
  BY <1>1, <1>4, <1>6, ZenonT(40)
     DEF TypeInv, PlaceInv, LoopInv, strategy, client, remote, Early, Before, Broken, Dirs
<1>8. Shrinks(Dirs \ {"gc"})
  BY <1>3, <1>5, <1>6 DEF Shrinks
<1>9. QueueInv' /\ EmptyInv' /\ FirstInv'
  BY <1>1, <1>3, <1>4, <1>5 DEF QueueInv, EmptyInv, FirstInv, strategy, client, remote, Early, Dirs
<1> QED  BY <1>1, <1>2, <1>3, <1>4, <1>5, <1>7, <1>8, <1>9


\* The strategy's handler goes on.
LEMMA StrategyPlaces ==
  ASSUME CtlInv,
         Accept \/ Register \/ Methods \/ Request \/ VlessRequest \/ createTunnel
         \/ DialVlessWS \/ DialVlessGRPC \/ waitForSuccess \/ FirstChunk \/ DecodeResponseHeader
         \/ BUp \/ BDown,
         UNCHANGED <<gateway, client, remote>>
  PROVE  TypeInv' /\ PlaceInv' /\ LoopInv' /\ UNCHANGED <<fin, deaf>>
<1> USE DEF CtlInv
<1>1. UNCHANGED <<fin, deaf>>
  BY DEF Accept, Register, Methods, Request, VlessRequest, createTunnel, DialVlessWS, DialVlessGRPC,
         VlessCopies, waitForSuccess, FirstChunk, DecodeResponseHeader, BUp, BDown, Copy, Set, links
<1>2. CASE Accept \/ Register \/ DialVlessWS \/ DialVlessGRPC
  <2>1. TypeInv' /\ PlaceInv'
    BY <1>1, <1>2 DEF Accept, Register, DialVlessWS, DialVlessGRPC, VlessCopies, BGoto, TypeInv,
       PlaceInv, gateway, client, remote, Before
  <2>2. LoopInv'
    BY <1>1, <1>2 DEF Accept, Register, DialVlessWS, DialVlessGRPC, VlessCopies, BGoto, LoopInv,
       gateway, Broken, Before
  <2> QED  BY <1>1, <2>1, <2>2
<1>3. CASE Methods \/ Request \/ VlessRequest \/ createTunnel \/ waitForSuccess
  <2>1. TypeInv' /\ PlaceInv'
    BY <1>1, <1>3 DEF Methods, Request, VlessRequest, createTunnel, waitForSuccess, BGoto, TypeInv,
       PlaceInv, gateway, client, remote, Before
  <2>2. LoopInv'
    BY <1>1, <1>3 DEF Methods, Request, VlessRequest, createTunnel, waitForSuccess, BGoto, LoopInv,
       gateway, Broken, Before
  <2> QED  BY <1>1, <2>1, <2>2
<1>4. CASE FirstChunk \/ DecodeResponseHeader \/ BUp \/ BDown
  <2>1. TypeInv' /\ PlaceInv'
    BY <1>1, <1>4, ZenonT(40)
       DEF FirstChunk, DecodeResponseHeader, BUp, BDown, Becomes, others, strategy, TypeInv,
       PlaceInv, gateway, client, remote
  <2>2. LoopInv'
    BY <1>1, <1>4 DEF FirstChunk, DecodeResponseHeader, BUp, BDown, Becomes, others, strategy, LoopInv,
       gateway, Broken
  <2> QED  BY <1>1, <2>1, <2>2
<1> QED  BY <1>2, <1>3, <1>4


\* What the strategy does with its connections is nobody else's business.
LEMMA StrategyCtl ==
  ASSUME CtlInv, TypeInv' /\ PlaceInv' /\ LoopInv' /\ UNCHANGED <<fin, deaf>>,
         UNCHANGED <<gateway, client, remote>>, mid' # "none", mid = "direct" => mid' = "direct",
         q' \in [Dirs -> Seq(Values)], q'["cg"] = q["cg"], q'["gc"] = q["gc"],
         b' \in Before => b \in Before /\ q'["br"] = q["br"] /\ q'["rb"] = q["rb"]
  PROVE  CtlInv'
<1>1. QueueInv'
  BY DEF CtlInv, QueueInv, client, remote
<1>2. EmptyInv'
  BY DEF CtlInv, EmptyInv, gateway, client, remote
<1>3. FirstInv'
  BY DEF CtlInv, FirstInv, gateway, client
<1> QED  BY <1>1, <1>2, <1>3 DEF CtlInv

\* The strategy's handler goes on.
LEMMA StrategyMoves ==
  ASSUME CtlInv, Accept \/ Register \/ DialVlessWS \/ DialVlessGRPC,
         UNCHANGED <<gateway, client, remote>>
  PROVE  CtlInv' /\ UNCHANGED links
<1>1. /\ UNCHANGED links /\ mid' # "none" /\ (b' \in Before => b \in Before)
      /\ mid = "direct" => mid' = "direct"
  BY DEF Accept, Register, DialVlessWS, DialVlessGRPC, VlessCopies, BGoto, CtlInv, PlaceInv, Before
<1> QED  BY <1>1, StrategyPlaces, StrategyCtl DEF links, CtlInv, QueueInv

\* The handshake with the gateway.
LEMMA StrategyShakes ==
  ASSUME CtlInv, Methods \/ Request \/ VlessRequest, UNCHANGED <<gateway, client, remote>>
  PROVE  /\ CtlInv' /\ UNCHANGED <<mid, kind, bcopy, fin, deaf>>
         /\ (b = "hello" /\ b' = "request") \/ (b = "request" /\ b' = "dial")
         /\ Arrived("gb") /\ Head(q["gb"]) = IF b = "hello" THEN "hello" ELSE "socks"
         /\ q'["gb"] = Tail(q["gb"])
         /\ q'["bg"] = IF (b = "request" /\ kind = "worker") \/ Broken("bg") THEN q["bg"]
                       ELSE Append(q["bg"], IF b = "hello" THEN "method" ELSE "ok")
         /\ \A o \in {"cg", "gc", "br", "rb"} : q'[o] = q[o]
<1> USE DEF CtlInv
<1>1. /\ q["gb"] # <<>> /\ mid # "none" /\ mid' = mid /\ UNCHANGED <<kind, bcopy, fin, deaf>>
      /\ b \in Before /\ "gb" \in Dirs /\ "bg" \in Dirs /\ "gb" # "bg"
      /\ {"cg", "gc", "br", "rb"} \subseteq Dirs
  BY DEF Methods, Request, VlessRequest, BGoto, Heard, Arrived, Set, PlaceInv, Before, Dirs
<1>2. "method" \in Values /\ "ok" \in Values /\ q \in [Dirs -> Seq(Values)] /\ QueueInv
  BY WordTypes DEF Words, QueueInv
<1>3. CASE Methods
  <2>1. /\ q' = Put(Take(q, "gb"), "bg", "method") /\ Arrived("gb") /\ Head(q["gb"]) = "hello"
        /\ b = "hello" /\ b' = "request"
    BY <1>3 DEF Methods, Set, Heard, BGoto
  <2>2. /\ q' \in [Dirs -> Seq(Values)] /\ q'["gb"] = Tail(q["gb"])
        /\ q'["bg"] = IF "bg" \in fin \cup deaf THEN q["bg"] ELSE Append(q["bg"], "method")
        /\ \A o \in Dirs : o # "gb" /\ o # "bg" => q'[o] = q[o]
    <3> HIDE DEF CtlInv
    <3>1. /\ QueueInv /\ "gb" \in Dirs /\ "bg" \in Dirs /\ q["gb"] # <<>> /\ "method" \in Values
          /\ q' = Put(Take(q, "gb"), "bg", "method")
      BY <1>1, <1>2, <2>1
    <3> QED  BY <3>1, MoveQ
  <2>3. CtlInv'
    BY <1>1, <2>2, StrategyPlaces, StrategyCtl
  <2> QED  BY <1>1, <2>1, <2>2, <2>3 DEF Broken
<1>4. CASE VlessRequest
  <2>1. /\ q' = Put(Take(q, "gb"), "bg", "ok") /\ Arrived("gb") /\ Head(q["gb"]) = "socks"
        /\ b = "request" /\ b' = "dial" /\ kind # "worker"
    BY <1>4 DEF VlessRequest, Set, Heard, BGoto
  <2>2. /\ q' \in [Dirs -> Seq(Values)] /\ q'["gb"] = Tail(q["gb"])
        /\ q'["bg"] = IF "bg" \in fin \cup deaf THEN q["bg"] ELSE Append(q["bg"], "ok")
        /\ \A o \in Dirs : o # "gb" /\ o # "bg" => q'[o] = q[o]
    <3> HIDE DEF CtlInv
    <3>1. /\ QueueInv /\ "gb" \in Dirs /\ "bg" \in Dirs /\ q["gb"] # <<>> /\ "ok" \in Values
          /\ q' = Put(Take(q, "gb"), "bg", "ok")
      BY <1>1, <1>2, <2>1
    <3> QED  BY <3>1, MoveQ
  <2>3. CtlInv'
    BY <1>1, <2>2, StrategyPlaces, StrategyCtl
  <2> QED  BY <1>1, <2>1, <2>2, <2>3 DEF Broken
<1>5. CASE Request
  <2>1. /\ q' = Take(q, "gb") /\ Arrived("gb") /\ Head(q["gb"]) = "socks"
        /\ b = "request" /\ b' = "dial" /\ kind = "worker"
    BY <1>5 DEF Request, Set, Heard, BGoto
  <2>2. /\ q' \in [Dirs -> Seq(Values)]
        /\ \A o \in Dirs : q'[o] = IF o = "gb" THEN Tail(q["gb"]) ELSE q[o]
    BY <1>1, <1>2, <2>1, TakeQ
  <2>3. CtlInv'
    BY <1>1, <2>2, StrategyPlaces, StrategyCtl
  <2> QED  BY <1>1, <2>1, <2>2, <2>3
<1> QED  BY <1>3, <1>4, <1>5


\* The worker's request to its server.
LEMMA TunnelCreated ==
  ASSUME CtlInv, createTunnel, UNCHANGED <<gateway, client, remote>>
  PROVE  /\ CtlInv' /\ UNCHANGED <<mid, kind, bcopy, fin, deaf>>
         /\ b = "dial" /\ b' = "success" /\ kind = "worker" /\ ~Broken("br")
         /\ q'["br"] = Append(q["br"], "new") /\ \A o \in Dirs : o # "br" => q'[o] = q[o]
<1>1. /\ UNCHANGED <<mid, kind, bcopy, fin, deaf>>
      /\ b = "dial" /\ b' = "success" /\ kind = "worker" /\ q' = Put(q, "br", "new")
  BY DEF createTunnel, BGoto, Set
<1>2. "br" \notin fin \cup deaf /\ mid # "none" /\ b' \notin Before
  BY <1>1 DEF CtlInv, LoopInv, PlaceInv, Broken, Before
<1>3. "br" \in Dirs /\ "cg" \in Dirs /\ "gc" \in Dirs /\ "new" \in Values /\ q \in [Dirs -> Seq(Values)]
  BY WordTypes DEF Words, CtlInv, QueueInv, Dirs
<1>4. /\ q' \in [Dirs -> Seq(Values)]
      /\ q'["br"] = Append(q["br"], "new") /\ \A o \in Dirs : o # "br" => q'[o] = q[o]
  <2>1. QueueInv /\ "br" \in Dirs /\ "new" \in Values /\ q' = Put(q, "br", "new")
    BY <1>1, <1>3 DEF CtlInv
  <2>2. /\ q' \in [Dirs -> Seq(Values)] /\ \A o \in Dirs : o # "br" => q'[o] = q[o]
        /\ q'["br"] = IF "br" \in fin \cup deaf THEN q["br"] ELSE Append(q["br"], "new")
    BY <2>1, WriteQ
  <2> QED  BY <1>2, <2>2
<1>5. CtlInv'
  BY <1>1, <1>2, <1>3, <1>4, StrategyPlaces, StrategyCtl
<1> QED  BY <1>1, <1>2, <1>4, <1>5 DEF Broken

\* The answers of the server: the worker's goes on to the gateway, that of VLESS does not.
LEMMA ServerAnswered ==
  ASSUME CtlInv, waitForSuccess \/ DecodeResponseHeader, UNCHANGED <<gateway, client, remote>>
  PROVE  /\ CtlInv' /\ UNCHANGED <<mid, kind, fin, deaf>> /\ b' = "copy" /\ Arrived("rb")
         /\ (b = "success" /\ bcopy' = {"up", "down"} /\ Head(q["rb"]) = "success")
            \/ (b = "copy" /\ "header" \in bcopy /\ bcopy' = (bcopy \ {"header"}) \cup {"down"}
                /\ Head(q["rb"]) = "hdr")
         /\ q'["rb"] = Tail(q["rb"]) /\ \A o \in {"cg", "gc", "gb", "br"} : q'[o] = q[o]
         /\ q'["bg"] = IF b = "copy" \/ Broken("bg") THEN q["bg"] ELSE Append(q["bg"], "ok")
<1>1. /\ UNCHANGED <<mid, kind, fin, deaf>> /\ q["rb"] # <<>> /\ Arrived("rb")
      /\ b' = "copy" /\ b \notin Before /\ b # "out"
  BY DEF waitForSuccess, DecodeResponseHeader, BGoto, Set, Heard, Arrived, Becomes, CtlInv, LoopInv,
     others, Before
<1>2. mid # "none" /\ b' \notin Before
  BY <1>1 DEF CtlInv, PlaceInv, Before
<1>3. /\ "rb" \in Dirs /\ "bg" \in Dirs /\ "ok" \in Values /\ q \in [Dirs -> Seq(Values)]
      /\ QueueInv /\ {"cg", "gc", "gb", "br"} \subseteq Dirs
  BY WordTypes DEF Words, CtlInv, QueueInv, Dirs
<1>4. CASE waitForSuccess
  <2>1. /\ q' = Put(Take(q, "rb"), "bg", "ok") /\ b = "success" /\ bcopy' = {"up", "down"}
        /\ Head(q["rb"]) = "success"
    BY <1>4 DEF waitForSuccess, BGoto, Set, Heard
  <2>2. /\ q' \in [Dirs -> Seq(Values)] /\ q'["rb"] = Tail(q["rb"])
        /\ q'["bg"] = IF "bg" \in fin \cup deaf THEN q["bg"] ELSE Append(q["bg"], "ok")
        /\ \A o \in Dirs : o # "rb" /\ o # "bg" => q'[o] = q[o]
    <3>1. /\ QueueInv /\ "rb" \in Dirs /\ "bg" \in Dirs /\ q["rb"] # <<>> /\ "ok" \in Values
          /\ q' = Put(Take(q, "rb"), "bg", "ok")
      BY <1>1, <1>3, <2>1
    <3> QED  BY <3>1, MoveQ
  <2>3. CtlInv'
    BY <1>1, <1>2, <1>3, <2>2, StrategyPlaces, StrategyCtl
  <2> QED  BY <1>1, <1>3, <2>1, <2>2, <2>3 DEF Broken
<1>5. CASE DecodeResponseHeader
  <2>1. /\ q' = Take(q, "rb") /\ b = "copy" /\ "header" \in bcopy
        /\ bcopy' = (bcopy \ {"header"}) \cup {"down"} /\ Head(q["rb"]) = "hdr"
    BY <1>5, <1>1 DEF DecodeResponseHeader, Becomes, Set, Heard, others
  <2>2. /\ q' \in [Dirs -> Seq(Values)]
        /\ \A o \in Dirs : q'[o] = IF o = "rb" THEN Tail(q["rb"]) ELSE q[o]
    BY <1>1, <1>3, <2>1, TakeQ
  <2>3. CtlInv'
    BY <1>1, <1>2, <1>3, <2>2, StrategyPlaces, StrategyCtl
  <2> QED  BY <1>1, <1>3, <2>1, <2>2, <2>3
<1> QED  BY <1>4, <1>5

\* The copy loops of the strategy.
LEMMA StrategyCopies ==
  ASSUME CtlInv, BUp \/ BDown, UNCHANGED <<gateway, client, remote>>
  PROVE  CtlInv'
<1>1. UNCHANGED <<mid, strategy, fin, deaf>> /\ b = "copy"
  BY DEF BUp, BDown, Copy, Set, CtlInv, LoopInv
<1>2. mid # "none" /\ b' \notin Before
  BY <1>1 DEF CtlInv, PlaceInv, strategy, Before
<1>3. q' \in [Dirs -> Seq(Values)] /\ \A e \in {"cg", "gc"} : q'[e] = q[e]
  <2>1. QueueInv /\ Dirs = {"cg", "gc", "gb", "bg", "br", "rb"}
    BY DEF CtlInv, Dirs
  <2>2. CASE Copy("gb", "br")
    BY <2>1, <2>2, CopyQ DEF Copy, Arrived, Set
  <2>3. CASE Copy("rb", "bg")
    BY <2>1, <2>3, CopyQ DEF Copy, Arrived, Set
  <2> QED  BY <2>2, <2>3 DEF BUp, BDown
<1> QED  BY <1>1, <1>2, <1>3, StrategyPlaces, StrategyCtl


\* The request of VLESS, with what one read of the client's data gave.
LEMMA FirstSent ==
  ASSUME CtlInv, FirstChunk, UNCHANGED <<gateway, client, remote>>
  PROVE  /\ CtlInv' /\ UNCHANGED <<mid, kind, b, fin, deaf>> /\ b = "copy" /\ kind # "worker"
         /\ "first" \in bcopy /\ bcopy' = (bcopy \ {"first"}) \cup {"up"} /\ "br" \notin fin
         /\ \A o \in {"cg", "gc", "bg", "rb"} : q'[o] = q[o]
         /\ "br" \in deaf => q'["br"] = q["br"]
         /\ \/ /\ Arrived("gb") /\ q'["gb"] = Tail(q["gb"])
               /\ "br" \notin deaf => q'["br"] = Append(Append(q["br"], "hdr"), Head(q["gb"]))
            \/ /\ AtEnd("gb") /\ q'["gb"] = q["gb"]
               /\ "br" \notin deaf => q'["br"] = Append(q["br"], "hdr")
<1>1. /\ UNCHANGED <<mid, kind, b, fin, deaf>> /\ b = "copy" /\ kind # "worker" /\ "br" \notin fin
      /\ "first" \in bcopy /\ bcopy' = (bcopy \ {"first"}) \cup {"up"}
  BY DEF FirstChunk, Becomes, Set, others, CtlInv, LoopInv, CanWrite
<1>2. mid # "none" /\ b' \notin Before
  BY <1>1 DEF CtlInv, PlaceInv, Before
<1>3. /\ "gb" \in Dirs /\ "br" \in Dirs /\ "hdr" \in Values /\ q \in [Dirs -> Seq(Values)] /\ QueueInv
      /\ {"cg", "gc", "bg", "rb"} \subseteq Dirs
  BY WordTypes DEF Words, CtlInv, QueueInv, Dirs
<1>4. CASE Arrived("gb") /\ Set(Put(Put(Take(q, "gb"), "br", "hdr"), "br", Head(q["gb"])))
  <2>1. q["gb"] # <<>> /\ q' = Put(Put(Take(q, "gb"), "br", "hdr"), "br", Head(q["gb"]))
    BY <1>4 DEF Arrived, Set
  <2>2. Tail(q["gb"]) \in Seq(Values) /\ Head(q["gb"]) \in Values
    BY <1>3, <2>1
  <2>3. /\ Append(q["br"], "hdr") \in Seq(Values)
        /\ Append(Append(q["br"], "hdr"), Head(q["gb"])) \in Seq(Values)
    BY <1>3, <2>2
  <2>4. /\ q' \in [Dirs -> Seq(Values)] /\ q'["gb"] = Tail(q["gb"])
        /\ \A o \in Dirs : o \notin {"gb", "br"} => q'[o] = q[o]
        /\ "br" \in deaf => q'["br"] = q["br"]
        /\ "br" \notin deaf => q'["br"] = Append(Append(q["br"], "hdr"), Head(q["gb"]))
    <3>1. CASE "br" \in deaf
      <4>1. q' = [q EXCEPT !["gb"] = Tail(@)]
        BY <2>1, <3>1 DEF Put, Take
      <4> QED  BY <1>3, <2>2, <3>1, <4>1
    <3>2. CASE "br" \notin deaf
      <4>1. q' = [[[q EXCEPT !["gb"] = Tail(@)] EXCEPT !["br"] = Append(@, "hdr")]
                     EXCEPT !["br"] = Append(@, Head(q["gb"]))]
        BY <1>1, <2>1, <3>2 DEF Put, Take
      <4> QED  BY <1>3, <2>2, <2>3, <3>2, <4>1
    <3> QED  BY <3>1, <3>2
  <2>5. CtlInv'
    BY <1>1, <1>2, <1>3, <2>4, StrategyPlaces, StrategyCtl
  <2> QED  BY <1>1, <1>3, <1>4, <2>4, <2>5
<1>5. CASE AtEnd("gb") /\ Set(Put(q, "br", "hdr"))
  <2>1. q' = Put(q, "br", "hdr")
    BY <1>5 DEF Set
  <2>2. /\ q' \in [Dirs -> Seq(Values)] /\ \A o \in Dirs : o # "br" => q'[o] = q[o]
        /\ q'["br"] = IF "br" \in fin \cup deaf THEN q["br"] ELSE Append(q["br"], "hdr")
    <3>1. QueueInv /\ "br" \in Dirs /\ "hdr" \in Values
      BY <1>3
    <3> QED  BY <2>1, <3>1, WriteQ
  <2>3. CtlInv'
    BY <1>1, <1>2, <1>3, <2>2, StrategyPlaces, StrategyCtl
  <2> QED  BY <1>1, <1>3, <1>5, <2>2, <2>3
<1> QED  BY <1>4, <1>5 DEF FirstChunk

\* The strategy's handler ends or one of its loops does, or CloseTunnel closes.
LEMMA StrategyEnds ==
  ASSUME CtlInv,
         HandshakeFails \/ createTunnelFails \/ HeaderFails \/ NoSuccess \/ BCopied \/ FirstChunkFails
         \/ CloseWriter \/ NoResponseHeader \/ BDownEnds \/ VlessDownEnds
         \/ (BUpEnds /\ ~AtEnd("gb")) \/ Closing \/ CloseTunnel,
         UNCHANGED <<gateway, client, remote>>
  PROVE  CtlInv'
<1> SUFFICES TypeInv' /\ PlaceInv' /\ LoopInv'
  BY StrategyQuiet, QuietCtl
<1> USE DEF CtlInv
<1>1. CASE HandshakeFails \/ createTunnelFails \/ HeaderFails \/ NoSuccess \/ BCopied
  <2>1. TypeInv' /\ PlaceInv'
    BY <1>1, ZenonT(40)
       DEF HandshakeFails, createTunnelFails, HeaderFails, NoSuccess, BCopied, BEndAfter, CloseAfter,
       TypeInv,
       PlaceInv, gateway, client, remote, Before, Dirs
  <2>2. LoopInv'
    BY <1>1 DEF HandshakeFails, createTunnelFails, HeaderFails, NoSuccess, BCopied, BEndAfter, CloseAfter,
       LoopInv, gateway, Broken, Before
  <2> QED  BY <2>1, <2>2
<1>2. CASE FirstChunkFails
  BY <1>2, ZenonT(40)
     DEF FirstChunkFails, Ends, others, links, TypeInv, PlaceInv, LoopInv, gateway, client, remote,
     Broken
<1>3. CASE NoResponseHeader \/ VlessDownEnds
  <2>1. /\ fin' = fin \cup {"bg"} /\ UNCHANGED <<deaf, others>> /\ b = "copy"
        /\ bcopy' = bcopy \ {"header"} \/ bcopy' = bcopy \ {"down"}
    BY <1>3 DEF NoResponseHeader, VlessDownEnds, Shut, Ends, LoopInv
  <2>2. TypeInv' /\ PlaceInv'
    BY <2>1 DEF others, TypeInv, PlaceInv, gateway, client, remote, Dirs
  <2>3. LoopInv'
    BY <2>1 DEF others, LoopInv, gateway, Broken, Before
  <2> QED  BY <2>2, <2>3
<1>4. CASE BDownEnds
  <2>1. /\ fin' = fin \cup {"bg"} /\ deaf' = deaf \cup {"gb"} /\ UNCHANGED others /\ b = "copy"
        /\ bcopy' = bcopy \ {"down"}
    BY <1>4 DEF BDownEnds, Close, CloseAfter, Ends, LoopInv
  <2>2. TypeInv' /\ PlaceInv'
    BY <2>1 DEF others, TypeInv, PlaceInv, gateway, client, remote, Dirs
  <2>3. LoopInv'
    BY <2>1 DEF others, LoopInv, gateway, Broken, Before
  <2> QED  BY <2>2, <2>3
<1>5. CASE CloseWriter \/ BUpEnds
  <2>1. /\ fin' = fin \cup {"br"} /\ (deaf' = deaf \/ deaf' = deaf \cup {"rb"})
        /\ UNCHANGED others /\ b = "copy" /\ bcopy' = bcopy \ {"up"}
    BY <1>5 DEF CloseWriter, BUpEnds, Close, CloseAfter, Shut, Ends, LoopInv
  <2>2. TypeInv' /\ PlaceInv'
    BY <2>1 DEF others, TypeInv, PlaceInv, gateway, client, remote, Dirs
  <2>3. LoopInv'
    BY <2>1 DEF others, LoopInv, gateway, Broken, Before
  <2> QED  BY <2>2, <2>3
<1>6. CASE Closing \/ CloseTunnel
  <2>1. /\ UNCHANGED <<fin, deaf>> \/ (fin' = fin \cup {"bg"} /\ deaf' = deaf \cup {"gb"})
        /\ UNCHANGED <<kind, b, bcopy, mid>>
    BY <1>6 DEF Closing, CloseActive, TunnelClosed, CloseTunnel, Close, CloseAfter, links
  <2>2. TypeInv' /\ PlaceInv'
    BY <2>1, ZenonT(40) DEF TypeInv, PlaceInv, gateway, client, remote, Dirs
  <2>3. LoopInv'
    BY <2>1 DEF LoopInv, gateway, Broken, Before
  <2> QED  BY <2>2, <2>3
<1> QED  BY <1>1, <1>2, <1>3, <1>4, <1>5, <1>6


\* The worker's packet at the end of the client's data, after which its tunnel is closed.
LEMMA WorkerTells ==
  ASSUME CtlInv, BUpEnds, AtEnd("gb"), UNCHANGED <<gateway, client, remote>>
  PROVE  /\ CtlInv' /\ UNCHANGED <<mid, kind, b>> /\ b = "copy" /\ kind = "worker"
         /\ "up" \in bcopy /\ bcopy' = bcopy \ {"up"}
         /\ fin' = fin \cup {"br"} /\ Shrinks(Dirs \ {"br"})
         /\ q'["br"] = IF Broken("br") THEN q["br"] ELSE Append(q["br"], "close")
<1> USE DEF CtlInv
<1>1. /\ CloseAfter(Put(q, "br", "close"), {"br"}, {"rb"}) /\ UNCHANGED others /\ b = "copy"
      /\ "up" \in bcopy /\ bcopy' = bcopy \ {"up"} /\ kind = "worker"
  BY DEF BUpEnds, Ends, LoopInv
<1>2. fin' = fin \cup {"br"} /\ deaf' = deaf \cup {"rb"}
  BY <1>1 DEF CloseAfter
<1>3. TypeInv' /\ PlaceInv' /\ LoopInv'
  <2>1. TypeInv' /\ PlaceInv'
    BY <1>1, <1>2 DEF others, TypeInv, PlaceInv, gateway, client, remote, Dirs
  <2>2. LoopInv'
    BY <1>1, <1>2 DEF others, LoopInv, gateway, Broken, Before
  <2> QED  BY <2>1, <2>2
<1>4. "br" \in Dirs /\ "close" \in Values /\ q \in [Dirs -> Seq(Values)]
  BY WordTypes DEF Words, QueueInv, Dirs
<1> DEFINE R == Put(q, "br", "close")
<1>5. /\ R \in [Dirs -> Seq(Values)] /\ \A e \in Dirs : e # "br" => R[e] = q[e]
      /\ R["br"] = IF "br" \in fin \cup deaf THEN q["br"] ELSE Append(q["br"], "close")
  <2> HIDE DEF CtlInv
  <2> QED  BY <1>4, PutQ
<1> HIDE DEF R
<1>6. /\ q' \in [Dirs -> Seq(Values)] /\ \A e \in Dirs : q'[e] = IF e \in {"rb"} THEN <<>> ELSE R[e]
  <2>1. CloseAfter(R, {"br"}, {"rb"})
    BY <1>1 DEF R
  <2> QED  BY <1>5, <2>1, CloseQ, SMTT(30)
<1>7. Shrinks(Dirs \ {"br"})
  BY <1>2, <1>5, <1>6 DEF Shrinks
<1>8. /\ q'["br"] = IF Broken("br") THEN q["br"] ELSE Append(q["br"], "close")
      /\ \A e \in {"cg", "gc", "gb", "bg"} : q'[e] = q[e]
  BY <1>4, <1>5, <1>6 DEF Broken, Dirs
<1>9. QueueInv' /\ EmptyInv' /\ FirstInv'
  BY <1>1, <1>6, <1>8 DEF QueueInv, EmptyInv, FirstInv, others, gateway, client, remote, Before
<1> QED  BY <1>1, <1>2, <1>3, <1>7, <1>8, <1>9 DEF others

\* VLESS could not dial, and says so after it has said yes.
LEMMA VlessTells ==
  ASSUME CtlInv, DialVlessFails, UNCHANGED <<gateway, client, remote>>
  PROVE  /\ CtlInv' /\ UNCHANGED <<mid, kind, bcopy>> /\ b = "dial" /\ b' = "done"
         /\ kind # "worker" /\ "bg" \in fin' /\ Shrinks(Dirs \ {"bg"})
         /\ q'["bg"] = IF Broken("bg") THEN q["bg"] ELSE Append(q["bg"], "fail")
<1> USE DEF CtlInv
<1>1. /\ BEndAfter(Put(q, "bg", "fail")) /\ UNCHANGED <<mid, kind, bcopy>> /\ b = "dial"
      /\ kind # "worker"
  BY DEF DialVlessFails
<1>2. PICK ins \in SUBSET {"gb", "rb"} :
         CloseAfter(Put(q, "bg", "fail"), {"bg", "br"}, ins) /\ b' = "done"
  BY <1>1 DEF BEndAfter
<1>3. fin' = fin \cup {"bg", "br"} /\ deaf' = deaf \cup ins
  BY <1>2 DEF CloseAfter
<1>4. TypeInv' /\ PlaceInv' /\ LoopInv'
  <2>1. TypeInv' /\ PlaceInv'
    BY <1>1, <1>2, <1>3 DEF TypeInv, PlaceInv, gateway, client, remote, Dirs, Before
  <2>2. LoopInv'
    BY <1>1, <1>2, <1>3 DEF LoopInv, gateway, Broken, Before
  <2> QED  BY <2>1, <2>2
<1>5. "bg" \in Dirs /\ "fail" \in Values /\ q \in [Dirs -> Seq(Values)]
  BY WordTypes DEF Words, QueueInv, Dirs
<1> DEFINE R == Put(q, "bg", "fail")
<1>6. /\ R \in [Dirs -> Seq(Values)] /\ \A e \in Dirs : e # "bg" => R[e] = q[e]
      /\ R["bg"] = IF "bg" \in fin \cup deaf THEN q["bg"] ELSE Append(q["bg"], "fail")
  <2> HIDE DEF CtlInv
  <2> QED  BY <1>5, PutQ
<1> HIDE DEF R
<1>7. q' \in [Dirs -> Seq(Values)] /\ \A e \in Dirs : q'[e] = IF e \in ins THEN <<>> ELSE R[e]
  <2>1. CloseAfter(R, {"bg", "br"}, ins)
    BY <1>2 DEF R
  <2> QED  BY <1>6, <2>1, CloseQ
<1>8. Shrinks(Dirs \ {"bg"})
  BY <1>3, <1>6, <1>7 DEF Shrinks
<1>9. /\ q'["bg"] = IF Broken("bg") THEN q["bg"] ELSE Append(q["bg"], "fail")
      /\ \A e \in {"cg", "gc"} : q'[e] = q[e]
  BY <1>5, <1>6, <1>7 DEF Broken, Dirs
<1>10. mid # "none" /\ b' \notin Before
  BY <1>1, <1>2 DEF PlaceInv, Before
<1>11. QueueInv' /\ EmptyInv' /\ FirstInv'
  BY <1>1, <1>7, <1>9, <1>10 DEF QueueInv, EmptyInv, FirstInv, gateway, client, remote
<1> QED  BY <1>1, <1>2, <1>3, <1>4, <1>8, <1>9, <1>11


\* The client sends.
LEMMA ClientSent ==
  ASSUME CtlInv, ClientSends
  PROVE  /\ CtlInv' /\ csent' = csent + 1 /\ csent < N /\ g # "out" /\ "cg" \notin fin
         /\ csent >= 0 => ~Waits
         /\ UNCHANGED <<fin, deaf, mid, gateway, strategy, first, cgot, remote>>
         /\ q'["cg"] = IF "cg" \in deaf THEN q["cg"]
                       ELSE Append(q["cg"], IF csent < 0 THEN first ELSE Items[csent + 1])
         /\ \A o \in Dirs : o # "cg" => q'[o] = q[o]
<1> DEFINE x == IF csent < 0 THEN first ELSE Items[csent + 1]
<1>1. /\ csent' = csent + 1 /\ csent < N /\ g # "out" /\ "cg" \notin fin /\ q' = Put(q, "cg", x)
      /\ csent >= 0 => ~Waits
      /\ UNCHANGED <<fin, deaf, mid, gateway, strategy, first, cgot, remote>>
  BY DEF ClientSends, CanWrite, Set
<1>2. csent \in -1..N /\ N \in Nat /\ first \in Firsts
  BY ItemTypes DEF CtlInv, TypeInv
<1>3. csent >= 0 => csent + 1 \in 1..N
  BY <1>1, <1>2
<1>4. x \in Values
  BY <1>2, <1>3, ItemTypes DEF Values
<1>5. "cg" \in Dirs /\ QueueInv /\ q \in [Dirs -> Seq(Values)]
  BY DEF Dirs, CtlInv, QueueInv
<1>6. csent < 0 => csent = -1 /\ x = first
  BY <1>2
<1> HIDE DEF x
<1>7. /\ q' \in [Dirs -> Seq(Values)] /\ \A o \in Dirs : o # "cg" => q'[o] = q[o]
      /\ q'["cg"] = IF "cg" \in fin \cup deaf THEN q["cg"] ELSE Append(q["cg"], x)
  BY <1>1, <1>4, <1>5, WriteQ
<1>8. q'["cg"] = IF "cg" \in deaf THEN q["cg"] ELSE Append(q["cg"], x)
  BY <1>1, <1>7
<1>9. QueueInv' /\ EmptyInv'
  BY <1>1, <1>7 DEF CtlInv, QueueInv, EmptyInv, gateway, strategy, remote, Dirs
<1>10. TypeInv' /\ PlaceInv' /\ LoopInv'
  <2>1. csent' \in -1..N
    BY <1>1, <1>2
  <2>2. TypeInv' /\ PlaceInv'
    BY <1>1, <2>1, ZenonT(40) DEF CtlInv, TypeInv, PlaceInv, gateway, strategy, remote
  <2>3. LoopInv'
    BY <1>1 DEF CtlInv, LoopInv, gateway, strategy, Broken
  <2> QED  BY <2>2, <2>3
<1>11. FirstInv'
  <2>1. g \in Early \cup {"method", "reply"} =>
           "cg" \notin deaf /\ (csent = -1 => q["cg"] = <<>>)
           /\ (csent # -1 => q["cg"] # <<>> /\ Head(q["cg"]) = first)
    BY DEF CtlInv, LoopInv, FirstInv, Early
  <2>2. csent' >= 0
    BY <1>1, <1>2
  <2>3. ASSUME g \in Early \cup {"method", "reply"} PROVE q'["cg"] # <<>> /\ Head(q'["cg"]) = first
    <3>1. q'["cg"] = Append(q["cg"], x) /\ q["cg"] \in Seq(Values)
      BY <1>5, <1>8, <2>1, <2>3
    <3>2. CASE csent = -1
      <4>1. q["cg"] = <<>> /\ x = first
        BY <1>6, <2>1, <2>3, <3>2, <1>2
      <4> QED  BY <3>1, <4>1, <1>4
    <3>3. CASE csent # -1
      <4>1. q["cg"] # <<>> /\ Head(q["cg"]) = first
        BY <2>1, <2>3, <3>3
      <4> QED  BY <3>1, <4>1, <1>4
    <3> QED  BY <3>2, <3>3
  <2> QED  BY <1>1, <2>2, <2>3 DEF FirstInv, gateway
<1> QED  BY <1>1, <1>7, <1>8, <1>9, <1>10, <1>11 DEF x, CtlInv

\* The client receives.
LEMMA ClientGot ==
  ASSUME CtlInv, ClientReceives
  PROVE  /\ CtlInv' /\ q["gc"] # <<>> /\ cgot' = Append(cgot, Head(q["gc"]))
         /\ UNCHANGED <<fin, deaf, mid, gateway, strategy, first, csent, remote>>
         /\ \A o \in Dirs : q'[o] = IF o = "gc" THEN Tail(q["gc"]) ELSE q[o]
<1>1. /\ q["gc"] # <<>> /\ q' = Take(q, "gc") /\ cgot' = Append(cgot, Head(q["gc"]))
      /\ UNCHANGED <<fin, deaf, mid, gateway, strategy, first, csent, remote>>
  BY DEF ClientReceives, Arrived, Set
<1>2. "gc" \in Dirs /\ q \in [Dirs -> Seq(Values)] /\ cgot \in Seq(Values)
  BY DEF Dirs, CtlInv, QueueInv
<1>3. /\ q' \in [Dirs -> Seq(Values)] /\ Head(q["gc"]) \in Values
      /\ \A o \in Dirs : q'[o] = IF o = "gc" THEN Tail(q["gc"]) ELSE q[o]
  BY <1>1, <1>2, TakeQ
<1>4. QueueInv'
  BY <1>1, <1>2, <1>3 DEF CtlInv, QueueInv, remote
<1>5. TypeInv' /\ PlaceInv'
  BY <1>1, ZenonT(40) DEF CtlInv, TypeInv, PlaceInv, gateway, strategy, remote
<1>6. LoopInv'
  BY <1>1 DEF CtlInv, LoopInv, gateway, strategy, Broken
<1>7. EmptyInv' /\ FirstInv'
  BY <1>1, <1>3 DEF CtlInv, EmptyInv, FirstInv, gateway, strategy, remote, Dirs
<1> QED  BY <1>1, <1>3, <1>4, <1>5, <1>6, <1>7 DEF CtlInv


\* The ends of the remote's connection, and when there is one.
LEMMA RemoteEnds ==
  ASSUME CtlInv, Dialled
  PROVE  /\ In \in Dirs /\ Out \in Dirs /\ In # Out
         /\ \/ mid = "direct" /\ In = "gb" /\ Out = "bg" /\ b = "out" /\ g \in {"copy", "done"}
            \/ mid = "accepted" /\ In = "br" /\ Out = "rb" /\ b \in {"success", "copy"}
  BY DEF In, Out, Dialled, Dirs, CtlInv, PlaceInv

\* What the remote does with its connection keeps the handlers where they are.
LEMMA RemoteCtl ==
  ASSUME CtlInv, Dialled, UNCHANGED <<fin, deaf, mid, gateway, strategy, client>>,
         ready' \in BOOLEAN, rsent' \in 0..N, rgot' \in Seq(Values), q' \in [Dirs -> Seq(Values)],
         \A o \in Dirs : o # In /\ o # Out => q'[o] = q[o]
  PROVE  CtlInv'
<1>1. QueueInv' /\ TypeInv' /\ PlaceInv'
  BY DEF CtlInv, QueueInv, TypeInv, PlaceInv, gateway, strategy, client
<1>2. LoopInv'
  BY DEF CtlInv, LoopInv, gateway, strategy, Broken
<1>3. \/ mid = "direct" /\ \A o \in {"cg", "gc", "br", "rb"} : q'[o] = q[o]
      \/ mid = "accepted" /\ b \notin Before /\ \A o \in {"cg", "gc", "gb", "bg"} : q'[o] = q[o]
  BY RemoteEnds DEF Dirs, Before
<1>4. EmptyInv' /\ FirstInv'
  BY <1>3 DEF CtlInv, EmptyInv, FirstInv, gateway, strategy, client
<1> QED  BY <1>1, <1>2, <1>4 DEF CtlInv

\* The remote receives, and answers the request of a stream.
LEMMA RemoteGot ==
  ASSUME CtlInv, RemoteReceives
  PROVE  /\ CtlInv' /\ Dialled /\ q[In] # <<>> /\ q'[In] = Tail(q[In])
         /\ UNCHANGED <<fin, deaf, mid, gateway, strategy, client, rsent, rdown>>
         /\ \A o \in Dirs : o # In /\ o # Out => q'[o] = q[o]
         /\ \/ /\ Head(q[In]) \in {"new", "hdr"} /\ ready' = TRUE /\ rgot' = rgot
               /\ q'[Out] = IF Broken(Out) THEN q[Out]
                            ELSE Append(q[Out], IF Head(q[In]) = "new" THEN "success" ELSE "hdr")
            \/ /\ Head(q[In]) = "close" /\ UNCHANGED <<ready, rgot>> /\ q'[Out] = q[Out]
            \/ /\ Head(q[In]) \notin {"new", "hdr", "close"} /\ rgot' = Append(rgot, Head(q[In]))
               /\ ready' = ready /\ q'[Out] = q[Out]
<1>1. /\ Dialled /\ q[In] # <<>>
      /\ UNCHANGED <<fin, deaf, mid, gateway, strategy, client, rsent, rdown>>
  BY DEF RemoteReceives, Arrived, Set
<1>2. /\ In \in Dirs /\ Out \in Dirs /\ In # Out /\ QueueInv /\ q \in [Dirs -> Seq(Values)]
      /\ rgot \in Seq(Values) /\ ready \in BOOLEAN /\ rsent \in 0..N
      /\ "success" \in Values /\ "hdr" \in Values
  BY <1>1, RemoteEnds, WordTypes DEF CtlInv, QueueInv, TypeInv, Words
<1>3. Head(q[In]) \in Values
  BY <1>1, <1>2
<1>4. CASE /\ Head(q[In]) \in {"new", "hdr"} /\ ready' = TRUE /\ rgot' = rgot
           /\ q' = Put(Take(q, In), Out, IF Head(q[In]) = "new" THEN "success" ELSE "hdr")
  <2> DEFINE x == IF Head(q[In]) = "new" THEN "success" ELSE "hdr"
  <2>1. x \in Values /\ q' = Put(Take(q, In), Out, x)
    BY <1>2, <1>4
  <2> HIDE DEF x
  <2>2. /\ q' \in [Dirs -> Seq(Values)] /\ q'[In] = Tail(q[In])
        /\ q'[Out] = IF Out \in fin \cup deaf THEN q[Out] ELSE Append(q[Out], x)
        /\ \A o \in Dirs : o # In /\ o # Out => q'[o] = q[o]
    BY <1>1, <1>2, <2>1, MoveQ
  <2>3. CtlInv'
    BY <1>1, <1>2, <1>4, <2>2, RemoteCtl
  <2> QED  BY <1>1, <1>4, <2>2, <2>3 DEF x, Broken
<1>5. CASE Head(q[In]) = "close" /\ q' = Take(q, In) /\ UNCHANGED <<ready, rgot>>
  <2>1. /\ q' \in [Dirs -> Seq(Values)]
        /\ \A o \in Dirs : q'[o] = IF o = In THEN Tail(q[In]) ELSE q[o]
    BY <1>1, <1>2, <1>5, TakeQ
  <2>2. CtlInv'
    BY <1>1, <1>2, <1>5, <2>1, RemoteCtl
  <2> QED  BY <1>1, <1>2, <1>5, <2>1, <2>2
<1>6. CASE /\ Head(q[In]) \notin {"new", "hdr", "close"} /\ q' = Take(q, In)
           /\ rgot' = Append(rgot, Head(q[In])) /\ UNCHANGED ready
  <2>1. /\ q' \in [Dirs -> Seq(Values)]
        /\ \A o \in Dirs : q'[o] = IF o = In THEN Tail(q[In]) ELSE q[o]
    BY <1>1, <1>2, <1>6, TakeQ
  <2>2. rgot' \in Seq(Values)
    BY <1>2, <1>3, <1>6
  <2>3. CtlInv'
    BY <1>1, <1>2, <1>6, <2>1, <2>2, RemoteCtl
  <2> QED  BY <1>1, <1>2, <1>6, <2>1, <2>3
<1> QED  BY <1>4, <1>5, <1>6 DEF RemoteReceives, Set

\* The remote sends data, or the worker's server the end of the stream.
LEMMA RemoteSent ==
  ASSUME CtlInv, RemoteSends \/ RemoteEndsStream
  PROVE  /\ CtlInv' /\ Dialled /\ (ready \/ mid = "direct") /\ Out \notin fin
         /\ UNCHANGED <<fin, deaf, mid, gateway, strategy, client, rgot, ready, rdown>>
         /\ \A o \in Dirs : o # Out => q'[o] = q[o]
         /\ \/ /\ rsent < N /\ rsent' = rsent + 1
               /\ q'[Out] = IF Out \in deaf THEN q[Out] ELSE Append(q[Out], Items[rsent + 1])
            \/ /\ kind = "worker" /\ mid = "accepted" /\ rsent' = N
               /\ q'[Out] = IF Out \in deaf THEN q[Out] ELSE Append(q[Out], "close")
<1>1. /\ Dialled /\ UNCHANGED <<fin, deaf, mid, gateway, strategy, client, rgot, ready, rdown>>
      /\ ready \/ mid = "direct"
  BY DEF RemoteSends, RemoteEndsStream, Dialled, Set
<1>2. /\ In \in Dirs /\ Out \in Dirs /\ In # Out /\ QueueInv /\ q \in [Dirs -> Seq(Values)]
      /\ rgot \in Seq(Values) /\ ready \in BOOLEAN /\ rsent \in 0..N /\ N \in Nat
      /\ "close" \in Values
  BY <1>1, RemoteEnds, WordTypes, ItemTypes DEF CtlInv, QueueInv, TypeInv, Words
<1>3. CASE RemoteSends
  <2>1. /\ rsent < N /\ rsent' = rsent + 1 /\ Out \notin fin
        /\ q' = Put(q, Out, Items[rsent + 1])
    BY <1>3 DEF RemoteSends, CanWrite, Set
  <2>2. Items[rsent + 1] \in Values /\ rsent' \in 0..N
    BY <1>2, <2>1, ItemTypes
  <2>3. /\ q' \in [Dirs -> Seq(Values)] /\ \A o \in Dirs : o # Out => q'[o] = q[o]
        /\ q'[Out] = IF Out \in fin \cup deaf THEN q[Out] ELSE Append(q[Out], Items[rsent + 1])
    BY <1>2, <2>1, <2>2, WriteQ
  <2>4. CtlInv'
    BY <1>1, <1>2, <2>2, <2>3, RemoteCtl
  <2> QED  BY <1>1, <2>1, <2>3, <2>4
<1>4. CASE RemoteEndsStream
  <2>1. b = "copy" /\ kind = "worker" /\ rsent' = N /\ "rb" \notin fin /\ q' = Put(q, "rb", "close")
    BY <1>4 DEF RemoteEndsStream, CanWrite, Set
  <2>2. Out = "rb" /\ mid = "accepted"
    BY <1>1, <2>1, RemoteEnds
  <2>3. rsent' \in 0..N
    BY <1>2, <2>1
  <2>4. /\ q' \in [Dirs -> Seq(Values)] /\ \A o \in Dirs : o # Out => q'[o] = q[o]
        /\ q'[Out] = IF Out \in fin \cup deaf THEN q[Out] ELSE Append(q[Out], "close")
    <3>1. q' = Put(q, Out, "close")
      BY <2>1, <2>2
    <3> QED  BY <1>2, <3>1, WriteQ
  <2>5. CtlInv'
    BY <1>1, <1>2, <2>3, <2>4, RemoteCtl
  <2> QED  BY <1>1, <2>1, <2>2, <2>4, <2>5
<1> QED  BY <1>3, <1>4

\* Client and remote close.
LEMMA EndsClose ==
  ASSUME CtlInv, ClientShuts \/ ClientCloses \/ RemoteCloses PROVE CtlInv'
<1> SUFFICES TypeInv' /\ PlaceInv' /\ LoopInv'
  BY EndsQuiet, QuietCtl
<1> USE DEF CtlInv
<1>1. CASE ClientShuts \/ ClientCloses
  <2>1. /\ fin' = fin \cup {"cg"} /\ (deaf' = deaf \/ deaf' = deaf \cup {"gc"})
        /\ UNCHANGED <<mid, gateway, strategy, client, remote>>
    BY <1>1 DEF ClientShuts, ClientCloses, Shut, Close, CloseAfter
  <2>2. TypeInv' /\ PlaceInv'
    BY <2>1, ZenonT(40) DEF TypeInv, PlaceInv, gateway, strategy, client, remote, Dirs
  <2>3. LoopInv'
    BY <2>1 DEF LoopInv, gateway, strategy, Broken
  <2> QED  BY <2>2, <2>3
<1>2. CASE RemoteCloses
  <2>1. UNCHANGED <<mid, gateway, strategy, client, rsent, ready>>
    BY <1>2 DEF RemoteCloses
  <2>2. \/ fin' = fin /\ deaf' = deaf
        \/ mid = "direct" /\ fin' = fin \cup {"bg"} /\ deaf' = deaf \cup {"gb"}
        \/ b \notin Before /\ fin' = fin \cup {"rb"} /\ deaf' = deaf \cup {"br"}
    BY <1>2, RemoteEnds DEF RemoteCloses, Close, CloseAfter, links, Before
  <2>3. TypeInv' /\ PlaceInv'
    BY <2>1, <2>2, ZenonT(40) DEF TypeInv, PlaceInv, gateway, strategy, client, Dirs
  <2>4. LoopInv'
    BY <2>1, <2>2 DEF LoopInv, gateway, strategy, Broken
  <2> QED  BY <2>3, <2>4
<1> QED  BY <1>1, <1>2


-----------------------------------------------------------------------------
(* All steps together.                                                      *)

\* Nobody has sent, dialled or closed anything.
LEMMA CtlInitially == Init => CtlInv
<1> SUFFICES ASSUME Init PROVE CtlInv
  OBVIOUS
<1>1. N \in Nat /\ <<>> \in Seq(Values)
  BY ItemTypes
<1>2. csent \in -1..N /\ rsent \in 0..N
  <2>1. csent = -1 /\ rsent = 0
    BY DEF Init
  <2> QED  BY <1>1, <2>1
<1> USE DEF Init, LinksInit, GatewayInit, StrategyInit
<1>3. QueueInv /\ TypeInv
  BY <1>1, <1>2 DEF QueueInv, TypeInv, Early, Before, Networks
<1>4. PlaceInv /\ LoopInv
  BY DEF PlaceInv, LoopInv, Early, Before, Broken
<1>5. EmptyInv /\ FirstInv
  BY DEF EmptyInv, FirstInv, Early, Before, Dirs
<1> QED  BY <1>3, <1>4, <1>5 DEF CtlInv

\* The steps of the gateway.
LEMMA GatewayCtl ==
  ASSUME CtlInv, GatewayHandler \/ GatewayUp \/ GatewayDown \/ GatewayMay,
         UNCHANGED <<strategy, client, remote>>
  PROVE  CtlInv'
<1>1. CASE SniffFails \/ Rejected \/ DirectDialFails \/ BackendHandshakeFails \/ HttpPassingFails \/ GCopied
           \/ GUpEnds \/ GDownEnds
  BY <1>1, GatewayEnds
<1>2. CASE \/ acceptLoop \/ sniffTargetForRouting \/ fillBuffer \/ DirectDial \/ forwardTCP
           \/ \E r \in {"direct", "backend"} : DispatchTo(r)
  BY <1>2, GatewayMoves
<1>3. CASE forwardSocks5 \/ dialSocksProxy \/ handleSocks5BackendHandshake
           \/ ConnectRequest \/ HttpConnected
  BY <1>3, GatewaySpeaks
<1>4. CASE GUp \/ GDown
  BY <1>4, GatewayCopies
<1>5. CASE BackendDialFails \/ dialSocksProxyFails
  BY <1>5, GatewayRefuses
<1> QED
  BY <1>1, <1>2, <1>3, <1>4, <1>5 DEF GatewayHandler, GatewayUp, GatewayDown, GatewayMay

\* The steps of the strategy.
LEMMA StrategyKeeps ==
  ASSUME CtlInv, Accept \/ StrategyHandler \/ StrategyUp \/ StrategyDown \/ Closing \/ CloseTunnel,
         UNCHANGED <<gateway, client, remote>>
  PROVE  CtlInv'
<1>1. CASE HandshakeFails \/ createTunnelFails \/ HeaderFails \/ NoSuccess \/ BCopied \/ FirstChunkFails
           \/ CloseWriter \/ NoResponseHeader \/ BDownEnds \/ VlessDownEnds
           \/ (BUpEnds /\ ~AtEnd("gb")) \/ Closing \/ CloseTunnel
  BY <1>1, StrategyEnds
<1>2. CASE Accept \/ Register \/ DialVlessWS \/ DialVlessGRPC
  BY <1>2, StrategyMoves
<1>3. CASE Methods \/ Request \/ VlessRequest
  BY <1>3, StrategyShakes
<1>4. CASE createTunnel
  BY <1>4, TunnelCreated
<1>5. CASE waitForSuccess \/ DecodeResponseHeader
  BY <1>5, ServerAnswered
<1>6. CASE FirstChunk
  BY <1>6, FirstSent
<1>7. CASE BUp \/ BDown
  BY <1>7, StrategyCopies
<1>8. CASE BUpEnds /\ AtEnd("gb")
  BY <1>8, WorkerTells
<1>9. CASE DialVlessFails
  BY <1>9, VlessTells
<1> QED
  BY <1>1, <1>2, <1>3, <1>4, <1>5, <1>6, <1>7, <1>8, <1>9 DEF StrategyHandler, StrategyUp,
     StrategyDown

\* Every step.
LEMMA CtlStep == CtlInv /\ [Next]_vars => CtlInv'
<1> SUFFICES ASSUME CtlInv, [Next]_vars PROVE CtlInv'
  OBVIOUS
<1>1. CASE (GatewayHandler \/ GatewayUp \/ GatewayDown \/ GatewayMay)
           /\ UNCHANGED <<strategy, client, remote>>
  BY <1>1, GatewayCtl
<1>2. CASE (Accept \/ StrategyHandler \/ StrategyUp \/ StrategyDown \/ Closing \/ CloseTunnel)
           /\ UNCHANGED <<gateway, client, remote>>
  BY <1>2, StrategyKeeps
<1>3. CASE ClientSends
  BY <1>3, ClientSent
<1>4. CASE ClientReceives
  BY <1>4, ClientGot
<1>5. CASE RemoteReceives
  BY <1>5, RemoteGot
<1>6. CASE RemoteSends \/ RemoteEndsStream
  BY <1>6, RemoteSent
<1>7. CASE ClientShuts \/ ClientCloses \/ RemoteCloses
  BY <1>7, EndsClose
<1>8. CASE UNCHANGED vars
  <2>1. QueueInv' /\ TypeInv' /\ PlaceInv'
    BY <1>8, ZenonT(40)
       DEF vars, links, gateway, strategy, client, remote, CtlInv, QueueInv, TypeInv, PlaceInv
  <2>2. LoopInv' /\ EmptyInv' /\ FirstInv'
    BY <1>8 DEF vars, links, gateway, strategy, client, remote, CtlInv, LoopInv, EmptyInv, FirstInv,
       Broken
  <2> QED  BY <2>1, <2>2 DEF CtlInv
<1> QED
  BY <1>1, <1>2, <1>3, <1>4, <1>5, <1>6, <1>7, <1>8 DEF Next, GatewayStep, StrategyStep

\* Every variable has its type and no connection carries anything before it is there, for
\* any data and any kind of strategy, whoever closes when.
THEOREM TypeCorrect == Spec => []TypeOK
<1>1. CtlInv => TypeOK
  BY DEF CtlInv, TypeInv, EmptyInv, TypeOK, Early, Before
<1> QED  BY <1>1, CtlInitially, CtlStep, PTL DEF Spec


-----------------------------------------------------------------------------
(* Streams.                                                                 *)

\* Nothing fits anywhere.
LEMMA FitsEmpty == ASSUME NEW n, NEW W, NEW marks PROVE Fits(<<>>, n, W, marks)
  BY DEF Fits

\* Without marks, every item is the one of the stream.
LEMMA FitsAll ==
  ASSUME NEW s \in Seq(Values), NEW n \in Nat, NEW W
  PROVE  Fits(s, n, W, {}) <=> \A j \in 1..Len(s) : n + j \in DOMAIN W /\ s[j] = W[n + j]
  BY DEF Fits

\* The reader takes an item: the next one of the stream, or a mark.
LEMMA FitsTake ==
  ASSUME NEW s \in Seq(Values), s # <<>>, NEW n \in Nat, NEW W, NEW marks, Fits(s, n, W, marks)
  PROVE  /\ Fits(Tail(s), n + 1, W, marks)
         /\ (n + 1 \in DOMAIN W /\ Head(s) = W[n + 1]) \/ Head(s) \in marks
<1>1. Len(s) \in Nat /\ Len(s) > 0 /\ DOMAIN s = 1..Len(s) /\ Head(s) = s[1]
  OBVIOUS
<1>2. Tail(s) \in Seq(Values) /\ DOMAIN Tail(s) = 1..(Len(s) - 1)
      /\ \A j \in 1..(Len(s) - 1) : Tail(s)[j] = s[j + 1]
  BY <1>1
<1>3. ASSUME NEW j \in 1..(Len(s) - 1)
      PROVE  \/ n + 1 + j \in DOMAIN W /\ Tail(s)[j] = W[n + 1 + j]
             \/ \A l \in 1..(Len(s) - 1) : l >= j => Tail(s)[l] \in marks
  <2>1. j + 1 \in 1..Len(s) /\ n + (j + 1) = n + 1 + j
    BY <1>1
  <2>2. CASE n + (j + 1) \in DOMAIN W /\ s[j + 1] = W[n + (j + 1)]
    BY <1>2, <2>1, <2>2
  <2>3. CASE \A l \in 1..Len(s) : l >= j + 1 => s[l] \in marks
    <3> SUFFICES ASSUME NEW l \in 1..(Len(s) - 1), l >= j PROVE Tail(s)[l] \in marks
      OBVIOUS
    <3>1. l + 1 \in 1..Len(s) /\ l + 1 >= j + 1
      BY <1>1
    <3> QED  BY <1>2, <2>3, <3>1
  <2> QED  BY <1>1, <2>1, <2>2, <2>3 DEF Fits
<1>4. Fits(Tail(s), n + 1, W, marks)
  BY <1>2, <1>3 DEF Fits
<1>5. (n + 1 \in DOMAIN W /\ s[1] = W[n + 1]) \/ s[1] \in marks
  <2>1. 1 \in 1..Len(s)
    BY <1>1
  <2> QED  BY <1>1, <2>1 DEF Fits
<1> QED  BY <1>1, <1>4, <1>5

\* The mark that the reader takes is followed by marks only.
LEMMA FitsMarks ==
  ASSUME NEW s \in Seq(Values), s # <<>>, NEW n \in Nat, NEW W, NEW marks, Fits(s, n, W, marks),
         ~(n + 1 \in DOMAIN W /\ Head(s) = W[n + 1]), NEW m \in Nat
  PROVE  Fits(Tail(s), m, W, marks)
<1>1. Len(s) \in Nat /\ Len(s) > 0 /\ DOMAIN s = 1..Len(s) /\ Head(s) = s[1] /\ 1 \in 1..Len(s)
  OBVIOUS
<1>2. Tail(s) \in Seq(Values) /\ DOMAIN Tail(s) = 1..(Len(s) - 1)
      /\ \A j \in 1..(Len(s) - 1) : Tail(s)[j] = s[j + 1]
  BY <1>1
<1>3. \A l \in 1..Len(s) : l >= 1 => s[l] \in marks
  BY <1>1 DEF Fits
<1>4. \A l \in 1..(Len(s) - 1) : Tail(s)[l] \in marks
  <2> SUFFICES ASSUME NEW l \in 1..(Len(s) - 1) PROVE Tail(s)[l] \in marks
    OBVIOUS
  <2>1. l + 1 \in 1..Len(s) /\ l + 1 >= 1
    BY <1>1
  <2> QED  BY <1>2, <1>3, <2>1
<1> QED  BY <1>2, <1>4 DEF Fits

\* The writer appends the next item of the stream, or a mark.
LEMMA FitsPut ==
  ASSUME NEW s \in Seq(Values), NEW n \in Nat, NEW W, Fits(s, n, W, {}), NEW x \in Values
  PROVE  /\ n + Len(s) + 1 \in DOMAIN W /\ x = W[n + Len(s) + 1] => Fits(Append(s, x), n, W, {})
         /\ Fits(Append(s, x), n, W, {x})
<1>1. /\ Len(s) \in Nat /\ DOMAIN Append(s, x) = 1..(Len(s) + 1) /\ Append(s, x)[Len(s) + 1] = x
      /\ \A j \in 1..Len(s) : Append(s, x)[j] = s[j]
  OBVIOUS
<1>2. \A j \in 1..Len(s) : n + j \in DOMAIN W /\ s[j] = W[n + j]
  BY FitsAll
<1>3. \A j \in 1..(Len(s) + 1) : j \in 1..Len(s) \/ j = Len(s) + 1
  BY <1>1
<1>4. n + (Len(s) + 1) = n + Len(s) + 1
  BY <1>1
<1>5. \A j \in 1..(Len(s) + 1) : j >= Len(s) + 1 => Append(s, x)[j] = x
  <2> SUFFICES ASSUME NEW j \in 1..(Len(s) + 1), j >= Len(s) + 1 PROVE j = Len(s) + 1
    BY <1>1
  <2> QED  BY <1>1
<1>6. ASSUME n + Len(s) + 1 \in DOMAIN W, x = W[n + Len(s) + 1] PROVE Fits(Append(s, x), n, W, {})
  BY <1>1, <1>2, <1>3, <1>4, <1>6 DEF Fits
<1>7. Fits(Append(s, x), n, W, {x})
  BY <1>1, <1>2, <1>3, <1>5 DEF Fits
<1> QED  BY <1>6, <1>7

\* Marks may appear later.
LEMMA FitsMore ==
  ASSUME NEW s, NEW n, NEW W, NEW marks, NEW more, marks \subseteq more, Fits(s, n, W, marks)
  PROVE  Fits(s, n, W, more)
  BY DEF Fits

\* A stream that is another one after some items.
LEMMA FitsShift ==
  ASSUME NEW s \in Seq(Values), NEW n \in Nat, NEW m \in Nat, NEW W, NEW V, Fits(s, n, W, {}),
         \A i \in Nat \ {0} : n + i \in DOMAIN W => m + i \in DOMAIN V /\ V[m + i] = W[n + i]
  PROVE  Fits(s, m, V, {})
<1>1. \A j \in 1..Len(s) : n + j \in DOMAIN W /\ s[j] = W[n + j]
  BY FitsAll
<1>2. \A j \in 1..Len(s) : j \in Nat \ {0}
  OBVIOUS
<1>3. \A j \in 1..Len(s) : m + j \in DOMAIN V /\ s[j] = V[m + j]
  BY <1>1, <1>2
<1> QED  BY <1>3, FitsAll


\* Concatenation, item by item.
LEMMA ConcatIs ==
  ASSUME NEW s \in Seq(Values), NEW t \in Seq(Values)
  PROVE  /\ s \o t \in Seq(Values) /\ Len(s \o t) = Len(s) + Len(t)
         /\ DOMAIN (s \o t) = 1..(Len(s) + Len(t))
         /\ \A i \in 1..Len(s) : (s \o t)[i] = s[i]
         /\ \A i \in 1..Len(t) : (s \o t)[Len(s) + i] = t[i]
<1>1. Len(s) \in Nat /\ Len(t) \in Nat /\ s \o t \in Seq(Values) /\ Len(s \o t) = Len(s) + Len(t)
  OBVIOUS
<1>2. DOMAIN (s \o t) = 1..(Len(s) + Len(t)) /\ \A i \in 1..Len(s) : (s \o t)[i] = s[i]
  BY <1>1
<1>3. ASSUME NEW i \in 1..Len(t) PROVE (s \o t)[Len(s) + i] = t[i]
  <2>1. Len(s) + i \in 1..(Len(s) + Len(t)) /\ ~(Len(s) + i <= Len(s)) /\ (Len(s) + i) - Len(s) = i
    BY <1>1
  <2> QED  BY <1>1, <2>1
<1> QED  BY <1>1, <1>2, <1>3

\* The client's data with what is sent first.
LEMMA SentIs ==
  ASSUME CtlInv
  PROVE  /\ <<first>> \o Items \in Seq(Values) /\ Len(<<first>> \o Items) = N + 1 /\ N \in Nat
         /\ DOMAIN (<<first>> \o Items) = 1..(N + 1) /\ (<<first>> \o Items)[1] = first
         /\ \A i \in 1..N : (<<first>> \o Items)[i + 1] = Items[i]
<1>1. <<first>> \in Seq(Values) /\ Len(<<first>>) = 1 /\ <<first>>[1] = first
  <2>1. first \in Values
    BY DEF CtlInv, TypeInv, Values
  <2> QED  BY <2>1
<1>2. Items \in Seq(Values) /\ N \in Nat /\ Len(Items) = N
  BY ItemTypes DEF N
<1> QED  BY <1>1, <1>2, ConcatIs

\* The client's data without the request of a proxy protocol.
LEMMA PayloadIs ==
  ASSUME CtlInv
  PROVE  /\ Payload \in Seq(Values) /\ DOMAIN Payload = 1..Len(Payload)
         /\ N \in Nat /\ Len(Payload) \in Nat
         /\ first \in {"http", "tls"} => Len(Payload) = N + 1 /\ Payload = <<first>> \o Items
         /\ first \notin {"http", "tls"} => Payload = Items /\ Len(Payload) = N
         /\ \A i \in 1..Len(Payload) : Payload[i] \notin Words \ {"http", "tls"}
<1>1. Items \in Seq(Values) /\ N \in Nat /\ Len(Items) = N
  BY ItemTypes DEF N
<1>2. CASE first \in {"http", "tls"}
  <2>1. Payload = <<first>> \o Items
    BY <1>2 DEF Payload
  <2>2. /\ Payload \in Seq(Values) /\ Len(Payload) = N + 1 /\ DOMAIN Payload = 1..(N + 1)
        /\ Payload[1] = first /\ \A i \in 1..N : Payload[i + 1] = Items[i]
    BY <2>1, SentIs
  <2>3. \A i \in 1..(N + 1) : i = 1 \/ (i - 1 \in 1..N /\ (i - 1) + 1 = i)
    BY <1>1
  <2>4. \A i \in 1..(N + 1) : Payload[i] \notin Words \ {"http", "tls"}
    BY <1>2, <2>2, <2>3, ItemTypes
  <2> QED  BY <1>1, <1>2, <2>1, <2>2, <2>4
<1>3. CASE first \notin {"http", "tls"}
  <2>1. Payload = <<>> \o Items
    BY <1>3 DEF Payload
  <2>2. Payload = Items
    BY <1>1, <2>1
  <2> QED  BY <1>1, <1>3, <2>2, ItemTypes
<1> QED  BY <1>2, <1>3

\* What goes to the strategy, or to the target.
LEMMA ToStrategyIs ==
  ASSUME CtlInv
  PROVE  /\ ToStrategy \in Seq(Values) /\ DOMAIN ToStrategy = 1..Len(ToStrategy)
         /\ mid = "direct" \/ first = "tls" => ToStrategy = Payload
         /\ mid # "direct" /\ first # "tls" =>
               /\ Len(ToStrategy) = Len(Payload) + 2
               /\ ToStrategy[1] = "hello" /\ ToStrategy[2] = "socks"
               /\ \A i \in 1..Len(Payload) : ToStrategy[i + 2] = Payload[i]
<1>1. Payload \in Seq(Values) /\ DOMAIN Payload = 1..Len(Payload) /\ Len(Payload) \in Nat
  BY PayloadIs
<1>2. CASE mid = "direct" \/ first = "tls"
  <2>1. ToStrategy = <<>> \o Payload
    BY <1>2 DEF ToStrategy
  <2>2. ToStrategy = Payload
    BY <1>1, <2>1
  <2> QED  BY <1>1, <1>2, <2>2
<1>3. CASE mid # "direct" /\ first # "tls"
  <2> DEFINE s == <<"hello", "socks">>
  <2>1. ToStrategy = s \o Payload
    BY <1>3 DEF ToStrategy
  <2>2. s \in Seq(Values) /\ Len(s) = 2 /\ s[1] = "hello" /\ s[2] = "socks"
    <3>1. "hello" \in Values /\ "socks" \in Values
      BY WordTypes DEF Words
    <3> QED  BY <3>1
  <2> HIDE DEF s
  <2>3. /\ s \o Payload \in Seq(Values) /\ Len(s \o Payload) = Len(s) + Len(Payload)
        /\ DOMAIN (s \o Payload) = 1..(Len(s) + Len(Payload))
        /\ \A i \in 1..Len(s) : (s \o Payload)[i] = s[i]
        /\ \A i \in 1..Len(Payload) : (s \o Payload)[Len(s) + i] = Payload[i]
    BY <1>1, <2>2, ConcatIs
  <2>4. 1 \in 1..2 /\ 2 \in 1..2 /\ 2 + Len(Payload) = Len(Payload) + 2
        /\ \A i \in 1..Len(Payload) : 2 + i = i + 2
    BY <1>1
  <2> QED  BY <1>1, <1>3, <2>1, <2>2, <2>3, <2>4
<1> QED  BY <1>2, <1>3

\* What goes to the strategy's server.
LEMMA ToRemoteIs ==
  ASSUME CtlInv
  PROVE  /\ ToRemote \in Seq(Values) /\ DOMAIN ToRemote = 1..(Len(Payload) + 1)
         /\ Len(Payload) \in Nat
         /\ ToRemote[1] = IF kind = "worker" THEN "new" ELSE "hdr"
         /\ \A i \in 1..Len(Payload) : ToRemote[i + 1] = Payload[i]
<1> DEFINE x == IF kind = "worker" THEN "new" ELSE "hdr"
           s == <<x>>
<1>1. Payload \in Seq(Values) /\ DOMAIN Payload = 1..Len(Payload) /\ Len(Payload) \in Nat
  BY PayloadIs
<1>2. x \in Values
  BY WordTypes DEF Words
<1>3. ToRemote = s \o Payload
  BY DEF ToRemote
<1> HIDE DEF x
<1>4. s \in Seq(Values) /\ Len(s) = 1 /\ s[1] = x
  BY <1>2
<1> HIDE DEF s
<1>5. /\ s \o Payload \in Seq(Values) /\ DOMAIN (s \o Payload) = 1..(Len(s) + Len(Payload))
      /\ \A i \in 1..Len(s) : (s \o Payload)[i] = s[i]
      /\ \A i \in 1..Len(Payload) : (s \o Payload)[Len(s) + i] = Payload[i]
  BY <1>1, <1>4, ConcatIs
<1>6. 1 \in 1..1 /\ 1 + Len(Payload) = Len(Payload) + 1 /\ \A i \in 1..Len(Payload) : 1 + i = i + 1
  BY <1>1
<1> QED  BY <1>1, <1>3, <1>4, <1>5, <1>6 DEF x


-----------------------------------------------------------------------------
(* The way up.                                                              *)

\* Numbers of items.
LEMMA UpNumbers ==
  ASSUME CtlInv
  PROVE  /\ Len(rgot) \in Nat /\ One(ready) \in {0, 1} /\ (ready <=> One(ready) = 1)
         /\ \A d \in Dirs : q[d] \in Seq(Values) /\ Len(q[d]) \in Nat
         /\ Uploaded \in Nat /\ Passed \in Nat /\ Written \in Nat
         /\ Uploaded = 0 <=> rgot = <<>> /\ ~ready /\ q["br"] = <<>>
<1>1. rgot \in Seq(Values) /\ \A d \in Dirs : q[d] \in Seq(Values)
  BY DEF CtlInv, QueueInv
<1>2. Len(rgot) \in Nat /\ (Len(rgot) = 0 <=> rgot = <<>>)
  BY <1>1
<1>3. \A d \in Dirs : Len(q[d]) \in Nat /\ (Len(q[d]) = 0 <=> q[d] = <<>>)
  BY <1>1
<1>4. One(ready) \in {0, 1} /\ (ready <=> One(ready) = 1)
  BY DEF One, CtlInv, TypeInv
<1>5. "br" \in Dirs /\ "gb" \in Dirs
  BY DEF Dirs
<1>6. Uploaded \in Nat /\ (Uploaded = 0 <=> rgot = <<>> /\ ~ready /\ q["br"] = <<>>)
  BY <1>2, <1>3, <1>4, <1>5 DEF Uploaded
<1>7. Passed \in Nat
  BY <1>2, <1>6 DEF Passed
<1>8. Written \in Nat
  BY <1>3, <1>5, <1>7 DEF Written
<1> QED  BY <1>1, <1>2, <1>3, <1>4, <1>6, <1>7, <1>8

\* The streams are the same as long as the connection is.
LEMMA SameStreams ==
  ASSUME UNCHANGED <<first, kind>>, mid' = "direct" <=> mid = "direct"
  PROVE  Payload' = Payload /\ ToStrategy' = ToStrategy /\ ToRemote' = ToRemote
  BY DEF Payload, ToStrategy, ToRemote

\* A step that closes, or that the way up has nothing to do with.
LEMMA UpStays ==
  ASSUME CtlInv, CtlInv', UpInv, UpQuiet PROVE UpInv'
<1>1. /\ UNCHANGED <<first, mid, kind, ready, csent, rgot>> /\ g' \in {g, "done"} /\ b' \in {b, "done"}
      /\ fin \subseteq fin' /\ deaf \subseteq deaf'
      /\ \A d \in {"cg", "gb", "br"} : q'[d] = q[d] \/ (q'[d] = <<>> /\ d \in deaf')
  BY DEF UpQuiet, Shrinks, Stays
<1>2. Payload' = Payload /\ ToStrategy' = ToStrategy /\ ToRemote' = ToRemote
  BY <1>1, SameStreams
<1>3. RemoteInv'
  <2>1. Fits(rgot', 0, Payload', {}) /\ (mid' # "direct" => (~ready' => rgot' = <<>>))
    BY <1>1, <1>2 DEF UpInv, RemoteInv
  <2>2. ASSUME mid # "direct"
        PROVE  Fits(q'["br"], Len(rgot) + One(ready), ToRemote, IF "br" \in fin' THEN {"close"} ELSE {})
    <3>1. Fits(q["br"], Len(rgot) + One(ready), ToRemote, IF "br" \in fin' THEN {"close"} ELSE {})
      BY <1>1, <2>2, FitsMore DEF UpInv, RemoteInv
    <3> QED  BY <1>1, <3>1, FitsEmpty
  <2>3. (Len(rgot) + One(ready))' = Len(rgot) + One(ready)
    BY <1>1
  <2> QED  BY <1>1, <1>2, <2>1, <2>2, <2>3 DEF RemoteInv
<1>4. UpOpen' => UpOpen /\ Passed' = Passed /\ (q'["br"] = q["br"] \/ mid = "direct")
  BY <1>1 DEF UpOpen, Broken, Passed, Uploaded
<1>5. StrategyInv'
  <2>1. UpOpen' => Fits(q'["gb"], Passed', ToStrategy', {})
    BY <1>1, <1>2, <1>4, FitsEmpty DEF UpInv, StrategyInv
  <2>2. "first" \in bcopy' => Uploaded' = 0
    <3> SUFFICES ASSUME "first" \in bcopy' PROVE Uploaded' = 0
      OBVIOUS
    <3>1. rgot = <<>> /\ ~ready /\ q["br"] = <<>>
      BY UpNumbers DEF UpInv, StrategyInv, UpQuiet
    <3>2. rgot' = <<>> /\ ~ready' /\ q'["br"] = <<>>
      BY <1>1, <3>1
    <3> QED  BY <3>2 DEF Uploaded, One
  <2>3. (mid # "direct" /\ b \in {"success", "copy"} /\ "first" \notin bcopy =>
            Uploaded > 0 \/ Broken("br"))'
    <3> SUFFICES ASSUME mid # "direct", b' \in {"success", "copy"}, "first" \notin bcopy',
                        "br" \notin fin' \cup deaf'
                 PROVE  Uploaded' > 0
      BY <1>1 DEF Broken
    <3>1. "first" \notin bcopy /\ b' = b /\ "br" \notin fin \cup deaf
      BY <1>1 DEF UpQuiet, Broken
    <3>2. Uploaded > 0
      BY <1>1, <3>1 DEF UpInv, StrategyInv, Broken
    <3>3. Uploaded' = Uploaded
      BY <1>1 DEF Uploaded
    <3> QED  BY <3>2, <3>3
  <2>4. (mid # "direct" /\ first = "tls" => b \in {"out", "accepted", "hello", "done"})'
    BY <1>1 DEF UpInv, StrategyInv
  <2> QED  BY <2>1, <2>2, <2>3, <2>4 DEF StrategyInv
<1>6. GatewayInv'
  <2>1. g' # "done" => g' = g /\ q'["cg"] = q["cg"]
    BY <1>1 DEF CtlInv, LoopInv
  <2>2. (g \in Early \cup {"method", "reply"} =>
          /\ Fits(q["cg"], 0, <<first>> \o Items, {})
          /\ "cg" \notin fin => Len(q["cg"]) = csent + 1)'
    BY <1>1, <2>1 DEF UpInv, GatewayInv, Early
  <2>3. UpOpen' /\ (~Broken("gb"))' => UpOpen /\ ~Broken("gb") /\ Written' = Written
    BY <1>1, <1>4 DEF Broken, Written
  <2>4. (UpOpen /\ ~Broken("gb") =>
          /\ g = "method" => Written = 1
          /\ g = "reply" => Written = 2
          /\ g = "copy" =>
                /\ Fits(q["cg"], Written, ToStrategy, {})
                /\ "cg" \notin fin => Written + Len(q["cg"]) = Len(ToStrategy) - N + csent)'
    BY <1>1, <1>2, <2>1, <2>3 DEF UpInv, GatewayInv
  <2> QED  BY <2>2, <2>4 DEF GatewayInv
<1> QED  BY <1>3, <1>5, <1>6 DEF UpInv


\* A step of the gateway or the client leaves what is behind the gateway's connection.
LEMMA UpperStays ==
  ASSUME CtlInv, UpInv, UNCHANGED <<fin, deaf, strategy, remote, first>>, q'["br"] = q["br"],
         mid' = "direct" <=> mid = "direct"
  PROVE  /\ RemoteInv' /\ (UpOpen' <=> UpOpen) /\ Passed' = Passed
         /\ Payload' = Payload /\ ToStrategy' = ToStrategy
         /\ (UpOpen => Fits(q'["gb"], Passed, ToStrategy, {})) => StrategyInv'
<1>1. UNCHANGED <<first, kind, b, bcopy, ready, rgot, fin, deaf>>
  BY DEF strategy, remote
<1>2. Payload' = Payload /\ ToStrategy' = ToStrategy /\ ToRemote' = ToRemote
  BY <1>1, SameStreams
<1>3. Uploaded' = Uploaded /\ (Broken("br"))' = Broken("br")
  BY <1>1 DEF Uploaded, One, Broken
<1>4. Passed' = Passed /\ (UpOpen' <=> UpOpen)
  BY <1>1, <1>3 DEF Passed, UpOpen
<1>5. RemoteInv'
  BY <1>1, <1>2 DEF UpInv, RemoteInv, One
<1>6. (UpOpen => Fits(q'["gb"], Passed, ToStrategy, {})) => StrategyInv'
  BY <1>1, <1>2, <1>3, <1>4 DEF UpInv, StrategyInv
<1> QED  BY <1>2, <1>4, <1>5, <1>6

\* The gateway's handler goes on before it has dialled.
LEMMA UpSniffs ==
  ASSUME CtlInv, UpInv, UNCHANGED <<links, mid, strategy, client, remote>>,
         g \in Early, g' \in Early
  PROVE  UpInv'
<1>1. UNCHANGED <<fin, deaf, strategy, remote, first, csent, q, mid>>
  BY DEF links, client
<1>2. RemoteInv' /\ StrategyInv'
  BY <1>1, UpperStays DEF UpInv, StrategyInv
<1>3. GatewayInv'
  BY <1>1 DEF UpInv, GatewayInv, Early
<1> QED  BY <1>2, <1>3 DEF UpInv

\* Before the gateway dials there is nothing behind it.
LEMMA UpBefore ==
  ASSUME CtlInv, g = "dial"
  PROVE  /\ mid = "none" /\ b = "out" /\ rgot = <<>> /\ ~ready /\ bcopy = {}
         /\ q["gb"] = <<>> /\ q["br"] = <<>> /\ csent >= 0 /\ "gb" \notin fin /\ "br" \notin fin \cup deaf
         /\ "cg" \notin deaf /\ first \in Protocols
  BY DEF CtlInv, PlaceInv, EmptyInv, LoopInv, FirstInv, Early, Before, Broken

\* DIRECT: the target gets the client's data.
LEMMA UpDials ==
  ASSUME CtlInv, CtlInv', UpInv, DirectDial, UNCHANGED <<strategy, client, remote>>,
         first \notin {"socks", "connect"}
  PROVE  UpInv'
<1>1. /\ g = "dial" /\ g' = "copy" /\ mid' = "direct"
      /\ UNCHANGED <<q, fin, deaf, b, bcopy, kind, first, csent, rgot, ready>>
  BY DEF DirectDial, GGoto, links, strategy, client, remote
<1>2. /\ mid = "none" /\ b = "out" /\ rgot = <<>> /\ ~ready /\ bcopy = {} /\ q["gb"] = <<>>
      /\ first \in {"http", "tls"}
  BY <1>1, UpBefore DEF Protocols
<1>3. Payload' = <<first>> \o Items /\ ToStrategy' = <<first>> \o Items
  <2>1. Payload' = <<first>> \o Items
    BY <1>1, <1>2 DEF Payload
  <2>2. ToStrategy' = <<>> \o (<<first>> \o Items)
    BY <1>1, <2>1 DEF ToStrategy
  <2>3. <<first>> \o Items \in Seq(Values)
    BY SentIs
  <2>4. \A s \in Seq(Values) : <<>> \o s = s
    OBVIOUS
  <2> QED  BY <2>1, <2>2, <2>3, <2>4
<1>4. Passed' = 0 /\ Written' = 0
  BY <1>1, <1>2 DEF Passed, Written
<1>5. RemoteInv' /\ StrategyInv'
  <2>1. Fits(<<>>, 0, Payload', {}) /\ Fits(<<>>, Passed', ToStrategy', {})
    BY FitsEmpty
  <2> QED  BY <1>1, <1>2, <2>1 DEF RemoteInv, StrategyInv
<1>6. GatewayInv'
  <2>1. /\ Fits(q["cg"], 0, <<first>> \o Items, {}) /\ ("cg" \notin fin => Len(q["cg"]) = csent + 1)
    BY <1>1 DEF UpInv, GatewayInv, Early
  <2>2. N \in Nat /\ Len(ToStrategy') = N + 1 /\ csent \in Int
    BY <1>3, SentIs DEF CtlInv, TypeInv
  <2>3. Len(q["cg"]) \in Nat
    BY UpNumbers DEF Dirs
  <2>4. Fits(q'["cg"], Written', ToStrategy', {})
    BY <1>1, <1>3, <1>4, <2>1
  <2>5. ("cg" \notin fin => Written + Len(q["cg"]) = Len(ToStrategy) - N + csent)'
    BY <1>1, <1>4, <2>1, <2>2, <2>3
  <2> QED  BY <1>1, <2>4, <2>5 DEF GatewayInv, Early
<1> QED  BY <1>5, <1>6 DEF UpInv


\* TLS goes as it is to the strategy.
LEMMA UpForwards ==
  ASSUME CtlInv, UpInv, forwardTCP, UNCHANGED <<strategy, client, remote>>
  PROVE  UpInv'
<1>1. /\ g = "dial" /\ g' = "copy" /\ mid' = "pending" /\ proto = "tls"
      /\ UNCHANGED <<q, fin, deaf, strategy, remote, first, csent, b>>
  BY DEF forwardTCP, GGoto, links, client, strategy
<1>2. mid = "none" /\ b = "out" /\ q["gb"] = <<>> /\ first = "tls"
  BY <1>1, UpBefore DEF CtlInv, PlaceInv
<1>3. Payload = <<first>> \o Items /\ ToStrategy = Payload
  BY <1>2, PayloadIs, ToStrategyIs
<1>4. Passed = 0
  BY <1>2 DEF Passed
<1>5. RemoteInv' /\ StrategyInv' /\ Passed' = Passed /\ ToStrategy' = ToStrategy
  BY <1>1, <1>2, UpperStays DEF UpInv, StrategyInv
<1>6. Written' = 0
  BY <1>1, <1>2, <1>4, <1>5 DEF Written
<1>7. GatewayInv'
  <2>1. /\ Fits(q["cg"], 0, <<first>> \o Items, {}) /\ ("cg" \notin fin => Len(q["cg"]) = csent + 1)
    BY <1>1 DEF UpInv, GatewayInv, Early
  <2>2. N \in Nat /\ Len(ToStrategy) = N + 1 /\ csent \in Int /\ Len(q["cg"]) \in Nat
    BY <1>3, SentIs, UpNumbers DEF CtlInv, TypeInv, Dirs
  <2>3. Fits(q'["cg"], Written', ToStrategy', {})
    BY <1>1, <1>3, <1>5, <1>6, <2>1
  <2>4. ("cg" \notin fin => Written + Len(q["cg"]) = Len(ToStrategy) - N + csent)'
    BY <1>1, <1>5, <1>6, <2>1, <2>2
  <2> QED  BY <1>1, <2>3, <2>4 DEF GatewayInv, Early
<1> QED  BY <1>5, <1>7 DEF UpInv

\* The gateway asks for a method.
LEMMA UpAsks ==
  ASSUME CtlInv, UpInv, forwardSocks5 \/ dialSocksProxy, UNCHANGED <<strategy, client, remote>>
  PROVE  UpInv'
<1>1. /\ g = "dial" /\ g' = "method" /\ mid' = "pending" /\ proto # "tls"
      /\ q' = Put(q, "gb", "hello") /\ UNCHANGED <<fin, deaf, strategy, remote, first, csent, b>>
  BY DEF forwardSocks5, dialSocksProxy, GGoto, Set, client, strategy
<1>2. mid = "none" /\ b = "out" /\ q["gb"] = <<>> /\ first # "tls"
  BY <1>1, UpBefore DEF CtlInv, PlaceInv
<1>3. /\ \A o \in Dirs : o # "gb" => q'[o] = q[o]
      /\ q'["gb"] = IF "gb" \in fin \cup deaf THEN q["gb"] ELSE Append(q["gb"], "hello")
  <2>1. QueueInv /\ "gb" \in Dirs /\ "hello" \in Values
    BY WordTypes DEF Words, Dirs, CtlInv
  <2> QED  BY <1>1, <2>1, WriteQ
<1>4. Passed = 0 /\ q'["cg"] = q["cg"] /\ q'["br"] = q["br"] /\ "hello" \in Values
  BY <1>2, <1>3, WordTypes DEF Passed, Dirs, Words
<1>5. Fits(q'["gb"], 0, ToStrategy, {})
  <2>1. Fits(<<>>, 0, ToStrategy, {}) /\ <<>> \in Seq(Values)
    BY FitsEmpty
  <2>2. 1 \in DOMAIN ToStrategy /\ ToStrategy[1] = "hello"
    <3>1. /\ DOMAIN ToStrategy = 1..Len(ToStrategy) /\ Len(ToStrategy) = Len(Payload) + 2
          /\ ToStrategy[1] = "hello"
      BY <1>2, ToStrategyIs
    <3>2. Len(Payload) \in Nat
      BY PayloadIs
    <3> QED  BY <3>1, <3>2
  <2>3. Fits(Append(<<>>, "hello"), 0, ToStrategy, {})
    <3>1. 0 + Len(<<>>) + 1 = 1
      OBVIOUS
    <3> QED  BY <1>4, <2>1, <2>2, <3>1, FitsPut
  <2> QED  BY <1>2, <1>3, <2>1, <2>3
<1>6. RemoteInv' /\ StrategyInv' /\ Passed' = 0
  BY <1>1, <1>2, <1>4, <1>5, UpperStays
<1>7. (~Broken("gb"))' => Written' = 1
  <2>1. Len(Append(<<>>, "hello")) = 1
    OBVIOUS
  <2>2. (~Broken("gb"))' => Len(q'["gb"]) = 1
    BY <1>1, <1>2, <1>3, <2>1 DEF Broken
  <2> QED  BY <1>6, <2>2 DEF Written
<1>8. GatewayInv'
  BY <1>1, <1>4, <1>7 DEF UpInv, GatewayInv, Early
<1> QED  BY <1>6, <1>8 DEF UpInv


\* The strategy's method is known: the client's SOCKS5 request follows, from its reader.
LEMMA UpShakes ==
  ASSUME CtlInv, UpInv, handleSocks5BackendHandshake, UNCHANGED <<strategy, client, remote>>
  PROVE  UpInv'
<1>1. /\ g = "method" /\ g' = "copy" /\ proto = "socks" /\ q["bg"] # <<>> /\ q' = Take(q, "bg")
      /\ UNCHANGED <<fin, deaf, strategy, remote, first, csent, mid>>
  BY DEF handleSocks5BackendHandshake, GGoto, Set, Heard, Arrived, client
<1>2. mid # "none" /\ mid # "direct" /\ first = "socks"
  BY <1>1 DEF CtlInv, PlaceInv, Early
<1>3. \A o \in Dirs : o # "bg" => q'[o] = q[o]
  BY <1>1, TakeQ DEF CtlInv, QueueInv, Dirs
<1>4. q'["cg"] = q["cg"] /\ q'["br"] = q["br"] /\ q'["gb"] = q["gb"]
  BY <1>3 DEF Dirs
<1>5. RemoteInv' /\ StrategyInv' /\ Passed' = Passed /\ ToStrategy' = ToStrategy /\ (UpOpen' <=> UpOpen)
  BY <1>1, <1>4, UpperStays DEF UpInv, StrategyInv
<1>6. Written' = Written
  BY <1>4, <1>5 DEF Written
<1>7. GatewayInv'
  <2> SUFFICES ASSUME UpOpen, ~Broken("gb")
               PROVE  /\ Fits(q["cg"], 1, ToStrategy, {})
                      /\ "cg" \notin fin => 1 + Len(q["cg"]) = Len(ToStrategy) - N + csent
    <3>1. UpOpen' /\ (~Broken("gb"))' => UpOpen /\ ~Broken("gb") /\ Written' = 1
      BY <1>1, <1>5, <1>6 DEF UpInv, GatewayInv, Broken
    <3> QED  BY <1>1, <1>4, <1>5, <3>1 DEF GatewayInv, Early
  <2>1. /\ Fits(q["cg"], 0, <<first>> \o Items, {}) /\ ("cg" \notin fin => Len(q["cg"]) = csent + 1)
    BY <1>1 DEF UpInv, GatewayInv
  <2>2. N \in Nat /\ csent \in Int /\ Len(q["cg"]) \in Nat /\ q["cg"] \in Seq(Values)
    BY SentIs, UpNumbers DEF CtlInv, TypeInv, Dirs
  <2>3. Payload = Items /\ Len(Payload) = N
    BY <1>2, PayloadIs
  <2>4. /\ Len(ToStrategy) = N + 2 /\ DOMAIN ToStrategy = 1..(N + 2) /\ ToStrategy[2] = "socks"
        /\ \A i \in 1..N : ToStrategy[i + 2] = Items[i]
    BY <1>2, <2>3, ToStrategyIs
  <2>5. /\ DOMAIN (<<first>> \o Items) = 1..(N + 1) /\ (<<first>> \o Items)[1] = "socks"
        /\ \A i \in 1..N : (<<first>> \o Items)[i + 1] = Items[i]
    BY <1>2, SentIs
  <2> DEFINE W == <<first>> \o Items
  <2>6. \A i \in Nat \ {0} : 0 + i \in DOMAIN W => 1 + i \in DOMAIN ToStrategy /\ ToStrategy[1 + i] = W[0 + i]
    <3> HIDE DEF W
    <3> SUFFICES ASSUME NEW i \in Nat \ {0}, 0 + i \in DOMAIN W
                 PROVE  1 + i \in DOMAIN ToStrategy /\ ToStrategy[1 + i] = W[0 + i]
      OBVIOUS
    <3>1. i \in 1..(N + 1) /\ 0 + i = i
      <4>1. 0 + i = i
        OBVIOUS
      <4> QED  BY <2>5, <4>1 DEF W
    <3>2. CASE i = 1
      BY <2>2, <2>4, <2>5, <3>1, <3>2 DEF W
    <3>3. CASE i # 1
      <4>1. i - 1 \in 1..N /\ (i - 1) + 2 = 1 + i /\ (i - 1) + 1 = i /\ 1 + i \in 1..(N + 2)
        BY <2>2, <3>1, <3>3
      <4>2. ToStrategy[1 + i] = Items[i - 1] /\ W[i] = Items[i - 1]
        BY <2>4, <2>5, <4>1 DEF W
      <4> QED  BY <2>4, <3>1, <4>1, <4>2
    <3> QED  BY <3>2, <3>3
  <2>7. Fits(q["cg"], 1, ToStrategy, {})
    BY <2>1, <2>2, <2>6, FitsShift, ZenonT(40)
  <2> QED  BY <2>1, <2>2, <2>4, <2>7
<1> QED  BY <1>5, <1>7 DEF UpInv

\* The request for what the client asked with HTTP.
LEMMA UpRequests ==
  ASSUME CtlInv, UpInv, ConnectRequest, UNCHANGED <<strategy, client, remote>>
  PROVE  UpInv'
<1>1. /\ g = "method" /\ g' = "reply" /\ q["bg"] # <<>> /\ q' = Put(Take(q, "bg"), "gb", "socks")
      /\ UNCHANGED <<fin, deaf, strategy, remote, first, csent, mid>>
  BY DEF ConnectRequest, GGoto, Set, Heard, Arrived, client
<1>2. mid # "none" /\ mid # "direct" /\ first # "tls"
  BY <1>1 DEF CtlInv, PlaceInv, Early
<1>3. QueueInv /\ "bg" \in Dirs /\ "gb" \in Dirs /\ "socks" \in Values /\ q["gb"] \in Seq(Values)
  BY WordTypes DEF Words, Dirs, CtlInv, QueueInv
<1>4. /\ \A o \in Dirs : o # "bg" /\ o # "gb" => q'[o] = q[o]
      /\ q'["gb"] = IF "gb" \in fin \cup deaf THEN q["gb"] ELSE Append(q["gb"], "socks")
  BY <1>1, <1>3, MoveQ
<1>5. q'["cg"] = q["cg"] /\ q'["br"] = q["br"]
  BY <1>4 DEF Dirs
<1>6. Len(q["gb"]) \in Nat /\ Passed \in Nat
  BY <1>3, UpNumbers
<1>7. UpOpen /\ ~Broken("gb") => Passed + Len(q["gb"]) = 1
  BY <1>1 DEF UpInv, GatewayInv, Written
<1>8. UpOpen => Fits(q'["gb"], Passed, ToStrategy, {})
  <2> SUFFICES ASSUME UpOpen, "gb" \notin fin \cup deaf
               PROVE  Fits(Append(q["gb"], "socks"), Passed, ToStrategy, {})
    BY <1>4 DEF UpInv, StrategyInv
  <2>1. Passed + Len(q["gb"]) + 1 = 2
    BY <1>6, <1>7 DEF Broken
  <2>2. 2 \in DOMAIN ToStrategy /\ ToStrategy[2] = "socks"
    <3>1. /\ DOMAIN ToStrategy = 1..Len(ToStrategy) /\ Len(ToStrategy) = Len(Payload) + 2
          /\ ToStrategy[2] = "socks"
      BY <1>2, ToStrategyIs
    <3>2. Len(Payload) \in Nat
      BY PayloadIs
    <3> QED  BY <3>1, <3>2
  <2>3. Fits(q["gb"], Passed, ToStrategy, {})
    BY DEF UpInv, StrategyInv
  <2> QED  BY <1>3, <1>6, <2>1, <2>2, <2>3, FitsPut
<1>9. RemoteInv' /\ StrategyInv' /\ Passed' = Passed /\ (UpOpen' <=> UpOpen)
  BY <1>1, <1>5, <1>8, UpperStays
<1>10. (UpOpen /\ ~Broken("gb"))' => Written' = 2
  <2>1. Len(Append(q["gb"], "socks")) = Len(q["gb"]) + 1
    BY <1>3
  <2> QED  BY <1>1, <1>4, <1>6, <1>7, <1>9, <2>1 DEF Written, Broken
<1>11. GatewayInv'
  BY <1>1, <1>5, <1>10 DEF UpInv, GatewayInv, Early
<1> QED  BY <1>9, <1>11 DEF UpInv


\* The queues when dialSocksProxy is done.
LEMMA ConnectedQ ==
  ASSUME CtlInv, HttpConnected
  PROVE  /\ g = "reply" /\ g' = "copy" /\ UNCHANGED <<fin, deaf, mid>> /\ proto \in {"connect", "http"}
         /\ mid # "none" /\ mid # "direct" /\ first = proto
         /\ q["bg"] # <<>> /\ Head(q["bg"]) = "ok" /\ q["cg"] # <<>>
         /\ q'["bg"] = Tail(q["bg"]) /\ q'["cg"] = Tail(q["cg"])
         /\ q'["br"] = q["br"] /\ q'["rb"] = q["rb"]
         /\ q'["gc"] = IF proto = "http" \/ Broken("gc") THEN q["gc"] ELSE Append(q["gc"], "ok")
         /\ q'["gb"] = IF proto = "connect" \/ Broken("gb") THEN q["gb"] ELSE Append(q["gb"], "http")
<1> DEFINE R == Take(Take(q, "bg"), "cg")
<1>1. /\ g = "reply" /\ g' = "copy" /\ UNCHANGED <<fin, deaf, mid>> /\ q["bg"] # <<>>
      /\ Head(q["bg"]) = "ok"
      /\ q' = IF proto = "connect" THEN Put(R, "gc", "ok") ELSE Put(R, "gb", "http")
  BY DEF HttpConnected, GGoto, Heard, Arrived, Set
<1>2. /\ mid # "none" /\ mid # "direct" /\ proto \in {"connect", "http"} /\ first = proto
      /\ q["cg"] # <<>>
  <2>1. mid # "none" /\ mid # "direct" /\ proto \in {"connect", "http"} /\ first = proto
    BY <1>1 DEF CtlInv, PlaceInv, Early
  <2>2. csent >= 0
    BY <1>1 DEF CtlInv, FirstInv
  <2>3. csent # -1
    BY <2>2
  <2> QED  BY <1>1, <2>1, <2>3 DEF CtlInv, FirstInv
<1>3. /\ q \in [Dirs -> Seq(Values)] /\ "bg" \in Dirs /\ "cg" \in Dirs /\ "gb" \in Dirs /\ "gc" \in Dirs
      /\ "br" \in Dirs /\ "rb" \in Dirs /\ "ok" \in Values /\ "http" \in Values
  BY WordTypes DEF Words, Dirs, CtlInv, QueueInv
<1>4. /\ Take(q, "bg") \in [Dirs -> Seq(Values)]
      /\ \A o \in Dirs : Take(q, "bg")[o] = IF o = "bg" THEN Tail(q["bg"]) ELSE q[o]
  BY <1>1, <1>3, TakeQ
<1>5. /\ R \in [Dirs -> Seq(Values)] /\ R["bg"] = Tail(q["bg"]) /\ R["cg"] = Tail(q["cg"])
      /\ \A o \in {"gb", "gc", "br", "rb"} : R[o] = q[o]
  <2>1. Take(q, "bg")["cg"] = q["cg"]
    BY <1>3, <1>4
  <2>2. /\ R \in [Dirs -> Seq(Values)]
        /\ \A o \in Dirs : R[o] = IF o = "cg" THEN Tail(Take(q, "bg")["cg"]) ELSE Take(q, "bg")[o]
    <3> HIDE DEF R
    <3> DEFINE Q == Take(q, "bg")
    <3>1. Q \in [Dirs -> Seq(Values)] /\ Q["cg"] # <<>> /\ R = Take(Q, "cg")
      BY <1>2, <1>4, <2>1 DEF R
    <3> HIDE DEF Q
    <3>2. R \in [Dirs -> Seq(Values)] /\ \A o \in Dirs : R[o] = IF o = "cg" THEN Tail(Q["cg"]) ELSE Q[o]
      BY <1>3, <3>1, TakeQ
    <3> QED  BY <3>2 DEF Q
  <2> HIDE DEF R
  <2> QED  BY <1>3, <1>4, <2>1, <2>2
<1> HIDE DEF R
<1>6. CASE proto = "connect"
  <2>1. q' = Put(R, "gc", "ok")
    BY <1>1, <1>6
  <2>2. /\ \A o \in Dirs : o # "gc" => Put(R, "gc", "ok")[o] = R[o]
        /\ Put(R, "gc", "ok")["gc"] =
              IF "gc" \in fin \cup deaf THEN R["gc"] ELSE Append(R["gc"], "ok")
    BY <1>3, <1>5 DEF Put
  <2> QED  BY <1>1, <1>2, <1>3, <1>5, <1>6, <2>1, <2>2 DEF Broken
<1>7. CASE proto = "http"
  <2>1. q' = Put(R, "gb", "http")
    BY <1>1, <1>7
  <2>2. /\ \A o \in Dirs : o # "gb" => Put(R, "gb", "http")[o] = R[o]
        /\ Put(R, "gb", "http")["gb"] =
              IF "gb" \in fin \cup deaf THEN R["gb"] ELSE Append(R["gb"], "http")
    BY <1>3, <1>5 DEF Put
  <2> QED  BY <1>1, <1>2, <1>3, <1>5, <1>7, <2>1, <2>2 DEF Broken
<1> QED  BY <1>2, <1>6, <1>7

\* The client's HTTP request is taken from its reader, or passed on.
LEMMA UpConnects ==
  ASSUME CtlInv, UpInv, HttpConnected, UNCHANGED <<strategy, client, remote>>
  PROVE  UpInv'
<1> DEFINE W == <<first>> \o Items
           k == IF proto = "connect" THEN 2 ELSE 3
<1>1. /\ g = "reply" /\ g' = "copy" /\ UNCHANGED <<fin, deaf, strategy, remote, first, csent, mid>>
      /\ mid # "direct" /\ first \in {"connect", "http"} /\ first = proto /\ q["cg"] # <<>>
      /\ q'["cg"] = Tail(q["cg"]) /\ q'["br"] = q["br"]
      /\ q'["gb"] = IF proto = "connect" \/ Broken("gb") THEN q["gb"] ELSE Append(q["gb"], "http")
  BY ConnectedQ DEF client
<1>2. /\ Len(q["gb"]) \in Nat /\ Passed \in Nat /\ q["gb"] \in Seq(Values) /\ N \in Nat /\ csent \in Int
      /\ q["cg"] \in Seq(Values) /\ "http" \in Values
  BY UpNumbers, SentIs, WordTypes DEF Dirs, Words, CtlInv, TypeInv
<1>3. UpOpen /\ ~Broken("gb") => Passed + Len(q["gb"]) = 2
  BY <1>1 DEF UpInv, GatewayInv, Written
<1>4. /\ Len(ToStrategy) = N + k /\ DOMAIN ToStrategy = 1..(N + k)
      /\ \A i \in 1..N : ToStrategy[i + k] = Items[i]
      /\ proto = "http" => ToStrategy[3] = "http"
  <2>1. /\ DOMAIN ToStrategy = 1..Len(ToStrategy) /\ Len(ToStrategy) = Len(Payload) + 2
        /\ \A i \in 1..Len(Payload) : ToStrategy[i + 2] = Payload[i]
    BY <1>1, ToStrategyIs
  <2>2. CASE proto = "connect"
    <3>1. Payload = Items /\ Len(Payload) = N
      BY <1>1, <2>2, PayloadIs
    <3> QED  BY <2>1, <2>2, <3>1
  <2>3. CASE proto = "http"
    <3>1. /\ Len(Payload) = N + 1 /\ Payload[1] = "http"
          /\ \A i \in 1..N : Payload[i + 1] = Items[i]
      BY <1>1, <2>3, PayloadIs, SentIs
    <3>2. \A i \in 1..N : i + 1 \in 1..(N + 1) /\ (i + 1) + 2 = i + 3
      BY <1>2
    <3>3. 1 \in 1..(N + 1) /\ 1 + 2 = 3 /\ (N + 1) + 2 = N + 3
      BY <1>2
    <3>4. Len(ToStrategy) = N + 3 /\ ToStrategy[3] = "http"
      BY <2>1, <3>1, <3>3
    <3>5. \A i \in 1..N : ToStrategy[i + 3] = Items[i]
      BY <2>1, <3>1, <3>2
    <3> QED  BY <2>1, <2>3, <3>4, <3>5
  <2> QED  BY <1>1, <2>2, <2>3
<1>5. UpOpen => Fits(q'["gb"], Passed, ToStrategy, {})
  <2>1. UpOpen => Fits(q["gb"], Passed, ToStrategy, {})
    BY DEF UpInv, StrategyInv
  <2>2. ASSUME UpOpen, proto = "http", ~Broken("gb")
        PROVE  Fits(Append(q["gb"], "http"), Passed, ToStrategy, {})
    <3>1. Passed + Len(q["gb"]) + 1 = 3 /\ 3 \in 1..(N + 3)
      BY <1>2, <1>3, <2>2
    <3>2. 3 \in DOMAIN ToStrategy /\ ToStrategy[3] = "http"
      BY <1>4, <2>2, <3>1
    <3> QED  BY <1>2, <2>1, <2>2, <3>1, <3>2, FitsPut
  <2> QED  BY <1>1, <2>1, <2>2
<1>6. /\ RemoteInv' /\ StrategyInv' /\ Passed' = Passed /\ (UpOpen' <=> UpOpen)
      /\ ToStrategy' = ToStrategy
  BY <1>1, <1>5, UpperStays
<1>7. (UpOpen /\ ~Broken("gb"))' => Written' = k
  <2>1. Len(Append(q["gb"], "http")) = Len(q["gb"]) + 1
    BY <1>2
  <2>2. (UpOpen /\ ~Broken("gb"))' => UpOpen /\ ~Broken("gb")
    BY <1>1, <1>6 DEF Broken
  <2> QED  BY <1>1, <1>2, <1>3, <1>6, <2>1, <2>2 DEF Written
<1>8. /\ Fits(q["cg"], 0, W, {}) /\ ("cg" \notin fin => Len(q["cg"]) = csent + 1)
  BY <1>1 DEF UpInv, GatewayInv
<1>9. /\ DOMAIN W = 1..(N + 1) /\ \A i \in 1..N : W[i + 1] = Items[i]
  BY SentIs
<1> HIDE DEF W
<1>10. Fits(Tail(q["cg"]), 1, W, {}) /\ Len(Tail(q["cg"])) = Len(q["cg"]) - 1
       /\ Tail(q["cg"]) \in Seq(Values) /\ Len(q["cg"]) \in Nat
  <2>1. 0 + 1 = 1 /\ 0 \in Nat
    OBVIOUS
  <2>2. Fits(Tail(q["cg"]), 0 + 1, W, {})
    BY <1>1, <1>2, <1>8, <2>1, FitsTake
  <2>3. Len(Tail(q["cg"])) = Len(q["cg"]) - 1 /\ Tail(q["cg"]) \in Seq(Values) /\ Len(q["cg"]) \in Nat
    BY <1>1, <1>2
  <2> QED  BY <2>1, <2>2, <2>3
<1>11. Fits(Tail(q["cg"]), k, ToStrategy, {})
  <2>1. \A i \in Nat \ {0} :
          1 + i \in DOMAIN W => k + i \in DOMAIN ToStrategy /\ ToStrategy[k + i] = W[1 + i]
    <3> SUFFICES ASSUME NEW i \in Nat \ {0}, 1 + i \in DOMAIN W
                 PROVE  k + i \in DOMAIN ToStrategy /\ ToStrategy[k + i] = W[1 + i]
      OBVIOUS
    <3>1. i \in 1..N /\ i + 1 = 1 + i /\ i + k = k + i /\ k + i \in 1..(N + k)
      BY <1>2, <1>9
    <3> QED  BY <1>4, <1>9, <3>1
  <2> QED  BY <1>10, <2>1, FitsShift
<1>12. GatewayInv'
  <2>1. (UpOpen /\ ~Broken("gb"))' =>
           (/\ Fits(q["cg"], Written, ToStrategy, {})
            /\ "cg" \notin fin => Written + Len(q["cg"]) = Len(ToStrategy) - N + csent)'
    BY <1>1, <1>2, <1>4, <1>6, <1>7, <1>8, <1>10, <1>11
  <2> QED  BY <1>1, <2>1 DEF GatewayInv, Early
<1> QED  BY <1>6, <1>12 DEF UpInv


\* The end of all streams is the client's data.
LEMMA StreamsEnd ==
  ASSUME CtlInv
  PROVE  /\ Len(ToStrategy) \in Nat /\ Len(ToStrategy) - N \in Nat
         /\ \A i \in 1..N : /\ Len(ToStrategy) - N + i \in DOMAIN ToStrategy
                            /\ ToStrategy[Len(ToStrategy) - N + i] = Items[i]
<1>1. /\ N \in Nat /\ Len(Payload) \in Nat /\ Len(Payload) - N \in Nat
      /\ \A i \in 1..N : Payload[Len(Payload) - N + i] = Items[i]
  <2>1. N \in Nat
    BY PayloadIs
  <2>2. CASE first \in {"http", "tls"}
    <3>1. Len(Payload) = N + 1 /\ \A i \in 1..N : Payload[i + 1] = Items[i]
      BY <2>2, PayloadIs, SentIs
    <3>2. (N + 1) - N = 1 /\ \A i \in 1..N : 1 + i = i + 1
      BY <2>1
    <3> QED  BY <2>1, <3>1, <3>2
  <2>3. CASE first \notin {"http", "tls"}
    <3>1. Payload = Items /\ Len(Payload) = N
      BY <2>3, PayloadIs
    <3>2. N - N = 0 /\ \A i \in 1..N : 0 + i = i
      BY <2>1
    <3> QED  BY <2>1, <3>1, <3>2
  <2> QED  BY <2>2, <2>3
<1>2. CASE mid = "direct" \/ first = "tls"
  <2>1. ToStrategy = Payload /\ DOMAIN ToStrategy = 1..Len(ToStrategy)
    BY <1>2, ToStrategyIs
  <2>2. \A i \in 1..N : Len(Payload) - N + i \in 1..Len(Payload)
    BY <1>1
  <2> QED  BY <1>1, <2>1, <2>2
<1>3. CASE mid # "direct" /\ first # "tls"
  <2>1. /\ Len(ToStrategy) = Len(Payload) + 2 /\ DOMAIN ToStrategy = 1..Len(ToStrategy)
        /\ \A i \in 1..Len(Payload) : ToStrategy[i + 2] = Payload[i]
    BY <1>3, ToStrategyIs
  <2>2. \A i \in 1..N : /\ Len(Payload) - N + i \in 1..Len(Payload)
                        /\ (Len(Payload) - N + i) + 2 = (Len(Payload) + 2) - N + i
                        /\ (Len(Payload) + 2) - N + i \in 1..(Len(Payload) + 2)
    BY <1>1
  <2>3. (Len(Payload) + 2) - N \in Nat /\ Len(Payload) + 2 \in Nat
    BY <1>1
  <2> DEFINE L == Len(Payload) + 2 - N
  <2>4. Len(ToStrategy) \in Nat /\ Len(ToStrategy) - N = L /\ L \in Nat
    BY <1>1, <2>1, <2>3
  <2>5. \A i \in 1..N : L + i \in 1..(Len(Payload) + 2) /\ ToStrategy[L + i] = Items[i]
    BY <1>1, <2>1, <2>2, SMTT(30)
  <2> HIDE DEF L
  <2> QED  BY <2>1, <2>4, <2>5
<1> QED  BY <1>2, <1>3

\* The gateway copies the client's data.
LEMMA UpCopies ==
  ASSUME CtlInv, UpInv, GUp, UNCHANGED <<strategy, client, remote>>
  PROVE  UpInv'
<1>1. /\ g = "copy" /\ UNCHANGED <<fin, deaf, strategy, remote, first, csent, mid, g>>
      /\ "gb" \notin fin /\ q["cg"] # <<>> /\ q' = Put(Take(q, "cg"), "gb", Head(q["cg"]))
  BY DEF GUp, Copy, Set, Arrived, CanWrite, client, gateway, CtlInv, LoopInv
<1>2. QueueInv /\ "cg" \in Dirs /\ "gb" \in Dirs /\ "br" \in Dirs
  BY DEF CtlInv, Dirs
<1>3. /\ q'["cg"] = Tail(q["cg"])
      /\ q'["gb"] = IF "gb" \in fin \cup deaf THEN q["gb"] ELSE Append(q["gb"], Head(q["cg"]))
      /\ \A o \in Dirs : o # "cg" /\ o # "gb" => q'[o] = q[o]
  BY <1>1, <1>2, CopyQ
<1>4. /\ q["cg"] \in Seq(Values) /\ q["gb"] \in Seq(Values) /\ Head(q["cg"]) \in Values
      /\ Passed \in Nat /\ Len(q["gb"]) \in Nat /\ Len(q["cg"]) \in Nat /\ Written \in Nat
      /\ Len(Tail(q["cg"])) = Len(q["cg"]) - 1 /\ Written = Passed + Len(q["gb"])
      /\ Len(Append(q["gb"], Head(q["cg"]))) = Len(q["gb"]) + 1
  <2>1. q["cg"] \in Seq(Values) /\ q["gb"] \in Seq(Values)
    BY <1>2, UpNumbers
  <2>2. Passed \in Nat /\ Written \in Nat /\ Written = Passed + Len(q["gb"])
    BY UpNumbers DEF Written
  <2> QED  BY <1>1, <2>1, <2>2
<1>5. ASSUME UpOpen, ~Broken("gb")
      PROVE  /\ Fits(Tail(q["cg"]), Written + 1, ToStrategy, {})
             /\ Fits(Append(q["gb"], Head(q["cg"])), Passed, ToStrategy, {})
  <2>1. Fits(q["cg"], Written, ToStrategy, {}) /\ Fits(q["gb"], Passed, ToStrategy, {})
    BY <1>1, <1>5 DEF UpInv, GatewayInv, StrategyInv
  <2>2. /\ Fits(Tail(q["cg"]), Written + 1, ToStrategy, {})
        /\ Written + 1 \in DOMAIN ToStrategy /\ Head(q["cg"]) = ToStrategy[Written + 1]
    BY <1>1, <1>4, <2>1, FitsTake
  <2>3. Written + 1 = Passed + Len(q["gb"]) + 1
    BY <1>4
  <2> QED  BY <1>4, <2>1, <2>2, <2>3, FitsPut
<1>6. UpOpen => Fits(q'["gb"], Passed, ToStrategy, {})
  BY <1>3, <1>5 DEF UpInv, StrategyInv, Broken
<1>7. /\ RemoteInv' /\ StrategyInv' /\ Passed' = Passed /\ (UpOpen' <=> UpOpen)
      /\ ToStrategy' = ToStrategy
  BY <1>1, <1>2, <1>3, <1>6, UpperStays
<1>8. (UpOpen /\ ~Broken("gb"))' => UpOpen /\ ~Broken("gb") /\ Written' = Written + 1
  BY <1>1, <1>3, <1>4, <1>7 DEF Broken, Written
<1>9. GatewayInv'
  <2>1. "cg" \notin fin /\ UpOpen /\ ~Broken("gb") => Written + Len(q["cg"]) = Len(ToStrategy) - N + csent
    BY <1>1 DEF UpInv, GatewayInv
  <2>2. (UpOpen /\ ~Broken("gb"))' =>
           (/\ Fits(q["cg"], Written, ToStrategy, {})
            /\ "cg" \notin fin => Written + Len(q["cg"]) = Len(ToStrategy) - N + csent)'
    <3>1. Len(ToStrategy) \in Nat /\ N \in Nat /\ csent \in Int
      BY StreamsEnd, PayloadIs DEF CtlInv, TypeInv
    <3>2. (Written + 1) + (Len(q["cg"]) - 1) = Written + Len(q["cg"])
      <4>1. Written \in Nat /\ Len(q["cg"]) \in Nat
        BY <1>4
      <4>2. \A m, n \in Nat : (m + 1) + (n - 1) = m + n
        OBVIOUS
      <4> QED  BY <4>1, <4>2
    <3> QED  BY <1>1, <1>3, <1>4, <1>5, <1>7, <1>8, <2>1, <3>1, <3>2
  <2> QED  BY <1>1, <2>2 DEF GatewayInv, Early
<1> QED  BY <1>7, <1>9 DEF UpInv

\* The client sends.
LEMMA UpSends ==
  ASSUME CtlInv, UpInv, ClientSends PROVE UpInv'
<1> DEFINE x == IF csent < 0 THEN first ELSE Items[csent + 1]
<1>1. /\ csent' = csent + 1 /\ csent < N /\ "cg" \notin fin
      /\ UNCHANGED <<fin, deaf, mid, strategy, remote, first, g>>
      /\ q'["cg"] = IF "cg" \in deaf THEN q["cg"] ELSE Append(q["cg"], x)
      /\ \A o \in Dirs : o # "cg" => q'[o] = q[o]
  BY ClientSent DEF gateway
<1>2. q'["gb"] = q["gb"] /\ q'["br"] = q["br"]
  BY <1>1 DEF Dirs
<1>3. /\ RemoteInv' /\ StrategyInv' /\ Passed' = Passed /\ (UpOpen' <=> UpOpen)
      /\ ToStrategy' = ToStrategy
  BY <1>1, <1>2, UpperStays DEF UpInv, StrategyInv
<1>4. Written' = Written
  BY <1>2, <1>3 DEF Written
<1>5. /\ csent \in -1..N /\ N \in Nat /\ q["cg"] \in Seq(Values) /\ Len(q["cg"]) \in Nat
      /\ Written \in Nat
  BY SentIs, UpNumbers DEF CtlInv, TypeInv, Dirs
<1>6. csent >= 0 => csent + 1 \in 1..N
  BY <1>1, <1>5
<1>7. x \in Values
  BY <1>5, <1>6, ItemTypes DEF Values, CtlInv, TypeInv
<1>8. Len(Append(q["cg"], x)) = Len(q["cg"]) + 1
  BY <1>5, <1>7
<1>9. g # "done" => q'["cg"] = Append(q["cg"], x)
  BY <1>1 DEF CtlInv, LoopInv
<1>10. ASSUME g \in Early \cup {"method", "reply"}
       PROVE  Fits(Append(q["cg"], x), 0, <<first>> \o Items, {}) /\ Len(q'["cg"]) = csent' + 1
  <2> DEFINE W == <<first>> \o Items
  <2>1. Fits(q["cg"], 0, W, {}) /\ Len(q["cg"]) = csent + 1
    BY <1>1, <1>10 DEF UpInv, GatewayInv
  <2>2. /\ DOMAIN W = 1..(N + 1) /\ W[1] = first /\ \A i \in 1..N : W[i + 1] = Items[i]
    BY SentIs
  <2> HIDE DEF W
  <2>3. 0 + Len(q["cg"]) + 1 = csent + 2 /\ csent + 2 \in 1..(N + 1)
    BY <1>1, <1>5, <2>1
  <2>4. W[csent + 2] = x
    <3>1. CASE csent < 0
      <4>1. csent + 2 = 1 /\ x = first
        BY <1>5, <3>1
      <4> QED  BY <2>2, <4>1
    <3>2. CASE ~(csent < 0)
      <4>1. csent + 1 \in 1..N /\ (csent + 1) + 1 = csent + 2 /\ x = Items[csent + 1]
        BY <1>5, <1>6, <3>2
      <4> QED  BY <2>2, <4>1
    <3> QED  BY <3>1, <3>2
  <2> HIDE DEF x
  <2>5. Fits(Append(q["cg"], x), 0, W, {})
    BY <1>5, <1>7, <2>1, <2>2, <2>3, <2>4, FitsPut
  <2>6. g # "done"
    BY <1>10 DEF Early
  <2> QED  BY <1>1, <1>5, <1>8, <1>9, <2>1, <2>5, <2>6 DEF W
<1>11. ASSUME g = "copy", UpOpen, ~Broken("gb")
       PROVE  /\ Fits(Append(q["cg"], x), Written, ToStrategy, {})
              /\ Written + Len(q'["cg"]) = Len(ToStrategy) - N + csent'
  <2>1. /\ Fits(q["cg"], Written, ToStrategy, {})
        /\ Written + Len(q["cg"]) = Len(ToStrategy) - N + csent
    BY <1>1, <1>11 DEF UpInv, GatewayInv
  <2>2. csent >= 0
    BY <1>11 DEF CtlInv, FirstInv
  <2>3. Len(ToStrategy) \in Nat /\ Len(ToStrategy) - N \in Nat
    BY StreamsEnd
  <2>4. /\ Len(ToStrategy) - N + (csent + 1) \in DOMAIN ToStrategy
        /\ ToStrategy[Len(ToStrategy) - N + (csent + 1)] = Items[csent + 1]
    BY <1>6, <2>2, StreamsEnd
  <2>5. x = Items[csent + 1]
    BY <1>5, <2>2
  <2>6. Written + Len(q["cg"]) + 1 = Len(ToStrategy) - N + (csent + 1)
    BY <1>5, <2>1, <2>3
  <2> HIDE DEF x
  <2>7. Fits(Append(q["cg"], x), Written, ToStrategy, {})
    BY <1>5, <1>7, <2>1, <2>4, <2>5, <2>6, FitsPut
  <2>8. Written + (Len(q["cg"]) + 1) = Len(ToStrategy) - N + (csent + 1)
    BY <1>5, <2>1, <2>3
  <2> QED  BY <1>1, <1>8, <1>9, <1>11, <2>7, <2>8
<1> HIDE DEF x
<1>12. GatewayInv'
  <2>1. (UpOpen /\ ~Broken("gb"))' => UpOpen /\ ~Broken("gb")
    BY <1>1, <1>3 DEF Broken
  <2>2. (UpOpen /\ ~Broken("gb") =>
          /\ g = "method" => Written = 1
          /\ g = "reply" => Written = 2
          /\ g = "copy" =>
                /\ Fits(q["cg"], Written, ToStrategy, {})
                /\ "cg" \notin fin => Written + Len(q["cg"]) = Len(ToStrategy) - N + csent)'
    BY <1>1, <1>3, <1>4, <1>9, <1>11, <2>1 DEF UpInv, GatewayInv
  <2>3. (g \in Early \cup {"method", "reply"} =>
          /\ Fits(q["cg"], 0, <<first>> \o Items, {})
          /\ "cg" \notin fin => Len(q["cg"]) = csent + 1)'
    <3>1. g \in Early \cup {"method", "reply"} => g # "done"
      BY DEF Early
    <3> QED  BY <1>1, <1>9, <1>10, <3>1
  <2> QED  BY <2>2, <2>3 DEF GatewayInv
<1> QED  BY <1>3, <1>12 DEF UpInv


\* A step of the strategy or the remote that passes on what was written.
LEMMA LowerStays ==
  ASSUME CtlInv, UpInv, UNCHANGED <<fin, deaf, gateway, client>>, q'["cg"] = q["cg"],
         ToStrategy' = ToStrategy, (UpOpen /\ ~Broken("gb"))' => UpOpen /\ Written' = Written
  PROVE  GatewayInv'
<1>1. UNCHANGED <<g, first, csent, fin, deaf>>
  BY DEF gateway, client
<1>2. (UpOpen /\ ~Broken("gb"))' => UpOpen /\ ~Broken("gb") /\ Written' = Written
  BY <1>1 DEF Broken
<1>3. (UpOpen /\ ~Broken("gb") =>
        /\ g = "method" => Written = 1
        /\ g = "reply" => Written = 2
        /\ g = "copy" =>
              /\ Fits(q["cg"], Written, ToStrategy, {})
              /\ "cg" \notin fin => Written + Len(q["cg"]) = Len(ToStrategy) - N + csent)'
  BY <1>1, <1>2 DEF UpInv, GatewayInv
<1>4. (g \in Early \cup {"method", "reply"} =>
        /\ Fits(q["cg"], 0, <<first>> \o Items, {})
        /\ "cg" \notin fin => Len(q["cg"]) = csent + 1)'
  BY <1>1 DEF UpInv, GatewayInv
<1> QED  BY <1>3, <1>4 DEF GatewayInv

\* The strategy's handler before it has dialled.
LEMMA UpEarly ==
  ASSUME CtlInv, mid # "direct", b \in Before
  PROVE  rgot = <<>> /\ ~ready /\ q["br"] = <<>> /\ bcopy = {} /\ UpOpen /\ ~Broken("br") /\ Uploaded = 0
<1>1. rgot = <<>> /\ ~ready /\ q["br"] = <<>> /\ bcopy = {} /\ ~Broken("br") /\ b # "done" /\ b # "copy"
  BY DEF CtlInv, EmptyInv, LoopInv, Before
<1> QED  BY <1>1 DEF UpOpen, Uploaded, One

\* The strategy accepts, starts its handler, and VLESS has dialled.
LEMMA UpAccepts ==
  ASSUME CtlInv, UpInv, Accept \/ Register \/ DialVlessWS \/ DialVlessGRPC,
         UNCHANGED <<gateway, client, remote>>
  PROVE  UpInv'
<1>1. /\ UNCHANGED <<q, fin, deaf, kind, first, csent, g, rgot, ready>>
      /\ mid # "direct" /\ mid' # "direct" /\ b \in Before
      /\ \/ b' \in {"accepted", "hello"} /\ bcopy' = bcopy /\ b \in {"out", "accepted"}
         \/ b = "dial" /\ b' = "copy" /\ "first" \in bcopy'
  BY DEF Accept, Register, DialVlessWS, DialVlessGRPC, VlessCopies, BGoto, links, gateway, client,
         remote, CtlInv, PlaceInv, Before
<1>2. rgot = <<>> /\ ~ready /\ q["br"] = <<>> /\ bcopy = {} /\ UpOpen /\ ~Broken("br") /\ Uploaded = 0
  BY <1>1, UpEarly
<1>3. Payload' = Payload /\ ToStrategy' = ToStrategy /\ ToRemote' = ToRemote
  BY <1>1, SameStreams
<1>4. Uploaded' = 0 /\ Passed' = Passed /\ Written' = Written
  <2>1. Uploaded' = 0
    BY <1>1, <1>2 DEF Uploaded
  <2>2. Passed' = Passed
    BY <1>1, <1>2, <2>1 DEF Passed
  <2> QED  BY <1>1, <2>1, <2>2 DEF Written
<1>5. RemoteInv'
  BY <1>1, <1>3 DEF UpInv, RemoteInv
<1>6. StrategyInv'
  BY <1>1, <1>2, <1>3, <1>4 DEF UpInv, StrategyInv
<1>7. GatewayInv'
  BY <1>1, <1>2, <1>3, <1>4, LowerStays
<1> QED  BY <1>5, <1>6, <1>7 DEF UpInv

\* The strategy takes the greeting and the request.
LEMMA UpGreets ==
  ASSUME CtlInv, UpInv, Methods \/ Request \/ VlessRequest, UNCHANGED <<gateway, client, remote>>
  PROVE  UpInv'
<1>1. /\ UNCHANGED <<fin, deaf, kind, mid, first, csent, g, rgot, ready, bcopy>>
      /\ (b = "hello" /\ b' = "request") \/ (b = "request" /\ b' = "dial")
      /\ q["gb"] # <<>> /\ Head(q["gb"]) = IF b = "hello" THEN "hello" ELSE "socks"
      /\ q'["gb"] = Tail(q["gb"]) /\ q'["cg"] = q["cg"] /\ q'["br"] = q["br"]
  BY StrategyShakes DEF Arrived, gateway, client, remote
<1>2. mid # "direct" /\ b \in Before
  BY <1>1 DEF CtlInv, PlaceInv, Before
<1>3. rgot = <<>> /\ ~ready /\ q["br"] = <<>> /\ bcopy = {} /\ UpOpen /\ ~Broken("br") /\ Uploaded = 0
  BY <1>2, UpEarly
<1>4. Payload' = Payload /\ ToStrategy' = ToStrategy /\ ToRemote' = ToRemote
  BY <1>1, SameStreams
<1>5. Uploaded' = 0 /\ Passed \in Nat /\ Passed' = Passed + 1
  <2>1. Uploaded' = 0
    BY <1>1, <1>3 DEF Uploaded
  <2> QED  BY <1>1, <1>2, <1>3, <2>1 DEF Passed
<1>6. q["gb"] \in Seq(Values) /\ Len(q["gb"]) \in Nat /\ Len(Tail(q["gb"])) = Len(q["gb"]) - 1
  <2>1. q["gb"] \in Seq(Values)
    BY UpNumbers DEF Dirs
  <2> QED  BY <1>1, <2>1
<1>7. Written' = Written
  <2>1. \A m, n \in Nat : (m + 1) + (n - 1) = m + n
    OBVIOUS
  <2> QED  BY <1>1, <1>5, <1>6, <2>1 DEF Written
<1>8. /\ Fits(Tail(q["gb"]), Passed + 1, ToStrategy, {})
      /\ Passed + 1 \in DOMAIN ToStrategy /\ Head(q["gb"]) = ToStrategy[Passed + 1]
  <2>1. Fits(q["gb"], Passed, ToStrategy, {})
    BY <1>3 DEF UpInv, StrategyInv
  <2> QED  BY <1>1, <1>5, <1>6, <2>1, FitsTake
<1>9. first # "tls"
  <2> SUFFICES ASSUME first = "tls" PROVE FALSE
    OBVIOUS
  <2>1. b = "hello"
    BY <1>1, <1>2 DEF UpInv, StrategyInv
  <2>2. Head(q["gb"]) = "hello" /\ "hello" \in Words \ {"http", "tls"}
    BY <1>1, <2>1 DEF Words
  <2>3. ToStrategy = Payload
    BY ToStrategyIs
  <2> QED  BY <1>8, <2>2, <2>3, PayloadIs
<1>10. RemoteInv'
  BY <1>1, <1>4 DEF UpInv, RemoteInv
<1>11. StrategyInv'
  BY <1>1, <1>3, <1>4, <1>5, <1>8, <1>9 DEF StrategyInv
<1>12. GatewayInv'
  BY <1>1, <1>3, <1>4, <1>7, LowerStays
<1> QED  BY <1>10, <1>11, <1>12 DEF UpInv

\* The worker requests its stream.
LEMMA UpCreates ==
  ASSUME CtlInv, UpInv, createTunnel, UNCHANGED <<gateway, client, remote>>
  PROVE  UpInv'
<1>1. /\ UNCHANGED <<fin, deaf, kind, mid, first, csent, g, rgot, ready, bcopy>>
      /\ b = "dial" /\ b' = "success" /\ kind = "worker"
      /\ q'["br"] = Append(q["br"], "new") /\ q'["gb"] = q["gb"] /\ q'["cg"] = q["cg"]
  BY TunnelCreated DEF Dirs, gateway, client, remote
<1>2. mid # "direct" /\ b \in Before
  BY <1>1 DEF CtlInv, PlaceInv, Before
<1>3. rgot = <<>> /\ ~ready /\ q["br"] = <<>> /\ bcopy = {} /\ UpOpen /\ ~Broken("br") /\ Uploaded = 0
  BY <1>2, UpEarly
<1>4. Payload' = Payload /\ ToStrategy' = ToStrategy /\ ToRemote' = ToRemote
  BY <1>1, SameStreams
<1>5. Len(Append(<<>>, "new")) = 1 /\ Len(<<>>) = 0 /\ "new" \in Values /\ <<>> \in Seq(Values)
  BY WordTypes DEF Words
<1>6. Uploaded' = 1 /\ Passed = 2 /\ Passed' = 2 /\ Written' = Written
  <2>1. Uploaded' = 1
    BY <1>1, <1>3, <1>5 DEF Uploaded, One
  <2>2. Passed = 2 /\ Passed' = 2
    BY <1>1, <1>2, <1>3, <2>1 DEF Passed
  <2> QED  BY <1>1, <2>1, <2>2 DEF Written
<1>7. Fits(Append(<<>>, "new"), 0, ToRemote, {})
  <2>1. 0 + Len(<<>>) + 1 = 1 /\ Fits(<<>>, 0, ToRemote, {})
    BY FitsEmpty
  <2>2. 1 \in DOMAIN ToRemote /\ ToRemote[1] = "new"
    BY <1>1, ToRemoteIs
  <2> QED  BY <1>5, <2>1, <2>2, FitsPut
<1>8. RemoteInv'
  <2>1. Len(rgot') + One(ready') = 0
    BY <1>1, <1>3, <1>5 DEF One
  <2>2. Fits(q'["br"], 0, ToRemote, IF "br" \in fin' THEN {"close"} ELSE {})
    BY <1>1, <1>3, <1>7 DEF Broken
  <2> QED  BY <1>1, <1>3, <1>4, <2>1, <2>2 DEF UpInv, RemoteInv
<1>9. StrategyInv'
  BY <1>1, <1>2, <1>3, <1>4, <1>6 DEF UpInv, StrategyInv
<1>10. GatewayInv'
  BY <1>1, <1>3, <1>4, <1>6, LowerStays
<1> QED  BY <1>8, <1>9, <1>10 DEF UpInv


\* The server has answered.
LEMMA UpAnswered ==
  ASSUME CtlInv, UpInv, waitForSuccess \/ DecodeResponseHeader, UNCHANGED <<gateway, client, remote>>
  PROVE  UpInv'
<1>1. /\ UNCHANGED <<fin, deaf, kind, mid, first, csent, g, rgot, ready>>
      /\ b \in {"success", "copy"} /\ b' = "copy"
      /\ (b = "success" /\ "first" \notin bcopy') \/ (b = "copy" /\ ("first" \in bcopy' <=> "first" \in bcopy))
      /\ q'["br"] = q["br"] /\ q'["gb"] = q["gb"] /\ q'["cg"] = q["cg"]
  BY ServerAnswered DEF gateway, client, remote
<1>2. mid # "direct" /\ (b = "success" => bcopy = {})
  BY <1>1 DEF CtlInv, PlaceInv, LoopInv
<1>3. Payload' = Payload /\ ToStrategy' = ToStrategy /\ ToRemote' = ToRemote
  BY <1>1, SameStreams
<1>4. /\ Uploaded' = Uploaded /\ Passed' = Passed /\ Written' = Written
      /\ (Broken("br"))' = Broken("br") /\ (UpOpen' <=> UpOpen)
  <2>1. Uploaded' = Uploaded
    BY <1>1 DEF Uploaded
  <2>2. Passed' = Passed
    BY <1>1, <1>2, <2>1 DEF Passed
  <2> QED  BY <1>1, <1>2, <2>1, <2>2 DEF Written, UpOpen, Broken
<1>5. RemoteInv'
  BY <1>1, <1>3 DEF UpInv, RemoteInv
<1>6. StrategyInv'
  BY <1>1, <1>2, <1>3, <1>4 DEF UpInv, StrategyInv
<1>7. GatewayInv'
  BY <1>1, <1>3, <1>4, LowerStays
<1> QED  BY <1>5, <1>6, <1>7 DEF UpInv

\* The handler is past the handshake: the streams are two items apart.
LEMMA UpLate ==
  ASSUME CtlInv, UpInv, b = "copy"
  PROVE  /\ mid # "direct" /\ first # "tls" /\ Len(Payload) \in Nat
         /\ DOMAIN ToStrategy = 1..(Len(Payload) + 2) /\ DOMAIN ToRemote = 1..(Len(Payload) + 1)
         /\ \A i \in 1..Len(Payload) : ToStrategy[i + 2] = Payload[i] /\ ToRemote[i + 1] = Payload[i]
<1>1. mid # "direct" /\ first # "tls"
  BY DEF CtlInv, PlaceInv, UpInv, StrategyInv
<1>2. /\ DOMAIN ToStrategy = 1..(Len(Payload) + 2)
      /\ \A i \in 1..Len(Payload) : ToStrategy[i + 2] = Payload[i]
  BY <1>1, ToStrategyIs
<1>3. /\ DOMAIN ToRemote = 1..(Len(Payload) + 1) /\ Len(Payload) \in Nat
      /\ \A i \in 1..Len(Payload) : ToRemote[i + 1] = Payload[i]
  BY ToRemoteIs
<1> QED  BY <1>1, <1>2, <1>3

\* The request of VLESS goes with the first data, or alone.
LEMMA UpFirst ==
  ASSUME CtlInv, UpInv, FirstChunk, UNCHANGED <<gateway, client, remote>>
  PROVE  UpInv'
<1>1. /\ UNCHANGED <<fin, deaf, kind, mid, first, csent, g, rgot, ready, b>> /\ b = "copy"
      /\ kind # "worker" /\ "first" \in bcopy /\ "first" \notin bcopy' /\ "br" \notin fin
      /\ q'["cg"] = q["cg"]
  BY FirstSent DEF gateway, client, remote
<1>2. \/ /\ q["gb"] # <<>> /\ q'["gb"] = Tail(q["gb"])
         /\ "br" \notin deaf => q'["br"] = Append(Append(q["br"], "hdr"), Head(q["gb"]))
      \/ /\ q'["gb"] = q["gb"]
         /\ "br" \notin deaf => q'["br"] = Append(q["br"], "hdr")
  BY FirstSent DEF Arrived
<1>3. "br" \in deaf => q'["br"] = q["br"]
  BY FirstSent
<1>4. rgot = <<>> /\ ~ready /\ q["br"] = <<>> /\ Uploaded = 0
  BY <1>1, UpNumbers DEF UpInv, StrategyInv
<1>5. Payload' = Payload /\ ToStrategy' = ToStrategy /\ ToRemote' = ToRemote
  BY <1>1, SameStreams
<1>6. /\ mid # "direct" /\ first # "tls" /\ Len(Payload) \in Nat
      /\ DOMAIN ToStrategy = 1..(Len(Payload) + 2) /\ DOMAIN ToRemote = 1..(Len(Payload) + 1)
      /\ \A i \in 1..Len(Payload) : ToStrategy[i + 2] = Payload[i] /\ ToRemote[i + 1] = Payload[i]
      /\ ToRemote[1] = "hdr"
  BY <1>1, UpLate, ToRemoteIs
<1>7. Passed = 2 /\ Len(rgot') + One(ready') = 0 /\ (UpOpen' <=> UpOpen) /\ (UpOpen <=> "br" \notin deaf)
  <2>1. Len(<<>>) = 0
    OBVIOUS
  <2> QED  BY <1>1, <1>4, <1>6, <2>1 DEF Passed, One, UpOpen, Broken
<1>8. CASE "br" \in deaf
  <2>1. RemoteInv'
    BY <1>1, <1>3, <1>4, <1>5, <1>7, <1>8, FitsEmpty DEF UpInv, RemoteInv
  <2>2. StrategyInv'
    BY <1>1, <1>5, <1>6, <1>7, <1>8 DEF UpInv, StrategyInv, Broken
  <2>3. GatewayInv'
    BY <1>1, <1>5, <1>7, <1>8, LowerStays
  <2> QED  BY <2>1, <2>2, <2>3 DEF UpInv
<1>9. CASE "br" \notin deaf
  <2>1. Fits(q["gb"], 2, ToStrategy, {}) /\ q["gb"] \in Seq(Values)
    BY <1>7, <1>9, UpNumbers DEF UpInv, StrategyInv, Dirs
  <2> DEFINE h == Append(<<>>, "hdr")
  <2>2. "hdr" \in Values /\ <<>> \in Seq(Values) /\ h \in Seq(Values) /\ Len(h) = 1 /\ Len(<<>>) = 0
    <3>1. "hdr" \in Values
      BY WordTypes DEF Words
    <3> QED  BY <3>1
  <2>3. Fits(h, 0, ToRemote, {})
    <3>1. 0 + Len(<<>>) + 1 = 1 /\ Fits(<<>>, 0, ToRemote, {}) /\ 1 \in DOMAIN ToRemote
      BY <1>6, FitsEmpty
    <3> QED  BY <1>6, <2>2, <3>1, FitsPut
  <2> HIDE DEF h
  <2>4. CASE /\ q["gb"] # <<>> /\ q'["gb"] = Tail(q["gb"])
             /\ q'["br"] = Append(Append(q["br"], "hdr"), Head(q["gb"]))
    <3>1. /\ Fits(Tail(q["gb"]), 2 + 1, ToStrategy, {})
          /\ 2 + 1 \in DOMAIN ToStrategy /\ Head(q["gb"]) = ToStrategy[2 + 1]
      BY <2>1, <2>4, FitsTake
    <3>2. 3 \in 1..(Len(Payload) + 2) /\ 2 + 1 = 3 /\ 1 + 2 = 3 /\ 1 + 1 = 2
      BY <1>6, <3>1
    <3>3. 1 \in 1..Len(Payload) /\ 2 \in 1..(Len(Payload) + 1)
      BY <1>6, <3>2
    <3>4. Head(q["gb"]) = ToRemote[2] /\ 2 \in DOMAIN ToRemote
      BY <1>6, <3>1, <3>2, <3>3
    <3>5. Head(q["gb"]) \in Values /\ Len(Tail(q["gb"])) = Len(q["gb"]) - 1 /\ Len(q["gb"]) \in Nat
      BY <2>1, <2>4
    <3>6. q'["br"] = Append(h, Head(q["gb"]))
      BY <1>4, <2>4 DEF h
    <3>7. Fits(Append(h, Head(q["gb"])), 0, ToRemote, {}) /\ Len(Append(h, Head(q["gb"]))) = 2
      <4>1. 0 + Len(h) + 1 = 2
        BY <2>2
      <4>2. Fits(Append(h, Head(q["gb"])), 0, ToRemote, {})
        BY <2>2, <2>3, <3>4, <3>5, <4>1, FitsPut
      <4>3. Len(Append(h, Head(q["gb"]))) = 2
        <5>1. \A s \in Seq(Values) : \A x \in Values : Len(Append(s, x)) = Len(s) + 1
          OBVIOUS
        <5>2. Len(Append(h, Head(q["gb"]))) = Len(h) + 1
          BY <2>2, <3>5, <5>1
        <5> QED  BY <2>2, <5>2
      <4> QED  BY <4>2, <4>3
    <3>8. Uploaded' = 2 /\ Passed' = 3
      <4>1. Uploaded' = 2
        BY <1>7, <3>6, <3>7 DEF Uploaded
      <4> QED  BY <1>1, <1>6, <4>1 DEF Passed
    <3>9. Written' = Written
      <4>1. 3 + (Len(q["gb"]) - 1) = 2 + Len(q["gb"])
        BY <3>5
      <4> QED  BY <1>7, <2>4, <3>5, <3>8, <4>1 DEF Written
    <3>10. RemoteInv'
      BY <1>1, <1>4, <1>5, <1>7, <3>6, <3>7 DEF UpInv, RemoteInv
    <3>11. StrategyInv'
      BY <1>1, <1>5, <1>6, <2>4, <3>1, <3>2, <3>8 DEF StrategyInv
    <3>12. GatewayInv'
      BY <1>1, <1>5, <1>7, <3>9, LowerStays
    <3> QED  BY <3>10, <3>11, <3>12 DEF UpInv
  <2>5. CASE q'["gb"] = q["gb"] /\ q'["br"] = Append(q["br"], "hdr")
    <3>1. q'["br"] = h
      BY <1>4, <2>5 DEF h
    <3>2. Uploaded' = 1 /\ Passed' = 2
      <4>1. Uploaded' = 1
        <5>1. Len(q'["br"]) = 1
          BY <2>2, <3>1
        <5> QED  BY <1>7, <5>1 DEF Uploaded
      <4> QED  BY <1>1, <1>6, <4>1 DEF Passed
    <3>3. Written' = Written
      BY <1>7, <2>5, <3>2 DEF Written
    <3>4. RemoteInv'
      BY <1>1, <1>4, <1>5, <1>7, <2>3, <3>1 DEF UpInv, RemoteInv
    <3>5. StrategyInv'
      BY <1>1, <1>5, <1>6, <2>1, <2>5, <3>2 DEF StrategyInv
    <3>6. GatewayInv'
      BY <1>1, <1>5, <1>7, <3>3, LowerStays
    <3> QED  BY <3>4, <3>5, <3>6 DEF UpInv
  <2> QED  BY <1>2, <1>9, <2>4, <2>5
<1> QED  BY <1>8, <1>9


\* The strategy copies the client's data.
LEMMA UpPasses ==
  ASSUME CtlInv, UpInv, BUp, UNCHANGED <<gateway, client, remote>>
  PROVE  UpInv'
<1>1. /\ UNCHANGED <<fin, deaf, kind, mid, first, csent, g, rgot, ready, b, bcopy>> /\ b = "copy"
      /\ "first" \notin bcopy /\ "br" \notin fin /\ q["gb"] # <<>>
      /\ q' = Put(Take(q, "gb"), "br", Head(q["gb"]))
  BY DEF BUp, Copy, Set, Arrived, CanWrite, gateway, client, remote, strategy, CtlInv, LoopInv
<1>2. QueueInv /\ "cg" \in Dirs /\ "gb" \in Dirs /\ "br" \in Dirs
  BY DEF CtlInv, Dirs
<1>3. /\ q'["gb"] = Tail(q["gb"])
      /\ q'["br"] = IF "br" \in fin \cup deaf THEN q["br"] ELSE Append(q["br"], Head(q["gb"]))
      /\ \A o \in Dirs : o # "gb" /\ o # "br" => q'[o] = q[o]
  BY <1>1, <1>2, CopyQ
<1>4. q'["cg"] = q["cg"]
  BY <1>2, <1>3
<1>5. Payload' = Payload /\ ToStrategy' = ToStrategy /\ ToRemote' = ToRemote
  BY <1>1, SameStreams
<1>6. /\ mid # "direct" /\ first # "tls" /\ Len(Payload) \in Nat
      /\ DOMAIN ToStrategy = 1..(Len(Payload) + 2) /\ DOMAIN ToRemote = 1..(Len(Payload) + 1)
      /\ \A i \in 1..Len(Payload) : ToStrategy[i + 2] = Payload[i] /\ ToRemote[i + 1] = Payload[i]
  BY <1>1, UpLate
<1>7. (UpOpen' <=> UpOpen) /\ (UpOpen <=> "br" \notin deaf)
  BY <1>1, <1>6 DEF UpOpen, Broken
<1>8. CASE "br" \in deaf
  <2>1. q'["br"] = q["br"]
    BY <1>3, <1>8
  <2>2. RemoteInv'
    BY <1>1, <1>5, <2>1 DEF UpInv, RemoteInv
  <2>3. StrategyInv'
    BY <1>1, <1>6, <1>7, <1>8 DEF StrategyInv, Broken
  <2>4. GatewayInv'
    BY <1>1, <1>4, <1>5, <1>7, <1>8, LowerStays
  <2> QED  BY <2>2, <2>3, <2>4 DEF UpInv
<1>9. CASE "br" \notin deaf
  <2> DEFINE x == Head(q["gb"])
             u == Len(rgot) + One(ready)
  <2>1. /\ q["gb"] \in Seq(Values) /\ q["br"] \in Seq(Values) /\ Uploaded \in Nat /\ u \in Nat
        /\ Uploaded = u + Len(q["br"])
    BY <1>2, UpNumbers DEF Uploaded
  <2>2. /\ x \in Values /\ Len(q["gb"]) \in Nat /\ Len(Tail(q["gb"])) = Len(q["gb"]) - 1
        /\ Len(q["br"]) \in Nat /\ Len(Append(q["br"], x)) = Len(q["br"]) + 1
    BY <1>1, <2>1
  <2>3. Uploaded > 0
    BY <1>1, <1>6, <1>9 DEF UpInv, StrategyInv, Broken
  <2>4. Passed = Uploaded + 1
    BY <1>1, <1>6, <2>1, <2>3 DEF Passed
  <2>5. Fits(q["gb"], Passed, ToStrategy, {}) /\ Fits(q["br"], u, ToRemote, {})
    BY <1>1, <1>6, <1>7, <1>9 DEF UpInv, StrategyInv, RemoteInv
  <2> HIDE DEF x, u
  <2>6. /\ Fits(Tail(q["gb"]), Passed + 1, ToStrategy, {})
        /\ Passed + 1 \in DOMAIN ToStrategy /\ x = ToStrategy[Passed + 1]
    <3>1. Passed \in Nat
      BY <2>1, <2>4
    <3> QED  BY <1>1, <2>1, <2>5, <3>1, FitsTake DEF x
  <2>7. Uploaded + 1 \in DOMAIN ToRemote /\ x = ToRemote[Uploaded + 1]
    <3>1. Uploaded \in 1..Len(Payload) /\ Passed + 1 = Uploaded + 2
          /\ Uploaded + 1 \in 1..(Len(Payload) + 1)
      BY <1>6, <2>1, <2>3, <2>4, <2>6
    <3> QED  BY <1>6, <2>6, <3>1
  <2>8. Fits(Append(q["br"], x), u, ToRemote, {})
    <3>1. u + Len(q["br"]) + 1 = Uploaded + 1
      BY <2>1
    <3> QED  BY <2>1, <2>2, <2>5, <2>7, <3>1, FitsPut
  <2>9. q'["br"] = Append(q["br"], x) /\ u' = u
    BY <1>1, <1>3, <1>9 DEF x, u
  <2>10. Uploaded' = Uploaded + 1 /\ Passed' = Passed + 1
    <3>1. Uploaded' = u' + Len(q'["br"])
      BY DEF Uploaded, u
    <3>2. u + (Len(q["br"]) + 1) = Uploaded + 1
      BY <2>1, <2>2
    <3>3. Uploaded' = Uploaded + 1
      BY <2>2, <2>9, <3>1, <3>2
    <3>4. Uploaded' # 0
      BY <2>1, <3>3
    <3> QED  BY <1>1, <1>6, <2>4, <3>3, <3>4 DEF Passed
  <2>11. Written' = Written
    <3>1. Passed \in Nat
      BY <2>1, <2>4
    <3>2. (Passed + 1) + (Len(q["gb"]) - 1) = Passed + Len(q["gb"])
      <4>1. \A m, n \in Nat : (m + 1) + (n - 1) = m + n
        OBVIOUS
      <4> QED  BY <2>2, <3>1, <4>1
    <3> QED  BY <1>3, <2>2, <2>10, <3>2 DEF Written
  <2>12. RemoteInv'
    BY <1>1, <1>5, <1>6, <1>9, <2>8, <2>9 DEF UpInv, RemoteInv, u
  <2>13. StrategyInv'
    <3>1. Uploaded' > 0
      BY <2>1, <2>10
    <3> QED  BY <1>1, <1>3, <1>5, <1>6, <2>6, <2>10, <3>1 DEF StrategyInv
  <2>14. GatewayInv'
    BY <1>1, <1>4, <1>5, <1>7, <2>11, LowerStays
  <2> QED  BY <2>12, <2>13, <2>14 DEF UpInv
<1> QED  BY <1>8, <1>9

\* The worker's last packet is the mark of the end.
LEMMA UpTells ==
  ASSUME CtlInv, CtlInv', UpInv, BUpEnds, AtEnd("gb"), UNCHANGED <<gateway, client, remote>>
  PROVE  UpInv'
<1>1. /\ UNCHANGED <<mid, kind, b, first, csent, g, rgot, ready>> /\ b = "copy" /\ bcopy' = bcopy \ {"up"}
      /\ "up" \in bcopy /\ fin' = fin \cup {"br"} /\ Shrinks(Dirs \ {"br"})
      /\ q'["br"] = IF Broken("br") THEN q["br"] ELSE Append(q["br"], "close")
  BY WorkerTells DEF gateway, client, remote
<1>2. Payload' = Payload /\ ToStrategy' = ToStrategy /\ ToRemote' = ToRemote
  BY <1>1, SameStreams
<1>3. mid # "direct" /\ first # "tls" /\ ~UpOpen' /\ "first" \notin bcopy /\ (Broken("br"))'
  <2>1. "first" \notin bcopy
    BY <1>1 DEF CtlInv, LoopInv
  <2> QED  BY <1>1, <2>1, UpLate DEF UpOpen, Broken
<1>4. RemoteInv'
  <2> DEFINE u == Len(rgot) + One(ready)
  <2>1. u \in Nat /\ q["br"] \in Seq(Values) /\ "close" \in Values
    BY UpNumbers, WordTypes DEF Dirs, Words
  <2>2. Fits(q["br"], u, ToRemote, IF "br" \in fin THEN {"close"} ELSE {})
    BY <1>3 DEF UpInv, RemoteInv
  <2> HIDE DEF u
  <2>3. Fits(q'["br"], u, ToRemote, {"close"})
    <3>1. CASE Broken("br")
      BY <1>1, <2>2, <3>1, FitsMore
    <3>2. CASE ~Broken("br")
      <4>1. Fits(q["br"], u, ToRemote, {})
        BY <2>2, <3>2 DEF Broken
      <4> QED  BY <1>1, <2>1, <3>2, <4>1, FitsPut
    <3> QED  BY <3>1, <3>2
  <2>4. u' = u /\ "br" \in fin'
    BY <1>1 DEF u
  <2> QED  BY <1>1, <1>2, <1>3, <2>3, <2>4 DEF UpInv, RemoteInv, u
<1>5. StrategyInv'
  BY <1>1, <1>3 DEF StrategyInv
<1>6. GatewayInv'
  <2>1. g' # "done" => q'["cg"] = q["cg"]
    BY <1>1 DEF Shrinks, CtlInv, LoopInv, Dirs
  <2>2. "cg" \in fin' <=> "cg" \in fin
    BY <1>1
  <2> QED  BY <1>1, <1>3, <2>1, <2>2 DEF UpInv, GatewayInv, Early
<1> QED  BY <1>4, <1>5, <1>6 DEF UpInv


\* The target of DIRECT receives.
LEMMA UpDirect ==
  ASSUME CtlInv, UpInv, RemoteReceives, mid = "direct" PROVE UpInv'
<1>1. /\ UNCHANGED <<fin, deaf, mid, kind, b, bcopy, first, csent, g, gateway, client>> /\ Dialled
      /\ q[In] # <<>> /\ q'[In] = Tail(q[In])
      /\ Head(q[In]) \notin {"new", "hdr", "close"} => rgot' = Append(rgot, Head(q[In]))
      /\ \A o \in Dirs : o # In /\ o # Out => q'[o] = q[o]
  BY RemoteGot DEF gateway, strategy, client
<1>2. In = "gb" /\ Out = "bg" /\ b = "out" /\ bcopy = {}
  BY <1>1, RemoteEnds DEF CtlInv, LoopInv
<1>3. q["gb"] # <<>> /\ q'["gb"] = Tail(q["gb"]) /\ q'["cg"] = q["cg"]
  BY <1>1, <1>2 DEF Dirs
<1>4. /\ q["gb"] \in Seq(Values) /\ rgot \in Seq(Values) /\ Len(rgot) \in Nat /\ Passed = Len(rgot)
      /\ UpOpen /\ UpOpen' /\ ToStrategy = Payload
  BY <1>1, UpNumbers, ToStrategyIs DEF Dirs, CtlInv, QueueInv, Passed, UpOpen
<1>5. /\ Head(q["gb"]) \in Values /\ Len(q["gb"]) \in Nat /\ Len(Tail(q["gb"])) = Len(q["gb"]) - 1
      /\ Len(Append(rgot, Head(q["gb"]))) = Len(rgot) + 1
  BY <1>3, <1>4
<1>6. /\ Fits(Tail(q["gb"]), Len(rgot) + 1, Payload, {})
      /\ Len(rgot) + 1 \in DOMAIN Payload /\ Head(q["gb"]) = Payload[Len(rgot) + 1]
  <2>1. Fits(q["gb"], Len(rgot), Payload, {})
    BY <1>4 DEF UpInv, StrategyInv
  <2> QED  BY <1>3, <1>4, <2>1, FitsTake
<1>7. Head(q["gb"]) \notin {"new", "hdr", "close"}
  <2>1. Head(q["gb"]) \notin Words \ {"http", "tls"}
    BY <1>6, PayloadIs
  <2> QED  BY <2>1 DEF Words
<1>8. rgot' = Append(rgot, Head(q["gb"]))
  BY <1>1, <1>2, <1>7
<1>9. Payload' = Payload /\ ToStrategy' = ToStrategy
  BY <1>1, SameStreams
<1>10. Passed' = Len(rgot) + 1 /\ Written' = Written
  <2>1. Passed' = Len(rgot) + 1
    BY <1>1, <1>5, <1>8 DEF Passed
  <2>2. (Len(rgot) + 1) + (Len(q["gb"]) - 1) = Len(rgot) + Len(q["gb"])
    <3>1. \A m, n \in Nat : (m + 1) + (n - 1) = m + n
      OBVIOUS
    <3> QED  BY <1>4, <1>5, <3>1
  <2> QED  BY <1>3, <1>4, <1>5, <2>1, <2>2 DEF Written
<1>11. RemoteInv'
  <2>1. 0 + Len(rgot) + 1 = Len(rgot) + 1 /\ Fits(rgot, 0, Payload, {})
    BY <1>4 DEF UpInv, RemoteInv
  <2>2. Fits(Append(rgot, Head(q["gb"])), 0, Payload, {})
    BY <1>4, <1>5, <1>6, <2>1, FitsPut
  <2> QED  BY <1>1, <1>8, <1>9, <2>2 DEF RemoteInv
<1>12. StrategyInv'
  BY <1>1, <1>2, <1>3, <1>4, <1>6, <1>9, <1>10 DEF StrategyInv
<1>13. GatewayInv'
  BY <1>1, <1>3, <1>4, <1>9, <1>10, LowerStays
<1> QED  BY <1>11, <1>12, <1>13 DEF UpInv

\* The strategy's server receives the request of the stream, data, or the end.
LEMMA UpReceives ==
  ASSUME CtlInv, UpInv, RemoteReceives, mid # "direct" PROVE UpInv'
<1> DEFINE x == Head(q["br"])
           u == Len(rgot) + One(ready)
           marks == IF "br" \in fin THEN {"close"} ELSE {}
<1>1. /\ UNCHANGED <<fin, deaf, mid, kind, b, bcopy, first, csent, g, gateway, client>> /\ Dialled
  BY RemoteGot DEF gateway, strategy, client
<1>2. In = "br" /\ Out = "rb" /\ b \in {"success", "copy"}
  BY <1>1, RemoteEnds
<1>3. /\ q["br"] # <<>> /\ q'["br"] = Tail(q["br"]) /\ q'["gb"] = q["gb"] /\ q'["cg"] = q["cg"]
      /\ \/ x \in {"new", "hdr"} /\ ready' = TRUE /\ rgot' = rgot
         \/ x = "close" /\ UNCHANGED <<ready, rgot>>
         \/ x \notin {"new", "hdr", "close"} /\ rgot' = Append(rgot, x) /\ ready' = ready
  BY <1>2, RemoteGot DEF Dirs
<1>4. Payload' = Payload /\ ToStrategy' = ToStrategy /\ ToRemote' = ToRemote
  BY <1>1, SameStreams
<1>5. /\ q["br"] \in Seq(Values) /\ rgot \in Seq(Values) /\ Len(rgot) \in Nat /\ u \in Nat
      /\ Len(q["br"]) \in Nat /\ One(ready) \in {0, 1} /\ (ready <=> One(ready) = 1)
      /\ Uploaded = u + Len(q["br"]) /\ Uploaded' = u' + Len(q'["br"])
  BY UpNumbers DEF Dirs, CtlInv, QueueInv, Uploaded
<1>6. Len(Tail(q["br"])) = Len(q["br"]) - 1 /\ x \in Values
  BY <1>3, <1>5
<1>7. Fits(q["br"], u, ToRemote, marks) /\ (~ready => rgot = <<>>)
  BY DEF UpInv, RemoteInv
<1>8. /\ DOMAIN ToRemote = 1..(Len(Payload) + 1) /\ Len(Payload) \in Nat
      /\ ToRemote[1] \in {"new", "hdr"} /\ \A i \in 1..Len(Payload) : ToRemote[i + 1] = Payload[i]
      /\ \A i \in 1..Len(Payload) : Payload[i] \notin {"new", "hdr", "close"}
  <2>1. \A i \in 1..Len(Payload) : Payload[i] \notin Words \ {"http", "tls"}
    BY PayloadIs
  <2> QED  BY <2>1, ToRemoteIs DEF Words
<1>9. u = 0 <=> ~ready
  <2>1. Len(<<>>) = 0
    OBVIOUS
  <2> QED  BY <1>5, <1>7, <2>1
<1> HIDE DEF x, marks
<1>10. /\ Fits(Tail(q["br"]), u + 1, ToRemote, marks)
       /\ (u + 1 \in DOMAIN ToRemote /\ x = ToRemote[u + 1]) \/ x \in marks
  <2> HIDE DEF u
  <2> QED  BY <1>3, <1>5, <1>7, FitsTake DEF x
<1>11. u > 0 /\ u + 1 \in DOMAIN ToRemote => u \in 1..Len(Payload) /\ ToRemote[u + 1] = Payload[u]
  <2> HIDE DEF u
  <2>1. u > 0 /\ u + 1 \in 1..(Len(Payload) + 1) => u \in 1..Len(Payload)
    BY <1>5, <1>8
  <2> QED  BY <1>8, <2>1
<1>12. UNCHANGED marks /\ (marks # {} => marks = {"close"} /\ Broken("br") /\ (Broken("br"))')
  BY <1>1 DEF marks, Broken
<1>13. ASSUME x \in {"new", "hdr"}, ready' = TRUE, rgot' = rgot PROVE u' = u + 1 /\ RemoteInv'
  <2>1. x \notin marks
    BY <1>12, <1>13
  <2>2. u = 0
    <3> SUFFICES ASSUME u > 0 PROVE FALSE
      BY <1>5
    <3>1. u \in 1..Len(Payload) /\ x = Payload[u]
      BY <1>10, <1>11, <2>1
    <3> QED  BY <1>8, <1>13, <3>1
  <2>3. u' = u + 1 /\ ~ready
    BY <1>5, <1>9, <1>13, <2>2 DEF One
  <2>4. Fits(q'["br"], u', ToRemote', marks')
    BY <1>3, <1>4, <1>10, <1>12, <2>3
  <2> QED  BY <1>1, <1>4, <1>13, <2>3, <2>4 DEF UpInv, RemoteInv, u, marks
<1>14. ASSUME x = "close", UNCHANGED <<ready, rgot>> PROVE "close" \in marks /\ RemoteInv'
  <2>1. ~(u + 1 \in DOMAIN ToRemote /\ x = ToRemote[u + 1])
    <3> SUFFICES ASSUME u + 1 \in DOMAIN ToRemote, x = ToRemote[u + 1] PROVE FALSE
      OBVIOUS
    <3>1. CASE u = 0
      <4>1. ToRemote[0 + 1] = ToRemote[1]
        OBVIOUS
      <4> QED  BY <1>8, <1>14, <3>1, <4>1
    <3>2. CASE u # 0
      BY <1>5, <1>8, <1>11, <1>14, <3>2
    <3> QED  BY <3>1, <3>2
  <2>2. Fits(Tail(q["br"]), u, ToRemote, marks)
    <3> HIDE DEF u
    <3> QED  BY <1>3, <1>5, <1>7, <2>1, FitsMarks DEF x
  <2>3. u' = u
    BY <1>14 DEF One
  <2>4. Fits(q'["br"], u', ToRemote', marks')
    BY <1>3, <1>4, <1>12, <2>2, <2>3
  <2> QED  BY <1>1, <1>4, <1>10, <1>14, <2>1, <2>4 DEF UpInv, RemoteInv, u, marks
<1>15. ASSUME x \notin {"new", "hdr", "close"}, rgot' = Append(rgot, x), ready' = ready
       PROVE  u' = u + 1 /\ RemoteInv'
  <2>1. u + 1 \in DOMAIN ToRemote /\ x = ToRemote[u + 1]
    BY <1>10, <1>12, <1>15
  <2>2. u > 0
    <3> SUFFICES ASSUME u = 0 PROVE FALSE
      BY <1>5
    <3>1. ToRemote[0 + 1] = ToRemote[1]
      OBVIOUS
    <3> QED  BY <1>8, <1>15, <2>1, <3>1
  <2>3. u \in 1..Len(Payload) /\ x = Payload[u] /\ ready
    BY <1>9, <1>11, <2>1, <2>2
  <2>4. u = 0 + Len(rgot) + 1 /\ DOMAIN Payload = 1..Len(Payload)
    <3>1. One(ready) = 1
      BY <1>5, <2>3
    <3>2. u = 0 + Len(rgot) + 1
      BY <1>5, <3>1
    <3>3. DOMAIN Payload = 1..Len(Payload)
      BY PayloadIs
    <3> QED  BY <3>2, <3>3
  <2>5. Fits(Append(rgot, x), 0, Payload, {})
    <3>1. Fits(rgot, 0, Payload, {})
      BY DEF UpInv, RemoteInv
    <3> HIDE DEF u
    <3> QED  BY <1>5, <1>6, <2>3, <2>4, <3>1, FitsPut
  <2>6. u' = u + 1
    <3>1. Len(Append(rgot, x)) = Len(rgot) + 1
      BY <1>5, <1>6
    <3>2. (Len(rgot) + 1) + One(ready) = (Len(rgot) + One(ready)) + 1
      BY <1>5
    <3> QED  BY <1>15, <3>1, <3>2 DEF One
  <2>7. Fits(q'["br"], u', ToRemote', marks')
    BY <1>3, <1>4, <1>10, <1>12, <2>6
  <2>8. Fits(rgot', 0, Payload', {}) /\ ready'
    BY <1>4, <1>15, <2>3, <2>5
  <2> QED  BY <1>1, <2>6, <2>7, <2>8 DEF RemoteInv, u, marks
<1>16. RemoteInv' /\ (u' = u + 1 \/ marks # {})
  BY <1>3, <1>13, <1>14, <1>15
<1>17. u' = u + 1 => Uploaded' = Uploaded
  <2> HIDE DEF u
  <2>1. (u + 1) + (Len(q["br"]) - 1) = u + Len(q["br"])
    <3>1. \A m, n \in Nat : (m + 1) + (n - 1) = m + n
      OBVIOUS
    <3> QED  BY <1>5, <3>1
  <2> QED  BY <1>3, <1>5, <1>6, <2>1
<1>18. UpOpen' => UpOpen /\ Uploaded' = Uploaded /\ Passed' = Passed
  <2>1. UpOpen' => UpOpen /\ marks = {}
    BY <1>1, <1>12 DEF UpOpen, Broken
  <2>2. Uploaded' = Uploaded => Passed' = Passed
    BY <1>1 DEF Passed
  <2> QED  BY <1>16, <1>17, <2>1, <2>2
<1>19. StrategyInv'
  <2>1. "first" \notin bcopy
    <3>1. Uploaded # 0
      BY <1>3, UpNumbers
    <3> QED  BY <3>1 DEF UpInv, StrategyInv
  <2>2. Uploaded > 0
    BY <1>3, UpNumbers
  <2>3. Uploaded' > 0 \/ (Broken("br"))'
    BY <1>12, <1>16, <1>17, <2>2
  <2> QED  BY <1>1, <1>3, <1>4, <1>18, <2>1, <2>3 DEF UpInv, StrategyInv
<1>20. GatewayInv'
  <2>1. UpOpen' => UpOpen /\ Written' = Written
    BY <1>3, <1>18 DEF Written
  <2> QED  BY <1>1, <1>3, <1>4, <2>1, LowerStays
<1> QED  BY <1>16, <1>19, <1>20 DEF UpInv

-----------------------------------------------------------------------------
(* The whole way up.                                                        *)

\* Before anything happens nothing is on its way.
LEMMA UpInitially == Init => UpInv
<1> SUFFICES ASSUME Init PROVE UpInv
  OBVIOUS
<1>1. /\ \A d \in Dirs : q[d] = <<>>
      /\ rgot = <<>> /\ ready = FALSE /\ mid = "none" /\ b = "out" /\ bcopy = {} /\ g = "out"
      /\ csent = -1 /\ fin = {}
  BY DEF Init, LinksInit, GatewayInit, StrategyInit
<1>2. RemoteInv
  BY <1>1, FitsEmpty DEF RemoteInv, Dirs
<1>3. StrategyInv
  BY <1>1, FitsEmpty DEF StrategyInv, Dirs
<1>4. GatewayInv
  <2>1. Len(q["cg"]) = csent + 1
    BY <1>1 DEF Dirs
  <2>2. Fits(q["cg"], 0, <<first>> \o Items, {})
    BY <1>1, FitsEmpty DEF Dirs
  <2> QED  BY <1>1, <2>1, <2>2 DEF GatewayInv
<1> QED  BY <1>2, <1>3, <1>4 DEF UpInv

\* One pass of a loop down, and what client and remote do on the way down.
LEMMA DownIsUpQuiet ==
  ASSUME CtlInv,
         \/ (GDown /\ UNCHANGED <<strategy, client, remote>>)
         \/ (BDown /\ UNCHANGED <<gateway, client, remote>>)
         \/ ClientReceives \/ RemoteSends \/ RemoteEndsStream
  PROVE  UpQuiet
<1>1. QueueInv
  BY DEF CtlInv
<1>2. CASE GDown /\ UNCHANGED <<strategy, client, remote>>
  <2>1. /\ q["bg"] # <<>> /\ q' = Put(Take(q, "bg"), "gc", Head(q["bg"]))
        /\ UNCHANGED <<fin, deaf, gateway, mid, strategy, client, remote>>
    BY <1>2 DEF GDown, Copy, Arrived, Set
  <2>2. "bg" \in Dirs /\ "gc" \in Dirs /\ "bg" # "gc"
    BY DEF Dirs
  <2>3. \A o \in Dirs : o # "bg" /\ o # "gc" => q'[o] = q[o]
    BY <1>1, <2>1, <2>2, CopyQ
  <2> QED  BY <2>1, <2>3 DEF UpQuiet, Shrinks, Stays, Dirs, gateway, strategy, client, remote
<1>3. CASE BDown /\ UNCHANGED <<gateway, client, remote>>
  <2>1. /\ q["rb"] # <<>> /\ q' = Put(Take(q, "rb"), "bg", Head(q["rb"]))
        /\ UNCHANGED <<fin, deaf, gateway, mid, strategy, client, remote>>
    BY <1>3 DEF BDown, Copy, Arrived, Set
  <2>2. "rb" \in Dirs /\ "bg" \in Dirs /\ "rb" # "bg"
    BY DEF Dirs
  <2>3. \A o \in Dirs : o # "rb" /\ o # "bg" => q'[o] = q[o]
    BY <1>1, <2>1, <2>2, CopyQ
  <2> QED  BY <2>1, <2>3 DEF UpQuiet, Shrinks, Stays, Dirs, gateway, strategy, client, remote
<1>4. CASE ClientReceives
  <2>1. /\ UNCHANGED <<fin, deaf, mid, gateway, strategy, first, csent, remote>>
        /\ \A o \in Dirs : q'[o] = IF o = "gc" THEN Tail(q["gc"]) ELSE q[o]
    BY <1>4, ClientGot
  <2> QED  BY <2>1 DEF UpQuiet, Shrinks, Stays, Dirs, gateway, strategy, remote
<1>5. CASE RemoteSends \/ RemoteEndsStream
  <2>1. /\ UNCHANGED <<fin, deaf, mid, gateway, strategy, client, rgot, ready, rdown>>
        /\ \A o \in Dirs : o # Out => q'[o] = q[o]
    BY <1>5, RemoteSent
  <2>2. Out \notin {"cg", "gb", "br"}
    BY DEF Out
  <2> QED  BY <2>1, <2>2 DEF UpQuiet, Shrinks, Stays, Dirs, gateway, strategy, client
<1> QED  BY <1>2, <1>3, <1>4, <1>5

\* The gateway keeps the way up, unless it passes on a request it should have answered.
LEMMA UpGateway ==
  ASSUME CtlInv, CtlInv', UpInv, ~Misrouted,
         GatewayHandler \/ GatewayUp \/ GatewayDown \/ GatewayMay,
         UNCHANGED <<strategy, client, remote>>
  PROVE  UpInv'
<1>1. CASE SniffFails \/ Rejected \/ DirectDialFails \/ BackendHandshakeFails \/ HttpPassingFails \/ GCopied
           \/ GUpEnds \/ GDownEnds
  BY <1>1, GatewayQuiet, UpStays DEF Quiet
<1>2. CASE \/ acceptLoop \/ sniffTargetForRouting \/ fillBuffer
           \/ \E r \in {"direct", "backend"} : DispatchTo(r)
  <2>1. UNCHANGED <<links, mid>> /\ g \in Early /\ g' \in Early
    BY <1>2 DEF acceptLoop, sniffTargetForRouting, fillBuffer, DispatchTo, GGoto, Early
  <2>2. UNCHANGED <<links, mid, strategy, client, remote>>
    BY <2>1
  <2> QED  BY <2>1, <2>2, UpSniffs
<1>3. CASE DirectDial
  <2>1. first \notin {"socks", "connect"}
    BY <1>3 DEF DirectDial, Misrouted
  <2> QED  BY <1>3, <2>1, UpDials
<1>4. CASE forwardTCP
  BY <1>4, UpForwards
<1>5. CASE forwardSocks5 \/ dialSocksProxy
  BY <1>5, UpAsks
<1>6. CASE handleSocks5BackendHandshake
  BY <1>6, UpShakes
<1>7. CASE ConnectRequest
  BY <1>7, UpRequests
<1>8. CASE HttpConnected
  BY <1>8, UpConnects
<1>9. CASE GUp
  BY <1>9, UpCopies
<1>10. CASE GDown
  BY <1>10, DownIsUpQuiet, UpStays
<1>11. CASE BackendDialFails \/ dialSocksProxyFails
  <2>1. g' = "done" /\ UNCHANGED <<mid, strategy, client, remote>> /\ Shrinks(Dirs \ {"gc"})
    BY <1>11, GatewayRefuses
  <2>2. UpQuiet
    BY <2>1 DEF UpQuiet, Shrinks, Stays, Dirs, strategy, client, remote
  <2> QED  BY <2>2, UpStays
<1> QED
  BY <1>1, <1>2, <1>3, <1>4, <1>5, <1>6, <1>7, <1>8, <1>9, <1>10, <1>11
     DEF GatewayHandler, GatewayUp, GatewayDown, GatewayMay

\* The strategy keeps the way up.
LEMMA UpStrategy ==
  ASSUME CtlInv, CtlInv', UpInv,
         Accept \/ StrategyHandler \/ StrategyUp \/ StrategyDown \/ Closing \/ CloseTunnel,
         UNCHANGED <<gateway, client, remote>>
  PROVE  UpInv'
<1>1. CASE HandshakeFails \/ createTunnelFails \/ HeaderFails \/ NoSuccess \/ BCopied \/ FirstChunkFails
           \/ CloseWriter \/ NoResponseHeader \/ BDownEnds \/ VlessDownEnds
           \/ (BUpEnds /\ ~AtEnd("gb")) \/ Closing \/ CloseTunnel
  BY <1>1, StrategyQuiet, UpStays DEF Quiet
<1>2. CASE Accept \/ Register \/ DialVlessWS \/ DialVlessGRPC
  BY <1>2, UpAccepts
<1>3. CASE Methods \/ Request \/ VlessRequest
  BY <1>3, UpGreets
<1>4. CASE createTunnel
  BY <1>4, UpCreates
<1>5. CASE waitForSuccess \/ DecodeResponseHeader
  BY <1>5, UpAnswered
<1>6. CASE FirstChunk
  BY <1>6, UpFirst
<1>7. CASE BUp
  BY <1>7, UpPasses
<1>8. CASE BDown
  BY <1>8, DownIsUpQuiet, UpStays
<1>9. CASE BUpEnds /\ AtEnd("gb")
  BY <1>9, UpTells
<1>10. CASE DialVlessFails
  <2>1. UNCHANGED <<mid, kind, bcopy>> /\ b' = "done" /\ Shrinks(Dirs \ {"bg"})
    BY <1>10, VlessTells
  <2>2. UpQuiet
    BY <2>1 DEF UpQuiet, Shrinks, Stays, Dirs, gateway, client, remote
  <2> QED  BY <2>2, UpStays
<1> QED
  BY <1>1, <1>2, <1>3, <1>4, <1>5, <1>6, <1>7, <1>8, <1>9, <1>10
     DEF StrategyHandler, StrategyUp, StrategyDown

\* A route is chosen once.
LEMMA MisroutedStays == ASSUME CtlInv, Misrouted, [Next]_vars PROVE Misrouted'
<1>1. first' = first
  BY DEF Next, GatewayStep, StrategyStep, vars, client, ClientSends, ClientReceives, ClientShuts,
     ClientCloses, RemoteReceives, RemoteSends, RemoteEndsStream, RemoteCloses
<1>2. CASE GatewayStep(GatewayHandler \/ GatewayUp \/ GatewayDown \/ GatewayMay)
  <2>1. g \notin {"out", "sniff", "spin", "dispatch"}
    BY DEF Misrouted, CtlInv, PlaceInv
  <2>2. route' = route
    BY <1>2, <2>1 DEF GatewayStep, GatewayHandler, GatewayUp, GatewayDown, GatewayMay,
       acceptLoop, sniffTargetForRouting, SniffFails, fillBuffer, DispatchTo, Rejected, DirectDial,
       DirectDialFails, forwardTCP, forwardSocks5, dialSocksProxy, BackendDialFails,
       handleSocks5BackendHandshake, ConnectRequest, HttpConnected, BackendHandshakeFails,
       HttpPassingFails, dialSocksProxyFails, GUp, GUpEnds, GDown, GDownEnds, GCopied, GGoto, gateway
  <2> QED  BY <1>1, <2>2 DEF Misrouted
<1>3. CASE ~GatewayStep(GatewayHandler \/ GatewayUp \/ GatewayDown \/ GatewayMay)
  <2>1. route' = route
    BY <1>3 DEF Next, StrategyStep, vars, gateway, ClientSends, ClientReceives, ClientShuts,
       ClientCloses, RemoteReceives, RemoteSends, RemoteEndsStream, RemoteCloses
  <2> QED  BY <1>1, <2>1 DEF Misrouted
<1> QED  BY <1>2, <1>3

\* Every step keeps the way up.
LEMMA UpStep == ASSUME CtlInv, UpInv, ~Misrouted, [Next]_vars PROVE UpInv'
<1>1. CtlInv'
  BY CtlStep
<1>2. CASE (GatewayHandler \/ GatewayUp \/ GatewayDown \/ GatewayMay)
           /\ UNCHANGED <<strategy, client, remote>>
  BY <1>1, <1>2, UpGateway
<1>3. CASE (Accept \/ StrategyHandler \/ StrategyUp \/ StrategyDown \/ Closing \/ CloseTunnel)
           /\ UNCHANGED <<gateway, client, remote>>
  BY <1>1, <1>3, UpStrategy
<1>4. CASE ClientSends
  BY <1>4, UpSends
<1>5. CASE RemoteReceives
  BY <1>5, UpDirect, UpReceives
<1>6. CASE ClientReceives \/ RemoteSends \/ RemoteEndsStream
  BY <1>1, <1>6, DownIsUpQuiet, UpStays
<1>7. CASE ClientShuts \/ ClientCloses \/ RemoteCloses
  BY <1>1, <1>7, EndsQuiet, UpStays DEF Quiet
<1>8. CASE UNCHANGED vars
  <2>1. UpQuiet
    BY <1>8 DEF vars, links, gateway, strategy, client, remote, UpQuiet, Shrinks, Stays
  <2> QED  BY <1>1, <2>1, UpStays
<1> QED
  BY <1>2, <1>3, <1>4, <1>5, <1>6, <1>7, <1>8 DEF Next, GatewayStep, StrategyStep

-----------------------------------------------------------------------------
(* The streams of the way down.                                             *)

\* A mark is sent after what fits.
LEMMA FitsMark ==
  ASSUME NEW s \in Seq(Values), NEW n \in Nat, NEW W, NEW marks, Fits(s, n, W, marks),
         NEW x \in Values, x \in marks
  PROVE  Fits(Append(s, x), n, W, marks)
<1> DEFINE t == Append(s, x)
<1>1. /\ t \in Seq(Values) /\ DOMAIN s = 1..Len(s) /\ DOMAIN t = 1..(Len(s) + 1) /\ Len(s) \in Nat
      /\ t[Len(s) + 1] = x /\ \A j \in 1..Len(s) : t[j] = s[j]
  OBVIOUS
<1> HIDE DEF t
<1>2. \A j \in 1..(Len(s) + 1) : j \in 1..Len(s) \/ j = Len(s) + 1
  BY <1>1
<1>3. SUFFICES ASSUME NEW j \in DOMAIN t
               PROVE  \/ n + j \in DOMAIN W /\ t[j] = W[n + j]
                      \/ \A l \in DOMAIN t : l >= j => t[l] \in marks
  BY DEF Fits, t
<1>4. CASE j \in 1..Len(s)
  <2>1. CASE n + j \in DOMAIN W /\ s[j] = W[n + j]
    BY <1>1, <1>4, <2>1
  <2>2. CASE \A l \in DOMAIN s : l >= j => s[l] \in marks
    BY <1>1, <1>2, <2>2
  <2> QED  BY <1>1, <1>4, <2>1, <2>2 DEF Fits
<1>5. CASE j = Len(s) + 1
  <2>1. \A l \in DOMAIN t : l >= j => l = Len(s) + 1
    BY <1>1, <1>5
  <2> QED  BY <1>1, <2>1
<1> QED  BY <1>1, <1>2, <1>4, <1>5

\* The remote's data, or the second answer of VLESS.
LEMMA RestIs ==
  ASSUME NEW x
  PROVE  /\ Rest(x) \in Seq(Values) /\ Len(Rest(x)) \in Nat /\ DOMAIN Rest(x) = 1..Len(Rest(x))
         /\ x = "fail" => Len(Rest(x)) = 1 /\ Rest(x)[1] = "fail"
         /\ x # "fail" => Rest(x) = Items /\ Len(Rest(x)) = N
<1>1. CASE x = "fail"
  <2>1. "fail" \in Values
    BY WordTypes DEF Words
  <2>2. Rest(x) = <<"fail">>
    BY <1>1 DEF Rest
  <2>3. \A v \in Values : /\ <<v>> \in Seq(Values) /\ Len(<<v>>) = 1 /\ DOMAIN <<v>> = 1..1
                         /\ <<v>>[1] = v
    OBVIOUS
  <2> QED  BY <1>1, <2>1, <2>2, <2>3
<1>2. CASE x # "fail"
  BY <1>2, ItemTypes DEF Rest, N
<1> QED  BY <1>1, <1>2

\* The answer is a yes, where one is asked for.
LEMMA AnswerIs ==
  /\ Answer \in Seq(Values) /\ Len(Answer) \in {0, 1}
  /\ Len(Answer) = 1 <=> first \in {"socks", "connect"}
  /\ Len(Answer) = 1 => Answer[1] = "ok"
<1>1. "ok" \in Values
  BY WordTypes DEF Words
<1> QED  BY <1>1 DEF Answer

\* What the client receives when its request is not refused.
LEMMA ToClientIs ==
  ASSUME NEW x, x # "bad"
  PROVE  /\ ToClient(x) \in Seq(Values) /\ DOMAIN ToClient(x) = 1..(Len(Answer) + Len(Rest(x)))
         /\ Len(ToClient(x)) = Len(Answer) + Len(Rest(x))
         /\ Len(Answer) = 1 => ToClient(x)[1] = "ok"
         /\ \A i \in 1..Len(Rest(x)) : ToClient(x)[Len(Answer) + i] = Rest(x)[i]
<1>1. ToClient(x) = Answer \o Rest(x)
  BY DEF ToClient
<1>2. Rest(x) \in Seq(Values) /\ Answer \in Seq(Values)
  BY RestIs, AnswerIs
<1>3. /\ Answer \o Rest(x) \in Seq(Values) /\ Len(Answer \o Rest(x)) = Len(Answer) + Len(Rest(x))
      /\ DOMAIN (Answer \o Rest(x)) = 1..(Len(Answer) + Len(Rest(x)))
      /\ \A i \in 1..Len(Answer) : (Answer \o Rest(x))[i] = Answer[i]
      /\ \A i \in 1..Len(Rest(x)) : (Answer \o Rest(x))[Len(Answer) + i] = Rest(x)[i]
  BY <1>2, ConcatIs
<1>4. Len(Answer) = 1 => 1 \in 1..Len(Answer) /\ Answer[1] = "ok"
  BY AnswerIs
<1> QED  BY <1>1, <1>3, <1>4

\* What the gateway receives from the strategy, or from the target.
LEMMA FromStrategyIs ==
  ASSUME NEW x
  PROVE  /\ FromStrategy(x) \in Seq(Values)
         /\ mid = "direct" => FromStrategy(x) = Rest(x)
         /\ mid # "direct" =>
               /\ DOMAIN FromStrategy(x) = 1..(2 + Len(Rest(x)))
               /\ FromStrategy(x)[1] = "method" /\ FromStrategy(x)[2] = "ok"
               /\ \A i \in 1..Len(Rest(x)) : FromStrategy(x)[2 + i] = Rest(x)[i]
<1>1. Rest(x) \in Seq(Values)
  BY RestIs
<1>2. CASE mid = "direct"
  <2>1. FromStrategy(x) = <<>> \o Rest(x)
    BY <1>2 DEF FromStrategy
  <2> QED  BY <1>1, <1>2, <2>1
<1>3. CASE mid # "direct"
  <2> DEFINE s == <<"method", "ok">>
  <2>1. FromStrategy(x) = s \o Rest(x)
    BY <1>3 DEF FromStrategy
  <2>2. s \in Seq(Values) /\ Len(s) = 2 /\ s[1] = "method" /\ s[2] = "ok"
    <3>1. "method" \in Values /\ "ok" \in Values
      BY WordTypes DEF Words
    <3> QED  BY <3>1
  <2> HIDE DEF s
  <2>3. /\ s \o Rest(x) \in Seq(Values) /\ DOMAIN (s \o Rest(x)) = 1..(Len(s) + Len(Rest(x)))
        /\ \A i \in 1..Len(s) : (s \o Rest(x))[i] = s[i]
        /\ \A i \in 1..Len(Rest(x)) : (s \o Rest(x))[Len(s) + i] = Rest(x)[i]
    BY <1>1, <2>2, ConcatIs
  <2>4. 1 \in 1..2 /\ 2 \in 1..2
    OBVIOUS
  <2> QED  BY <1>3, <2>1, <2>2, <2>3, <2>4
<1> QED  BY <1>2, <1>3

\* What the strategy receives from its server.
LEMMA FromRemoteIs ==
  /\ FromRemote \in Seq(Values) /\ DOMAIN FromRemote = 1..(1 + N) /\ N \in Nat
  /\ FromRemote[1] = IF kind = "worker" THEN "success" ELSE "hdr"
  /\ \A i \in 1..N : FromRemote[1 + i] = Items[i]
<1> DEFINE x == IF kind = "worker" THEN "success" ELSE "hdr"
           s == <<x>>
<1>1. Items \in Seq(Values) /\ Len(Items) = N /\ N \in Nat
  BY ItemTypes DEF N
<1>2. x \in Values
  BY WordTypes DEF Words
<1>3. FromRemote = s \o Items
  BY DEF FromRemote
<1> HIDE DEF x
<1>4. s \in Seq(Values) /\ Len(s) = 1 /\ s[1] = x
  BY <1>2
<1> HIDE DEF s
<1>5. /\ s \o Items \in Seq(Values) /\ DOMAIN (s \o Items) = 1..(Len(s) + Len(Items))
      /\ \A i \in 1..Len(s) : (s \o Items)[i] = s[i]
      /\ \A i \in 1..Len(Items) : (s \o Items)[Len(s) + i] = Items[i]
  BY <1>1, <1>4, ConcatIs
<1>6. 1 \in 1..1
  OBVIOUS
<1> QED  BY <1>1, <1>3, <1>4, <1>5, <1>6 DEF x

\* The streams are the same as long as the connection is.
LEMMA SameAnswers ==
  ASSUME first' = first
  PROVE  /\ Answer' = Answer /\ \A x : ToClient(x)' = ToClient(x)
         /\ (mid' = "direct" <=> mid = "direct") => \A x : FromStrategy(x)' = FromStrategy(x)
         /\ kind' = kind => FromRemote' = FromRemote
  BY DEF Answer, ToClient, FromStrategy, FromRemote, Rest

\* Numbers of items.
LEMMA DownNumbers ==
  ASSUME CtlInv
  PROVE  /\ cgot \in Seq(Values) /\ Len(cgot) \in Nat /\ Len(Answer) \in {0, 1}
         /\ One(ready) \in {0, 1} /\ rsent \in 0..N /\ N \in Nat
         /\ \A d \in Dirs : q[d] \in Seq(Values) /\ Len(q[d]) \in Nat
         /\ Taken \in Nat /\ Answered \in Nat
         /\ Answered = Taken + Len(q["bg"])
<1>1. cgot \in Seq(Values) /\ \A d \in Dirs : q[d] \in Seq(Values)
  BY DEF CtlInv, QueueInv
<1>2. Len(cgot) \in Nat /\ \A d \in Dirs : Len(q[d]) \in Nat
  BY <1>1
<1>3. One(ready) \in {0, 1} /\ rsent \in 0..N /\ N \in Nat
  BY ItemTypes DEF One, CtlInv, TypeInv
<1>4. Len(Answer) \in {0, 1} /\ "gc" \in Dirs /\ "bg" \in Dirs
  BY AnswerIs DEF Dirs
<1>5. Taken \in Nat
  <2> DEFINE a == Len(Answer)
             m == Len(cgot)
             n == Len(q["gc"])
  <2>1. a \in {0, 1} /\ m \in Nat /\ n \in Nat
    BY <1>2, <1>4
  <2>2. Taken = IF mid = "direct" THEN m + n
                ELSE IF g = "reply" THEN 1 ELSE IF g = "copy" THEN 2 - a + m + n ELSE 0
    BY DEF Taken
  <2> HIDE DEF a, m, n
  <2>3. m + n \in Nat /\ 2 - a + m + n \in Nat
    BY <2>1
  <2> QED  BY <2>2, <2>3
<1>6. Answered \in Nat
  BY <1>2, <1>4, <1>5 DEF Answered
<1> QED  BY <1>1, <1>2, <1>3, <1>4, <1>5, <1>6 DEF Answered


-----------------------------------------------------------------------------
(* The way down.                                                            *)

\* A step that closes keeps what is on its way to a client that still listens.
LEMMA OpenStays ==
  ASSUME CtlInv', DownQuiet, DownOpen'
  PROVE  /\ DownOpen /\ g' = g /\ q'["gc"] = q["gc"] /\ q'["bg"] = q["bg"]
         /\ Taken' = Taken /\ Answered' = Answered
<1>1. /\ UNCHANGED <<first, mid, cgot>> /\ g' \in {g, "done"} /\ fin \subseteq fin' /\ deaf \subseteq deaf'
      /\ \A d \in {"gc", "bg", "rb"} : q'[d] = q[d] \/ (q'[d] = <<>> /\ d \in deaf')
  BY DEF DownQuiet, Shrinks, Stays
<1>2. g' # "done" /\ "gc" \notin fin' \cup deaf'
  BY DEF DownOpen, Broken
<1>3. "bg" \notin deaf'
  BY <1>2 DEF CtlInv, LoopInv
<1>4. g' = g /\ q'["gc"] = q["gc"] /\ q'["bg"] = q["bg"]
  BY <1>1, <1>2, <1>3
<1>5. DownOpen
  BY <1>1, <1>2 DEF DownOpen, Broken
<1>6. Answer' = Answer
  BY <1>1, SameAnswers
<1>7. Taken' = Taken
  BY <1>1, <1>4, <1>6 DEF Taken
<1> QED  BY <1>4, <1>5, <1>7 DEF Answered

\* What the client has and gets stays.
LEMMA ClientStays ==
  ASSUME CtlInv', DownQuiet, NEW x, ClientInv(x) PROVE ClientInv(x)'
<1>1. /\ UNCHANGED <<first, mid, cgot>> /\ (q'["gc"] = q["gc"] \/ q'["gc"] = <<>>)
  BY DEF DownQuiet, Shrinks, Stays
<1>2. ToClient(x)' = ToClient(x) /\ FromStrategy(x)' = FromStrategy(x)
  BY <1>1, SameAnswers
<1>3. Fits(cgot', 0, ToClient(x)', {})
  BY <1>1, <1>2 DEF ClientInv
<1>4. Fits(q'["gc"], Len(cgot'), ToClient(x)', {})
  BY <1>1, <1>2, FitsEmpty DEF ClientInv
<1>5. DownOpen' => Fits(q'["bg"], Taken', FromStrategy(x)', {})
  BY <1>2, OpenStays DEF ClientInv
<1> QED  BY <1>3, <1>4, <1>5 DEF ClientInv

\* So does what the strategy still has for it.
LEMMA AnswerStays ==
  ASSUME CtlInv, CtlInv', DownQuiet, DataInv PROVE DataInv'
<1>1. /\ UNCHANGED <<first, mid, kind, ready, rsent, cgot>> /\ b' \in {b, "done"}
      /\ fin \subseteq fin' /\ deaf \subseteq deaf'
      /\ \A d \in {"gc", "bg", "rb"} : q'[d] = q[d] \/ (q'[d] = <<>> /\ d \in deaf')
  BY DEF DownQuiet, Shrinks, Stays
<1>2. AnswerInv'
  <2> SUFFICES ASSUME DownOpen', (~Broken("bg"))'
               PROVE  (IF mid = "direct" THEN rsent < N => Answered = rsent
                       ELSE first # "tls" =>
              /\ b \in {"out", "accepted", "hello"} => Answered = 0
              /\ b = "request" => Answered = 1
              /\ b = "dial" => Answered = IF kind = "worker" THEN 1 ELSE 2
              /\ b = "success" => Answered = 1
              /\ b = "copy" => Answered > 1
              /\ "header" \in bcopy => Answered = 2
              /\ b \in {"success", "copy"} =>
                    /\ Fits(q["rb"], Received, FromRemote, Marks)
                    /\ ~Broken("rb") /\ (rsent < N \/ ~ready) =>
                          Received + Len(q["rb"]) = One(ready) + rsent)'
    BY DEF AnswerInv
  <2>1. DownOpen /\ Answered' = Answered /\ ~Broken("bg")
    BY <1>1, OpenStays DEF Broken
  <2>2. "header" \in bcopy' <=> "header" \in bcopy
    BY DEF DownQuiet, Broken
  <2>3. Received' = Received
    BY <2>1, <2>2 DEF Received
  <2>4. FromRemote' = FromRemote
    BY <1>1, SameAnswers
  <2>5. CASE mid = "direct"
    BY <1>1, <2>1, <2>5 DEF DataInv, AnswerInv
  <2>6. CASE mid # "direct" /\ first # "tls"
    <3>1. ASSUME b' \in {"success", "copy"}
          PROVE  /\ b \in {"success", "copy"}
                 /\ Fits(q["rb"], Received, FromRemote, Marks)
                 /\ ~Broken("rb") /\ (rsent < N \/ ~ready) =>
                       Received + Len(q["rb"]) = One(ready) + rsent
      BY <1>1, <2>1, <2>6, <3>1 DEF DataInv, AnswerInv
    <3>2. ASSUME b' \in {"success", "copy"}
          PROVE  Fits(q'["rb"], Received', FromRemote', Marks')
      BY <1>1, <2>3, <2>4, <3>1, <3>2, FitsEmpty DEF Marks
    <3>3. ASSUME b' \in {"success", "copy"}, (~Broken("rb"))', rsent' < N \/ ~ready'
          PROVE  Received' + Len(q'["rb"]) = One(ready') + rsent'
      <4>1. q'["rb"] = q["rb"] /\ ~Broken("rb")
        BY <1>1, <3>3 DEF Broken
      <4> QED  BY <1>1, <2>3, <3>1, <3>3, <4>1
    <3>4. /\ b' \in {"out", "accepted", "hello"} => Answered = 0
          /\ b' = "request" => Answered = 1
          /\ b' = "dial" => Answered = IF kind = "worker" THEN 1 ELSE 2
          /\ b' = "success" => Answered = 1
          /\ b' = "copy" => Answered > 1
          /\ "header" \in bcopy' => Answered = 2
      BY <1>1, <2>1, <2>2, <2>6 DEF DataInv, AnswerInv
    <3> QED  BY <1>1, <2>1, <2>6, <3>2, <3>3, <3>4
  <2> QED  BY <1>1, <2>5, <2>6
<1>3. ClientInv("data")'
  BY ClientStays DEF DataInv
<1>4. (mid # "direct" /\ ~ready => rsent = 0 /\ q["rb"] = <<>>)'
  BY <1>1 DEF DataInv
<1>5. (mid # "direct" /\ first = "tls" => q["bg"] = <<>> /\ q["gc"] = <<>> /\ cgot = <<>>)'
  BY <1>1 DEF DataInv
<1> QED  BY <1>2, <1>3, <1>4, <1>5 DEF DataInv

\* A refusal stays the only answer.
LEMMA BadStays ==
  ASSUME BadInv, g' = "done", cgot' = cgot, q'["gc"] = q["gc"] \/ q'["gc"] = <<>> PROVE BadInv'
<1>1. Fits(cgot, 0, <<"bad">>, {}) /\ Fits(q["gc"], Len(cgot), <<"bad">>, {})
  BY DEF BadInv, ClientInv, ToClient
<1>2. Fits(q'["gc"], Len(cgot), <<"bad">>, {})
  BY <1>1, FitsEmpty
<1> QED  BY <1>1, <1>2 DEF BadInv, ClientInv, ToClient, DownOpen

\* A step that closes, or that the way down has nothing to do with.
LEMMA DownStays ==
  ASSUME CtlInv, CtlInv', DownInv, DownQuiet PROVE DownInv'
<1>1. /\ UNCHANGED <<first, kind, cgot>> /\ b' \in {b, "done"} /\ g' \in {g, "done"}
      /\ fin \subseteq fin' /\ (q'["gc"] = q["gc"] \/ q'["gc"] = <<>>)
  BY DEF DownQuiet, Shrinks, Stays
<1>2. CASE DataInv
  BY <1>2, AnswerStays DEF DownInv
<1>3. CASE FailInv
  BY <1>1, <1>3, ClientStays DEF DownInv, FailInv
<1>4. CASE BadInv
  <2>1. g' = "done"
    BY <1>1, <1>4 DEF BadInv
  <2> QED  BY <1>1, <1>4, <2>1, BadStays DEF DownInv
<1> QED  BY <1>2, <1>3, <1>4 DEF DownInv


\* A step that leaves the strategy's side leaves what it still has for the client.
LEMMA AnswerKept ==
  ASSUME DataInv, UNCHANGED <<fin, deaf, strategy, remote, first, mid>>, q'["rb"] = q["rb"],
         DownOpen' /\ ~Broken("bg") => DownOpen /\ Answered' = Answered
  PROVE  AnswerInv'
<1>1. UNCHANGED <<kind, b, bcopy, ready, rsent, first, mid>>
  BY DEF strategy, remote
<1>2. FromRemote' = FromRemote
  BY <1>1, SameAnswers
<1>3. ((~Broken("rb"))' <=> ~Broken("rb")) /\ ((~Broken("bg"))' <=> ~Broken("bg"))
  BY DEF Broken
<1>4. Answered' = Answered => Received' = Received
  BY <1>1 DEF Received
<1>5. One(ready)' = One(ready) /\ Marks' = Marks
  BY <1>1 DEF Marks
<1> QED  BY <1>1, <1>2, <1>3, <1>4, <1>5 DEF DataInv, AnswerInv

\* Before the gateway has dialled, nothing comes back.
LEMMA DownBefore ==
  ASSUME CtlInv, DownInv, g \in Early
  PROVE  /\ DataInv /\ mid = "none" /\ b = "out" /\ ~ready /\ rsent = 0 /\ bcopy = {}
         /\ q["bg"] = <<>> /\ q["gc"] = <<>> /\ cgot = <<>> /\ q["rb"] = <<>>
<1>1. /\ mid = "none" /\ b = "out" /\ ~ready /\ bcopy = {}
      /\ q["bg"] = <<>> /\ q["gc"] = <<>> /\ cgot = <<>> /\ q["rb"] = <<>>
  BY DEF CtlInv, PlaceInv, EmptyInv, LoopInv, Early, Before
<1>2. DataInv
  BY <1>1 DEF DownInv, FailInv, BadInv, Early
<1> QED  BY <1>1, <1>2 DEF DataInv

\* The gateway's handler goes on before it has dialled, or dials.
LEMMA DownDials ==
  ASSUME CtlInv, DownInv, g \in Early, UNCHANGED <<fin, deaf, strategy, client, remote>>,
         \A d \in {"gc", "bg", "rb"} : q'[d] = q[d],
         \/ (g' \in Early /\ mid' = mid)
         \/ (g' = "method" /\ mid' = "pending")
         \/ (g' = "copy" /\ mid' = "pending" /\ first = "tls")
         \/ (g' = "copy" /\ mid' = "direct")
  PROVE  DownInv'
<1>1. /\ mid = "none" /\ b = "out" /\ ~ready /\ rsent = 0 /\ bcopy = {}
      /\ q["bg"] = <<>> /\ q["gc"] = <<>> /\ cgot = <<>> /\ q["rb"] = <<>>
  BY DownBefore
<1>2. /\ q'["bg"] = <<>> /\ q'["gc"] = <<>> /\ q'["rb"] = <<>>
      /\ UNCHANGED <<first, cgot, b, ready, rsent, bcopy>>
  BY <1>1 DEF client, strategy, remote
<1>3. ClientInv("data")'
  BY <1>1, <1>2, FitsEmpty DEF ClientInv
<1>4. Len(<<>>) = 0 /\ 0 + 0 = 0
  OBVIOUS
<1>5. AnswerInv'
  <2>1. mid' = "direct" \/ g' # "copy" => Taken' = 0
    BY <1>1, <1>2, <1>4 DEF Taken, Early
  <2>2. mid' = "direct" \/ g' # "copy" => Answered' = 0
    BY <1>2, <1>4, <2>1 DEF Answered
  <2> QED  BY <1>1, <1>2, <2>2 DEF AnswerInv, Early
<1> QED  BY <1>1, <1>2, <1>3, <1>5 DEF DownInv, DataInv

\* The steps of the gateway's handler up to the connection to its backend.
LEMMA DownEarly ==
  ASSUME CtlInv, DownInv,
         \/ acceptLoop \/ sniffTargetForRouting \/ fillBuffer \/ DirectDial \/ forwardTCP
         \/ forwardSocks5 \/ dialSocksProxy \/ \E r \in {"direct", "backend"} : DispatchTo(r),
         UNCHANGED <<strategy, client, remote>>
  PROVE  DownInv'
<1>1. CASE \/ acceptLoop \/ sniffTargetForRouting \/ fillBuffer
           \/ \E r \in {"direct", "backend"} : DispatchTo(r)
  <2>1. UNCHANGED <<fin, deaf, q, mid>> /\ g \in Early /\ g' \in Early
    BY <1>1 DEF acceptLoop, sniffTargetForRouting, fillBuffer, DispatchTo, GGoto, Early, links
  <2> QED  BY <2>1, DownDials
<1>2. CASE DirectDial \/ forwardTCP
  <2>1. /\ UNCHANGED <<fin, deaf, q>> /\ g = "dial" /\ g' = "copy"
        /\ mid' = "direct" \/ (mid' = "pending" /\ proto = "tls")
    BY <1>2 DEF DirectDial, forwardTCP, GGoto, links
  <2>2. proto = first /\ g \in Early
    BY <2>1 DEF CtlInv, PlaceInv, Early
  <2> QED  BY <2>1, <2>2, DownDials
<1>3. CASE forwardSocks5 \/ dialSocksProxy
  <2>1. /\ UNCHANGED <<fin, deaf>> /\ q' = Put(q, "gb", "hello") /\ g = "dial" /\ g' = "method"
        /\ mid' = "pending"
    BY <1>3 DEF forwardSocks5, dialSocksProxy, GGoto, Set
  <2>2. \A d \in {"gc", "bg", "rb"} : q'[d] = q[d]
    <3>1. q \in [Dirs -> Seq(Values)]
      BY DEF CtlInv, QueueInv
    <3> QED  BY <2>1, <3>1 DEF Put, Dirs
  <2> QED  BY <2>1, <2>2, DownDials DEF Early
<1> QED  BY <1>1, <1>2, <1>3


\* The gateway takes the next item from the strategy, and what follows fits.
LEMMA DownTakes ==
  ASSUME CtlInv, NEW x, ClientInv(x), DownOpen, q["bg"] # <<>>
  PROVE  /\ Fits(Tail(q["bg"]), Taken + 1, FromStrategy(x), {})
         /\ Taken + 1 \in DOMAIN FromStrategy(x) /\ Head(q["bg"]) = FromStrategy(x)[Taken + 1]
         /\ Taken \in Nat /\ Head(q["bg"]) \in Values
         /\ (Taken + 1) + Len(Tail(q["bg"])) = Answered
<1>1. /\ q["bg"] \in Seq(Values) /\ Taken \in Nat /\ Len(q["bg"]) \in Nat
      /\ Answered = Taken + Len(q["bg"])
  BY DownNumbers DEF Dirs
<1>2. Fits(q["bg"], Taken, FromStrategy(x), {})
  BY DEF ClientInv
<1>3. /\ Fits(Tail(q["bg"]), Taken + 1, FromStrategy(x), {})
      /\ (Taken + 1 \in DOMAIN FromStrategy(x) /\ Head(q["bg"]) = FromStrategy(x)[Taken + 1])
         \/ Head(q["bg"]) \in {}
  BY <1>1, <1>2, FitsTake
<1>4. Len(Tail(q["bg"])) = Len(q["bg"]) - 1 /\ Head(q["bg"]) \in Values
  BY <1>1
<1>5. (Taken + 1) + (Len(q["bg"]) - 1) = Taken + Len(q["bg"])
  <2>1. \A m, n \in Nat : (m + 1) + (n - 1) = m + n
    OBVIOUS
  <2> QED  BY <1>1, <2>1
<1> QED  BY <1>1, <1>3, <1>4, <1>5

\* A step of the gateway's handler that keeps what the client should get.
LEMMA DownPasses ==
  ASSUME DownInv, g # "done", UNCHANGED <<fin, deaf, strategy, remote, first, mid>>,
         q'["rb"] = q["rb"], \A x \in {"data", "fail"} : ClientInv(x) => ClientInv(x)',
         DownOpen' => DownOpen /\ Answered' = Answered,
         mid # "direct" => first # "tls"
  PROVE  DownInv'
<1>1. UNCHANGED <<kind, b, ready, rsent>>
  BY DEF strategy, remote
<1>2. CASE DataInv
  <2>1. AnswerInv'
    BY <1>2, AnswerKept
  <2>2. ClientInv("data")'
    BY <1>2 DEF DataInv
  <2> QED  BY <1>1, <1>2, <2>1, <2>2 DEF DownInv, DataInv
<1>3. CASE FailInv
  <2>1. ClientInv("fail")'
    BY <1>3 DEF FailInv
  <2> QED  BY <1>1, <1>3, <2>1 DEF DownInv, FailInv
<1> QED  BY <1>2, <1>3 DEF DownInv, BadInv

\* The strategy's method is known: the gateway has taken one item.
LEMMA DownShakes ==
  ASSUME CtlInv, DownInv, handleSocks5BackendHandshake \/ ConnectRequest,
         UNCHANGED <<strategy, client, remote>>
  PROVE  DownInv'
<1>1. /\ g = "method" /\ q["bg"] # <<>> /\ UNCHANGED <<fin, deaf, mid>>
      /\ (g' = "copy" /\ proto = "socks") \/ (g' = "reply" /\ proto # "socks")
  BY DEF handleSocks5BackendHandshake, ConnectRequest, GGoto, Heard, Arrived, Set
<1>2. /\ q'["bg"] = Tail(q["bg"]) /\ q'["gc"] = q["gc"] /\ q'["rb"] = q["rb"]
  <2>1. q \in [Dirs -> Seq(Values)]
    BY DEF CtlInv, QueueInv
  <2>2. q' = Take(q, "bg") \/ q' = Put(Take(q, "bg"), "gb", "socks")
    BY DEF handleSocks5BackendHandshake, ConnectRequest, Set
  <2> QED  BY <2>1, <2>2 DEF Put, Take, Dirs
<1>3. /\ mid # "none" /\ mid # "direct" /\ proto = first /\ proto # "tls"
      /\ q["gc"] = <<>> /\ cgot = <<>> /\ cgot' = cgot /\ first' = first
  BY <1>1 DEF CtlInv, PlaceInv, EmptyInv, Early, client
<1>4. Taken = 0
  BY <1>1, <1>3 DEF Taken
<1>5. Taken' = 1
  <2>1. Answer' = Answer /\ (g' = "copy" => Len(Answer) = 1) /\ Len(<<>>) = 0
    BY <1>1, <1>3, SameAnswers, AnswerIs
  <2> DEFINE a == Len(Answer')
  <2>2. g' = "copy" => Taken' = 2 - a + 0 + 0 /\ a = 1
    BY <1>1, <1>2, <1>3, <2>1 DEF Taken
  <2> HIDE DEF a
  <2>3. g' = "copy" => Taken' = 1
    BY <2>2
  <2>4. g' = "reply" => Taken' = 1
    BY <1>1, <1>3 DEF Taken
  <2> QED  BY <1>1, <2>3, <2>4
<1>6. DownOpen' => DownOpen
  BY <1>1 DEF DownOpen, Broken
<1>7. ASSUME NEW x \in {"data", "fail"}, ClientInv(x) PROVE ClientInv(x)'
  <2>1. ToClient(x)' = ToClient(x) /\ FromStrategy(x)' = FromStrategy(x)
    BY <1>1, <1>3, SameAnswers
  <2>2. DownOpen => Fits(Tail(q["bg"]), 0 + 1, FromStrategy(x), {})
    BY <1>1, <1>4, <1>7, DownTakes
  <2>3. DownOpen' => Fits(q'["bg"], Taken', FromStrategy(x)', {})
    BY <1>2, <1>5, <1>6, <2>1, <2>2
  <2> QED  BY <1>2, <1>3, <1>7, <2>1, <2>3 DEF ClientInv
<1>8. Answered' = Answered
  <2>1. q["bg"] \in Seq(Values) /\ Answered = Taken + Len(q["bg"]) /\ Len(q["bg"]) \in Nat
    BY DownNumbers DEF Dirs
  <2>2. Len(Tail(q["bg"])) = Len(q["bg"]) - 1
    BY <1>1, <2>1
  <2>3. 1 + (Len(q["bg"]) - 1) = 0 + Len(q["bg"])
    BY <2>1
  <2> QED  BY <1>2, <1>4, <1>5, <2>1, <2>2, <2>3 DEF Answered
<1> QED  BY <1>1, <1>2, <1>3, <1>6, <1>7, <1>8, DownPasses


\* dialSocksProxy is done: the client of CONNECT has its answer.
LEMMA DownConnects ==
  ASSUME CtlInv, DownInv, HttpConnected, UNCHANGED <<strategy, client, remote>> PROVE DownInv'
<1>1. /\ g = "reply" /\ g' = "copy" /\ UNCHANGED <<fin, deaf, mid>> /\ proto \in {"connect", "http"}
      /\ mid # "direct" /\ first = proto /\ q["bg"] # <<>>
      /\ q'["bg"] = Tail(q["bg"]) /\ q'["rb"] = q["rb"]
      /\ q'["gc"] = IF proto = "http" \/ Broken("gc") THEN q["gc"] ELSE Append(q["gc"], "ok")
  BY ConnectedQ
<1>2. q["gc"] = <<>> /\ cgot = <<>> /\ cgot' = cgot /\ first' = first
  BY <1>1 DEF CtlInv, EmptyInv, client
<1>3. Taken = 1
  BY <1>1 DEF Taken
<1>4. Answer' = Answer /\ (Len(Answer) = IF first = "connect" THEN 1 ELSE 0)
  BY <1>1, <1>2, SameAnswers, AnswerIs
<1>5. DownOpen' => DownOpen /\ ~Broken("gc")
  BY <1>1 DEF DownOpen, Broken
<1>6. Len(<<>>) = 0 /\ Len(Append(<<>>, "ok")) = 1
  OBVIOUS
<1>7. DownOpen' => Taken' = 2
  <2> DEFINE a == Len(Answer')
             n == Len(q'["gc"])
  <2>1. Taken' = 2 - a + 0 + n
    BY <1>1, <1>2, <1>6 DEF Taken
  <2>2. DownOpen' => (a = 1 /\ n = 1) \/ (a = 0 /\ n = 0)
    BY <1>1, <1>2, <1>4, <1>5, <1>6
  <2> HIDE DEF a, n
  <2> QED  BY <2>1, <2>2
<1>8. ASSUME NEW x \in {"data", "fail"}, ClientInv(x) PROVE ClientInv(x)'
  <2>1. ToClient(x)' = ToClient(x) /\ FromStrategy(x)' = FromStrategy(x)
    BY <1>1, <1>2, SameAnswers
  <2>2. DownOpen => Fits(Tail(q["bg"]), 1 + 1, FromStrategy(x), {})
    BY <1>1, <1>3, <1>8, DownTakes
  <2>3. DownOpen' => Fits(q'["bg"], Taken', FromStrategy(x)', {})
    BY <1>1, <1>5, <1>7, <2>1, <2>2
  <2>4. Fits(q'["gc"], 0, ToClient(x), {})
    <3>1. CASE q'["gc"] = <<>>
      BY <3>1, FitsEmpty
    <3>2. CASE first = "connect" /\ q'["gc"] = Append(<<>>, "ok")
      <4>1. Len(Answer) = 1 /\ Len(Rest(x)) \in Nat
        BY <1>4, <3>2, RestIs
      <4>2. DOMAIN ToClient(x) = 1..(Len(Answer) + Len(Rest(x))) /\ ToClient(x)[1] = "ok"
        BY <4>1, ToClientIs
      <4>3. 1 \in DOMAIN ToClient(x)
        BY <4>1, <4>2
      <4>4. Fits(<<>>, 0, ToClient(x), {}) /\ <<>> \in Seq(Values) /\ "ok" \in Values
        BY FitsEmpty, WordTypes DEF Words
      <4>5. 0 + Len(<<>>) + 1 = 1
        OBVIOUS
      <4> QED  BY <3>2, <4>2, <4>3, <4>4, <4>5, FitsPut
    <3> QED  BY <1>1, <1>2, <3>1, <3>2
  <2> QED  BY <1>2, <1>6, <1>8, <2>1, <2>3, <2>4 DEF ClientInv
<1>9. DownOpen' => Answered' = Answered
  <2>1. q["bg"] \in Seq(Values) /\ Answered = Taken + Len(q["bg"]) /\ Len(q["bg"]) \in Nat
    BY DownNumbers DEF Dirs
  <2>2. Len(Tail(q["bg"])) = Len(q["bg"]) - 1
    BY <1>1, <2>1
  <2>3. 2 + (Len(q["bg"]) - 1) = 1 + Len(q["bg"])
    BY <2>1
  <2> QED  BY <1>1, <1>3, <1>7, <2>1, <2>2, <2>3 DEF Answered
<1> QED  BY <1>1, <1>2, <1>5, <1>8, <1>9, DownPasses

\* The gateway takes a certain item for the client, and that is the one it should get next.
LEMMA NextItem ==
  ASSUME NEW x, x # "bad", NEW k \in Nat, NEW t \in Nat, mid = "direct" => Len(Answer) = 0,
         t = IF mid = "direct" THEN k ELSE 2 - Len(Answer) + k, t + 1 \in DOMAIN FromStrategy(x)
  PROVE  k + 1 \in DOMAIN ToClient(x) /\ ToClient(x)[k + 1] = FromStrategy(x)[t + 1]
<1> DEFINE a == Len(Answer)
           n == Len(Rest(x))
<1>1. /\ a \in {0, 1} /\ n \in Nat /\ DOMAIN Rest(x) = 1..n
      /\ DOMAIN ToClient(x) = 1..(a + n) /\ (a = 1 => ToClient(x)[1] = "ok")
      /\ \A i \in 1..n : ToClient(x)[a + i] = Rest(x)[i]
  BY AnswerIs, RestIs, ToClientIs
<1>2. /\ mid = "direct" => FromStrategy(x) = Rest(x) /\ a = 0 /\ t = k
      /\ mid # "direct" =>
            /\ DOMAIN FromStrategy(x) = 1..(2 + n)
            /\ FromStrategy(x)[1] = "method" /\ FromStrategy(x)[2] = "ok"
            /\ \A i \in 1..n : FromStrategy(x)[2 + i] = Rest(x)[i]
            /\ t = 2 - a + k
  BY FromStrategyIs
<1> HIDE DEF a, n
<1>3. CASE mid = "direct"
  <2>1. k + 1 \in 1..n /\ 0 + (k + 1) = k + 1 /\ 0 + n = n
    BY <1>1, <1>2, <1>3
  <2>2. ToClient(x)[0 + (k + 1)] = Rest(x)[k + 1]
    BY <1>1, <1>2, <1>3, <2>1
  <2> QED  BY <1>1, <1>2, <1>3, <2>1, <2>2
<1>4. CASE mid # "direct" /\ a = 0
  <2>1. t + 1 = 2 + (k + 1) /\ k + 1 \in 1..n /\ 0 + (k + 1) = k + 1 /\ 0 + n = n
    BY <1>1, <1>2, <1>4
  <2>2. ToClient(x)[0 + (k + 1)] = Rest(x)[k + 1] /\ FromStrategy(x)[2 + (k + 1)] = Rest(x)[k + 1]
    BY <1>1, <1>2, <1>4, <2>1
  <2> QED  BY <1>1, <1>4, <2>1, <2>2
<1>5. CASE mid # "direct" /\ a = 1
  <2>1. t + 1 = 2 + k /\ k + 1 = 1 + k /\ k + 1 \in 1..(1 + n)
    BY <1>1, <1>2, <1>5
  <2>2. CASE k = 0
    <3>1. t + 1 = 2 /\ k + 1 = 1
      BY <2>1, <2>2
    <3> QED  BY <1>1, <1>2, <1>5, <2>1, <3>1
  <2>3. CASE k # 0
    <3>1. k \in 1..n
      BY <1>1, <2>1, <2>3
    <3>2. ToClient(x)[1 + k] = Rest(x)[k] /\ FromStrategy(x)[2 + k] = Rest(x)[k]
      BY <1>1, <1>2, <1>5, <3>1
    <3> QED  BY <1>1, <1>5, <2>1, <3>2
  <2> QED  BY <2>2, <2>3
<1> QED  BY <1>1, <1>3, <1>4, <1>5


\* One pass of the gateway's loop down.
LEMMA DownCopies ==
  ASSUME CtlInv, DownInv, ~Misrouted, GDown, UNCHANGED <<strategy, client, remote>> PROVE DownInv'
<1> DEFINE h == Head(q["bg"])
           k == Len(cgot) + Len(q["gc"])
<1>1. /\ "down" \in gcopy /\ q["bg"] # <<>> /\ "gc" \notin fin
      /\ q' = Put(Take(q, "bg"), "gc", Head(q["bg"])) /\ UNCHANGED <<g, fin, deaf, mid>>
  BY DEF GDown, Copy, Arrived, CanWrite, Set, gateway
<1>2. /\ q'["bg"] = Tail(q["bg"]) /\ q'["rb"] = q["rb"]
      /\ q'["gc"] = IF "gc" \in deaf THEN q["gc"] ELSE Append(q["gc"], h)
  <2>1. QueueInv /\ "bg" \in Dirs /\ "gc" \in Dirs /\ "rb" \in Dirs
    BY DEF CtlInv, Dirs
  <2> QED  BY <1>1, <2>1, CopyQ
<1>3. g = "copy" /\ UNCHANGED <<cgot, first, b, kind, ready, rsent>>
  BY <1>1 DEF CtlInv, LoopInv, client, strategy, remote
<1>4. /\ cgot \in Seq(Values) /\ q["gc"] \in Seq(Values) /\ Len(cgot) \in Nat /\ Len(q["gc"]) \in Nat
      /\ Len(Answer) \in {0, 1} /\ k \in Nat /\ Taken \in Nat
  BY DownNumbers DEF Dirs
<1>5. Answer' = Answer /\ (mid = "direct" => Len(Answer) = 0)
  <2>1. mid = "direct" => first \notin {"socks", "connect"}
    BY DEF Misrouted, CtlInv, PlaceInv
  <2> QED  BY <1>3, <1>4, <2>1, SameAnswers, AnswerIs
<1>6. Taken = IF mid = "direct" THEN k ELSE 2 - Len(Answer) + k
  <2> DEFINE a == Len(Answer)
             m == Len(cgot)
             n == Len(q["gc"])
  <2>1. Taken = IF mid = "direct" THEN m + n ELSE 2 - a + m + n
    BY <1>3 DEF Taken
  <2>2. a \in {0, 1} /\ m \in Nat /\ n \in Nat /\ k = m + n
    BY <1>4
  <2> HIDE DEF a, m, n, k
  <2>3. 2 - a + m + n = 2 - a + (m + n)
    BY <2>2
  <2> QED  BY <2>1, <2>2, <2>3 DEF a
<1>7. DownOpen' <=> DownOpen
  BY <1>1 DEF DownOpen, Broken
<1>8. DownOpen => Taken' = Taken + 1 /\ q'["gc"] = Append(q["gc"], h)
  <2> SUFFICES ASSUME DownOpen PROVE Taken' = Taken + 1 /\ q'["gc"] = Append(q["gc"], h)
    OBVIOUS
  <2>1. q'["gc"] = Append(q["gc"], h)
    BY <1>2 DEF DownOpen, Broken
  <2>2. h \in Values
    BY <1>1, DownNumbers DEF Dirs
  <2>3. Len(Append(q["gc"], h)) = Len(q["gc"]) + 1
    <3>1. \A s \in Seq(Values) : \A v \in Values : Len(Append(s, v)) = Len(s) + 1
      OBVIOUS
    <3> HIDE DEF h
    <3> QED  BY <1>4, <2>2, <3>1
  <2> DEFINE a == Len(Answer)
             m == Len(cgot)
             n == Len(q["gc"])
  <2>4. Taken' = IF mid = "direct" THEN m + (n + 1) ELSE 2 - a + m + (n + 1)
    BY <1>1, <1>3, <1>5, <2>1, <2>3 DEF Taken
  <2>5. Taken = IF mid = "direct" THEN m + n ELSE 2 - a + m + n
    BY <1>3 DEF Taken
  <2>6. a \in {0, 1} /\ m \in Nat /\ n \in Nat
    BY <1>4
  <2> HIDE DEF a, m, n
  <2>7. Taken' = Taken + 1
    BY <2>4, <2>5, <2>6
  <2> QED  BY <2>1, <2>7
<1>9. ASSUME NEW x \in {"data", "fail"}, ClientInv(x) PROVE ClientInv(x)'
  <2>1. ToClient(x)' = ToClient(x) /\ FromStrategy(x)' = FromStrategy(x)
    BY <1>1, <1>3, SameAnswers
  <2>2. CASE ~DownOpen
    <3>1. q'["gc"] = q["gc"]
      BY <1>1, <1>2, <1>3, <2>2 DEF DownOpen, Broken
    <3> QED  BY <1>3, <1>7, <1>9, <2>1, <2>2, <3>1 DEF ClientInv
  <2>3. CASE DownOpen
    <3>1. /\ Fits(Tail(q["bg"]), Taken + 1, FromStrategy(x), {})
          /\ Taken + 1 \in DOMAIN FromStrategy(x) /\ h = FromStrategy(x)[Taken + 1] /\ h \in Values
      BY <1>1, <1>9, <2>3, DownTakes
    <3> HIDE DEF h
    <3>2. k + 1 \in DOMAIN ToClient(x) /\ ToClient(x)[k + 1] = h
      <4> HIDE DEF k
      <4>1. x # "bad"
        OBVIOUS
      <4> QED  BY <1>4, <1>5, <1>6, <3>1, <4>1, NextItem
    <3>3. Fits(Append(q["gc"], h), Len(cgot), ToClient(x), {})
      <4>1. Fits(q["gc"], Len(cgot), ToClient(x), {})
        BY <1>9 DEF ClientInv
      <4> QED  BY <1>4, <3>1, <3>2, <4>1, FitsPut
    <3>4. Fits(q'["bg"], Taken', FromStrategy(x)', {})
      BY <1>2, <1>8, <2>1, <2>3, <3>1
    <3> QED  BY <1>3, <1>8, <1>9, <2>1, <2>3, <3>3, <3>4 DEF ClientInv
  <2> QED  BY <2>2, <2>3
<1>10. DownOpen' => DownOpen /\ Answered' = Answered
  <2>1. q["bg"] \in Seq(Values) /\ Answered = Taken + Len(q["bg"]) /\ Len(q["bg"]) \in Nat
    BY DownNumbers DEF Dirs
  <2>2. Len(Tail(q["bg"])) = Len(q["bg"]) - 1
    BY <1>1, <2>1
  <2>3. \A m, n \in Nat : (m + 1) + (n - 1) = m + n
    OBVIOUS
  <2>4. (Taken + 1) + (Len(q["bg"]) - 1) = Taken + Len(q["bg"])
    BY <1>4, <2>1, <2>3
  <2> QED  BY <1>2, <1>7, <1>8, <2>1, <2>2, <2>4 DEF Answered
<1>11. mid # "direct" => first # "tls"
  BY <1>1, <1>3 DEF DownInv, DataInv, FailInv, BadInv
<1>12. UNCHANGED <<fin, deaf, strategy, remote, first, mid>> /\ g # "done"
  BY <1>1, <1>3
<1> QED  BY <1>2, <1>9, <1>10, <1>11, <1>12, DownPasses

\* The gateway answers Bad Gateway before anything has come back.
LEMMA DownRefuses ==
  ASSUME CtlInv, BackendDialFails \/ dialSocksProxyFails, UNCHANGED <<strategy, client, remote>>
  PROVE  DownInv'
<1>1. /\ g' = "done" /\ UNCHANGED <<mid, strategy, client, remote>>
      /\ q'["gc"] = IF proto \in {"connect", "http"} /\ "gc" \notin fin \cup deaf
                    THEN Append(q["gc"], "bad") ELSE q["gc"]
  BY GatewayRefuses
<1>2. q["gc"] = <<>> /\ cgot = <<>> /\ cgot' = cgot
  BY <1>1 DEF BackendDialFails, dialSocksProxyFails, CtlInv, EmptyInv, Early, client
<1>3. ToClient("bad") = <<"bad">> /\ ToClient("bad")' = <<"bad">>
  BY DEF ToClient
<1>4. Fits(<<>>, 0, <<"bad">>, {}) /\ Fits(Append(<<>>, "bad"), 0, <<"bad">>, {})
  <2>1. Append(<<>>, "bad") = <<"bad">> /\ DOMAIN <<"bad">> = 1..1 /\ <<"bad">>[1] = "bad"
    OBVIOUS
  <2>2. \A j \in 1..1 : 0 + j = j
    OBVIOUS
  <2> QED  BY <2>1, <2>2, FitsEmpty DEF Fits
<1>5. Len(<<>>) = 0
  OBVIOUS
<1>6. ClientInv("bad")'
  BY <1>1, <1>2, <1>3, <1>4, <1>5 DEF ClientInv, DownOpen
<1> QED  BY <1>1, <1>6 DEF DownInv, BadInv


\* The client receives.
LEMMA DownReceives ==
  ASSUME CtlInv, DownInv, ClientReceives PROVE DownInv'
<1> DEFINE h == Head(q["gc"])
<1>1. /\ q["gc"] # <<>> /\ cgot' = Append(cgot, h)
      /\ UNCHANGED <<fin, deaf, mid, g, strategy, first, remote>>
      /\ q'["gc"] = Tail(q["gc"]) /\ q'["bg"] = q["bg"] /\ q'["rb"] = q["rb"]
  BY ClientGot DEF gateway, Dirs
<1>2. /\ cgot \in Seq(Values) /\ q["gc"] \in Seq(Values) /\ Len(cgot) \in Nat /\ Len(q["gc"]) \in Nat
      /\ Len(Answer) \in {0, 1}
  BY DownNumbers DEF Dirs
<1>3. h \in Values /\ Len(Tail(q["gc"])) = Len(q["gc"]) - 1
  BY <1>1, <1>2
<1> HIDE DEF h
<1>4. Len(cgot') = Len(cgot) + 1 /\ Len(q'["gc"]) = Len(q["gc"]) - 1
  <2>1. \A s \in Seq(Values) : \A v \in Values : Len(Append(s, v)) = Len(s) + 1
    OBVIOUS
  <2> QED  BY <1>1, <1>2, <1>3, <2>1
<1>5. Taken' = Taken
  <2> DEFINE a == Len(Answer)
             m == Len(cgot)
             n == Len(q["gc"])
  <2>1. Answer' = Answer
    BY <1>1, SameAnswers
  <2>2. Taken' = IF mid = "direct" THEN (m + 1) + (n - 1)
                 ELSE IF g = "reply" THEN 1 ELSE IF g = "copy" THEN 2 - a + (m + 1) + (n - 1) ELSE 0
    BY <1>1, <1>4, <2>1 DEF Taken
  <2>3. Taken = IF mid = "direct" THEN m + n
                ELSE IF g = "reply" THEN 1 ELSE IF g = "copy" THEN 2 - a + m + n ELSE 0
    BY DEF Taken
  <2>4. a \in {0, 1} /\ m \in Nat /\ n \in Nat
    BY <1>2
  <2> HIDE DEF a, m, n
  <2>5. (m + 1) + (n - 1) = m + n /\ 2 - a + (m + 1) + (n - 1) = 2 - a + m + n
    BY <2>4
  <2> QED  BY <2>2, <2>3, <2>5
<1>6. (DownOpen' <=> DownOpen) /\ Answered' = Answered
  BY <1>1, <1>5 DEF DownOpen, Broken, Answered
<1>7. ASSUME NEW x \in {"data", "fail", "bad"}, ClientInv(x) PROVE ClientInv(x)'
  <2>1. ToClient(x)' = ToClient(x) /\ FromStrategy(x)' = FromStrategy(x)
    BY <1>1, SameAnswers
  <2>2. Fits(cgot, 0, ToClient(x), {}) /\ Fits(q["gc"], Len(cgot), ToClient(x), {})
    BY <1>7 DEF ClientInv
  <2>3. /\ Fits(Tail(q["gc"]), Len(cgot) + 1, ToClient(x), {})
        /\ (Len(cgot) + 1 \in DOMAIN ToClient(x) /\ Head(q["gc"]) = ToClient(x)[Len(cgot) + 1])
           \/ Head(q["gc"]) \in {}
    BY <1>1, <1>2, <2>2, FitsTake
  <2>4. Len(cgot) + 1 \in DOMAIN ToClient(x) /\ h = ToClient(x)[Len(cgot) + 1]
    BY <2>3 DEF h
  <2>5. Fits(Append(cgot, h), 0, ToClient(x), {})
    <3>1. 0 + Len(cgot) + 1 = Len(cgot) + 1
      BY <1>2
    <3> QED  BY <1>2, <1>3, <2>2, <2>4, <3>1, FitsPut
  <2>6. DownOpen' => Fits(q'["bg"], Taken', FromStrategy(x)', {})
    BY <1>1, <1>5, <1>6, <1>7, <2>1 DEF ClientInv
  <2> QED  BY <1>1, <1>4, <2>1, <2>3, <2>5, <2>6 DEF ClientInv
<1>8. CASE BadInv
  BY <1>1, <1>7, <1>8 DEF BadInv, DownInv
<1>9. CASE DataInv
  <2>1. AnswerInv'
    BY <1>1, <1>6, <1>9, AnswerKept
  <2>2. ClientInv("data")'
    BY <1>7, <1>9 DEF DataInv
  <2>3. UNCHANGED <<mid, ready, rsent, first>>
    BY <1>1 DEF remote
  <2> QED  BY <1>1, <1>9, <2>1, <2>2, <2>3 DEF DownInv, DataInv
<1>10. CASE FailInv
  <2>1. UNCHANGED <<b, kind, first, fin>>
    BY <1>1 DEF strategy
  <2> QED  BY <1>7, <1>10, <2>1 DEF DownInv, FailInv
<1> QED  BY <1>8, <1>9, <1>10 DEF DownInv

\* What goes up leaves the way down.
LEMMA UpIsDownQuiet ==
  ASSUME CtlInv,
         \/ (GUp /\ UNCHANGED <<strategy, client, remote>>)
         \/ ((BUp \/ FirstChunk \/ (BUpEnds /\ AtEnd("gb"))) /\ UNCHANGED <<gateway, client, remote>>)
         \/ ClientSends
         \/ (RemoteReceives /\ Head(q[In]) \notin {"new", "hdr"})
  PROVE  DownQuiet
<1>1. QueueInv
  BY DEF CtlInv
<1>2. CASE GUp /\ UNCHANGED <<strategy, client, remote>>
  <2>1. /\ q["cg"] # <<>> /\ q' = Put(Take(q, "cg"), "gb", Head(q["cg"]))
        /\ UNCHANGED <<fin, deaf, gateway, mid, strategy, client, remote>>
    BY <1>2 DEF GUp, Copy, Arrived, Set
  <2>2. "cg" \in Dirs /\ "gb" \in Dirs /\ "cg" # "gb"
    BY DEF Dirs
  <2>3. \A o \in Dirs : o # "cg" /\ o # "gb" => q'[o] = q[o]
    BY <1>1, <2>1, <2>2, CopyQ
  <2> QED  BY <2>1, <2>3 DEF DownQuiet, Shrinks, Stays, Dirs, gateway, strategy, client, remote
<1>3. CASE BUp /\ UNCHANGED <<gateway, client, remote>>
  <2>1. /\ q["gb"] # <<>> /\ q' = Put(Take(q, "gb"), "br", Head(q["gb"]))
        /\ UNCHANGED <<fin, deaf, gateway, mid, strategy, client, remote>>
    BY <1>3 DEF BUp, Copy, Arrived, Set
  <2>2. "gb" \in Dirs /\ "br" \in Dirs /\ "gb" # "br"
    BY DEF Dirs
  <2>3. \A o \in Dirs : o # "gb" /\ o # "br" => q'[o] = q[o]
    BY <1>1, <2>1, <2>2, CopyQ
  <2> QED  BY <2>1, <2>3 DEF DownQuiet, Shrinks, Stays, Dirs, gateway, strategy, client, remote
<1>4. CASE FirstChunk /\ UNCHANGED <<gateway, client, remote>>
  <2>1. /\ UNCHANGED <<mid, kind, b, fin, deaf>> /\ bcopy' = (bcopy \ {"first"}) \cup {"up"}
        /\ \A o \in {"cg", "gc", "bg", "rb"} : q'[o] = q[o]
    BY <1>4, FirstSent
  <2> QED  BY <1>4, <2>1 DEF DownQuiet, Shrinks, Stays, gateway, client, remote
<1>5. CASE BUpEnds /\ AtEnd("gb") /\ UNCHANGED <<gateway, client, remote>>
  <2>1. UNCHANGED <<mid, kind, b>> /\ bcopy' = bcopy \ {"up"} /\ Shrinks(Dirs \ {"br"})
    BY <1>5, WorkerTells
  <2> QED  BY <1>5, <2>1 DEF DownQuiet, Shrinks, Stays, Dirs, gateway, client, remote
<1>6. CASE ClientSends
  <2>1. /\ UNCHANGED <<fin, deaf, mid, gateway, strategy, first, cgot, remote>>
        /\ \A o \in Dirs : o # "cg" => q'[o] = q[o]
    BY <1>6, ClientSent
  <2> QED  BY <2>1 DEF DownQuiet, Shrinks, Stays, Dirs, gateway, strategy, remote
<1>7. CASE RemoteReceives /\ Head(q[In]) \notin {"new", "hdr"}
  <2>1. /\ UNCHANGED <<fin, deaf, mid, gateway, strategy, client, rsent, ready>> /\ q'[Out] = q[Out]
        /\ \A o \in Dirs : o # In /\ o # Out => q'[o] = q[o]
    BY <1>7, RemoteGot
  <2>2. In \notin {"gc", "bg", "rb"}
    BY DEF In
  <2> QED  BY <2>1, <2>2 DEF DownQuiet, Shrinks, Stays, Dirs, gateway, strategy, client
<1> QED  BY <1>2, <1>3, <1>4, <1>5, <1>6, <1>7


\* A step of the strategy or the remote leaves what the gateway and the client have.
LEMMA DownKept ==
  ASSUME UNCHANGED <<fin, deaf, gateway, client>>, q'["gc"] = q["gc"],
         mid' = "direct" <=> mid = "direct"
  PROVE  /\ (DownOpen' <=> DownOpen) /\ Taken' = Taken /\ Answered' = Taken + Len(q'["bg"])
         /\ ((~Broken("bg"))' <=> ~Broken("bg")) /\ ((~Broken("rb"))' <=> ~Broken("rb"))
         /\ BadInv => BadInv'
         /\ \A x : ClientInv(x) /\ (DownOpen => Fits(q'["bg"], Taken, FromStrategy(x), {})) =>
                      ClientInv(x)'
<1>1. UNCHANGED <<g, first, cgot>>
  BY DEF gateway, client
<1>2. Answer' = Answer
  BY <1>1, SameAnswers
<1>3. (DownOpen' <=> DownOpen) /\ Taken' = Taken
  BY <1>1, <1>2 DEF DownOpen, Broken, Taken
<1>4. BadInv => BadInv'
  BY <1>1, BadStays DEF BadInv
<1>5. \A x : ToClient(x)' = ToClient(x) /\ FromStrategy(x)' = FromStrategy(x)
  BY <1>1, SameAnswers
<1>6. ASSUME NEW x, ClientInv(x), DownOpen => Fits(q'["bg"], Taken, FromStrategy(x), {})
      PROVE  ClientInv(x)'
  <2>1. ToClient(x)' = ToClient(x) /\ FromStrategy(x)' = FromStrategy(x)
    BY <1>5
  <2> QED  BY <1>1, <1>3, <1>6, <2>1 DEF ClientInv
<1> QED  BY <1>3, <1>4, <1>6 DEF Broken, Answered

\* The strategy, or the target, writes the next item for the gateway.
LEMMA DownPuts ==
  ASSUME CtlInv, NEW x, ClientInv(x), DownOpen, NEW v \in Values,
         Answered + 1 \in DOMAIN FromStrategy(x), v = FromStrategy(x)[Answered + 1]
  PROVE  /\ Fits(Append(q["bg"], v), Taken, FromStrategy(x), {})
         /\ Taken + Len(Append(q["bg"], v)) = Answered + 1
<1>1. /\ q["bg"] \in Seq(Values) /\ Taken \in Nat /\ Len(q["bg"]) \in Nat
      /\ Answered = Taken + Len(q["bg"])
  BY DownNumbers DEF Dirs
<1>2. Fits(q["bg"], Taken, FromStrategy(x), {})
  BY DEF ClientInv
<1>3. Fits(Append(q["bg"], v), Taken, FromStrategy(x), {})
  <2>1. Taken + Len(q["bg"]) + 1 = Answered + 1
    BY <1>1
  <2> QED  BY <1>1, <1>2, <2>1, FitsPut
<1>4. Len(Append(q["bg"], v)) = Len(q["bg"]) + 1
  <2>1. \A s \in Seq(Values) : \A w \in Values : Len(Append(s, w)) = Len(s) + 1
    OBVIOUS
  <2> QED  BY <1>1, <2>1
<1>5. \A m, n \in Nat : m + (n + 1) = (m + n) + 1
  OBVIOUS
<1> QED  BY <1>1, <1>3, <1>4, <1>5

\* The strategy accepts and registers the connection; VLESS has dialled.
LEMMA DownAccepts ==
  ASSUME CtlInv, DownInv, Accept \/ Register \/ DialVlessWS \/ DialVlessGRPC,
         UNCHANGED <<gateway, client, remote>>
  PROVE  DownInv'
<1>1. /\ UNCHANGED <<q, fin, deaf, kind, first, ready, rsent, cgot>> /\ b \in Before
      /\ mid' # "direct" /\ mid # "direct"
      /\ \/ b \in {"out", "accepted"} /\ b' \in {"accepted", "hello"} /\ bcopy' = bcopy
         \/ b = "dial" /\ b' = "copy" /\ kind # "worker" /\ bcopy' = {"first", "header"}
  BY DEF Accept, Register, DialVlessWS, DialVlessGRPC, VlessCopies, BGoto, links, client, remote,
     CtlInv, PlaceInv, Before
<1>2. (DownOpen' <=> DownOpen) /\ Answered' = Answered /\ (BadInv => BadInv')
      /\ ((~Broken("bg"))' <=> ~Broken("bg")) /\ (ClientInv("data") => ClientInv("data")')
  BY <1>1, DownKept DEF Answered, ClientInv
<1>3. CASE DataInv
  <2>1. ~ready /\ rsent = 0 /\ q["rb"] = <<>> /\ bcopy = {}
    BY <1>1, <1>3 DEF CtlInv, EmptyInv, LoopInv, DataInv, Before
  <2>2. AnswerInv'
    <3>1. CASE b' \in {"accepted", "hello"}
      BY <1>1, <1>2, <1>3, <2>1, <3>1 DEF DataInv, AnswerInv
    <3>2. CASE b' = "copy"
      <4>1. Received' = 0 /\ Len(q'["rb"]) = 0 /\ One(ready') = 0 /\ rsent' = 0 /\ 0 + 0 = 0
        BY <1>1, <2>1, <3>2 DEF Received, One
      <4>2. Marks' = {}
        BY <1>1, <3>2 DEF Marks
      <4>3. Fits(q'["rb"], Received', FromRemote', {})
        BY <1>1, <2>1, FitsEmpty
      <4>4. DownOpen' /\ (~Broken("bg"))' /\ first' # "tls" => Answered' = 2
        BY <1>1, <1>2, <1>3, <3>2 DEF DataInv, AnswerInv
      <4> QED  BY <1>1, <3>2, <4>1, <4>2, <4>3, <4>4 DEF AnswerInv
    <3> QED  BY <1>1, <3>1, <3>2
  <2> QED  BY <1>1, <1>2, <1>3, <2>2 DEF DownInv, DataInv
<1> QED  BY <1>1, <1>2, <1>3 DEF DownInv, FailInv, Before

\* The strategy answers the method request and, VLESS, the request.
LEMMA DownGreets ==
  ASSUME CtlInv, UpInv', DownInv, Methods \/ Request \/ VlessRequest,
         UNCHANGED <<gateway, client, remote>>
  PROVE  DownInv'
<1>1. /\ CtlInv' /\ UNCHANGED <<mid, kind, bcopy, fin, deaf>>
      /\ (b = "hello" /\ b' = "request") \/ (b = "request" /\ b' = "dial")
      /\ q'["bg"] = IF (b = "request" /\ kind = "worker") \/ Broken("bg") THEN q["bg"]
                    ELSE Append(q["bg"], IF b = "hello" THEN "method" ELSE "ok")
      /\ q'["gc"] = q["gc"] /\ q'["rb"] = q["rb"]
  BY StrategyShakes
<1>2. UNCHANGED <<first, ready, rsent, cgot>> /\ mid # "direct" /\ bcopy = {}
  BY <1>1 DEF client, remote, CtlInv, PlaceInv, LoopInv
<1>3. first # "tls"
  BY <1>1, <1>2 DEF UpInv, StrategyInv
<1>4. /\ (DownOpen' <=> DownOpen) /\ Answered' = Taken + Len(q'["bg"]) /\ (BadInv => BadInv')
      /\ ((~Broken("bg"))' <=> ~Broken("bg"))
      /\ ClientInv("data") /\ (DownOpen => Fits(q'["bg"], Taken, FromStrategy("data"), {})) =>
            ClientInv("data")'
  BY <1>1, DownKept
<1>5. Answered \in Nat /\ Answered = Taken + Len(q["bg"])
  BY DownNumbers
<1>6. CASE DataInv
  <2>1. ClientInv("data") /\ (DownOpen => Fits(q["bg"], Taken, FromStrategy("data"), {}))
    BY <1>6 DEF DataInv, ClientInv
  <2>2. DownOpen /\ ~Broken("bg") => Answered = IF b = "hello" THEN 0 ELSE 1
    BY <1>1, <1>2, <1>3, <1>6 DEF DataInv, AnswerInv
  <2>3. CASE q'["bg"] = q["bg"] /\ (Broken("bg") \/ (b = "request" /\ kind = "worker"))
    <3>1. ClientInv("data")' /\ Answered' = Answered
      BY <1>4, <1>5, <2>1, <2>3
    <3>2. AnswerInv'
      BY <1>1, <1>2, <1>4, <2>2, <2>3, <3>1 DEF AnswerInv
    <3> QED  BY <1>1, <1>2, <1>3, <1>6, <3>1, <3>2 DEF DownInv, DataInv
  <2>4. ASSUME ~Broken("bg"), b = "hello" \/ kind # "worker", DownOpen
        PROVE  ClientInv("data")' /\ Answered' = IF b = "hello" THEN 1 ELSE 2
    <3> DEFINE v == IF b = "hello" THEN "method" ELSE "ok"
    <3>1. q'["bg"] = Append(q["bg"], v)
      BY <1>1, <2>4
    <3>2. v \in Values
      BY WordTypes DEF Words
    <3>3. /\ DOMAIN FromStrategy("data") = 1..(2 + Len(Rest("data")))
          /\ FromStrategy("data")[1] = "method" /\ FromStrategy("data")[2] = "ok"
          /\ Len(Rest("data")) \in Nat
      BY <1>2, FromStrategyIs, RestIs
    <3>4. Answered + 1 \in DOMAIN FromStrategy("data") /\ v = FromStrategy("data")[Answered + 1]
      <4>1. CASE b = "hello"
        <5>1. Answered + 1 = 1
          BY <2>2, <2>4, <4>1
        <5> QED  BY <3>3, <4>1, <5>1
      <4>2. CASE b # "hello"
        <5>1. Answered + 1 = 2
          BY <2>2, <2>4, <4>2
        <5> QED  BY <3>3, <4>2, <5>1
      <4> QED  BY <4>1, <4>2
    <3> HIDE DEF v
    <3>5. /\ Fits(Append(q["bg"], v), Taken, FromStrategy("data"), {})
          /\ Taken + Len(Append(q["bg"], v)) = Answered + 1
      BY <2>1, <2>4, <3>2, <3>4, DownPuts
    <3>6. Answered' = Answered + 1
      BY <1>4, <3>1, <3>5
    <3> QED  BY <1>4, <2>1, <2>2, <2>4, <3>1, <3>5, <3>6
  <2>5. CASE ~Broken("bg") /\ (b = "hello" \/ kind # "worker")
    <3>1. ClientInv("data")'
      <4>1. CASE DownOpen
        BY <2>4, <2>5, <4>1
      <4>2. CASE ~DownOpen
        BY <1>4, <2>1, <4>2
      <4> QED  BY <4>1, <4>2
    <3>2. AnswerInv'
      BY <1>1, <1>2, <1>4, <2>4, <2>5 DEF AnswerInv
    <3> QED  BY <1>1, <1>2, <1>3, <1>6, <3>1, <3>2 DEF DownInv, DataInv
  <2> QED  BY <1>1, <2>3, <2>5
<1> QED  BY <1>1, <1>4, <1>6 DEF DownInv, FailInv


\* The worker has dialled and asked for its stream.
LEMMA DownCreates ==
  ASSUME CtlInv, DownInv, createTunnel, UNCHANGED <<gateway, client, remote>> PROVE DownInv'
<1>1. /\ UNCHANGED <<mid, kind, bcopy, fin, deaf>> /\ b = "dial" /\ b' = "success" /\ kind = "worker"
      /\ q'["bg"] = q["bg"] /\ q'["gc"] = q["gc"] /\ q'["rb"] = q["rb"]
  BY TunnelCreated DEF Dirs
<1>2. UNCHANGED <<first, ready, rsent, cgot>> /\ mid # "direct" /\ bcopy = {} /\ ~ready /\ q["rb"] = <<>>
  BY <1>1 DEF client, remote, CtlInv, PlaceInv, LoopInv, EmptyInv, Before
<1>3. /\ (DownOpen' <=> DownOpen) /\ Answered' = Answered /\ (BadInv => BadInv')
      /\ ((~Broken("bg"))' <=> ~Broken("bg")) /\ (ClientInv("data") => ClientInv("data")')
  BY <1>1, DownKept DEF Answered, ClientInv
<1>4. CASE DataInv
  <2>1. rsent = 0 /\ Len(q'["rb"]) = 0 /\ One(ready') = 0
    BY <1>1, <1>2, <1>4 DEF DataInv, One
  <2>2. DownOpen' /\ (~Broken("bg"))' /\ first' # "tls" => Answered' = 1 /\ Received' = 0
    BY <1>1, <1>2, <1>3, <1>4 DEF DataInv, AnswerInv, Received
  <2>3. \A m : Fits(q'["rb"], Received', FromRemote', m)
    BY <1>1, <1>2, FitsEmpty
  <2>4. AnswerInv'
    BY <1>1, <1>2, <2>1, <2>2, <2>3 DEF AnswerInv
  <2> QED  BY <1>1, <1>2, <1>3, <1>4, <2>4 DEF DownInv, DataInv
<1> QED  BY <1>1, <1>3, <1>4 DEF DownInv, FailInv

\* The server has answered: the worker says yes, VLESS has the response header.
LEMMA DownAnswered ==
  ASSUME CtlInv, UpInv, DownInv, waitForSuccess \/ DecodeResponseHeader,
         UNCHANGED <<gateway, client, remote>>
  PROVE  DownInv'
<1>1. /\ UNCHANGED <<mid, kind, fin, deaf>> /\ b' = "copy" /\ q["rb"] # <<>>
      /\ \/ b = "success" /\ bcopy' = {"up", "down"} /\ Head(q["rb"]) = "success"
         \/ b = "copy" /\ "header" \in bcopy /\ bcopy' = (bcopy \ {"header"}) \cup {"down"}
      /\ q'["rb"] = Tail(q["rb"]) /\ q'["gc"] = q["gc"]
      /\ q'["bg"] = IF b = "copy" \/ Broken("bg") THEN q["bg"] ELSE Append(q["bg"], "ok")
  BY ServerAnswered DEF Arrived
<1>2. /\ UNCHANGED <<first, ready, rsent, cgot>> /\ mid # "direct" /\ "header" \notin bcopy'
      /\ b = "success" => bcopy = {}
  BY <1>1 DEF client, remote, CtlInv, PlaceInv, LoopInv
<1>3. first # "tls"
  BY <1>1, <1>2 DEF UpInv, StrategyInv
<1>4. /\ (DownOpen' <=> DownOpen) /\ Answered' = Taken + Len(q'["bg"]) /\ (BadInv => BadInv')
      /\ ((~Broken("bg"))' <=> ~Broken("bg")) /\ ((~Broken("rb"))' <=> ~Broken("rb"))
      /\ ClientInv("data") /\ (DownOpen => Fits(q'["bg"], Taken, FromStrategy("data"), {})) =>
            ClientInv("data")'
  BY <1>1, DownKept
<1>5. /\ Answered \in Nat /\ Answered = Taken + Len(q["bg"])
      /\ q["rb"] \in Seq(Values) /\ Len(q["rb"]) \in Nat /\ One(ready) \in {0, 1} /\ rsent \in 0..N
      /\ N \in Nat
  BY DownNumbers DEF Dirs
<1>6. CASE DataInv
  <2>1. ClientInv("data") /\ (DownOpen => Fits(q["bg"], Taken, FromStrategy("data"), {})) /\ ready
    BY <1>1, <1>2, <1>6 DEF DataInv, ClientInv
  <2>2. DownOpen /\ ~Broken("bg") =>
          /\ Answered = IF b = "success" THEN 1 ELSE 2
          /\ Received = 0
          /\ Fits(q["rb"], 0, FromRemote, Marks)
          /\ ~Broken("rb") /\ rsent < N => 0 + Len(q["rb"]) = One(ready) + rsent
    <3> SUFFICES ASSUME DownOpen, ~Broken("bg")
                 PROVE  /\ Answered = IF b = "success" THEN 1 ELSE 2
                        /\ Received = 0
                        /\ Fits(q["rb"], 0, FromRemote, Marks)
                        /\ ~Broken("rb") /\ rsent < N => 0 + Len(q["rb"]) = One(ready) + rsent
      OBVIOUS
    <3>1. /\ Answered = IF b = "success" THEN 1 ELSE 2
          /\ Fits(q["rb"], Received, FromRemote, Marks)
          /\ ~Broken("rb") /\ rsent < N => Received + Len(q["rb"]) = One(ready) + rsent
      BY <1>1, <1>2, <1>3, <1>6 DEF DataInv, AnswerInv
    <3>2. Received = 0
      BY <1>1, <1>2, <3>1 DEF Received
    <3> QED  BY <3>1, <3>2
  <2>3. ASSUME DownOpen, ~Broken("bg") PROVE ClientInv("data")' /\ Answered' = 2
    <3>1. CASE b = "copy"
      BY <1>1, <1>4, <1>5, <2>1, <2>2, <2>3, <3>1
    <3>2. CASE b = "success"
      <4>1. q'["bg"] = Append(q["bg"], "ok") /\ "ok" \in Values
        BY <1>1, <2>3, <3>2, WordTypes DEF Words
      <4>2. /\ DOMAIN FromStrategy("data") = 1..(2 + Len(Rest("data")))
            /\ FromStrategy("data")[2] = "ok" /\ Len(Rest("data")) \in Nat
        BY <1>2, FromStrategyIs, RestIs
      <4>3. Answered + 1 = 2
        BY <2>2, <2>3, <3>2
      <4>4. Answered + 1 \in DOMAIN FromStrategy("data") /\ "ok" = FromStrategy("data")[Answered + 1]
        BY <4>2, <4>3
      <4>5. /\ Fits(Append(q["bg"], "ok"), Taken, FromStrategy("data"), {})
            /\ Taken + Len(Append(q["bg"], "ok")) = Answered + 1
        BY <2>1, <2>3, <4>1, <4>4, DownPuts
      <4> QED  BY <1>4, <2>1, <4>1, <4>3, <4>5
    <3> QED  BY <1>1, <3>1, <3>2
  <2>4. ClientInv("data")'
    <3>1. CASE DownOpen /\ ~Broken("bg")
      BY <2>3, <3>1
    <3>2. CASE ~DownOpen
      BY <1>4, <2>1, <3>2
    <3>3. CASE Broken("bg")
      BY <1>1, <1>4, <2>1, <3>3
    <3> QED  BY <3>1, <3>2, <3>3
  <2>5. ASSUME DownOpen, ~Broken("bg")
        PROVE  /\ Received' = 1 /\ Fits(q'["rb"], 1, FromRemote', Marks')
               /\ ~Broken("rb") /\ rsent < N => 1 + Len(q'["rb"]) = One(ready) + rsent
    <3>1. Received' = 1
      BY <1>2, <2>3, <2>5 DEF Received
    <3>2. FromRemote' = FromRemote /\ Marks' = Marks
      BY <1>1, <1>2, SameAnswers DEF Marks
    <3>3. Fits(Tail(q["rb"]), 0 + 1, FromRemote, Marks)
      <4>1. Fits(q["rb"], 0, FromRemote, Marks)
        BY <2>2, <2>5
      <4> QED  BY <1>1, <1>5, <4>1, FitsTake
    <3>4. Len(Tail(q["rb"])) = Len(q["rb"]) - 1 /\ 1 + (Len(q["rb"]) - 1) = 0 + Len(q["rb"])
      BY <1>1, <1>5
    <3> QED  BY <1>1, <2>2, <2>5, <3>1, <3>2, <3>3, <3>4
  <2>6. AnswerInv'
    <3>1. CASE DownOpen /\ ~Broken("bg")
      <4>1. /\ Answered' = 2 /\ Received' = 1 /\ b' = "copy" /\ "header" \notin bcopy' /\ ready'
            /\ mid' # "direct"
        BY <1>1, <1>2, <2>1, <2>3, <2>5, <3>1
      <4>2. Fits(q'["rb"], Received', FromRemote', Marks')
        BY <2>5, <3>1, <4>1
      <4>3. (~Broken("rb"))' /\ rsent' < N => Received' + Len(q'["rb"]) = One(ready') + rsent'
        BY <1>2, <1>4, <2>5, <3>1, <4>1
      <4>4. (~Broken("rb") /\ (rsent < N \/ ~ready) => Received + Len(q["rb"]) = One(ready) + rsent)'
        BY <4>1, <4>3
      <4>5. Answered' > 1
        BY <4>1
      <4> QED  BY <4>1, <4>2, <4>4, <4>5 DEF AnswerInv
    <3>2. CASE ~(DownOpen /\ ~Broken("bg"))
      BY <1>4, <3>2 DEF AnswerInv
    <3> QED  BY <3>1, <3>2
  <2> QED  BY <1>1, <1>2, <1>3, <1>6, <2>1, <2>4, <2>6 DEF DownInv, DataInv
<1> QED  BY <1>1, <1>4, <1>6 DEF DownInv, FailInv


\* One pass of the strategy's loop down.
LEMMA DownBrings ==
  ASSUME CtlInv, UpInv, DownInv, BDown, UNCHANGED <<gateway, client, remote>> PROVE DownInv'
<1> DEFINE h == Head(q["rb"])
<1>1. /\ "down" \in bcopy /\ q["rb"] # <<>> /\ h # "close" /\ "bg" \notin fin
      /\ q' = Put(Take(q, "rb"), "bg", Head(q["rb"])) /\ UNCHANGED <<fin, deaf, mid, strategy>>
  BY DEF BDown, Copy, Arrived, Heard, CanWrite, Set
<1>2. /\ q'["rb"] = Tail(q["rb"]) /\ q'["gc"] = q["gc"]
      /\ q'["bg"] = IF "bg" \in deaf THEN q["bg"] ELSE Append(q["bg"], h)
  <2>1. QueueInv /\ "rb" \in Dirs /\ "bg" \in Dirs /\ "gc" \in Dirs
    BY DEF CtlInv, Dirs
  <2> QED  BY <1>1, <2>1, CopyQ
<1>3. /\ b = "copy" /\ "header" \notin bcopy /\ mid # "direct"
      /\ UNCHANGED <<b, bcopy, kind, first, ready, rsent, cgot>>
  BY <1>1 DEF CtlInv, LoopInv, PlaceInv, strategy, client, remote
<1>4. first # "tls"
  BY <1>3 DEF UpInv, StrategyInv
<1>5. /\ (DownOpen' <=> DownOpen) /\ Answered' = Taken + Len(q'["bg"]) /\ (BadInv => BadInv')
      /\ ((~Broken("bg"))' <=> ~Broken("bg")) /\ ((~Broken("rb"))' <=> ~Broken("rb"))
      /\ ClientInv("data") /\ (DownOpen => Fits(q'["bg"], Taken, FromStrategy("data"), {})) =>
            ClientInv("data")'
  BY <1>1, <1>2, DownKept
<1>6. /\ Answered \in Nat /\ Answered = Taken + Len(q["bg"])
      /\ q["rb"] \in Seq(Values) /\ Len(q["rb"]) \in Nat /\ One(ready) \in {0, 1} /\ rsent \in 0..N
      /\ N \in Nat
  BY DownNumbers DEF Dirs
<1>7. h \in Values /\ Len(Tail(q["rb"])) = Len(q["rb"]) - 1
  BY <1>1, <1>6
<1>8. DownOpen => ~Broken("bg")
  BY <1>1 DEF DownOpen, Broken, CtlInv, LoopInv
<1>9. CASE DataInv
  <2>1. ClientInv("data") /\ ready
    BY <1>1, <1>3, <1>9 DEF DataInv
  <2>2. ASSUME DownOpen
        PROVE  /\ Answered > 1 /\ Received = Answered - 1 /\ Received \in Nat
               /\ Fits(q["rb"], Received, FromRemote, Marks)
               /\ ~Broken("rb") /\ rsent < N => Received + Len(q["rb"]) = One(ready) + rsent
    <3>1. /\ Answered > 1 /\ Fits(q["rb"], Received, FromRemote, Marks)
          /\ ~Broken("rb") /\ rsent < N => Received + Len(q["rb"]) = One(ready) + rsent
      BY <1>3, <1>4, <1>8, <1>9, <2>2 DEF DataInv, AnswerInv
    <3>2. Received = Answered - 1
      BY <1>3 DEF Received
    <3>3. Received \in Nat
      BY <1>6, <3>1, <3>2
    <3> QED  BY <3>1, <3>2, <3>3
  <2>3. ASSUME DownOpen
        PROVE  /\ Fits(Tail(q["rb"]), Answered, FromRemote, Marks)
               /\ Answered \in DOMAIN FromRemote /\ h = FromRemote[Answered]
    <3>1. /\ Fits(Tail(q["rb"]), Received + 1, FromRemote, Marks)
          /\ (Received + 1 \in DOMAIN FromRemote /\ Head(q["rb"]) = FromRemote[Received + 1])
             \/ Head(q["rb"]) \in Marks
      BY <1>1, <1>6, <2>2, <2>3, FitsTake
    <3>2. Received + 1 = Answered
      BY <1>6, <2>2, <2>3
    <3>3. h \notin Marks
      BY <1>1 DEF Marks
    <3> QED  BY <3>1, <3>2, <3>3
  <2>4. ASSUME DownOpen
        PROVE  Answered + 1 \in DOMAIN FromStrategy("data") /\ h = FromStrategy("data")[Answered + 1]
    <3> DEFINE i == Answered - 1
    <3>1. DOMAIN FromRemote = 1..(1 + N) /\ \A j \in 1..N : FromRemote[1 + j] = Items[j]
      BY FromRemoteIs
    <3>2. i \in 1..N /\ 1 + i = Answered /\ 2 + i = Answered + 1
      BY <1>6, <2>2, <2>3, <2>4, <3>1
    <3>3. /\ DOMAIN FromStrategy("data") = 1..(2 + Len(Rest("data")))
          /\ \A j \in 1..Len(Rest("data")) : FromStrategy("data")[2 + j] = Rest("data")[j]
          /\ Rest("data") = Items /\ Len(Rest("data")) = N
      BY <1>3, FromStrategyIs, RestIs
    <3> HIDE DEF i
    <3>4. 2 + i \in 1..(2 + N)
      BY <1>6, <3>2
    <3>5. FromRemote[1 + i] = Items[i] /\ FromStrategy("data")[2 + i] = Items[i]
      BY <3>1, <3>2, <3>3
    <3> QED  BY <2>3, <2>4, <3>2, <3>3, <3>4, <3>5
  <2>5. ASSUME DownOpen PROVE Answered' = Answered + 1 /\ ClientInv("data")'
    <3>1. q'["bg"] = Append(q["bg"], h)
      BY <1>2, <1>8, <2>5 DEF Broken
    <3> HIDE DEF h
    <3>2. /\ Fits(Append(q["bg"], h), Taken, FromStrategy("data"), {})
          /\ Taken + Len(Append(q["bg"], h)) = Answered + 1
      BY <1>7, <2>1, <2>4, <2>5, DownPuts
    <3> QED  BY <1>5, <2>1, <3>1, <3>2
  <2>6. ClientInv("data")'
    BY <1>5, <2>1, <2>5
  <2>7. AnswerInv'
    <3>1. CASE DownOpen
      <4>1. Received' = Answered
        <5>1. Received' = (Answered + 1) - 1
          BY <1>3, <2>5, <3>1 DEF Received
        <5> QED  BY <1>6, <5>1
      <4>2. FromRemote' = FromRemote /\ Marks' = Marks
        BY <1>1, <1>3, SameAnswers DEF Marks
      <4>3. Fits(q'["rb"], Received', FromRemote', Marks')
        BY <1>2, <2>3, <3>1, <4>1, <4>2
      <4>4. (~Broken("rb") /\ (rsent < N \/ ~ready) => Received + Len(q["rb"]) = One(ready) + rsent)'
        <5> SUFFICES ASSUME ~Broken("rb"), rsent < N PROVE Answered + Len(q'["rb"]) = One(ready) + rsent
          BY <1>3, <1>5, <2>1, <4>1
        <5>1. (Answered - 1) + Len(q["rb"]) = One(ready) + rsent
          BY <2>2, <3>1
        <5>2. \A m, n \in Nat : m + (n - 1) = (m - 1) + n
          OBVIOUS
        <5> QED  BY <1>2, <1>6, <1>7, <5>1, <5>2
      <4>5. Answered' > 1 /\ b' = "copy" /\ "header" \notin bcopy' /\ mid' # "direct"
        BY <1>1, <1>3, <1>6, <2>2, <2>5, <3>1
      <4> QED  BY <4>3, <4>4, <4>5 DEF AnswerInv
    <3>2. CASE ~DownOpen
      BY <1>5, <3>2 DEF AnswerInv
    <3> QED  BY <3>1, <3>2
  <2> QED  BY <1>3, <1>4, <2>1, <2>6, <2>7 DEF DownInv, DataInv
<1> QED  BY <1>3, <1>5, <1>9 DEF DownInv, FailInv


\* Streams that begin alike.
LEMMA FitsOther ==
  ASSUME NEW s \in Seq(Values), NEW n \in Nat, NEW W, NEW V, Fits(s, n, W, {}),
         \A i \in 1..(n + Len(s)) : i \in DOMAIN V /\ V[i] = W[i]
  PROVE  Fits(s, n, V, {})
<1>1. \A j \in 1..Len(s) : n + j \in DOMAIN W /\ s[j] = W[n + j]
  BY FitsAll
<1>2. \A j \in 1..Len(s) : n + j \in 1..(n + Len(s))
  OBVIOUS
<1>3. \A j \in 1..Len(s) : n + j \in DOMAIN V /\ s[j] = V[n + j]
  BY <1>1, <1>2
<1> QED  BY <1>3, FitsAll

\* Up to the strategy's yes, VLESS may still fail.
LEMMA FailFits ==
  ASSUME CtlInv, DataInv, mid # "direct", DownOpen, Answered = 2, g \notin Early
  PROVE  ClientInv("fail")
<1> DEFINE a == Len(Answer)
           m == Len(cgot)
           n == Len(q["gc"])
           l == Len(q["bg"])
<1>1. /\ cgot \in Seq(Values) /\ q["gc"] \in Seq(Values) /\ q["bg"] \in Seq(Values)
      /\ m \in Nat /\ n \in Nat /\ l \in Nat /\ a \in {0, 1}
      /\ Taken \in Nat /\ Taken + l = 2
  BY DownNumbers DEF Dirs
<1>2. m + n <= a
  <2>1. CASE g = "copy"
    <3>1. Taken = 2 - a + m + n
      BY <2>1 DEF Taken
    <3> HIDE DEF a, m, n, l
    <3> QED  BY <1>1, <3>1
  <2>2. CASE g # "copy"
    <3>1. g \in {"method", "reply"}
      BY <2>2 DEF CtlInv, TypeInv, DownOpen, Early
    <3>2. cgot = <<>> /\ q["gc"] = <<>> /\ Len(<<>>) = 0
      BY <3>1 DEF CtlInv, EmptyInv, Early
    <3>3. m = 0 /\ n = 0
      BY <3>2
    <3> HIDE DEF a, m, n, l
    <3> QED  BY <1>1, <3>3
  <2> QED  BY <2>1, <2>2
<1>3. \A i \in 1..a : i \in DOMAIN ToClient("fail") /\ ToClient("fail")[i] = ToClient("data")[i]
  <2>1. /\ DOMAIN ToClient("fail") = 1..(a + Len(Rest("fail"))) /\ Len(Rest("fail")) \in Nat
        /\ a = 1 => ToClient("fail")[1] = "ok" /\ ToClient("data")[1] = "ok"
    BY ToClientIs, RestIs
  <2> HIDE DEF a
  <2>2. \A i \in 1..a : i = 1 /\ a = 1
    BY <1>1
  <2>3. a = 1 => 1 \in 1..(a + Len(Rest("fail")))
    BY <2>1
  <2> QED  BY <2>1, <2>2, <2>3
<1>4. \A i \in 1..2 : /\ i \in DOMAIN FromStrategy("fail")
                      /\ FromStrategy("fail")[i] = FromStrategy("data")[i]
  <2>1. /\ DOMAIN FromStrategy("fail") = 1..(2 + Len(Rest("fail"))) /\ Len(Rest("fail")) \in Nat
        /\ FromStrategy("fail")[1] = "method" /\ FromStrategy("fail")[2] = "ok"
        /\ FromStrategy("data")[1] = "method" /\ FromStrategy("data")[2] = "ok"
    BY FromStrategyIs, RestIs
  <2>2. \A i \in 1..2 : (i = 1 \/ i = 2) /\ i \in 1..(2 + Len(Rest("fail")))
    BY <2>1
  <2> QED  BY <2>1, <2>2
<1>5. /\ Fits(cgot, 0, ToClient("data"), {}) /\ Fits(q["gc"], m, ToClient("data"), {})
      /\ Fits(q["bg"], Taken, FromStrategy("data"), {})
  BY DEF DataInv, ClientInv
<1>6. Fits(cgot, 0, ToClient("fail"), {})
  <2>1. \A i \in 1..(0 + Len(cgot)) : i \in 1..a
    <3> HIDE DEF a, n
    <3> QED  BY <1>1, <1>2
  <2> QED  BY <1>1, <1>3, <1>5, <2>1, FitsOther
<1>7. Fits(q["gc"], m, ToClient("fail"), {})
  <2>1. \A i \in 1..(m + Len(q["gc"])) : i \in 1..a
    <3> HIDE DEF a, m
    <3> QED  BY <1>1, <1>2
  <2> HIDE DEF m
  <2> QED  BY <1>1, <1>3, <1>5, <2>1, FitsOther
<1>8. Fits(q["bg"], Taken, FromStrategy("fail"), {})
  <2>1. \A i \in 1..(Taken + Len(q["bg"])) : i \in 1..2
    BY <1>1
  <2> QED  BY <1>1, <1>4, <1>5, <2>1, FitsOther
<1> QED  BY <1>6, <1>7, <1>8 DEF ClientInv

\* VLESS has said yes, and now that it cannot dial.
LEMMA DownFails ==
  ASSUME CtlInv, CtlInv', UpInv, DownInv, DialVlessFails, UNCHANGED <<gateway, client, remote>>
  PROVE  DownInv'
<1>1. /\ UNCHANGED <<mid, kind, bcopy>> /\ b = "dial" /\ b' = "done" /\ kind # "worker" /\ "bg" \in fin'
      /\ fin \subseteq fin' /\ deaf \subseteq deaf'
      /\ q'["gc"] = q["gc"] \/ (q'["gc"] = <<>> /\ "gc" \in deaf')
      /\ q'["rb"] = q["rb"] \/ (q'["rb"] = <<>> /\ "rb" \in deaf')
      /\ q'["bg"] = IF Broken("bg") THEN q["bg"] ELSE Append(q["bg"], "fail")
  BY VlessTells DEF Shrinks, Dirs
<1>2. /\ UNCHANGED <<g, first, cgot, ready, rsent>> /\ mid # "direct" /\ g \notin Early
  BY <1>1 DEF gateway, client, remote, CtlInv, PlaceInv
<1>3. first # "tls"
  BY <1>1, <1>2 DEF UpInv, StrategyInv
<1>4. CASE Broken("bg")
  <2>1. DownQuiet
    BY <1>1, <1>2, <1>4 DEF DownQuiet, Shrinks, Stays
  <2> QED  BY <2>1, DownStays
<1>5. CASE BadInv
  <2>1. g' = "done"
    BY <1>2, <1>5 DEF BadInv
  <2> QED  BY <1>1, <1>2, <1>5, <2>1, BadStays DEF DownInv
<1>6. CASE DataInv /\ ~Broken("bg") /\ ~DownOpen'
  <2>1. ToClient("data")' = ToClient("data")
    BY <1>2, SameAnswers
  <2>2. Fits(q'["gc"], Len(cgot), ToClient("data"), {})
    BY <1>1, <1>6, FitsEmpty DEF DataInv, ClientInv
  <2>3. ClientInv("data")'
    BY <1>2, <1>6, <2>1, <2>2 DEF DataInv, ClientInv
  <2>4. AnswerInv'
    BY <1>6 DEF AnswerInv
  <2> QED  BY <1>1, <1>2, <1>3, <1>6, <2>3, <2>4 DEF DownInv, DataInv
<1>7. CASE DataInv /\ ~Broken("bg") /\ DownOpen'
  <2>1. DownOpen /\ q'["gc"] = q["gc"] /\ q'["bg"] = Append(q["bg"], "fail")
    BY <1>1, <1>2, <1>7 DEF DownOpen, Broken
  <2>2. Answered = 2
    BY <1>1, <1>2, <1>3, <1>7, <2>1 DEF DataInv, AnswerInv
  <2>3. ClientInv("fail")
    BY <1>2, <1>7, <2>1, <2>2, FailFits
  <2>4. Fits(Append(q["bg"], "fail"), Taken, FromStrategy("fail"), {})
    <3>1. /\ DOMAIN FromStrategy("fail") = 1..(2 + Len(Rest("fail"))) /\ Len(Rest("fail")) = 1
          /\ \A i \in 1..Len(Rest("fail")) : FromStrategy("fail")[2 + i] = Rest("fail")[i]
          /\ Rest("fail")[1] = "fail"
      BY <1>2, FromStrategyIs, RestIs
    <3>2. Answered + 1 = 2 + 1 /\ 2 + 1 \in 1..(2 + 1) /\ 1 \in 1..1
      BY <2>2
    <3>3. Answered + 1 \in DOMAIN FromStrategy("fail") /\ "fail" = FromStrategy("fail")[Answered + 1]
      BY <3>1, <3>2
    <3>4. "fail" \in Values
      BY WordTypes DEF Words
    <3> QED  BY <2>1, <2>3, <3>3, <3>4, DownPuts
  <2>5. ToClient("fail")' = ToClient("fail") /\ FromStrategy("fail")' = FromStrategy("fail")
        /\ Answer' = Answer
    BY <1>1, <1>2, SameAnswers
  <2>6. Taken' = Taken
    BY <1>1, <1>2, <2>1, <2>5 DEF Taken
  <2>7. ClientInv("fail")'
    BY <1>2, <2>1, <2>3, <2>4, <2>5, <2>6 DEF ClientInv
  <2> QED  BY <1>1, <1>2, <1>3, <2>7 DEF DownInv, FailInv
<1> QED  BY <1>1, <1>4, <1>5, <1>6, <1>7 DEF DownInv, FailInv


\* The server of the strategy gets the request of one stream, first, and a target gets none.
LEMMA RequestOnce ==
  ASSUME CtlInv, UpInv, RemoteReceives, Head(q[In]) \in {"new", "hdr"}
  PROVE  mid # "direct" /\ ~ready /\ Head(q[In]) = IF kind = "worker" THEN "new" ELSE "hdr"
<1>1. Dialled /\ q[In] # <<>> /\ In \in Dirs
  BY RemoteGot, RemoteEnds
<1>2. q[In] \in Seq(Values) /\ Passed \in Nat /\ Len(rgot) \in Nat /\ One(ready) \in {0, 1}
      /\ (ready <=> One(ready) = 1)
  BY <1>1, UpNumbers
<1>3. /\ Len(Payload) \in Nat /\ DOMAIN Payload = 1..Len(Payload)
      /\ \A i \in 1..Len(Payload) : Payload[i] \notin {"new", "hdr", "close"}
  <2>1. \A i \in 1..Len(Payload) : Payload[i] \notin Words \ {"http", "tls"}
    BY PayloadIs
  <2> QED  BY <2>1, PayloadIs DEF Words
<1>4. mid # "direct"
  <2> SUFFICES ASSUME mid = "direct" PROVE FALSE
    OBVIOUS
  <2>1. In = "gb" /\ ToStrategy = Payload
    BY ToStrategyIs DEF In
  <2>2. Fits(q[In], Passed, Payload, {})
    BY <2>1 DEF UpInv, StrategyInv, UpOpen
  <2>3. (Passed + 1 \in DOMAIN Payload /\ Head(q[In]) = Payload[Passed + 1]) \/ Head(q[In]) \in {}
    BY <1>1, <1>2, <2>2, FitsTake
  <2> QED  BY <1>3, <2>3
<1> DEFINE u == Len(rgot) + One(ready)
           marks == IF "br" \in fin THEN {"close"} ELSE {}
<1>5. In = "br" /\ u \in Nat /\ Head(q[In]) \notin marks
  BY <1>2, <1>4 DEF In
<1>6. Fits(q[In], u, ToRemote, marks) /\ (~ready => rgot = <<>>)
  BY <1>4, <1>5 DEF UpInv, RemoteInv
<1>7. (u + 1 \in DOMAIN ToRemote /\ Head(q[In]) = ToRemote[u + 1]) \/ Head(q[In]) \in marks
  <2> HIDE DEF u, marks
  <2> QED  BY <1>1, <1>2, <1>5, <1>6, FitsTake
<1>8. u + 1 \in DOMAIN ToRemote /\ Head(q[In]) = ToRemote[u + 1]
  BY <1>5, <1>7
<1> HIDE DEF marks
<1>9. /\ DOMAIN ToRemote = 1..(Len(Payload) + 1)
      /\ ToRemote[1] = IF kind = "worker" THEN "new" ELSE "hdr"
      /\ \A i \in 1..Len(Payload) : ToRemote[i + 1] = Payload[i]
  BY ToRemoteIs
<1>10. u = 0
  <2> SUFFICES ASSUME u # 0 PROVE FALSE
    OBVIOUS
  <2> HIDE DEF u
  <2>1. u \in 1..Len(Payload)
    BY <1>3, <1>5, <1>8, <1>9
  <2> QED  BY <1>3, <1>8, <1>9, <2>1
<1>11. ~ready
  BY <1>2, <1>10
<1>12. ToRemote[0 + 1] = ToRemote[1]
  OBVIOUS
<1> QED  BY <1>4, <1>8, <1>9, <1>10, <1>11, <1>12

\* The strategy's server answers the request of the stream.
LEMMA DownAcks ==
  ASSUME CtlInv, UpInv, DownInv, RemoteReceives, Head(q[In]) \in {"new", "hdr"} PROVE DownInv'
<1> DEFINE v == IF kind = "worker" THEN "success" ELSE "hdr"
<1>1. mid # "direct" /\ ~ready /\ Head(q[In]) = IF kind = "worker" THEN "new" ELSE "hdr"
  BY RequestOnce
<1>2. In = "br" /\ Out = "rb" /\ b \in {"success", "copy"}
  BY <1>1, RemoteGot, RemoteEnds
<1>3. /\ UNCHANGED <<fin, deaf, mid, gateway, strategy, client, rsent>> /\ ready' = TRUE
      /\ q'["gc"] = q["gc"] /\ q'["bg"] = q["bg"]
      /\ q'["rb"] = IF Broken("rb") THEN q["rb"] ELSE Append(q["rb"], v)
  <2>1. /\ UNCHANGED <<fin, deaf, mid, gateway, strategy, client, rsent>> /\ ready' = TRUE
        /\ \A o \in Dirs : o # In /\ o # Out => q'[o] = q[o]
        /\ q'[Out] = IF Broken(Out) THEN q[Out]
                     ELSE Append(q[Out], IF Head(q[In]) = "new" THEN "success" ELSE "hdr")
    BY RemoteGot
  <2> QED  BY <1>1, <1>2, <2>1 DEF Dirs
<1>4. UNCHANGED <<kind, b, bcopy, first, cgot>>
  BY <1>3 DEF strategy, client
<1>5. /\ (DownOpen' <=> DownOpen) /\ Answered' = Answered /\ (BadInv => BadInv')
      /\ ((~Broken("bg"))' <=> ~Broken("bg")) /\ ((~Broken("rb"))' <=> ~Broken("rb"))
      /\ (ClientInv("data") => ClientInv("data")')
  BY <1>3, DownKept DEF Answered, ClientInv
<1>6. CASE DataInv
  <2>1. rsent = 0 /\ q["rb"] = <<>> /\ One(ready) = 0 /\ One(ready') = 1
    BY <1>1, <1>3, <1>6 DEF DataInv, One
  <2>2. Received' = Received /\ FromRemote' = FromRemote /\ Marks' = Marks
    BY <1>3, <1>4, <1>5, SameAnswers DEF Received, Marks
  <2>3. ASSUME DownOpen, ~Broken("bg"), first # "tls"
        PROVE  /\ Fits(q'["rb"], Received, FromRemote, Marks)
               /\ ~Broken("rb") => Received + Len(q'["rb"]) = 1 + 0
    <3>1. CASE Broken("rb")
      BY <1>3, <2>1, <3>1, FitsEmpty
    <3>2. CASE ~Broken("rb")
      <4>1. Received + Len(q["rb"]) = One(ready) + rsent
        BY <1>1, <1>2, <1>6, <2>3, <3>2 DEF DataInv, AnswerInv
      <4>2. Received = 0
        <5>1. Answered \in Nat
          BY DownNumbers
        <5>2. Received \in Int
          BY <5>1 DEF Received
        <5>3. Len(<<>>) = 0
          OBVIOUS
        <5> QED  BY <2>1, <4>1, <5>2, <5>3
      <4>3. q'["rb"] = Append(<<>>, v) /\ Len(Append(<<>>, v)) = 1
        BY <1>3, <2>1, <3>2
      <4>4. Fits(Append(<<>>, v), 0, FromRemote, {})
        <5>1. Fits(<<>>, 0, FromRemote, {}) /\ <<>> \in Seq(Values) /\ v \in Values
          BY FitsEmpty, WordTypes DEF Words
        <5>2. DOMAIN FromRemote = 1..(1 + N) /\ N \in Nat /\ v = FromRemote[1]
          BY FromRemoteIs
        <5> HIDE DEF v
        <5>3. 0 + Len(<<>>) + 1 = 1 /\ 1 \in 1..(1 + N)
          BY <5>2
        <5> QED  BY <5>1, <5>2, <5>3, FitsPut
      <4>5. Fits(Append(<<>>, v), 0, FromRemote, Marks)
        BY <4>4, FitsMore
      <4>6. 0 + 1 = 1 + 0
        OBVIOUS
      <4> HIDE DEF v
      <4> QED  BY <4>2, <4>3, <4>5, <4>6
    <3> QED  BY <3>1, <3>2
  <2>4. AnswerInv'
    <3>1. CASE DownOpen /\ ~Broken("bg") /\ first # "tls"
      <4>1. Fits(q'["rb"], Received', FromRemote', Marks')
        BY <2>2, <2>3, <3>1
      <4>2. (~Broken("rb") /\ (rsent < N \/ ~ready) => Received + Len(q["rb"]) = One(ready) + rsent)'
        BY <1>3, <1>5, <2>1, <2>2, <2>3, <3>1
      <4>3. /\ b = "success" => Answered = 1
            /\ b = "copy" => Answered > 1
            /\ "header" \in bcopy => Answered = 2
        BY <1>1, <1>6, <3>1 DEF DataInv, AnswerInv
      <4> QED  BY <1>1, <1>2, <1>3, <1>4, <1>5, <4>1, <4>2, <4>3 DEF AnswerInv
    <3>2. CASE ~(DownOpen /\ ~Broken("bg") /\ first # "tls")
      BY <1>1, <1>3, <1>4, <1>5, <3>2 DEF AnswerInv
    <3> QED  BY <3>1, <3>2
  <2> QED  BY <1>1, <1>3, <1>4, <1>5, <1>6, <2>4 DEF DownInv, DataInv
<1> QED  BY <1>2, <1>5, <1>6 DEF DownInv, FailInv


\* The target of DIRECT sends.
LEMMA DownServes ==
  ASSUME CtlInv, DownInv, RemoteSends \/ RemoteEndsStream, mid = "direct" PROVE DownInv'
<1>1. /\ Out = "bg" /\ "bg" \notin fin /\ UNCHANGED <<fin, deaf, mid, gateway, strategy, client>>
      /\ b = "out" /\ q'["gc"] = q["gc"] /\ rsent < N /\ rsent' = rsent + 1
      /\ q'["bg"] = IF "bg" \in deaf THEN q["bg"] ELSE Append(q["bg"], Items[rsent + 1])
  BY RemoteSent, RemoteEnds DEF Dirs
<1>2. UNCHANGED <<b, kind, first, cgot>> /\ mid' = "direct"
  BY <1>1 DEF strategy, client
<1>3. /\ (DownOpen' <=> DownOpen) /\ Answered' = Taken + Len(q'["bg"]) /\ (BadInv => BadInv')
      /\ ((~Broken("bg"))' <=> ~Broken("bg"))
      /\ ClientInv("data") /\ (DownOpen => Fits(q'["bg"], Taken, FromStrategy("data"), {})) =>
            ClientInv("data")'
  BY <1>1, DownKept
<1>4. Answered \in Nat /\ Answered = Taken + Len(q["bg"]) /\ rsent \in 0..N /\ N \in Nat
  BY DownNumbers
<1>5. DownOpen => ~Broken("bg")
  BY <1>1 DEF DownOpen, Broken, CtlInv, LoopInv
<1>6. CASE DataInv
  <2>1. ClientInv("data")
    BY <1>6 DEF DataInv
  <2>2. ASSUME DownOpen PROVE ClientInv("data")' /\ Answered' = rsent + 1
    <3>1. Answered = rsent /\ q'["bg"] = Append(q["bg"], Items[rsent + 1])
      BY <1>1, <1>5, <1>6, <2>2 DEF DataInv, AnswerInv, Broken
    <3>2. FromStrategy("data") = Items /\ DOMAIN Items = 1..N
      BY FromStrategyIs, RestIs, ItemTypes
    <3>3. rsent + 1 \in 1..N
      BY <1>1, <1>4
    <3>4. Items[rsent + 1] \in Values
      BY <3>3, ItemTypes
    <3>5. /\ Fits(Append(q["bg"], Items[rsent + 1]), Taken, FromStrategy("data"), {})
          /\ Taken + Len(Append(q["bg"], Items[rsent + 1])) = Answered + 1
      BY <2>1, <2>2, <3>1, <3>2, <3>3, <3>4, DownPuts
    <3> QED  BY <1>3, <2>1, <3>1, <3>5
  <2>3. ClientInv("data")'
    BY <1>3, <2>1, <2>2
  <2>4. AnswerInv'
    BY <1>1, <1>2, <1>3, <2>2 DEF AnswerInv
  <2> QED  BY <1>2, <2>3, <2>4 DEF DownInv, DataInv
<1> QED  BY <1>1, <1>3, <1>6 DEF DownInv, FailInv

\* The strategy's server sends data, or the end of the stream.
LEMMA DownSends ==
  ASSUME CtlInv, DownInv, RemoteSends \/ RemoteEndsStream, mid # "direct" PROVE DownInv'
<1>1. /\ Out = "rb" /\ "rb" \notin fin /\ UNCHANGED <<fin, deaf, mid, gateway, strategy, client, ready>>
      /\ b \in {"success", "copy"} /\ ready /\ q'["gc"] = q["gc"] /\ q'["bg"] = q["bg"]
      /\ \/ /\ rsent < N /\ rsent' = rsent + 1
            /\ q'["rb"] = IF "rb" \in deaf THEN q["rb"] ELSE Append(q["rb"], Items[rsent + 1])
         \/ /\ kind = "worker" /\ rsent' = N
            /\ q'["rb"] = IF "rb" \in deaf THEN q["rb"] ELSE Append(q["rb"], "close")
  BY RemoteSent, RemoteEnds DEF Dirs
<1>2. UNCHANGED <<b, bcopy, kind, first, cgot>>
  BY <1>1 DEF strategy, client
<1>3. /\ (DownOpen' <=> DownOpen) /\ Answered' = Answered /\ (BadInv => BadInv')
      /\ ((~Broken("bg"))' <=> ~Broken("bg")) /\ ((~Broken("rb"))' <=> ~Broken("rb"))
      /\ (ClientInv("data") => ClientInv("data")')
  BY <1>1, DownKept DEF Answered, ClientInv
<1>4. /\ Answered \in Nat /\ rsent \in 0..N /\ N \in Nat /\ One(ready) = 1
      /\ q["rb"] \in Seq(Values) /\ Len(q["rb"]) \in Nat
  BY <1>1, DownNumbers DEF Dirs, One
<1>5. CASE DataInv
  <2>1. Received' = Received /\ FromRemote' = FromRemote
    BY <1>1, <1>2, <1>3, SameAnswers DEF Received
  <2>2. ASSUME DownOpen, ~Broken("bg"), first # "tls"
        PROVE  /\ Fits(q["rb"], Received, FromRemote, Marks) /\ Received \in Nat
               /\ ~Broken("rb") /\ rsent < N => Received + Len(q["rb"]) = 1 + rsent
               /\ b = "success" => Answered = 1
               /\ b = "copy" => Answered > 1
               /\ "header" \in bcopy => Answered = 2
    <3>1. /\ b = "success" => Answered = 1
          /\ b = "copy" => Answered > 1
          /\ "header" \in bcopy => Answered = 2
          /\ Fits(q["rb"], Received, FromRemote, Marks)
          /\ ~Broken("rb") /\ rsent < N => Received + Len(q["rb"]) = One(ready) + rsent
      BY <1>1, <1>5, <2>2 DEF DataInv, AnswerInv
    <3>2. Received \in Nat
      <4>1. Answered > 0
        BY <1>1, <1>4, <3>1
      <4> QED  BY <1>4, <4>1 DEF Received
    <3> QED  BY <1>4, <3>1, <3>2
  <2>3. ASSUME DownOpen, ~Broken("bg"), first # "tls"
        PROVE  /\ Fits(q'["rb"], Received, FromRemote, Marks')
               /\ ~Broken("rb") /\ rsent' < N => Received + Len(q'["rb"]) = 1 + rsent'
    <3>1. Marks \subseteq Marks' /\ (rsent < N => Marks = {})
      BY <1>1, <1>2, <1>4 DEF Marks
    <3>2. CASE "rb" \in deaf
      <4>1. q'["rb"] = q["rb"] /\ Broken("rb")
        BY <1>1, <3>2 DEF Broken
      <4> QED  BY <2>2, <2>3, <3>1, <4>1, FitsMore
    <3>3. CASE "rb" \notin deaf /\ rsent < N /\ rsent' = rsent + 1
               /\ q'["rb"] = Append(q["rb"], Items[rsent + 1])
      <4> DEFINE v == Items[rsent + 1]
      <4>1. rsent + 1 \in 1..N /\ 1 + (rsent + 1) \in 1..(1 + N)
        BY <1>4, <3>3
      <4>2. v \in Values /\ FromRemote[1 + (rsent + 1)] = v /\ DOMAIN FromRemote = 1..(1 + N)
        BY <4>1, ItemTypes, FromRemoteIs
      <4> HIDE DEF v
      <4>3. Received + Len(q["rb"]) = 1 + rsent /\ Fits(q["rb"], Received, FromRemote, {})
        BY <1>1, <2>2, <2>3, <3>1, <3>3 DEF Broken
      <4>4. Received + Len(q["rb"]) + 1 = 1 + (rsent + 1)
        BY <1>4, <2>2, <2>3, <4>3
      <4>5. Fits(Append(q["rb"], v), Received, FromRemote, {})
        BY <1>4, <2>2, <2>3, <4>1, <4>2, <4>3, <4>4, FitsPut
      <4>6. Fits(Append(q["rb"], v), Received, FromRemote, Marks')
        BY <4>5, FitsMore
      <4>7. Received + Len(Append(q["rb"], v)) = 1 + (rsent + 1)
        <5>1. \A s \in Seq(Values) : \A w \in Values : Len(Append(s, w)) = Len(s) + 1
          OBVIOUS
        <5>2. Len(Append(q["rb"], v)) = Len(q["rb"]) + 1
          BY <1>4, <4>2, <5>1
        <5>3. Received + (Len(q["rb"]) + 1) = Received + Len(q["rb"]) + 1
          BY <1>4, <2>2, <2>3
        <5> QED  BY <4>4, <5>2, <5>3
      <4> QED  BY <3>3, <4>6, <4>7 DEF v
    <3>4. CASE "rb" \notin deaf /\ kind = "worker" /\ rsent' = N
               /\ q'["rb"] = Append(q["rb"], "close")
      <4>1. Marks' = {"close"}
        BY <1>2, <3>4 DEF Marks
      <4>2. Fits(q["rb"], Received, FromRemote, {"close"})
        BY <2>2, <2>3, <3>1, <4>1, FitsMore
      <4>3. "close" \in Values /\ "close" \in {"close"}
        BY WordTypes DEF Words
      <4>4. Fits(Append(q["rb"], "close"), Received, FromRemote, {"close"})
        BY <1>4, <2>2, <2>3, <4>2, <4>3, FitsMark
      <4>5. ~(rsent' < N)
        BY <1>4, <3>4
      <4> QED  BY <3>4, <4>1, <4>4, <4>5
    <3> QED  BY <1>1, <3>2, <3>3, <3>4
  <2>4. AnswerInv'
    <3>1. CASE DownOpen /\ ~Broken("bg") /\ first # "tls"
      <4>1. Fits(q'["rb"], Received', FromRemote', Marks')
        BY <2>1, <2>3, <3>1
      <4>2. (~Broken("rb") /\ (rsent < N \/ ~ready) => Received + Len(q["rb"]) = One(ready) + rsent)'
        <5>1. One(ready') = 1 /\ ready'
          BY <1>1, <1>4
        <5> QED  BY <1>3, <2>1, <2>3, <3>1, <5>1
      <4>3. /\ b = "success" => Answered = 1
            /\ b = "copy" => Answered > 1
            /\ "header" \in bcopy => Answered = 2
        BY <2>2, <3>1
      <4> QED  BY <1>1, <1>2, <1>3, <4>1, <4>2, <4>3 DEF AnswerInv
    <3>2. CASE ~(DownOpen /\ ~Broken("bg") /\ first # "tls")
      BY <1>1, <1>2, <1>3, <3>2 DEF AnswerInv
    <3> QED  BY <3>1, <3>2
  <2> QED  BY <1>1, <1>2, <1>3, <1>5, <2>4 DEF DownInv, DataInv
<1> QED  BY <1>1, <1>3, <1>5 DEF DownInv, FailInv


-----------------------------------------------------------------------------
(* The whole way down.                                                      *)

\* Before anything happens nothing is on its way.
LEMMA DownInitially == Init => DownInv
<1> SUFFICES ASSUME Init PROVE DownInv
  OBVIOUS
<1>1. /\ q["gc"] = <<>> /\ q["bg"] = <<>> /\ q["rb"] = <<>>
      /\ cgot = <<>> /\ ready = FALSE /\ rsent = 0 /\ mid = "none" /\ b = "out" /\ bcopy = {}
      /\ g = "out"
  BY DEF Init, LinksInit, GatewayInit, StrategyInit, Dirs
<1>2. ClientInv("data")
  BY <1>1, FitsEmpty DEF ClientInv
<1>3. Answered = 0
  <2>1. Taken = 0 /\ Len(q["bg"]) = 0
    BY <1>1 DEF Taken
  <2> QED  BY <2>1 DEF Answered
<1>4. AnswerInv
  BY <1>1, <1>3 DEF AnswerInv
<1> QED  BY <1>1, <1>2, <1>4 DEF DownInv, DataInv

\* The gateway keeps the way down.
LEMMA DownGateway ==
  ASSUME CtlInv, CtlInv', DownInv, ~Misrouted,
         GatewayHandler \/ GatewayUp \/ GatewayDown \/ GatewayMay,
         UNCHANGED <<strategy, client, remote>>
  PROVE  DownInv'
<1>1. CASE SniffFails \/ Rejected \/ DirectDialFails \/ BackendHandshakeFails \/ HttpPassingFails \/ GCopied
           \/ GUpEnds \/ GDownEnds
  BY <1>1, GatewayQuiet, DownStays DEF Quiet
<1>2. CASE \/ acceptLoop \/ sniffTargetForRouting \/ fillBuffer \/ DirectDial \/ forwardTCP
           \/ forwardSocks5 \/ dialSocksProxy \/ \E r \in {"direct", "backend"} : DispatchTo(r)
  BY <1>2, DownEarly
<1>3. CASE handleSocks5BackendHandshake \/ ConnectRequest
  BY <1>3, DownShakes
<1>4. CASE HttpConnected
  BY <1>4, DownConnects
<1>5. CASE GUp
  BY <1>5, UpIsDownQuiet, DownStays
<1>6. CASE GDown
  BY <1>6, DownCopies
<1>7. CASE BackendDialFails \/ dialSocksProxyFails
  BY <1>7, DownRefuses
<1> QED
  BY <1>1, <1>2, <1>3, <1>4, <1>5, <1>6, <1>7
     DEF GatewayHandler, GatewayUp, GatewayDown, GatewayMay

\* The strategy keeps the way down.
LEMMA DownStrategy ==
  ASSUME CtlInv, CtlInv', UpInv, UpInv', DownInv,
         Accept \/ StrategyHandler \/ StrategyUp \/ StrategyDown \/ Closing \/ CloseTunnel,
         UNCHANGED <<gateway, client, remote>>
  PROVE  DownInv'
<1>1. CASE HandshakeFails \/ createTunnelFails \/ HeaderFails \/ NoSuccess \/ BCopied \/ FirstChunkFails
           \/ CloseWriter \/ NoResponseHeader \/ BDownEnds \/ VlessDownEnds
           \/ (BUpEnds /\ ~AtEnd("gb")) \/ Closing \/ CloseTunnel
  BY <1>1, StrategyQuiet, DownStays DEF Quiet
<1>2. CASE Accept \/ Register \/ DialVlessWS \/ DialVlessGRPC
  BY <1>2, DownAccepts
<1>3. CASE Methods \/ Request \/ VlessRequest
  BY <1>3, DownGreets
<1>4. CASE createTunnel
  BY <1>4, DownCreates
<1>5. CASE waitForSuccess \/ DecodeResponseHeader
  BY <1>5, DownAnswered
<1>6. CASE BUp \/ FirstChunk \/ (BUpEnds /\ AtEnd("gb"))
  BY <1>6, UpIsDownQuiet, DownStays
<1>7. CASE BDown
  BY <1>7, DownBrings
<1>8. CASE DialVlessFails
  BY <1>8, DownFails
<1> QED
  BY <1>1, <1>2, <1>3, <1>4, <1>5, <1>6, <1>7, <1>8 DEF StrategyHandler, StrategyUp, StrategyDown

\* Every step keeps the way down.
LEMMA DownStep == ASSUME CtlInv, UpInv, DownInv, ~Misrouted, [Next]_vars PROVE DownInv'
<1>1. CtlInv' /\ UpInv'
  BY CtlStep, UpStep
<1>2. CASE (GatewayHandler \/ GatewayUp \/ GatewayDown \/ GatewayMay)
           /\ UNCHANGED <<strategy, client, remote>>
  BY <1>1, <1>2, DownGateway
<1>3. CASE (Accept \/ StrategyHandler \/ StrategyUp \/ StrategyDown \/ Closing \/ CloseTunnel)
           /\ UNCHANGED <<gateway, client, remote>>
  BY <1>1, <1>3, DownStrategy
<1>4. CASE ClientSends \/ (RemoteReceives /\ Head(q[In]) \notin {"new", "hdr"})
  BY <1>1, <1>4, UpIsDownQuiet, DownStays
<1>5. CASE RemoteReceives /\ Head(q[In]) \in {"new", "hdr"}
  BY <1>5, DownAcks
<1>6. CASE ClientReceives
  BY <1>6, DownReceives
<1>7. CASE RemoteSends \/ RemoteEndsStream
  BY <1>7, DownServes, DownSends
<1>8. CASE ClientShuts \/ ClientCloses \/ RemoteCloses
  BY <1>1, <1>8, EndsQuiet, DownStays DEF Quiet
<1>9. CASE UNCHANGED vars
  <2>1. DownQuiet
    BY <1>9 DEF vars, links, gateway, strategy, client, remote, DownQuiet, Shrinks, Stays
  <2> QED  BY <1>1, <2>1, DownStays
<1> QED
  BY <1>2, <1>3, <1>4, <1>5, <1>6, <1>7, <1>8, <1>9 DEF Next, GatewayStep, StrategyStep

\* The invariant holds as long as the program runs.
LEMMA Invariance == Spec => []IInv
<1>1. Init => IInv
  BY CtlInitially, UpInitially, DownInitially DEF IInv
<1>2. IInv /\ [Next]_vars => IInv'
  BY CtlStep, UpStep, DownStep, MisroutedStays DEF IInv
<1> QED  BY <1>1, <1>2, PTL DEF Spec

\* What fits from the beginning is a prefix.
LEMMA FitsPrefix ==
  ASSUME NEW s \in Seq(Values), NEW W \in Seq(Values), Fits(s, 0, W, {})
  PROVE  IsPrefix(s, W)
<1>1. \A j \in 1..Len(s) : 0 + j \in DOMAIN W /\ s[j] = W[0 + j]
  BY FitsAll
<1>2. \A j \in 1..Len(s) : j \in 1..Len(W) /\ s[j] = W[j]
  BY <1>1
<1>3. Len(s) <= Len(W)
  BY <1>2
<1> QED  BY <1>2, <1>3 DEF IsPrefix

\* The remote receives the client's data in order and without gaps, and no request of the
\* proxy protocols or of a strategy among it, for any data of the client and any bound on
\* what is on its way, whichever reader holds the data when a handshake is done and whoever
\* closes when.
THEOREM RemoteReceivesPayload == Spec => []RemoteGetsPayload
<1>1. ASSUME CtlInv, UpInv PROVE RemoteGetsPayload
  <2>1. Fits(rgot, 0, Payload, {}) /\ rgot \in Seq(Values) /\ Payload \in Seq(Values)
    BY <1>1, PayloadIs DEF UpInv, RemoteInv, CtlInv, QueueInv
  <2>2. IsPrefix(rgot, Payload)
    BY <2>1, FitsPrefix
  <2> QED  BY <2>2 DEF RemoteGetsPayload, Payload
<1>2. IInv => RemoteGetsPayload
  BY <1>1 DEF IInv, RemoteGetsPayload
<1> QED  BY <1>2, Invariance, PTL

\* What the client has received when the dial of VLESS fails.
LEMMA FailReceived ==
  ASSUME CtlInv, Fits(cgot, 0, ToClient("fail"), {})
  PROVE  IsPrefix(cgot, ToClient("data")) \/ cgot \in {<<"ok", "fail">>, <<"fail">>}
<1> DEFINE a == Len(Answer)
           n == Len(cgot)
<1>1. cgot \in Seq(Values) /\ n \in Nat /\ a \in {0, 1}
  BY DownNumbers
<1>2. /\ DOMAIN ToClient("fail") = 1..(a + 1) /\ (a = 1 => ToClient("fail")[1] = "ok")
      /\ ToClient("fail")[a + 1] = "fail"
  <2>1. Len(Rest("fail")) = 1 /\ Rest("fail")[1] = "fail" /\ 1 \in 1..1
    BY RestIs
  <2> QED  BY <2>1, ToClientIs
<1>3. \A j \in 1..n : 0 + j \in DOMAIN ToClient("fail") /\ cgot[j] = ToClient("fail")[0 + j]
  BY <1>1, FitsAll
<1>4. n <= a + 1 /\ \A j \in 1..n : cgot[j] = ToClient("fail")[j]
  <2>1. \A j \in 1..n : j \in DOMAIN ToClient("fail") /\ cgot[j] = ToClient("fail")[j]
    BY <1>3
  <2> HIDE DEF a, n
  <2> QED  BY <1>1, <1>2, <2>1
<1>5. CASE n = a + 1
  <2>1. CASE a = 0
    <3>1. n = 1 /\ cgot[1] = "fail"
      BY <1>2, <1>4, <1>5, <2>1
    <3>2. cgot = <<"fail">>
      BY <1>1, <3>1
    <3> QED  BY <3>2
  <2>2. CASE a = 1
    <3>1. n = 2 /\ cgot[1] = "ok" /\ cgot[2] = "fail"
      BY <1>2, <1>4, <1>5, <2>2
    <3>2. cgot = <<"ok", "fail">>
      BY <1>1, <3>1
    <3> QED  BY <3>2
  <2> QED  BY <1>1, <2>1, <2>2
<1>6. CASE n <= a
  <2>1. /\ ToClient("data") \in Seq(Values) /\ (a = 1 => ToClient("data")[1] = "ok")
        /\ Len(ToClient("data")) = a + Len(Rest("data")) /\ Len(Rest("data")) \in Nat
    BY ToClientIs, RestIs
  <2>2. \A j \in 1..n : j = 1 /\ a = 1
    <3> HIDE DEF a, n
    <3> QED  BY <1>1, <1>6
  <2>3. \A j \in 1..n : cgot[j] = ToClient("data")[j]
    BY <1>2, <1>4, <2>1, <2>2
  <2>4. n <= Len(ToClient("data"))
    <3> HIDE DEF a, n
    <3> QED  BY <1>1, <1>6, <2>1
  <2> QED  BY <1>1, <2>1, <2>3, <2>4 DEF IsPrefix
<1> QED
  <2> HIDE DEF a, n
  <2>1. n = a + 1 \/ n <= a
    BY <1>1, <1>4
  <2> QED  BY <1>5, <1>6, <2>1

\* The client receives the answer to its request, one only, and after it the remote's data
\* in order and without gaps; a Bad Gateway of the gateway or the second answer of VLESS is
\* all it receives otherwise.  This holds for any data of the remote and any bound on what
\* is on its way, and whoever closes when.
THEOREM ClientReceivesPayload == Spec => []ClientGetsPayload
<1>1. ASSUME CtlInv, DownInv PROVE ClientGetsPayload
  <2>1. cgot \in Seq(Values) /\ ToClient("data") \in Seq(Values)
    BY <1>1, DownNumbers, ToClientIs
  <2>2. ToClient("data") = (IF first \in {"socks", "connect"} THEN <<"ok">> ELSE <<>>) \o Items
    BY DEF ToClient, Answer, Rest
  <2>3. CASE DataInv
    <3>1. Fits(cgot, 0, ToClient("data"), {})
      BY <2>3 DEF DataInv, ClientInv
    <3>2. IsPrefix(cgot, ToClient("data"))
      BY <2>1, <3>1, FitsPrefix
    <3> QED  BY <2>2, <3>2 DEF ClientGetsPayload
  <2>4. CASE FailInv
    <3>1. Fits(cgot, 0, ToClient("fail"), {}) /\ kind # "worker"
      BY <2>4 DEF FailInv, ClientInv
    <3>2. IsPrefix(cgot, ToClient("data")) \/ cgot \in {<<"ok", "fail">>, <<"fail">>}
      BY <1>1, <3>1, FailReceived
    <3> QED  BY <2>2, <3>1, <3>2 DEF ClientGetsPayload
  <2>5. CASE BadInv
    <3>1. Fits(cgot, 0, <<"bad">>, {})
      BY <2>5 DEF BadInv, ClientInv, ToClient
    <3>2. \A j \in 1..Len(cgot) : 0 + j \in DOMAIN <<"bad">> /\ cgot[j] = <<"bad">>[0 + j]
      BY <2>1, <3>1, FitsAll
    <3>3. \A j \in 1..Len(cgot) : j \in 1..1 /\ cgot[j] = "bad"
      BY <3>2
    <3>4. Len(cgot) \in Nat /\ Len(cgot) <= 1
      BY <2>1, <3>3
    <3>5. CASE Len(cgot) = 0
      <4>1. \A j \in 1..Len(cgot) : cgot[j] = ToClient("data")[j]
        BY <3>5
      <4>2. Len(cgot) <= Len(ToClient("data"))
        BY <2>1, <3>5
      <4>3. IsPrefix(cgot, ToClient("data"))
        BY <2>1, <4>1, <4>2 DEF IsPrefix
      <4> QED  BY <2>2, <4>3 DEF ClientGetsPayload
    <3>6. CASE Len(cgot) = 1
      <4>1. cgot[1] = "bad"
        BY <3>3, <3>6
      <4>2. cgot = <<"bad">>
        BY <2>1, <3>6, <4>1
      <4> QED  BY <4>2 DEF ClientGetsPayload
    <3>7. Len(cgot) = 0 \/ Len(cgot) = 1
      <4>1. \A n \in Nat : n <= 1 => n = 0 \/ n = 1
        OBVIOUS
      <4> QED  BY <3>4, <4>1
    <3> QED  BY <3>5, <3>6, <3>7
  <2> QED  BY <1>1, <2>3, <2>4, <2>5 DEF DownInv
<1>2. IInv => ClientGetsPayload
  BY <1>1 DEF IInv, ClientGetsPayload
<1> QED  BY <1>2, Invariance, PTL


=============================================================================
