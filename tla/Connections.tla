---------------------------- MODULE Connections ----------------------------
(***************************************************************************)
(* The net.Conns that strategies dial, one direction of one of them, from  *)
(* the Writes at one end to the Reads at the other: the adapter of goremote *)
(* and worker over WebSocket ("adapter"), the transports of VLESS, over    *)
(* WebSocket ("ws") and over gRPC in tun and multi mode ("hunk", "multi"), *)
(* and a TCP connection behind the readers and writers of package buf      *)
(* ("tcp").  The last four, but "ws", read through a BufferedReader.       *)
(*                                                                         *)
(* The writer is this code, or a server of another make ("foreign") that   *)
(* splits what it sends into messages in its own way.                      *)
(***************************************************************************)
EXTENDS Buffers

CONSTANTS
    ReadSizes,      \* lengths of the slices that Read gets
    MaxFrame        \* bound: bytes in a foreign server's message

ASSUME ConnectionsAssumption == ReadSizes \subseteq Nat /\ MaxFrame \in Nat

VARIABLES
    kind, foreign,
    todo,           \* the slices still to be written
    sent, got,      \* bytes written and read
    net,            \* messages on their way: each a sequence of byte strings, of length
                    \* one but in multi mode
    cache,          \* what the reading end holds: a MultiBuffer
    alloc,          \* allocStrategy.current
    wire,           \* "open", "closed" by the writer, "broken"
    ended           \* what ended the reading: "no", "eof", "error"

connection == <<kind, foreign, todo, sent, got, net, cache, alloc, wire, ended>>

Kinds == {"adapter", "ws", "hunk", "multi", "tcp"}

ConnectionInit ==
    /\ kind \in Kinds /\ foreign \in BOOLEAN
    /\ sent = <<>> /\ got = <<>> /\ net = <<>> /\ cache = <<>>
    /\ alloc = 1 /\ wire = "open" /\ ended = "no"

-----------------------------------------------------------------------------
(* Writing.                                                                 *)

\* One message for a Write of the adapter or of the WebSocket connection.
WriteMessage(b) == <<<<b>>>>

\* HunkReaderWriter gets a Write for each Buffer from the SequentialWriter.
SendHunks(slices) == [i \in DOMAIN slices |-> <<slices[i]>>]

\* In multi mode all Buffers that are not empty go into one message.
NotEmpty(slices) ==
    FlattenSeq([i \in DOMAIN slices |-> IF slices[i] = <<>> THEN <<>> ELSE <<slices[i]>>])
SendMultiHunk(slices) == <<NotEmpty(slices)>>

\* Write of cnc.connection, which wraps the gRPC ones.
Frames(b) ==
    LET slices == SplitFirsts(MergeBytes(<<>>, b))
    IN CASE kind = "hunk" -> SendHunks(slices)
         [] kind = "multi" -> SendMultiHunk(slices)
         [] OTHER -> WriteMessage(b)

Sends(b, messages) ==
    /\ sent' = sent \o b /\ net' = net \o messages
    /\ UNCHANGED <<kind, foreign, got, cache, alloc, wire, ended>>

WriteConn ==
    /\ wire = "open" /\ ~foreign /\ todo # <<>>
    /\ Sends(Head(todo), Frames(Head(todo))) /\ todo' = Tail(todo)

\* The WebSocket connection's WriteMultiBuffer, of Buffers that were filled in turn.
WriteMultiBuffer ==
    /\ wire = "open" /\ ~foreign /\ todo # <<>> /\ kind = "ws"
    /\ \E k \in 1..Len(Head(todo)) :
          LET b == Head(todo)
              slices == SplitFirsts(Compact(MergeBytes(<<>>, Take(b, k)) \o MergeBytes(<<>>, Drop(b, k))))
          IN Sends(b, SendHunks(slices))
    /\ todo' = Tail(todo)

\* External: a server's message may be empty, and hold part of a Write or of several.
ForeignSends ==
    LET all == FlattenSeq(todo) IN
    /\ wire = "open" /\ foreign /\ todo # <<>> /\ Len(net) < 2
    /\ \E n \in 0..Fewer(MaxFrame, Len(all)), k \in 0..MaxFrame :
          /\ k = n \/ (k < n /\ kind = "multi")
          /\ kind = "tcp" => n > 0 \/ all = <<>>
          /\ Sends(Take(all, n), <<IF k = n THEN <<Take(all, n)>>
                                            ELSE <<Take(all, k), SubSeq(all, k + 1, n)>> >>)
          /\ todo' = IF n = Len(all) THEN <<>> ELSE <<Drop(all, n)>>

\* The writer is done and closes: gRPC's CloseSend, a close frame, a FIN.
CloseConn ==
    /\ wire = "open" /\ todo = <<>> /\ wire' = "closed"
    /\ UNCHANGED <<kind, foreign, todo, sent, got, net, cache, alloc, ended>>

\* External: the connection is lost with what is on its way.
Break ==
    /\ wire # "broken" /\ wire' = "broken" /\ net' = <<>>
    /\ UNCHANGED <<kind, foreign, todo, sent, got, cache, alloc, ended>>

-----------------------------------------------------------------------------
(* Reading.                                                                 *)

Same == UNCHANGED <<kind, foreign, todo, sent, wire>>
Holds(bytes) == IF bytes = <<>> THEN <<>> ELSE <<NewExisted(bytes)>>

ReadAdapter_Overwrite(n) ==
    /\ kind = "adapter" /\ net # <<>>
    /\ got' = got \o Take(Head(net)[1], n)
    /\ cache' = Holds(Drop(Head(net)[1], Fewer(n, Len(Head(net)[1]))))
    /\ net' = Tail(net) /\ UNCHANGED <<alloc, ended>> /\ Same

\* WebSocketConnAdapter.Read.  The read of a bytes.Buffer that an empty message left
\* empty is io.EOF.
ReadAdapter(n) ==
    LET held == Content(cache)
        data == IF held = <<>> THEN Head(net)[1] ELSE held
    IN /\ kind = "adapter" /\ (held # <<>> \/ net # <<>>)
       /\ net' = IF held = <<>> THEN Tail(net) ELSE net
       /\ IF data = <<>> THEN ended' = "eof" /\ UNCHANGED <<got, cache>>
          ELSE /\ got' = got \o Take(data, n) /\ cache' = Holds(Drop(data, Fewer(n, Len(data))))
               /\ UNCHANGED ended
       /\ UNCHANGED alloc /\ Same

\* getReader: the reader of the next message.
getReader ==
    /\ kind = "ws" /\ cache = <<>> /\ net # <<>>
    /\ cache' = <<NewExisted(Head(net)[1])>> /\ net' = Tail(net)
    /\ UNCHANGED <<got, alloc, ended>> /\ Same

ReadWs_Keep(n) ==
    /\ kind = "ws" /\ cache # <<>> /\ ~IsEmpty(Head(cache))
    /\ got' = got \o Take(Head(cache).bytes, n) /\ cache' = <<Read(Head(cache), n)>>
    /\ UNCHANGED <<net, alloc, ended>> /\ Same

\* The WebSocket connection's Read: at the end of a message it goes on with the next.
ReadWs(n) ==
    /\ kind = "ws" /\ cache # <<>>
    /\ IF IsEmpty(Head(cache)) THEN cache' = <<>> /\ UNCHANGED got
       ELSE got' = got \o Take(Head(cache).bytes, n) /\ cache' = <<Read(Head(cache), n)>>
    /\ UNCHANGED <<net, alloc, ended>> /\ Same

\* What the underlying reader may return.  HunkReaderWriter: the next message; it returns
\* an empty one as an empty Buffer or fetches once more.
Fetched(mb) == {[mb |-> mb, net |-> Tail(net), alloc |-> alloc]}
FetchHunk == Fetched(Holds(Head(net)[1]))

\* MultiHunkReaderWriter: the Buffers of a message that are not empty.
FetchMultiHunk ==
    LET full == NotEmpty(Head(net))
    IN Fetched([i \in DOMAIN full |-> NewExisted(full[i])])

\* ReadVReader: up to alloc Buffers, filled with what has come over TCP.

FetchTcp ==
    LET come == FlattenSeq(FlattenSeq(net))
        mb(n) == InNewBuffers(Take(come, n))
    IN {[mb |-> mb(n),
         net |-> IF n = Len(come) THEN <<>> ELSE <<<<Drop(come, n)>>>>,
         alloc |-> IF alloc = 1 /\ n < Size THEN 1 ELSE Adjust(alloc, Len(mb(n)))] :
           n \in {1, Fewer(Len(come), alloc * Size)}}

\* What a BufferedReader reads from: what it holds, or else the underlying reader.
Available ==
    CASE ~MultiIsEmpty(cache) -> {[mb |-> cache, net |-> net, alloc |-> alloc]}
      [] MultiIsEmpty(cache) /\ net # <<>> -> CASE kind = "tcp" -> FetchTcp
                                               [] kind = "hunk" -> FetchHunk
                                               [] kind = "multi" -> FetchMultiHunk
                                               [] OTHER -> {}
      [] OTHER -> {}

ReadBuffered(n) ==
    /\ kind \in {"hunk", "multi", "tcp"}
    /\ \E f \in Available :
          LET split == SplitBytes(f.mb, n) IN
          /\ got' = got \o split.got /\ net' = f.net /\ alloc' = f.alloc
          /\ cache' = IF MultiIsEmpty(split.left) THEN <<>> ELSE split.left
    /\ UNCHANGED ended /\ Same

\* BufferedReader.ReadMultiBuffer.
ReadMultiBuffer ==
    /\ kind \in {"hunk", "multi", "tcp"}
    /\ \E f \in Available :
          got' = got \o Content(f.mb) /\ net' = f.net /\ alloc' = f.alloc
    /\ cache' = <<>> /\ UNCHANGED ended /\ Same

\* There is nothing left to read.
ReadEnds ==
    /\ wire # "open" /\ net = <<>> /\ cache = <<>>
    /\ ended' = IF wire = "closed" THEN "eof" ELSE "error"
    /\ UNCHANGED <<got, net, cache, alloc>> /\ Same

ReadStep ==
    /\ ended = "no"
    /\ \/ \E n \in ReadSizes : ReadAdapter(n) \/ ReadWs(n) \/ ReadBuffered(n)
       \/ getReader \/ ReadMultiBuffer \/ ReadEnds

ConnectionStep == WriteConn \/ WriteMultiBuffer \/ ForeignSends \/ CloseConn \/ Break \/ ReadStep

=============================================================================
