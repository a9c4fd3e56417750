------------------------------ MODULE Buffers ------------------------------
(***************************************************************************)
(* Buffer and MultiBuffer (internal/xray_core/common/buf).  A Buffer is a  *)
(* slice v of len(v) = cap bytes of which v[start:end] is its content; the *)
(* model keeps the content, end and cap, so start is end - Len(bytes) and  *)
(* the room left for writing is cap - end.                                 *)
(***************************************************************************)
EXTENDS Slices

CONSTANT Size       \* of a regular Buffer

ASSUME SizeAssumption == Size \in Nat \ {0}

New == [bytes |-> <<>>, end |-> 0, cap |-> Size]

NewExisted(b) == [bytes |-> b, end |-> Len(b), cap |-> IF Len(b) < Size THEN Size ELSE Len(b)]

IsEmpty(b) == b.bytes = <<>>
IsFull(b) == b.end = b.cap
Room(b) == b.cap - b.end

Write_NoRoom(b, data) == [b EXCEPT !.bytes = @ \o data, !.end = @ + Len(data)]

\* Write, ReadFrom another Buffer, and Extend with a copy: what fits is appended.
Write(b, data) == [b EXCEPT !.bytes = @ \o Take(data, Room(b)),
                            !.end = @ + Fewer(Len(data), Room(b))]

\* Read of at most n bytes: what is left of the Buffer.  One that is read to its end
\* is cleared and has all its room again.
Read(b, n) == IF n >= Len(b.bytes) THEN [b EXCEPT !.bytes = <<>>, !.end = 0]
                                   ELSE [b EXCEPT !.bytes = Drop(@, n)]

-----------------------------------------------------------------------------
(* MultiBuffer: a sequence of Buffers.                                      *)

\* WriteMultiBuffer: one Write of the io.Writer for each Buffer.
SplitFirsts(mb) == [i \in DOMAIN mb |-> mb[i].bytes]

Content(mb) == FlattenSeq(SplitFirsts(mb))
MultiIsEmpty(mb) == \A i \in DOMAIN mb : IsEmpty(mb[i])

\* The loop of MergeBytes: new Buffers, as many as it takes, each with what fits of the rest.
InNewBuffers(src) ==
    [i \in 1..((Len(src) + Size - 1) \div Size) |-> Write(New, Drop(src, (i - 1) * Size))]

MergeBytes(dest, src) ==
    IF dest # <<>> /\ ~IsFull(Last(dest))
    THEN Append(Front(dest), Write(Last(dest), src))
             \o InNewBuffers(Drop(src, Fewer(Len(src), Room(Last(dest)))))
    ELSE dest \o InNewBuffers(src)

\* What at most n bytes of reading leave of the MultiBuffer, and what they are: the
\* Buffers are read in turn into what the ones before them leave of the n bytes, up to
\* the first that is not empty then.
SplitBytes(mb, n) ==
    LET room(i) == n - Len(Content(SubSeq(mb, 1, i - 1)))
        stay == {i \in DOMAIN mb : Len(mb[i].bytes) > room(i)}
        end == Min(stay)
    IN IF stay = {} THEN [left |-> <<>>, got |-> Content(mb)]
       ELSE [left |-> <<Read(mb[end], room(end))>> \o SubSeq(mb, end + 1, Len(mb)),
             got |-> FlattenSeq([i \in 1..end |-> Take(mb[i].bytes, room(i))])]

\* A Buffer goes into the one before it when their contents fit in one; what
\* ReadFrom has no room for would be lost.
Compact(mb) ==
    LET merged[i \in DOMAIN mb] ==
            IF i = 1 THEN <<mb[1]>>
            ELSE LET last == Last(merged[i - 1])
                 IN IF Len(last.bytes) + Len(mb[i].bytes) > Size
                    THEN Append(merged[i - 1], mb[i])
                    ELSE Append(Front(merged[i - 1]), Write(last, mb[i].bytes))
    IN IF mb = <<>> THEN mb ELSE merged[Len(mb)]

-----------------------------------------------------------------------------
(* ReadVReader: how many Buffers the next readv(2) gets.                    *)

MaxAlloc == 8

Adjust(current, n) ==
    LET next == Fewer(IF n >= current THEN 2 * current ELSE n, MaxAlloc)
    IN IF next = 0 THEN 1 ELSE next

=============================================================================
