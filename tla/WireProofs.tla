----------------------------- MODULE WireProofs -----------------------------
(***************************************************************************)
(* The connections of module Wire carry every byte once and in order, and  *)
(* targets and packets are read as they were written, for any hosts, ports *)
(* and payloads, Buffer size, slice lengths and message sizes, whichever   *)
(* way Writes, Buffers, messages and Reads are cut.                        *)
(*                                                                         *)
(* The argument: what was written is what was read, then what the reading  *)
(* end holds, then what is on its way, then what was lost (Flow); and what *)
(* was written, with what is still to be written, is what the writing end  *)
(* has made of the request (Source).  So a prefix of that was read, and a  *)
(* packet, an address or a header is read as it was written, if all of it  *)
(* has come: one lemma for each format.                                    *)
(*                                                                         *)
(* Facts about sequences and numbers are proved by induction from the      *)
(* existence of least numbers (NatInd, SeqInd: a fact is the set of those  *)
(* it holds of).                                                           *)
(***************************************************************************)
EXTENDS Wire, SequenceTheorems, WellFoundedInduction, TLAPS

-----------------------------------------------------------------------------
(* Induction.  A fact is the set of the numbers, or sequences, it holds of. *)

\* A set of natural numbers that is not empty has a least element.
LEMMA LeastNatural ==
  ASSUME NEW L \in SUBSET Nat, L # {}
  PROVE  \E x \in L : \A y \in L : x <= y
<1>1. PICK x \in L : \A y \in L : ~ (<<y, x>> \in OpToRel(<, Nat))
  BY NatLessThanWellFounded, WFMin
<1>2. \A y \in L : ~ (y < x)
  BY <1>1 DEF OpToRel
<1> QED  BY <1>2

\* Induction over the natural numbers.
LEMMA NatInd ==
  ASSUME NEW L, 0 \in L, \A n \in Nat : n \in L => n + 1 \in L
  PROVE  Nat \subseteq L
<1> SUFFICES ASSUME Nat \ L # {} PROVE FALSE
  OBVIOUS
<1>1. PICK x \in Nat \ L : \A y \in Nat \ L : x <= y
  BY LeastNatural
<1>2. x # 0 /\ x - 1 \in Nat
  BY <1>1
<1>3. x - 1 \in L
  BY <1>1, <1>2
<1> QED  BY <1>2, <1>3

\* Induction over sequences, by the last element.
LEMMA SeqInd ==
  ASSUME NEW T, NEW L, <<>> \in L,
         \A s \in Seq(T), x \in T : s \in L => Append(s, x) \in L
  PROVE  Seq(T) \subseteq L
<1> DEFINE M == {n \in Nat : \A s \in Seq(T) : Len(s) = n => s \in L}
<1>1. 0 \in M
  <2>1. \A s \in Seq(T) : Len(s) = 0 => s = <<>>
    OBVIOUS
  <2> QED  BY <2>1
<1>2. ASSUME NEW n \in Nat, n \in M PROVE n + 1 \in M
  <2> SUFFICES ASSUME NEW s \in Seq(T), Len(s) = n + 1 PROVE s \in L
    OBVIOUS
  <2> DEFINE t == SubSeq(s, 1, n)
  <2>1. t \in Seq(T) /\ Len(t) = n /\ s[n + 1] \in T
    OBVIOUS
  <2>2. s = Append(t, s[n + 1])
    OBVIOUS
  <2>3. t \in L
    BY <1>2, <2>1
  <2> HIDE DEF t
  <2> QED  BY <2>1, <2>2, <2>3
<1> HIDE DEF M
<1>3. Nat \subseteq M
  BY <1>1, <1>2, NatInd
<1>4. \A s \in Seq(T) : Len(s) \in M
  BY <1>3
<1> QED  BY <1>4 DEF M

-----------------------------------------------------------------------------
(* FlattenSeq.                                                              *)

FlattenStep(f, ss, i) == IF i = 1 THEN ss[i] ELSE f[i - 1] \o ss[i]
Flattens(f, ss, n) == f = [i \in 1..n |-> IF i = 1 THEN ss[i] ELSE f[i - 1] \o ss[i]]

\* The function by which FlattenSeq is defined exists.
LEMMA FlattensExists == ASSUME NEW ss, NEW n \in Nat PROVE \E f : Flattens(f, ss, n)
<1> DEFINE L == {k \in Nat : \E f : Flattens(f, ss, k)}
<1>1. 0 \in L
  <2> DEFINE g == [i \in 1..0 |-> 0]
  <2>1. Flattens(g, ss, 0)
    BY 1..0 = {} DEF Flattens
  <2> HIDE DEF g
  <2> QED  BY <2>1
<1>2. ASSUME NEW k \in Nat, k \in L PROVE k + 1 \in L
  <2>1. PICK f : Flattens(f, ss, k)
    BY <1>2
  <2> DEFINE g == [i \in 1..(k + 1) |-> IF i = k + 1 THEN (IF i = 1 THEN ss[i] ELSE f[i - 1] \o ss[i])
                                       ELSE f[i]]
  <2>2. ASSUME NEW i \in 1..(k + 1) PROVE g[i] = IF i = 1 THEN ss[i] ELSE g[i - 1] \o ss[i]
    <3>1. CASE i = k + 1
      <4>1. i # 1 => g[i - 1] = f[i - 1]
        BY <3>1
      <4> QED  BY <4>1, <3>1
    <3>2. CASE i # k + 1
      <4>1. i # 1 => g[i - 1] = f[i - 1]
        BY <3>2
      <4>2. g[i] = f[i] /\ i \in 1..k
        BY <3>2
      <4>3. f[i] = IF i = 1 THEN ss[i] ELSE f[i - 1] \o ss[i]
        BY <4>2, <2>1 DEF Flattens
      <4> QED  BY <4>1, <4>2, <4>3
    <3> QED  BY <3>1, <3>2
  <2>3. g = [i \in 1..(k + 1) |-> g[i]]
    OBVIOUS
  <2> HIDE DEF g
  <2>4. Flattens(g, ss, k + 1)
    BY <2>2, <2>3 DEF Flattens
  <2> QED  BY <2>4
<1> HIDE DEF L
<1>3. Nat \subseteq L
  BY <1>1, <1>2, NatInd
<1>4. n \in L
  BY <1>3
<1> QED  BY <1>4 DEF L

\* FlattenSeq has the value of that function.
LEMMA FlattenIs ==
  ASSUME NEW T, NEW ss \in Seq(T)
  PROVE  \E f : Flattens(f, ss, Len(ss)) /\ (Len(ss) # 0 => FlattenSeq(ss) = f[Len(ss)])
<1> DEFINE f == CHOOSE f : Flattens(f, ss, Len(ss))
<1>1. Len(ss) \in Nat
  OBVIOUS
<1>2. Flattens(f, ss, Len(ss))
  BY <1>1, FlattensExists, Zenon
<1>3. Len(ss) # 0 => FlattenSeq(ss) = f[Len(ss)]
  BY DEF FlattenSeq, Flattens
<1> HIDE DEF f
<1> QED  BY <1>2, <1>3

\* Its values.
LEMMA FlattensAt ==
  ASSUME NEW f, NEW ss, NEW n, NEW i \in 1..n, Flattens(f, ss, n)
  PROVE  f[i] = FlattenStep(f, ss, i)
<1> DEFINE g == [j \in 1..n |-> IF j = 1 THEN ss[j] ELSE f[j - 1] \o ss[j]]
<1>1. f = g
  BY DEF Flattens
<1>2. g[i] = IF i = 1 THEN ss[i] ELSE f[i - 1] \o ss[i]
  BY Zenon
<1> HIDE DEF g
<1> QED  BY <1>1, <1>2 DEF FlattenStep

Agree(ss, tt, n) == \A i \in 1..n : ss[i] = tt[i]

\* Two such functions agree where both are defined and the sequences are the same.
LEMMA FlattensSame ==
  ASSUME NEW ss, NEW tt, NEW f, NEW g, NEW n \in Nat, NEW m \in Nat, n <= m,
         Agree(ss, tt, n), Flattens(f, ss, n), Flattens(g, tt, m)
  PROVE  Agree(f, g, n)
<1> DEFINE L == {k \in Nat : k \in 1..n => f[k] = g[k]}
<1>1. 0 \in L
  OBVIOUS
<1>2. ASSUME NEW k \in Nat, k \in L PROVE k + 1 \in L
  <2> SUFFICES ASSUME k + 1 \in 1..n PROVE f[k + 1] = g[k + 1]
    OBVIOUS
  <2>1. f[k + 1] = IF k + 1 = 1 THEN ss[k + 1] ELSE f[k + 1 - 1] \o ss[k + 1]
    <3>1. f[k + 1] = FlattenStep(f, ss, k + 1)
      BY FlattensAt, Zenon
    <3> QED  BY <3>1 DEF FlattenStep
  <2>2. g[k + 1] = IF k + 1 = 1 THEN tt[k + 1] ELSE g[k + 1 - 1] \o tt[k + 1]
    <3>1. k + 1 \in 1..m
      OBVIOUS
    <3>2. g[k + 1] = FlattenStep(g, tt, k + 1)
      BY <3>1, FlattensAt, Zenon
    <3> QED  BY <3>2 DEF FlattenStep
  <2>3. k # 0 => f[k] = g[k]
    BY <1>2
  <2>4. k + 1 - 1 = k /\ ss[k + 1] = tt[k + 1] /\ (k + 1 = 1 <=> k = 0)
    BY DEF Agree
  <2> QED  BY <2>1, <2>2, <2>3, <2>4
<1> HIDE DEF L
<1>3. Nat \subseteq L
  BY <1>1, <1>2, NatInd
<1> QED  BY <1>3 DEF L, Agree

\* There is nothing in no sequences.
LEMMA FlattenEmpty == FlattenSeq(<<>>) = <<>>
  BY DEF FlattenSeq

\* The bytes of another sequence come behind the others.
LEMMA FlattenAppend ==
  ASSUME NEW S, NEW ss \in Seq(Seq(S)), NEW x \in Seq(S), FlattenSeq(ss) \in Seq(S)
  PROVE  /\ FlattenSeq(Append(ss, x)) = FlattenSeq(ss) \o x
         /\ FlattenSeq(Append(ss, x)) \in Seq(S)
<1> DEFINE tt == Append(ss, x)
           n == Len(ss)
<1>1. /\ tt \in Seq(Seq(S)) /\ Len(tt) = n + 1 /\ n \in Nat
      /\ tt[n + 1] = x /\ \A i \in 1..n : ss[i] = tt[i]
  OBVIOUS
<1>2. PICK f : Flattens(f, ss, n) /\ (n # 0 => FlattenSeq(ss) = f[n])
  BY FlattenIs
<1>3. PICK g : Flattens(g, tt, n + 1) /\ FlattenSeq(tt) = g[n + 1]
  <2> HIDE DEF tt, n
  <2>1. PICK g : Flattens(g, tt, Len(tt)) /\ (Len(tt) # 0 => FlattenSeq(tt) = g[Len(tt)])
    BY <1>1, FlattenIs
  <2> QED  BY <1>1, <2>1
<1> HIDE DEF tt, n
<1>4. g[n + 1] = FlattenStep(g, tt, n + 1)
  <2>1. n + 1 \in 1..(n + 1)
    BY <1>1
  <2> QED  BY <1>3, <2>1, FlattensAt, Zenon
<1>5. CASE n = 0
  <2>1. ss = <<>>
    BY <1>5 DEF n
  <2>2. FlattenSeq(tt) = x
    BY <1>1, <1>3, <1>4, <1>5 DEF FlattenStep
  <2>3. <<>> \o x = x
    OBVIOUS
  <2> QED  BY <2>1, <2>2, <2>3, FlattenEmpty DEF tt
<1>6. CASE n # 0
  <2>1. n <= n + 1 /\ n + 1 \in Nat /\ n \in 1..n
    BY <1>1, <1>6
  <2>2. Agree(f, g, n)
    <3>1. Agree(ss, tt, n)
      BY <1>1 DEF Agree
    <3> QED  BY <1>1, <1>2, <1>3, <2>1, <3>1, FlattensSame, Zenon
  <2>3. f[n] = g[n]
    BY <2>1, <2>2 DEF Agree
  <2>4. FlattenSeq(tt) = FlattenSeq(ss) \o x
    <3>1. n + 1 # 1 /\ n + 1 - 1 = n
      BY <1>1, <1>6
    <3>2. g[n + 1] = g[n] \o x
      BY <1>1, <1>4, <3>1 DEF FlattenStep
    <3> QED  BY <1>2, <1>3, <1>6, <2>3, <3>2
  <2>5. FlattenSeq(ss) \o x \in Seq(S)
    OBVIOUS
  <2> QED  BY <2>4, <2>5 DEF tt
<1> QED  BY <1>5, <1>6

\* What is flattened is a sequence.
LEMMA FlattenType == ASSUME NEW S, NEW ss \in Seq(Seq(S)) PROVE FlattenSeq(ss) \in Seq(S)
<1> DEFINE L == {s \in Seq(Seq(S)) : FlattenSeq(s) \in Seq(S)}
<1>1. <<>> \in L
  <2>1. <<>> \in Seq(Seq(S)) /\ <<>> \in Seq(S)
    OBVIOUS
  <2> QED  BY <2>1, FlattenEmpty
<1>2. ASSUME NEW s \in Seq(Seq(S)), NEW x \in Seq(S), s \in L PROVE Append(s, x) \in L
  <2>1. FlattenSeq(Append(s, x)) \in Seq(S)
    BY <1>2, FlattenAppend
  <2> QED  BY <2>1
<1> HIDE DEF L
<1>3. Seq(Seq(S)) \subseteq L
  BY <1>1, <1>2, SeqInd
<1> QED  BY <1>3 DEF L

\* FlattenSeq of two lists of sequences.
LEMMA FlattenConcat ==
  ASSUME NEW S, NEW ss \in Seq(Seq(S)), NEW tt \in Seq(Seq(S))
  PROVE  FlattenSeq(ss \o tt) = FlattenSeq(ss) \o FlattenSeq(tt)
<1> DEFINE L == {t \in Seq(Seq(S)) : FlattenSeq(ss \o t) = FlattenSeq(ss) \o FlattenSeq(t)}
<1>0. FlattenSeq(ss) \in Seq(S)
  BY FlattenType
<1>1. <<>> \in L
  <2>1. ss \o <<>> = ss /\ FlattenSeq(ss) \o <<>> = FlattenSeq(ss) /\ <<>> \in Seq(Seq(S))
    BY <1>0
  <2> QED  BY <2>1, FlattenEmpty
<1>2. ASSUME NEW s \in Seq(Seq(S)), NEW x \in Seq(S), s \in L PROVE Append(s, x) \in L
  <2>1. ss \o Append(s, x) = Append(ss \o s, x) /\ ss \o s \in Seq(Seq(S))
    OBVIOUS
  <2>2. FlattenSeq(s) \in Seq(S) /\ FlattenSeq(ss \o s) \in Seq(S)
    BY <2>1, FlattenType
  <2>3. FlattenSeq(Append(ss \o s, x)) = FlattenSeq(ss \o s) \o x
    BY <2>1, <2>2, FlattenAppend
  <2>4. FlattenSeq(Append(s, x)) = FlattenSeq(s) \o x
    BY <2>2, FlattenAppend
  <2>5. (FlattenSeq(ss) \o FlattenSeq(s)) \o x = FlattenSeq(ss) \o (FlattenSeq(s) \o x)
    <3> DEFINE a == FlattenSeq(ss)
               b == FlattenSeq(s)
    <3>1. a \in Seq(S) /\ b \in Seq(S)
      BY <1>0, <2>2
    <3> HIDE DEF L, a, b
    <3>2. (a \o b) \o x = a \o (b \o x)
      BY <3>1, SMTT(60)
    <3> QED  BY <3>2 DEF a, b
  <2>6. Append(s, x) \in Seq(Seq(S)) /\ FlattenSeq(ss \o s) = FlattenSeq(ss) \o FlattenSeq(s)
    BY <1>2
  <2>7. FlattenSeq(ss \o Append(s, x)) = FlattenSeq(ss) \o FlattenSeq(Append(s, x))
    BY <2>1, <2>3, <2>4, <2>5, <2>6, Zenon
  <2> QED  BY <2>6, <2>7
<1> HIDE DEF L
<1>3. Seq(Seq(S)) \subseteq L
  BY <1>1, <1>2, SeqInd
<1> QED  BY <1>3 DEF L

\* One sequence.
LEMMA FlattenOne == ASSUME NEW S, NEW x \in Seq(S) PROVE FlattenSeq(<<x>>) = x
<1>1. <<x>> = Append(<<>>, x) /\ <<>> \in Seq(Seq(S)) /\ <<>> \in Seq(S) /\ <<>> \o x = x
  OBVIOUS
<1> QED  BY <1>1, FlattenEmpty, FlattenAppend

\* The first sequence comes first.
LEMMA FlattenHead ==
  ASSUME NEW S, NEW ss \in Seq(Seq(S)), ss # <<>>
  PROVE  FlattenSeq(ss) = Head(ss) \o FlattenSeq(Tail(ss))
<1>1. Head(ss) \in Seq(S) /\ Tail(ss) \in Seq(Seq(S)) /\ <<Head(ss)>> \in Seq(Seq(S))
  OBVIOUS
<1>2. ss = <<Head(ss)>> \o Tail(ss)
  OBVIOUS
<1>3. FlattenSeq(<<Head(ss)>> \o Tail(ss)) = FlattenSeq(<<Head(ss)>>) \o FlattenSeq(Tail(ss))
  BY <1>1, FlattenConcat
<1> QED  BY <1>1, <1>2, <1>3, FlattenOne

-----------------------------------------------------------------------------
(* Sequences and slices.                                                    *)

\* What follows the first n elements and what precedes.
LEMMA TakeDrop ==
  ASSUME NEW S, NEW s \in Seq(S), NEW n \in Nat
  PROVE  /\ Take(s, n) \in Seq(S) /\ Len(Take(s, n)) = Fewer(n, Len(s))
         /\ Drop(s, n) \in Seq(S)
         /\ Len(Drop(s, n)) = IF n < Len(s) THEN Len(s) - n ELSE 0
         /\ Take(s, n) \o Drop(s, n) = s
<1>1. CASE n < Len(s)
  <2>1. Take(s, n) = SubSeq(s, 1, n) /\ Drop(s, n) = SubSeq(s, n + 1, Len(s))
    BY <1>1 DEF Take, Drop, Fewer
  <2>2. SubSeq(s, 1, n) \in Seq(S) /\ Len(SubSeq(s, 1, n)) = n
    BY <1>1
  <2>3. SubSeq(s, n + 1, Len(s)) \in Seq(S) /\ Len(SubSeq(s, n + 1, Len(s))) = Len(s) - n
    BY <1>1
  <2>4. SubSeq(s, 1, n) \o SubSeq(s, n + 1, Len(s)) = s
    <3>1. 1 \in 1..(Len(s) + 1) /\ n \in (1 - 1)..Len(s) /\ Len(s) \in n..Len(s)
      BY <1>1
    <3>2. SubSeq(s, 1, n) \o SubSeq(s, n + 1, Len(s)) = SubSeq(s, 1, Len(s))
      BY <3>1, ConcatAdjacentSubSeq
    <3>3. SubSeq(s, 1, Len(s)) = s
      OBVIOUS
    <3> QED  BY <3>2, <3>3
  <2> QED  BY <1>1, <2>1, <2>2, <2>3, <2>4 DEF Fewer
<1>2. CASE ~(n < Len(s))
  <2>1. Take(s, n) = SubSeq(s, 1, Len(s)) /\ Fewer(n, Len(s)) = Len(s)
    BY <1>2 DEF Take, Fewer
  <2>2. SubSeq(s, 1, Len(s)) = s
    OBVIOUS
  <2>3. SubSeq(s, n + 1, Len(s)) = <<>> 
    BY <1>2
  <2>4. s \o <<>> = s /\ <<>> \in Seq(S) /\ Len(<<>>) = 0
    OBVIOUS
  <2>5. Take(s, n) = s /\ Drop(s, n) = <<>>
    BY <2>1, <2>2, <2>3 DEF Drop
  <2> QED  BY <1>2, <2>1, <2>4, <2>5
<1> QED  BY <1>1, <1>2

\* All of it is taken where there is no more.
LEMMA TakeAll ==
  ASSUME NEW S, NEW s \in Seq(S), NEW n \in Nat, Len(s) <= n
  PROVE  Take(s, n) = s /\ Drop(s, n) = <<>>
<1>1. Fewer(n, Len(s)) = Len(s)
  BY DEF Fewer
<1>2. SubSeq(s, 1, Len(s)) = s
  OBVIOUS
<1>3. SubSeq(s, n + 1, Len(s)) = <<>>
  OBVIOUS
<1> QED  BY <1>1, <1>2, <1>3 DEF Take, Drop

\* Taking n and then m is taking n + m.
LEMMA TakeTake ==
  ASSUME NEW S, NEW s \in Seq(S), NEW n \in Nat, NEW m \in Nat
  PROVE  Take(s, n) \o Take(Drop(s, n), m) = Take(s, n + m)
<1>1. CASE Len(s) <= n
  <2>1. Take(s, n) = s /\ Drop(s, n) = <<>> /\ Take(s, n + m) = s
    BY <1>1, TakeAll
  <2>2. Take(<<>>, m) = <<>> /\ s \o <<>> = s
    BY DEF Take, Fewer
  <2> QED  BY <2>1, <2>2
<1>2. CASE ~(Len(s) <= n)
  <2>1. Take(s, n) = SubSeq(s, 1, n) /\ Drop(s, n) = SubSeq(s, n + 1, Len(s))
    BY <1>2 DEF Take, Drop, Fewer
  <2> DEFINE t == SubSeq(s, n + 1, Len(s))
             e == Fewer(m, Len(s) - n)
  <2>2. t \in Seq(S) /\ Len(t) = Len(s) - n
    BY <1>2
  <2>3. e \in Nat /\ e <= Len(t)
    BY <1>2, <2>2 DEF Fewer
  <2>4. Take(t, m) = SubSeq(t, 1, e)
    BY <2>2 DEF Take
  <2>5. Take(s, n + m) = SubSeq(s, 1, n + e)
    BY <1>2 DEF Take, Fewer
  <2>6. SubSeq(t, 1, e) = SubSeq(s, n + 1, n + e)
    <3> HIDE DEF e
    <3> QED  BY <1>2, <2>2, <2>3
  <2>7. SubSeq(s, 1, n) \o SubSeq(s, n + 1, n + e) = SubSeq(s, 1, n + e)
    <3> HIDE DEF e
    <3> QED  BY <1>2, <2>2, <2>3
  <2> QED  BY <2>1, <2>4, <2>5, <2>6, <2>7
<1> QED  BY <1>1, <1>2

\* What has another sequence behind it is a prefix.
LEMMA PrefixOf ==
  ASSUME NEW S, NEW a \in Seq(S), NEW b \in Seq(S)
  PROVE  IsPrefix(a, a \o b)
<1>1. Len(a \o b) = Len(a) + Len(b) /\ Len(a) \in Nat /\ Len(b) \in Nat
  OBVIOUS
<1>2. SubSeq(a, 1, Len(a)) = SubSeq(a \o b, 1, Len(a))
  OBVIOUS
<1> QED  BY <1>1, <1>2 DEF IsPrefix

-----------------------------------------------------------------------------
(* MultiBuffers.                                                            *)

\* A Buffer, and one that is filled from its beginning.
Bufs(S) == {b \in [bytes : Seq(S), end : Nat, cap : Nat] : Len(b.bytes) <= b.end /\ b.end <= b.cap}
Filled(S) == {b \in Bufs(S) : b.end = Len(b.bytes) /\ b.cap = Size}

\* The contents of the Buffers.
LEMMA SplitFirstsType ==
  ASSUME NEW S, NEW mb \in Seq(Bufs(S))
  PROVE  /\ SplitFirsts(mb) \in Seq(Seq(S)) /\ Len(SplitFirsts(mb)) = Len(mb)
         /\ \A i \in 1..Len(mb) : SplitFirsts(mb)[i] = mb[i].bytes
<1>1. Len(mb) \in Nat /\ DOMAIN mb = 1..Len(mb) /\ \A i \in 1..Len(mb) : mb[i] \in Bufs(S)
  OBVIOUS
<1>2. \A b \in Bufs(S) : b.bytes \in Seq(S)
  BY DEF Bufs
<1>3. SplitFirsts(mb) = [i \in 1..Len(mb) |-> mb[i].bytes]
  BY <1>1 DEF SplitFirsts
<1>4. [i \in 1..Len(mb) |-> mb[i].bytes] \in Seq(Seq(S))
  BY <1>1, <1>2
<1> QED  BY <1>1, <1>3, <1>4

\* The contents of two MultiBuffers, one behind the other.
LEMMA SplitFirstsConcat ==
  ASSUME NEW S, NEW a \in Seq(Bufs(S)), NEW b \in Seq(Bufs(S))
  PROVE  SplitFirsts(a \o b) = SplitFirsts(a) \o SplitFirsts(b)
<1> DEFINE l == SplitFirsts(a \o b)
           r == SplitFirsts(a) \o SplitFirsts(b)
<1>1. a \o b \in Seq(Bufs(S)) /\ Len(a \o b) = Len(a) + Len(b)
  OBVIOUS
<1>2. /\ l \in Seq(Seq(S)) /\ Len(l) = Len(a) + Len(b)
      /\ \A i \in 1..(Len(a) + Len(b)) : l[i] = (a \o b)[i].bytes
  BY <1>1, SplitFirstsType
<1>3. /\ SplitFirsts(a) \in Seq(Seq(S)) /\ SplitFirsts(b) \in Seq(Seq(S))
      /\ Len(SplitFirsts(a)) = Len(a) /\ Len(SplitFirsts(b)) = Len(b)
      /\ \A i \in 1..Len(a) : SplitFirsts(a)[i] = a[i].bytes
      /\ \A i \in 1..Len(b) : SplitFirsts(b)[i] = b[i].bytes
  BY SplitFirstsType
<1>4. r \in Seq(Seq(S)) /\ Len(r) = Len(a) + Len(b)
  <2>1. \A x, y \in Seq(Seq(S)) : x \o y \in Seq(Seq(S)) /\ Len(x \o y) = Len(x) + Len(y)
    OBVIOUS
  <2> QED  BY <1>3, <2>1, Zenon
<1>5. ASSUME NEW i \in 1..(Len(a) + Len(b)) PROVE l[i] = r[i]
  <2>0. Len(a) \in Nat /\ Len(b) \in Nat
    OBVIOUS
  <2>1. CASE i <= Len(a)
    <3>1. (a \o b)[i] = a[i] /\ r[i] = SplitFirsts(a)[i] /\ i \in 1..Len(a)
      BY <1>3, <2>0, <2>1
    <3> HIDE DEF l, r
    <3> QED  BY <1>2, <1>3, <3>1
  <2>2. CASE ~(i <= Len(a))
    <3>1. (a \o b)[i] = b[i - Len(a)] /\ r[i] = SplitFirsts(b)[i - Len(a)] /\ i - Len(a) \in 1..Len(b)
      BY <1>3, <2>0, <2>2
    <3> HIDE DEF l, r
    <3> QED  BY <1>2, <1>3, <3>1
  <2> QED  BY <2>1, <2>2
<1> HIDE DEF l, r
<1>6. l = r
  BY <1>2, <1>4, <1>5, SeqEqual
<1> QED  BY <1>6 DEF l, r

\* The bytes of a MultiBuffer: of none, of one Buffer, of several.
LEMMA ContentType == ASSUME NEW S, NEW mb \in Seq(Bufs(S)) PROVE Content(mb) \in Seq(S)
  BY SplitFirstsType, FlattenType DEF Content

\* The content of Buffers, one MultiBuffer behind the other.
LEMMA ContentConcat ==
  ASSUME NEW S, NEW a \in Seq(Bufs(S)), NEW b \in Seq(Bufs(S))
  PROVE  Content(a \o b) = Content(a) \o Content(b)
<1>1. SplitFirsts(a) \in Seq(Seq(S)) /\ SplitFirsts(b) \in Seq(Seq(S))
  BY SplitFirstsType
<1>2. FlattenSeq(SplitFirsts(a) \o SplitFirsts(b)) = FlattenSeq(SplitFirsts(a)) \o FlattenSeq(SplitFirsts(b))
  BY <1>1, FlattenConcat
<1> QED  BY <1>2, SplitFirstsConcat DEF Content

\* The content of one Buffer.
LEMMA ContentOne == ASSUME NEW S, NEW b \in Bufs(S) PROVE Content(<<b>>) = b.bytes
<1>1. <<b>> \in Seq(Bufs(S)) /\ Len(<<b>>) = 1 /\ <<b>>[1] = b
  OBVIOUS
<1>2. b.bytes \in Seq(S)
  BY DEF Bufs
<1>3. /\ SplitFirsts(<<b>>) \in Seq(Seq(S)) /\ Len(SplitFirsts(<<b>>)) = 1
      /\ SplitFirsts(<<b>>)[1] = b.bytes
  <2>1. /\ SplitFirsts(<<b>>) \in Seq(Seq(S)) /\ Len(SplitFirsts(<<b>>)) = Len(<<b>>)
        /\ \A i \in 1..Len(<<b>>) : SplitFirsts(<<b>>)[i] = <<b>>[i].bytes
    BY <1>1, SplitFirstsType
  <2> QED  BY <1>1, <2>1
<1>4. SplitFirsts(<<b>>) = <<b.bytes>>
  BY <1>2, <1>3
<1> QED  BY <1>2, <1>4, FlattenOne DEF Content

\* Empty Buffers have no content.
LEMMA ContentNone == Content(<<>>) = <<>>
<1>1. SplitFirsts(<<>>) = <<>>
  BY DEF SplitFirsts
<1> QED  BY <1>1, FlattenEmpty DEF Content

\* One more Buffer.
LEMMA ContentAppend ==
  ASSUME NEW S, NEW mb \in Seq(Bufs(S)), NEW b \in Bufs(S)
  PROVE  Content(Append(mb, b)) = Content(mb) \o b.bytes
<1>1. Append(mb, b) = mb \o <<b>> /\ <<b>> \in Seq(Bufs(S))
  OBVIOUS
<1> QED  BY <1>1, ContentConcat, ContentOne

\* Nothing is in Buffers that are all empty.
LEMMA ContentEmpty ==
  ASSUME NEW S, NEW mb \in Seq(Bufs(S)), MultiIsEmpty(mb)
  PROVE  Content(mb) = <<>>
<1> DEFINE L == {m \in Seq(Bufs(S)) : MultiIsEmpty(m) => Content(m) = <<>>}
<1>1. <<>> \in L
  <2>1. <<>> \in Seq(Bufs(S))
    OBVIOUS
  <2> QED  BY <2>1, ContentNone
<1>2. ASSUME NEW m \in Seq(Bufs(S)), NEW b \in Bufs(S), m \in L PROVE Append(m, b) \in L
  <2> SUFFICES ASSUME MultiIsEmpty(Append(m, b)) PROVE Content(Append(m, b)) = <<>>
    OBVIOUS
  <2>1. MultiIsEmpty(m)
    <3>1. \A i \in DOMAIN m : i \in DOMAIN Append(m, b) /\ Append(m, b)[i] = m[i]
      OBVIOUS
    <3> QED  BY <3>1 DEF MultiIsEmpty
  <2>2. b.bytes = <<>>
    <3>1. Len(m) + 1 \in DOMAIN Append(m, b) /\ Append(m, b)[Len(m) + 1] = b
      OBVIOUS
    <3> QED  BY <3>1 DEF MultiIsEmpty, IsEmpty
  <2>3. Content(m) = <<>>
    BY <1>2, <2>1
  <2>4. Content(Append(m, b)) = Content(m) \o b.bytes
    BY ContentAppend
  <2> HIDE DEF L
  <2> QED  BY <2>2, <2>3, <2>4
<1> HIDE DEF L
<1>3. Seq(Bufs(S)) \subseteq L
  BY <1>1, <1>2, SeqInd
<1> QED  BY <1>3 DEF L

-----------------------------------------------------------------------------
(* New Buffers.                                                             *)

Chunk(src, i) == Take(Drop(src, (i - 1) * Size), Size)
Chunks(src, n) == [i \in 1..n |-> Chunk(src, i)]

\* The pieces of a sequence that is cut at every Size.
LEMMA ChunksContent ==
  ASSUME NEW S, NEW src \in Seq(S), NEW n \in Nat
  PROVE  Chunks(src, n) \in Seq(Seq(S)) /\ FlattenSeq(Chunks(src, n)) = Take(src, n * Size)
<1> DEFINE L == {k \in Nat : /\ Chunks(src, k) \in Seq(Seq(S))
                             /\ FlattenSeq(Chunks(src, k)) = Take(src, k * Size)}
<1>1. 0 \in L
  <2>1. Chunks(src, 0) = <<>> /\ <<>> \in Seq(Seq(S))
    BY DEF Chunks
  <2>2. 0 * Size = 0 /\ Take(src, 0) = <<>>
    BY SizeAssumption DEF Take, Fewer
  <2> QED  BY <2>1, <2>2, FlattenEmpty
<1>2. ASSUME NEW k \in Nat, k \in L PROVE k + 1 \in L
  <2>1. k * Size \in Nat /\ (k + 1) * Size = k * Size + Size /\ (k + 1 - 1) * Size = k * Size /\ Size \in Nat
    BY SizeAssumption
  <2>2. Chunks(src, k) \in Seq(Seq(S)) /\ FlattenSeq(Chunks(src, k)) = Take(src, k * Size)
    BY <1>2
  <2>3. Chunk(src, k + 1) = Take(Drop(src, k * Size), Size)
    BY <2>1 DEF Chunk
  <2>4. Chunk(src, k + 1) \in Seq(S)
    BY <2>1, <2>3, TakeDrop
  <2>5. Chunks(src, k + 1) = Append(Chunks(src, k), Chunk(src, k + 1))
    BY DEF Chunks
  <2>6. Take(src, k * Size) \o Take(Drop(src, k * Size), Size) = Take(src, k * Size + Size)
    BY <2>1, TakeTake
  <2>7. Take(src, k * Size) \in Seq(S)
    BY <2>1, TakeDrop
  <2>8. FlattenSeq(Append(Chunks(src, k), Chunk(src, k + 1))) = FlattenSeq(Chunks(src, k)) \o Chunk(src, k + 1)
    BY <2>2, <2>4, <2>7, FlattenAppend, Zenon
  <2>9. Append(Chunks(src, k), Chunk(src, k + 1)) \in Seq(Seq(S))
    BY <2>2, <2>4
  <2>10. FlattenSeq(Chunks(src, k + 1)) = Take(src, (k + 1) * Size)
    BY <2>1, <2>2, <2>3, <2>5, <2>6, <2>8, Zenon
  <2>11. Chunks(src, k + 1) \in Seq(Seq(S))
    BY <2>5, <2>9, Zenon
  <2> QED  BY <2>10, <2>11
<1> HIDE DEF L
<1>3. Nat \subseteq L
  BY <1>1, <1>2, NatInd
<1> QED  BY <1>3 DEF L

\* As many as it takes.
LEMMA Enough ==
  ASSUME NEW n \in Nat
  PROVE  LET m == (n + Size - 1) \div Size IN m \in Nat /\ n <= m * Size
<1>1. Size \in Nat /\ Size > 0
  BY SizeAssumption
<1> QED  BY <1>1

\* What is written into a Buffer.
LEMMA WriteBuffer ==
  ASSUME NEW S, NEW b \in Bufs(S), NEW d \in Seq(S)
  PROVE  /\ Write(b, d) \in Bufs(S)
         /\ Write(b, d).bytes = b.bytes \o Take(d, Room(b))
         /\ Write(b, d).end = b.end + Fewer(Len(d), Room(b)) /\ Write(b, d).cap = b.cap
<1> DEFINE x == b.bytes \o Take(d, Room(b))
           y == b.end + Fewer(Len(d), Room(b))
<1>1. /\ b \in [bytes : Seq(S), end : Nat, cap : Nat] /\ b.bytes \in Seq(S) /\ b.end \in Nat /\ b.cap \in Nat
      /\ Len(b.bytes) <= b.end /\ b.end <= b.cap
  BY DEF Bufs
<1>2. Room(b) \in Nat /\ Room(b) = b.cap - b.end
  BY <1>1 DEF Room
<1>3. Take(d, Room(b)) \in Seq(S) /\ Len(Take(d, Room(b))) = Fewer(Room(b), Len(d)) /\ Len(d) \in Nat
  BY <1>2, TakeDrop
<1>4. /\ Fewer(Len(d), Room(b)) = Fewer(Room(b), Len(d)) /\ Fewer(Room(b), Len(d)) \in Nat
      /\ Fewer(Room(b), Len(d)) <= Room(b)
  BY <1>2, <1>3 DEF Fewer
<1>5. x \in Seq(S) /\ Len(x) = Len(b.bytes) + Fewer(Room(b), Len(d)) /\ Len(b.bytes) \in Nat
  <2> DEFINE t == Take(d, Room(b))
             u == b.bytes
  <2>1. t \in Seq(S) /\ u \in Seq(S)
    BY <1>1, <1>3
  <2> HIDE DEF t, u
  <2>2. u \o t \in Seq(S) /\ Len(u \o t) = Len(u) + Len(t) /\ Len(u) \in Nat
    BY <2>1
  <2> QED  BY <1>3, <2>2 DEF t, u
<1>6. y \in Nat /\ y <= b.cap /\ Len(x) <= y
  BY <1>1, <1>2, <1>4, <1>5
<1>7. Write(b, d) = [b EXCEPT !.bytes = x, !.end = y]
  BY Zenon DEF Write
<1> HIDE DEF x, y
<1>8. /\ Write(b, d) \in [bytes : Seq(S), end : Nat, cap : Nat]
      /\ Write(b, d).bytes = x /\ Write(b, d).end = y /\ Write(b, d).cap = b.cap
  BY <1>1, <1>5, <1>6, <1>7
<1> QED  BY <1>6, <1>8 DEF Bufs, x, y

\* What is written into a new Buffer.
LEMMA WriteNew ==
  ASSUME NEW S, NEW b \in Seq(S)
  PROVE  Write(New, b) \in Filled(S) /\ Write(New, b).bytes = Take(b, Size)
<1>1. Size \in Nat
  BY SizeAssumption
<1>2. New \in Bufs(S) /\ New.bytes = <<>> /\ New.end = 0 /\ New.cap = Size /\ Room(New) = Size
  BY <1>1 DEF New, Bufs, Room
<1>3. Take(b, Size) \in Seq(S) /\ Len(Take(b, Size)) = Fewer(Size, Len(b)) /\ Len(b) \in Nat
  BY <1>1, TakeDrop
<1>4. Fewer(Len(b), Size) = Fewer(Size, Len(b)) /\ Fewer(Size, Len(b)) \in Nat
  BY <1>1, <1>3 DEF Fewer
<1>5. <<>> \o Take(b, Size) = Take(b, Size) /\ 0 + Fewer(Size, Len(b)) = Fewer(Size, Len(b))
  BY <1>3, <1>4
<1>6. /\ Write(New, b) \in Bufs(S) /\ Write(New, b).bytes = <<>> \o Take(b, Size)
      /\ Write(New, b).end = 0 + Fewer(Len(b), Size) /\ Write(New, b).cap = Size
  BY <1>2, WriteBuffer
<1> QED  BY <1>3, <1>4, <1>5, <1>6 DEF Filled

\* Nothing is lost of what goes into new Buffers.
LEMMA InNewBuffersContent ==
  ASSUME NEW S, NEW src \in Seq(S)
  PROVE  InNewBuffers(src) \in Seq(Filled(S)) /\ Content(InNewBuffers(src)) = src
<1> DEFINE m == (Len(src) + Size - 1) \div Size
           at(i) == Drop(src, (i - 1) * Size)
<1>1. m \in Nat /\ Len(src) <= m * Size /\ m * Size \in Nat /\ Size \in Nat
  <2>1. Len(src) \in Nat /\ Size \in Nat
    BY SizeAssumption
  <2>2. m \in Nat /\ Len(src) <= m * Size
    BY <2>1, Enough
  <2> QED  BY <2>1, <2>2
<1>2. InNewBuffers(src) = [i \in 1..m |-> Write(New, at(i))]
  BY DEF InNewBuffers
<1> HIDE DEF m
<1>3. ASSUME NEW i \in 1..m
      PROVE  Write(New, at(i)) \in Filled(S) /\ Write(New, at(i)).bytes = Chunk(src, i)
  <2>1. (i - 1) * Size \in Nat
    BY <1>1
  <2>2. at(i) \in Seq(S)
    BY <2>1, TakeDrop
  <2> QED  BY <2>2, WriteNew DEF Chunk
<1> HIDE DEF at
<1>4. InNewBuffers(src) \in Seq(Filled(S))
  BY <1>1, <1>2, <1>3
<1>5. SplitFirsts(InNewBuffers(src)) = Chunks(src, m)
  <2>1. DOMAIN InNewBuffers(src) = 1..m /\ \A i \in 1..m : InNewBuffers(src)[i].bytes = Chunk(src, i)
    BY <1>2, <1>3
  <2> QED  BY <2>1 DEF SplitFirsts, Chunks
<1>6. FlattenSeq(Chunks(src, m)) = Take(src, m * Size)
  BY <1>1, ChunksContent
<1>7. Take(src, m * Size) = src
  BY <1>1, TakeAll
<1> QED  BY <1>4, <1>5, <1>6, <1>7 DEF Content

\* Buffers that are filled are Buffers.
LEMMA FilledAre == ASSUME NEW S PROVE Filled(S) \subseteq Bufs(S) /\ Seq(Filled(S)) \subseteq Seq(Bufs(S))
<1>1. Filled(S) \subseteq Bufs(S)
  BY DEF Filled
<1> QED  BY <1>1

\* The Buffers for what goes into none that is there.
LEMMA MergeNone ==
  ASSUME NEW S, NEW src \in Seq(S)
  PROVE  MergeBytes(<<>>, src) \in Seq(Filled(S)) /\ Content(MergeBytes(<<>>, src)) = src
<1>1. MergeBytes(<<>>, src) = <<>> \o InNewBuffers(src)
  BY DEF MergeBytes
<1>2. <<>> \o InNewBuffers(src) = InNewBuffers(src)
  BY InNewBuffersContent
<1> QED  BY <1>1, <1>2, InNewBuffersContent

-----------------------------------------------------------------------------
(* Reading.                                                                 *)

\* What is read of a Buffer, and what is left.
LEMMA ReadBuffer ==
  ASSUME NEW S, NEW b \in Bufs(S), NEW n \in Nat
  PROVE  Read(b, n) \in Bufs(S) /\ Take(b.bytes, n) \in Seq(S) /\ Take(b.bytes, n) \o Read(b, n).bytes = b.bytes
<1>1. /\ b \in [bytes : Seq(S), end : Nat, cap : Nat] /\ b.bytes \in Seq(S) /\ b.end \in Nat /\ b.cap \in Nat
      /\ Len(b.bytes) <= b.end /\ b.end <= b.cap /\ Len(b.bytes) \in Nat
  BY DEF Bufs
<1>2. CASE n >= Len(b.bytes)
  <2> DEFINE none == <<>>
             zero == 0
  <2>0. none \in Seq(S) /\ zero \in Nat
    OBVIOUS
  <2>1. Read(b, n) = [b EXCEPT !.bytes = none, !.end = zero]
    BY <1>2 DEF Read
  <2>2. /\ Read(b, n) \in [bytes : Seq(S), end : Nat, cap : Nat]
        /\ Read(b, n).bytes = <<>> /\ Read(b, n).end = 0 /\ Read(b, n).cap = b.cap
    <3> HIDE DEF none, zero
    <3>1. /\ Read(b, n) \in [bytes : Seq(S), end : Nat, cap : Nat]
          /\ Read(b, n).bytes = none /\ Read(b, n).end = zero /\ Read(b, n).cap = b.cap
      BY <1>1, <2>0, <2>1
    <3> QED  BY <3>1 DEF none, zero
  <2>3. Read(b, n) \in Bufs(S)
    BY <1>1, <2>2 DEF Bufs
  <2>4. Take(b.bytes, n) = b.bytes
    BY <1>1, <1>2, TakeAll
  <2>5. b.bytes \o <<>> = b.bytes
    BY <1>1
  <2> QED  BY <1>1, <2>2, <2>3, <2>4, <2>5
<1>3. CASE ~(n >= Len(b.bytes))
  <2> DEFINE d == Drop(b.bytes, n)
  <2>1. Read(b, n) = [b EXCEPT !.bytes = d]
    BY <1>3 DEF Read
  <2>2. d \in Seq(S) /\ Len(d) <= Len(b.bytes) /\ Len(d) \in Nat
    BY <1>1, TakeDrop
  <2>3. Take(b.bytes, n) \in Seq(S) /\ Take(b.bytes, n) \o d = b.bytes
    BY <1>1, TakeDrop
  <2> HIDE DEF d
  <2>4. /\ Read(b, n) \in [bytes : Seq(S), end : Nat, cap : Nat]
        /\ Read(b, n).bytes = d /\ Read(b, n).end = b.end /\ Read(b, n).cap = b.cap
    BY <1>1, <2>1, <2>2
  <2>5. Read(b, n) \in Bufs(S)
    BY <1>1, <2>2, <2>4 DEF Bufs
  <2> QED  BY <2>3, <2>4, <2>5
<1> QED  BY <1>2, <1>3

\* The smallest of a set of natural numbers.
LEMMA MinOf == ASSUME NEW L \in SUBSET Nat, L # {} PROVE Min(L) \in L /\ \A y \in L : Min(L) <= y
<1>1. \E x \in L : \A y \in L : x <= y
  BY LeastNatural
<1> QED  BY <1>1, Zenon DEF Min

\* A MultiBuffer up to a Buffer.
LEMMA ContentUpTo ==
  ASSUME NEW S, NEW mb \in Seq(Bufs(S)), NEW i \in 1..Len(mb)
  PROVE  /\ SubSeq(mb, 1, i) \in Seq(Bufs(S)) /\ SubSeq(mb, 1, i - 1) \in Seq(Bufs(S))
         /\ Content(SubSeq(mb, 1, i)) = Content(SubSeq(mb, 1, i - 1)) \o mb[i].bytes
<1>1. /\ SubSeq(mb, 1, i) \in Seq(Bufs(S)) /\ SubSeq(mb, 1, i - 1) \in Seq(Bufs(S)) /\ mb[i] \in Bufs(S)
  OBVIOUS
<1>2. SubSeq(mb, 1, i) = Append(SubSeq(mb, 1, i - 1), mb[i])
  OBVIOUS
<1>3. Content(Append(SubSeq(mb, 1, i - 1), mb[i])) = Content(SubSeq(mb, 1, i - 1)) \o mb[i].bytes
  BY <1>1, ContentAppend
<1> QED  BY <1>1, <1>2, <1>3

\* SplitBytes takes bytes from the front and loses none.
LEMMA SplitKeeps ==
  ASSUME NEW S, NEW mb \in Seq(Bufs(S)), NEW n \in Nat
  PROVE  /\ SplitBytes(mb, n).left \in Seq(Bufs(S)) /\ SplitBytes(mb, n).got \in Seq(S)
         /\ SplitBytes(mb, n).got \o Content(SplitBytes(mb, n).left) = Content(mb)
<1> DEFINE room(i) == n - Len(Content(SubSeq(mb, 1, i - 1)))
           stay == {i \in DOMAIN mb : Len(mb[i].bytes) > room(i)}
           e == Min(stay)
           left == <<Read(mb[e], room(e))>> \o SubSeq(mb, e + 1, Len(mb))
           some == FlattenSeq([i \in 1..e |-> Take(mb[i].bytes, room(i))])
<1>1. SplitBytes(mb, n) = IF stay = {} THEN [left |-> <<>>, got |-> Content(mb)] ELSE [left |-> left, got |-> some]
  BY Zenon DEF SplitBytes
<1>2. CASE stay = {}
  <2>1. SplitBytes(mb, n).left = <<>> /\ SplitBytes(mb, n).got = Content(mb)
    BY <1>1, <1>2
  <2>2. Content(mb) \in Seq(S) /\ <<>> \in Seq(Bufs(S))
    BY ContentType
  <2>3. Content(mb) \o <<>> = Content(mb)
    BY <2>2
  <2> QED  BY <2>1, <2>2, <2>3, ContentNone
<1>3. CASE stay # {}
  <2>0. stay \in SUBSET Nat
    OBVIOUS
  <2>1. e \in stay /\ \A j \in stay : e <= j
    BY <1>3, <2>0, MinOf
  <2> HIDE DEF e
  <2>2. e \in 1..Len(mb) /\ e \in Nat /\ Len(mb) \in Nat /\ mb[e] \in Bufs(S) /\ Len(mb[e].bytes) > room(e)
    BY <2>1
  <2>3. \A i \in 1..(e - 1) : i \in 1..Len(mb) /\ ~ (Len(mb[i].bytes) > room(i))
    BY <2>1, <2>2
  <2> DEFINE before == SubSeq(mb, 1, e - 1)
             behind == SubSeq(mb, e + 1, Len(mb))
             got0 == Take(mb[e].bytes, room(e))
  <2>4. before \in Seq(Bufs(S)) /\ behind \in Seq(Bufs(S)) /\ Len(before) = e - 1
    BY <2>2
  <2>5. Content(before) \in Seq(S) /\ Content(behind) \in Seq(S)
    BY <2>4, ContentType
  <2>6. \A i \in 1..Len(mb) : room(i) \in Int
    <3> SUFFICES ASSUME NEW i \in 1..Len(mb) PROVE room(i) \in Int
      OBVIOUS
    <3>1. Content(SubSeq(mb, 1, i - 1)) \in Seq(S)
      BY ContentUpTo, ContentType
    <3> QED  BY <3>1
  <2>7. room(e) \in Nat
    <3>1. CASE e = 1
      <4>1. SubSeq(mb, 1, e - 1) = <<>>
        BY <3>1
      <4>2. Content(SubSeq(mb, 1, e - 1)) = <<>>
        BY <4>1, ContentNone
      <4> QED  BY <4>2
    <3>2. CASE e # 1
      <4> DEFINE k == e - 1
      <4>1. k \in 1..(e - 1) /\ k \in 1..Len(mb)
        BY <2>2, <3>2
      <4>2. ~ (Len(mb[k].bytes) > room(k))
        BY <2>3, <4>1
      <4>3. Content(SubSeq(mb, 1, k)) = Content(SubSeq(mb, 1, k - 1)) \o mb[k].bytes
        BY <4>1, ContentUpTo
      <4>4. Content(SubSeq(mb, 1, k - 1)) \in Seq(S) /\ mb[k].bytes \in Seq(S)
        <5>1. mb[k] \in Bufs(S)
          BY <4>1
        <5> QED  BY <5>1, <4>1, ContentUpTo, ContentType DEF Bufs
      <4> DEFINE u == Content(SubSeq(mb, 1, k - 1))
                 v == mb[k].bytes
      <4>5. Len(u \o v) = Len(u) + Len(v) /\ Len(u) \in Nat /\ Len(v) \in Nat
        <5> HIDE DEF u, v
        <5>1. u \in Seq(S) /\ v \in Seq(S)
          BY <4>4 DEF u, v
        <5> QED  BY <5>1
      <4>6. room(e) = n - Len(u \o v)
        BY <4>3
      <4>7. room(k) = n - Len(u)
        OBVIOUS
      <4> HIDE DEF u, k
      <4> QED  BY <4>2, <4>5, <4>6, <4>7
    <3> QED  BY <3>1, <3>2
  <2> HIDE DEF stay
  <2>8. /\ Read(mb[e], room(e)) \in Bufs(S) /\ got0 \in Seq(S)
        /\ got0 \o Read(mb[e], room(e)).bytes = mb[e].bytes
    BY <2>2, <2>7, ReadBuffer
  <2>9. left \in Seq(Bufs(S)) /\ Content(left) = Read(mb[e], room(e)).bytes \o Content(behind)
    <3> DEFINE r == Read(mb[e], room(e))
    <3>1. r \in Bufs(S)
      BY <2>8
    <3> HIDE DEF r, behind
    <3>2. <<r>> \in Seq(Bufs(S)) /\ <<r>> \o behind \in Seq(Bufs(S))
      BY <2>4, <3>1
    <3>3. Content(<<r>> \o behind) = r.bytes \o Content(behind)
      <4>1. Content(<<r>>) = r.bytes
        BY <3>1, ContentOne, Zenon
      <4>2. Content(<<r>> \o behind) = Content(<<r>>) \o Content(behind)
        BY <2>4, <3>2, ContentConcat, Zenon
      <4> QED  BY <4>1, <4>2
    <3> QED  BY <3>2, <3>3 DEF r, behind
  <2>10. some = Content(before) \o got0
    <3>1. [i \in 1..e |-> Take(mb[i].bytes, room(i))] = Append(SplitFirsts(before), got0)
      <4>1. \A i \in 1..(e - 1) : Take(mb[i].bytes, room(i)) = mb[i].bytes
        <5> SUFFICES ASSUME NEW i \in 1..(e - 1) PROVE Take(mb[i].bytes, room(i)) = mb[i].bytes
          OBVIOUS
        <5>1. i \in 1..Len(mb) /\ ~ (Len(mb[i].bytes) > room(i)) /\ mb[i] \in Bufs(S)
          BY <2>2, <2>3
        <5>2. mb[i].bytes \in Seq(S) /\ Len(mb[i].bytes) \in Nat
          BY <5>1 DEF Bufs
        <5>3. room(i) \in Int
          BY <2>6, <5>1
        <5>4. room(i) \in Nat
          BY <5>1, <5>2, <5>3
        <5> QED  BY <5>1, <5>2, <5>4, TakeAll
      <4>2. /\ SplitFirsts(before) \in Seq(Seq(S)) /\ Len(SplitFirsts(before)) = e - 1
            /\ \A i \in 1..(e - 1) : SplitFirsts(before)[i] = before[i].bytes
        BY <2>4, SplitFirstsType
      <4>3. \A i \in 1..(e - 1) : before[i] = mb[i]
        BY <2>2
      <4> HIDE DEF before, got0, room
      <4> DEFINE l == [i \in 1..e |-> Take(mb[i].bytes, room(i))]
                 s == SplitFirsts(before)
      <4>4. s \in Seq(Seq(S)) /\ Len(s) = e - 1 /\ \A i \in 1..(e - 1) : s[i] = Take(mb[i].bytes, room(i))
        BY <4>1, <4>2, <4>3
      <4>5. got0 = Take(mb[e].bytes, room(e))
        BY DEF got0
      <4> HIDE DEF s
      <4>6. DOMAIN Append(s, got0) = 1..e /\ \A i \in 1..e : Append(s, got0)[i] = l[i]
        BY <2>2, <4>4, <4>5
      <4>7. Append(s, got0) = [i \in 1..e |-> Append(s, got0)[i]]
        <5> DEFINE q == Append(s, got0)
        <5>1. q \in Seq(Seq(S)) /\ Len(q) = e
          BY <2>2, <2>8, <4>4 DEF got0
        <5> HIDE DEF q
        <5>2. q = [i \in 1..e |-> q[i]]
          BY <5>1
        <5> QED  BY <5>2 DEF q
      <4> QED  BY <4>6, <4>7 DEF s
    <3>2. SplitFirsts(before) \in Seq(Seq(S))
      BY <2>4, SplitFirstsType
    <3>3. FlattenSeq(Append(SplitFirsts(before), got0)) = FlattenSeq(SplitFirsts(before)) \o got0
      <4>1. FlattenSeq(SplitFirsts(before)) \in Seq(S)
        BY <3>2, FlattenType
      <4> QED  BY <2>8, <3>2, <4>1, FlattenAppend, Zenon
    <3> QED  BY <3>1, <3>3 DEF Content
  <2>11. Content(mb) = Content(before) \o (mb[e].bytes \o Content(behind))
    <3>1. mb = SubSeq(mb, 1, e) \o behind /\ SubSeq(mb, 1, e) \in Seq(Bufs(S))
      BY <2>2
    <3>2. Content(SubSeq(mb, 1, e) \o behind) = Content(SubSeq(mb, 1, e)) \o Content(behind)
      BY <2>4, <3>1, ContentConcat
    <3>3. Content(SubSeq(mb, 1, e)) = Content(before) \o mb[e].bytes
      BY <2>2, ContentUpTo
    <3>4. mb[e].bytes \in Seq(S)
      BY <2>2 DEF Bufs
    <3>5. (Content(before) \o mb[e].bytes) \o Content(behind) = Content(before) \o (mb[e].bytes \o Content(behind))
      <4> DEFINE a == Content(before)
                 b == mb[e].bytes
                 c == Content(behind)
      <4>1. a \in Seq(S) /\ b \in Seq(S) /\ c \in Seq(S)
        BY <2>5, <3>4
      <4> HIDE DEF a, b, c
      <4>2. (a \o b) \o c = a \o (b \o c)
        BY <4>1
      <4> QED  BY <4>2 DEF a, b, c
    <3> QED  BY <3>1, <3>2, <3>3, <3>5
  <2>12. SplitBytes(mb, n).left = left /\ SplitBytes(mb, n).got = some
    <3>1. SplitBytes(mb, n) = [left |-> left, got |-> some]
      BY <1>1, <1>3, Zenon
    <3> HIDE DEF left, some
    <3> QED  BY <3>1
  <2> DEFINE p == Content(before)
             q == Content(behind)
             r == Read(mb[e], room(e)).bytes
  <2>13. p \in Seq(S) /\ q \in Seq(S) /\ r \in Seq(S) /\ got0 \in Seq(S)
    BY <2>5, <2>8 DEF Bufs
  <2>14. Content(left) = r \o q /\ some = p \o got0 /\ Content(mb) = p \o ((got0 \o r) \o q)
    BY <2>8, <2>9, <2>10, <2>11
  <2>15. left \in Seq(Bufs(S))
    BY <2>9
  <2> HIDE DEF p, q, r, got0, left, some
  <2>16. (p \o got0) \o (r \o q) = p \o ((got0 \o r) \o q) /\ p \o got0 \in Seq(S)
    BY <2>13, SMTT(40)
  <2> QED  BY <2>12, <2>14, <2>15, <2>16
<1> QED  BY <1>2, <1>3

-----------------------------------------------------------------------------
(* Compact.                                                                 *)

Merge(m, b) ==
    LET last == Last(m)
    IN IF Len(last.bytes) + Len(b.bytes) > Size THEN Append(m, b)
       ELSE Append(Front(m), Write(last, b.bytes))
MergeStep(f, mb, i) == IF i = 1 THEN <<mb[1]>> ELSE Merge(f[i - 1], mb[i])
Merges(f, mb, n) == f = [i \in 1..n |-> MergeStep(f, mb, i)]

\* A Buffer goes behind the others, or into the last of them.
LEMMA MergeKeeps ==
  ASSUME NEW S, NEW m \in Seq(Filled(S)), m # <<>>, NEW b \in Filled(S)
  PROVE  /\ Merge(m, b) \in Seq(Filled(S)) /\ Merge(m, b) # <<>>
         /\ Content(Merge(m, b)) = Content(m) \o b.bytes
<1> DEFINE last == Last(m)
           front == Front(m)
<1>1. last \in Filled(S) /\ front \in Seq(Filled(S)) /\ m = Append(front, last)
  BY DEF Last, Front
<1>2. \A x \in Filled(S) : /\ x.bytes \in Seq(S) /\ Len(x.bytes) \in Nat /\ x \in Bufs(S) /\ x.end = Len(x.bytes)
                           /\ x.cap = Size /\ x.end <= x.cap
  BY DEF Filled, Bufs
<1>3. m \in Seq(Bufs(S)) /\ front \in Seq(Bufs(S))
  BY <1>1, FilledAre
<1>4. Size \in Nat
  BY SizeAssumption
<1>5. CASE Len(last.bytes) + Len(b.bytes) > Size
  <2>1. Merge(m, b) = Append(m, b)
    BY <1>5 DEF Merge
  <2>2. Append(m, b) \in Seq(Filled(S)) /\ Append(m, b) # <<>>
    OBVIOUS
  <2>3. Content(Append(m, b)) = Content(m) \o b.bytes
    BY <1>2, <1>3, ContentAppend
  <2> QED  BY <2>1, <2>2, <2>3
<1>6. CASE ~(Len(last.bytes) + Len(b.bytes) > Size)
  <2> DEFINE w == Write(last, b.bytes)
  <2>1. Merge(m, b) = Append(front, w)
    BY <1>6 DEF Merge
  <2>2. Room(last) = Size - Len(last.bytes) /\ Room(last) \in Nat /\ Len(b.bytes) <= Room(last)
    <3> HIDE DEF last
    <3>1. /\ Len(last.bytes) \in Nat /\ Len(b.bytes) \in Nat /\ last.end = Len(last.bytes) /\ last.cap = Size
          /\ last.end <= last.cap
      BY <1>1, <1>2
    <3> DEFINE u == Len(last.bytes)
               v == Len(b.bytes)
    <3>2. ~(u + v > Size)
      BY <1>6
    <3>3. Room(last) = Size - u
      BY <3>1 DEF Room
    <3> HIDE DEF u, v
    <3>4. u \in Nat /\ v \in Nat
      BY <3>1 DEF u, v
    <3>5. Size - u \in Nat /\ v <= Size - u
      BY <1>4, <3>2, <3>4
    <3> QED  BY <3>3, <3>5 DEF u, v
  <2>3. Take(b.bytes, Room(last)) = b.bytes /\ Fewer(Len(b.bytes), Room(last)) = Len(b.bytes)
    <3>1. Take(b.bytes, Room(last)) = b.bytes
      BY <1>2, <2>2, TakeAll
    <3>2. Fewer(Len(b.bytes), Room(last)) = Len(b.bytes)
      BY <1>2, <2>2 DEF Fewer
    <3> QED  BY <3>1, <3>2
  <2>4. /\ w \in Bufs(S) /\ w.bytes = last.bytes \o b.bytes
        /\ w.end = last.end + Len(b.bytes) /\ w.cap = last.cap
    <3> HIDE DEF last
    <3>1. last \in Bufs(S) /\ b.bytes \in Seq(S)
      BY <1>1, <1>2
    <3>2. /\ Write(last, b.bytes) \in Bufs(S)
          /\ Write(last, b.bytes).bytes = last.bytes \o Take(b.bytes, Room(last))
          /\ Write(last, b.bytes).end = last.end + Fewer(Len(b.bytes), Room(last))
          /\ Write(last, b.bytes).cap = last.cap
      BY <3>1, WriteBuffer
    <3> QED  BY <2>3, <3>2
  <2>5. Len(last.bytes \o b.bytes) = Len(last.bytes) + Len(b.bytes)
    <3> DEFINE u == last.bytes
               v == b.bytes
    <3>1. u \in Seq(S) /\ v \in Seq(S)
      BY <1>1, <1>2
    <3> HIDE DEF u, v
    <3>2. Len(u \o v) = Len(u) + Len(v)
      BY <3>1
    <3> QED  BY <3>2 DEF u, v
  <2>6. w \in Filled(S)
    BY <1>1, <1>2, <2>4, <2>5 DEF Filled
  <2> HIDE DEF w, front, last
  <2>7. Append(front, w) \in Seq(Filled(S)) /\ Append(front, w) # <<>>
    BY <1>1, <2>6
  <2>8. Content(Append(front, w)) = Content(front) \o w.bytes
    BY <1>3, <2>4, ContentAppend
  <2>9. Content(m) = Content(front) \o last.bytes
    BY <1>1, <1>2, <1>3, ContentAppend
  <2>10. Content(front) \o (last.bytes \o b.bytes) = (Content(front) \o last.bytes) \o b.bytes
    <3> DEFINE u == last.bytes
               v == b.bytes
               t == Content(front)
    <3>1. u \in Seq(S) /\ v \in Seq(S) /\ t \in Seq(S)
      BY <1>1, <1>2, <1>3, ContentType
    <3> HIDE DEF t, u, v
    <3>2. t \o (u \o v) = (t \o u) \o v
      BY <3>1
    <3> QED  BY <3>2 DEF t, u, v
  <2> QED  BY <2>1, <2>4, <2>7, <2>8, <2>9, <2>10
<1> QED  BY <1>5, <1>6

\* The values of the function by which Compact is defined, and that there is one.
LEMMA MergesAt ==
  ASSUME NEW f, NEW mb, NEW n, NEW i \in 1..n, Merges(f, mb, n)
  PROVE  f[i] = MergeStep(f, mb, i)
<1> DEFINE g == [j \in 1..n |-> MergeStep(f, mb, j)]
<1>1. f = g
  BY DEF Merges
<1>2. g[i] = MergeStep(f, mb, i)
  BY Zenon
<1> HIDE DEF g
<1> QED  BY <1>1, <1>2

\* The loop of Compact has its values for any number of turns.
LEMMA MergesExists == ASSUME NEW mb, NEW n \in Nat PROVE \E f : Merges(f, mb, n)
<1> DEFINE L == {k \in Nat : \E f : Merges(f, mb, k)}
<1>1. 0 \in L
  <2> DEFINE g == [i \in 1..0 |-> 0]
  <2>1. Merges(g, mb, 0)
    BY 1..0 = {} DEF Merges
  <2> HIDE DEF g
  <2> QED  BY <2>1
<1>2. ASSUME NEW k \in Nat, k \in L PROVE k + 1 \in L
  <2>1. PICK f : Merges(f, mb, k)
    BY <1>2
  <2> DEFINE g == [i \in 1..(k + 1) |-> IF i = k + 1 THEN MergeStep(f, mb, i) ELSE f[i]]
  <2>2. ASSUME NEW i \in 1..(k + 1) PROVE g[i] = MergeStep(g, mb, i)
    <3>1. i # 1 => g[i - 1] = f[i - 1]
      OBVIOUS
    <3>2. MergeStep(g, mb, i) = MergeStep(f, mb, i)
      <4> HIDE DEF g
      <4> QED  BY <3>1, Zenon DEF MergeStep
    <3>3. CASE i = k + 1
      BY <3>2, <3>3
    <3>4. CASE i # k + 1
      <4>1. g[i] = f[i] /\ i \in 1..k
        BY <3>4
      <4>2. f[i] = MergeStep(f, mb, i)
        BY <2>1, <4>1, MergesAt, Zenon
      <4> QED  BY <3>2, <4>1, <4>2
    <3> QED  BY <3>3, <3>4
  <2>3. g = [i \in 1..(k + 1) |-> g[i]]
    OBVIOUS
  <2> HIDE DEF g
  <2>4. Merges(g, mb, k + 1)
    BY <2>2, <2>3, Zenon DEF Merges
  <2> QED  BY <2>4
<1> HIDE DEF L
<1>3. Nat \subseteq L
  BY <1>1, <1>2, NatInd
<1>4. n \in L
  BY <1>3
<1> QED  BY <1>4 DEF L

\* Compact keeps what is in Buffers that are filled.
LEMMA CompactKeeps ==
  ASSUME NEW S, NEW mb \in Seq(Filled(S))
  PROVE  Compact(mb) \in Seq(Filled(S)) /\ Content(Compact(mb)) = Content(mb)
<1>1. CASE mb = <<>>
  BY <1>1 DEF Compact
<1>2. CASE mb # <<>>
  <2> DEFINE n == Len(mb)
             f == CHOOSE f : Merges(f, mb, n)
  <2>1. n \in Nat /\ n \in 1..n /\ DOMAIN mb = 1..n
    BY <1>2
  <2>2. Merges(f, mb, n)
    BY <2>1, MergesExists, Zenon
  <2>3. Compact(mb) = f[n]
    BY <1>2, <2>1, Zenon DEF Compact, Merges, MergeStep, Merge
  <2> HIDE DEF f, n
  <2> DEFINE L == {k \in Nat : k \in 1..n => /\ f[k] \in Seq(Filled(S)) /\ f[k] # <<>>
                                             /\ Content(f[k]) = Content(SubSeq(mb, 1, k))}
  <2>4. mb \in Seq(Bufs(S))
    BY FilledAre
  <2>5. 0 \in L
    BY <2>1
  <2>6. ASSUME NEW k \in Nat, k \in L PROVE k + 1 \in L
    <3> SUFFICES ASSUME k + 1 \in 1..n
                 PROVE  /\ f[k + 1] \in Seq(Filled(S)) /\ f[k + 1] # <<>>
                        /\ Content(f[k + 1]) = Content(SubSeq(mb, 1, k + 1))
      OBVIOUS
    <3>1. f[k + 1] = MergeStep(f, mb, k + 1)
      BY <2>2, MergesAt, Zenon
    <3>2. mb[k + 1] \in Filled(S) /\ k + 1 \in 1..Len(mb)
      BY DEF n
    <3>3. Content(SubSeq(mb, 1, k + 1)) = Content(SubSeq(mb, 1, k)) \o mb[k + 1].bytes
      <4>2. Content(SubSeq(mb, 1, k + 1)) = Content(SubSeq(mb, 1, k)) \o mb[k + 1].bytes
        <5> DEFINE i == k + 1
        <5>1. i \in 1..Len(mb)
          BY <3>2
        <5>0. i = k + 1 /\ i - 1 = k
          OBVIOUS
        <5> HIDE DEF i
        <5>2. Content(SubSeq(mb, 1, i)) = Content(SubSeq(mb, 1, i - 1)) \o mb[i].bytes
          BY <2>4, <5>1, ContentUpTo
        <5> QED  BY <5>0, <5>2
      <4> QED  BY <4>2
    <3>4. CASE k = 0
      <4>1. f[k + 1] = <<mb[1]>> /\ SubSeq(mb, 1, k + 1) = <<mb[1]>> /\ <<mb[1]>> # <<>>
        <5>1. k + 1 = 1
          BY <3>4
        <5>2. f[k + 1] = <<mb[1]>>
          BY <3>1, <5>1 DEF MergeStep
        <5>3. SubSeq(mb, 1, 1) = <<mb[1]>> /\ <<mb[1]>> # <<>>
          <6> DEFINE q == SubSeq(mb, 1, 1)
          <6>1. q \in Seq(Filled(S)) /\ Len(q) = 1 /\ q[1] = mb[1]
            BY <3>2, <5>1
          <6> HIDE DEF q
          <6>2. q = <<q[1]>> /\ <<mb[1]>> # <<>>
            BY <6>1
          <6> QED  BY <6>1, <6>2 DEF q
        <5> QED  BY <5>1, <5>2, <5>3
      <4>2. <<mb[1]>> \in Seq(Filled(S))
        BY <3>2, <3>4
      <4> QED  BY <4>1, <4>2
    <3>5. CASE k # 0
      <4>1. k \in 1..n /\ k + 1 # 1 /\ k + 1 - 1 = k
        BY <2>1, <3>5
      <4>2. f[k + 1] = Merge(f[k], mb[k + 1])
        BY <3>1, <4>1 DEF MergeStep
      <4>3. f[k] \in Seq(Filled(S)) /\ f[k] # <<>> /\ Content(f[k]) = Content(SubSeq(mb, 1, k))
        BY <2>6, <4>1
      <4> DEFINE fk == f[k]
                 b == mb[k + 1]
      <4>4. fk \in Seq(Filled(S)) /\ fk # <<>> /\ b \in Filled(S)
        BY <3>2, <4>3
      <4> HIDE DEF fk, b
      <4>5. /\ Merge(fk, b) \in Seq(Filled(S)) /\ Merge(fk, b) # <<>>
            /\ Content(Merge(fk, b)) = Content(fk) \o b.bytes
        BY <4>4, MergeKeeps
      <4> HIDE DEF L
      <4> QED  BY <3>3, <4>2, <4>3, <4>5 DEF fk, b
    <3> QED  BY <3>4, <3>5
  <2> HIDE DEF L
  <2>7. Nat \subseteq L
    BY <2>5, <2>6, NatInd
  <2>8. f[n] \in Seq(Filled(S)) /\ Content(f[n]) = Content(SubSeq(mb, 1, n))
    BY <2>1, <2>7 DEF L
  <2>9. SubSeq(mb, 1, n) = mb
    BY DEF n
  <2> QED  BY <2>3, <2>8, <2>9
<1> QED  BY <1>1, <1>2

-----------------------------------------------------------------------------
(* Messages.                                                                *)

\* The bytes that are on their way.
Way(messages) == FlattenSeq(FlattenSeq(messages))

\* The bytes that are on their way.
LEMMA WayType == ASSUME NEW S, NEW n \in Seq(Seq(Seq(S))) PROVE Way(n) \in Seq(S)
<1>1. FlattenSeq(n) \in Seq(Seq(S))
  BY FlattenType
<1> QED  BY <1>1, FlattenType DEF Way

\* Messages on their way, behind others.
LEMMA WayConcat ==
  ASSUME NEW S, NEW a \in Seq(Seq(Seq(S))), NEW b \in Seq(Seq(Seq(S)))
  PROVE  Way(a \o b) = Way(a) \o Way(b)
<1>1. FlattenSeq(a) \in Seq(Seq(S)) /\ FlattenSeq(b) \in Seq(Seq(S))
  BY FlattenType
<1>2. FlattenSeq(a \o b) = FlattenSeq(a) \o FlattenSeq(b)
  BY FlattenConcat
<1>3. FlattenSeq(FlattenSeq(a) \o FlattenSeq(b)) = FlattenSeq(FlattenSeq(a)) \o FlattenSeq(FlattenSeq(b))
  BY <1>1, FlattenConcat
<1> QED  BY <1>2, <1>3 DEF Way

\* Nothing is on its way.
LEMMA WayNone == Way(<<>>) = <<>>
  BY FlattenEmpty DEF Way

\* The first message.
LEMMA WayHead ==
  ASSUME NEW S, NEW n \in Seq(Seq(Seq(S))), n # <<>>
  PROVE  /\ Head(n) \in Seq(Seq(S)) /\ Tail(n) \in Seq(Seq(Seq(S)))
         /\ Way(n) = FlattenSeq(Head(n)) \o Way(Tail(n))
<1>1. Head(n) \in Seq(Seq(S)) /\ Tail(n) \in Seq(Seq(Seq(S)))
  OBVIOUS
<1>2. FlattenSeq(n) = Head(n) \o FlattenSeq(Tail(n))
  BY FlattenHead
<1>3. FlattenSeq(Tail(n)) \in Seq(Seq(S))
  BY <1>1, FlattenType
<1>4. FlattenSeq(Head(n) \o FlattenSeq(Tail(n))) = FlattenSeq(Head(n)) \o FlattenSeq(FlattenSeq(Tail(n)))
  BY <1>1, <1>3, FlattenConcat
<1> QED  BY <1>1, <1>2, <1>4 DEF Way

\* One message.
LEMMA WayOne == ASSUME NEW S, NEW m \in Seq(Seq(S)) PROVE Way(<<m>>) = FlattenSeq(m)
<1>1. FlattenSeq(<<m>>) = m
  BY FlattenOne
<1> QED  BY <1>1 DEF Way

\* Messages with one string each; the adapter's, and the hunks.
Single(messages) == \A i \in DOMAIN messages : Len(messages[i]) = 1

\* A Write that becomes one message.
LEMMA MessageWay ==
  ASSUME NEW S, NEW b \in Seq(S)
  PROVE  WriteMessage(b) \in Seq(Seq(Seq(S))) /\ Way(WriteMessage(b)) = b /\ Single(WriteMessage(b))
<1>1. <<b>> \in Seq(Seq(S)) /\ Len(<<b>>) = 1 /\ <<<<b>>>> \in Seq(Seq(Seq(S)))
  OBVIOUS
<1>2. Way(<<<<b>>>>) = b
  BY <1>1, WayOne, FlattenOne
<1>3. Single(<<<<b>>>>)
  BY DEF Single
<1> QED  BY <1>1, <1>2, <1>3 DEF WriteMessage

\* A message for each Buffer.
LEMMA HunksWay ==
  ASSUME NEW S, NEW s \in Seq(Seq(S))
  PROVE  /\ SendHunks(s) \in Seq(Seq(Seq(S))) /\ FlattenSeq(SendHunks(s)) = s
         /\ Way(SendHunks(s)) = FlattenSeq(s) /\ Single(SendHunks(s))
<1> DEFINE T == Seq(S)
           L == {t \in Seq(T) : FlattenSeq(SendHunks(t)) = t}
<1>1. ASSUME NEW t \in Seq(T)
      PROVE  SendHunks(t) \in Seq(Seq(T)) /\ Len(SendHunks(t)) = Len(t) /\ Single(SendHunks(t))
  <2> HIDE DEF T
  <2>1. SendHunks(t) = [i \in 1..Len(t) |-> <<t[i]>>]
    BY DEF SendHunks
  <2>2. \A i \in 1..Len(t) : <<t[i]>> \in Seq(T) /\ Len(<<t[i]>>) = 1
    OBVIOUS
  <2> QED  BY <2>1, <2>2 DEF Single
<1>2. <<>> \in L
  <2>1. SendHunks(<<>>) = <<>> /\ <<>> \in Seq(T)
    BY DEF SendHunks
  <2> QED  BY <2>1, FlattenEmpty
<1> HIDE DEF T
<1>3. ASSUME NEW t \in Seq(T), NEW x \in T, t \in L PROVE Append(t, x) \in L
  <2>1. SendHunks(Append(t, x)) = Append(SendHunks(t), <<x>>)
    BY DEF SendHunks
  <2>2. SendHunks(t) \in Seq(Seq(T)) /\ <<x>> \in Seq(T) /\ FlattenSeq(SendHunks(t)) = t
    BY <1>1, <1>3
  <2>3. FlattenSeq(Append(SendHunks(t), <<x>>)) = FlattenSeq(SendHunks(t)) \o <<x>>
    BY <2>2, FlattenAppend
  <2>4. Append(t, x) = t \o <<x>> /\ Append(t, x) \in Seq(T)
    OBVIOUS
  <2> QED  BY <2>1, <2>2, <2>3, <2>4
<1>4. s \in Seq(T)
  BY DEF T
<1> HIDE DEF L
<1>5. Seq(T) \subseteq L
  BY <1>2, <1>3, SeqInd
<1>6. FlattenSeq(SendHunks(s)) = s
  BY <1>4, <1>5 DEF L
<1>7. SendHunks(s) \in Seq(Seq(T)) /\ Single(SendHunks(s))
  BY <1>1, <1>4
<1> QED  BY <1>6, <1>7 DEF Way, T

\* What is left without the empty strings has the same bytes.
LEMMA NotEmptyKeeps ==
  ASSUME NEW S, NEW s \in Seq(Seq(S))
  PROVE  NotEmpty(s) \in Seq(Seq(S)) /\ FlattenSeq(NotEmpty(s)) = FlattenSeq(s)
<1> DEFINE full(t) == [i \in DOMAIN t |-> IF t[i] = <<>> THEN <<>> ELSE <<t[i]>>]
           L == {t \in Seq(Seq(S)) : /\ full(t) \in Seq(Seq(Seq(S)))
                                     /\ FlattenSeq(FlattenSeq(full(t))) = FlattenSeq(t)}
<1>1. <<>> \in L
  <2>1. full(<<>>) = <<>> /\ <<>> \in Seq(Seq(S)) /\ <<>> \in Seq(Seq(Seq(S)))
    OBVIOUS
  <2> QED  BY <2>1, FlattenEmpty
<1>2. ASSUME NEW t \in Seq(Seq(S)), NEW x \in Seq(S), t \in L PROVE Append(t, x) \in L
  <2> DEFINE y == IF x = <<>> THEN <<>> ELSE <<x>>
  <2>1. full(Append(t, x)) = Append(full(t), y)
    OBVIOUS
  <2>2. y \in Seq(Seq(S))
    OBVIOUS
  <2>3. FlattenSeq(y) = x
    BY FlattenEmpty, FlattenOne
  <2>4. full(t) \in Seq(Seq(Seq(S))) /\ FlattenSeq(FlattenSeq(full(t))) = FlattenSeq(t)
    BY <1>2
  <2> HIDE DEF L, full, y
  <2>5. Append(full(t), y) \in Seq(Seq(Seq(S))) /\ Append(t, x) \in Seq(Seq(S))
    BY <2>2, <2>4
  <2>6. FlattenSeq(Append(full(t), y)) = FlattenSeq(full(t)) \o y /\ FlattenSeq(full(t)) \in Seq(Seq(S))
    <3>1. FlattenSeq(full(t)) \in Seq(Seq(S))
      BY <2>4, FlattenType
    <3> QED  BY <2>2, <2>4, <3>1, FlattenAppend, Zenon
  <2>7. FlattenSeq(FlattenSeq(full(t)) \o y) = FlattenSeq(FlattenSeq(full(t))) \o FlattenSeq(y)
    BY <2>2, <2>6, FlattenConcat, Zenon
  <2>8. FlattenSeq(Append(t, x)) = FlattenSeq(t) \o x
    BY FlattenAppend, FlattenType, Zenon
  <2>9. FlattenSeq(FlattenSeq(full(Append(t, x)))) = FlattenSeq(Append(t, x))
    BY <2>1, <2>3, <2>4, <2>6, <2>7, <2>8, Zenon
  <2>10. full(Append(t, x)) \in Seq(Seq(Seq(S)))
    BY <2>1, <2>5, Zenon
  <2> QED  BY <2>5, <2>9, <2>10 DEF L
<1> HIDE DEF L
<1>3. Seq(Seq(S)) \subseteq L
  BY <1>1, <1>2, SeqInd
<1>4. full(s) \in Seq(Seq(Seq(S))) /\ FlattenSeq(FlattenSeq(full(s))) = FlattenSeq(s)
  BY <1>3 DEF L
<1>5. NotEmpty(s) = FlattenSeq(full(s))
  BY DEF NotEmpty
<1> HIDE DEF full
<1> QED  BY <1>4, <1>5, FlattenType

\* Whatever makes messages of a Write puts all its bytes into them.
LEMMA FramesWay ==
  ASSUME NEW S, NEW b \in Seq(S)
  PROVE  Frames(b) \in Seq(Seq(Seq(S))) /\ Way(Frames(b)) = b /\ (kind # "multi" => Single(Frames(b)))
<1> DEFINE slices == SplitFirsts(MergeBytes(<<>>, b))
<1>1. MergeBytes(<<>>, b) \in Seq(Bufs(S)) /\ Content(MergeBytes(<<>>, b)) = b
  BY MergeNone, FilledAre
<1>2. slices \in Seq(Seq(S)) /\ FlattenSeq(slices) = b
  BY <1>1, SplitFirstsType DEF Content
<1>3. Frames(b) = CASE kind = "hunk" -> SendHunks(slices)
                    [] kind = "multi" -> SendMultiHunk(slices)
                    [] OTHER -> WriteMessage(b)
  BY Zenon DEF Frames
<1> HIDE DEF slices
<1>4. CASE kind = "hunk"
  BY <1>2, <1>3, <1>4, HunksWay
<1>5. CASE kind = "multi"
  <2>1. NotEmpty(slices) \in Seq(Seq(S)) /\ FlattenSeq(NotEmpty(slices)) = b
    BY <1>2, NotEmptyKeeps
  <2>2. Frames(b) = <<NotEmpty(slices)>>
    BY <1>3, <1>5 DEF SendMultiHunk
  <2>3. Way(<<NotEmpty(slices)>>) = b /\ <<NotEmpty(slices)>> \in Seq(Seq(Seq(S)))
    BY <2>1, WayOne
  <2> QED  BY <1>5, <2>2, <2>3
<1>6. CASE kind # "hunk" /\ kind # "multi"
  BY <1>3, <1>6, MessageWay
<1> QED  BY <1>4, <1>5, <1>6

\* Nothing is lost in Buffers that are filled in turn and then compacted.
LEMMA CompactWay ==
  ASSUME NEW S, NEW b \in Seq(S), NEW k \in Nat
  PROVE  LET slices == SplitFirsts(Compact(MergeBytes(<<>>, Take(b, k)) \o MergeBytes(<<>>, Drop(b, k))))
         IN /\ SendHunks(slices) \in Seq(Seq(Seq(S))) /\ Way(SendHunks(slices)) = b
            /\ Single(SendHunks(slices))
<1> DEFINE x == MergeBytes(<<>>, Take(b, k))
           y == MergeBytes(<<>>, Drop(b, k))
<1>1. Take(b, k) \in Seq(S) /\ Drop(b, k) \in Seq(S) /\ Take(b, k) \o Drop(b, k) = b
  BY TakeDrop
<1>2. /\ x \in Seq(Filled(S)) /\ y \in Seq(Filled(S))
      /\ Content(x) = Take(b, k) /\ Content(y) = Drop(b, k)
  BY <1>1, MergeNone
<1> HIDE DEF x, y
<1>3. x \o y \in Seq(Filled(S)) /\ x \in Seq(Bufs(S)) /\ y \in Seq(Bufs(S))
  BY <1>2, FilledAre
<1>4. Content(x \o y) = b
  <2>1. Content(x \o y) = Content(x) \o Content(y)
    BY <1>3, ContentConcat
  <2> QED  BY <1>1, <1>2, <2>1
<1>5. Compact(x \o y) \in Seq(Bufs(S)) /\ Content(Compact(x \o y)) = b
  BY <1>3, <1>4, CompactKeeps, FilledAre
<1>6. SplitFirsts(Compact(x \o y)) \in Seq(Seq(S)) /\ FlattenSeq(SplitFirsts(Compact(x \o y))) = b
  BY <1>5, SplitFirstsType DEF Content
<1>7. LET slices == SplitFirsts(Compact(x \o y))
      IN /\ SendHunks(slices) \in Seq(Seq(Seq(S))) /\ Way(SendHunks(slices)) = b
         /\ Single(SendHunks(slices))
  BY <1>6, HunksWay
<1> QED  BY <1>7 DEF x, y

-----------------------------------------------------------------------------
(* The types of what is sent.                                               *)

Byte == 0..(Base - 1)
Forms == {"ip4", "ip6", "name"}
HostType == [form : Forms, bytes : Seq(Byte)]

\* Small numbers and remainders are bytes.
LEMMA SmallBytes == \A n \in 0..7 : n \in Byte
  BY FormatsAssumption DEF Byte

\* A remainder is a byte.
LEMMA ModByte == ASSUME NEW n \in Int PROVE n % Base \in Byte
<1>1. Base \in Nat /\ Base > 0
  BY FormatsAssumption
<1> QED  BY <1>1 DEF Byte

\* A number of two bytes.
LEMMA PutUint16Type == ASSUME NEW n \in Nat PROVE PutUint16(n) \in Seq(Byte) /\ Len(PutUint16(n)) = 2
<1>1. Base \in Nat /\ Base > 0
  BY FormatsAssumption
<1>2. n \div Base \in Int
  BY <1>1
<1>3. (n \div Base) % Base \in Byte /\ n % Base \in Byte
  BY <1>2, ModByte
<1> QED  BY <1>3 DEF PutUint16

\* A number that two bytes spell.
LEMMA Uint16Type ==
  ASSUME NEW s \in Seq(Byte), NEW i \in 1..Len(s), i + 1 \in 1..Len(s)
  PROVE  Uint16(s, i) \in Nat
<1>1. Base \in Nat /\ s[i] \in Nat /\ s[i + 1] \in Nat
  BY FormatsAssumption DEF Byte
<1> QED  BY <1>1 DEF Uint16

\* A host string has one form: names do not spell addresses, and an IPv6 address does
\* not stand for another.
IsCanonical(h) ==
    /\ h.form = "ip4" => Len(h.bytes) = V4
    /\ h.form = "ip6" => Len(h.bytes) = V6 /\ ~Mapped(h.bytes)
    /\ h.form = "name" => ~Spells(h.bytes)
Canonical == {h \in HostType : IsCanonical(h)}

\* The string of an address or name.
LEMMA HostStringType ==
  ASSUME NEW atyp \in Forms, NEW b \in Seq(Byte), atyp = "ip4" => Len(b) = V4, atyp = "ip6" => Len(b) = V6
  PROVE  HostString(atyp, b) \in Canonical
<1>1. CASE atyp = "ip4"
  <2>1. HostString(atyp, b) = Host("ip4", b)
    BY <1>1 DEF HostString
  <2> QED  BY <1>1, <2>1 DEF Host, Canonical, IsCanonical, HostType, Forms
<1>2. CASE atyp = "ip6"
  <2>1. SubSeq(b, V6 - V4 + 1, V6) \in Seq(Byte) /\ Len(SubSeq(b, V6 - V4 + 1, V6)) = V4
    BY <1>2, FormatsAssumption
  <2>2. HostString(atyp, b) = IF Mapped(b) THEN Host("ip4", SubSeq(b, V6 - V4 + 1, V6)) ELSE Host("ip6", b)
    BY <1>2 DEF HostString
  <2>3. CASE Mapped(b)
    <3>1. HostString(atyp, b) = Host("ip4", SubSeq(b, V6 - V4 + 1, V6))
      BY <2>2, <2>3
    <3> QED  BY <2>1, <3>1 DEF Host, Canonical, IsCanonical, HostType, Forms
  <2>4. CASE ~Mapped(b)
    <3>1. HostString(atyp, b) = Host("ip6", b)
      BY <2>2, <2>4
    <3> QED  BY <1>2, <2>4, <3>1 DEF Host, Canonical, IsCanonical, HostType, Forms
  <2> QED  BY <2>3, <2>4
<1>3. CASE atyp = "name"
  <2>1. HostString(atyp, b) = IF Spells(b) THEN Host("ip4", Tail(b)) ELSE Host("name", b)
    BY <1>3 DEF HostString
  <2>2. Spells(b) => Tail(b) \in Seq(Byte) /\ Len(Tail(b)) = V4
    <3> SUFFICES ASSUME Spells(b) PROVE Tail(b) \in Seq(Byte) /\ Len(Tail(b)) = V4
      OBVIOUS
    <3>1. Len(b) = V4 + 1 /\ V4 \in Nat
      BY FormatsAssumption DEF Spells
    <3>2. b # <<>>
      BY <3>1
    <3> QED  BY <3>1, <3>2
  <2> QED  BY <2>1, <2>2 DEF Host, Canonical, IsCanonical, HostType, Forms
<1> QED  BY <1>1, <1>2, <1>3 DEF Forms

\* The types of an address, as the formats number them.
TypesOK(types) == /\ DOMAIN types \subseteq Forms /\ \A t \in DOMAIN types : types[t] \in 1..4
                  /\ \A t, u \in DOMAIN types : types[t] = types[u] => t = u

\* The formats' numbers for the types of an address are distinct.
LEMMA TypesAre ==
  /\ TypesOK(Socks) /\ TypesOK(Vless) /\ TypesOK(SocksV4)
  /\ DOMAIN Socks = Forms /\ DOMAIN Vless = Forms /\ DOMAIN SocksV4 = {"ip4", "name"}
  BY DEF TypesOK, Socks, Vless, SocksV4, Forms

\* An address that is written, and one that is read.
LEMMA PutAddressType ==
  ASSUME NEW host \in HostType, NEW types, TypesOK(types), host.form \in DOMAIN types
  PROVE  PutAddress(host, types) \in Seq(Byte)
<1>1. types[host.form] \in Byte
  <2>1. types[host.form] \in 1..4
    BY DEF TypesOK
  <2> QED  BY <2>1, SmallBytes
<1>2. Len(host.bytes) % Base \in Byte /\ host.bytes \in Seq(Byte)
  BY ModByte DEF HostType
<1> DEFINE l == IF host.form = "name" THEN <<Len(host.bytes) % Base>> ELSE <<>>
<1>3. l \in Seq(Byte) /\ <<types[host.form]>> \in Seq(Byte)
  BY <1>1, <1>2
<1>4. PutAddress(host, types) = <<types[host.form]>> \o l \o host.bytes
  BY Zenon DEF PutAddress
<1> HIDE DEF l
<1> QED  BY <1>2, <1>3, <1>4

\* An address that is read, and what is left behind it.
LEMMA GetAddressType ==
  ASSUME NEW s \in Seq(Byte), NEW types, TypesOK(types), GetAddress(s, types).ok
  PROVE  GetAddress(s, types).host \in Canonical /\ GetAddress(s, types).rest \in Seq(Byte)
<1>1. ~(s = <<>> \/ \A t \in DOMAIN types : types[t] # s[1])
  BY DEF GetAddress, Fail
<1> DEFINE atyp == CHOOSE t \in DOMAIN types : types[t] = s[1]
           from == IF atyp = "name" THEN 3 ELSE 2
           len == CASE atyp = "ip4" -> V4
                    [] atyp = "ip6" -> V6
                    [] atyp = "name" -> IF Len(s) = 1 THEN Base ELSE s[2]
           b == SubSeq(s, from, from + len - 1)
           rest == SubSeq(s, from + len, Len(s))
<1>2. atyp \in Forms
  BY <1>1 DEF TypesOK
<1>3. GetAddress(s, types) = IF Len(s) < from + len - 1 THEN Fail
                             ELSE [ok |-> TRUE, host |-> HostString(atyp, b), rest |-> rest]
  BY <1>1, Zenon DEF GetAddress
<1> HIDE DEF atyp
<1>4. len \in Nat /\ (atyp = "ip4" => len = V4) /\ (atyp = "ip6" => len = V6) /\ from \in {2, 3} /\ Len(s) \in Nat
  <2>1. Base \in Nat /\ V4 \in Nat /\ V6 \in Nat /\ s # <<>>
    BY <1>1, FormatsAssumption
  <2>2. Len(s) # 1 => s[2] \in Nat
    <3>0. Len(s) \in Nat /\ Len(s) # 0
      BY <2>1
    <3>1. Len(s) # 1 => s[2] \in Byte
      <4>1. Len(s) # 1 => 2 \in 1..Len(s)
        BY <3>0, SMTT(30)
      <4>2. \A i \in 1..Len(s) : s[i] \in Byte
        OBVIOUS
      <4> HIDE DEF len, from, b, rest
      <4> QED  BY <4>1, <4>2
    <3> QED  BY <3>1, FormatsAssumption DEF Byte
  <2>3. CASE atyp = "ip4"
    BY <2>1, <2>3
  <2>4. CASE atyp = "ip6"
    BY <2>1, <2>4
  <2>5. CASE atyp = "name"
    <3>1. len = IF Len(s) = 1 THEN Base ELSE s[2]
      BY <2>5
    <3> QED  BY <2>1, <2>2, <2>5, <3>1
  <2> QED  BY <1>2, <2>3, <2>4, <2>5 DEF Forms
<1> HIDE DEF from, len
<1>5. ~(Len(s) < from + len - 1)
  BY <1>3 DEF Fail
<1>6. GetAddress(s, types) = [ok |-> TRUE, host |-> HostString(atyp, b), rest |-> rest]
  BY <1>3, <1>5
<1>7. b \in Seq(Byte) /\ Len(b) = len /\ rest \in Seq(Byte)
  BY <1>4, <1>5
<1> HIDE DEF b, rest
<1>8. HostString(atyp, b) \in Canonical
  BY <1>2, <1>4, <1>7, HostStringType
<1> QED  BY <1>6, <1>7, <1>8

\* A target that is read.
LEMMA GetTargetType ==
  ASSUME NEW s \in Seq(Byte), NEW types, TypesOK(types), GetTarget(s, types).ok
  PROVE  /\ GetTarget(s, types).host \in Canonical /\ GetTarget(s, types).port \in Nat
<1> DEFINE a == GetAddress(s, types)
<1>1. a.ok /\ ~(Len(a.rest) < 2)
  BY DEF GetTarget, Fail
<1>2. a.host \in Canonical /\ a.rest \in Seq(Byte)
  BY <1>1, GetAddressType
<1>3. GetTarget(s, types) = [ok |-> TRUE, host |-> a.host, port |-> Uint16(a.rest, 1)]
  BY <1>1, Zenon DEF GetTarget
<1> HIDE DEF a
<1>4. Uint16(a.rest, 1) \in Nat
  BY <1>1, <1>2, Uint16Type
<1> QED  BY <1>2, <1>3, <1>4

\* A packet, sealed and not.
LEMMA SealType ==
  ASSUME NEW key \in Byte, NEW plain \in Seq(Byte)
  PROVE  Seal(key, plain) \in Seq(Byte) /\ Len(Seal(key, plain)) = Len(plain) + 2
<1> DEFINE m == [i \in DOMAIN plain |-> (plain[i] + key) % Base]
<1>1. ASSUME NEW i \in 1..Len(plain) PROVE (plain[i] + key) % Base \in Byte
  <2>1. plain[i] \in Int /\ key \in Int
    BY FormatsAssumption DEF Byte
  <2>2. plain[i] + key \in Int
    BY <2>1
  <2> QED  BY <2>2, ModByte
<1>2. m \in Seq(Byte) /\ Len(m) = Len(plain)
  BY <1>1
<1>3. <<1>> \in Seq(Byte) /\ <<key>> \in Seq(Byte)
  BY SmallBytes
<1>4. Seal(key, plain) = <<1>> \o m \o <<key>>
  BY Zenon DEF Seal
<1> HIDE DEF m
<1> QED  BY <1>2, <1>3, <1>4

PacketType == [id : Nat, flag : 0..7, payload : Seq(Byte)]

\* A packet that is written.
LEMMA WritePacketType ==
  ASSUME NEW p \in PacketType, WritePacket(p).ok
  PROVE  WritePacket(p).bytes \in Seq(Byte)
<1>1. p.id \in Nat /\ p.flag \in 0..7 /\ p.payload \in Seq(Byte)
  BY DEF PacketType
<1>2. <<p.flag>> \in Seq(Byte) /\ 3 + Len(p.payload) \in Nat
  BY <1>1, SmallBytes
<1>3. PutUint16(3 + Len(p.payload)) \in Seq(Byte) /\ PutUint16(p.id) \in Seq(Byte)
  BY <1>1, <1>2, PutUint16Type
<1> DEFINE x == PutUint16(3 + Len(p.payload))
           y == PutUint16(p.id)
           z == <<p.flag>>
<1>4. WritePacket(p).bytes = x \o y \o z \o p.payload
  BY DEF WritePacket, Fail
<1>5. x \in Seq(Byte) /\ y \in Seq(Byte) /\ z \in Seq(Byte)
  BY <1>2, <1>3
<1> HIDE DEF x, y, z
<1> QED  BY <1>1, <1>4, <1>5

SealedPacket(p, key) == IF p.payload = <<>> THEN p ELSE [p EXCEPT !.payload = Encrypt(key, @)]

\* A packet whose payload is encrypted.
LEMMA SealedPacketType ==
  ASSUME NEW p \in PacketType, NEW key \in Byte
  PROVE  SealedPacket(p, key) \in PacketType
<1>1. p.payload \in Seq(Byte)
  BY DEF PacketType
<1>2. Seal(key, p.payload) \in Seq(Byte)
  BY <1>1, SealType
<1> QED  BY <1>2 DEF SealedPacket, PacketType, Encrypt

\* Encrypted packets that are written.
LEMMA WriteSecurePacketType ==
  ASSUME NEW p \in PacketType, NEW key \in Byte, WriteSecurePacket(p, key).ok
  PROVE  WriteSecurePacket(p, key).bytes \in Seq(Byte)
<1>1. WriteSecurePacket(p, key) = WritePacket(SealedPacket(p, key))
  BY Zenon DEF WriteSecurePacket, SealedPacket
<1> QED  BY <1>1, SealedPacketType, WritePacketType

\* A set of natural numbers that is bounded has a largest element.
LEMMA LargestNatural ==
  ASSUME NEW n \in Nat, NEW L \in SUBSET (0..n), L # {}
  PROVE  \E x \in L : \A y \in L : y <= x
<1> DEFINE M == {k \in Nat : \E y \in L : k = n - y}
<1>1. M \in SUBSET Nat /\ M # {}
  <2>1. PICK y \in L : TRUE
    OBVIOUS
  <2>2. n - y \in M
    BY <2>1
  <2> QED  BY <2>2
<1>2. PICK k \in M : \A j \in M : k <= j
  BY <1>1, LeastNatural
<1>3. PICK x \in L : k = n - x
  BY <1>2
<1>4. ASSUME NEW y \in L PROVE y <= x
  <2>1. n - y \in M
    OBVIOUS
  <2> QED  BY <1>2, <1>3, <2>1
<1> QED  BY <1>4

\* What is written: the packets before the first that is refused, or all.
LEMMA WrittenIs ==
  ASSUME NEW out, NEW n \in Nat, Len(out) = n
  PROVE  \E k \in 0..n : /\ Written(out) = [i \in 1..k |-> out[i].bytes]
                         /\ \A i \in 1..k : out[i].ok
                         /\ k < n => ~out[k + 1].ok
<1> DEFINE fits == {k \in 0..Len(out) : \A i \in 1..k : out[i].ok}
           last == CHOOSE k \in fits : \A j \in fits : j <= k
<1>1. Written(out) = [i \in 1..last |-> out[i].bytes]
  BY Zenon DEF Written
<1>2. 0 \in fits /\ fits \in SUBSET (0..n)
  OBVIOUS
<1>3. \E k \in fits : \A j \in fits : j <= k
  <2> HIDE DEF fits
  <2> QED  BY <1>2, LargestNatural
<1>4. last \in fits /\ \A j \in fits : j <= last
  <2> HIDE DEF fits
  <2> QED  BY <1>3, Zenon
<1> HIDE DEF last
<1>5. last \in 0..n /\ \A i \in 1..last : out[i].ok
  BY <1>4
<1>6. ASSUME last < n PROVE ~out[last + 1].ok
  <2> SUFFICES ASSUME out[last + 1].ok PROVE FALSE
    OBVIOUS
  <2>1. last + 1 \in 0..n /\ \A i \in 1..(last + 1) : i \in 1..last \/ i = last + 1
    BY <1>5, <1>6
  <2>2. last + 1 \in fits
    BY <1>5, <2>1
  <2>3. last + 1 <= last
    <3> HIDE DEF fits
    <3> QED  BY <1>4, <2>2
  <2> QED  BY <1>5, <2>3
<1> QED  BY <1>1, <1>5, <1>6

\* It is bytes.
LEMMA WrittenType ==
  ASSUME NEW out, NEW n \in Nat, Len(out) = n, \A i \in 1..n : out[i].ok => out[i].bytes \in Seq(Byte)
  PROVE  Written(out) \in Seq(Seq(Byte))
<1>1. PICK k \in 0..n : /\ Written(out) = [i \in 1..k |-> out[i].bytes]
                        /\ \A i \in 1..k : out[i].ok
  BY WrittenIs
<1>2. \A i \in 1..k : out[i].bytes \in Seq(Byte)
  BY <1>1
<1>3. [i \in 1..k |-> out[i].bytes] \in Seq(Seq(Byte))
  BY <1>2
<1> QED  BY <1>1, <1>3

-----------------------------------------------------------------------------
(* What a client asks, and what is made of it.                              *)

Asking ==
    /\ ask \in [atyp : Forms, bytes : Seq(Byte), port : Nat \cup {NoPort}]
    /\ ask.atyp = "ip4" => Len(ask.bytes) = V4
    /\ ask.atyp = "ip6" => Len(ask.bytes) = V6
    /\ via \in {"socks", "udp"} => ask.port \in 0..(Base * Base - 1) /\ (ask.atyp = "name" => Len(ask.bytes) < Base)

RequestTypes ==
    /\ path \in {"goremote", "worker", "vless", "raw"} /\ data \in Seq(Byte) /\ server \in {Key, Key + 1}
    /\ via \in {"socks", "CONNECT", "GET", "udp"} => Asking

\* A client's request, or its datagram.
LEMMA SaysType ==
  ASSUME Asking, via \in {"socks", "udp"}, NEW head \in Seq(Byte)
  PROVE  Says(head) \in Seq(Byte) /\ Len(Says(head)) > Len(head)
<1> DEFINE t == <<Socks[ask.atyp]>>
           l == IF ask.atyp = "name" THEN <<Len(ask.bytes)>> ELSE <<>>
           p == PutUint16(ask.port)
<1>1. ask.atyp \in Forms /\ ask.bytes \in Seq(Byte) /\ ask.port \in Nat
  BY DEF Asking
<1>2. t \in Seq(Byte) /\ Len(t) = 1
  <2>1. Socks[ask.atyp] \in 0..7
    BY <1>1 DEF Socks, Forms
  <2> QED  BY <2>1, SmallBytes
<1>3. l \in Seq(Byte)
  <2>1. ask.atyp = "name" => Len(ask.bytes) \in Byte
    BY <1>1, FormatsAssumption DEF Asking, Byte
  <2> QED  BY <2>1
<1>4. p \in Seq(Byte)
  BY <1>1, PutUint16Type
<1>5. Says(head) = head \o t \o l \o ask.bytes \o p
  BY Zenon DEF Says
<1> HIDE DEF t, l, p
<1>6. \A a, b \in Seq(Byte) : a \o b \in Seq(Byte) /\ Len(a \o b) = Len(a) + Len(b) /\ Len(a) \in Nat
  OBVIOUS
<1>7. head \o t \in Seq(Byte) /\ Len(head \o t) = Len(head) + 1 /\ Len(head) \in Nat
  BY <1>2, <1>6
<1>8. head \o t \o l \in Seq(Byte) /\ Len(head \o t \o l) >= Len(head) + 1
  <2> DEFINE u == head \o t
  <2> HIDE DEF u
  <2>1. u \o l \in Seq(Byte) /\ Len(u \o l) = Len(u) + Len(l) /\ Len(l) \in Nat
    BY <1>3, <1>6, <1>7 DEF u
  <2> QED  BY <1>7, <2>1 DEF u
<1>9. head \o t \o l \o ask.bytes \in Seq(Byte) /\ Len(head \o t \o l \o ask.bytes) >= Len(head) + 1
  <2> DEFINE u == head \o t \o l
             b == ask.bytes
  <2> HIDE DEF u, b
  <2>1. u \o b \in Seq(Byte) /\ Len(u \o b) = Len(u) + Len(b) /\ Len(u) \in Nat /\ Len(b) \in Nat
    BY <1>1, <1>6, <1>8 DEF u, b
  <2>2. Len(u) >= Len(head) + 1
    BY <1>8 DEF u
  <2>3. u \o b \in Seq(Byte) /\ Len(u \o b) >= Len(head) + 1
    BY <1>7, <2>1, <2>2
  <2> QED  BY <2>3 DEF u, b
<1>10. QED
  <2> DEFINE u == head \o t \o l \o ask.bytes
  <2> HIDE DEF u
  <2>1. u \o p \in Seq(Byte) /\ Len(u \o p) = Len(u) + Len(p) /\ Len(u) \in Nat /\ Len(p) \in Nat
    BY <1>4, <1>6, <1>9 DEF u
  <2>2. Says(head) = u \o p
    BY <1>5 DEF u
  <2>3. Len(u) >= Len(head) + 1
    BY <1>9 DEF u
  <2>4. u \o p \in Seq(Byte) /\ Len(u \o p) > Len(head)
    BY <1>7, <2>1, <2>3
  <2> QED  BY <2>2, <2>4

\* The target.
LEMMA AskedType == ASSUME Asking PROVE Asked.host \in Canonical /\ Asked.port \in Nat \cup {NoPort}
<1>1. HostString(ask.atyp, ask.bytes) \in Canonical
  BY HostStringType DEF Asking
<1>2. ask.port \in Nat \cup {NoPort}
  BY DEF Asking
<1>3. 443 % (Base * Base) \in Nat /\ 80 % (Base * Base) \in Nat
  <2> DEFINE m == Base * Base
  <2>1. m \in Nat /\ m > 0
    BY FormatsAssumption
  <2> HIDE DEF m
  <2>2. 443 % m \in Nat /\ 80 % m \in Nat
    BY <2>1
  <2> QED  BY <2>2 DEF m
<1>4. \A m, h, p : p \in Nat \cup {NoPort} => sniffTargetHTTP(m, h, p) \in Nat \cup {NoPort}
  BY <1>3, Zenon DEF sniffTargetHTTP
<1> QED  BY <1>1, <1>2, <1>4 DEF Asked

\* What is inside the brackets of a name, and a name that is put into them.
LEMMA InsideType ==
  ASSUME NEW n \in Seq(Byte)
  PROVE  Inside(n) \in Seq(Byte) /\ JoinHost(n) \in Seq(Byte)
<1>1. Inside(n) \in Seq(Byte)
  <2>1. CASE InBrackets(n)
    <3>1. Len(n) \in Nat /\ Inside(n) = SubSeq(n, 2, Len(n) - 1)
      BY <2>1 DEF Inside
    <3> QED  BY <3>1
  <2>2. CASE ~InBrackets(n)
    BY <2>2 DEF Inside
  <2> QED  BY <2>1, <2>2
<1>2. <<Open>> \in Seq(Byte) /\ <<Close>> \in Seq(Byte)
  BY SmallBytes DEF Open, Close
<1>3. <<Open>> \o n \o <<Close>> \in Seq(Byte)
  BY <1>2
<1> QED  BY <1>1, <1>3 DEF JoinHost

\* The host that is split off.
LEMMA SplitHostType ==
  ASSUME NEW n \in Seq(Byte), SplitHost(n).ok
  PROVE  SplitHost(n) = [ok |-> TRUE, host |-> HostString("name", Inside(n))] /\ SplitHost(n).host \in Canonical
<1>1. SplitHost(n) = [ok |-> TRUE, host |-> HostString("name", Inside(n))]
  BY DEF SplitHost, Fail
<1>2. HostString("name", Inside(n)) \in Canonical
  <2>1. Inside(n) \in Seq(Byte)
    BY InsideType
  <2> QED  BY <2>1, HostStringType DEF Forms
<1> QED  BY <1>1, <1>2

\* The empty name, which is left when a string cannot be split.
LEMMA NobodyType == Host("name", <<>>) \in Canonical
<1>1. ~Spells(<<>>)
  BY FormatsAssumption DEF Spells
<1> QED  BY <1>1 DEF Host, Canonical, IsCanonical, HostType, Forms

\* A target that is split again.
LEMMA RejoinedType ==
  ASSUME NEW t, t.ok, t.host \in Canonical, t.port \in Nat
  PROVE  Rejoined(t).ok /\ Rejoined(t).host \in Canonical /\ Rejoined(t).port \in Nat
<1> DEFINE s == SplitHost(JoinHost(t.host.bytes))
<1>1. t.host.bytes \in Seq(Byte)
  BY DEF Canonical, HostType
<1>2. s.ok => s.host \in Canonical
  BY <1>1, InsideType, SplitHostType
<1>3. Rejoined(t) = CASE t.host.form # "name" -> t
                      [] t.host.form = "name" /\ s.ok -> [ok |-> TRUE, host |-> s.host, port |-> t.port]
                      [] OTHER -> [ok |-> TRUE, host |-> Host("name", <<>>), port |-> 0]
  BY Zenon DEF Rejoined
<1> HIDE DEF s
<1>4. CASE t.host.form # "name"
  <2>1. Rejoined(t) = t
    BY <1>3, <1>4
  <2> QED  BY <2>1
<1>5. CASE t.host.form = "name" /\ s.ok
  <2>1. Rejoined(t) = [ok |-> TRUE, host |-> s.host, port |-> t.port]
    BY <1>3, <1>5
  <2> QED  BY <1>2, <1>5, <2>1
<1>6. CASE t.host.form = "name" /\ ~s.ok
  <2>1. Rejoined(t) = [ok |-> TRUE, host |-> Host("name", <<>>), port |-> 0]
    BY <1>3, <1>6
  <2> QED  BY NobodyType, <2>1
<1> QED  BY <1>4, <1>5, <1>6

\* The host that the gateway reads in the string of an HTTP target.
LEMMA SpelledHostType ==
  ASSUME NEW h \in Canonical, SpelledHost(h).ok
  PROVE  SpelledHost(h).host \in Canonical
<1>1. h.bytes \in Seq(Byte)
  BY DEF Canonical, HostType
<1>2. CASE h.form = "name"
  <2>1. SpelledHost(h) = SplitHost(h.bytes)
    BY <1>2 DEF SpelledHost
  <2>2. SplitHost(h.bytes).ok
    BY <2>1
  <2> QED  BY <1>1, <2>1, <2>2, SplitHostType
<1>3. CASE h.form # "name"
  BY <1>3 DEF SpelledHost
<1> QED  BY <1>2, <1>3

\* The request that a strategy gets.
LEMMA AsksType ==
  ASSUME Asking, via \in {"socks", "CONNECT", "GET"}, Asks.ok
  PROVE  Asks.bytes \in Seq(Byte)
<1>1. CASE via = "socks"
  <2>1. <<5, CONNECT, 0>> \in Seq(Byte)
    BY SmallBytes DEF CONNECT
  <2>2. Asks.bytes = Says(<<5, CONNECT, 0>>)
    BY <1>1 DEF Asks
  <2> QED  BY <1>1, <2>1, <2>2, SaysType
<1>2. CASE via # "socks"
  <2>1. Asks = dialSocksProxy(Asked.host, Asked.port)
    BY <1>2 DEF Asks
  <2> DEFINE h == Asked.host
             p == Asked.port
             s == SpelledHost(h)
             x == PutAddress(s.host, Socks)
             y == PutUint16(p)
  <2>2. h \in Canonical /\ p \in Nat \cup {NoPort}
    BY AskedType
  <2> HIDE DEF h, p
  <2>6. s.ok /\ p # NoPort
    BY <2>1 DEF dialSocksProxy, Fail, h, p
  <2>7. s.host \in Canonical /\ p \in Nat
    BY <2>2, <2>6, SpelledHostType
  <2>8. s.host \in HostType
    BY <2>7 DEF Canonical
  <2> HIDE DEF s
  <2>3. s.host.form \in DOMAIN Socks
    BY <2>8, TypesAre DEF HostType
  <2>4. x \in Seq(Byte) /\ y \in Seq(Byte) /\ <<5, CONNECT, 0>> \in Seq(Byte)
    BY <2>3, <2>7, <2>8, PutAddressType, PutUint16Type, TypesAre, SmallBytes DEF CONNECT
  <2>5. Asks.bytes = <<5, CONNECT, 0>> \o x \o y
    BY <2>1 DEF dialSocksProxy, Fail, h, p, s
  <2> HIDE DEF x, y
  <2> QED  BY <2>4, <2>5
<1> QED  BY <1>1, <1>2

\* The target that the strategy understands.
LEMMA UnderstandsType ==
  ASSUME Asking, via \in {"socks", "CONNECT", "GET"}, Understands.ok
  PROVE  Understands.host \in Canonical /\ Understands.port \in Nat
<1> DEFINE t == IF ~Asks.ok THEN Fail
                ELSE IF path = "vless" THEN HandshakeSocks5AndGetResponse(Asks.bytes)
                                       ELSE HandshakeWithClient(Asks.bytes)
           s == Drop(Asks.bytes, 3)
<1>0. Understands = IF t.ok THEN Rejoined(t) ELSE Fail
  BY Zenon DEF Understands
<1>1. t.ok /\ Asks.ok
  BY <1>0 DEF Fail
<1>2. s \in Seq(Byte)
  BY <1>1, AsksType, TakeDrop
<1>3. t = GetTarget(s, SocksV4) \/ t = GetTarget(s, Socks)
  BY <1>1 DEF HandshakeWithClient, HandshakeSocks5AndGetResponse, Fail
<1> HIDE DEF s, t
<1>4. t.host \in Canonical /\ t.port \in Nat
  BY <1>1, <1>2, <1>3, GetTargetType, TypesAre
<1>5. Rejoined(t).host \in Canonical /\ Rejoined(t).port \in Nat
  BY <1>1, <1>4, RejoinedType
<1> QED  BY <1>0, <1>1, <1>5

-----------------------------------------------------------------------------
(* What the two ends have to write.                                         *)

\* The packets of a stream, and those of the two ends.
LEMMA StreamType ==
  ASSUME NEW first \in PacketType, data \in Seq(Byte)
  PROVE  Stream(first) \in Seq(PacketType) /\ Len(Stream(first)) = 3
<1>1. /\ [id |-> 9, flag |-> 3, payload |-> data] \in PacketType
      /\ [id |-> 9, flag |-> 5, payload |-> <<>>] \in PacketType
  BY DEF PacketType
<1> QED  BY <1>1 DEF Stream

\* What the strategy writes in packets.
LEMMA UpPacketsType ==
  ASSUME NEW t, t.host \in Canonical, t.port \in Nat, data \in Seq(Byte)
  PROVE  UpPackets(t) \in Seq(PacketType) /\ Len(UpPackets(t)) = 3
<1>1. t.host \in HostType /\ t.host.form \in DOMAIN Socks
  BY TypesAre DEF Canonical, HostType
<1> DEFINE m == buildMetadata(CONNECT, t.host, t.port)
<1>2. m \in Seq(Byte)
  <2>1. <<CONNECT>> \in Seq(Byte) /\ PutAddress(t.host, Socks) \in Seq(Byte) /\ PutUint16(t.port) \in Seq(Byte)
    BY <1>1, SmallBytes, PutAddressType, PutUint16Type, TypesAre DEF CONNECT
  <2> DEFINE x == PutAddress(t.host, Socks)
             y == PutUint16(t.port)
  <2> HIDE DEF x, y
  <2>2. <<CONNECT>> \o x \o y \in Seq(Byte)
    BY <2>1 DEF x, y
  <2> QED  BY <2>2 DEF buildMetadata, x, y
<1>3. UpPackets(t) = Stream([id |-> 9, flag |-> 1, payload |-> m])
  BY DEF UpPackets, buildMetadataForWorker
<1> HIDE DEF m
<1>4. [id |-> 9, flag |-> 1, payload |-> m] \in PacketType
  BY <1>2 DEF PacketType
<1> QED  BY <1>3, <1>4, StreamType

\* What the server writes in packets.
LEMMA DownPacketsType ==
  ASSUME data \in Seq(Byte)
  PROVE  DownPackets \in Seq(PacketType) /\ Len(DownPackets) = 3
<1>1. [id |-> 9, flag |-> 2, payload |-> <<>>] \in PacketType
  BY DEF PacketType
<1> QED  BY <1>1, StreamType DEF DownPackets

\* Packets that are sealed and written.
LEMMA SealedType ==
  ASSUME NEW packets \in Seq(PacketType), NEW key \in Byte
  PROVE  Written(Sealed(packets, key)) \in Seq(Seq(Byte))
<1> DEFINE out == Sealed(packets, key)
           n == Len(packets)
<1>1. out = [i \in 1..n |-> WriteSecurePacket(packets[i], key)] /\ n \in Nat
  BY DEF Sealed
<1>2. Len(out) = n /\ \A i \in 1..n : out[i] = WriteSecurePacket(packets[i], key)
  BY <1>1
<1>3. \A i \in 1..n : packets[i] \in PacketType
  OBVIOUS
<1> HIDE DEF out, n
<1>4. \A i \in 1..n : out[i].ok => out[i].bytes \in Seq(Byte)
  BY <1>2, <1>3, WriteSecurePacketType
<1> QED  BY <1>1, <1>2, <1>4, WrittenType DEF out

\* Packets that are written as they are.
LEMMA PlainType ==
  ASSUME NEW packets \in Seq(PacketType)
  PROVE  Written([i \in DOMAIN packets |-> WritePacket(packets[i])]) \in Seq(Seq(Byte))
<1> DEFINE out == [i \in DOMAIN packets |-> WritePacket(packets[i])]
           n == Len(packets)
<1>1. out = [i \in 1..n |-> WritePacket(packets[i])] /\ n \in Nat
  OBVIOUS
<1>2. Len(out) = n /\ \A i \in 1..n : out[i] = WritePacket(packets[i])
  BY <1>1
<1>3. \A i \in 1..n : packets[i] \in PacketType
  OBVIOUS
<1> HIDE DEF out, n
<1>4. \A i \in 1..n : out[i].ok => out[i].bytes \in Seq(Byte)
  BY <1>2, <1>3, WritePacketType
<1> QED  BY <1>1, <1>2, <1>4, WrittenType DEF out

\* The header of VLESS and the data.
LEMMA EncodeRequestHeaderType ==
  ASSUME NEW host \in Canonical, NEW port \in Nat, EncodeRequestHeader(host, port).ok
  PROVE  EncodeRequestHeader(host, port).bytes \in Seq(Byte)
<1> DEFINE x == PutUint16(port)
           y == PutAddress(host, Vless)
<1>1. EncodeRequestHeader(host, port).bytes = <<Version>> \o UUID \o <<0, CONNECT>> \o x \o y
  BY DEF EncodeRequestHeader, Fail
<1>2. host \in HostType /\ host.form \in DOMAIN Vless
  BY TypesAre DEF Canonical, HostType
<1>3. x \in Seq(Byte) /\ y \in Seq(Byte)
  BY <1>2, PutAddressType, PutUint16Type, TypesAre
<1>4. <<Version>> \in Seq(Byte) /\ UUID \in Seq(Byte) /\ <<0, CONNECT>> \in Seq(Byte)
  BY SmallBytes DEF Version, UUID, CONNECT
<1>5. <<Version>> \o UUID \in Seq(Byte)
  BY <1>4
<1>6. <<Version>> \o UUID \o <<0, CONNECT>> \in Seq(Byte)
  BY <1>4, <1>5
<1> DEFINE z == <<Version>> \o UUID \o <<0, CONNECT>>
<1>7. z \in Seq(Byte)
  BY <1>6
<1> HIDE DEF x, y, z
<1>8. z \o x \o y \in Seq(Byte)
  BY <1>3, <1>7
<1> QED  BY <1>1, <1>8 DEF z

\* The first Writes of VLESS.
LEMMA UpHeaderType ==
  ASSUME NEW t, t.host \in Canonical, t.port \in Nat, data \in Seq(Byte)
  PROVE  UpHeader(t) \in Seq(Seq(Byte))
<1> DEFINE h == EncodeRequestHeader(t.host, t.port)
           a == Take(data, 1)
           b == Drop(data, 1)
<1>1. UpHeader(t) = IF ~h.ok THEN <<>> ELSE <<h.bytes \o a>> \o (IF Len(data) > 1 THEN <<b>> ELSE <<>>)
  BY Zenon DEF UpHeader
<1>2. h.ok => h.bytes \in Seq(Byte)
  BY EncodeRequestHeaderType
<1>3. a \in Seq(Byte) /\ b \in Seq(Byte)
  BY TakeDrop
<1> HIDE DEF h, a, b
<1>4. h.ok => <<h.bytes \o a>> \in Seq(Seq(Byte))
  BY <1>2, <1>3
<1> DEFINE x == <<h.bytes \o a>>
           y == IF Len(data) > 1 THEN <<b>> ELSE <<>>
<1>5. y \in Seq(Seq(Byte))
  BY <1>3
<1> HIDE DEF x, y
<1>6. h.ok => x \o y \in Seq(Seq(Byte))
  BY <1>4, <1>5 DEF x
<1> QED  BY <1>1, <1>6 DEF x, y

\* The keys of the strategy and of the server.
LEMMA KeyTypes == Key \in Byte /\ Key + 1 \in Byte
  BY SmallBytes DEF Key

\* What the strategy has to write, and the server.
LEMMA UpType ==
  ASSUME RequestTypes, via \in {"socks", "CONNECT", "GET"}, Understands.ok
  PROVE  (IF path = "vless" THEN UpHeader(Understands) ELSE Written(Sealed(UpPackets(Understands), Key)))
             \in Seq(Seq(Byte))
<1>1. Understands.host \in Canonical /\ Understands.port \in Nat /\ data \in Seq(Byte)
  BY UnderstandsType DEF RequestTypes
<1>2. UpHeader(Understands) \in Seq(Seq(Byte))
  BY <1>1, UpHeaderType
<1>3. Written(Sealed(UpPackets(Understands), Key)) \in Seq(Seq(Byte))
  BY <1>1, UpPacketsType, SealedType, KeyTypes
<1> QED  BY <1>2, <1>3

\* What the server has to write.
LEMMA DownType == ASSUME RequestTypes PROVE Down \in Seq(Seq(Byte))
<1>1. data \in Seq(Byte) /\ server \in Byte
  BY KeyTypes DEF RequestTypes
<1>2. DownPackets \in Seq(PacketType)
  BY <1>1, DownPacketsType
<1>3. Written(Sealed(DownPackets, server)) \in Seq(Seq(Byte))
  BY <1>1, <1>2, SealedType
<1>4. Written([i \in DOMAIN DownPackets |-> WritePacket(DownPackets[i])]) \in Seq(Seq(Byte))
  BY <1>2, PlainType
<1>5. <<<<Version, 1, 5>>, data>> \in Seq(Seq(Byte))
  <2>1. <<Version, 1, 5>> \in Seq(Byte)
    BY SmallBytes DEF Version
  <2> QED  BY <1>1, <2>1
<1>6. (IF data = <<>> THEN <<>> ELSE <<data, data>>) \in Seq(Seq(Byte))
  BY <1>1
<1>7. CASE path = "goremote"
  BY <1>3, <1>7, Zenon DEF Down
<1>8. CASE path = "worker"
  BY <1>4, <1>8 DEF Down
<1>9. CASE path = "vless"
  BY <1>5, <1>9 DEF Down
<1>10. CASE path \notin {"goremote", "worker", "vless"}
  BY <1>6, <1>10 DEF Down
<1> QED  BY <1>7, <1>8, <1>9, <1>10

-----------------------------------------------------------------------------
(* The connection: its types, and that nothing is lost before it breaks.    *)

ConnectionTypes ==
    /\ todo \in Seq(Seq(Byte)) /\ sent \in Seq(Byte) /\ got \in Seq(Byte)
    /\ net \in Seq(Seq(Seq(Byte))) /\ (kind # "multi" => Single(net))
    /\ cache \in Seq(Bufs(Byte)) /\ (kind = "ws" => Len(cache) <= 1)
    /\ alloc \in 1..MaxAlloc /\ ended \in {"no", "eof", "error"}

\* What the reading end holds and what is on its way to it.
Held == Content(cache) \o Way(net)

Flow == \E lost \in Seq(Byte) : /\ sent = got \o (Held \o lost)
                                /\ wire # "broken" => lost = <<>>

\* A step of the reading end: bytes that were held are read.
Moves(x) == /\ x \in Seq(Byte) /\ got' = got \o x
            /\ Held = x \o Held' /\ Held' \in Seq(Byte)

\* The bytes that are held.
LEMMA HeldType == ASSUME ConnectionTypes PROVE Content(cache) \in Seq(Byte) /\ Way(net) \in Seq(Byte) /\ Held \in Seq(Byte)
<1>1. Content(cache) \in Seq(Byte) /\ Way(net) \in Seq(Byte)
  BY ContentType, WayType DEF ConnectionTypes
<1> DEFINE a == Content(cache)
           b == Way(net)
<1> HIDE DEF a, b
<1>2. a \o b \in Seq(Byte)
  BY <1>1 DEF a, b
<1> QED  BY <1>1, <1>2 DEF Held, a, b

\* A sequence of one element.
LEMMA OneElement == ASSUME NEW T, NEW h \in Seq(T), Len(h) = 1 PROVE h[1] \in T /\ h = <<h[1]>>
  OBVIOUS

\* A message of a single string.
LEMMA SingleHead ==
  ASSUME NEW S, NEW n \in Seq(Seq(Seq(S))), n # <<>>, Single(n)
  PROVE  /\ Head(n)[1] \in Seq(S) /\ Tail(n) \in Seq(Seq(Seq(S))) /\ Single(Tail(n))
         /\ Way(n) = Head(n)[1] \o Way(Tail(n))
<1>1. Len(n) \in Nat \ {0} /\ 1 \in DOMAIN n /\ Head(n) = n[1]
  OBVIOUS
<1>2. Head(n) \in Seq(Seq(S)) /\ Tail(n) \in Seq(Seq(Seq(S))) /\ Way(n) = FlattenSeq(Head(n)) \o Way(Tail(n))
  BY WayHead
<1>3. Len(Head(n)) = 1
  BY <1>1 DEF Single
<1> DEFINE h == Head(n)
<1>4. h \in Seq(Seq(S)) /\ Len(h) = 1
  BY <1>2, <1>3
<1> HIDE DEF h
<1>5. h[1] \in Seq(S) /\ h = <<h[1]>>
  BY <1>4, OneElement, Zenon
<1>6. FlattenSeq(h) = h[1]
  BY <1>5, FlattenOne
<1>7. Single(Tail(n))
  <2>1. \A i \in DOMAIN Tail(n) : i + 1 \in DOMAIN n /\ Tail(n)[i] = n[i + 1]
    BY <1>1
  <2> QED  BY <2>1 DEF Single
<1> QED  BY <1>2, <1>5, <1>6, <1>7 DEF h

\* Messages of a single string, behind others.
LEMMA SingleConcat ==
  ASSUME NEW T, NEW a \in Seq(T), NEW b \in Seq(T), Single(a), Single(b)
  PROVE  Single(a \o b)
<1>1. ASSUME NEW i \in DOMAIN (a \o b) PROVE Len((a \o b)[i]) = 1
  <2>1. i \in 1..(Len(a) + Len(b)) /\ Len(a) \in Nat /\ Len(b) \in Nat
    OBVIOUS
  <2>2. CASE i <= Len(a)
    <3>1. i \in DOMAIN a /\ (a \o b)[i] = a[i]
      BY <2>1, <2>2
    <3> QED  BY <3>1 DEF Single
  <2>3. CASE ~(i <= Len(a))
    <3>1. i - Len(a) \in DOMAIN b /\ (a \o b)[i] = b[i - Len(a)]
      BY <2>1, <2>3
    <3> QED  BY <3>1 DEF Single
  <2> QED  BY <2>2, <2>3
<1> QED  BY <1>1 DEF Single

\* A Buffer around a slice.
LEMMA HoldsIs ==
  ASSUME NEW S, NEW b \in Seq(S)
  PROVE  /\ NewExisted(b) \in Bufs(S) /\ NewExisted(b).bytes = b
         /\ Holds(b) \in Seq(Bufs(S)) /\ Content(Holds(b)) = b /\ Len(Holds(b)) <= 1
<1>1. NewExisted(b) \in Bufs(S) /\ NewExisted(b).bytes = b
  <2>1. Len(b) \in Nat /\ Size \in Nat
    BY SizeAssumption
  <2> QED  BY <2>1 DEF NewExisted, Bufs
<1> DEFINE e == NewExisted(b)
<1> HIDE DEF e
<1>2. <<e>> \in Seq(Bufs(S)) /\ Len(<<e>>) = 1 /\ Content(<<e>>) = b
  BY <1>1, ContentOne DEF e
<1>3. CASE b = <<>>
  <2>1. Holds(b) = <<>> /\ <<>> \in Seq(Bufs(S)) /\ Len(<<>>) = 0
    BY <1>3 DEF Holds
  <2>2. Content(Holds(b)) = b
    BY <1>3, <2>1, ContentNone, Zenon
  <2>3. Len(Holds(b)) <= 1
    BY <2>1
  <2> QED  BY <1>1, <2>1, <2>2, <2>3
<1>4. CASE b # <<>>
  <2>1. Holds(b) = <<e>>
    BY <1>4 DEF Holds, e
  <2> QED  BY <1>1, <1>2, <2>1
<1> QED  BY <1>3, <1>4

\* What is read of what comes first leaves the rest.
LEMMA Rest ==
  ASSUME NEW S, NEW x \in Seq(S), NEW y \in Seq(S), NEW z \in Seq(S), NEW a, a = x \o y
  PROVE  a \o z = x \o (y \o z) /\ y \o z \in Seq(S)
  OBVIOUS

\* A Read of the WebSocket adapter: of what is left of a message, or of the next.
LEMMA AdapterMoves ==
  ASSUME ConnectionTypes, NEW n \in ReadSizes, ReadAdapter(n)
  PROVE  ConnectionTypes' /\ \E x : Moves(x)
<1> DEFINE held == Content(cache)
           d == IF held = <<>> THEN Head(net)[1] ELSE held
           rest == Drop(d, Fewer(n, Len(d)))
<1>1. /\ kind = "adapter" /\ (held # <<>> \/ net # <<>>)
      /\ net' = IF held = <<>> THEN Tail(net) ELSE net
      /\ IF d = <<>> THEN ended' = "eof" /\ UNCHANGED <<got, cache>>
         ELSE got' = got \o Take(d, n) /\ cache' = Holds(rest) /\ UNCHANGED ended
      /\ UNCHANGED <<alloc, kind, foreign, todo, sent, wire>>
  BY Zenon DEF ReadAdapter, Same
<1>2. n \in Nat /\ Single(net) /\ got \in Seq(Byte) /\ net \in Seq(Seq(Seq(Byte)))
  BY <1>1, ConnectionsAssumption DEF ConnectionTypes
<1>3. held \in Seq(Byte) /\ Way(net) \in Seq(Byte)
  BY HeldType
<1>4. /\ d \in Seq(Byte) /\ net' \in Seq(Seq(Seq(Byte))) /\ Single(net') /\ Way(net') \in Seq(Byte)
      /\ Held = d \o Way(net')
  <2>1. CASE held = <<>>
    <3>1. net # <<>> /\ d = Head(net)[1] /\ net' = Tail(net)
      BY <1>1, <2>1
    <3>2. /\ Head(net)[1] \in Seq(Byte) /\ Tail(net) \in Seq(Seq(Seq(Byte))) /\ Single(Tail(net))
          /\ Way(net) = Head(net)[1] \o Way(Tail(net))
      BY <1>2, <3>1, SingleHead, Zenon
    <3>3. Held = Way(net)
      BY <1>3, <2>1 DEF Held
    <3> QED  BY <3>1, <3>2, <3>3, WayType, Zenon
  <2>2. CASE held # <<>>
    <3>1. d = held /\ net' = net
      BY <1>1, <2>2
    <3> QED  BY <1>2, <1>3, <3>1 DEF Held
  <2> QED  BY <2>1, <2>2
<1>5. Take(d, n) \in Seq(Byte) /\ rest \in Seq(Byte) /\ d = Take(d, n) \o rest
  <2>1. Take(d, n) \in Seq(Byte) /\ Drop(d, n) \in Seq(Byte) /\ Take(d, n) \o Drop(d, n) = d
    BY <1>2, <1>4, TakeDrop
  <2>2. Drop(d, Fewer(n, Len(d))) = Drop(d, n)
    <3> HIDE DEF d
    <3>1. CASE n < Len(d)
      BY <3>1 DEF Fewer
    <3>2. CASE ~(n < Len(d))
      <4>1. Fewer(n, Len(d)) = Len(d) /\ Len(d) \in Nat /\ Len(d) <= n
        BY <1>2, <1>4, <3>2 DEF Fewer
      <4>2. Drop(d, Len(d)) = <<>> /\ Drop(d, n) = <<>>
        BY <1>2, <1>4, <4>1, TakeAll
      <4> QED  BY <4>1, <4>2
    <3> QED  BY <3>1, <3>2
  <2> QED  BY <2>1, <2>2
<1> HIDE DEF held, rest
<1>6. CASE d = <<>>
  <2>1. Held = Way(net') /\ Held' = Held /\ <<>> \o Held = Held /\ Held \in Seq(Byte)
    <3>1. Held = Way(net')
      BY <1>4, <1>6
    <3>2. cache' = cache
      BY <1>1, <1>6
    <3>3. held = <<>>
      BY <1>6 DEF held
    <3>4. Held' = Way(net')
      BY <1>4, <3>2, <3>3 DEF Held, held
    <3> QED  BY <1>4, <3>1, <3>4
  <2>2. got' = got \o <<>> /\ <<>> \in Seq(Byte)
    BY <1>1, <1>2, <1>6
  <2>3. Moves(<<>>)
    BY <2>1, <2>2 DEF Moves
  <2>4. ConnectionTypes'
    <3> HIDE DEF d
    <3> QED  BY <1>1, <1>4, <1>6 DEF ConnectionTypes
  <2> QED  BY <2>3, <2>4
<1>7. CASE d # <<>>
  <2> HIDE DEF d
  <2>1. got' = got \o Take(d, n) /\ cache' = Holds(rest) /\ UNCHANGED ended
    BY <1>1, <1>7
  <2>2. Holds(rest) \in Seq(Bufs(Byte)) /\ Content(Holds(rest)) = rest
    BY <1>5, HoldsIs
  <2>3. Held' = rest \o Way(net')
    BY <2>1, <2>2 DEF Held
  <2>4. d \o Way(net') = Take(d, n) \o (rest \o Way(net')) /\ rest \o Way(net') \in Seq(Byte)
    <3> DEFINE x == Take(d, n)
               z == Way(net')
    <3>1. x \in Seq(Byte) /\ rest \in Seq(Byte) /\ z \in Seq(Byte) /\ d = x \o rest
      BY <1>4, <1>5
    <3> HIDE DEF x, z
    <3>2. d \o z = x \o (rest \o z) /\ rest \o z \in Seq(Byte)
      BY <3>1, Rest
    <3> QED  BY <3>2 DEF x, z
  <2>5. Moves(Take(d, n))
    BY <1>4, <1>5, <2>1, <2>3, <2>4 DEF Moves
  <2>6. got' \in Seq(Byte)
    BY <1>2, <1>5, <2>1
  <2>7. ConnectionTypes'
    BY <1>1, <1>4, <2>1, <2>2, <2>6 DEF ConnectionTypes
  <2> QED  BY <2>5, <2>7
<1> QED  BY <1>6, <1>7

\* A Read of VLESS over WebSocket: of the message that is being read, or past its end.
LEMMA WsMoves ==
  ASSUME ConnectionTypes, NEW n \in ReadSizes, ReadWs(n)
  PROVE  ConnectionTypes' /\ \E x : Moves(x)
<1>1. /\ kind = "ws" /\ cache # <<>>
      /\ IF IsEmpty(Head(cache)) THEN cache' = <<>> /\ UNCHANGED got
         ELSE got' = got \o Take(Head(cache).bytes, n) /\ cache' = <<Read(Head(cache), n)>>
      /\ UNCHANGED <<net, alloc, ended, kind, foreign, todo, sent, wire>>
  BY Zenon DEF ReadWs, Same
<1>2. n \in Nat /\ got \in Seq(Byte) /\ cache \in Seq(Bufs(Byte)) /\ Len(cache) <= 1
  BY <1>1, ConnectionsAssumption DEF ConnectionTypes
<1>3. Way(net) \in Seq(Byte) /\ Held \in Seq(Byte)
  BY HeldType
<1> DEFINE b == Head(cache)
           x == IF IsEmpty(b) THEN <<>> ELSE Take(b.bytes, n)
           r == IF IsEmpty(b) THEN <<>> ELSE Read(b, n).bytes
<1>4. b \in Bufs(Byte) /\ cache = <<b>>
  <2>1. Len(cache) \in Nat /\ Len(cache) # 0
    BY <1>1, <1>2
  <2>2. Len(cache) = 1
    <3> DEFINE k == Len(cache)
    <3>1. k \in Nat /\ k # 0 /\ k <= 1
      BY <1>2, <2>1
    <3> HIDE DEF k
    <3>2. k = 1
      BY <3>1
    <3> QED  BY <3>2 DEF k
  <2>3. cache[1] \in Bufs(Byte) /\ cache = <<cache[1]>>
    BY <1>2, <2>2, OneElement, Zenon
  <2>4. b = cache[1]
    BY <2>3
  <2> QED  BY <2>3, <2>4
<1>5. b.bytes \in Seq(Byte) /\ Content(cache) = b.bytes
  <2>1. b.bytes \in Seq(Byte)
    BY <1>4 DEF Bufs
  <2> QED  BY <1>4, <2>1, ContentOne, Zenon
<1> HIDE DEF b
<1>6. Read(b, n) \in Bufs(Byte) /\ Take(b.bytes, n) \in Seq(Byte) /\ Take(b.bytes, n) \o Read(b, n).bytes = b.bytes
  BY <1>2, <1>4, ReadBuffer
<1>7. x \in Seq(Byte) /\ r \in Seq(Byte) /\ b.bytes = x \o r
  <2>1. CASE IsEmpty(b)
    BY <2>1 DEF IsEmpty
  <2>2. CASE ~IsEmpty(b)
    <3>1. Read(b, n).bytes \in Seq(Byte)
      BY <1>6 DEF Bufs
    <3> QED  BY <1>6, <2>2, <3>1
  <2> QED  BY <2>1, <2>2
<1>8. got' = got \o x /\ Content(cache') = r /\ cache' \in Seq(Bufs(Byte)) /\ Len(cache') <= 1
  <2>1. CASE IsEmpty(b)
    <3>1. cache' = <<>> /\ got' = got
      BY <1>1, <2>1 DEF b
    <3>2. Content(cache') = <<>>
      BY <3>1, ContentNone, Zenon
    <3>3. got \o <<>> = got
      BY <1>2
    <3>4. x = <<>> /\ r = <<>> /\ <<>> \in Seq(Bufs(Byte)) /\ Len(<<>>) = 0
      BY <2>1
    <3> HIDE DEF x, r
    <3> QED  BY <3>1, <3>2, <3>3, <3>4
  <2>2. CASE ~IsEmpty(b)
    <3>1. got' = got \o Take(b.bytes, n) /\ cache' = <<Read(b, n)>>
      BY <1>1, <2>2 DEF b
    <3> DEFINE w == Read(b, n)
    <3> HIDE DEF w
    <3>2. <<w>> \in Seq(Bufs(Byte)) /\ Len(<<w>>) = 1 /\ Content(<<w>>) = w.bytes
      BY <1>6, ContentOne DEF w
    <3> QED  BY <2>2, <3>1, <3>2 DEF w
  <2> QED  BY <2>1, <2>2
<1> HIDE DEF x, r
<1>9. Held' = r \o Way(net)
  BY <1>1, <1>8 DEF Held
<1>10. b.bytes \o Way(net) = x \o (r \o Way(net)) /\ r \o Way(net) \in Seq(Byte)
  <2> DEFINE z == Way(net)
             a == b.bytes
  <2>1. z \in Seq(Byte) /\ a = x \o r
    BY <1>3, <1>7
  <2> HIDE DEF z, a
  <2>2. a \o z = x \o (r \o z) /\ r \o z \in Seq(Byte)
    BY <1>7, <2>1, Rest
  <2> QED  BY <2>2 DEF z, a
<1>11. Moves(x)
  <2>1. Held = b.bytes \o Way(net)
    BY <1>5 DEF Held
  <2> QED  BY <1>7, <1>8, <1>9, <1>10, <2>1 DEF Moves
<1>12. got' \in Seq(Byte)
  BY <1>2, <1>7, <1>8
<1>13. ConnectionTypes'
  BY <1>1, <1>8, <1>12 DEF ConnectionTypes
<1> QED  BY <1>11, <1>13

\* The next message is got.
LEMMA ReaderMoves ==
  ASSUME ConnectionTypes, getReader
  PROVE  ConnectionTypes' /\ \E x : Moves(x)
<1>1. /\ kind = "ws" /\ cache = <<>> /\ net # <<>>
      /\ cache' = <<NewExisted(Head(net)[1])>> /\ net' = Tail(net)
      /\ UNCHANGED <<got, alloc, ended, kind, foreign, todo, sent, wire>>
  BY Zenon DEF getReader, Same
<1>2. Single(net) /\ got \in Seq(Byte) /\ net \in Seq(Seq(Seq(Byte)))
  BY <1>1 DEF ConnectionTypes
<1> DEFINE h == Head(net)[1]
           e == NewExisted(h)
<1>3. /\ h \in Seq(Byte) /\ Tail(net) \in Seq(Seq(Seq(Byte))) /\ Single(Tail(net))
      /\ Way(net) = h \o Way(Tail(net))
  BY <1>1, <1>2, SingleHead, Zenon
<1> HIDE DEF h
<1>4. e \in Bufs(Byte) /\ e.bytes = h
  BY <1>3, HoldsIs
<1>5. cache' = <<e>>
  BY <1>1 DEF h
<1> HIDE DEF e
<1>6. cache' \in Seq(Bufs(Byte)) /\ Len(cache') <= 1 /\ Content(cache') = h
  BY <1>4, <1>5, ContentOne
<1>7. Content(cache) = <<>>
  BY <1>1, ContentNone, Zenon
<1>8. Held = Way(net) /\ Held \in Seq(Byte)
  BY <1>7, HeldType DEF Held
<1>9. Held' = h \o Way(Tail(net))
  BY <1>1, <1>6 DEF Held
<1>10. Moves(<<>>)
  <2>1. got' = got \o <<>> /\ <<>> \in Seq(Byte) /\ Held = <<>> \o Held
    BY <1>1, <1>2, <1>8
  <2> QED  BY <1>3, <1>8, <1>9, <2>1 DEF Moves
<1>11. ConnectionTypes'
  BY <1>1, <1>3, <1>6 DEF ConnectionTypes
<1> QED  BY <1>10, <1>11

-----------------------------------------------------------------------------
(* The BufferedReader.                                                      *)

\* What the underlying reader offers: Buffers with the first of the bytes on their way.
Offers(f) == /\ f.mb \in Seq(Bufs(Byte)) /\ f.net \in Seq(Seq(Seq(Byte))) /\ (kind # "multi" => Single(f.net))
             /\ f.alloc \in 1..MaxAlloc
             /\ Held = Content(f.mb) \o Way(f.net)

\* ReadVReader stays within its eight Buffers.
LEMMA AdjustType ==
  ASSUME NEW c \in 1..MaxAlloc, NEW n \in Nat
  PROVE  Adjust(c, n) \in 1..MaxAlloc
<1> DEFINE next == Fewer(IF n >= c THEN 2 * c ELSE n, MaxAlloc)
<1>1. next \in 0..MaxAlloc
  BY DEF Fewer, MaxAlloc
<1>2. Adjust(c, n) = IF next = 0 THEN 1 ELSE next
  BY Zenon DEF Adjust
<1> HIDE DEF next
<1> QED  BY <1>1, <1>2 DEF MaxAlloc

\* A message of HunkReaderWriter.
LEMMA HunkOffers ==
  ASSUME ConnectionTypes, Content(cache) = <<>>, net # <<>>, kind = "hunk", NEW f \in FetchHunk
  PROVE  Offers(f)
<1> DEFINE h == Head(net)[1]
<1>1. f = [mb |-> Holds(h), net |-> Tail(net), alloc |-> alloc]
  BY DEF FetchHunk, Fetched
<1>2. /\ h \in Seq(Byte) /\ Tail(net) \in Seq(Seq(Seq(Byte))) /\ Single(Tail(net))
      /\ Way(net) = h \o Way(Tail(net))
  BY SingleHead, Zenon DEF ConnectionTypes
<1> HIDE DEF h
<1>3. Holds(h) \in Seq(Bufs(Byte)) /\ Content(Holds(h)) = h
  BY <1>2, HoldsIs
<1>4. Held = Way(net)
  BY HeldType DEF Held
<1>5. f.mb = Holds(h) /\ f.net = Tail(net) /\ f.alloc = alloc
  BY <1>1
<1> QED  BY <1>2, <1>3, <1>4, <1>5 DEF Offers, ConnectionTypes

\* A message of MultiHunkReaderWriter, without its empty Buffers.
LEMMA MultiHunkOffers ==
  ASSUME ConnectionTypes, Content(cache) = <<>>, net # <<>>, kind = "multi", NEW f \in FetchMultiHunk
  PROVE  Offers(f)
<1> DEFINE full == NotEmpty(Head(net))
           mb == [i \in DOMAIN full |-> NewExisted(full[i])]
<1>1. f = [mb |-> mb, net |-> Tail(net), alloc |-> alloc]
  BY DEF FetchMultiHunk, Fetched
<1>2. /\ Head(net) \in Seq(Seq(Byte)) /\ Tail(net) \in Seq(Seq(Seq(Byte)))
      /\ Way(net) = FlattenSeq(Head(net)) \o Way(Tail(net))
  BY WayHead, Zenon DEF ConnectionTypes
<1>3. full \in Seq(Seq(Byte)) /\ FlattenSeq(full) = FlattenSeq(Head(net))
  BY <1>2, NotEmptyKeeps
<1> HIDE DEF full
<1>4. DOMAIN full = 1..Len(full) /\ Len(full) \in Nat /\ \A i \in 1..Len(full) : full[i] \in Seq(Byte)
  BY <1>3
<1>5. \A i \in 1..Len(full) : NewExisted(full[i]) \in Bufs(Byte) /\ NewExisted(full[i]).bytes = full[i]
  BY <1>4, HoldsIs
<1>6. mb \in Seq(Bufs(Byte)) /\ DOMAIN mb = 1..Len(full) /\ \A i \in 1..Len(full) : mb[i].bytes = full[i]
  BY <1>4, <1>5
<1> HIDE DEF mb
<1>7. SplitFirsts(mb) = full
  <2>1. SplitFirsts(mb) = [i \in 1..Len(full) |-> full[i]]
    BY <1>6 DEF SplitFirsts
  <2>2. full = [i \in 1..Len(full) |-> full[i]]
    BY <1>3
  <2> QED  BY <2>1, <2>2
<1>8. Content(mb) = FlattenSeq(Head(net))
  BY <1>3, <1>7 DEF Content
<1>9. Held = Way(net)
  BY HeldType DEF Held
<1>10. f.mb = mb /\ f.net = Tail(net) /\ f.alloc = alloc
  BY <1>1
<1> QED  BY <1>2, <1>6, <1>8, <1>9, <1>10 DEF Offers, ConnectionTypes

\* What ReadVReader has read.
LEMMA TcpOffers ==
  ASSUME ConnectionTypes, Content(cache) = <<>>, net # <<>>, kind = "tcp", NEW f \in FetchTcp
  PROVE  Offers(f)
<1> DEFINE come == Way(net)
           mb(n) == InNewBuffers(Take(come, n))
           next(n) == IF n = Len(come) THEN <<>> ELSE <<<<Drop(come, n)>>>>
           now(n) == IF alloc = 1 /\ n < Size THEN 1 ELSE Adjust(alloc, Len(mb(n)))
<1>1. \E n \in {1, Fewer(Len(come), alloc * Size)} : f = [mb |-> mb(n), net |-> next(n), alloc |-> now(n)]
  BY Zenon DEF FetchTcp, Way
<1>2. PICK n \in {1, Fewer(Len(come), alloc * Size)} : f = [mb |-> mb(n), net |-> next(n), alloc |-> now(n)]
  BY <1>1
<1>3. come \in Seq(Byte) /\ Held = come
  BY HeldType DEF Held
<1>4. n \in Nat
  <2>1. alloc \in Nat /\ Size \in Nat /\ Len(come) \in Nat
    BY <1>3, SizeAssumption DEF ConnectionTypes
  <2>2. alloc * Size \in Nat
    BY <2>1
  <2> QED  BY <2>1, <2>2 DEF Fewer
<1> HIDE DEF come
<1>5. Take(come, n) \in Seq(Byte) /\ Drop(come, n) \in Seq(Byte) /\ Take(come, n) \o Drop(come, n) = come
  BY <1>3, <1>4, TakeDrop
<1>6. mb(n) \in Seq(Bufs(Byte)) /\ Content(mb(n)) = Take(come, n)
  BY <1>5, InNewBuffersContent, FilledAre
<1>7. now(n) \in 1..MaxAlloc
  <2>1. Len(mb(n)) \in Nat /\ alloc \in 1..MaxAlloc
    BY <1>6 DEF ConnectionTypes
  <2>2. Adjust(alloc, Len(mb(n))) \in 1..MaxAlloc
    BY <2>1, AdjustType
  <2> HIDE DEF mb
  <2> QED  BY <2>2 DEF MaxAlloc
<1>8. next(n) \in Seq(Seq(Seq(Byte))) /\ Single(next(n)) /\ Way(next(n)) = Drop(come, n)
  <2>1. CASE n = Len(come)
    <3>1. Drop(come, n) = <<>>
      BY <1>3, <1>4, <2>1, TakeAll
    <3>2. next(n) = <<>> /\ <<>> \in Seq(Seq(Seq(Byte))) /\ Single(<<>>)
      BY <2>1 DEF Single
    <3> QED  BY <3>1, <3>2, WayNone
  <2>2. CASE n # Len(come)
    <3>1. next(n) = WriteMessage(Drop(come, n))
      BY <2>2 DEF WriteMessage
    <3> HIDE DEF next
    <3> QED  BY <1>5, <3>1, MessageWay
  <2> QED  BY <2>1, <2>2
<1> HIDE DEF mb, next, now
<1>9. f.mb = mb(n) /\ f.net = next(n) /\ f.alloc = now(n)
  BY <1>2
<1> QED  BY <1>3, <1>5, <1>6, <1>7, <1>8, <1>9 DEF Offers

\* What a BufferedReader reads from, in either case.
LEMMA AvailableOffers ==
  ASSUME ConnectionTypes, NEW f \in Available
  PROVE  Offers(f)
<1>1. CASE ~MultiIsEmpty(cache)
  <2>1. f = [mb |-> cache, net |-> net, alloc |-> alloc]
    BY <1>1 DEF Available
  <2>2. f.mb = cache /\ f.net = net /\ f.alloc = alloc
    BY <2>1
  <2> QED  BY <2>2 DEF Offers, ConnectionTypes, Held
<1>2. CASE MultiIsEmpty(cache)
  <2>1. Content(cache) = <<>>
    BY <1>2, ContentEmpty DEF ConnectionTypes
  <2>2. net # <<>> /\ f \in (CASE kind = "tcp" -> FetchTcp
                               [] kind = "hunk" -> FetchHunk
                               [] kind = "multi" -> FetchMultiHunk
                               [] OTHER -> {})
    BY <1>2 DEF Available
  <2>3. CASE kind = "tcp"
    <3>1. f \in FetchTcp
      BY <2>2, <2>3
    <3> QED  BY <2>1, <2>2, <2>3, <3>1, TcpOffers
  <2>4. CASE kind = "hunk"
    <3>1. f \in FetchHunk
      BY <2>2, <2>4
    <3> QED  BY <2>1, <2>2, <2>4, <3>1, HunkOffers
  <2>5. CASE kind = "multi"
    <3>1. f \in FetchMultiHunk
      BY <2>2, <2>5
    <3> QED  BY <2>1, <2>2, <2>5, <3>1, MultiHunkOffers
  <2>6. CASE kind \notin {"tcp", "hunk", "multi"}
    BY <2>2, <2>6
  <2> QED  BY <2>3, <2>4, <2>5, <2>6
<1> QED  BY <1>1, <1>2

\* A Read of the BufferedReader, which keeps what does not fit into the slice.
LEMMA BufferedMoves ==
  ASSUME ConnectionTypes, NEW n \in ReadSizes, ReadBuffered(n)
  PROVE  ConnectionTypes' /\ \E x : Moves(x)
<1>1. PICK f \in Available :
          LET split == SplitBytes(f.mb, n) IN
          /\ got' = got \o split.got /\ net' = f.net /\ alloc' = f.alloc
          /\ cache' = IF MultiIsEmpty(split.left) THEN <<>> ELSE split.left
  BY DEF ReadBuffered
<1>2. kind \in {"hunk", "multi", "tcp"} /\ UNCHANGED <<ended, kind, foreign, todo, sent, wire>>
  BY DEF ReadBuffered, Same
<1>3. Offers(f)
  BY AvailableOffers
<1> DEFINE x == SplitBytes(f.mb, n).got
           left == SplitBytes(f.mb, n).left
<1>4. got' = got \o x /\ net' = f.net /\ alloc' = f.alloc /\ cache' = IF MultiIsEmpty(left) THEN <<>> ELSE left
  BY <1>1
<1>5. x \in Seq(Byte) /\ left \in Seq(Bufs(Byte)) /\ x \o Content(left) = Content(f.mb)
  BY <1>3, ConnectionsAssumption, SplitKeeps DEF Offers
<1> HIDE DEF x, left
<1>6. cache' \in Seq(Bufs(Byte)) /\ Content(cache') = Content(left)
  <2>1. CASE MultiIsEmpty(left)
    <3>1. cache' = <<>> /\ <<>> \in Seq(Bufs(Byte))
      BY <1>4, <2>1
    <3>2. Content(left) = <<>> /\ Content(<<>>) = <<>>
      BY <1>5, <2>1, ContentEmpty, ContentNone
    <3> QED  BY <3>1, <3>2
  <2>2. CASE ~MultiIsEmpty(left)
    BY <1>4, <1>5, <2>2
  <2> QED  BY <2>1, <2>2
<1>7. Held' = Content(left) \o Way(f.net)
  BY <1>4, <1>6 DEF Held
<1>8. Held = x \o Held' /\ Held' \in Seq(Byte)
  <2> DEFINE y == Content(left)
             z == Way(f.net)
             a == Content(f.mb)
  <2>1. y \in Seq(Byte) /\ z \in Seq(Byte) /\ a = x \o y /\ Held = a \o z
    BY <1>3, <1>5, ContentType, WayType DEF Offers
  <2> HIDE DEF a, y, z
  <2>2. a \o z = x \o (y \o z) /\ y \o z \in Seq(Byte)
    <3>1. x \in Seq(Byte) /\ y \in Seq(Byte) /\ z \in Seq(Byte) /\ a = x \o y
      BY <1>5, <2>1
    <3> QED  BY <3>1, SMTT(30)
  <2> QED  BY <1>7, <2>1, <2>2 DEF y, z
<1>9. Moves(x)
  BY <1>4, <1>5, <1>8 DEF Moves
<1>10. got \in Seq(Byte)
  BY DEF ConnectionTypes
<1>11. got' \in Seq(Byte)
  BY <1>4, <1>5, <1>10
<1>12. ConnectionTypes'
  BY <1>2, <1>3, <1>4, <1>6, <1>11 DEF ConnectionTypes, Offers
<1> QED  BY <1>9, <1>12

\* Its ReadMultiBuffer, which keeps nothing.
LEMMA MultiBufferMoves ==
  ASSUME ConnectionTypes, ReadMultiBuffer
  PROVE  ConnectionTypes' /\ \E x : Moves(x)
<1>1. PICK f \in Available : got' = got \o Content(f.mb) /\ net' = f.net /\ alloc' = f.alloc
  BY DEF ReadMultiBuffer
<1>2. kind \in {"hunk", "multi", "tcp"} /\ cache' = <<>> /\ UNCHANGED <<ended, kind, foreign, todo, sent, wire>>
  BY DEF ReadMultiBuffer, Same
<1>3. Offers(f)
  BY AvailableOffers
<1>4. Content(f.mb) \in Seq(Byte) /\ Way(f.net) \in Seq(Byte)
  BY <1>3, ContentType, WayType DEF Offers
<1>5. Held' = Way(net')
  <2>1. Content(cache') = <<>>
    BY <1>2, ContentNone, Zenon
  <2>2. <<>> \o Way(f.net) = Way(f.net)
    BY <1>4
  <2> QED  BY <1>1, <2>1, <2>2 DEF Held
<1>6. Moves(Content(f.mb))
  BY <1>1, <1>3, <1>4, <1>5 DEF Moves, Offers
<1>7. got \in Seq(Byte)
  BY DEF ConnectionTypes
<1>8. got' \in Seq(Byte)
  BY <1>1, <1>4, <1>7
<1>9. cache' \in Seq(Bufs(Byte))
  BY <1>2
<1>10. ConnectionTypes'
  BY <1>1, <1>2, <1>3, <1>8, <1>9 DEF ConnectionTypes, Offers
<1> QED  BY <1>6, <1>10

-----------------------------------------------------------------------------
(* The invariant, TypeOK and the refinement.                                *)

Inv == ConnectionTypes /\ Flow /\ RequestTypes

eof == ended = "eof"

\* How the bytes regroup when some are read, and when some are written.
Regrouped(S, g, h, x, h2, l) ==
    g \o (h \o l) = (g \o x) \o (h2 \o l) /\ g \o x \in Seq(S) /\ h2 \o l \in Seq(S)

\* What is read moves from the front of what is held to the end of what was got.
LEMMA Moved ==
  ASSUME NEW S, NEW g \in Seq(S), NEW h, NEW x \in Seq(S), NEW h2 \in Seq(S), NEW l \in Seq(S), h = x \o h2
  PROVE  Regrouped(S, g, h, x, h2, l)
<1>1. (x \o h2) \o l = x \o (h2 \o l) /\ h2 \o l \in Seq(S)
  OBVIOUS
<1> DEFINE y == h2 \o l
<1>2. y \in Seq(S)
  BY <1>1
<1> HIDE DEF y
<1>3. g \o (x \o y) = (g \o x) \o y /\ g \o x \in Seq(S)
  BY <1>2, SMTT(30)
<1> QED  BY <1>1, <1>2, <1>3 DEF y, Regrouped

Behind(S, g, c, w, b) ==
    /\ (g \o (c \o w)) \o b = g \o ((c \o (w \o b)) \o <<>>)
    /\ g \o (c \o w) \in Seq(S) /\ (g \o (c \o w)) \o b \in Seq(S)

\* What is written goes to the end of what is on its way.
LEMMA Put ==
  ASSUME NEW S, NEW g \in Seq(S), NEW c \in Seq(S), NEW w \in Seq(S), NEW b \in Seq(S)
  PROVE  Behind(S, g, c, w, b)
<1> DEFINE h == c \o w
<1>1. h \in Seq(S) /\ h \o b = c \o (w \o b)
  BY SMTT(30)
<1> HIDE DEF h
<1>2. /\ (g \o h) \o b = g \o (h \o b) /\ g \o h \in Seq(S) /\ (g \o h) \o b \in Seq(S)
      /\ (h \o b) \o <<>> = h \o b
  <2>0. h \in Seq(S)
    BY <1>1
  <2>1. (g \o h) \o b = g \o (h \o b)
    BY <2>0
  <2>2. g \o h \in Seq(S) /\ h \o b \in Seq(S)
    BY <1>1
  <2>3. \A u, v \in Seq(S) : u \o v \in Seq(S) /\ u \o <<>> = u
    OBVIOUS
  <2> QED  BY <2>1, <2>2, <2>3, Zenon
<1>3. (g \o h) \o b = g \o ((h \o b) \o <<>>)
  BY <1>2
<1>4. (g \o h) \o b = g \o ((c \o (w \o b)) \o <<>>)
  BY <1>1, <1>3
<1> QED  BY <1>2, <1>4 DEF h, Behind

\* The reading goes on, or an empty message ends it.
GoesOn == ended' = ended \/ (EmptyMessage /\ ended' = "eof" /\ got' = got)

\* Bytes that were held are read, and those lost stay so.
LEMMA ReadFlow ==
  ASSUME Inv, NEW x, Moves(x), UNCHANGED <<sent, wire, request>>, ConnectionTypes', ended = "no", GoesOn
  PROVE  Inv' /\ [Stream0!Next]_(Stream0!vars)
<1>1. PICK lost \in Seq(Byte) : sent = got \o (Held \o lost) /\ (wire # "broken" => lost = <<>>)
  BY DEF Inv, Flow
<1>2. got \in Seq(Byte) /\ x \in Seq(Byte) /\ Held' \in Seq(Byte) /\ Held = x \o Held' /\ got' = got \o x
  BY DEF Inv, ConnectionTypes, Moves
<1> DEFINE h == Held
           h2 == Held'
<1>3. h = x \o h2 /\ h2 \in Seq(Byte)
  BY <1>2
<1> HIDE DEF h, h2
<1>4. got \o (h \o lost) = (got \o x) \o (h2 \o lost) /\ got \o x \in Seq(Byte) /\ h2 \o lost \in Seq(Byte)
  <2>1. got \in Seq(Byte) /\ x \in Seq(Byte) /\ h2 \in Seq(Byte) /\ lost \in Seq(Byte) /\ h = x \o h2
    BY <1>1, <1>2, <1>3
  <2>2. Regrouped(Byte, got, h, x, h2, lost)
    BY <2>1, Moved, Zenon
  <2> QED  BY <2>2 DEF Regrouped
<1>5. Flow'
  <2>1. sent' = got' \o (Held' \o lost) /\ (wire' # "broken" => lost = <<>>)
    <3>1. sent = (got \o x) \o (h2 \o lost)
      BY <1>1, <1>4 DEF h
    <3> QED  BY <1>1, <1>2, <3>1 DEF h2
  <2> QED  BY <2>1 DEF Flow
<1>6. RequestTypes'
  BY DEF Inv, RequestTypes, Asking, request
<1>7. IsPrefix(got, got')
  BY <1>2, PrefixOf
<1>8. IsPrefix(got', sent)
  <2>1. IsPrefix(got \o x, (got \o x) \o (h2 \o lost))
    BY <1>4, PrefixOf
  <2>2. sent = (got \o x) \o (h2 \o lost)
    BY <1>1, <1>4 DEF h
  <2> QED  BY <1>2, <2>1, <2>2
<1>9. Stream0!Next
  <2>1. CASE ended' = ended
    <3>1. Stream0!Receive
      BY <1>7, <1>8, <2>1 DEF Stream0!Receive, Stream0!IsPrefix, IsPrefix
    <3> QED  BY <3>1 DEF Stream0!Next
  <2>2. CASE EmptyMessage /\ ended' = "eof" /\ got' = got
    <3>1. Stream0!End
      BY <2>2 DEF Stream0!End
    <3> QED  BY <3>1 DEF Stream0!Next
  <2> QED  BY <2>1, <2>2 DEF GoesOn
<1> QED  BY <1>5, <1>6, <1>9 DEF Inv

\* Bytes are written: they go behind those that are on their way.
LEMMA WriteFlow ==
  ASSUME Inv, NEW b \in Seq(Byte), NEW m \in Seq(Seq(Seq(Byte))), Way(m) = b, kind # "multi" => Single(m),
         wire = "open", Sends(b, m), todo' \in Seq(Seq(Byte)), UNCHANGED request
  PROVE  Inv' /\ [Stream0!Next]_(Stream0!vars)
<1>1. sent = got \o Held /\ got \in Seq(Byte) /\ Held \in Seq(Byte)
  <2>1. PICK lost \in Seq(Byte) : sent = got \o (Held \o lost) /\ (wire # "broken" => lost = <<>>)
    BY DEF Inv, Flow
  <2>2. Held \in Seq(Byte) /\ got \in Seq(Byte) /\ lost = <<>>
    BY <2>1, HeldType DEF Inv, ConnectionTypes
  <2>3. Held \o <<>> = Held
    BY <2>2
  <2> QED  BY <2>1, <2>2, <2>3
<1>2. /\ sent' = sent \o b /\ net' = net \o m
      /\ UNCHANGED <<kind, foreign, got, cache, alloc, wire, ended>>
  BY DEF Sends
<1>3. Way(net') = Way(net) \o b /\ net' \in Seq(Seq(Seq(Byte))) /\ (kind # "multi" => Single(net'))
  <2>1. net \in Seq(Seq(Seq(Byte))) /\ (kind # "multi" => Single(net))
    BY DEF Inv, ConnectionTypes
  <2>2. Way(net \o m) = Way(net) \o Way(m)
    BY <2>1, WayConcat
  <2>3. net \o m \in Seq(Seq(Seq(Byte)))
    BY <2>1
  <2>4. kind # "multi" => Single(net \o m)
    BY <2>1, SingleConcat
  <2> QED  BY <1>2, <2>2, <2>3, <2>4
<1>4. sent' = got \o (Held' \o <<>>) /\ sent' \in Seq(Byte) /\ sent \in Seq(Byte)
  <2> DEFINE c == Content(cache)
             w == Way(net)
  <2>1. c \in Seq(Byte) /\ w \in Seq(Byte)
    BY HeldType DEF Inv
  <2>2. Held = c \o w
    BY DEF Held
  <2>3. Held' = c \o (w \o b)
    BY <1>2, <1>3 DEF Held
  <2> HIDE DEF c, w
  <2>4. /\ (got \o (c \o w)) \o b = got \o ((c \o (w \o b)) \o <<>>)
        /\ got \o (c \o w) \in Seq(Byte) /\ (got \o (c \o w)) \o b \in Seq(Byte)
    <3>1. got \in Seq(Byte)
      BY <1>1
    <3>2. Behind(Byte, got, c, w, b)
      BY <2>1, <3>1, Put, Zenon
    <3> QED  BY <3>2 DEF Behind
  <2> QED  BY <1>1, <1>2, <2>2, <2>3, <2>4
<1>5. Flow'
  <2>1. <<>> \in Seq(Byte)
    OBVIOUS
  <2> QED  BY <1>2, <1>4, <2>1 DEF Flow
<1>6. ConnectionTypes' /\ RequestTypes'
  <2>1. ConnectionTypes'
    BY <1>2, <1>3, <1>4 DEF Inv, ConnectionTypes
  <2>2. RequestTypes'
    BY DEF Inv, RequestTypes, Asking, request
  <2> QED  BY <2>1, <2>2
<1>7. IsPrefix(sent, sent')
  BY <1>2, <1>4, PrefixOf
<1>8. Stream0!Send
  BY <1>2, <1>7 DEF Stream0!Send, Stream0!IsPrefix, IsPrefix
<1> QED  BY <1>5, <1>6, <1>8 DEF Inv, Stream0!Next

\* The next Write, and the others.
LEMMA HeadTail ==
  ASSUME NEW S, NEW s \in Seq(S), s # <<>>
  PROVE  Head(s) \in S /\ Tail(s) \in Seq(S)
  OBVIOUS

\* The strategy writes a slice.
LEMMA WriteConnStep ==
  ASSUME Inv, WriteConn, UNCHANGED request
  PROVE  Inv' /\ [Stream0!Next]_(Stream0!vars)
<1>1. /\ wire = "open" /\ todo # <<>>
      /\ Sends(Head(todo), Frames(Head(todo))) /\ todo' = Tail(todo)
  BY DEF WriteConn
<1>2. Head(todo) \in Seq(Byte) /\ Tail(todo) \in Seq(Seq(Byte))
  BY <1>1, HeadTail DEF Inv, ConnectionTypes
<1> DEFINE b == Head(todo)
<1>3. /\ Frames(b) \in Seq(Seq(Seq(Byte))) /\ Way(Frames(b)) = b /\ (kind # "multi" => Single(Frames(b)))
  BY <1>2, FramesWay
<1> QED  BY <1>1, <1>2, <1>3, WriteFlow

\* It writes a slice as Buffers, which Compact merges.
LEMMA WriteMultiBufferStep ==
  ASSUME Inv, WriteMultiBuffer, UNCHANGED request
  PROVE  Inv' /\ [Stream0!Next]_(Stream0!vars)
<1> DEFINE b == Head(todo)
           m(k) == SendHunks(SplitFirsts(Compact(MergeBytes(<<>>, Take(b, k)) \o MergeBytes(<<>>, Drop(b, k)))))
<1>1. /\ wire = "open" /\ todo # <<>> /\ todo' = Tail(todo)
      /\ \E k \in 1..Len(b) : Sends(b, m(k))
  BY DEF WriteMultiBuffer
<1>2. PICK k \in 1..Len(b) : Sends(b, m(k))
  BY <1>1
<1>3. b \in Seq(Byte) /\ Tail(todo) \in Seq(Seq(Byte)) /\ k \in Nat
  BY <1>1, HeadTail DEF Inv, ConnectionTypes
<1> HIDE DEF b
<1>4. m(k) \in Seq(Seq(Seq(Byte))) /\ Way(m(k)) = b /\ Single(m(k))
  BY <1>3, CompactWay
<1> HIDE DEF m
<1> QED  BY <1>1, <1>2, <1>3, <1>4, WriteFlow

\* A server cuts what it writes into messages as it likes.
LEMMA ForeignSendsStep ==
  ASSUME Inv, ForeignSends, UNCHANGED request
  PROVE  Inv' /\ [Stream0!Next]_(Stream0!vars)
<1> DEFINE all == FlattenSeq(todo)
           m(n, k) == <<IF k = n THEN <<Take(all, n)>> ELSE <<Take(all, k), SubSeq(all, k + 1, n)>> >>
<1>1. /\ wire = "open"
      /\ \E n \in 0..Fewer(MaxFrame, Len(all)), k \in 0..MaxFrame :
            /\ k = n \/ (k < n /\ kind = "multi")
            /\ Sends(Take(all, n), m(n, k))
            /\ todo' = IF n = Len(all) THEN <<>> ELSE <<Drop(all, n)>>
  BY DEF ForeignSends
<1>2. all \in Seq(Byte)
  BY FlattenType DEF Inv, ConnectionTypes
<1> HIDE DEF all
<1>3. PICK n \in 0..Fewer(MaxFrame, Len(all)), k \in 0..MaxFrame :
            /\ k = n \/ (k < n /\ kind = "multi")
            /\ Sends(Take(all, n), m(n, k))
            /\ todo' = IF n = Len(all) THEN <<>> ELSE <<Drop(all, n)>>
  BY <1>1
<1>4. n \in Nat /\ k \in Nat /\ n <= Len(all) /\ Len(all) \in Nat
  BY <1>2, <1>3, ConnectionsAssumption DEF Fewer
<1>5. Take(all, n) \in Seq(Byte) /\ Drop(all, n) \in Seq(Byte)
  BY <1>2, <1>4, TakeDrop
<1>6. todo' \in Seq(Seq(Byte))
  BY <1>3, <1>5
<1>7. m(n, k) \in Seq(Seq(Seq(Byte))) /\ Way(m(n, k)) = Take(all, n) /\ (kind # "multi" => Single(m(n, k)))
  <2>1. CASE k = n
    <3>1. m(n, k) = WriteMessage(Take(all, n))
      BY <2>1 DEF WriteMessage
    <3> HIDE DEF m
    <3> QED  BY <1>5, <3>1, MessageWay
  <2>2. CASE k # n
    <3>1. k < n /\ kind = "multi"
      BY <1>3, <2>2
    <3> DEFINE x == Take(all, k)
               y == SubSeq(all, k + 1, n)
    <3>2. x = SubSeq(all, 1, k) /\ Take(all, n) = SubSeq(all, 1, n)
      BY <1>4, <3>1 DEF Take, Fewer
    <3>3. x \in Seq(Byte) /\ y \in Seq(Byte)
      BY <1>2, <1>4, <3>1, <3>2
    <3>4. SubSeq(all, 1, k) \o SubSeq(all, k + 1, n) = SubSeq(all, 1, n)
      <4>1. 1 \in 1..(Len(all) + 1) /\ k \in (1 - 1)..Len(all) /\ n \in k..Len(all)
        BY <1>4, <3>1
      <4> QED  BY <1>2, <4>1, ConcatAdjacentSubSeq
    <3>5. x \o y = Take(all, n)
      BY <3>2, <3>4
    <3>6. m(n, k) = <<<<x, y>>>>
      BY <2>2
    <3> HIDE DEF m, x, y
    <3>7. <<x, y>> = Append(<<x>>, y) /\ <<x>> \in Seq(Seq(Byte)) /\ <<x, y>> \in Seq(Seq(Byte))
      BY <3>3
    <3>8. FlattenSeq(<<x>>) = x
      BY <3>3, FlattenOne
    <3>9. FlattenSeq(Append(<<x>>, y)) = FlattenSeq(<<x>>) \o y
      BY <3>3, <3>7, <3>8, FlattenAppend
    <3>10. Way(<<<<x, y>>>>) = x \o y
      BY <3>7, <3>8, <3>9, WayOne
    <3>11. <<<<x, y>>>> \in Seq(Seq(Seq(Byte)))
      BY <3>7
    <3> QED  BY <3>1, <3>5, <3>6, <3>10, <3>11
  <2> QED  BY <2>1, <2>2
<1> HIDE DEF m
<1> QED  BY <1>1, <1>3, <1>5, <1>6, <1>7, WriteFlow

-----------------------------------------------------------------------------
\* The adapter takes an empty message for the end.
LEMMA AdapterGoesOn ==
  ASSUME NEW n \in ReadSizes, ReadAdapter(n)
  PROVE  GoesOn
<1> DEFINE held == Content(cache)
           d == IF held = <<>> THEN Head(net)[1] ELSE held
           rest == Drop(d, Fewer(n, Len(d)))
<1>1. /\ kind = "adapter" /\ (held # <<>> \/ net # <<>>)
      /\ IF d = <<>> THEN ended' = "eof" /\ UNCHANGED <<got, cache>>
         ELSE got' = got \o Take(d, n) /\ cache' = Holds(rest) /\ UNCHANGED ended
  BY Zenon DEF ReadAdapter
<1> HIDE DEF rest
<1>2. CASE d = <<>>
  <2>1. held = <<>> /\ Head(net)[1] = <<>>
    BY <1>2
  <2> QED  BY <1>1, <1>2, <2>1 DEF GoesOn, EmptyMessage
<1>3. CASE d # <<>>
  BY <1>1, <1>3 DEF GoesOn
<1> QED  BY <1>2, <1>3

\* A read, from whatever kind of connection.
LEMMA ReadsStep ==
  ASSUME Inv, ended = "no", UNCHANGED request,
         \/ \E n \in ReadSizes : ReadAdapter(n) \/ ReadWs(n) \/ ReadBuffered(n)
         \/ getReader \/ ReadMultiBuffer
  PROVE  Inv' /\ [Stream0!Next]_(Stream0!vars)
<1>1. UNCHANGED <<sent, wire>>
  BY DEF ReadAdapter, ReadWs, ReadBuffered, getReader, ReadMultiBuffer, Same
<1>2. GoesOn
  <2>1. ASSUME NEW n \in ReadSizes, ReadAdapter(n) PROVE GoesOn
    BY <2>1, AdapterGoesOn
  <2>2. ASSUME \/ \E n \in ReadSizes : ReadWs(n) \/ ReadBuffered(n)
               \/ getReader \/ ReadMultiBuffer
        PROVE  GoesOn
    <3>1. ended' = ended
      BY <2>2 DEF ReadWs, ReadBuffered, getReader, ReadMultiBuffer
    <3> QED  BY <3>1 DEF GoesOn
  <2> QED  BY <2>1, <2>2
<1>3. ConnectionTypes
  BY DEF Inv
<1>4. ConnectionTypes' /\ \E x : Moves(x)
  <2>1. ASSUME NEW n \in ReadSizes, ReadAdapter(n) \/ ReadWs(n) \/ ReadBuffered(n)
        PROVE  ConnectionTypes' /\ \E x : Moves(x)
    BY <1>3, <2>1, AdapterMoves, WsMoves, BufferedMoves, Zenon
  <2> QED  BY <1>3, <2>1, ReaderMoves, MultiBufferMoves, Zenon
<1>5. PICK x : Moves(x)
  BY <1>4
<1> QED  BY <1>1, <1>2, <1>4, <1>5, ReadFlow, Zenon

\* The reading ends: with io.EOF when the writer has closed, and then all is read.
LEMMA ReadEndsStep ==
  ASSUME Inv, ended = "no", ReadEnds, UNCHANGED request
  PROVE  Inv' /\ [Stream0!Next]_(Stream0!vars)
<1>1. /\ wire # "open" /\ net = <<>> /\ cache = <<>>
      /\ ended' = IF wire = "closed" THEN "eof" ELSE "error"
      /\ UNCHANGED <<got, net, cache, alloc, kind, foreign, todo, sent, wire>>
  BY DEF ReadEnds, Same
<1>2. Held' = Held
  BY <1>1 DEF Held
<1>3. Inv'
  <2>1. Flow'
    BY <1>1, <1>2 DEF Inv, Flow
  <2>2. ConnectionTypes'
    BY <1>1 DEF Inv, ConnectionTypes
  <2>3. RequestTypes'
    BY DEF Inv, RequestTypes, Asking, request
  <2> QED  BY <2>1, <2>2, <2>3 DEF Inv
<1>4. CASE wire = "closed"
  <2>1. Held = <<>>
    <3>1. Content(cache) = <<>> /\ Way(net) = <<>>
      BY <1>1, ContentNone, WayNone, Zenon
    <3> QED  BY <3>1 DEF Held
  <2>2. got = sent
    <3>1. sent = got \o (Held \o <<>>) /\ got \in Seq(Byte)
      BY <1>4 DEF Inv, Flow, ConnectionTypes
    <3>2. Held \o <<>> = <<>>
      BY <2>1
    <3>3. got \o <<>> = got
      BY <3>1
    <3> QED  BY <3>1, <3>2, <3>3
  <2>3. Stream0!End
    BY <1>1, <1>4, <2>2 DEF Stream0!End
  <2> QED  BY <1>3, <2>3 DEF Stream0!Next
<1>5. CASE wire # "closed"
  <2>1. UNCHANGED Stream0!vars
    BY <1>1, <1>5 DEF Stream0!vars
  <2> QED  BY <1>3, <2>1
<1> QED  BY <1>4, <1>5

\* The writer closes: nothing is lost.
LEMMA CloseConnStep ==
  ASSUME Inv, CloseConn, UNCHANGED request
  PROVE  Inv' /\ [Stream0!Next]_(Stream0!vars)
<1>1. /\ wire = "open" /\ wire' = "closed"
      /\ UNCHANGED <<kind, foreign, todo, sent, got, net, cache, alloc, ended>>
  BY DEF CloseConn
<1>2. Flow'
  BY <1>1 DEF Inv, Flow, Held
<1>3. ConnectionTypes' /\ RequestTypes'
  BY <1>1 DEF Inv, ConnectionTypes, RequestTypes, Asking, request
<1>4. UNCHANGED Stream0!vars
  BY <1>1 DEF Stream0!vars
<1> QED  BY <1>2, <1>3, <1>4 DEF Inv

\* What is on its way is lost.
LEMMA BreakStep ==
  ASSUME Inv, Break, UNCHANGED request
  PROVE  Inv' /\ [Stream0!Next]_(Stream0!vars)
<1>1. /\ wire # "broken" /\ wire' = "broken" /\ net' = <<>>
      /\ UNCHANGED <<kind, foreign, todo, sent, got, cache, alloc, ended>>
  BY DEF Break
<1>2. PICK lost \in Seq(Byte) : sent = got \o (Held \o lost)
  BY DEF Inv, Flow
<1> DEFINE c == Content(cache)
           w == Way(net)
<1>3. c \in Seq(Byte) /\ w \in Seq(Byte)
  BY HeldType DEF Inv
<1>4. Held' = c \o <<>>
  <2>1. Way(net') = <<>>
    BY <1>1, WayNone, Zenon
  <2> QED  BY <1>1, <2>1 DEF Held
<1>5. Held = c \o w
  BY DEF Held
<1> HIDE DEF c, w
<1>6. Held' = c
  BY <1>3, <1>4
<1>7. (c \o w) \o lost = c \o (w \o lost) /\ w \o lost \in Seq(Byte)
  BY <1>2, <1>3
<1>8. sent' = got' \o (Held' \o (w \o lost))
  BY <1>1, <1>2, <1>5, <1>6, <1>7
<1>9. Flow'
  BY <1>1, <1>7, <1>8 DEF Flow
<1>10. ConnectionTypes' /\ RequestTypes'
  <2>1. Single(<<>>)
    BY DEF Single
  <2>2. net' \in Seq(Seq(Seq(Byte)))
    BY <1>1
  <2> QED  BY <1>1, <2>1, <2>2 DEF Inv, ConnectionTypes, RequestTypes, Asking, request
<1>11. UNCHANGED Stream0!vars
  BY <1>1 DEF Stream0!vars
<1> QED  BY <1>9, <1>10, <1>11 DEF Inv

\* The strategy understands the request and has packets or a header to write; or it
\* refuses it.
LEMMA RequestStep ==
  ASSUME Inv, Request
  PROVE  Inv' /\ [Stream0!Next]_(Stream0!vars)
<1>1. /\ via \in {"socks", "CONNECT", "GET"}
      /\ UNCHANGED <<path, via, ask, seen, data, server>>
      /\ UNCHANGED <<kind, foreign, sent, got, net, cache, alloc, wire, ended>>
  BY DEF Request
<1>2. todo' \in Seq(Seq(Byte))
  <2>1. CASE Understands.ok
    <3>1. todo' = IF path = "vless" THEN UpHeader(Understands)
                                    ELSE Written(Sealed(UpPackets(Understands), Key))
      BY <2>1 DEF Request
    <3>2. RequestTypes
      BY DEF Inv
    <3> QED  BY <1>1, <2>1, <3>1, <3>2, UpType, Zenon
  <2>2. CASE ~Understands.ok
    <3>1. todo' = todo
      BY <2>2 DEF Request
    <3> QED  BY <3>1 DEF Inv, ConnectionTypes
  <2> QED  BY <2>1, <2>2
<1>3. Flow'
  BY <1>1 DEF Inv, Flow, Held
<1>4. ConnectionTypes' /\ RequestTypes'
  BY <1>1, <1>2 DEF Inv, ConnectionTypes, RequestTypes, Asking
<1>5. UNCHANGED Stream0!vars
  BY <1>1 DEF Stream0!vars
<1> QED  BY <1>3, <1>4, <1>5 DEF Inv

\* A look changes nothing else; a stutter changes nothing.
LEMMA LookStep ==
  ASSUME Inv, Look \/ UNCHANGED vars
  PROVE  Inv' /\ [Stream0!Next]_(Stream0!vars)
<1>1. UNCHANGED <<path, via, ask, data, server, connection>>
  BY DEF Look, vars, request
<1>2. Flow'
  BY <1>1 DEF Inv, Flow, Held, connection
<1>3. ConnectionTypes' /\ RequestTypes'
  BY <1>1 DEF Inv, ConnectionTypes, RequestTypes, Asking, connection
<1>4. UNCHANGED Stream0!vars
  BY <1>1 DEF Stream0!vars, connection
<1> QED  BY <1>2, <1>3, <1>4 DEF Inv

\* Every step keeps the invariant, and is one of the byte stream or none.
LEMMA NextStep ==
  ASSUME Inv, [Next]_vars
  PROVE  Inv' /\ [Stream0!Next]_(Stream0!vars)
<1>1. CASE ConnectionStep /\ UNCHANGED request
  <2>1. CASE WriteConn \/ WriteMultiBuffer \/ ForeignSends
    BY <1>1, <2>1, WriteConnStep, WriteMultiBufferStep, ForeignSendsStep, Zenon
  <2>2. CASE CloseConn \/ Break
    BY <1>1, <2>2, CloseConnStep, BreakStep, Zenon
  <2>3. CASE ReadStep
    <3>1. ended = "no"
      BY <2>3 DEF ReadStep
    <3>2. CASE ReadEnds
      BY <1>1, <3>1, <3>2, ReadEndsStep, Zenon
    <3>3. CASE ~ReadEnds
      <4>1. \/ \E n \in ReadSizes : ReadAdapter(n) \/ ReadWs(n) \/ ReadBuffered(n)
            \/ getReader \/ ReadMultiBuffer
        BY <2>3, <3>3, Zenon DEF ReadStep
      <4> QED  BY <1>1, <3>1, <4>1, ReadsStep, Zenon
    <3> QED  BY <3>2, <3>3
  <2> QED  BY <1>1, <2>1, <2>2, <2>3, Zenon DEF ConnectionStep
<1> QED  BY <1>1, RequestStep, LookStep, Zenon DEF Next

\* What a client may ask is well formed.
LEMMA InitAsking ==
  ASSUME Targets PROVE Asking
<1>1. PICK h \in Hosts, p \in Ports : ask = [atyp |-> h.atyp, bytes |-> h.bytes, port |-> p]
  BY DEF Targets
<1>2. h \in [atyp : Forms, bytes : Seq(Byte)] /\ p \in Nat \cup {NoPort}
      /\ (h.atyp = "ip4" => Len(h.bytes) = V4) /\ (h.atyp = "ip6" => Len(h.bytes) = V6)
  BY WireAssumption DEF Forms, Byte, ByteStrings
<1>3. ask.atyp = h.atyp /\ ask.bytes = h.bytes /\ ask \in [atyp : Forms, bytes : Seq(Byte), port : Nat \cup {NoPort}]
  BY <1>1, <1>2
<1> QED  BY <1>2, <1>3 DEF Targets, Asking

\* At first nothing is written.
LEMMA InitInv == ASSUME Init PROVE Inv /\ Stream0!Init
<1>1. /\ sent = <<>> /\ got = <<>> /\ net = <<>> /\ cache = <<>>
      /\ alloc = 1 /\ wire = "open" /\ ended = "no" /\ kind \in Kinds
  BY DEF Init, ConnectionInit
<1>2. RequestTypes
  <2>1. path \in {"goremote", "worker", "vless", "raw"}
    <3>1. path \in Paths[kind] /\ kind \in {"adapter", "ws", "hunk", "multi", "tcp"}
      BY <1>1, Zenon DEF Init, Kinds
    <3> QED  BY <3>1 DEF Paths
  <2>2. data \in Seq(Byte) /\ server \in {Key, Key + 1}
    BY WireAssumption DEF Init, Byte, ByteStrings
  <2>3. via \in {"socks", "CONNECT", "GET", "udp"} => Asking
    BY InitAsking DEF Init
  <2> QED  BY <2>1, <2>2, <2>3 DEF RequestTypes
<1>3. todo \in Seq(Seq(Byte))
  <2>1. todo = Down \/ todo = <<>>
    BY Zenon DEF Init
  <2>2. Down \in Seq(Seq(Byte))
    BY <1>2, DownType, Zenon
  <2>3. <<>> \in Seq(Seq(Byte))
    OBVIOUS
  <2> QED  BY <2>1, <2>2, <2>3, Zenon
<1>4. ConnectionTypes
  <2>1. Single(net)
    BY <1>1 DEF Single
  <2>2. alloc \in 1..MaxAlloc
    BY <1>1 DEF MaxAlloc
  <2>3. sent \in Seq(Byte) /\ got \in Seq(Byte) /\ net \in Seq(Seq(Seq(Byte))) /\ cache \in Seq(Bufs(Byte))
        /\ Len(cache) <= 1
    BY <1>1
  <2> QED  BY <1>1, <1>3, <2>1, <2>2, <2>3 DEF ConnectionTypes
<1>5. Flow
  <2>1. Content(cache) = <<>> /\ Way(net) = <<>>
    BY <1>1, ContentNone, WayNone, Zenon
  <2>2. Held = <<>>
    BY <2>1 DEF Held
  <2>3. sent = got \o (Held \o <<>>) /\ <<>> \in Seq(Byte)
    BY <1>1, <2>2
  <2> QED  BY <2>3 DEF Flow
<1>6. Stream0!Init
  BY <1>1 DEF Stream0!Init
<1> QED  BY <1>2, <1>4, <1>5, <1>6 DEF Inv

\* Nothing is lost or added before the connection breaks: what was written is what was
\* read, then what the reader holds, then what is on its way.
THEOREM Invariant == Spec => []Inv
<1>1. Init => Inv
  BY InitInv
<1>2. Inv /\ [Next]_vars => Inv'
  BY NextStep
<1> QED  BY <1>1, <1>2, PTL DEF Spec

\* The types of the reading end's Buffers, and the lengths on the two sides.
LEMMA TypeFollows == Inv => TypeOK
<1> SUFFICES ASSUME Inv PROVE TypeOK
  OBVIOUS
<1>1. ConnectionTypes /\ Flow
  BY DEF Inv
<1>2. ASSUME NEW i \in DOMAIN cache
      PROVE  Len(cache[i].bytes) <= cache[i].end /\ cache[i].end <= cache[i].cap
  <2>1. cache[i] \in Bufs(Byte)
    BY <1>1 DEF ConnectionTypes
  <2> QED  BY <2>1 DEF Bufs
<1>3. Len(sent) = Len(got) + Len(Content(cache)) + Len(FlattenSeq(FlattenSeq(net))) \/ wire = "broken"
  <2> SUFFICES ASSUME wire # "broken"
               PROVE  Len(sent) = Len(got) + Len(Content(cache)) + Len(FlattenSeq(FlattenSeq(net)))
    OBVIOUS
  <2>1. sent = got \o (Held \o <<>>)
    BY <1>1 DEF Flow
  <2> DEFINE c == Content(cache)
             w == Way(net)
  <2>2. c \in Seq(Byte) /\ w \in Seq(Byte) /\ got \in Seq(Byte) /\ Held = c \o w
    BY <1>1, HeldType DEF ConnectionTypes, Held
  <2> HIDE DEF c, w
  <2>3. Len(sent) = Len(got) + Len(c) + Len(w)
    BY <2>1, <2>2
  <2> QED  BY <2>3 DEF c, w, Way
<1> QED  BY <1>1, <1>2, <1>3 DEF TypeOK, ConnectionTypes

\* The model is type correct: a Buffer's content lies in its slice, ReadVReader allocates
\* one to eight Buffers, and no byte is counted twice or forgotten.
THEOREM TypeCorrect == Spec => []TypeOK
  BY Invariant, TypeFollows, PTL

\* Every kind of connection is a byte stream: what is read is what was written, in order
\* and without gaps, and io.EOF comes after the last byte; only the WebSocket adapter ends
\* before it, where it gets an empty message (conn_adapter.go:28-40).
THEOREM Streams == Spec => IsByteStream
<1>1. Init => Stream0!Init
  BY InitInv
<1>2. Inv /\ [Next]_vars => [Stream0!Next]_(Stream0!vars)
  BY NextStep
<1> QED  BY <1>1, <1>2, Invariant, PTL DEF Spec, IsByteStream, Stream0!Spec

-----------------------------------------------------------------------------
(* Reading what was written.                                                *)

\* Quotient and remainder.
LEMMA DivMod ==
  ASSUME NEW b \in Nat \ {0}, NEW q \in Nat, NEW r \in 0..(b - 1)
  PROVE  (q * b + r) % b = r /\ (q * b + r) \div b = q
  BY SMTT(30)

\* Quotient and remainder are unique.
LEMMA DivModOf ==
  ASSUME NEW b \in Nat \ {0}, NEW n \in Nat
  PROVE  n \div b \in Nat /\ n % b \in 0..(b - 1) /\ n = (n \div b) * b + (n % b)
<1> DEFINE L == {m \in Nat : \E q \in Nat, r \in 0..(b - 1) : m = q * b + r}
<1>1. 0 \in L
  <2>1. 0 = 0 * b + 0 /\ 0 \in 0..(b - 1)
    OBVIOUS
  <2> QED  BY <2>1
<1>2. ASSUME NEW m \in Nat, m \in L PROVE m + 1 \in L
  <2>1. PICK q \in Nat, r \in 0..(b - 1) : m = q * b + r
    BY <1>2
  <2>2. CASE r = b - 1
    <3>1. m + 1 = (q + 1) * b + 0 /\ q + 1 \in Nat /\ 0 \in 0..(b - 1) /\ m + 1 \in Nat
      BY <2>1, <2>2
    <3>2. \E x \in Nat, y \in 0..(b - 1) : m + 1 = x * b + y
      BY <3>1, Zenon
    <3> QED  BY <3>1, <3>2
  <2>3. CASE r # b - 1
    <3>1. m + 1 = q * b + (r + 1) /\ r + 1 \in 0..(b - 1)
      BY <2>1, <2>3
    <3> QED  BY <3>1
  <2> QED  BY <2>2, <2>3
<1> HIDE DEF L
<1>3. n \in L
  BY <1>1, <1>2, NatInd
<1>4. PICK q \in Nat, r \in 0..(b - 1) : n = q * b + r
  BY <1>3 DEF L
<1>5. (q * b + r) % b = r /\ (q * b + r) \div b = q
  BY DivMod
<1>6. n % b = r /\ n \div b = q
  BY <1>4, <1>5
<1> QED  BY <1>4, <1>6

\* A number of two bytes.
LEMMA TwoBytes ==
  ASSUME NEW n \in 0..(Base * Base - 1)
  PROVE  ((n \div Base) % Base) * Base + (n % Base) = n
<1> DEFINE q == n \div Base
           r == n % Base
<1>1. Base \in Nat \ {0} /\ n \in Nat /\ Base * Base \in Nat
  BY FormatsAssumption
<1>2. q \in Nat /\ r \in 0..(Base - 1) /\ n = q * Base + r
  BY <1>1, DivModOf
<1> HIDE DEF q, r
<1>3. q < Base
  <2> SUFFICES ASSUME q >= Base PROVE FALSE
    BY <1>1, <1>2
  <2>1. q * Base >= Base * Base
    BY <1>1, <1>2
  <2> QED  BY <1>1, <1>2, <2>1
<1>4. q % Base = q
  BY <1>1, <1>2, <1>3
<1>5. (q % Base) * Base + r = n
  BY <1>2, <1>4
<1> QED  BY <1>5, Zenon DEF q, r

\* What two bytes hold of a number, and the bytes of it.
LEMMA LowBytes ==
  ASSUME NEW n \in Nat
  PROVE  /\ n % (Base * Base) \in 0..(Base * Base - 1)
         /\ PutUint16(n % (Base * Base)) = PutUint16(n)
         /\ n \in 0..(Base * Base - 1) => n % (Base * Base) = n
<1> DEFINE q == n \div Base
           r == n % Base
           k == q \div Base
           a == q % Base
           c == Base * Base
           m == a * Base + r
<1>1. Base \in Nat \ {0} /\ c \in Nat \ {0}
  <2>1. Base \in Nat /\ Base > 0
    BY FormatsAssumption
  <2>2. Base * Base \in Nat /\ Base * Base > 0
    BY <2>1, SMTT(30)
  <2> QED  BY <2>1, <2>2
<1>2. q \in Nat /\ r \in 0..(Base - 1) /\ n = q * Base + r
  BY <1>1, DivModOf
<1>3. k \in Nat /\ a \in 0..(Base - 1) /\ q = k * Base + a
  <2> HIDE DEF q
  <2> QED  BY <1>1, <1>2, DivModOf
<1>4. m % Base = r /\ m \div Base = a /\ a % Base = a
  <2> HIDE DEF r, a
  <2> QED  BY <1>1, <1>2, <1>3, DivMod
<1> HIDE DEF q, r, k, a
<1>5. m \in 0..(c - 1)
  <2>1. a <= Base - 1 /\ Base - 1 >= 0 /\ a \in Nat /\ r \in Nat /\ r <= Base - 1
    BY <1>1, <1>2, <1>3
  <2>2. a * Base <= (Base - 1) * Base /\ a * Base \in Nat
    BY <1>1, <2>1, SMTT(30)
  <2>3. (Base - 1) * Base + (Base - 1) = Base * Base - 1
    BY <1>1, SMTT(30)
  <2> QED  BY <1>1, <2>1, <2>2, <2>3
<1>6. n = k * c + m
  <2>1. n = (k * Base + a) * Base + r
    BY <1>2, <1>3
  <2>2. (k * Base + a) * Base = k * (Base * Base) + a * Base
    BY <1>1, <1>3, SMTT(30)
  <2>3. k * (Base * Base) \in Nat /\ a * Base \in Nat /\ r \in Nat
    BY <1>1, <1>2, <1>3, SMTT(30)
  <2> QED  BY <2>1, <2>2, <2>3
<1> HIDE DEF m, c
<1>7. n % c = m
  <2>1. (k * c + m) % c = m
    BY <1>1, <1>3, <1>5, DivMod
  <2> QED  BY <1>6, <2>1
<1>8. PutUint16(m) = PutUint16(n)
  <2>1. PutUint16(m) = <<(m \div Base) % Base, m % Base>> /\ PutUint16(n) = <<q % Base, r>>
    BY DEF PutUint16, q, r
  <2>2. (m \div Base) % Base = a /\ m % Base = r
    BY <1>4
  <2>3. q % Base = a
    BY DEF a
  <2> QED  BY <2>1, <2>2, <2>3
<1>9. n \in 0..(c - 1) => n % c = n
  BY <1>1
<1> QED  BY <1>5, <1>7, <1>8, <1>9 DEF c

-----------------------------------------------------------------------------
(* Packets.                                                                 *)

\* A number of two bytes is read as it was written.
LEMMA Uint16Is ==
  ASSUME NEW n \in 0..(Base * Base - 1), NEW s, NEW i, s[i] = PutUint16(n)[1], s[i + 1] = PutUint16(n)[2]
  PROVE  Uint16(s, i) = n
<1>1. s[i] = (n \div Base) % Base /\ s[i + 1] = n % Base
  BY DEF PutUint16
<1>2. Uint16(s, i) = ((n \div Base) % Base) * Base + (n % Base)
  BY <1>1 DEF Uint16
<1> QED  BY <1>2, TwoBytes

\* What has come of the bytes w.
Starts(g, w) == \A i \in 1..Len(g) : i <= Len(w) => g[i] = w[i]

\* Elements of sequences that are concatenated.
Joined(S, a, b, c) ==
    /\ c \in Seq(S) /\ Len(c) = Len(a) + Len(b) /\ Len(a) \in Nat /\ Len(b) \in Nat
    /\ \A i \in 1..Len(a) : c[i] = a[i]
    /\ \A i \in 1..Len(b) : c[Len(a) + i] = b[i]

\* Elements of a concatenation.
LEMMA Join ==
  ASSUME NEW S, NEW a \in Seq(S), NEW b \in Seq(S), NEW c, c = a \o b
  PROVE  Joined(S, a, b, c)
  BY DEF Joined

\* Sequences with the same elements.
LEMMA SameSeq ==
  ASSUME NEW S, NEW a \in Seq(S), NEW b \in Seq(S), Len(a) = Len(b), \A i \in 1..Len(a) : a[i] = b[i]
  PROVE  a = b
  OBVIOUS

\* A part of what has come.
LEMMA PartOf ==
  ASSUME NEW S, NEW g \in Seq(S), NEW w \in Seq(S), Starts(g, w), NEW k \in Nat, NEW b \in Seq(S),
         Len(w) >= k + Len(b), \A i \in 1..Len(b) : w[k + i] = b[i], Len(g) >= k + Len(b)
  PROVE  SubSeq(g, k + 1, k + Len(b)) = b
<1> DEFINE a == SubSeq(g, k + 1, k + Len(b))
<1>1. a \in Seq(S) /\ Len(a) = Len(b) /\ Len(b) \in Nat /\ \A i \in 1..Len(b) : a[i] = g[k + i]
  OBVIOUS
<1>2. ASSUME NEW i \in 1..Len(b) PROVE a[i] = b[i]
  <2>1. k + i \in 1..Len(g) /\ k + i <= Len(w)
    BY <1>1
  <2>2. g[k + i] = w[k + i]
    BY <2>1 DEF Starts
  <2> HIDE DEF a
  <2> QED  BY <1>1, <2>2
<1> HIDE DEF a
<1>3. a = b
  BY <1>1, <1>2, SameSeq
<1> QED  BY <1>3 DEF a

\* The bytes of a packet.
LEMMA PacketBytes ==
  ASSUME NEW p \in PacketType, WritePacket(p).ok
  PROVE  LET w == WritePacket(p).bytes
             n == 3 + Len(p.payload)
         IN /\ n \in 3..(Base * Base - 1) /\ w \in Seq(Byte) /\ Len(w) = 2 + n
            /\ w[1] = PutUint16(n)[1] /\ w[2] = PutUint16(n)[2]
            /\ w[3] = PutUint16(p.id)[1] /\ w[4] = PutUint16(p.id)[2] /\ w[5] = p.flag
            /\ \A i \in 1..Len(p.payload) : w[5 + i] = p.payload[i]
<1> DEFINE n == 3 + Len(p.payload)
           x == PutUint16(n)
           y == PutUint16(p.id)
           z == <<p.flag>>
           b == p.payload
<1>1. b \in Seq(Byte) /\ p.flag \in 0..7 /\ p.id \in Nat /\ n \in Nat /\ n >= 3
  BY DEF PacketType
<1>2. ~(n > MaxContent) /\ WritePacket(p).bytes = x \o y \o z \o b
  BY DEF WritePacket, Fail
<1>3. n <= Base * Base - 1
  BY <1>1, <1>2, FormatsAssumption DEF MaxContent
<1>4. x \in Seq(Byte) /\ Len(x) = 2 /\ y \in Seq(Byte) /\ Len(y) = 2
  BY <1>1, PutUint16Type
<1>5. z \in Seq(Byte) /\ Len(z) = 1 /\ z[1] = p.flag
  BY <1>1, SmallBytes
<1>6. Base * Base - 1 \in Int
  BY FormatsAssumption
<1> HIDE DEF n, x, y, z, b
<1> DEFINE v == x \o y
           u == v \o z
           w == u \o b
<1>7. v \in Seq(Byte) /\ Len(v) = 4 /\ v[1] = x[1] /\ v[2] = x[2] /\ v[3] = y[1] /\ v[4] = y[2]
  <2>1. v = x \o y
    BY Zenon DEF v
  <2> HIDE DEF v
  <2>2. Joined(Byte, x, y, v)
    BY <1>4, <2>1, Join, Zenon
  <2>3. 1 \in 1..2 /\ 2 \in 1..2 /\ 2 + 1 = 3 /\ 2 + 2 = 4
    OBVIOUS
  <2> QED  BY <1>4, <2>2, <2>3 DEF Joined
<1> HIDE DEF v
<1>8. u \in Seq(Byte) /\ Len(u) = 5 /\ (\A i \in 1..4 : u[i] = v[i]) /\ u[5] = p.flag
  <2>1. u = v \o z
    BY Zenon DEF u
  <2> HIDE DEF u
  <2>2. Joined(Byte, v, z, u)
    BY <1>5, <1>7, <2>1, Join, Zenon
  <2> QED  BY <1>5, <1>7, <2>2 DEF Joined
<1> HIDE DEF u
<1>9. w \in Seq(Byte) /\ Len(w) = 5 + Len(b) /\ (\A i \in 1..5 : w[i] = u[i]) /\ \A i \in 1..Len(b) : w[5 + i] = b[i]
  <2>1. w = u \o b
    BY Zenon DEF w
  <2> HIDE DEF w
  <2>2. Joined(Byte, u, b, w)
    BY <1>1, <1>8, <2>1, Join, Zenon
  <2> QED  BY <1>8, <2>2 DEF Joined
<1>10. w = WritePacket(p).bytes
  BY <1>2 DEF u, v
<1> HIDE DEF w
<1>11. /\ n \in 3..(Base * Base - 1) /\ Len(w) = 2 + n
       /\ w[1] = x[1] /\ w[2] = x[2] /\ w[3] = y[1] /\ w[4] = y[2] /\ w[5] = p.flag
  <2>1. Len(w) = 2 + n
    BY <1>1, <1>9 DEF n, b
  <2>2. n \in 3..(Base * Base - 1)
    BY <1>1, <1>3, <1>6
  <2>3. w[1] = x[1] /\ w[2] = x[2] /\ w[3] = y[1] /\ w[4] = y[2] /\ w[5] = p.flag
    BY <1>7, <1>8, <1>9
  <2> QED  BY <2>1, <2>2, <2>3
<1> QED  BY <1>9, <1>10, <1>11 DEF n, x, y, b

-----------------------------------------------------------------------------
\* A packet is read when all of it has come, and as it was written.
LEMMA ReadPacketIs ==
  ASSUME NEW p \in PacketType, p.id < Base * Base, WritePacket(p).ok,
         NEW g \in Seq(Byte), Starts(g, WritePacket(p).bytes)
  PROVE  LET w == WritePacket(p).bytes
             r == ReadUnsecurePacket(g)
         IN /\ Len(g) < Len(w) => ~r.ok
            /\ ~(Len(g) < Len(w)) => r.ok /\ r.packet = p /\ r.rest = Drop(g, Len(w))
<1> DEFINE n == 3 + Len(p.payload)
           w == WritePacket(p).bytes
           b == p.payload
<1>1. /\ n \in 3..(Base * Base - 1) /\ w \in Seq(Byte) /\ Len(w) = 2 + n
      /\ w[1] = PutUint16(n)[1] /\ w[2] = PutUint16(n)[2]
      /\ w[3] = PutUint16(p.id)[1] /\ w[4] = PutUint16(p.id)[2] /\ w[5] = p.flag
      /\ \A i \in 1..Len(b) : w[5 + i] = b[i]
  BY PacketBytes
<1>2. p.id \in 0..(Base * Base - 1) /\ n \in 0..(Base * Base - 1) /\ n \in Nat /\ n >= 3
  <2>1. p.id \in Nat /\ Base * Base \in Nat
    BY FormatsAssumption DEF PacketType
  <2> HIDE DEF n
  <2> QED  BY <1>1, <2>1
<1>3. b \in Seq(Byte) /\ n = 3 + Len(b) /\ Len(b) \in Nat
  BY DEF PacketType
<1>4. Starts(g, w) /\ Len(g) \in Nat
  OBVIOUS
<1> HIDE DEF n, w, b
<1>5. CASE Len(g) < 2
  <2>1. ~ReadUnsecurePacket(g).ok
    BY <1>5 DEF ReadUnsecurePacket
  <2>2. Len(g) < Len(w)
    BY <1>1, <1>2, <1>4, <1>5
  <2> QED  BY <2>1, <2>2 DEF w
<1>6. CASE ~(Len(g) < 2)
  <2>1. g[1] = w[1] /\ g[2] = w[2]
    <3>1. 1 \in 1..Len(g) /\ 1 <= Len(w) /\ 2 \in 1..Len(g) /\ 2 <= Len(w)
      BY <1>1, <1>2, <1>4, <1>6
    <3> QED  BY <1>4, <3>1 DEF Starts
  <2>2. Uint16(g, 1) = n
    <3>1. g[1] = PutUint16(n)[1] /\ g[1 + 1] = PutUint16(n)[2]
      BY <1>1, <2>1
    <3> QED  BY <1>2, <3>1, Uint16Is, Zenon
  <2>3. CASE Len(g) - 2 < n
    <3>1. ~ReadUnsecurePacket(g).ok
      BY <2>2, <2>3 DEF ReadUnsecurePacket
    <3>2. Len(g) < Len(w)
      BY <1>1, <1>2, <1>4, <2>3
    <3> QED  BY <3>1, <3>2 DEF w
  <2>4. CASE ~(Len(g) - 2 < n)
    <3>1. ~(Len(g) < Len(w)) /\ Len(g) >= 5
      BY <1>1, <1>2, <1>4, <2>4
    <3> DEFINE q == [id |-> Uint16(g, 3), flag |-> g[5], payload |-> SubSeq(g, 6, 2 + n)]
    <3>2. ReadUnsecurePacket(g) = [ok |-> TRUE, rest |-> Drop(g, 2 + n), packet |-> q]
      <4>1. ~(n < 3) /\ ~(Len(g) < 2 \/ Len(g) - 2 < Uint16(g, 1))
        BY <1>2, <1>6, <2>2, <2>4
      <4> QED  BY <2>2, <4>1, Zenon DEF ReadUnsecurePacket
    <3>3. g[3] = w[3] /\ g[4] = w[4] /\ g[5] = w[5]
      <4>1. /\ 3 \in 1..Len(g) /\ 3 <= Len(w) /\ 4 \in 1..Len(g) /\ 4 <= Len(w)
            /\ 5 \in 1..Len(g) /\ 5 <= Len(w)
        BY <1>1, <1>2, <1>4, <3>1
      <4> QED  BY <1>4, <4>1 DEF Starts
    <3>4. Uint16(g, 3) = p.id
      <4>1. g[3] = PutUint16(p.id)[1] /\ g[3 + 1] = PutUint16(p.id)[2]
        BY <1>1, <3>3
      <4> QED  BY <1>2, <4>1, Uint16Is, Zenon
    <3>5. SubSeq(g, 6, 2 + n) = b
      <4>1. Len(w) >= 5 + Len(b) /\ Len(g) >= 5 + Len(b) /\ 5 \in Nat
        BY <1>1, <1>2, <1>3, <1>4, <2>4
      <4>2. SubSeq(g, 5 + 1, 5 + Len(b)) = b
        BY <1>1, <1>3, <1>4, <4>1, PartOf
      <4>3. 5 + 1 = 6 /\ 5 + Len(b) = 2 + n
        BY <1>3
      <4> QED  BY <4>2, <4>3
    <3>6. q = p
      <4>1. q = [id |-> p.id, flag |-> p.flag, payload |-> p.payload]
        BY <1>1, <3>3, <3>4, <3>5 DEF b
      <4> HIDE DEF q
      <4> QED  BY <4>1 DEF PacketType
    <3> HIDE DEF q
    <3> QED  BY <1>1, <3>1, <3>2, <3>6 DEF w
  <2> QED  BY <2>3, <2>4
<1> QED  BY <1>5, <1>6

\* Adding and subtracting a key.
LEMMA KeyCancels ==
  ASSUME NEW x \in Byte, NEW key \in Byte
  PROVE  (((x + key) % Base) + Base - key) % Base = x
<1>1. Base \in Nat \ {0} /\ x \in 0..(Base - 1) /\ key \in 0..(Base - 1)
  BY FormatsAssumption DEF Byte
<1>2. CASE x + key < Base
  <2>1. (x + key) % Base = x + key
    BY <1>1, <1>2
  <2>2. (1 * Base + x) % Base = x
    BY <1>1, DivMod
  <2>3. x + key + Base - key = 1 * Base + x
    BY <1>1
  <2> QED  BY <2>1, <2>2, <2>3
<1>3. CASE ~(x + key < Base)
  <2>1. x + key - Base \in 0..(Base - 1) /\ x + key = 1 * Base + (x + key - Base)
    BY <1>1, <1>3
  <2>2. (1 * Base + (x + key - Base)) % Base = x + key - Base
    BY <1>1, <2>1, DivMod
  <2>3. (x + key) % Base = x + key - Base
    BY <2>1, <2>2
  <2>4. x + key - Base + Base - key = x /\ x % Base = x
    BY <1>1
  <2> QED  BY <2>3, <2>4
<1> QED  BY <1>2, <1>3

\* What is sealed is opened by its key only.
LEMMA DecryptIs ==
  ASSUME NEW key \in Byte, NEW other, NEW b \in Seq(Byte), Decrypt(other, Seal(key, b)).ok
  PROVE  Decrypt(other, Seal(key, b)).plain = b
<1> DEFINE m == [i \in DOMAIN b |-> (b[i] + key) % Base]
           v == <<1>> \o m
           c == v \o <<key>>
           d == [i \in 1..(Len(c) - Overhead) |-> (c[i + 1] + Base - other) % Base]
<1>1. c = Seal(key, b) /\ Len(b) \in Nat
  <2>1. c = Seal(key, b)
    BY Zenon DEF Seal
  <2>2. Len(b) \in Nat
    OBVIOUS
  <2> QED  BY <2>1, <2>2, Zenon
<1>2. \A i \in 1..Len(b) : m[i] = (b[i] + key) % Base
  OBVIOUS
<1>3. m \in Seq(Byte) /\ Len(m) = Len(b) /\ <<1>> \in Seq(Byte) /\ <<key>> \in Seq(Byte)
  <2>1. ASSUME NEW i \in 1..Len(b) PROVE (b[i] + key) % Base \in Byte
    <3>1. b[i] \in Int /\ key \in Int
      BY FormatsAssumption DEF Byte
    <3>2. b[i] + key \in Int
      BY <3>1
    <3> QED  BY <3>2, ModByte
  <2>2. m \in Seq(Byte) /\ Len(m) = Len(b)
    BY <2>1
  <2> QED  BY <2>2, SmallBytes
<1> HIDE DEF m
<1>4. Joined(Byte, <<1>>, m, v)
  BY <1>3, Join, Zenon
<1>5. v \in Seq(Byte) /\ Len(v) = Len(b) + 1 /\ \A i \in 1..Len(b) : v[i + 1] = m[i]
  <2>1. Len(<<1>>) = 1
    OBVIOUS
  <2> HIDE DEF v
  <2>2. v \in Seq(Byte) /\ Len(v) = 1 + Len(b) /\ \A i \in 1..Len(b) : v[1 + i] = m[i]
    BY <1>3, <1>4, <2>1 DEF Joined
  <2>3. \A i \in 1..Len(b) : 1 + i = i + 1
    BY <1>1
  <2> QED  BY <1>1, <2>2, <2>3
<1> HIDE DEF v
<1>6. Joined(Byte, v, <<key>>, c)
  BY <1>3, <1>5, Join, Zenon
<1>7. Len(c) = Len(b) + 2 /\ c[Len(b) + 2] = key /\ \A i \in 1..Len(b) : c[i + 1] = m[i]
  <2>1. Len(<<key>>) = 1 /\ <<key>>[1] = key
    OBVIOUS
  <2> HIDE DEF c
  <2>2. /\ Len(c) = Len(v) + 1 /\ (\A i \in 1..Len(v) : c[i] = v[i])
        /\ \A i \in 1..1 : c[Len(v) + i] = <<key>>[i]
    BY <1>6, <2>1 DEF Joined
  <2>3. c[Len(v) + 1] = key
    BY <2>1, <2>2
  <2>4. Len(v) + 1 = Len(b) + 2 /\ \A i \in 1..Len(b) : i + 1 \in 1..Len(v)
    BY <1>1, <1>5
  <2> QED  BY <1>5, <2>2, <2>3, <2>4
<1> HIDE DEF c, d
<1>8. Last(c) = other /\ Decrypt(other, c) = [ok |-> TRUE, plain |-> d]
  <2>1. ~(Len(c) < Overhead \/ Last(c) # other)
    BY <1>1 DEF Decrypt, Fail
  <2> QED  BY <2>1, Zenon DEF Decrypt, d
<1>9. other = key
  BY <1>1, <1>7, <1>8 DEF Last
<1>10. d = [i \in 1..Len(b) |-> (m[i] + Base - key) % Base]
  <2>1. Len(c) - Overhead = Len(b)
    BY <1>1, <1>7 DEF Overhead
  <2>2. \A i \in 1..Len(b) : c[i + 1] = m[i]
    BY <1>7
  <2>3. d = [i \in 1..Len(b) |-> (c[i + 1] + Base - key) % Base]
    BY <1>9, <2>1 DEF d
  <2> QED  BY <2>2, <2>3
<1>11. ASSUME NEW i \in 1..Len(b) PROVE d[i] = b[i]
  <2>1. d[i] = (((b[i] + key) % Base) + Base - key) % Base
    BY <1>2, <1>10
  <2>2. b[i] \in Byte
    OBVIOUS
  <2> QED  BY <2>1, <2>2, KeyCancels
<1>12. d = b
  <2>1. d = [i \in 1..Len(b) |-> b[i]]
    BY <1>10, <1>11
  <2> QED  BY <2>1
<1> QED  BY <1>1, <1>8, <1>12

-----------------------------------------------------------------------------
\* What is left behind a packet is shorter, and what is read of no bytes is no packet.
LEMMA UnsecureRest ==
  ASSUME NEW s \in Seq(Byte), ReadUnsecurePacket(s).ok
  PROVE  /\ ReadUnsecurePacket(s).rest \in Seq(Byte)
         /\ Len(ReadUnsecurePacket(s).rest) < Len(s)
<1> DEFINE n == Uint16(s, 1)
<1>1. ~(Len(s) < 2 \/ Len(s) - 2 < n) /\ ~(n < 3)
  <2>1. ~(Len(s) < 2 \/ Len(s) - 2 < n)
    BY DEF ReadUnsecurePacket
  <2>2. ~(n < 3)
    BY <2>1 DEF ReadUnsecurePacket
  <2> QED  BY <2>1, <2>2
<1>2. ReadUnsecurePacket(s).rest = Drop(s, 2 + n)
  <2>1. ReadUnsecurePacket(s) =
          [ok |-> TRUE, rest |-> Drop(s, 2 + n),
           packet |-> [id |-> Uint16(s, 3), flag |-> s[5], payload |-> SubSeq(s, 6, 2 + n)]]
    BY <1>1, Zenon DEF ReadUnsecurePacket
  <2> DEFINE p == [id |-> Uint16(s, 3), flag |-> s[5], payload |-> SubSeq(s, 6, 2 + n)]
             d == Drop(s, 2 + n)
  <2> HIDE DEF p, d, n
  <2>2. ReadUnsecurePacket(s) = [ok |-> TRUE, rest |-> d, packet |-> p]
    BY <2>1 DEF p, d, n
  <2> QED  BY <2>2 DEF d, n
<1>3. Len(s) \in Nat /\ 1 \in 1..Len(s) /\ 1 + 1 \in 1..Len(s)
  <2>1. Len(s) \in Nat
    OBVIOUS
  <2> QED  BY <1>1, <2>1
<1>4. n \in Nat
  BY <1>3, Uint16Type
<1> HIDE DEF n
<1>5. 2 + n \in Nat
  BY <1>4
<1>6. /\ Drop(s, 2 + n) \in Seq(Byte)
      /\ Len(Drop(s, 2 + n)) = IF 2 + n < Len(s) THEN Len(s) - (2 + n) ELSE 0
  BY <1>5, TakeDrop
<1>7. Len(Drop(s, 2 + n)) < Len(s)
  BY <1>1, <1>3, <1>4, <1>6
<1> QED  BY <1>2, <1>6, <1>7

\* What ReadSecurePacket makes of the packet that ReadPacket found.
LEMMA SecureIs ==
  ASSUME NEW s, NEW key
  PROVE  LET r == ReadUnsecurePacket(s)
             q == ReadSecurePacket(s, key)
         IN /\ ~r.ok => ~q.ok
            /\ r.ok /\ r.packet.payload = <<>> => q = r
            /\ r.ok /\ r.packet.payload # <<>> =>
                  IF Decrypt(key, r.packet.payload).ok
                  THEN q = [r EXCEPT !.packet.payload = Decrypt(key, r.packet.payload).plain]
                  ELSE ~q.ok
<1> DEFINE r == ReadUnsecurePacket(s)
<1>1. ReadSecurePacket(s, key) =
        IF ~r.ok \/ r.packet.payload = <<>> THEN r
        ELSE LET d == Decrypt(key, r.packet.payload)
             IN IF d.ok THEN [r EXCEPT !.packet.payload = d.plain] ELSE [ok |-> FALSE, wait |-> FALSE]
  BY Zenon DEF ReadSecurePacket, ReadPacket
<1> HIDE DEF r
<1>2. ~r.ok => ReadSecurePacket(s, key) = r
  BY <1>1, Zenon
<1>3. r.ok /\ r.packet.payload = <<>> => ReadSecurePacket(s, key) = r
  BY <1>1, Zenon
<1>4. r.ok /\ r.packet.payload # <<>> =>
        ReadSecurePacket(s, key) =
            IF Decrypt(key, r.packet.payload).ok
            THEN [r EXCEPT !.packet.payload = Decrypt(key, r.packet.payload).plain]
            ELSE [ok |-> FALSE, wait |-> FALSE]
  BY <1>1, Zenon
<1> QED  BY <1>2, <1>3, <1>4 DEF r

-----------------------------------------------------------------------------
\* A packet whose payload is opened.
LEMMA OpenedIs ==
  ASSUME NEW d, NEW a, NEW b, NEW c, NEW v, NEW r,
         r = [ok |-> TRUE, rest |-> d, packet |-> [id |-> a, flag |-> b, payload |-> c]]
  PROVE  LET q == [r EXCEPT !.packet.payload = v]
         IN q.ok /\ q.rest = d /\ q.packet = [id |-> a, flag |-> b, payload |-> v]
<1> DEFINE p == [id |-> a, flag |-> b, payload |-> c]
           o == [p EXCEPT !.payload = v]
<1>1. o = [id |-> a, flag |-> b, payload |-> v]
  OBVIOUS
<1>2. r.packet = p
  OBVIOUS
<1>3. [r EXCEPT !.packet.payload = v] = [r EXCEPT !.packet = [r.packet EXCEPT !.payload = v]]
  OBVIOUS
<1>4. r = [ok |-> TRUE, rest |-> d, packet |-> p]
  OBVIOUS
<1> HIDE DEF p
<1>5. [r EXCEPT !.packet = o] = [ok |-> TRUE, rest |-> d, packet |-> o]
  <2> HIDE DEF o
  <2>1. [[ok |-> TRUE, rest |-> d, packet |-> p] EXCEPT !.packet = o] = [ok |-> TRUE, rest |-> d, packet |-> o]
    <3>1. \A t, x, y, z : [[ok |-> t, rest |-> x, packet |-> y] EXCEPT !.packet = z] = [ok |-> t, rest |-> x, packet |-> z]
      OBVIOUS
    <3> QED  BY <3>1, Zenon
  <2> QED  BY <1>4, <2>1, Zenon
<1> QED  BY <1>1, <1>2, <1>3, <1>5

-----------------------------------------------------------------------------
UnsecureFields(s) ==
    [ok |-> TRUE, rest |-> Drop(s, 2 + Uint16(s, 1)),
     packet |-> [id |-> Uint16(s, 3), flag |-> s[5], payload |-> SubSeq(s, 6, 2 + Uint16(s, 1))]]

\* A packet that ReadUnsecurePacket returns.
LEMMA UnsecureIs == ASSUME NEW s, ReadUnsecurePacket(s).ok PROVE ReadUnsecurePacket(s) = UnsecureFields(s)
<1> DEFINE n == Uint16(s, 1)
<1>1. ~(Len(s) < 2 \/ Len(s) - 2 < n) /\ ~(n < 3)
  <2>1. ~(Len(s) < 2 \/ Len(s) - 2 < n)
    BY DEF ReadUnsecurePacket
  <2>2. ~(n < 3)
    BY <2>1 DEF ReadUnsecurePacket
  <2> QED  BY <2>1, <2>2
<1> QED  BY <1>1, Zenon DEF ReadUnsecurePacket, UnsecureFields

\* A packet that is opened differs in its payload only.
LEMMA SecureFields ==
  ASSUME NEW s, NEW key, ReadSecurePacket(s, key).ok
  PROVE  LET r == ReadUnsecurePacket(s)
             q == ReadSecurePacket(s, key)
             e == Decrypt(key, r.packet.payload)
         IN /\ r.ok /\ q.rest = r.rest
            /\ r.packet.payload = <<>> => q.packet = r.packet
            /\ r.packet.payload # <<>> =>
                  e.ok /\ q.packet = [id |-> r.packet.id, flag |-> r.packet.flag, payload |-> e.plain]
<1> DEFINE r == ReadUnsecurePacket(s)
           q == ReadSecurePacket(s, key)
           b == r.packet.payload
           e == Decrypt(key, b)
<1>1. /\ ~r.ok => ~q.ok
      /\ r.ok /\ b = <<>> => q = r
      /\ r.ok /\ b # <<>> => IF e.ok THEN q = [r EXCEPT !.packet.payload = e.plain] ELSE ~q.ok
  BY SecureIs, Zenon
<1>2. r.ok /\ q.ok
  BY <1>1
<1>3. r = UnsecureFields(s)
  BY <1>2, UnsecureIs
<1> DEFINE d == Drop(s, 2 + Uint16(s, 1))
           x == Uint16(s, 3)
           y == s[5]
           z == SubSeq(s, 6, 2 + Uint16(s, 1))
<1>4. r = [ok |-> TRUE, rest |-> d, packet |-> [id |-> x, flag |-> y, payload |-> z]]
  BY <1>3, Zenon DEF UnsecureFields
<1> HIDE DEF r, q, e, d, x, y, z
<1>5. r.rest = d /\ r.packet.id = x /\ r.packet.flag = y /\ b = z
  BY <1>4
<1>6. CASE b = <<>>
  BY <1>1, <1>2, <1>6 DEF r, q, e
<1>7. CASE b # <<>>
  <2>1. e.ok /\ q = [r EXCEPT !.packet.payload = e.plain]
    BY <1>1, <1>2, <1>7, Zenon
  <2> DEFINE v == e.plain
             u == [r EXCEPT !.packet.payload = v]
  <2> HIDE DEF v
  <2>2. u.ok /\ u.rest = d /\ u.packet = [id |-> x, flag |-> y, payload |-> v]
    BY <1>4, OpenedIs, Zenon
  <2>3. q = u
    BY <2>1 DEF v
  <2> HIDE DEF u
  <2>4. q.rest = r.rest /\ q.packet = [id |-> r.packet.id, flag |-> r.packet.flag, payload |-> e.plain]
    BY <1>5, <2>2, <2>3 DEF v
  <2> QED  BY <1>2, <1>7, <2>1, <2>4 DEF r, q, e
<1> QED  BY <1>6, <1>7

\* What is left is shorter than what there was.
LEMMA SecureRest ==
  ASSUME NEW s \in Seq(Byte), NEW key, ReadSecurePacket(s, key).ok
  PROVE  /\ ReadSecurePacket(s, key).rest \in Seq(Byte)
         /\ Len(ReadSecurePacket(s, key).rest) < Len(s)
  BY SecureFields, UnsecureRest, Zenon

\* A packet that was sealed is opened by its key, when all of it has come.
LEMMA ReadSecureIs ==
  ASSUME NEW p \in PacketType, p.id < Base * Base, NEW key \in Byte, NEW other,
         WriteSecurePacket(p, key).ok,
         NEW g \in Seq(Byte), Starts(g, WriteSecurePacket(p, key).bytes)
  PROVE  LET w == WriteSecurePacket(p, key).bytes
             q == ReadSecurePacket(g, other)
         IN /\ Len(g) < Len(w) => ~q.ok
            /\ q.ok => q.packet = p /\ q.rest = Drop(g, Len(w))
<1> DEFINE o == SealedPacket(p, key)
           w == WritePacket(o).bytes
           r == ReadUnsecurePacket(g)
           q == ReadSecurePacket(g, other)
<1>1. WriteSecurePacket(p, key) = WritePacket(o)
  BY Zenon DEF WriteSecurePacket, SealedPacket
<1>2. o \in PacketType /\ o.id = p.id /\ o.flag = p.flag
      /\ (p.payload = <<>> => o = p) /\ (p.payload # <<>> => o.payload = Seal(key, p.payload))
  <2>1. o \in PacketType
    BY SealedPacketType
  <2>2. CASE p.payload = <<>>
    BY <2>1, <2>2 DEF SealedPacket
  <2>3. CASE p.payload # <<>>
    <3> DEFINE v == Seal(key, p.payload)
    <3> HIDE DEF v
    <3>1. o = [p EXCEPT !.payload = v]
      BY <2>3 DEF SealedPacket, Encrypt, v
    <3>2. o.id = p.id /\ o.flag = p.flag /\ o.payload = v
      BY <3>1 DEF PacketType
    <3> QED  BY <2>1, <2>3, <3>2 DEF v
  <2> QED  BY <2>2, <2>3
<1> HIDE DEF o
<1>3. WritePacket(o).ok /\ Starts(g, w)
  BY <1>1
<1>4. /\ Len(g) < Len(w) => ~r.ok
      /\ ~(Len(g) < Len(w)) => r.ok /\ r.packet = o /\ r.rest = Drop(g, Len(w))
  BY <1>2, <1>3, ReadPacketIs, Zenon
<1>5. q.ok =>
        /\ r.ok /\ q.rest = r.rest
        /\ r.packet.payload = <<>> => q.packet = r.packet
        /\ r.packet.payload # <<>> =>
              /\ Decrypt(other, r.packet.payload).ok
              /\ q.packet = [id |-> r.packet.id, flag |-> r.packet.flag,
                             payload |-> Decrypt(other, r.packet.payload).plain]
  BY SecureFields, Zenon
<1> HIDE DEF w, r, q
<1>6. ASSUME q.ok PROVE q.packet = p /\ q.rest = Drop(g, Len(w))
  <2>1. r.ok /\ q.rest = r.rest /\ r.packet = o /\ r.rest = Drop(g, Len(w))
    BY <1>4, <1>5, <1>6
  <2>2. CASE p.payload = <<>>
    <3>1. o = p /\ o.payload = <<>>
      BY <1>2, <2>2
    <3> QED  BY <1>5, <1>6, <2>1, <3>1
  <2>3. CASE p.payload # <<>>
    <3>1. o.payload = Seal(key, p.payload) /\ p.payload \in Seq(Byte)
      BY <1>2, <2>3 DEF PacketType
    <3>2. o.payload # <<>>
      <4>1. Len(Seal(key, p.payload)) = Len(p.payload) + 2 /\ Len(p.payload) \in Nat
        <5>1. Len(Seal(key, p.payload)) = Len(p.payload) + 2
          BY <3>1, SealType, Zenon
        <5> QED  BY <3>1, <5>1
      <4> DEFINE v == Seal(key, p.payload)
      <4> HIDE DEF v
      <4>2. v # <<>>
        BY <4>1 DEF v
      <4> QED  BY <3>1, <4>2 DEF v
    <3>3. /\ Decrypt(other, o.payload).ok
          /\ q.packet = [id |-> o.id, flag |-> o.flag, payload |-> Decrypt(other, o.payload).plain]
      BY <1>5, <1>6, <2>1, <3>2
    <3>4. Decrypt(other, o.payload).plain = p.payload
      BY <3>1, <3>3, DecryptIs
    <3>5. q.packet = [id |-> p.id, flag |-> p.flag, payload |-> p.payload]
      BY <1>2, <3>3, <3>4
    <3> QED  BY <2>1, <3>5 DEF PacketType
  <2> QED  BY <2>2, <2>3
<1> QED  BY <1>1, <1>4, <1>5, <1>6 DEF w, r, q

-----------------------------------------------------------------------------
(* The packets in what has come.                                            *)

\* What is left behind a packet is shorter.
LEMMA PacketRest ==
  ASSUME NEW s \in Seq(Byte), PacketAt(s).ok
  PROVE  PacketAt(s).rest \in Seq(Byte) /\ Len(PacketAt(s).rest) < Len(s)
<1>1. \/ \E key : PacketAt(s) = ReadSecurePacket(s, key)
      \/ PacketAt(s) = ReadUnsecurePacket(s)
  <2>1. PacketAt(s) = ReadSecurePacket(s, IF foreign THEN Key ELSE server)
        \/ PacketAt(s) = ReadUnsecurePacket(s) \/ PacketAt(s) = ReadSecurePacket(s, server)
    BY Zenon DEF PacketAt
  <2> QED  BY <2>1, Zenon
<1>2. CASE PacketAt(s) = ReadUnsecurePacket(s)
  BY <1>2, UnsecureRest, Zenon
<1>3. ASSUME NEW key, PacketAt(s) = ReadSecurePacket(s, key)
      PROVE  PacketAt(s).rest \in Seq(Byte) /\ Len(PacketAt(s).rest) < Len(s)
  BY <1>3, SecureRest, Zenon
<1> QED  BY <1>1, <1>2, <1>3, Zenon

\* There is none in no bytes.
LEMMA NoPacket == ~PacketAt(<<>>).ok
<1> SUFFICES ASSUME PacketAt(<<>>).ok PROVE FALSE
  OBVIOUS
<1>1. <<>> \in Seq(Byte) /\ Len(<<>>) = 0
  OBVIOUS
<1>2. PacketAt(<<>>).rest \in Seq(Byte) /\ Len(PacketAt(<<>>).rest) < Len(<<>>)
  BY <1>1, PacketRest, Zenon
<1> DEFINE x == PacketAt(<<>>).rest
<1> HIDE DEF x
<1>3. x \in Seq(Byte) /\ Len(x) < 0
  BY <1>1, <1>2 DEF x
<1>4. Len(x) \in Nat
  BY <1>3
<1> QED  BY <1>3, <1>4

FromStep(f, s, i) == LET r == PacketAt(Drop(s, i))
                     IN IF r.ok THEN <<r.packet>> \o f[Len(s) - Len(r.rest)] ELSE <<>>
Froms(f, s, a) == f = [i \in a..Len(s) |-> FromStep(f, s, i)]

\* The function by which PacketsIn is defined: its values, and that there is one.
LEMMA FromsAt ==
  ASSUME NEW f, NEW s, NEW a, NEW i \in a..Len(s), Froms(f, s, a)
  PROVE  f[i] = FromStep(f, s, i)
<1> DEFINE g == [j \in a..Len(s) |-> FromStep(f, s, j)]
<1>1. f = g
  BY DEF Froms
<1>2. g[i] = FromStep(f, s, i)
  BY Zenon
<1> HIDE DEF g
<1> QED  BY <1>1, <1>2

\* Only what follows the packet at i matters for its value at i.
LEMMA FromAgrees ==
  ASSUME NEW s \in Seq(Byte), NEW i \in 0..Len(s), NEW f, NEW g, \A j \in (i + 1)..Len(s) : f[j] = g[j]
  PROVE  FromStep(f, s, i) = FromStep(g, s, i)
<1> DEFINE d == Drop(s, i)
           r == PacketAt(d)
           k == Len(s) - Len(r.rest)
<1>1. d \in Seq(Byte) /\ Len(d) = Len(s) - i /\ Len(s) \in Nat
  <2>1. i \in Nat /\ Len(s) \in Nat
    OBVIOUS
  <2>2. d \in Seq(Byte) /\ Len(d) = IF i < Len(s) THEN Len(s) - i ELSE 0
    BY <2>1, TakeDrop
  <2> QED  BY <2>1, <2>2
<1> HIDE DEF d
<1>2. r.ok => r.rest \in Seq(Byte) /\ Len(r.rest) < Len(d)
  BY <1>1, PacketRest, Zenon
<1> HIDE DEF r
<1>3. r.ok => k \in (i + 1)..Len(s)
  <2>1. r.ok => Len(r.rest) \in Nat
    BY <1>2
  <2> QED  BY <1>1, <1>2, <2>1
<1>4. r.ok => f[k] = g[k]
  BY <1>3
<1> HIDE DEF k
<1>5. FromStep(f, s, i) = IF r.ok THEN <<r.packet>> \o f[k] ELSE <<>>
  BY Zenon DEF FromStep, d, r, k
<1>6. FromStep(g, s, i) = IF r.ok THEN <<r.packet>> \o g[k] ELSE <<>>
  BY Zenon DEF FromStep, d, r, k
<1> QED  BY <1>4, <1>5, <1>6

\* The reading of packets, packet by packet, has its values at all places.
LEMMA FromsExists == ASSUME NEW s \in Seq(Byte) PROVE \E f : Froms(f, s, 0)
<1> DEFINE n == Len(s)
           L == {k \in Nat : k <= n + 1 => \E f : Froms(f, s, n + 1 - k)}
<1>0. n \in Nat
  OBVIOUS
<1>1. 0 \in L
  <2> DEFINE g == [i \in (n + 1)..n |-> 0]
  <2>1. (n + 1)..n = {} /\ n + 1 - 0 = n + 1
    BY <1>0
  <2>2. Froms(g, s, n + 1)
    BY <2>1 DEF Froms
  <2> HIDE DEF g
  <2> QED  BY <2>1, <2>2
<1>2. ASSUME NEW k \in Nat, k \in L PROVE k + 1 \in L
  <2> SUFFICES ASSUME k + 1 <= n + 1 PROVE \E f : Froms(f, s, n + 1 - (k + 1))
    OBVIOUS
  <2> DEFINE a == n + 1 - (k + 1)
  <2>1. PICK f : Froms(f, s, n + 1 - k)
    BY <1>0, <1>2
  <2>2. a \in 0..n /\ n + 1 - k = a + 1
    BY <1>0
  <2> HIDE DEF a
  <2> DEFINE g == [i \in a..n |-> IF i = a THEN FromStep(f, s, i) ELSE f[i]]
  <2>3. \A i \in (a + 1)..n : g[i] = f[i]
    BY <1>0, <2>2
  <2>4. ASSUME NEW i \in a..n PROVE g[i] = FromStep(g, s, i)
    <3>1. FromStep(f, s, i) = FromStep(g, s, i)
      <4>1. \A j \in (i + 1)..n : f[j] = g[j]
        BY <1>0, <2>2, <2>3
      <4>2. i \in 0..n
        BY <1>0, <2>2
      <4> HIDE DEF g
      <4> QED  BY <4>1, <4>2, FromAgrees
    <3>2. CASE i = a
      BY <3>1, <3>2
    <3>3. CASE i # a
      <4>1. g[i] = f[i] /\ i \in (a + 1)..n
        BY <1>0, <2>2, <3>3
      <4>2. f[i] = FromStep(f, s, i)
        BY <2>1, <2>2, <4>1, FromsAt
      <4> QED  BY <3>1, <4>1, <4>2
    <3> QED  BY <3>2, <3>3
  <2>5. g = [i \in a..n |-> g[i]]
    OBVIOUS
  <2> HIDE DEF g
  <2>6. Froms(g, s, a)
    BY <2>4, <2>5, Zenon DEF Froms
  <2> QED  BY <2>6 DEF a
<1> HIDE DEF L
<1>3. n + 1 \in L
  BY <1>0, <1>1, <1>2, NatInd
<1>4. n + 1 - (n + 1) = 0 /\ n + 1 <= n + 1 /\ n + 1 \in Nat
  BY <1>0
<1> QED  BY <1>3, <1>4 DEF L

\* The packets are the first one and those behind it.
LEMMA PacketsInIs ==
  ASSUME NEW s \in Seq(Byte)
  PROVE  \E f : PacketsIn(s) = f[0] /\ \A i \in 0..Len(s) : f[i] = FromStep(f, s, i)
<1> DEFINE f == CHOOSE f : Froms(f, s, 0)
<1>1. Froms(f, s, 0)
  BY FromsExists, Zenon
<1>2. PacketsIn(s) = f[0]
  BY Zenon DEF PacketsIn, Froms, FromStep
<1> HIDE DEF f
<1> QED  BY <1>1, <1>2, FromsAt, Zenon

-----------------------------------------------------------------------------
\* The bytes w of a packet p are read as p, once all of them have come.
Readable(p, w) ==
    \A g \in Seq(Byte) : Starts(g, w) =>
        /\ Len(g) < Len(w) => ~PacketAt(g).ok
        /\ PacketAt(g).ok => PacketAt(g).packet = p /\ PacketAt(g).rest = Drop(g, Len(w))

Matches(ws, ps) == Len(ws) <= Len(ps) /\ \A i \in 1..Len(ws) : Readable(ps[i], ws[i])

\* What has come, and then some, is the bytes w and others.
Comes(d, l, w, t) == d \o l = w \o t
Left(d, l, w, t) == Drop(d, Len(w)) \o l = t

\* Of what begins with w only w comes first, and the rest behind it.
LEMMA ComesStarts ==
  ASSUME NEW S, NEW d \in Seq(S), NEW l \in Seq(S), NEW w \in Seq(S), NEW t \in Seq(S), Comes(d, l, w, t)
  PROVE  Starts(d, w) /\ (~(Len(d) < Len(w)) => Left(d, l, w, t))
<1> DEFINE c == d \o l
<1>1. c = d \o l /\ c = w \o t
  BY Zenon DEF Comes
<1> HIDE DEF c
<1>2. Joined(S, d, l, c) /\ Joined(S, w, t, c)
  BY <1>1, Join, Zenon
<1>3. Starts(d, w)
  <2>1. \A i \in 1..Len(d) : i <= Len(w) => i \in 1..Len(w)
    OBVIOUS
  <2> QED  BY <1>2, <2>1 DEF Starts, Joined
<1>4. ASSUME ~(Len(d) < Len(w)) PROVE Left(d, l, w, t)
  <2> DEFINE e == Drop(d, Len(w))
             x == e \o l
  <2>0. Len(w) \in Nat /\ Len(d) \in Nat /\ Len(l) \in Nat /\ Len(t) \in Nat
    OBVIOUS
  <2>1. e \in Seq(S) /\ Len(e) = Len(d) - Len(w) /\ \A i \in 1..Len(e) : e[i] = d[Len(w) + i]
    BY <1>4 DEF Drop
  <2> HIDE DEF e
  <2>2. x = e \o l
    OBVIOUS
  <2> HIDE DEF x
  <2>3. Joined(S, e, l, x)
    BY <2>1, <2>2, Join, Zenon
  <2>4. x \in Seq(S) /\ Len(x) = Len(t)
    BY <1>2, <2>0, <2>1, <2>3 DEF Joined
  <2>5. ASSUME NEW i \in 1..Len(x) PROVE x[i] = t[i]
    <3>1. t[i] = c[Len(w) + i]
      BY <1>2, <2>4, <2>5 DEF Joined
    <3>2. CASE i <= Len(e)
      <4>1. x[i] = e[i] /\ e[i] = d[Len(w) + i] /\ Len(w) + i \in 1..Len(d)
        BY <2>0, <2>1, <2>3, <3>2 DEF Joined
      <4>2. c[Len(w) + i] = d[Len(w) + i]
        BY <1>2, <4>1 DEF Joined
      <4> QED  BY <3>1, <4>1, <4>2
    <3>3. CASE ~(i <= Len(e))
      <4> DEFINE j == i - Len(e)
      <4>1. j \in 1..Len(l) /\ i = Len(e) + j /\ Len(w) + i = Len(d) + j
        BY <2>0, <2>1, <2>3, <3>3 DEF Joined
      <4> HIDE DEF j
      <4>2. x[Len(e) + j] = l[j]
        BY <2>3, <4>1 DEF Joined
      <4>3. c[Len(d) + j] = l[j]
        BY <1>2, <4>1 DEF Joined
      <4> QED  BY <3>1, <4>1, <4>2, <4>3
    <3> QED  BY <3>2, <3>3
  <2>6. x = t
    BY <2>4, <2>5, SameSeq
  <2> QED  BY <2>6, Zenon DEF Left, x, e
<1> QED  BY <1>3, <1>4

\* The beginning of a sequence, as a relation.
Begins(S, a, b) == a \in Seq(S) /\ \E z \in Seq(S) : b = a \o z

\* A beginning is a prefix.
LEMMA BeginsPrefix == ASSUME NEW S, NEW a, NEW b, Begins(S, a, b) PROVE IsPrefix(a, b)
<1>1. PICK z \in Seq(S) : b = a \o z
  BY DEF Begins
<1>2. a \in Seq(S)
  BY DEF Begins
<1> QED  BY <1>1, <1>2, PrefixOf

\* The empty sequence begins every other.
LEMMA BeginsNone == ASSUME NEW S, NEW b \in Seq(S) PROVE Begins(S, <<>>, b)
<1>1. b = <<>> \o b /\ <<>> \in Seq(S)
  OBVIOUS
<1> QED  BY <1>1 DEF Begins

\* The same head, and a beginning of the rest.
LEMMA BeginsHead ==
  ASSUME NEW S, NEW b \in Seq(S), b # <<>>, NEW a, Begins(S, a, Tail(b)), NEW x, x = Head(b)
  PROVE  Begins(S, <<x>> \o a, b)
<1>1. PICK z \in Seq(S) : Tail(b) = a \o z
  BY DEF Begins
<1>2. a \in Seq(S) /\ x \in S /\ b = <<x>> \o Tail(b) /\ <<x>> \in Seq(S)
  BY DEF Begins
<1> DEFINE y == <<x>>
<1> HIDE DEF y
<1>3. y \o (a \o z) = (y \o a) \o z /\ y \o a \in Seq(S)
  BY <1>2 DEF y
<1>4. b = (y \o a) \o z
  BY <1>1, <1>2, <1>3 DEF y
<1> QED  BY <1>3, <1>4 DEF Begins, y

\* What is read of the bytes of packets begins with those packets.
Reads(f, g, l, k) ==
    \A ws \in Seq(Seq(Byte)), ps \in Seq(PacketType), i \in 0..Len(g) :
        Len(ws) = k /\ Matches(ws, ps) /\ Drop(g, i) \o l = FlattenSeq(ws) => Begins(PacketType, f[i], ps)

\* Where no Write is left, no packet is read.
LEMMA ReadsNone ==
  ASSUME NEW f, NEW g \in Seq(Byte), NEW l \in Seq(Byte), \A i \in 0..Len(g) : f[i] = FromStep(f, g, i)
  PROVE  Reads(f, g, l, 0)
<1> SUFFICES ASSUME NEW ws \in Seq(Seq(Byte)), NEW ps \in Seq(PacketType), NEW i \in 0..Len(g),
                    Len(ws) = 0, Drop(g, i) \o l = FlattenSeq(ws)
             PROVE  Begins(PacketType, f[i], ps)
  BY DEF Reads
<1> DEFINE d == Drop(g, i)
<1>1. ws = <<>>
  OBVIOUS
<1>2. d \o l = <<>>
  BY <1>1, FlattenEmpty, Zenon
<1>3. d \in Seq(Byte)
  <2>1. i \in Nat
    OBVIOUS
  <2> QED  BY <2>1, TakeDrop
<1> HIDE DEF d
<1>4. d = <<>>
  <2>1. Joined(Byte, d, l, d \o l)
    BY <1>3, Join, Zenon
  <2>2. Len(<<>>) = Len(d) + Len(l) /\ Len(d) \in Nat /\ Len(l) \in Nat
    BY <1>2, <2>1 DEF Joined
  <2>3. Len(d) = 0
    BY <2>2
  <2> QED  BY <1>3, <2>3
<1>5. f[i] = <<>>
  <2>1. f[i] = FromStep(f, g, i)
    OBVIOUS
  <2>2. ~PacketAt(Drop(g, i)).ok
    BY <1>4, NoPacket, Zenon DEF d
  <2> QED  BY <2>1, <2>2, Zenon DEF FromStep
<1> QED  BY <1>5, BeginsNone

-----------------------------------------------------------------------------
\* The others match when the first is taken away.
LEMMA MatchesTail ==
  ASSUME NEW S, NEW T, NEW ws \in Seq(S), NEW ps \in Seq(T), Matches(ws, ps), ws # <<>>
  PROVE  /\ ps # <<>> /\ Readable(Head(ps), Head(ws))
         /\ Head(ws) \in S /\ Tail(ws) \in Seq(S) /\ Tail(ps) \in Seq(T)
         /\ Len(Tail(ws)) = Len(ws) - 1 /\ Matches(Tail(ws), Tail(ps))
<1>1. Len(ws) \in Nat /\ Len(ws) # 0 /\ Len(ps) \in Nat /\ Len(ws) <= Len(ps)
      /\ \A i \in 1..Len(ws) : Readable(ps[i], ws[i])
  BY DEF Matches
<1>2. ps # <<>>
  BY <1>1
<1> DEFINE v == Tail(ws)
           q == Tail(ps)
<1>3. /\ v \in Seq(S) /\ Len(v) = Len(ws) - 1 /\ \A i \in 1..Len(v) : v[i] = ws[i + 1]
      /\ q \in Seq(T) /\ Len(q) = Len(ps) - 1 /\ \A i \in 1..Len(q) : q[i] = ps[i + 1]
      /\ Head(ws) = ws[1] /\ Head(ps) = ps[1] /\ Head(ws) \in S
  BY <1>1, <1>2
<1> HIDE DEF v, q
<1>4. ASSUME NEW i \in 1..Len(v) PROVE Readable(q[i], v[i])
  <2>1. i + 1 \in 1..Len(ws) /\ i \in 1..Len(q)
    BY <1>1, <1>3
  <2>2. Readable(ps[i + 1], ws[i + 1])
    BY <1>1, <2>1
  <2> QED  BY <1>3, <1>4, <2>1, <2>2
<1>5. Matches(v, q)
  BY <1>1, <1>3, <1>4 DEF Matches
<1>6. Readable(Head(ps), Head(ws))
  <2>1. 1 \in 1..Len(ws)
    BY <1>1
  <2> QED  BY <1>1, <1>3, <2>1
<1> QED  BY <1>2, <1>3, <1>5, <1>6 DEF v, q

\* What is left behind the first bytes of what is left.
LEMMA DropDrop ==
  ASSUME NEW S, NEW g \in Seq(S), NEW i \in 0..Len(g), NEW n \in Nat, n <= Len(Drop(g, i))
  PROVE  /\ i + n \in 0..Len(g) /\ Drop(Drop(g, i), n) = Drop(g, i + n)
         /\ Len(Drop(Drop(g, i), n)) = Len(g) - (i + n)
<1> DEFINE d == Drop(g, i)
<1>1. d \in Seq(S) /\ Len(d) = Len(g) - i /\ Len(g) \in Nat /\ i \in Nat /\ \A k \in 1..Len(d) : d[k] = g[k + i]
  BY DEF Drop
<1> HIDE DEF d
<1> DEFINE a == Drop(d, n)
           b == Drop(g, i + n)
<1>2. a \in Seq(S) /\ Len(a) = Len(d) - n /\ \A k \in 1..Len(a) : a[k] = d[k + n]
  BY <1>1 DEF Drop, d
<1>3. b \in Seq(S) /\ Len(b) = Len(g) - (i + n) /\ \A k \in 1..Len(b) : b[k] = g[k + (i + n)]
  BY <1>1 DEF Drop, d
<1> HIDE DEF a, b
<1>4. ASSUME NEW k \in 1..Len(a) PROVE a[k] = b[k]
  <2>1. k + n \in 1..Len(d) /\ k \in 1..Len(b) /\ (k + n) + i = k + (i + n)
    BY <1>1, <1>2, <1>3
  <2>2. a[k] = d[k + n] /\ d[k + n] = g[(k + n) + i] /\ b[k] = g[k + (i + n)]
    BY <1>1, <1>2, <1>3, <2>1
  <2> QED  BY <2>1, <2>2
<1>5. a = b
  <2>1. Len(a) = Len(b)
    BY <1>1, <1>2, <1>3
  <2> QED  BY <1>2, <1>3, <1>4, <2>1, SameSeq, Zenon
<1> QED  BY <1>1, <1>2, <1>5 DEF a, b, d

\* If it holds for k slices it holds for one more.
LEMMA ReadsMore ==
  ASSUME NEW f, NEW g \in Seq(Byte), NEW l \in Seq(Byte), \A i \in 0..Len(g) : f[i] = FromStep(f, g, i),
         NEW k \in Nat, Reads(f, g, l, k)
  PROVE  Reads(f, g, l, k + 1)
<1> SUFFICES ASSUME NEW ws \in Seq(Seq(Byte)), NEW ps \in Seq(PacketType), NEW i \in 0..Len(g),
                    Len(ws) = k + 1, Matches(ws, ps), Drop(g, i) \o l = FlattenSeq(ws)
             PROVE  Begins(PacketType, f[i], ps)
  BY DEF Reads
<1> DEFINE d == Drop(g, i)
           w == Head(ws)
           t == FlattenSeq(Tail(ws))
           r == PacketAt(d)
<1>1. ws # <<>>
  BY SMT
<1>2. /\ ps # <<>> /\ Readable(Head(ps), w) /\ w \in Seq(Byte)
      /\ Tail(ws) \in Seq(Seq(Byte)) /\ Tail(ps) \in Seq(PacketType)
      /\ Len(Tail(ws)) = Len(ws) - 1 /\ Matches(Tail(ws), Tail(ps))
  BY <1>1, MatchesTail, Zenon
<1>3. d \in Seq(Byte)
  <2>1. i \in Nat
    OBVIOUS
  <2> QED  BY <2>1, TakeDrop
<1>4. t \in Seq(Byte)
  BY <1>2, FlattenType, Zenon
<1>5. Comes(d, l, w, t)
  <2>1. FlattenSeq(ws) = w \o t
    BY <1>1, FlattenHead, Zenon
  <2> QED  BY <2>1, Zenon DEF Comes
<1>6. Starts(d, w) /\ (~(Len(d) < Len(w)) => Left(d, l, w, t))
  BY <1>2, <1>3, <1>4, <1>5, ComesStarts, Zenon
<1>7. f[i] = IF r.ok THEN <<r.packet>> \o f[Len(g) - Len(r.rest)] ELSE <<>>
  BY Zenon DEF FromStep
<1>8. CASE ~r.ok
  <2>1. f[i] = <<>>
    BY <1>7, <1>8, Zenon
  <2> QED  BY <2>1, BeginsNone
<1>9. CASE r.ok
  <2>1. ~(Len(d) < Len(w)) /\ r.packet = Head(ps) /\ r.rest = Drop(d, Len(w))
    BY <1>2, <1>3, <1>6, <1>9, Zenon DEF Readable
  <2>2. Left(d, l, w, t)
    BY <1>6, <2>1, Zenon
  <2> DEFINE n == Len(w)
             j == i + n
  <2>3. n \in Nat /\ n <= Len(d)
    <3>1. Len(d) \in Nat /\ Len(w) \in Nat
      BY <1>2, <1>3
    <3> QED  BY <2>1, <3>1
  <2>4. j \in 0..Len(g) /\ Drop(d, n) = Drop(g, j) /\ Len(Drop(d, n)) = Len(g) - j
    BY <2>3, DropDrop, ZenonT(40)
  <2>5. Len(g) - Len(r.rest) = j
    <3>1. Len(r.rest) = Len(g) - j
      BY <2>1, <2>4, Zenon
    <3>2. Len(g) \in Nat /\ j \in Nat
      BY <2>4
    <3> HIDE DEF j, r
    <3> QED  BY <3>1, <3>2
  <2>6. Drop(g, j) \o l = t
    BY <2>2, <2>4, Zenon DEF Left
  <2>7. Len(Tail(ws)) = k
    BY <1>2, SMT
  <2>8. Begins(PacketType, f[j], Tail(ps))
    BY <1>2, <2>4, <2>6, <2>7, Zenon DEF Reads
  <2>9. Begins(PacketType, <<r.packet>> \o f[j], ps)
    BY <1>2, <2>1, <2>8, BeginsHead, Zenon
  <2>10. f[i] = <<r.packet>> \o f[j]
    BY <1>7, <1>9, <2>5, Zenon
  <2> QED  BY <2>9, <2>10, Zenon
<1> QED  BY <1>8, <1>9

\* The packets in what has come are the first of those that were written.
LEMMA PacketsCome ==
  ASSUME NEW g \in Seq(Byte), NEW l \in Seq(Byte), NEW ws \in Seq(Seq(Byte)), NEW ps \in Seq(PacketType),
         Matches(ws, ps), g \o l = FlattenSeq(ws)
  PROVE  IsPrefix(PacketsIn(g), ps)
<1>1. PICK f : PacketsIn(g) = f[0] /\ \A i \in 0..Len(g) : f[i] = FromStep(f, g, i)
  BY PacketsInIs
<1> DEFINE L == {k \in Nat : Reads(f, g, l, k)}
<1>2. 0 \in L
  BY <1>1, ReadsNone
<1>3. ASSUME NEW k \in Nat, k \in L PROVE k + 1 \in L
  <2>1. Reads(f, g, l, k + 1)
    BY <1>1, <1>3, ReadsMore, Zenon
  <2>2. k + 1 \in Nat
    OBVIOUS
  <2> QED  BY <2>1, <2>2
<1> HIDE DEF L
<1>4. Len(ws) \in L
  <2>1. Nat \subseteq L
    BY <1>2, <1>3, NatInd, Zenon
  <2>2. Len(ws) \in Nat
    OBVIOUS
  <2> QED  BY <2>1, <2>2
<1>5. Drop(g, 0) = g /\ 0 \in 0..Len(g)
  BY DEF Drop
<1>6. Drop(g, 0) \o l = FlattenSeq(ws)
  BY <1>5, Zenon
<1>7. Begins(PacketType, f[0], ps)
  BY <1>4, <1>5, <1>6, Zenon DEF Reads, L
<1>8. IsPrefix(f[0], ps)
  BY <1>7, BeginsPrefix, Zenon
<1> QED  BY <1>1, <1>8, Zenon

\* The first of them, too.
LEMMA FirstComes ==
  ASSUME NEW g \in Seq(Byte), NEW l \in Seq(Byte), NEW ws \in Seq(Seq(Byte)), NEW ps \in Seq(PacketType),
         Matches(ws, ps), g \o l = FlattenSeq(ws), PacketAt(g).ok
  PROVE  ps # <<>> /\ PacketAt(g).packet = Head(ps)
<1>1. ws # <<>>
  <2> SUFFICES ASSUME ws = <<>> PROVE FALSE
    OBVIOUS
  <2>1. g \o l = <<>>
    BY FlattenEmpty, Zenon
  <2>2. Joined(Byte, g, l, g \o l)
    BY Join, Zenon
  <2>3. Len(<<>>) = Len(g) + Len(l) /\ Len(g) \in Nat /\ Len(l) \in Nat
    BY <2>1, <2>2 DEF Joined
  <2>4. Len(g) = 0
    BY <2>3
  <2>5. g = <<>>
    BY <2>4
  <2> QED  BY <2>5, NoPacket, Zenon
<1> DEFINE w == Head(ws)
           t == FlattenSeq(Tail(ws))
<1>2. ps # <<>> /\ Readable(Head(ps), w) /\ w \in Seq(Byte) /\ Tail(ws) \in Seq(Seq(Byte))
  BY <1>1, MatchesTail, Zenon
<1>3. t \in Seq(Byte)
  BY <1>2, FlattenType, Zenon
<1>4. Comes(g, l, w, t)
  <2>1. FlattenSeq(ws) = w \o t
    BY <1>1, FlattenHead, Zenon
  <2> QED  BY <2>1, Zenon DEF Comes
<1>5. Starts(g, w)
  BY <1>2, <1>3, <1>4, ComesStarts, Zenon
<1> QED  BY <1>2, <1>5, Zenon DEF Readable

-----------------------------------------------------------------------------
(* Where the bytes come from.                                               *)

\* All that the writing end has to write.
Origin ==
    CASE step = "open" /\ via = "" -> Down
      [] step = "open" /\ via # "" ->
             IF path = "vless" THEN UpHeader(Understands) ELSE Written(Sealed(UpPackets(Understands), Key))
      [] OTHER -> <<>>

\* Who asks, on which path and at which step.
Asker ==
    /\ IF path = "raw" THEN via \in {"", "tls"} /\ step # "refused"
       ELSE via \in (IF foreign THEN {""} ELSE {"socks", "CONNECT", "GET", "udp"})
    /\ step \in {"asks", "open", "refused", "looked"}
    /\ step \in {"open", "refused"} => via \in {"", "socks", "CONNECT", "GET"}
    /\ step = "open" /\ via # "" => Understands.ok
    /\ step = "refused" => via # "" /\ ~Understands.ok

Source == sent \o FlattenSeq(todo) = FlattenSeq(Origin) /\ Asker

\* The operators of the request, when it stays.
LEMMA RequestStays ==
  ASSUME UNCHANGED request, UNCHANGED foreign
  PROVE  Origin' = Origin /\ (Asker <=> Asker')
<1>1. UNCHANGED <<path, step, via, ask, seen, data, server>>
  BY DEF request
<1>2. Understands' = Understands
  BY <1>1, Zenon DEF Understands, Asks, Asked, Says
<1>3. Down' = Down
  BY <1>1, Zenon DEF Down, DownPackets, Stream
<1>4. \A t : UpPackets(t)' = UpPackets(t) /\ UpHeader(t)' = UpHeader(t)
  BY <1>1, Zenon DEF UpPackets, UpHeader, Stream
<1> QED  BY <1>1, <1>2, <1>3, <1>4 DEF Origin, Asker

\* What is written is no longer to be written.
LEMMA WriteSource ==
  ASSUME Inv, Source, NEW b \in Seq(Byte), NEW rest \in Seq(Byte), sent' = sent \o b,
         FlattenSeq(todo) = b \o rest, FlattenSeq(todo') = rest, UNCHANGED request, UNCHANGED foreign
  PROVE  Source'
<1>1. sent \in Seq(Byte)
  BY DEF Inv, ConnectionTypes
<1>2. (sent \o b) \o rest = sent \o (b \o rest)
  BY <1>1
<1>3. sent' \o FlattenSeq(todo') = sent \o FlattenSeq(todo)
  BY <1>2, Zenon
<1>4. Origin' = Origin /\ Asker'
  BY RequestStays DEF Source
<1>5. sent \o FlattenSeq(todo) = FlattenSeq(Origin)
  BY DEF Source
<1>6. (sent \o FlattenSeq(todo) = FlattenSeq(Origin))'
  BY <1>3, <1>4, <1>5, Zenon
<1> QED  BY <1>4, <1>6, Zenon DEF Source

\* Other steps leave both.
LEMMA SourceStays ==
  ASSUME Source, UNCHANGED <<sent, todo, foreign>>, UNCHANGED request
  PROVE  Source'
<1>1. Origin' = Origin /\ Asker'
  BY RequestStays DEF Source
<1> QED  BY <1>1 DEF Source

\* The strategy writes the next of its slices.
LEMMA HeadWritten ==
  ASSUME Inv, Source, todo # <<>>, NEW m, Sends(Head(todo), m), todo' = Tail(todo), UNCHANGED request
  PROVE  Source'
<1>1. todo \in Seq(Seq(Byte)) /\ Head(todo) \in Seq(Byte) /\ Tail(todo) \in Seq(Seq(Byte))
  BY HeadTail DEF Inv, ConnectionTypes
<1>2. FlattenSeq(todo) = Head(todo) \o FlattenSeq(Tail(todo)) /\ FlattenSeq(Tail(todo)) \in Seq(Byte)
  BY <1>1, FlattenHead, FlattenType, Zenon
<1>3. sent' = sent \o Head(todo) /\ UNCHANGED foreign
  BY DEF Sends
<1>4. FlattenSeq(todo') = FlattenSeq(Tail(todo))
  BY Zenon
<1> QED  BY <1>1, <1>2, <1>3, <1>4, WriteSource, Zenon

\* A server writes the next of its slices.
LEMMA ForeignWritten ==
  ASSUME Inv, Source, ForeignSends, UNCHANGED request
  PROVE  Source'
<1> DEFINE all == FlattenSeq(todo)
<1>1. PICK n \in 0..Fewer(MaxFrame, Len(all)) :
            /\ sent' = sent \o Take(all, n) /\ UNCHANGED foreign
            /\ todo' = IF n = Len(all) THEN <<>> ELSE <<Drop(all, n)>>
  BY DEF ForeignSends, Sends
<1>2. all \in Seq(Byte)
  BY FlattenType DEF Inv, ConnectionTypes
<1> DEFINE a == all
<1>3. a = all
  OBVIOUS
<1> HIDE DEF a
<1>4. n \in Nat /\ n <= Len(a) /\ Len(a) \in Nat
  BY <1>2, <1>3, ConnectionsAssumption DEF Fewer
<1>5. Take(a, n) \in Seq(Byte) /\ Drop(a, n) \in Seq(Byte) /\ a = Take(a, n) \o Drop(a, n)
  BY <1>2, <1>3, <1>4, TakeDrop
<1>6. FlattenSeq(todo') = Drop(a, n)
  <2>1. CASE n = Len(a)
    <3>1. Drop(a, n) = <<>>
      BY <1>2, <1>3, <1>4, <2>1 DEF Drop
    <3>2. todo' = <<>>
      BY <1>1, <1>3, <2>1
    <3> QED  BY <3>1, <3>2, FlattenEmpty, Zenon
  <2>2. CASE n # Len(a)
    <3>1. todo' = <<Drop(a, n)>>
      BY <1>1, <1>3, <2>2
    <3> QED  BY <1>5, <3>1, FlattenOne, Zenon
  <2> QED  BY <2>1, <2>2
<1> QED  BY <1>1, <1>3, <1>5, <1>6, WriteSource, Zenon

\* A request that is understood gives the writing end what it has to write.
LEMMA RequestSource ==
  ASSUME Inv, Source, Request
  PROVE  Source'
<1>1. /\ step = "asks" /\ via \in {"socks", "CONNECT", "GET"}
      /\ UNCHANGED <<path, via, ask, data, server, foreign, sent>>
  BY DEF Request
<1>2. Understands' = Understands
  BY <1>1, Zenon DEF Understands, Asks, Asked, Says
<1>3. \A t : UpPackets(t)' = UpPackets(t) /\ UpHeader(t)' = UpHeader(t)
  BY <1>1, Zenon DEF UpPackets, UpHeader, Stream
<1>4. path # "raw" /\ ~foreign
  <2>0. Asker
    BY DEF Source
  <2>1. path # "raw"
    BY <1>1, <2>0 DEF Asker
  <2>2. via \in (IF foreign THEN {""} ELSE {"socks", "CONNECT", "GET", "udp"})
    BY <2>0, <2>1 DEF Asker
  <2>3. ~foreign
    <3> SUFFICES ASSUME foreign PROVE FALSE
      OBVIOUS
    <3>1. via \in {""}
      BY <2>2, Zenon
    <3> QED  BY <1>1, <3>1
  <2> QED  BY <2>1, <2>3
<1>5. sent \o FlattenSeq(todo) = <<>>
  <2>1. Origin = <<>>
    BY <1>1 DEF Origin
  <2> QED  BY <2>1, FlattenEmpty, Zenon DEF Source
<1>6. sent = <<>> /\ FlattenSeq(todo) = <<>>
  <2>1. sent \in Seq(Byte) /\ FlattenSeq(todo) \in Seq(Byte)
    BY FlattenType DEF Inv, ConnectionTypes
  <2>2. Joined(Byte, sent, FlattenSeq(todo), sent \o FlattenSeq(todo))
    BY <2>1, Join, Zenon
  <2>3. Len(sent) = 0 /\ Len(FlattenSeq(todo)) = 0
    BY <1>5, <2>2 DEF Joined
  <2> QED  BY <2>1, <2>3
<1>7. Asker'
  <2>1. step' = IF Understands.ok THEN "open" ELSE "refused"
    BY DEF Request
  <2>2. UNCHANGED <<path, via, foreign>> /\ via' \in {"socks", "CONNECT", "GET"}
    BY <1>1
  <2> DEFINE x == Understands
  <2>3. x' = x
    BY <1>2
  <2>4. step' = IF x.ok THEN "open" ELSE "refused"
    BY <2>1
  <2>5. Asker' <=> /\ IF path = "raw" THEN via \in {"", "tls"} /\ step' # "refused"
                      ELSE via \in (IF foreign THEN {""} ELSE {"socks", "CONNECT", "GET", "udp"})
                   /\ step' \in {"asks", "open", "refused", "looked"}
                   /\ step' \in {"open", "refused"} => via \in {"", "socks", "CONNECT", "GET"}
                   /\ step' = "open" /\ via # "" => x.ok
                   /\ step' = "refused" => via # "" /\ ~x.ok
    BY <2>2, <2>3, Zenon DEF Asker
  <2> HIDE DEF x
  <2>6. via \in {"socks", "CONNECT", "GET"} /\ path # "raw" /\ ~foreign
    BY <1>1, <1>4
  <2> QED  BY <2>4, <2>5, <2>6
<1>8. CASE Understands.ok
  <2>1. /\ step' = "open"
        /\ todo' = IF path = "vless" THEN UpHeader(Understands) ELSE Written(Sealed(UpPackets(Understands), Key))
    BY <1>8, Zenon DEF Request
  <2>2. Origin' = todo'
    BY <1>1, <1>2, <1>3, <2>1 DEF Origin
  <2>3. todo' \in Seq(Seq(Byte))
    <3>1. RequestTypes
      BY DEF Inv
    <3> QED  BY <1>1, <1>8, <2>1, <3>1, UpType, Zenon
  <2>4. FlattenSeq(todo') \in Seq(Byte)
    BY <2>3, FlattenType, Zenon
  <2>5. <<>> \o FlattenSeq(todo') = FlattenSeq(todo')
    <3> DEFINE x == FlattenSeq(todo')
    <3>1. x \in Seq(Byte)
      BY <2>4
    <3> HIDE DEF x
    <3>2. <<>> \o x = x
      BY <3>1
    <3> QED  BY <3>2 DEF x
  <2>6. sent' = <<>>
    BY <1>1, <1>6
  <2> QED  BY <1>7, <2>2, <2>5, <2>6, Zenon DEF Source
<1>9. CASE ~Understands.ok
  <2>1. step' = "refused" /\ todo' = todo
    BY <1>9 DEF Request
  <2>2. Origin' = <<>>
    BY <2>1 DEF Origin
  <2> QED  BY <1>1, <1>5, <1>7, <2>1, <2>2, FlattenEmpty, Zenon DEF Source
<1> QED  BY <1>8, <1>9

\* A look leaves nothing to write.
LEMMA LookSource ==
  ASSUME Inv, Source, Look
  PROVE  Source'
<1>1. /\ step = "asks" /\ step' = "looked" /\ via \in {"udp", "tls"}
      /\ UNCHANGED <<path, via, ask, data, server, kind, foreign, todo, sent>>
  BY DEF Look, connection
<1>2. Origin = <<>> /\ Origin' = <<>>
  BY <1>1 DEF Origin
<1>3. Asker'
  BY <1>1 DEF Source, Asker
<1> QED  BY <1>1, <1>2, <1>3, Zenon DEF Source

\* Every step keeps Source.
LEMMA SourceStep ==
  ASSUME Inv, Source, [Next]_vars
  PROVE  Source'
<1>1. CASE UNCHANGED vars
  BY <1>1, SourceStays DEF vars, connection
<1>2. CASE ConnectionStep /\ UNCHANGED request
  <2>1. CASE WriteConn
    <3>1. todo # <<>> /\ todo' = Tail(todo) /\ \E m : Sends(Head(todo), m)
      BY <2>1, Zenon DEF WriteConn
    <3> QED  BY <1>2, <3>1, HeadWritten, Zenon
  <2>2. CASE WriteMultiBuffer
    <3>1. todo # <<>> /\ todo' = Tail(todo) /\ \E m : Sends(Head(todo), m)
      BY <2>2, Zenon DEF WriteMultiBuffer
    <3> QED  BY <1>2, <3>1, HeadWritten, Zenon
  <2>3. CASE ForeignSends
    BY <1>2, <2>3, ForeignWritten, Zenon
  <2>4. CASE CloseConn \/ Break \/ ReadStep
    <3>1. UNCHANGED <<sent, todo, foreign>>
      <4>1. CASE CloseConn \/ Break \/ ReadEnds
        BY <4>1 DEF CloseConn, Break, ReadEnds, Same
      <4>2. ASSUME NEW n \in ReadSizes, ReadAdapter(n) PROVE UNCHANGED <<sent, todo, foreign>>
        BY <4>2 DEF ReadAdapter, Same
      <4>3. ASSUME NEW n \in ReadSizes, ReadWs(n) PROVE UNCHANGED <<sent, todo, foreign>>
        BY <4>3 DEF ReadWs, Same
      <4>4. ASSUME NEW n \in ReadSizes, ReadBuffered(n) PROVE UNCHANGED <<sent, todo, foreign>>
        BY <4>4 DEF ReadBuffered, Same
      <4>5. CASE getReader \/ ReadMultiBuffer
        BY <4>5 DEF getReader, ReadMultiBuffer, Same
      <4> QED  BY <2>4, <4>1, <4>2, <4>3, <4>4, <4>5, Zenon DEF ReadStep
    <3> QED  BY <1>2, <3>1, SourceStays, Zenon
  <2> QED  BY <1>2, <2>1, <2>2, <2>3, <2>4, Zenon DEF ConnectionStep
<1> QED  BY <1>1, <1>2, RequestSource, LookSource, Zenon DEF Next

\* At first all is to be written, or nothing before a request.
LEMMA InitSource == ASSUME Init PROVE Source
<1>1. Asker
  <2>1. step \in {"open", "asks"} /\ foreign \in BOOLEAN /\ path \in Paths[kind] /\ kind \in Kinds
    BY Zenon DEF Init, ConnectionInit
  <2>2. CASE foreign
    <3>1. step = "open" /\ via = ""
      BY <2>2 DEF Init
    <3> QED  BY <2>2, <3>1 DEF Asker
  <2>3. CASE ~foreign /\ path = "raw"
    <3>1. \/ step = "open" /\ via = "" /\ ask = Fail /\ todo = Down
          \/ step = "asks" /\ via = "tls" /\ ask \in Hellos /\ todo = <<>>
      BY <2>3, ZenonT(40) DEF Init
    <3> QED  BY <2>3, <3>1 DEF Asker
  <2>4. CASE ~foreign /\ path # "raw"
    <3>1. step = "asks" /\ via \in {"socks", "CONNECT", "GET", "udp"}
      BY <2>4 DEF Init, Targets
    <3> QED  BY <2>4, <3>1 DEF Asker
  <2> QED  BY <2>2, <2>3, <2>4
<1>2. todo = Origin
  <2>1. \/ step = "open" /\ via = "" /\ todo = Down
        \/ step = "asks" /\ todo = <<>>
    BY Zenon DEF Init
  <2> QED  BY <2>1 DEF Origin
<1>3. FlattenSeq(todo) \in Seq(Byte)
  <2>1. Inv
    BY InitInv
  <2> QED  BY <2>1, FlattenType DEF Inv, ConnectionTypes
<1>4. <<>> \o FlattenSeq(todo) = FlattenSeq(todo)
  <2> DEFINE x == FlattenSeq(todo)
  <2>1. x \in Seq(Byte)
    BY <1>3
  <2> HIDE DEF x
  <2>2. <<>> \o x = x
    BY <2>1
  <2> QED  BY <2>2 DEF x
<1>5. sent = <<>>
  BY DEF Init, ConnectionInit
<1> QED  BY <1>1, <1>2, <1>4, <1>5, Zenon DEF Source

\* What was written and what is still to be written are what the writing end has to write.
THEOREM Sources == Spec => []Source
<1>1. Init => Source
  BY InitSource
<1>2. Inv /\ Source /\ [Next]_vars => Source'
  BY SourceStep
<1> QED  BY <1>1, <1>2, Invariant, PTL DEF Spec

\* What is to be written are slices of bytes.
LEMMA OriginType == ASSUME Inv, Source PROVE Origin \in Seq(Seq(Byte))
<1>1. RequestTypes /\ Asker
  BY DEF Inv, Source
<1>2. CASE step = "open" /\ via = ""
  BY <1>1, <1>2, DownType DEF Origin
<1>3. CASE step = "open" /\ via # ""
  <2>1. Origin = IF path = "vless" THEN UpHeader(Understands) ELSE Written(Sealed(UpPackets(Understands), Key))
    BY <1>3, Zenon DEF Origin
  <2>2. via \in {"socks", "CONNECT", "GET"} /\ Understands.ok
    BY <1>1, <1>3 DEF Asker
  <2> QED  BY <1>1, <2>1, <2>2, UpType, Zenon
<1>4. CASE step # "open"
  <2>1. Origin = <<>>
    BY <1>4 DEF Origin
  <2> QED  BY <2>1
<1> QED  BY <1>2, <1>3, <1>4

\* What has been read, and then some, is all that there is to write.
LEMMA GotFrom ==
  ASSUME Inv, Source
  PROVE  \E l \in Seq(Byte) : got \o l = FlattenSeq(Origin)
<1>1. PICK lost \in Seq(Byte) : sent = got \o (Held \o lost)
  BY DEF Inv, Flow
<1> DEFINE t == FlattenSeq(todo)
           h == Held
           g == got
<1>2. h \in Seq(Byte) /\ t \in Seq(Byte) /\ g \in Seq(Byte)
  BY HeldType, FlattenType DEF Inv, ConnectionTypes
<1>3. (g \o (h \o lost)) \o t = FlattenSeq(Origin)
  BY <1>1 DEF Source
<1> HIDE DEF h, t, g
<1> DEFINE y == h \o lost
<1>4. y \in Seq(Byte)
  BY <1>2
<1>5. (g \o y) \o t = FlattenSeq(Origin)
  BY <1>3
<1> HIDE DEF y
<1>6. (g \o y) \o t = g \o (y \o t) /\ y \o t \in Seq(Byte)
  BY <1>2, <1>4
<1>7. g \o (y \o t) = FlattenSeq(Origin)
  BY <1>5, <1>6, Zenon
<1> QED  BY <1>6, <1>7, Zenon DEF g

-----------------------------------------------------------------------------
(* The packets of a stream, from one end to the other.                      *)

\* A sealed packet is readable where packets are opened, a plain one where they are not.
LEMMA SealedReadable ==
  ASSUME NEW p \in PacketType, p.id < Base * Base, NEW key \in Byte, WriteSecurePacket(p, key).ok,
         path = "goremote" \/ ~foreign
  PROVE  Readable(p, WriteSecurePacket(p, key).bytes)
<1> DEFINE w == WriteSecurePacket(p, key).bytes
<1> SUFFICES ASSUME NEW g \in Seq(Byte), Starts(g, w)
             PROVE  /\ Len(g) < Len(w) => ~PacketAt(g).ok
                    /\ PacketAt(g).ok => PacketAt(g).packet = p /\ PacketAt(g).rest = Drop(g, Len(w))
  BY Zenon DEF Readable
<1>1. \E other : PacketAt(g) = ReadSecurePacket(g, other)
  <2>1. PacketAt(g) = ReadSecurePacket(g, IF foreign THEN Key ELSE server)
        \/ PacketAt(g) = ReadSecurePacket(g, server)
    BY Zenon DEF PacketAt
  <2> QED  BY <2>1, Zenon
<1>2. PICK other : PacketAt(g) = ReadSecurePacket(g, other)
  BY <1>1, Zenon
<1>3. /\ Len(g) < Len(w) => ~ReadSecurePacket(g, other).ok
      /\ ReadSecurePacket(g, other).ok =>
            ReadSecurePacket(g, other).packet = p /\ ReadSecurePacket(g, other).rest = Drop(g, Len(w))
  BY ReadSecureIs, Zenon
<1> QED  BY <1>2, <1>3, Zenon

\* A packet is found as WritePacket wrote it.
LEMMA PlainReadable ==
  ASSUME NEW p \in PacketType, p.id < Base * Base, WritePacket(p).ok, path # "goremote", foreign
  PROVE  Readable(p, WritePacket(p).bytes)
<1> DEFINE w == WritePacket(p).bytes
<1> SUFFICES ASSUME NEW g \in Seq(Byte), Starts(g, w)
             PROVE  /\ Len(g) < Len(w) => ~PacketAt(g).ok
                    /\ PacketAt(g).ok => PacketAt(g).packet = p /\ PacketAt(g).rest = Drop(g, Len(w))
  BY Zenon DEF Readable
<1>1. PacketAt(g) = ReadUnsecurePacket(g)
  BY Zenon DEF PacketAt
<1>2. /\ Len(g) < Len(w) => ~ReadUnsecurePacket(g).ok
      /\ ~(Len(g) < Len(w)) =>
            /\ ReadUnsecurePacket(g).ok /\ ReadUnsecurePacket(g).packet = p
            /\ ReadUnsecurePacket(g).rest = Drop(g, Len(w))
  BY ReadPacketIs, Zenon
<1> QED  BY <1>1, <1>2, Zenon

\* The packets of a stream have an id of two bytes.
LEMMA StreamIds ==
  ASSUME NEW first \in PacketType, first.id = 9, data \in Seq(Byte)
  PROVE  \A i \in 1..3 : Stream(first)[i] \in PacketType /\ Stream(first)[i].id < Base * Base
<1>1. 9 < Base * Base
  <2>1. Base \in Nat /\ Base >= 8
    BY FormatsAssumption
  <2>2. Base * Base >= 8 * 8
    BY <2>1, SMTT(30)
  <2> QED  BY <2>1, <2>2
<1>2. /\ [id |-> 9, flag |-> 3, payload |-> data] \in PacketType
      /\ [id |-> 9, flag |-> 5, payload |-> <<>>] \in PacketType
  BY DEF PacketType
<1> DEFINE a == [id |-> 9, flag |-> 3, payload |-> data]
           b == [id |-> 9, flag |-> 5, payload |-> <<>>]
<1>3. a.id = 9 /\ b.id = 9
  OBVIOUS
<1>4. Stream(first) = <<first, a, b>>
  BY Zenon DEF Stream
<1> HIDE DEF a, b
<1>5. Stream(first)[1] = first /\ Stream(first)[2] = a /\ Stream(first)[3] = b
  BY <1>4
<1>6. \A i \in 1..3 : i = 1 \/ i = 2 \/ i = 3
  OBVIOUS
<1> DEFINE m == Base * Base
<1>7. first.id < m /\ a.id < m /\ b.id < m
  BY <1>1, <1>3
<1> HIDE DEF m
<1>8. \A i \in 1..3 : Stream(first)[i] \in PacketType /\ Stream(first)[i].id < m
  BY <1>2, <1>5, <1>6, <1>7 DEF a, b
<1> QED  BY <1>8 DEF m

\* The packets that are written can be read.
LEMMA WrittenMatches ==
  ASSUME NEW ps, NEW n \in Nat, Len(ps) = n, NEW out, Len(out) = n,
         \A i \in 1..n : out[i].ok => Readable(ps[i], out[i].bytes)
  PROVE  Matches(Written(out), ps)
<1>1. PICK k \in 0..n : Written(out) = [i \in 1..k |-> out[i].bytes] /\ \A i \in 1..k : out[i].ok
  BY WrittenIs
<1> DEFINE w == [i \in 1..k |-> out[i].bytes]
<1>2. Len(w) = k /\ \A i \in 1..k : w[i] = out[i].bytes /\ i \in 1..n
  OBVIOUS
<1>3. w = Written(out)
  BY <1>1
<1> HIDE DEF w
<1>4. \A i \in 1..k : Readable(ps[i], w[i])
  BY <1>1, <1>2
<1>5. Len(w) <= Len(ps)
  BY <1>2
<1>6. Matches(w, ps)
  BY <1>2, <1>4, <1>5 DEF Matches
<1> QED  BY <1>3, <1>6

\* Encrypted packets that were written are found.
LEMMA SealedMatches ==
  ASSUME NEW first \in PacketType, first.id = 9, data \in Seq(Byte), NEW key \in Byte,
         path = "goremote" \/ ~foreign
  PROVE  Matches(Written(Sealed(Stream(first), key)), Stream(first))
<1> DEFINE ps == Stream(first)
           out == Sealed(ps, key)
<1>1. Len(ps) = 3 /\ \A i \in 1..3 : ps[i] \in PacketType /\ ps[i].id < Base * Base
  BY StreamType, StreamIds
<1>2. ps \in Seq(PacketType)
  BY StreamType
<1> HIDE DEF ps
<1>3. Len(out) = 3 /\ \A i \in 1..3 : out[i] = WriteSecurePacket(ps[i], key)
  <2>1. out = [i \in 1..3 |-> WriteSecurePacket(ps[i], key)]
    BY <1>1, <1>2 DEF Sealed
  <2> HIDE DEF out
  <2> QED  BY <2>1
<1> HIDE DEF out
<1>4. ASSUME NEW i \in 1..3, out[i].ok PROVE Readable(ps[i], out[i].bytes)
  <2>1. out[i] = WriteSecurePacket(ps[i], key)
    BY <1>3
  <2> QED  BY <1>1, <1>4, <2>1, SealedReadable, Zenon
<1>5. Matches(Written(out), ps)
  <2>1. 3 \in Nat
    OBVIOUS
  <2> QED  BY <1>1, <1>3, <1>4, <2>1, WrittenMatches, Zenon
<1> QED  BY <1>5 DEF out, ps

\* Packets that were written are found.
LEMMA PlainMatches ==
  ASSUME NEW first \in PacketType, first.id = 9, data \in Seq(Byte), path # "goremote", foreign
  PROVE  Matches(Written([i \in DOMAIN Stream(first) |-> WritePacket(Stream(first)[i])]), Stream(first))
<1> DEFINE ps == Stream(first)
           out == [i \in DOMAIN ps |-> WritePacket(ps[i])]
<1>1. Len(ps) = 3 /\ \A i \in 1..3 : ps[i] \in PacketType /\ ps[i].id < Base * Base
  BY StreamType, StreamIds
<1>2. ps \in Seq(PacketType)
  BY StreamType
<1> HIDE DEF ps
<1>3. Len(out) = 3 /\ \A i \in 1..3 : out[i] = WritePacket(ps[i])
  <2>1. out = [i \in 1..3 |-> WritePacket(ps[i])]
    BY <1>1, <1>2
  <2> HIDE DEF out
  <2> QED  BY <2>1
<1> HIDE DEF out
<1>4. ASSUME NEW i \in 1..3, out[i].ok PROVE Readable(ps[i], out[i].bytes)
  <2>1. out[i] = WritePacket(ps[i])
    BY <1>3
  <2> QED  BY <1>1, <1>4, <2>1, PlainReadable, Zenon
<1>5. Matches(Written(out), ps)
  <2>1. 3 \in Nat
    OBVIOUS
  <2> QED  BY <1>1, <1>3, <1>4, <2>1, WrittenMatches, Zenon
<1> QED  BY <1>5 DEF out, ps

\* The metadata of a stream is its first packet.
First(t) == [id |-> 9, flag |-> 1, payload |-> buildMetadata(CONNECT, t.host, t.port)]

\* The strategy's first packet opens a stream to the target.
LEMMA UpPacketsAre ==
  ASSUME NEW t, t.host \in Canonical, t.port \in Nat
  PROVE  UpPackets(t) = Stream(First(t)) /\ First(t) \in PacketType /\ First(t).id = 9
<1>1. UpPackets(t) = Stream(First(t))
  BY DEF UpPackets, buildMetadataForWorker, First
<1>2. t.host \in HostType /\ t.host.form \in DOMAIN Socks
  BY TypesAre DEF Canonical, HostType
<1> DEFINE m == buildMetadata(CONNECT, t.host, t.port)
           x == PutAddress(t.host, Socks)
           y == PutUint16(t.port)
<1>3. <<CONNECT>> \in Seq(Byte) /\ x \in Seq(Byte) /\ y \in Seq(Byte)
  BY <1>2, SmallBytes, PutAddressType, PutUint16Type, TypesAre DEF CONNECT
<1>4. m = <<CONNECT>> \o x \o y
  BY Zenon DEF buildMetadata
<1> HIDE DEF m, x, y
<1>5. m \in Seq(Byte)
  BY <1>3, <1>4
<1>6. First(t) = [id |-> 9, flag |-> 1, payload |-> m]
  BY Zenon DEF First, m
<1> QED  BY <1>1, <1>5, <1>6 DEF PacketType

\* What the two ends have to write are packets that the other reads.
LEMMA OriginMatches ==
  ASSUME Inv, Source, step = "open", path \in {"goremote", "worker"}
  PROVE  LET ps == IF foreign THEN DownPackets ELSE UpPackets(Understands)
         IN ps \in Seq(PacketType) /\ Matches(Origin, ps)
<1>1. /\ data \in Seq(Byte) /\ server \in Byte /\ Key \in Byte
      /\ via \in {"socks", "CONNECT", "GET", "udp"} => Asking
  BY KeyTypes DEF Inv, RequestTypes
<1>2. Asker
  BY DEF Source
<1>3. CASE foreign
  <2>1. via = ""
    <3>1. via \in (IF foreign THEN {""} ELSE {"socks", "CONNECT", "GET", "udp"})
      BY <1>2 DEF Asker
    <3> QED  BY <1>3, <3>1, Zenon
  <2>2. Origin = Down
    BY <2>1 DEF Origin
  <2> DEFINE first == [id |-> 9, flag |-> 2, payload |-> <<>>]
  <2>3. first \in PacketType /\ first.id = 9
    BY DEF PacketType
  <2>4. DownPackets = Stream(first)
    BY Zenon DEF DownPackets
  <2> HIDE DEF first
  <2>5. DownPackets \in Seq(PacketType)
    BY <1>1, DownPacketsType, Zenon
  <2>6. CASE path = "goremote"
    <3>1. Down = Written(Sealed(DownPackets, server))
      BY <2>6, Zenon DEF Down
    <3>2. Matches(Written(Sealed(Stream(first), server)), Stream(first))
      BY <1>1, <2>3, <2>6, SealedMatches, Zenon
    <3>3. Matches(Origin, DownPackets)
      BY <2>2, <2>4, <3>1, <3>2, Zenon
    <3> QED  BY <1>3, <2>5, <3>3, Zenon
  <2>7. CASE path = "worker"
    <3>1. Down = Written([i \in DOMAIN DownPackets |-> WritePacket(DownPackets[i])])
      BY <2>7 DEF Down
    <3>2. Matches(Written([i \in DOMAIN Stream(first) |-> WritePacket(Stream(first)[i])]), Stream(first))
      <4>1. path # "goremote"
        BY <2>7
      <4> QED  BY <1>1, <1>3, <2>3, <4>1, PlainMatches, Zenon
    <3>3. Matches(Origin, DownPackets)
      BY <2>2, <2>4, <3>1, <3>2, Zenon
    <3> QED  BY <1>3, <2>5, <3>3, Zenon
  <2> QED  BY <2>6, <2>7
<1>4. CASE ~foreign
  <2>1. via \in {"socks", "CONNECT", "GET"} /\ Understands.ok
    <3>1. via \in (IF foreign THEN {""} ELSE {"socks", "CONNECT", "GET", "udp"})
      BY <1>2 DEF Asker
    <3>2. via \in {"socks", "CONNECT", "GET", "udp"}
      BY <1>4, <3>1, Zenon
    <3> QED  BY <1>2, <3>2 DEF Asker
  <2>2. Understands.host \in Canonical /\ Understands.port \in Nat
    BY <1>1, <2>1, UnderstandsType
  <2> DEFINE t == Understands
             first == First(t)
  <2> HIDE DEF t
  <2>3. UpPackets(t) = Stream(first) /\ first \in PacketType /\ first.id = 9
    BY <2>2, UpPacketsAre, Zenon DEF t
  <2>4. Origin = Written(Sealed(UpPackets(t), Key))
    <3>1. path # "vless" /\ via # ""
      BY <2>1
    <3> QED  BY <3>1, Zenon DEF Origin, t
  <2>5. UpPackets(t) \in Seq(PacketType)
    BY <1>1, <2>3, StreamType
  <2>6. Matches(Written(Sealed(Stream(first), Key)), Stream(first))
    BY <1>1, <1>4, <2>3, SealedMatches, Zenon
  <2>7. Matches(Origin, UpPackets(t))
    BY <2>3, <2>4, <2>6, Zenon
  <2> QED  BY <1>4, <2>5, <2>7, Zenon DEF t
<1> QED  BY <1>3, <1>4

\* Packets arrive as they were written and in order.
LEMMA PacketsArrive ==
  ASSUME Inv, Source, step = "open", path \in {"goremote", "worker"}
  PROVE  IsPrefix(PacketsIn(got), IF foreign THEN DownPackets ELSE UpPackets(Understands))
<1> DEFINE ps == IF foreign THEN DownPackets ELSE UpPackets(Understands)
<1>1. ps \in Seq(PacketType) /\ Matches(Origin, ps)
  BY OriginMatches, Zenon
<1> HIDE DEF ps
<1>2. PICK l \in Seq(Byte) : got \o l = FlattenSeq(Origin)
  BY GotFrom, Zenon
<1>3. got \in Seq(Byte)
  BY DEF Inv, ConnectionTypes
<1>4. Origin \in Seq(Seq(Byte))
  BY OriginType, Zenon
<1>5. IsPrefix(PacketsIn(got), ps)
  BY <1>1, <1>2, <1>3, <1>4, PacketsCome, Zenon
<1> QED  BY <1>5 DEF ps

-----------------------------------------------------------------------------
(* Addresses and targets.                                                   *)

\* The bytes of an address with the number n of its type.
From(atyp) == IF atyp = "name" THEN 3 ELSE 2
Address(n, atyp, bytes) == <<n>> \o (IF atyp = "name" THEN <<Len(bytes)>> ELSE <<>>) \o bytes

\* An address of this type has its length, and a name one that a byte can tell.
Fits(atyp, bytes) == /\ atyp \in Forms /\ bytes \in Seq(Byte)
                     /\ atyp = "ip4" => Len(bytes) = V4
                     /\ atyp = "ip6" => Len(bytes) = V6
                     /\ atyp = "name" => Len(bytes) < Base

\* The bytes of an address.
LEMMA AddressBytes ==
  ASSUME NEW n \in Byte, NEW atyp, NEW bytes, Fits(atyp, bytes)
  PROVE  LET w == Address(n, atyp, bytes)
         IN /\ w \in Seq(Byte) /\ Len(w) = From(atyp) - 1 + Len(bytes) /\ w[1] = n
            /\ atyp = "name" => w[2] = Len(bytes)
            /\ \A i \in 1..Len(bytes) : w[From(atyp) - 1 + i] = bytes[i]
<1> DEFINE x == <<n>>
           y == IF atyp = "name" THEN <<Len(bytes)>> ELSE <<>>
           u == x \o y
           w == u \o bytes
           k == From(atyp) - 1
<1>0. Address(n, atyp, bytes) = w
  BY Zenon DEF Address
<1>1. bytes \in Seq(Byte) /\ (atyp = "name" => Len(bytes) \in Byte) /\ Len(bytes) \in Nat
  BY FormatsAssumption DEF Fits, Byte
<1>2. x \in Seq(Byte) /\ Len(x) = 1 /\ x[1] = n
  OBVIOUS
<1>3. y \in Seq(Byte) /\ Len(y) = k - 1 /\ (atyp = "name" => y[1] = Len(bytes)) /\ k \in {1, 2} /\ (atyp = "name" => k = 2)
  BY <1>1 DEF From
<1> HIDE DEF x, y, k
<1>4. u \in Seq(Byte) /\ Len(u) = k /\ u[1] = n /\ (atyp = "name" => u[2] = Len(bytes))
  <2>1. u = x \o y
    BY Zenon DEF u
  <2> HIDE DEF u
  <2>2. Joined(Byte, x, y, u)
    BY <1>2, <1>3, <2>1, Join, Zenon
  <2>3. 1 \in 1..1 /\ 1 + 1 = 2 /\ (k = 2 => 1 \in 1..(k - 1))
    OBVIOUS
  <2> QED  BY <1>2, <1>3, <2>2, <2>3 DEF Joined
<1> HIDE DEF u
<1>5. w \in Seq(Byte) /\ Len(w) = k + Len(bytes) /\ w[1] = n /\ (atyp = "name" => w[2] = Len(bytes))
      /\ \A i \in 1..Len(bytes) : w[k + i] = bytes[i]
  <2>1. w = u \o bytes
    BY Zenon DEF w
  <2> HIDE DEF w
  <2>2. Joined(Byte, u, bytes, w)
    BY <1>1, <1>4, <2>1, Join, Zenon
  <2>3. 1 \in 1..k /\ (atyp = "name" => 2 \in 1..k)
    BY <1>3
  <2> QED  BY <1>4, <2>2, <2>3 DEF Joined
<1> QED  BY <1>0, <1>5 DEF k

\* What GetAddress finds when it knows the type.
LEMMA GetAddressIs ==
  ASSUME NEW g, NEW types, TypesOK(types), NEW atyp \in DOMAIN types, g # <<>>, g[1] = types[atyp],
         NEW len, len = CASE atyp = "ip4" -> V4
                          [] atyp = "ip6" -> V6
                          [] atyp = "name" -> IF Len(g) = 1 THEN Base ELSE g[2]
  PROVE  GetAddress(g, types) =
             IF Len(g) < From(atyp) + len - 1 THEN Fail
             ELSE [ok |-> TRUE, host |-> HostString(atyp, SubSeq(g, From(atyp), From(atyp) + len - 1)),
                   rest |-> SubSeq(g, From(atyp) + len, Len(g))]
<1> DEFINE a == CHOOSE t \in DOMAIN types : types[t] = g[1]
<1>1. a = atyp
  <2>1. a \in DOMAIN types /\ types[a] = g[1]
    BY Zenon
  <2> HIDE DEF a
  <2> QED  BY <2>1 DEF TypesOK
<1>2. ~(g = <<>> \/ \A t \in DOMAIN types : types[t] # g[1])
  BY Zenon
<1>3. LET from == IF a = "name" THEN 3 ELSE 2
          l == CASE a = "ip4" -> V4
                 [] a = "ip6" -> V6
                 [] a = "name" -> IF Len(g) = 1 THEN Base ELSE g[2]
      IN GetAddress(g, types) =
           IF Len(g) < from + l - 1 THEN Fail
           ELSE [ok |-> TRUE, host |-> HostString(a, SubSeq(g, from, from + l - 1)),
                 rest |-> SubSeq(g, from + l, Len(g))]
  BY <1>2, Zenon DEF GetAddress
<1> HIDE DEF a
<1> QED  BY <1>1, <1>3, Zenon DEF From

\* An address is read as it was written, when all of it has come.
LEMMA ReadAddress ==
  ASSUME NEW types, TypesOK(types), NEW atyp \in DOMAIN types, NEW bytes, Fits(atyp, bytes),
         NEW g \in Seq(Byte), Starts(g, Address(types[atyp], atyp, bytes))
  PROVE  LET n == Len(Address(types[atyp], atyp, bytes))
             a == GetAddress(g, types)
         IN /\ Len(g) < n => ~a.ok
            /\ ~(Len(g) < n) => a.ok /\ a.host = HostString(atyp, bytes) /\ a.rest = Drop(g, n)
<1> DEFINE w == Address(types[atyp], atyp, bytes)
           n == Len(w)
           k == From(atyp) - 1
           len == CASE atyp = "ip4" -> V4
                    [] atyp = "ip6" -> V6
                    [] atyp = "name" -> IF Len(g) = 1 THEN Base ELSE g[2]
           a == GetAddress(g, types)
<1>1. types[atyp] \in Byte
  <2>1. types[atyp] \in 1..4
    BY DEF TypesOK
  <2> QED  BY <2>1, SmallBytes
<1>2. /\ w \in Seq(Byte) /\ n = k + Len(bytes) /\ w[1] = types[atyp]
      /\ atyp = "name" => w[2] = Len(bytes)
      /\ \A i \in 1..Len(bytes) : w[k + i] = bytes[i]
  BY <1>1, AddressBytes
<1>3. Len(bytes) \in Nat /\ k \in {1, 2} /\ (atyp = "name" => k = 2) /\ From(atyp) = k + 1 /\ Len(g) \in Nat
      /\ bytes \in Seq(Byte) /\ Base \in Nat /\ n \in Nat /\ atyp \in Forms
  BY <1>2, FormatsAssumption DEF From, Fits
<1> HIDE DEF w, k, a
<1>4. CASE g = <<>>
  <2>1. Len(g) = 0 /\ 0 < n
    BY <1>2, <1>3, <1>4
  <2>2. ~a.ok
    BY <1>4, Zenon DEF a, GetAddress, Fail
  <2> QED  BY <2>1, <2>2 DEF w, a
<1>5. CASE g # <<>>
  <2>1. Len(g) >= 1
    BY <1>3, <1>5
  <2>2. g[1] = types[atyp]
    <3>1. 1 \in 1..Len(g) /\ 1 <= Len(w)
      BY <1>2, <1>3, <2>1
    <3> QED  BY <1>2, <3>1, Zenon DEF Starts, w
  <2>3. a = IF Len(g) < k + 1 + len - 1 THEN Fail
            ELSE [ok |-> TRUE, host |-> HostString(atyp, SubSeq(g, k + 1, k + 1 + len - 1)),
                  rest |-> SubSeq(g, k + 1 + len, Len(g))]
    BY <1>3, <1>5, <2>2, GetAddressIs, Zenon DEF a
  <2>4. IF atyp = "name" /\ Len(g) = 1 THEN len = Base ELSE len = Len(bytes)
    <3>1. CASE atyp # "name"
      BY <1>3, <3>1 DEF Fits, Forms
    <3>2. CASE atyp = "name" /\ Len(g) = 1
      BY <3>2
    <3>3. CASE atyp = "name" /\ Len(g) # 1
      <4>1. 2 \in 1..Len(g) /\ 2 <= Len(w)
        <5>1. Len(w) = k + Len(bytes) /\ k = 2 /\ Len(bytes) \in Nat
          BY <1>2, <1>3, <3>3
        <5>2. Len(g) \in Nat /\ Len(g) >= 1 /\ Len(g) # 1
          BY <1>3, <2>1, <3>3
        <5> DEFINE x == Len(g)
                   y == Len(w)
        <5>3. x \in Nat /\ x >= 1 /\ x # 1
          BY <5>2
        <5>4. y = 2 + Len(bytes) /\ Len(bytes) \in Nat
          BY <5>1
        <5> HIDE DEF len, n, x, y
        <5>5. 2 \in 1..x
          BY <5>3
        <5>6. 2 <= y
          BY <5>4
        <5> QED  BY <5>5, <5>6 DEF x, y
      <4>2. g[2] = Len(bytes)
        BY <1>2, <3>3, <4>1, Zenon DEF Starts, w
      <4> QED  BY <3>3, <4>2
    <3> QED  BY <3>1, <3>2, <3>3
  <2> HIDE DEF len
  <2>5. CASE atyp = "name" /\ Len(g) = 1
    <3>1. Len(g) < k + 1 + len - 1 /\ Len(g) < n
      BY <1>2, <1>3, <2>4, <2>5, FormatsAssumption
    <3>2. ~a.ok
      BY <2>3, <3>1, Zenon DEF Fail
    <3> QED  BY <3>1, <3>2 DEF w, a
  <2>6. CASE ~(atyp = "name" /\ Len(g) = 1)
    <3>1. len = Len(bytes) /\ k + 1 + len - 1 = k + Len(bytes) /\ k + 1 + len = n + 1
      BY <1>2, <1>3, <2>4, <2>6
    <3>2. a = IF Len(g) < n THEN Fail
              ELSE [ok |-> TRUE, host |-> HostString(atyp, SubSeq(g, k + 1, k + Len(bytes))),
                    rest |-> SubSeq(g, n + 1, Len(g))]
      BY <1>2, <2>3, <3>1
    <3> HIDE DEF n
    <3>3. ASSUME ~(Len(g) < n) PROVE a.ok /\ a.host = HostString(atyp, bytes) /\ a.rest = Drop(g, n)
      <4>1. a = [ok |-> TRUE, host |-> HostString(atyp, SubSeq(g, k + 1, k + Len(bytes))),
                 rest |-> SubSeq(g, n + 1, Len(g))]
        BY <3>2, <3>3
      <4>2. SubSeq(g, k + 1, k + Len(bytes)) = bytes
        <5>1. Len(w) >= k + Len(bytes) /\ Len(g) >= k + Len(bytes) /\ k \in Nat
          BY <1>2, <1>3, <3>3 DEF n
        <5>2. Starts(g, w)
          BY DEF w
        <5> QED  BY <1>2, <1>3, <5>1, <5>2, PartOf, Zenon
      <4> DEFINE hh == HostString(atyp, bytes)
      <4>3. a = [ok |-> TRUE, host |-> hh, rest |-> SubSeq(g, n + 1, Len(g))]
        BY <4>1, <4>2
      <4> HIDE DEF hh
      <4>4. a.ok /\ a.host = hh /\ a.rest = SubSeq(g, n + 1, Len(g))
        BY <4>3
      <4> QED  BY <4>4 DEF hh, Drop
    <3>4. ASSUME Len(g) < n PROVE ~a.ok
      BY <3>2, <3>4 DEF Fail
    <3> QED  BY <3>3, <3>4 DEF n, w, a
  <2> QED  BY <2>5, <2>6
<1> QED  BY <1>4, <1>5

-----------------------------------------------------------------------------
\* An address whose type the format does not have is not read.
LEMMA TypeUnknown ==
  ASSUME NEW g \in Seq(Byte), NEW types, \A t \in DOMAIN types : types[t] # g[1]
  PROVE  ~GetAddress(g, types).ok
<1>1. GetAddress(g, types) = Fail
  BY Zenon DEF GetAddress
<1> QED  BY <1>1 DEF Fail

\* A target, an address with a port.
Target(n, atyp, bytes, port) == Address(n, atyp, bytes) \o PutUint16(port)

\* An address, then a port.
LEMMA TargetBytes ==
  ASSUME NEW n \in Byte, NEW atyp, NEW bytes, Fits(atyp, bytes), NEW port \in Nat
  PROVE  Joined(Byte, Address(n, atyp, bytes), PutUint16(port), Target(n, atyp, bytes, port))
<1>1. Address(n, atyp, bytes) \in Seq(Byte) /\ PutUint16(port) \in Seq(Byte)
  BY AddressBytes, PutUint16Type, Zenon
<1> QED  BY <1>1, Join, Zenon DEF Target

\* A target is read as it was written, when all of it has come.
LEMMA ReadTarget ==
  ASSUME NEW types, TypesOK(types), NEW atyp \in DOMAIN types, NEW bytes, Fits(atyp, bytes),
         NEW port \in 0..(Base * Base - 1),
         NEW g \in Seq(Byte), Starts(g, Target(types[atyp], atyp, bytes, port))
  PROVE  LET n == Len(Target(types[atyp], atyp, bytes, port))
             r == GetTarget(g, types)
         IN /\ Len(g) < n => ~r.ok
            /\ ~(Len(g) < n) => r.ok /\ r.host = HostString(atyp, bytes) /\ r.port = port
<1> DEFINE w == Address(types[atyp], atyp, bytes)
           p == PutUint16(port)
           v == Target(types[atyp], atyp, bytes, port)
           a == GetAddress(g, types)
           r == GetTarget(g, types)
           rest == a.rest
<1>1. types[atyp] \in Byte /\ port \in Nat
  <2>1. types[atyp] \in 1..4
    BY DEF TypesOK
  <2> QED  BY <2>1, SmallBytes
<1>2. Joined(Byte, w, p, v)
  BY <1>1, TargetBytes, Zenon
<1>3. Len(p) = 2
  BY <1>1, PutUint16Type
<1>4. r = IF ~a.ok \/ Len(rest) < 2 THEN Fail ELSE [ok |-> TRUE, host |-> a.host, port |-> Uint16(rest, 1)]
  BY Zenon DEF GetTarget
<1>5. w \in Seq(Byte) /\ Len(w) \in Nat /\ Len(v) = Len(w) + 2 /\ Len(g) \in Nat
  <2>1. w \in Seq(Byte)
    BY <1>1, AddressBytes, Zenon
  <2> QED  BY <1>2, <1>3, <2>1 DEF Joined
<1>6. Starts(g, w)
  <2> SUFFICES ASSUME NEW i \in 1..Len(g), i <= Len(w) PROVE g[i] = w[i]
    BY DEF Starts
  <2>1. i \in 1..Len(w) /\ i <= Len(v)
    BY <1>5
  <2>2. v[i] = w[i]
    BY <1>2, <2>1 DEF Joined
  <2>3. g[i] = v[i]
    BY <2>1, Zenon DEF Starts
  <2> QED  BY <2>2, <2>3
<1>7. /\ Len(g) < Len(w) => ~a.ok
      /\ ~(Len(g) < Len(w)) => a.ok /\ a.host = HostString(atyp, bytes) /\ rest = Drop(g, Len(w))
  BY <1>6, ReadAddress, Zenon
<1> HIDE DEF a, w, p, v, r
<1>8. ~(Len(g) < Len(w)) => Len(rest) = Len(g) - Len(w) /\ \A i \in 1..Len(rest) : rest[i] = g[Len(w) + i]
  <2> SUFFICES ASSUME ~(Len(g) < Len(w))
               PROVE  Len(rest) = Len(g) - Len(w) /\ \A i \in 1..Len(rest) : rest[i] = g[Len(w) + i]
    OBVIOUS
  <2>1. rest = SubSeq(g, Len(w) + 1, Len(g))
    BY <1>7 DEF Drop
  <2> HIDE DEF rest
  <2> DEFINE m == Len(w)
  <2>2. m \in Nat /\ m <= Len(g)
    BY <1>5
  <2> HIDE DEF m
  <2>3. rest = SubSeq(g, m + 1, Len(g))
    BY <2>1 DEF m
  <2>4. Len(rest) = Len(g) - m /\ \A i \in 1..Len(rest) : rest[i] = g[m + i]
    BY <2>2, <2>3
  <2> QED  BY <2>4 DEF m
<1> HIDE DEF rest
<1>9. ASSUME Len(g) < Len(v) PROVE ~r.ok
  <2>1. ~a.ok \/ Len(rest) < 2
    <3> SUFFICES ASSUME ~(Len(g) < Len(w)) PROVE Len(rest) < 2
      BY <1>7
    <3> QED  BY <1>5, <1>8, <1>9
  <2> QED  BY <1>4, <2>1 DEF Fail
<1>10. ASSUME ~(Len(g) < Len(v)) PROVE r.ok /\ r.host = HostString(atyp, bytes) /\ r.port = port
  <2>1. ~(Len(g) < Len(w)) /\ ~(Len(rest) < 2) /\ 1 \in 1..Len(rest) /\ 2 \in 1..Len(rest)
    BY <1>5, <1>8, <1>10
  <2>2. rest[1] = p[1] /\ rest[2] = p[2]
    <3>1. rest[1] = g[Len(w) + 1] /\ rest[2] = g[Len(w) + 2]
      BY <1>8, <2>1
    <3>2. Len(w) + 1 \in 1..Len(g) /\ Len(w) + 2 \in 1..Len(g) /\ Len(w) + 1 <= Len(v) /\ Len(w) + 2 <= Len(v)
      BY <1>5, <1>10
    <3>3. g[Len(w) + 1] = v[Len(w) + 1] /\ g[Len(w) + 2] = v[Len(w) + 2]
      BY <3>2, Zenon DEF Starts, v
    <3>4. v[Len(w) + 1] = p[1] /\ v[Len(w) + 2] = p[2]
      <4>1. 1 \in 1..Len(p) /\ 2 \in 1..Len(p)
        BY <1>3
      <4> QED  BY <1>2, <4>1 DEF Joined
    <3> QED  BY <3>1, <3>3, <3>4
  <2>3. Uint16(rest, 1) = port
    <3>1. rest[1] = PutUint16(port)[1] /\ rest[1 + 1] = PutUint16(port)[2]
      BY <2>2 DEF p
    <3> QED  BY <3>1, Uint16Is
  <2>4. r = [ok |-> TRUE, host |-> a.host, port |-> Uint16(rest, 1)] /\ a.host = HostString(atyp, bytes)
    BY <1>4, <1>7, <2>1
  <2> QED  BY <2>3, <2>4
<1> QED  BY <1>9, <1>10 DEF r, v

\* A host is written as an address that is read as this host.
LEMMA HostIsAddress ==
  ASSUME NEW host \in Canonical, ~TooLong(host), NEW types
  PROVE  /\ Fits(host.form, host.bytes) /\ HostString(host.form, host.bytes) = host
         /\ PutAddress(host, types) = Address(types[host.form], host.form, host.bytes)
<1>1. host.form \in Forms /\ host.bytes \in Seq(Byte) /\ IsCanonical(host)
      /\ host = [form |-> host.form, bytes |-> host.bytes]
  BY DEF Canonical, HostType
<1>2. host.form = "name" => Len(host.bytes) < Base /\ Len(host.bytes) % Base = Len(host.bytes)
  <2> DEFINE l == Len(host.bytes)
  <2>1. l \in Nat /\ Base \in Nat /\ Base > 0
    BY <1>1, FormatsAssumption
  <2>2. host.form = "name" => ~(l > Base - 1)
    BY DEF TooLong
  <2> HIDE DEF l
  <2>3. host.form = "name" => l < Base
    BY <2>1, <2>2
  <2>4. l < Base => l % Base = l
    BY <2>1
  <2> QED  BY <2>3, <2>4 DEF l
<1>3. Fits(host.form, host.bytes)
  BY <1>1, <1>2 DEF Fits, IsCanonical
<1>4. HostString(host.form, host.bytes) = host
  <2>1. CASE host.form = "ip4"
    <3>1. HostString(host.form, host.bytes) = Host("ip4", host.bytes)
      BY <2>1 DEF HostString
    <3> QED  BY <1>1, <2>1, <3>1 DEF Host
  <2>2. CASE host.form = "ip6"
    <3>1. HostString(host.form, host.bytes) = Host("ip6", host.bytes)
      BY <1>1, <2>2 DEF HostString, IsCanonical
    <3> QED  BY <1>1, <2>2, <3>1 DEF Host
  <2>3. CASE host.form = "name"
    <3>1. HostString(host.form, host.bytes) = Host("name", host.bytes)
      BY <1>1, <2>3 DEF HostString, IsCanonical
    <3> QED  BY <1>1, <2>3, <3>1 DEF Host
  <2> QED  BY <1>1, <2>1, <2>2, <2>3 DEF Forms
<1>5. PutAddress(host, types) = Address(types[host.form], host.form, host.bytes)
  <2>1. (IF host.form = "name" THEN <<Len(host.bytes) % Base>> ELSE <<>>)
            = (IF host.form = "name" THEN <<Len(host.bytes)>> ELSE <<>>)
    BY <1>2
  <2> QED  BY <2>1, Zenon DEF PutAddress, Address
<1> QED  BY <1>3, <1>4, <1>5

-----------------------------------------------------------------------------
(* The request of a client, and what is understood.                         *)

Moved5(a, b, c, d, e) == (((a \o b) \o c) \o d) \o e = a \o (((b \o c) \o d) \o e)

\* Five strings, grouped from the left or behind the first.
LEMMA Regroup5 ==
  ASSUME NEW S, NEW a \in Seq(S), NEW b \in Seq(S), NEW c \in Seq(S), NEW d \in Seq(S), NEW e \in Seq(S)
  PROVE  Moved5(a, b, c, d, e)
<1> DEFINE x == b \o c
           y == x \o d
<1>1. x \in Seq(S) /\ (a \o b) \o c = a \o x
  OBVIOUS
<1>2. (a \o x) \o d = a \o (x \o d)
  <2> HIDE DEF x
  <2> QED  BY <1>1, SMTT(40)
<1>3. y \in Seq(S)
  <2> HIDE DEF x
  <2> QED  BY <1>1
<1>4. (a \o y) \o e = a \o (y \o e)
  <2> HIDE DEF y
  <2> QED  BY <1>3, SMTT(40)
<1>5. ((a \o b) \o c) \o d = a \o y
  BY <1>1, <1>2, Zenon
<1> QED  BY <1>4, <1>5, Zenon DEF Moved5

\* What follows a head of three bytes.
Heads(S, a, b, c) == a \in Seq(S) /\ b \in Seq(S) /\ c = a \o b /\ Len(a) = 3
Followed(S, b, c) == Drop(c, 3) = b /\ Len(c) = 3 + Len(b) /\ Len(b) \in Nat /\ c \in Seq(S)

\* Without the head there is what follows it.
LEMMA DropHead == ASSUME NEW S, NEW a, NEW b, NEW c, Heads(S, a, b, c) PROVE Followed(S, b, c)
<1>1. Joined(S, a, b, c) /\ Len(a) = 3 /\ b \in Seq(S)
  BY Join, Zenon DEF Heads
<1>2. Len(c) = 3 + Len(b) /\ c \in Seq(S) /\ Len(b) \in Nat /\ \A i \in 1..Len(b) : c[3 + i] = b[i]
  BY <1>1 DEF Joined
<1> DEFINE d == Drop(c, 3)
<1>3. d \in Seq(S) /\ Len(d) = Len(b) /\ \A i \in 1..Len(b) : d[i] = c[3 + i]
  BY <1>2 DEF Drop
<1> HIDE DEF d
<1>4. \A i \in 1..Len(d) : d[i] = b[i]
  BY <1>2, <1>3
<1>5. d = b
  BY <1>1, <1>3, <1>4, SameSeq
<1> QED  BY <1>2, <1>5 DEF d, Followed

\* Every string starts like itself.
LEMMA StartsSame == ASSUME NEW w PROVE Starts(w, w)
  BY DEF Starts

\* A target behind a head of three bytes, for those who know all types and for goremote
\* and worker.
Behind3(head, req, atyp, bytes, port) ==
    /\ head \in Seq(Byte) /\ Len(head) = 3 /\ Fits(atyp, bytes) /\ port \in 0..(Base * Base - 1)
    /\ req = head \o Target(Socks[atyp], atyp, bytes, port)

Found(req, atyp, bytes, port) ==
    LET a == GetTarget(Drop(req, 3), Socks)
        b == GetTarget(Drop(req, 3), SocksV4)
    IN /\ ~(Len(req) < 4)
       /\ a.ok /\ a.host = HostString(atyp, bytes) /\ a.port = port
       /\ IF atyp = "ip6" THEN ~b.ok ELSE b.ok /\ b.host = HostString(atyp, bytes) /\ b.port = port

\* All types are found by one, and IPv4 addresses and names by the other.
LEMMA BehindHead ==
  ASSUME NEW head, NEW req, NEW atyp, NEW bytes, NEW port, Behind3(head, req, atyp, bytes, port)
  PROVE  Found(req, atyp, bytes, port)
<1>0. /\ head \in Seq(Byte) /\ Len(head) = 3 /\ Fits(atyp, bytes) /\ port \in 0..(Base * Base - 1)
      /\ req = head \o Target(Socks[atyp], atyp, bytes, port)
  BY Zenon DEF Behind3
<1> SUFFICES LET a == GetTarget(Drop(req, 3), Socks)
                 b == GetTarget(Drop(req, 3), SocksV4)
             IN /\ ~(Len(req) < 4)
                /\ a.ok /\ a.host = HostString(atyp, bytes) /\ a.port = port
                /\ IF atyp = "ip6" THEN ~b.ok ELSE b.ok /\ b.host = HostString(atyp, bytes) /\ b.port = port
  BY Zenon DEF Found
<1> USE <1>0
<1> DEFINE t == Target(Socks[atyp], atyp, bytes, port)
<1>1. atyp \in Forms /\ Socks[atyp] \in Byte /\ port \in Nat /\ Socks[atyp] = t[1] /\ t \in Seq(Byte) /\ Len(t) > 0
  <2>1. atyp \in Forms /\ port \in Nat
    BY DEF Fits
  <2>2. Socks[atyp] \in Byte
    <3>1. Socks[atyp] \in 0..7
      BY <2>1 DEF Socks, Forms
    <3> QED  BY <3>1, SmallBytes
  <2> DEFINE w == Address(Socks[atyp], atyp, bytes)
  <2>3. Joined(Byte, w, PutUint16(port), t)
    BY <2>1, <2>2, TargetBytes, Zenon
  <2>4. w[1] = Socks[atyp] /\ Len(w) = From(atyp) - 1 + Len(bytes)
    <3> DEFINE n == Socks[atyp]
    <3>1. n \in Byte
      BY <2>2
    <3> HIDE DEF n
    <3>2. Address(n, atyp, bytes)[1] = n /\ Len(Address(n, atyp, bytes)) = From(atyp) - 1 + Len(bytes)
      BY <3>1, AddressBytes
    <3> QED  BY <3>2 DEF n
  <2>5. Len(w) > 0
    <3>1. From(atyp) \in {2, 3} /\ Len(bytes) \in Nat
      BY DEF From, Fits
    <3> QED  BY <2>4, <3>1
  <2> HIDE DEF w, t
  <2>6. t \in Seq(Byte) /\ Len(t) > 0 /\ t[1] = w[1]
    BY <2>3, <2>5 DEF Joined
  <2> QED  BY <2>1, <2>2, <2>4, <2>6
<1>2. Drop(req, 3) = t /\ Len(req) = 3 + Len(t) /\ Len(t) \in Nat
  <2>1. req = head \o t
    BY Zenon
  <2>2. t \in Seq(Byte) /\ 3 = Len(head)
    BY <1>1
  <2>3. Heads(Byte, head, t, req)
    BY <2>1, <2>2, Zenon DEF Heads
  <2>4. Followed(Byte, t, req)
    BY <2>3, DropHead, Zenon
  <2> HIDE DEF t
  <2> QED  BY <2>4, Zenon DEF Followed
<1>3. Starts(t, t) /\ ~(Len(t) < Len(t))
  <2>1. Starts(t, t)
    BY StartsSame, Zenon
  <2> QED  BY <1>2, <2>1
<1>4. /\ GetTarget(t, Socks).ok /\ GetTarget(t, Socks).host = HostString(atyp, bytes)
      /\ GetTarget(t, Socks).port = port
  <2>1. TypesOK(Socks) /\ atyp \in DOMAIN Socks
    BY <1>1, TypesAre
  <2> QED  BY <1>1, <1>3, <2>1, ReadTarget, Zenon
<1>5. CASE atyp # "ip6"
  <2>1. TypesOK(SocksV4) /\ atyp \in DOMAIN SocksV4
    BY <1>1, <1>5, TypesAre DEF Forms
  <2>2. SocksV4[atyp] = Socks[atyp]
    BY <1>1, <1>5 DEF SocksV4, Socks, Forms
  <2>3. Starts(t, Target(SocksV4[atyp], atyp, bytes, port)) /\ t = Target(SocksV4[atyp], atyp, bytes, port)
    BY <1>3, <2>2, Zenon
  <2> DEFINE v == Target(SocksV4[atyp], atyp, bytes, port)
  <2>4. /\ GetTarget(t, SocksV4).ok /\ GetTarget(t, SocksV4).host = HostString(atyp, bytes)
        /\ GetTarget(t, SocksV4).port = port
    <3>1. v = t /\ v \in Seq(Byte) /\ Starts(v, v) /\ ~(Len(v) < Len(v))
      BY <1>1, <1>3, <2>3, Zenon
    <3>2. /\ GetTarget(v, SocksV4).ok /\ GetTarget(v, SocksV4).host = HostString(atyp, bytes)
          /\ GetTarget(v, SocksV4).port = port
      BY <2>1, <3>1, ReadTarget, Zenon
    <3> QED  BY <3>1, <3>2, Zenon
  <2> HIDE DEF t
  <2>5. ~(Len(req) < 4)
    BY <1>1, <1>2
  <2> QED  BY <1>2, <1>4, <1>5, <2>4, <2>5
<1>6. CASE atyp = "ip6"
  <2>1. \A x \in DOMAIN SocksV4 : SocksV4[x] # t[1]
    <3>1. Socks[atyp] = 4
      BY <1>6 DEF Socks
    <3>2. \A x \in DOMAIN SocksV4 : SocksV4[x] # 4
      BY DEF SocksV4
    <3> QED  BY <1>1, <3>1, <3>2
  <2>2. ~GetAddress(t, SocksV4).ok
    BY <1>1, <2>1, TypeUnknown, Zenon
  <2>3. GetTarget(t, SocksV4) = Fail
    BY <2>2, Zenon DEF GetTarget
  <2> HIDE DEF t
  <2>4. ~(Len(req) < 4)
    BY <1>1, <1>2
  <2> QED  BY <1>2, <1>4, <1>6, <2>3, <2>4 DEF Fail
<1> QED  BY <1>5, <1>6

\* What a client says is a head and the target.
LEMMA SaysIs ==
  ASSUME Asking, via \in {"socks", "udp"}, NEW head \in Seq(Byte)
  PROVE  /\ Fits(ask.atyp, ask.bytes) /\ ask.port \in 0..(Base * Base - 1)
         /\ Says(head) = head \o Target(Socks[ask.atyp], ask.atyp, ask.bytes, ask.port)
<1> DEFINE t == <<Socks[ask.atyp]>>
           l == IF ask.atyp = "name" THEN <<Len(ask.bytes)>> ELSE <<>>
           b == ask.bytes
           p == PutUint16(ask.port)
<1>1. ask.atyp \in Forms /\ b \in Seq(Byte) /\ ask.port \in 0..(Base * Base - 1)
  BY DEF Asking
<1>2. Fits(ask.atyp, b)
  BY <1>1 DEF Asking, Fits
<1>3. ask.port \in 0..(Base * Base - 1) /\ ask.port \in Nat
  BY <1>1
<1>4. t \in Seq(Byte)
  <2>1. Socks[ask.atyp] \in 0..7
    BY <1>1 DEF Socks, Forms
  <2> QED  BY <2>1, SmallBytes
<1>5. l \in Seq(Byte)
  <2>1. ask.atyp = "name" => Len(b) \in Byte
    BY <1>2, FormatsAssumption DEF Fits, Byte
  <2> QED  BY <2>1
<1>6. p \in Seq(Byte)
  BY <1>3, PutUint16Type
<1>7. Says(head) = (((head \o t) \o l) \o b) \o p
  BY Zenon DEF Says
<1>8. Target(Socks[ask.atyp], ask.atyp, b, ask.port) = ((t \o l) \o b) \o p
  BY Zenon DEF Target, Address
<1> HIDE DEF t, l, b, p
<1>9. Moved5(head, t, l, b, p)
  BY <1>1, <1>4, <1>5, <1>6, Regroup5, Zenon
<1>10. Says(head) = head \o Target(Socks[ask.atyp], ask.atyp, b, ask.port)
  BY <1>7, <1>8, <1>9, Zenon DEF Moved5
<1> QED  BY <1>2, <1>3, <1>10 DEF b

-----------------------------------------------------------------------------
(* Strings of a host and a port.                                            *)

\* A name in brackets is not plain.
LEMMA BracketsShow == ASSUME NEW n \in Seq(Byte), InBrackets(n) PROVE ~Plain(n)
<1>1. 1 \in 1..Len(n) /\ n[1] = Open
  <2>1. n # <<>> /\ n[1] = Open
    BY DEF InBrackets
  <2> QED  BY <2>1
<1> QED  BY <1>1 DEF Plain

\* A name is its own string.
LEMMA NameString ==
  ASSUME NEW h \in Canonical, h.form = "name"
  PROVE  HostString("name", h.bytes) = h
<1>1. HostString("name", h.bytes) = IF Spells(h.bytes) THEN Host("ip4", Tail(h.bytes)) ELSE Host("name", h.bytes)
  BY DEF HostString
<1>2. ~Spells(h.bytes) /\ h = [form |-> "name", bytes |-> h.bytes]
  BY DEF Canonical, IsCanonical, HostType
<1> QED  BY <1>1, <1>2 DEF Host

\* A host string that is a name has the bytes of the name.
LEMMA NameItself == ASSUME NEW b, HostString("name", b).form = "name" PROVE HostString("name", b).bytes = b
  BY DEF HostString, Host

\* A host that is in no need of brackets, and has none.
Clean(h) == h.form # "name" \/ Plain(h.bytes)

\* What is read in the string of an HTTP target: the host, or a name that was in brackets.
LEMMA SpelledIs ==
  ASSUME NEW h \in Canonical
  PROVE  LET s == SpelledHost(h)
         IN IF s.ok
            THEN /\ Clean(s.host)
                 /\ \/ s.host = h
                    \/ /\ h.form = "name" /\ ~Plain(h.bytes)
                       /\ s.host = HostString("name", Inside(h.bytes))
            ELSE h.form = "name" /\ (~Plain(h.bytes) \/ HasColon(h.bytes))
<1> DEFINE s == SpelledHost(h)
           n == h.bytes
<1>1. n \in Seq(Byte)
  BY DEF Canonical, HostType
<1>2. CASE h.form # "name"
  <2>1. s = [ok |-> TRUE, host |-> h]
    BY <1>2 DEF SpelledHost
  <2> QED  BY <1>2, <2>1 DEF Clean
<1>3. CASE h.form = "name"
  <2>1. s = SplitHost(n)
    BY <1>3 DEF SpelledHost
  <2>2. CASE s.ok
    <3>1. Plain(Inside(n)) /\ s.host = HostString("name", Inside(n))
      <4>1. Plain(Inside(n))
        BY <2>1, <2>2 DEF SplitHost, Fail
      <4> QED  BY <1>1, <2>1, <2>2, <4>1, SplitHostType
    <3>2. Clean(s.host)
      BY <3>1, NameItself DEF Clean
    <3>3. CASE InBrackets(n)
      BY <1>1, <1>3, <2>2, <3>1, <3>2, <3>3, BracketsShow
    <3>4. CASE ~InBrackets(n)
      <4>1. Inside(n) = n
        BY <3>4 DEF Inside
      <4>2. s.host = h
        BY <1>3, <3>1, <4>1, NameString
      <4> QED  BY <2>2, <3>2, <4>2
    <3> QED  BY <3>3, <3>4
  <2>3. CASE ~s.ok
    <3>1. ~(Plain(Inside(n)) /\ (InBrackets(n) \/ ~HasColon(n)))
      BY <2>1, <2>3 DEF SplitHost
    <3>2. CASE InBrackets(n)
      BY <1>1, <1>3, <2>3, <3>2, BracketsShow
    <3>3. CASE ~InBrackets(n)
      <4>1. Inside(n) = n
        BY <3>3 DEF Inside
      <4> QED  BY <1>3, <2>3, <3>1, <3>3, <4>1
    <3> QED  BY <3>2, <3>3
  <2> QED  BY <2>2, <2>3
<1> QED  BY <1>2, <1>3

\* Brackets that are put on are taken off.
LEMMA BracketsOff ==
  ASSUME NEW n \in Seq(Byte)
  PROVE  LET b == <<Open>> \o n \o <<Close>> IN InBrackets(b) /\ Inside(b) = n
<1> DEFINE b == <<Open>> \o n \o <<Close>>
<1>1. <<Open>> \in Seq(Byte) /\ <<Close>> \in Seq(Byte)
  BY SmallBytes DEF Open, Close
<1>2. /\ b \in Seq(Byte) /\ Len(b) = Len(n) + 2 /\ Len(n) \in Nat /\ b[1] = Open /\ b[Len(b)] = Close
      /\ \A i \in 1..Len(n) : b[i + 1] = n[i]
  BY <1>1
<1> HIDE DEF b
<1>3. InBrackets(b)
  BY <1>2 DEF InBrackets
<1> DEFINE d == SubSeq(b, 2, Len(b) - 1)
<1>4. d \in Seq(Byte) /\ Len(d) = Len(n) /\ \A i \in 1..Len(d) : d[i] = b[i + 1]
  BY <1>2
<1>5. Inside(b) = d
  BY <1>3 DEF Inside
<1> HIDE DEF d
<1>6. d = n
  BY <1>2, <1>4, SameSeq
<1> QED  BY <1>3, <1>5, <1>6 DEF b

\* A target that is joined and split: only names with brackets become others.
LEMMA RejoinedIs ==
  ASSUME NEW t, t.ok, t.host \in Canonical
  PROVE  LET r == Rejoined(t)
         IN IF Clean(t.host) THEN r.host = t.host /\ r.port = t.port
            ELSE \/ r.host = HostString("name", Inside(t.host.bytes)) /\ r.port = t.port
                 \/ r.host = Host("name", <<>>) /\ r.port = 0
<1> DEFINE n == t.host.bytes
           j == JoinHost(n)
           s == SplitHost(j)
           b == <<Open>> \o n \o <<Close>>
<1>1. n \in Seq(Byte) /\ j \in Seq(Byte)
  BY InsideType DEF Canonical, HostType
<1>2. Rejoined(t) = CASE t.host.form # "name" -> t
                      [] t.host.form = "name" /\ s.ok -> [ok |-> TRUE, host |-> s.host, port |-> t.port]
                      [] OTHER -> [ok |-> TRUE, host |-> Host("name", <<>>), port |-> 0]
  BY Zenon DEF Rejoined
<1>3. s.ok => s.host = HostString("name", Inside(j))
  BY <1>1, SplitHostType
<1>4. s.ok <=> Plain(Inside(j)) /\ (InBrackets(j) \/ ~HasColon(j))
  BY DEF SplitHost, Fail
<1>5. j = IF HasColon(n) THEN b ELSE n
  BY Zenon DEF JoinHost
<1>6. InBrackets(b) /\ Inside(b) = n
  BY <1>1, BracketsOff
<1> HIDE DEF s, j, b
<1>7. CASE t.host.form # "name"
  <2>1. Rejoined(t) = t
    BY <1>2, <1>7
  <2> QED  BY <1>7, <2>1 DEF Clean
<1>8. CASE t.host.form = "name" /\ Plain(n)
  <2>1. HostString("name", n) = t.host
    BY <1>8, NameString
  <2>2. Inside(j) = n /\ (InBrackets(j) \/ ~HasColon(j))
    <3>1. CASE HasColon(n)
      BY <1>5, <1>6, <3>1
    <3>2. CASE ~HasColon(n)
      <4>1. ~InBrackets(n)
        BY <1>1, <1>8, BracketsShow
      <4> QED  BY <1>5, <3>2, <4>1 DEF Inside
    <3> QED  BY <3>1, <3>2
  <2>3. s.ok /\ s.host = t.host
    BY <1>3, <1>4, <1>8, <2>1, <2>2
  <2>4. Rejoined(t) = [ok |-> TRUE, host |-> s.host, port |-> t.port]
    BY <1>2, <1>8, <2>3
  <2> QED  BY <1>8, <2>3, <2>4 DEF Clean
<1>9. CASE t.host.form = "name" /\ ~Plain(n)
  <2>1. CASE s.ok
    <3>1. Rejoined(t) = [ok |-> TRUE, host |-> s.host, port |-> t.port]
      BY <1>2, <1>9, <2>1
    <3>2. j = n
      BY <1>4, <1>5, <1>6, <1>9, <2>1
    <3> QED  BY <1>3, <1>9, <2>1, <3>1, <3>2 DEF Clean
  <2>2. CASE ~s.ok
    <3>1. Rejoined(t) = [ok |-> TRUE, host |-> Host("name", <<>>), port |-> 0]
      BY <1>2, <1>9, <2>2
    <3> QED  BY <1>9, <3>1 DEF Clean
  <2> QED  BY <2>1, <2>2
<1> QED  BY <1>7, <1>8, <1>9

-----------------------------------------------------------------------------
(* The request that a strategy gets, and what it makes of it.               *)

\* The target that is in the request.
AskedHost == IF via = "socks" THEN Asked.host ELSE SpelledHost(Asked.host).host
AskedPort == Asked.port % (Base * Base)

\* The request that a strategy gets asks for the target that is meant.
Requested(atyp, bytes) ==
    /\ Fits(atyp, bytes) /\ HostString(atyp, bytes) = AskedHost
    /\ Asks.bytes = <<5, CONNECT, 0>> \o Target(Socks[atyp], atyp, bytes, AskedPort)
    /\ atyp = "ip6" => ask.atyp = "ip6" \/ Asked.host.form = "ip6"

\* What is asked is a request for the target, unless the target does not fit into one.
LEMMA AsksIs ==
  ASSUME Asking, via \in {"socks", "CONNECT", "GET"}
  PROVE  IF Asks.ok
         THEN /\ \E atyp, bytes : Requested(atyp, bytes)
              /\ AskedPort \in 0..(Base * Base - 1) /\ ~TooLong(AskedHost) /\ AskedHost \in Canonical
              /\ via # "socks" => SpelledHost(Asked.host).ok
         ELSE /\ via # "socks"
              /\ Asked.port = NoPort \/ TooLong(AskedHost) \/ ~SpelledHost(Asked.host).ok
<1>1. Asked.host \in Canonical /\ Asked.port \in Nat \cup {NoPort}
  BY AskedType
<1>2. CASE via = "socks"
  <2>1. Asks = [ok |-> TRUE, bytes |-> Says(<<5, CONNECT, 0>>)]
    BY <1>2, Zenon DEF Asks
  <2>2. Asks.ok /\ Asks.bytes = Says(<<5, CONNECT, 0>>)
    BY <2>1
  <2>3. <<5, CONNECT, 0>> \in Seq(Byte)
    BY SmallBytes DEF CONNECT
  <2>4. /\ Fits(ask.atyp, ask.bytes) /\ ask.port \in 0..(Base * Base - 1)
        /\ Says(<<5, CONNECT, 0>>) = <<5, CONNECT, 0>> \o Target(Socks[ask.atyp], ask.atyp, ask.bytes, ask.port)
    BY <1>2, <2>3, SaysIs
  <2>5. AskedHost = HostString(ask.atyp, ask.bytes) /\ AskedPort = ask.port /\ AskedHost \in Canonical
    <3>1. Asked.host = HostString(ask.atyp, ask.bytes) /\ Asked.port = ask.port
      BY <1>2 DEF Asked
    <3>2. ask.port \in Nat
      BY <2>4
    <3>3. ask.port % (Base * Base) = ask.port
      BY <2>4, <3>2, LowBytes
    <3> QED  BY <1>1, <1>2, <3>1, <3>3 DEF AskedHost, AskedPort
  <2>6. Requested(ask.atyp, ask.bytes)
    BY <2>2, <2>4, <2>5, Zenon DEF Requested
  <2>7. ~TooLong(AskedHost)
    <3> DEFINE h == HostString(ask.atyp, ask.bytes)
    <3>1. h.form = "name" => ask.atyp = "name" /\ h.bytes = ask.bytes
      <4>1. ask.atyp \in {"ip4", "ip6", "name"}
        BY <2>4 DEF Fits, Forms
      <4>2. CASE ask.atyp = "ip4"
        BY <4>2 DEF HostString, Host
      <4>3. CASE ask.atyp = "ip6"
        BY <4>3 DEF HostString, Host
      <4>4. CASE ask.atyp = "name"
        BY <4>4 DEF HostString, Host
      <4> QED  BY <4>1, <4>2, <4>3, <4>4
    <3>2. ask.atyp = "name" => Len(ask.bytes) < Base /\ Len(ask.bytes) \in Nat
      BY <2>4 DEF Fits
    <3>3. h.form = "name" => ~(Len(h.bytes) > Base - 1)
      BY <3>1, <3>2, FormatsAssumption
    <3> QED  BY <2>5, <3>3 DEF TooLong
  <2> QED  BY <1>2, <2>2, <2>4, <2>5, <2>6, <2>7
<1>3. CASE via # "socks"
  <2> DEFINE s == SpelledHost(Asked.host)
             h == AskedHost
             p == Asked.port
             m == AskedPort
             x == PutAddress(h, Socks)
             y == PutUint16(m)
             z == <<5, CONNECT, 0>>
  <2>1. Asks = IF ~s.ok \/ p = NoPort \/ TooLong(s.host) THEN Fail
               ELSE [ok |-> TRUE, bytes |-> <<5, CONNECT, 0>> \o PutAddress(s.host, Socks) \o PutUint16(p)]
    <3>1. Asks = dialSocksProxy(Asked.host, Asked.port)
      BY <1>3, Zenon DEF Asks
    <3> QED  BY <3>1, Zenon DEF dialSocksProxy
  <2>2. s.host = h
    BY <1>3 DEF AskedHost
  <2>3. CASE ~s.ok \/ p = NoPort \/ TooLong(h)
    <3>1. ~Asks.ok
      BY <2>1, <2>2, <2>3 DEF Fail
    <3> QED  BY <1>3, <2>3, <3>1
  <2>4. CASE ~(~s.ok \/ p = NoPort \/ TooLong(h))
    <3>1. p \in Nat
      BY <1>1, <2>4
    <3>2. m \in 0..(Base * Base - 1) /\ m \in Nat /\ PutUint16(p) = y
      <4>1. m \in 0..(Base * Base - 1) /\ PutUint16(m) = PutUint16(p)
        BY <3>1, LowBytes DEF AskedPort
      <4> QED  BY <4>1
    <3>3. h \in Canonical
      BY <1>1, <2>2, <2>4, SpelledHostType
    <3>4. Asks.ok /\ Asks.bytes = (z \o x) \o y
      <4> HIDE DEF s, h, p, m
      <4> QED  BY <2>1, <2>2, <2>4, <3>2
    <3>5. ~TooLong(h)
      BY <2>4
    <3>6. h.form = "ip6" => Asked.host.form = "ip6"
      <4>1. h = Asked.host \/ h = HostString("name", Inside(Asked.host.bytes))
        BY <1>1, <2>2, <2>4, SpelledIs
      <4>2. HostString("name", Inside(Asked.host.bytes)).form # "ip6"
        BY DEF HostString, Host
      <4> QED  BY <4>1, <4>2
    <3> HIDE DEF h, p, m, s
    <3>7. /\ Fits(h.form, h.bytes) /\ HostString(h.form, h.bytes) = h
          /\ x = Address(Socks[h.form], h.form, h.bytes)
      BY <3>3, <3>5, HostIsAddress, Zenon
    <3>8. x \in Seq(Byte) /\ y \in Seq(Byte) /\ z \in Seq(Byte)
      <4>1. h \in HostType /\ h.form \in DOMAIN Socks
        BY <3>3, TypesAre DEF Canonical, HostType
      <4> QED  BY <3>2, <4>1, PutAddressType, PutUint16Type, TypesAre, SmallBytes DEF CONNECT
    <3>9. x \o y = Target(Socks[h.form], h.form, h.bytes, m)
      BY <3>7, Zenon DEF Target
    <3> HIDE DEF x, y, z
    <3>10. (z \o x) \o y = z \o (x \o y)
      BY <3>8
    <3>11. Requested(h.form, h.bytes)
      <4>1. Asks.bytes = z \o Target(Socks[h.form], h.form, h.bytes, m)
        BY <3>4, <3>9, <3>10, Zenon
      <4> QED  BY <3>6, <3>7, <4>1, Zenon DEF Requested, h, m, z
    <3> QED  BY <2>4, <3>2, <3>3, <3>4, <3>5, <3>11 DEF h, m, s
  <2> QED  BY <2>3, <2>4
<1> QED  BY <1>2, <1>3

-----------------------------------------------------------------------------
Meant(t) == SameTarget(t) \/ Misread(t)

\* What is inside brackets is not longer.
LEMMA InsideShort == ASSUME NEW n \in Seq(Byte) PROVE Len(Inside(n)) <= Len(n) /\ Len(Inside(n)) \in Nat
<1>1. CASE InBrackets(n)
  <2>1. Inside(n) = SubSeq(n, 2, Len(n) - 1) /\ Len(n) \in Nat
    BY <1>1 DEF Inside
  <2>2. Len(SubSeq(n, 2, Len(n) - 1)) <= Len(n) /\ Len(SubSeq(n, 2, Len(n) - 1)) \in Nat
    BY <2>1
  <2> QED  BY <2>1, <2>2
<1>2. CASE ~InBrackets(n)
  BY <1>2 DEF Inside
<1> QED  BY <1>1, <1>2

\* A target that is split again is not longer, and still the one that is meant.
LEMMA RejoinedMeant ==
  ASSUME Asked.host \in Canonical, NEW t, t.ok, t.host = AskedHost, t.port = AskedPort,
         AskedHost \in Canonical, ~TooLong(AskedHost), via # "socks" => SpelledHost(Asked.host).ok
  PROVE  Meant(Rejoined(t)) /\ ~TooLong(Rejoined(t).host)
<1> DEFINE r == Rejoined(t)
           h == t.host
           n == h.bytes
<1>1. IF Clean(h) THEN r.host = h /\ r.port = t.port
      ELSE \/ r.host = HostString("name", Inside(n)) /\ r.port = t.port
           \/ r.host = Host("name", <<>>) /\ r.port = 0
  BY RejoinedIs
<1> HIDE DEF r
<1>2. n \in Seq(Byte)
  BY DEF Canonical, HostType
<1>3. ~TooLong(r.host)
  <2>1. CASE r.host = h
    BY <2>1
  <2>2. CASE ~Clean(h) /\ r.host = HostString("name", Inside(n))
    <3>1. h.form = "name" /\ ~(Len(n) > Base - 1)
      BY <2>2 DEF Clean, TooLong
    <3>2. Len(n) \in Nat /\ Len(Inside(n)) <= Len(n) /\ Len(Inside(n)) \in Nat /\ Base \in Nat
      BY <1>2, InsideShort, FormatsAssumption
    <3>3. ~(Len(Inside(n)) > Base - 1)
      BY <3>1, <3>2
    <3>4. r.host.form = "name" => r.host.bytes = Inside(n)
      BY <2>2, NameItself
    <3> QED  BY <3>3, <3>4 DEF TooLong
  <2>3. CASE r.host = Host("name", <<>>)
    <3>1. ~(Len(<<>>) > Base - 1) /\ r.host.bytes = <<>>
      BY <2>3, FormatsAssumption DEF Host
    <3> QED  BY <3>1 DEF TooLong
  <2> QED  BY <1>1, <2>1, <2>2, <2>3
<1>4. CASE via = "socks"
  <2>1. h = Asked.host /\ t.port = Asked.port % (Base * Base)
    BY <1>4 DEF AskedHost, AskedPort
  <2>2. CASE Clean(h)
    BY <1>1, <2>1, <2>2 DEF Meant, SameTarget, r
  <2>3. CASE ~Clean(h)
    <3>1. Misread(r)
      BY <1>1, <2>1, <2>3, Zenon DEF Misread, Clean
    <3> QED  BY <1>3, <3>1, Zenon DEF Meant, r
  <2> QED  BY <1>3, <2>2, <2>3 DEF r
<1>5. CASE via # "socks"
  <2> DEFINE s == SpelledHost(Asked.host)
  <2>1. s.host = h /\ t.port = Asked.port % (Base * Base) /\ s.ok
    BY <1>5 DEF AskedHost, AskedPort
  <2>2. /\ Clean(h)
        /\ \/ h = Asked.host
           \/ /\ Asked.host.form = "name" /\ ~Plain(Asked.host.bytes)
              /\ h = HostString("name", Inside(Asked.host.bytes))
    BY <2>1, SpelledIs
  <2> HIDE DEF s, h
  <2>3. r.host = h /\ r.port = t.port
    BY <1>1, <2>2
  <2>4. CASE h = Asked.host
    BY <1>3, <2>1, <2>3, <2>4 DEF Meant, SameTarget, r
  <2>5. CASE h # Asked.host
    <3>1. Misread(r)
      BY <2>1, <2>2, <2>3, <2>5, Zenon DEF Misread
    <3> QED  BY <1>3, <3>1, Zenon DEF Meant, r
  <2> QED  BY <1>3, <2>2, <2>4, <2>5 DEF r
<1> QED  BY <1>3, <1>4, <1>5 DEF r

Refusable == \/ TooLong(Asked.host) \/ Asked.port = NoPort
             \/ ask.atyp = "ip6" /\ path # "vless"
             \/ Asked.host.form = "ip6" /\ path # "vless"
             \/ /\ via # "socks"
                /\ Asked.host.form = "name"
                /\ ~Plain(Asked.host.bytes) \/ HasColon(Asked.host.bytes)

\* What a strategy understands is what was asked, or it had a reason to refuse; and the
\* gateway sees the same in the client's request.
LEMMA Understood ==
  ASSUME Asking, via \in {"socks", "CONNECT", "GET"}
  PROVE  /\ Understands.ok => /\ Meant(Understands) /\ Understands.host \in Canonical
                              /\ ~TooLong(Understands.host) /\ Understands.port \in 0..(Base * Base - 1)
         /\ ~Understands.ok => Refusable
         /\ via = "socks" => Meant(Routed)
<1>0. Asked.host \in Canonical
  BY AskedType
<1>1. CASE ~Asks.ok
  <2>1. Understands = Fail
    <3>1. ~Fail.ok
      BY DEF Fail
    <3> QED  BY <1>1, <3>1 DEF Understands
  <2>2. via # "socks" /\ (Asked.port = NoPort \/ TooLong(AskedHost) \/ ~SpelledHost(Asked.host).ok)
    BY <1>1, AsksIs, Zenon
  <2>3. Refusable
    <3>1. CASE Asked.port = NoPort
      BY <3>1 DEF Refusable
    <3>2. CASE ~SpelledHost(Asked.host).ok
      <4>1. Asked.host.form = "name" /\ (~Plain(Asked.host.bytes) \/ HasColon(Asked.host.bytes))
        BY <1>0, <3>2, SpelledIs
      <4> QED  BY <2>2, <4>1, Zenon DEF Refusable
    <3>3. CASE SpelledHost(Asked.host).ok /\ TooLong(AskedHost)
      <4>1. AskedHost = SpelledHost(Asked.host).host
        BY <2>2 DEF AskedHost
      <4>2. AskedHost = Asked.host \/ (Asked.host.form = "name" /\ ~Plain(Asked.host.bytes))
        BY <1>0, <3>3, <4>1, SpelledIs
      <4> QED  BY <2>2, <3>3, <4>2, Zenon DEF Refusable
    <3> QED  BY <2>2, <3>1, <3>2, <3>3
  <2> QED  BY <2>1, <2>2, <2>3 DEF Fail
<1>2. CASE Asks.ok
  <2> DEFINE req == Asks.bytes
             h == AskedHost
             p == AskedPort
             head == <<5, CONNECT, 0>>
             a == GetTarget(Drop(req, 3), Socks)
             b == GetTarget(Drop(req, 3), SocksV4)
  <2>1. (\E atyp, bytes : Requested(atyp, bytes)) /\ p \in 0..(Base * Base - 1) /\ ~TooLong(h) /\ h \in Canonical
        /\ (via # "socks" => SpelledHost(Asked.host).ok)
    BY <1>2, AsksIs, Zenon
  <2>2. PICK atyp, bytes : Requested(atyp, bytes)
    BY <2>1, Zenon
  <2>3. head \in Seq(Byte) /\ Len(head) = 3 /\ head[1] = 5 /\ head[2] = CONNECT
    BY SmallBytes DEF CONNECT
  <2>4. Fits(atyp, bytes) /\ HostString(atyp, bytes) = h /\ req = head \o Target(Socks[atyp], atyp, bytes, p)
        /\ (atyp = "ip6" => ask.atyp = "ip6" \/ Asked.host.form = "ip6")
    BY <2>2, Zenon DEF Requested
  <2>5. /\ ~(Len(req) < 4)
        /\ a.ok /\ a.host = h /\ a.port = p
        /\ IF atyp = "ip6" THEN ~b.ok ELSE b.ok /\ b.host = h /\ b.port = p
    <3> HIDE DEF head, req, h, p
    <3>1. /\ ~(Len(req) < 4)
          /\ a.ok /\ a.host = HostString(atyp, bytes) /\ a.port = p
          /\ IF atyp = "ip6" THEN ~b.ok ELSE b.ok /\ b.host = HostString(atyp, bytes) /\ b.port = p
      <4>1. Behind3(head, req, atyp, bytes, p)
        BY <2>1, <2>3, <2>4, Zenon DEF Behind3
      <4>2. Found(req, atyp, bytes, p)
        BY <4>1, BehindHead, Zenon
      <4> QED  BY <4>2, Zenon DEF Found
    <3> QED  BY <2>4, <3>1
  <2> DEFINE t == IF path = "vless" THEN a ELSE b
  <2>6. Understands = IF t.ok THEN Rejoined(t) ELSE Fail
    <3>1. HandshakeSocks5AndGetResponse(req) = a /\ HandshakeWithClient(req) = b
      BY <2>5, Zenon DEF HandshakeSocks5AndGetResponse, HandshakeWithClient
    <3> QED  BY <1>2, <3>1, Zenon DEF Understands
  <2>7. sniffTargetSocks5(req) = a
    <3>1. req[1] = 5 /\ req[2] = CONNECT
      <4> DEFINE m == Target(Socks[atyp], atyp, bytes, p)
      <4>1. m \in Seq(Byte)
        <5>1. Socks[atyp] \in Byte
          <6>1. Socks[atyp] \in 0..7
            BY <2>4 DEF Fits, Socks, Forms
          <6> QED  BY <6>1, SmallBytes
        <5>2. p \in Nat
          BY <2>1
        <5>3. Joined(Byte, Address(Socks[atyp], atyp, bytes), PutUint16(p), m)
          BY <2>4, <5>1, <5>2, TargetBytes, Zenon
        <5> HIDE DEF m
        <5> QED  BY <5>3 DEF Joined
      <4>2. req = head \o m
        BY <2>4, Zenon
      <4> HIDE DEF m, req, head
      <4>3. Joined(Byte, head, m, req)
        BY <2>3, <4>1, <4>2, Join, Zenon
      <4>4. 1 \in 1..Len(head) /\ 2 \in 1..Len(head)
        BY <2>3
      <4> QED  BY <2>3, <4>3, <4>4 DEF Joined
    <3> QED  BY <2>5, <3>1, Zenon DEF sniffTargetSocks5
  <2>8. ASSUME NEW u, u.ok, u.host = h, u.port = p
        PROVE  /\ Meant(Rejoined(u)) /\ Rejoined(u).ok /\ Rejoined(u).host \in Canonical
               /\ ~TooLong(Rejoined(u).host) /\ Rejoined(u).port \in 0..(Base * Base - 1)
    <3>1. Meant(Rejoined(u)) /\ ~TooLong(Rejoined(u).host)
      BY <1>0, <2>1, <2>8, RejoinedMeant, Zenon
    <3>2. u.host \in Canonical /\ u.port \in Nat
      BY <2>1, <2>8
    <3>3. Rejoined(u).ok /\ Rejoined(u).host \in Canonical
      BY <2>8, <3>2, RejoinedType, Zenon
    <3>4. Rejoined(u).port \in 0..(Base * Base - 1)
      <4>1. Rejoined(u).port = u.port \/ Rejoined(u).port = 0
        BY <2>8, <3>2, RejoinedIs
      <4>2. 0 \in 0..(Base * Base - 1)
        <5>1. u.port \in 0..(Base * Base - 1)
          BY <2>1, <2>8
        <5> DEFINE c == Base * Base
        <5>2. c \in Int
          BY FormatsAssumption
        <5> HIDE DEF c
        <5>3. 0 \in 0..(c - 1)
          BY <5>1, <5>2 DEF c
        <5> QED  BY <5>3 DEF c
      <4> QED  BY <2>1, <2>8, <4>1, <4>2
    <3> QED  BY <3>1, <3>3, <3>4
  <2>11. Meant(Rejoined(a))
    BY <2>5, <2>8, Zenon
  <2>12. Routed = Rejoined(a)
    BY <2>7, Zenon DEF Routed
  <2> HIDE DEF a, b
  <2>9. CASE path = "vless" \/ atyp # "ip6"
    <3>1. t.ok /\ t.host = h /\ t.port = p
      BY <2>5, <2>9
    <3>2. /\ Meant(Rejoined(t)) /\ Rejoined(t).ok /\ Rejoined(t).host \in Canonical
          /\ ~TooLong(Rejoined(t).host) /\ Rejoined(t).port \in 0..(Base * Base - 1)
      BY <2>8, <3>1, Zenon
    <3>3. Understands = Rejoined(t)
      BY <2>6, <3>1, Zenon
    <3> QED  BY <2>11, <2>12, <3>2, <3>3, Zenon
  <2>10. CASE path # "vless" /\ atyp = "ip6"
    <3>1. ~t.ok
      BY <2>5, <2>10
    <3>2. ~Understands.ok
      <4>1. Understands = Fail
        BY <2>6, <3>1, Zenon
      <4> QED  BY <4>1 DEF Fail
    <3>3. Refusable
      BY <2>4, <2>10, Zenon DEF Refusable
    <3> QED  BY <2>11, <2>12, <3>2, <3>3, Zenon
  <2> QED  BY <2>9, <2>10
<1> QED  BY <1>1, <1>2

\* The server finds the target in the metadata of a stream.
LEMMA MetadataRead ==
  ASSUME NEW host \in Canonical, ~TooLong(host), NEW port \in 0..(Base * Base - 1)
  PROVE  LET r == ServerMetadata(buildMetadata(CONNECT, host, port))
         IN r.ok /\ r.host = host /\ r.port = port
<1> DEFINE s == buildMetadata(CONNECT, host, port)
           x == PutAddress(host, Socks)
           y == PutUint16(port)
           t == Target(Socks[host.form], host.form, host.bytes, port)
           c == <<CONNECT>>
<1>1. /\ Fits(host.form, host.bytes) /\ HostString(host.form, host.bytes) = host
      /\ x = Address(Socks[host.form], host.form, host.bytes)
  BY HostIsAddress, Zenon
<1>2. x \o y = t
  BY <1>1, Zenon DEF Target
<1>3. x \in Seq(Byte) /\ y \in Seq(Byte) /\ c \in Seq(Byte) /\ Len(c) = 1 /\ host.form \in DOMAIN Socks
  <2>1. host \in HostType /\ host.form \in DOMAIN Socks /\ port \in Nat
    BY TypesAre DEF Canonical, HostType
  <2> QED  BY <2>1, PutAddressType, PutUint16Type, TypesAre, SmallBytes DEF CONNECT
<1>4. s = (c \o x) \o y
  BY Zenon DEF buildMetadata
<1> HIDE DEF s, x, y, c
<1>5. s = c \o t /\ t \in Seq(Byte)
  <2>1. (c \o x) \o y = c \o (x \o y) /\ x \o y \in Seq(Byte)
    BY <1>3
  <2> QED  BY <1>2, <1>4, <2>1, Zenon
<1> HIDE DEF t
<1>6. s # <<>> /\ Tail(s) = t
  <2>1. Joined(Byte, c, t, s)
    BY <1>3, <1>5, Join, Zenon
  <2>2. s \in Seq(Byte) /\ Len(s) = 1 + Len(t) /\ Len(t) \in Nat /\ \A i \in 1..Len(t) : s[1 + i] = t[i]
    BY <1>3, <2>1 DEF Joined
  <2>3. s # <<>>
    BY <2>2
  <2> DEFINE d == Tail(s)
  <2>4. d \in Seq(Byte) /\ Len(d) = Len(t) /\ \A i \in 1..Len(d) : d[i] = s[1 + i]
    BY <2>2, <2>3
  <2> HIDE DEF d
  <2>5. \A i \in 1..Len(d) : d[i] = t[i]
    BY <2>2, <2>4
  <2>6. d = t
    BY <1>5, <2>4, <2>5, SameSeq
  <2> QED  BY <2>3, <2>6 DEF d
<1>7. ServerMetadata(s) = GetTarget(t, Socks)
  BY <1>6, Zenon DEF ServerMetadata
<1>8. Starts(t, t) /\ ~(Len(t) < Len(t))
  <2>1. Starts(t, t)
    BY StartsSame, Zenon
  <2>2. Len(t) \in Nat
    BY <1>5
  <2> QED  BY <2>1, <2>2
<1>9. GetTarget(t, Socks).ok /\ GetTarget(t, Socks).host = HostString(host.form, host.bytes) /\ GetTarget(t, Socks).port = port
  <2>1. TypesOK(Socks)
    BY TypesAre
  <2> QED  BY <1>1, <1>3, <1>5, <1>8, <2>1, ReadTarget, Zenon DEF t
<1> QED  BY <1>1, <1>7, <1>9, Zenon DEF s

-----------------------------------------------------------------------------
(* The headers of VLESS.                                                    *)

HeaderBytes(host, port) == EncodeRequestHeader(host, port).bytes

\* The port and the address are behind the version, the user's id, the length of the
\* addons and the command.
LEMMA HeaderIs ==
  ASSUME NEW host \in Canonical, ~TooLong(host), NEW port \in 0..(Base * Base - 1)
  PROVE  LET w == HeaderBytes(host, port)
             y == Address(Vless[host.form], host.form, host.bytes)
         IN /\ EncodeRequestHeader(host, port).ok
            /\ w \in Seq(Byte) /\ Len(w) = 7 + Len(y) /\ y \in Seq(Byte)
            /\ w[6] = PutUint16(port)[1] /\ w[7] = PutUint16(port)[2]
            /\ \A i \in 1..Len(y) : w[7 + i] = y[i]
<1> DEFINE w == HeaderBytes(host, port)
           y == Address(Vless[host.form], host.form, host.bytes)
           x == PutUint16(port)
           v == <<Version>> \o UUID \o <<0, CONNECT>>
           u == v \o x
<1>1. EncodeRequestHeader(host, port) = [ok |-> TRUE, bytes |-> u \o PutAddress(host, Vless)]
  BY Zenon DEF EncodeRequestHeader
<1>2. PutAddress(host, Vless) = y /\ Fits(host.form, host.bytes)
  BY HostIsAddress, Zenon
<1>3. y \in Seq(Byte) /\ x \in Seq(Byte) /\ Len(x) = 2
  <2>1. host \in HostType /\ host.form \in DOMAIN Vless /\ port \in Nat
    BY TypesAre DEF Canonical, HostType
  <2>2. PutAddress(host, Vless) \in Seq(Byte)
    BY <2>1, PutAddressType, TypesAre
  <2> QED  BY <1>2, <2>1, <2>2, PutUint16Type
<1>4. v \in Seq(Byte) /\ Len(v) = 5
  <2>1. <<Version>> \in Seq(Byte) /\ UUID \in Seq(Byte) /\ <<0, CONNECT>> \in Seq(Byte)
        /\ Len(<<Version>>) = 1 /\ Len(UUID) = 2 /\ Len(<<0, CONNECT>>) = 2
    BY SmallBytes DEF Version, UUID, CONNECT
  <2> DEFINE a == <<Version>>
             b == UUID
             c == <<0, CONNECT>>
  <2> HIDE DEF a, b, c
  <2>2. a \in Seq(Byte) /\ b \in Seq(Byte) /\ c \in Seq(Byte) /\ Len(a) = 1 /\ Len(b) = 2 /\ Len(c) = 2
    BY <2>1 DEF a, b, c
  <2>3. a \o b \in Seq(Byte) /\ Len(a \o b) = 3
    <3>1. Joined(Byte, a, b, a \o b)
      BY <2>2, Join, Zenon
    <3> QED  BY <2>2, <3>1 DEF Joined
  <2>4. (a \o b) \o c \in Seq(Byte) /\ Len((a \o b) \o c) = 5
    <3> DEFINE d == a \o b
    <3>1. d \in Seq(Byte) /\ Len(d) = 3
      BY <2>3
    <3> HIDE DEF d
    <3>2. d \o c \in Seq(Byte) /\ Len(d \o c) = 5
      <4>1. Joined(Byte, d, c, d \o c)
        BY <2>2, <3>1, Join, Zenon
      <4> QED  BY <2>2, <3>1, <4>1 DEF Joined
    <3> QED  BY <3>2 DEF d
  <2> QED  BY <2>4 DEF a, b, c
<1>5. w = u \o y
  <2> DEFINE z == u \o PutAddress(host, Vless)
  <2>1. EncodeRequestHeader(host, port) = [ok |-> TRUE, bytes |-> z]
    BY <1>1
  <2> HIDE DEF z
  <2>2. w = z
    BY <2>1 DEF HeaderBytes
  <2> QED  BY <1>2, <2>2, Zenon DEF z
<1>6. EncodeRequestHeader(host, port).ok
  <2> DEFINE z == u \o PutAddress(host, Vless)
  <2>1. EncodeRequestHeader(host, port) = [ok |-> TRUE, bytes |-> z]
    BY <1>1
  <2> HIDE DEF z
  <2> QED  BY <2>1
<1> HIDE DEF w, y, x, v
<1>7. u \in Seq(Byte) /\ Len(u) = 7 /\ u[6] = x[1] /\ u[7] = x[2]
  <2>1. u = v \o x
    BY Zenon
  <2> HIDE DEF u
  <2>2. Joined(Byte, v, x, u)
    BY <1>3, <1>4, <2>1, Join, Zenon
  <2>3. 1 \in 1..2 /\ 2 \in 1..2 /\ 5 + 1 = 6 /\ 5 + 2 = 7
    OBVIOUS
  <2> QED  BY <1>3, <1>4, <2>2, <2>3 DEF Joined
<1> HIDE DEF u
<1>8. Joined(Byte, u, y, w)
  BY <1>3, <1>5, <1>7, Join, Zenon
<1>9. w \in Seq(Byte) /\ Len(w) = 7 + Len(y) /\ w[6] = x[1] /\ w[7] = x[2] /\ \A i \in 1..Len(y) : w[7 + i] = y[i]
  <2>1. 6 \in 1..7 /\ 7 \in 1..7
    OBVIOUS
  <2> QED  BY <1>7, <1>8, <2>1 DEF Joined
<1> QED  BY <1>3, <1>6, <1>9 DEF w, y, x

HeaderFound(g, host, port) ==
    LET n == Len(HeaderBytes(host, port))
        r == ServerHeader(g)
    IN r.host = host /\ r.port = port /\ r.rest = Drop(g, n) /\ ~(Len(g) < n)

\* The server reads the target in the header, and what is left is what follows it.
LEMMA HeaderRead ==
  ASSUME NEW host \in Canonical, ~TooLong(host), NEW port \in 0..(Base * Base - 1),
         NEW g \in Seq(Byte), Starts(g, HeaderBytes(host, port)), ServerHeader(g).ok
  PROVE  HeaderFound(g, host, port)
<1> DEFINE w == HeaderBytes(host, port)
           y == Address(Vless[host.form], host.form, host.bytes)
           x == PutUint16(port)
           d == Drop(g, 7)
           a == GetAddress(d, Vless)
           r == ServerHeader(g)
<1>1. /\ w \in Seq(Byte) /\ Len(w) = 7 + Len(y) /\ y \in Seq(Byte) /\ w[6] = x[1] /\ w[7] = x[2]
      /\ \A i \in 1..Len(y) : w[7 + i] = y[i]
  BY HeaderIs
<1>2. ~(Len(g) < 8) /\ a.ok /\ r = [ok |-> TRUE, host |-> a.host, port |-> Uint16(g, 6), rest |-> a.rest]
  <2> DEFINE n == Len(UUID) + 3
             b == IF Len(g) < n + 3 THEN Fail ELSE GetAddress(Drop(g, n + 2), Vless)
  <2>1. r = IF ~b.ok \/ g[n - 1] # 0 THEN Fail
            ELSE [ok |-> TRUE, host |-> b.host, port |-> Uint16(g, n + 1), rest |-> b.rest]
    BY Zenon DEF ServerHeader
  <2>2. n = 5 /\ n + 3 = 8 /\ n + 2 = 7 /\ n + 1 = 6
    BY DEF UUID
  <2>3. b = IF Len(g) < 8 THEN Fail ELSE a
    BY <2>2, Zenon
  <2> HIDE DEF n, a, b
  <2>4. b.ok
    BY <2>1 DEF Fail
  <2>5. ~(Len(g) < 8) /\ b = a
    BY <2>3, <2>4 DEF Fail
  <2>6. r = [ok |-> TRUE, host |-> b.host, port |-> Uint16(g, n + 1), rest |-> b.rest]
    <3>1. r # Fail
      BY DEF Fail
    <3> QED  BY <2>1, <3>1, Zenon
  <2> QED  BY <2>2, <2>4, <2>5, <2>6, Zenon
<1>3. d \in Seq(Byte) /\ Len(d) = Len(g) - 7 /\ Len(g) \in Nat /\ \A i \in 1..Len(d) : d[i] = g[7 + i]
  BY <1>2 DEF Drop
<1> HIDE DEF w, y, x, d, a, r
<1>4. Starts(d, y)
  <2> SUFFICES ASSUME NEW i \in 1..Len(d), i <= Len(y) PROVE d[i] = y[i]
    BY DEF Starts
  <2>1. Len(y) \in Nat /\ Len(d) \in Nat
    BY <1>1, <1>3
  <2>2. 7 + i \in 1..Len(g) /\ 7 + i <= Len(w) /\ i \in 1..Len(y)
    BY <1>1, <1>3, <2>1
  <2>3. g[7 + i] = w[7 + i]
    BY <2>2, Zenon DEF Starts, w
  <2> QED  BY <1>1, <1>3, <2>2, <2>3
<1>5. ~(Len(d) < Len(y)) /\ a.host = host /\ a.rest = Drop(d, Len(y))
  <2>1. TypesOK(Vless) /\ host.form \in DOMAIN Vless
    BY TypesAre DEF Canonical, HostType
  <2>2. Fits(host.form, host.bytes) /\ HostString(host.form, host.bytes) = host
    BY HostIsAddress, Zenon
  <2>3. /\ Len(d) < Len(y) => ~a.ok
        /\ ~(Len(d) < Len(y)) => a.ok /\ a.host = HostString(host.form, host.bytes) /\ a.rest = Drop(d, Len(y))
    BY <1>3, <1>4, <2>1, <2>2, ReadAddress, Zenon DEF a, y
  <2> QED  BY <1>2, <2>2, <2>3, Zenon
<1>6. Drop(d, Len(y)) = Drop(g, Len(w)) /\ ~(Len(g) < Len(w))
  <2>1. 7 \in 0..Len(g) /\ Len(y) \in Nat /\ Len(y) <= Len(d)
    BY <1>1, <1>2, <1>3, <1>5
  <2>2. Drop(Drop(g, 7), Len(y)) = Drop(g, 7 + Len(y))
    <3> DEFINE k == 7
               m == Len(y)
    <3>1. k \in 0..Len(g) /\ m \in Nat /\ m <= Len(Drop(g, k))
      BY <2>1, Zenon DEF d
    <3> HIDE DEF k, m
    <3>2. Drop(Drop(g, k), m) = Drop(g, k + m)
      BY <3>1, DropDrop, Zenon
    <3> QED  BY <3>2 DEF k, m
  <2>3. ~(Len(g) < 7 + Len(y))
    BY <1>3, <2>1
  <2> QED  BY <1>1, <2>2, <2>3, Zenon DEF d
<1>7. Uint16(g, 6) = port
  <2>1. 6 \in 1..Len(g) /\ 7 \in 1..Len(g) /\ 6 <= Len(w) /\ 7 <= Len(w)
    BY <1>1, <1>2, <1>3
  <2>2. g[6] = w[6] /\ g[7] = w[7]
    BY <2>1, Zenon DEF Starts, w
  <2>3. g[6] = PutUint16(port)[1] /\ g[6 + 1] = PutUint16(port)[2]
    BY <1>1, <2>2 DEF x
  <2> QED  BY <2>3, Uint16Is
<1>8. r.host = host /\ r.port = port /\ r.rest = Drop(g, Len(w))
  BY <1>2, <1>5, <1>6, <1>7
<1> QED  BY <1>6, <1>8, Zenon DEF w, r, HeaderFound

-----------------------------------------------------------------------------
(* What arrives.                                                            *)

\* What is left behind the bytes w when they are followed by the data.
LEMMA DataBehind ==
  ASSUME NEW S, NEW g \in Seq(S), NEW l \in Seq(S), NEW w \in Seq(S), NEW t \in Seq(S), Comes(g, l, w, t),
         ~(Len(g) < Len(w))
  PROVE  IsPrefix(Drop(g, Len(w)), t)
<1>1. Left(g, l, w, t)
  BY ComesStarts, Zenon
<1> DEFINE d == Drop(g, Len(w))
<1>2. d \o l = t
  BY <1>1, Zenon DEF Left
<1>3. d \in Seq(S)
  <2>1. Len(w) \in Nat
    OBVIOUS
  <2> QED  BY <2>1, TakeDrop
<1> HIDE DEF d
<1>4. IsPrefix(d, d \o l)
  BY <1>3, PrefixOf, Zenon
<1> QED  BY <1>2, <1>4, Zenon DEF d

\* The bytes of two Writes.
LEMMA FlattenTwo ==
  ASSUME NEW S, NEW x \in Seq(S), NEW y \in Seq(S)
  PROVE  FlattenSeq(<<x, y>>) = x \o y
<1>1. <<x, y>> = Append(<<x>>, y) /\ <<x>> \in Seq(Seq(S))
  OBVIOUS
<1>2. FlattenSeq(<<x>>) = x
  BY FlattenOne
<1>3. FlattenSeq(<<x>>) \in Seq(S)
  BY <1>2
<1>4. FlattenSeq(Append(<<x>>, y)) = FlattenSeq(<<x>>) \o y
  BY <1>1, <1>3, FlattenAppend, Zenon
<1> QED  BY <1>1, <1>2, <1>4, Zenon

\* VLESS writes its header and the data.
LEMMA UpHeaderIs ==
  ASSUME NEW t, t.host \in Canonical, ~TooLong(t.host), t.port \in 0..(Base * Base - 1), data \in Seq(Byte)
  PROVE  /\ HeaderBytes(t.host, t.port) \in Seq(Byte)
         /\ FlattenSeq(UpHeader(t)) = HeaderBytes(t.host, t.port) \o data
<1> DEFINE h == HeaderBytes(t.host, t.port)
           a == Take(data, 1)
           b == Drop(data, 1)
<1>1. h \in Seq(Byte) /\ EncodeRequestHeader(t.host, t.port).ok
  BY HeaderIs, Zenon
<1>2. UpHeader(t) = <<h \o a>> \o (IF Len(data) > 1 THEN <<b>> ELSE <<>>)
  BY <1>1, Zenon DEF UpHeader, HeaderBytes
<1>3. a \in Seq(Byte) /\ b \in Seq(Byte) /\ data = a \o b /\ Len(data) \in Nat
      /\ Len(b) = IF 1 < Len(data) THEN Len(data) - 1 ELSE 0
  <2>1. 1 \in Nat
    OBVIOUS
  <2> QED  BY <2>1, TakeDrop
<1> HIDE DEF h, a, b
<1> DEFINE x == h \o a
<1>4. x \in Seq(Byte)
  BY <1>1, <1>3
<1>5. (h \o a) \o b = h \o (a \o b) /\ (h \o a) \o <<>> = h \o a
  <2>1. h \in Seq(Byte) /\ a \in Seq(Byte) /\ b \in Seq(Byte)
    BY <1>1, <1>3
  <2>2. (h \o a) \o b = h \o (a \o b)
    BY <2>1
  <2>3. (h \o a) \o <<>> = h \o a
    BY <2>1
  <2> QED  BY <2>2, <2>3
<1>6. CASE Len(data) > 1
  <2>1. UpHeader(t) = <<x>> \o <<b>>
    BY <1>2, <1>6, Zenon
  <2> HIDE DEF x
  <2>2. <<x>> \in Seq(Seq(Byte)) /\ <<b>> \in Seq(Seq(Byte))
    BY <1>3, <1>4
  <2>3. FlattenSeq(UpHeader(t)) = x \o b
    <3>1. FlattenSeq(<<x>> \o <<b>>) = FlattenSeq(<<x>>) \o FlattenSeq(<<b>>)
      BY <2>2, FlattenConcat
    <3>2. FlattenSeq(<<x>>) = x /\ FlattenSeq(<<b>>) = b
      BY <1>3, <1>4, FlattenOne, Zenon
    <3> QED  BY <2>1, <3>1, <3>2, Zenon
  <2> QED  BY <1>1, <1>3, <1>5, <2>3, Zenon DEF x, h
<1>7. CASE ~(Len(data) > 1)
  <2>1. b = <<>>
    BY <1>3, <1>7
  <2>2. UpHeader(t) = <<x>> \o <<>>
    BY <1>2, <1>7, Zenon
  <2> HIDE DEF x
  <2>3. UpHeader(t) = <<x>>
    BY <2>2
  <2>4. FlattenSeq(UpHeader(t)) = x
    BY <1>4, <2>3, FlattenOne, Zenon
  <2>5. x = h \o data
    BY <1>3, <1>5, <2>1, Zenon DEF x
  <2> QED  BY <1>1, <2>4, <2>5, Zenon DEF h
<1> QED  BY <1>6, <1>7

\* Who has asked when the connection is open and no server writes.
LEMMA OpenAsks ==
  ASSUME Inv, Source, step = "open", ~foreign, path # "raw"
  PROVE  /\ Asking /\ via \in {"socks", "CONNECT", "GET"} /\ Understands.ok
         /\ Meant(Understands) /\ Understands.port \in 0..(Base * Base - 1)
         /\ ~TooLong(Understands.host) /\ Understands.host \in Canonical
<1>1. Asker /\ RequestTypes
  BY DEF Inv, Source
<1>2. via \in (IF foreign THEN {""} ELSE {"socks", "CONNECT", "GET", "udp"})
  BY <1>1 DEF Asker
<1>3. via \in {"socks", "CONNECT", "GET", "udp"}
  BY <1>2, Zenon
<1>4. via \in {"socks", "CONNECT", "GET"} /\ Understands.ok
  BY <1>1, <1>3 DEF Asker
<1>5. Asking
  BY <1>1, <1>3 DEF RequestTypes
<1> QED  BY <1>4, <1>5, Understood, Zenon

\* A target with the host and the port that are meant.
LEMMA MeantToo ==
  ASSUME NEW t, NEW u, Meant(t), u.host = t.host, u.port = t.port
  PROVE  Meant(u)
  BY Zenon DEF Meant, SameTarget, Misread

\* The target and the data, behind VLESS' header.
LEMMA VlessUp ==
  ASSUME Inv, Source, step = "open", path = "vless", ~foreign, Arrives.ok
  PROVE  Meant(Arrives) /\ IsPrefix(Arrives.rest, data)
<1> DEFINE t == Understands
           w == HeaderBytes(t.host, t.port)
<1>1. /\ via \in {"socks", "CONNECT", "GET"} /\ Meant(t) /\ t.port \in 0..(Base * Base - 1)
      /\ ~TooLong(t.host) /\ t.host \in Canonical
  <2>1. path # "raw"
    OBVIOUS
  <2> QED  BY <2>1, OpenAsks, Zenon
<1>3. data \in Seq(Byte) /\ got \in Seq(Byte)
  BY DEF Inv, RequestTypes, ConnectionTypes
<1>4. Origin = UpHeader(t)
  <2>1. via # ""
    BY <1>1
  <2> QED  BY <2>1, Zenon DEF Origin
<1> HIDE DEF t
<1>5. t.host \in Canonical /\ ~TooLong(t.host) /\ t.port \in 0..(Base * Base - 1)
  BY <1>1, Zenon
<1>6. w \in Seq(Byte) /\ FlattenSeq(Origin) = w \o data
  BY <1>3, <1>4, <1>5, UpHeaderIs, Zenon
<1>7. PICK l \in Seq(Byte) : got \o l = FlattenSeq(Origin)
  BY GotFrom, Zenon
<1>8. Comes(got, l, w, data)
  BY <1>6, <1>7, Zenon DEF Comes
<1>9. Starts(got, w)
  BY <1>3, <1>6, <1>8, ComesStarts, Zenon
<1>10. Arrives = ServerHeader(got)
  BY Zenon DEF Arrives
<1>11. Arrives.host = t.host /\ Arrives.port = t.port /\ Arrives.rest = Drop(got, Len(w)) /\ ~(Len(got) < Len(w))
  <2>1. ServerHeader(got).ok
    BY <1>10, Zenon
  <2>2. /\ ServerHeader(got).host = t.host /\ ServerHeader(got).port = t.port
        /\ ServerHeader(got).rest = Drop(got, Len(w)) /\ ~(Len(got) < Len(w))
    <3>1. HeaderFound(got, t.host, t.port)
      BY <1>3, <1>5, <1>9, <2>1, HeaderRead, Zenon
    <3> QED  BY <3>1, Zenon DEF HeaderFound
  <2> QED  BY <1>10, <2>2, Zenon
<1>12. IsPrefix(Arrives.rest, data)
  BY <1>3, <1>6, <1>8, <1>11, DataBehind, Zenon
<1> QED  BY <1>1, <1>11, <1>12, MeantToo, Zenon

\* The data behind the server's header.
LEMMA VlessDown ==
  ASSUME Inv, Source, step = "open", path = "vless", foreign, DecodeResponseHeader(got).ok
  PROVE  IsPrefix(DecodeResponseHeader(got).rest, data)
<1> DEFINE w == <<Version, 1, 5>>
           r == DecodeResponseHeader(got)
<1>1. data \in Seq(Byte) /\ got \in Seq(Byte) /\ Asker
  BY DEF Inv, Source, RequestTypes, ConnectionTypes
<1>2. Origin = <<w, data>>
  <2>1. via \in (IF foreign THEN {""} ELSE {"socks", "CONNECT", "GET", "udp"})
    BY <1>1 DEF Asker
  <2>2. via = ""
    BY <2>1
  <2>3. Origin = Down
    BY <2>2 DEF Origin
  <2>4. Down = <<w, data>>
    BY DEF Down
  <2> QED  BY <2>3, <2>4, Zenon
<1>3. w \in Seq(Byte) /\ Len(w) = 3 /\ w[1] = 0 /\ w[2] = 1
  BY SmallBytes DEF Version
<1>4. Len(got) \in Nat /\ ~(Len(got) < 2) /\ ~(Len(got) < 2 + got[2]) /\ r.rest = Drop(got, 2 + got[2])
  <2>1. ~(Len(got) < 2 \/ got[1] # Version \/ Len(got) < 2 + got[2])
    BY DEF DecodeResponseHeader, Fail
  <2>2. r = [ok |-> TRUE, rest |-> Drop(got, 2 + got[2])]
    BY <2>1, Zenon DEF DecodeResponseHeader
  <2> DEFINE x == Drop(got, 2 + got[2])
  <2>3. r = [ok |-> TRUE, rest |-> x]
    BY <2>2
  <2> HIDE DEF x, r
  <2>4. r.rest = x
    BY <2>3
  <2> QED  BY <1>1, <2>1, <2>4 DEF x
<1> HIDE DEF w, r
<1>5. FlattenSeq(Origin) = w \o data
  BY <1>1, <1>2, <1>3, FlattenTwo, Zenon
<1>6. PICK l \in Seq(Byte) : got \o l = FlattenSeq(Origin)
  BY GotFrom, Zenon
<1>7. Comes(got, l, w, data)
  BY <1>5, <1>6, Zenon DEF Comes
<1>8. Starts(got, w)
  BY <1>1, <1>3, <1>7, ComesStarts, Zenon
<1>9. got[2] = 1
  <2>1. 2 \in 1..Len(got) /\ 2 <= Len(w)
    BY <1>3, <1>4
  <2> QED  BY <1>3, <1>8, <2>1 DEF Starts
<1>10. r.rest = Drop(got, Len(w)) /\ ~(Len(got) < Len(w))
  BY <1>3, <1>4, <1>9
<1>11. IsPrefix(Drop(got, Len(w)), data)
  BY <1>1, <1>3, <1>7, <1>10, DataBehind, Zenon
<1> QED  BY <1>10, <1>11, Zenon DEF r

\* The data arrives, by what each path reads.
LEMMA DataFollows == ASSUME Inv, Source PROVE DataArrives
<1> SUFFICES ASSUME step = "open" PROVE
        CASE path \in {"goremote", "worker"} ->
                 IsPrefix(PacketsIn(got), IF foreign THEN DownPackets ELSE UpPackets(Understands))
          [] path = "vless" /\ ~foreign -> Arrives.ok => IsPrefix(Arrives.rest, data)
          [] path = "vless" /\ foreign ->
                 LET r == DecodeResponseHeader(got) IN r.ok => IsPrefix(r.rest, data)
          [] OTHER -> TRUE
  BY Zenon DEF DataArrives
<1>1. CASE path \in {"goremote", "worker"}
  <2>1. IsPrefix(PacketsIn(got), IF foreign THEN DownPackets ELSE UpPackets(Understands))
    BY <1>1, PacketsArrive, Zenon
  <2>2. path # "vless"
    BY <1>1
  <2> QED  BY <1>1, <2>1, <2>2, Zenon
<1>2. CASE path = "vless" /\ ~foreign
  <2>1. Arrives.ok => IsPrefix(Arrives.rest, data)
    BY <1>2, VlessUp, Zenon
  <2>2. path \notin {"goremote", "worker"}
    BY <1>2
  <2> QED  BY <1>2, <2>1, <2>2, Zenon
<1>3. CASE path = "vless" /\ foreign
  <2>1. LET r == DecodeResponseHeader(got) IN r.ok => IsPrefix(r.rest, data)
    BY <1>3, VlessDown, Zenon
  <2>2. path \notin {"goremote", "worker"}
    BY <1>3
  <2> QED  BY <1>3, <2>1, <2>2, Zenon
<1>4. CASE path \notin {"goremote", "worker", "vless"}
  BY <1>4
<1> QED  BY <1>1, <1>2, <1>3, <1>4

\* Packets are read as they were written and in order, and behind the headers of VLESS
\* there is nothing but the data, however the connection cuts it.
THEOREM DataIsRead == Spec => []DataArrives
  BY Invariant, Sources, DataFollows, PTL

-----------------------------------------------------------------------------
\* The target in the metadata that opens the stream.
LEMMA TunnelUp ==
  ASSUME Inv, Source, step = "open", path \in {"goremote", "worker"}, ~foreign, Arrives.ok
  PROVE  Meant(Arrives)
<1> DEFINE t == Understands
           ps == UpPackets(t)
           m == buildMetadata(CONNECT, t.host, t.port)
           r == PacketAt(got)
<1>1. /\ Meant(t) /\ t.port \in 0..(Base * Base - 1)
      /\ ~TooLong(t.host) /\ t.host \in Canonical
  <2>1. path # "raw"
    OBVIOUS
  <2> QED  BY <2>1, OpenAsks, Zenon
<1>3. ps \in Seq(PacketType) /\ Matches(Origin, ps)
  BY OriginMatches, Zenon
<1>4. ps = Stream(First(t))
  <2>1. t.host \in Canonical /\ t.port \in Nat
    BY <1>1
  <2> HIDE DEF t
  <2> QED  BY <2>1, UpPacketsAre, Zenon
<1>5. Head(ps) = First(t)
  <2> HIDE DEF t
  <2> DEFINE x == First(t)
  <2>1. ps = Stream(x)
    BY <1>4
  <2> HIDE DEF ps, x
  <2>2. Head(ps) = x
    BY <2>1 DEF Stream
  <2> QED  BY <2>2 DEF x
<1>6. path # "vless"
  OBVIOUS
<1>7. Arrives = IF r.ok THEN ServerMetadata(r.packet.payload) ELSE Fail
  BY <1>6, Zenon DEF Arrives
<1>8. r.ok
  <2> SUFFICES ASSUME ~r.ok PROVE FALSE
    OBVIOUS
  <2>1. Arrives = Fail
    BY <1>7, Zenon
  <2> QED  BY <2>1 DEF Fail
<1>9. r.packet = Head(ps)
  <2>1. PICK l \in Seq(Byte) : got \o l = FlattenSeq(Origin)
    BY GotFrom, Zenon
  <2>2. got \in Seq(Byte)
    BY DEF Inv, ConnectionTypes
  <2>3. Origin \in Seq(Seq(Byte))
    BY OriginType, Zenon
  <2> HIDE DEF ps
  <2> QED  BY <1>3, <1>8, <2>1, <2>2, <2>3, FirstComes, Zenon
<1>10. r.packet.payload = m
  <2> HIDE DEF m, r, t, ps
  <2>1. r.packet = First(t)
    BY <1>5, <1>9, Zenon
  <2>2. First(t) = [id |-> 9, flag |-> 1, payload |-> m]
    BY Zenon DEF First, m
  <2>3. First(t).payload = m
    BY <2>2
  <2> QED  BY <2>1, <2>3, Zenon
<1>11. Arrives = ServerMetadata(m)
  BY <1>7, <1>8, <1>10, Zenon
<1>12. ServerMetadata(m).host = t.host /\ ServerMetadata(m).port = t.port
  <2>1. t.host \in Canonical /\ ~TooLong(t.host) /\ t.port \in 0..(Base * Base - 1)
    BY <1>1, Zenon
  <2> HIDE DEF t
  <2> QED  BY <2>1, MetadataRead, Zenon DEF m
<1> HIDE DEF m, t
<1> QED  BY <1>1, <1>11, <1>12, MeantToo, Zenon

\* Nothing is written for a request that was refused, and nothing arrives.
LEMMA RefusedIsSilent ==
  ASSUME Inv, Source, step = "refused"
  PROVE  ~Arrives.ok
<1>1. Origin = <<>>
  BY DEF Origin
<1>2. got = <<>>
  <2>1. PICK l \in Seq(Byte) : got \o l = FlattenSeq(Origin)
    BY GotFrom, Zenon
  <2>2. got \in Seq(Byte)
    BY DEF Inv, ConnectionTypes
  <2>3. got \o l = <<>>
    BY <1>1, <2>1, FlattenEmpty, Zenon
  <2>4. Joined(Byte, got, l, got \o l)
    BY <2>2, Join, Zenon
  <2>5. Len(<<>>) = Len(got) + Len(l) /\ Len(got) \in Nat /\ Len(l) \in Nat
    BY <2>2, <2>3, <2>4 DEF Joined
  <2> QED  BY <2>2, <2>5
<1>3. CASE path = "vless"
  <2> DEFINE n == Len(UUID) + 3
             a == IF Len(got) < n + 3 THEN Fail ELSE GetAddress(Drop(got, n + 2), Vless)
  <2>1. Len(got) < n + 3
    BY <1>2 DEF UUID
  <2>2. a = Fail
    BY <2>1, Zenon
  <2>3. ~a.ok
    BY <2>2 DEF Fail
  <2>4. ServerHeader(got) = Fail
    BY <2>3, Zenon DEF ServerHeader
  <2>5. Arrives = Fail
    BY <1>3, <2>4, Zenon DEF Arrives
  <2> QED  BY <2>5 DEF Fail
<1>4. CASE path # "vless"
  <2>1. ~PacketAt(got).ok
    BY <1>2, NoPacket, Zenon
  <2>2. Arrives = Fail
    BY <1>4, <2>1, Zenon DEF Arrives
  <2> QED  BY <2>2 DEF Fail
<1> QED  BY <1>3, <1>4

\* The target arrives, by what each path reads.
LEMMA TargetFollows == ASSUME Inv, Source PROVE TargetArrives
<1> SUFFICES ASSUME step \in {"open", "refused"}, via # ""
             PROVE  /\ Arrives.ok => Meant(Arrives)
                    /\ via = "socks" => Meant(Routed)
                    /\ step = "refused" => Refusable
  BY Zenon DEF TargetArrives, Refusable, Meant
<1>1. Asker /\ RequestTypes
  BY DEF Inv, Source
<1>2. via \in {"socks", "CONNECT", "GET"} /\ path # "raw" /\ ~foreign
  <2>1. via \in {"", "socks", "CONNECT", "GET"}
    BY <1>1 DEF Asker
  <2>2. path # "raw"
    BY <1>1, <2>1 DEF Asker
  <2>3. via \in (IF foreign THEN {""} ELSE {"socks", "CONNECT", "GET", "udp"})
    BY <1>1, <2>2 DEF Asker
  <2> QED  BY <2>1, <2>2, <2>3
<1>3. Asking
  BY <1>1, <1>2 DEF RequestTypes
<1>4. /\ ~Understands.ok => Refusable
      /\ via = "socks" => Meant(Routed)
  BY <1>2, <1>3, Understood, Zenon
<1>5. CASE step = "open"
  <2>1. Arrives.ok => Meant(Arrives)
    <3>1. CASE path = "vless"
      BY <1>2, <1>5, <3>1, VlessUp, Zenon
    <3>2. CASE path \in {"goremote", "worker"}
      BY <1>2, <1>5, <3>2, TunnelUp, Zenon
    <3> QED  BY <1>1, <1>2, <3>1, <3>2 DEF RequestTypes
  <2>2. step # "refused"
    BY <1>5
  <2> QED  BY <1>4, <2>1, <2>2, Zenon
<1>6. CASE step = "refused"
  <2>1. ~Arrives.ok
    BY <1>6, RefusedIsSilent, Zenon
  <2>2. ~Understands.ok
    BY <1>1, <1>6 DEF Asker
  <2> QED  BY <1>4, <2>1, <2>2, Zenon
<1> QED  BY <1>5, <1>6

\* The server is asked for the host that the client has asked for, and the gateway has
\* routed by it; the port is what two bytes hold of the client's.  Only names with brackets
\* are misread, and a request is refused only for a target that some format cannot carry.
THEOREM TargetIsAsked == Spec => []TargetArrives
  BY Invariant, Sources, TargetFollows, PTL

-----------------------------------------------------------------------------
(* Datagrams.                                                               *)

\* What was found is what the look at the datagram has found.
Seen == step = "looked" /\ via = "udp" => Asking /\ seen = parseSocks5UDPTarget(Datagram)

\* At first nothing was looked at.
LEMMA InitSeen == ASSUME Init PROVE Seen
<1>1. step # "looked"
  <2>1. step \in {"open", "asks"}
    BY Zenon DEF Init
  <2> QED  BY <2>1
<1> QED  BY <1>1 DEF Seen

\* It stays when the request stays.
LEMMA SeenStays == ASSUME Seen, UNCHANGED <<step, via, ask, seen, data>> PROVE Seen'
<1>1. Datagram' = Datagram
  BY DEF Datagram, Says
<1>2. Asking' <=> Asking
  BY DEF Asking
<1> QED  BY <1>1, <1>2 DEF Seen

\* Every step keeps it.
LEMMA SeenStep == ASSUME Inv, Seen, [Next]_vars PROVE Seen'
<1>1. CASE Request
  <2>1. step' # "looked"
    BY <1>1 DEF Request
  <2> QED  BY <2>1 DEF Seen
<1>2. CASE Look
  <2>1. CASE via = "udp"
    <3>1. UNCHANGED <<via, ask, data>> /\ seen' = parseSocks5UDPTarget(Datagram)
      BY <1>2, <2>1 DEF Look
    <3>2. Datagram' = Datagram
      BY <3>1 DEF Datagram, Says
    <3>3. Asking /\ (Asking' <=> Asking)
      BY <2>1, <3>1 DEF Inv, RequestTypes, Asking
    <3> QED  BY <3>1, <3>2, <3>3, Zenon DEF Seen
  <2>2. CASE via # "udp"
    <3>1. via' # "udp"
      BY <1>2, <2>2 DEF Look
    <3> QED  BY <3>1 DEF Seen
  <2> QED  BY <2>1, <2>2
<1>3. CASE UNCHANGED request
  <2>1. UNCHANGED <<step, via, ask, seen, data>>
    BY <1>3 DEF request
  <2> QED  BY <2>1, SeenStays, Zenon
<1> QED  BY <1>1, <1>2, <1>3 DEF Next, vars

\* A target with anything behind it.
Before(n, atyp, bytes, port, rest, t, g) ==
    /\ n \in Byte /\ Fits(atyp, bytes) /\ port \in Nat /\ rest \in Seq(Byte)
    /\ t = Target(n, atyp, bytes, port) /\ g = t \o rest

\* Such a string starts with the target.
LEMMA TargetStarts ==
  ASSUME NEW n, NEW atyp, NEW bytes, NEW port, NEW rest, NEW t, NEW g, Before(n, atyp, bytes, port, rest, t, g)
  PROVE  t \in Seq(Byte) /\ g \in Seq(Byte) /\ Starts(g, t) /\ ~(Len(g) < Len(t)) /\ g[1] = n
<1> USE DEF Before
<1> DEFINE w == Address(n, atyp, bytes)
<1>1. Joined(Byte, w, PutUint16(port), t)
  BY TargetBytes, Zenon
<1>2. w \in Seq(Byte) /\ Len(w) = From(atyp) - 1 + Len(bytes) /\ w[1] = n
  BY AddressBytes
<1>3. From(atyp) \in {2, 3} /\ Len(bytes) \in Nat
  BY DEF From, Fits
<1>4. t \in Seq(Byte) /\ Len(t) > 0 /\ t[1] = n
  <2> HIDE DEF w
  <2> QED  BY <1>1, <1>2, <1>3 DEF Joined
<1>5. Joined(Byte, t, rest, g)
  BY <1>4, Join, Zenon
<1> QED  BY <1>4, <1>5 DEF Joined, Starts

\* What is found in a datagram is its target, or one of the two strings.
LEMMA DatagramFollows == ASSUME Inv, Seen PROVE DatagramIsSeen
<1> SUFFICES ASSUME step = "looked", via = "udp"
             PROVE  \/ SameTarget(seen)
                    \/ seen = Unparsed("unknown_type") /\ ask.atyp = "ip6"
                    \/ seen = Unparsed("invalid") /\ Len(Datagram) < 6 + V4
  BY Zenon DEF DatagramIsSeen
<1> DEFINE z == <<0, 0, 0>>
           n == Socks[ask.atyp]
           t == Target(n, ask.atyp, ask.bytes, ask.port)
           g == t \o data
           d == Datagram
           r == GetTarget(g, SocksV4)
<1>1. seen = parseSocks5UDPTarget(d) /\ Asking /\ data \in Seq(Byte)
  BY DEF Seen, Inv, RequestTypes
<1>2. z \in Seq(Byte) /\ Len(z) = 3
  BY SmallBytes
<1>3. Fits(ask.atyp, ask.bytes) /\ ask.port \in 0..(Base * Base - 1) /\ Says(z) = z \o t
  <2> HIDE DEF z
  <2> QED  BY <1>1, <1>2, SaysIs
<1>4. n \in Byte /\ ask.port \in Nat /\ ask.atyp \in Forms
  <2>1. n \in 0..7 /\ ask.atyp \in Forms
    BY <1>3 DEF Fits, Socks, Forms
  <2>2. ask.port \in Nat
    BY <1>3, ConnectionsAssumption
  <2> QED  BY <2>1, <2>2, SmallBytes
<1>5. t \in Seq(Byte) /\ g \in Seq(Byte) /\ Starts(g, t) /\ ~(Len(g) < Len(t)) /\ g[1] = n
  <2>1. t = Target(n, ask.atyp, ask.bytes, ask.port) /\ g = t \o data
    OBVIOUS
  <2> HIDE DEF n, t, g
  <2>2. Before(n, ask.atyp, ask.bytes, ask.port, data, t, g)
    BY <1>1, <1>3, <1>4, <2>1, Zenon DEF Before
  <2> QED  BY <2>2, TargetStarts, Zenon
<1>6. d = z \o g
  <2>1. d = (z \o t) \o data
    <3>1. d = Says(z) \o data
      BY Zenon DEF Datagram
    <3> HIDE DEF z, t, d
    <3> QED  BY <1>3, <3>1, Zenon
  <2> HIDE DEF t, z
  <2> QED  BY <1>1, <1>2, <1>5, <2>1
<1>7. Drop(d, 3) = g /\ Len(g) \in Nat /\ d[4] = g[1]
  <2> HIDE DEF d, g, z
  <2>1. Heads(Byte, z, g, d)
    BY <1>2, <1>5, <1>6, Zenon DEF Heads
  <2>2. Followed(Byte, g, d)
    BY <2>1, DropHead, Zenon
  <2>3. Drop(d, 3) = g /\ Len(d) = 3 + Len(g) /\ Len(g) \in Nat
    BY <2>2, Zenon DEF Followed
  <2>4. Len(g) > 0
    <3>1. Len(t) > 0 /\ Len(t) \in Nat
      <4>1. Joined(Byte, Address(n, ask.atyp, ask.bytes), PutUint16(ask.port), t)
        BY <1>3, <1>4, TargetBytes, Zenon
      <4>2. Len(PutUint16(ask.port)) = 2
        BY <1>4, PutUint16Type
      <4> HIDE DEF t
      <4> QED  BY <4>1, <4>2 DEF Joined
    <3> HIDE DEF t
    <3> QED  BY <1>5, <2>3, <3>1
  <2>5. Joined(Byte, z, g, d)
    BY <1>2, <1>5, <1>6, Join, Zenon
  <2>6. d[4] = g[1]
    <3>1. 1 \in 1..Len(g) /\ Len(z) + 1 = 4
      BY <1>2, <2>3, <2>4
    <3>2. d[Len(z) + 1] = g[1]
      BY <2>5, <3>1 DEF Joined
    <3> QED  BY <3>1, <3>2, Zenon
  <2> QED  BY <2>3, <2>6, Zenon
<1>8. CASE Len(d) < 6 + V4
  <2>1. parseSocks5UDPTarget(d) = Unparsed("invalid")
    <3> HIDE DEF d
    <3> QED  BY <1>8, Zenon DEF parseSocks5UDPTarget
  <2> QED  BY <1>1, <1>8, <2>1, Zenon
<1>9. CASE ~(Len(d) < 6 + V4) /\ ask.atyp # "ip6"
  <2>1. TypesOK(SocksV4) /\ ask.atyp \in DOMAIN SocksV4
    BY <1>4, <1>9, TypesAre DEF Forms
  <2>2. SocksV4[ask.atyp] = n
    BY <1>4, <1>9 DEF SocksV4, Socks, Forms
  <2>3. r.ok /\ r.host = HostString(ask.atyp, ask.bytes) /\ r.port = ask.port
    <3> HIDE DEF g, n
    <3> QED  BY <1>3, <1>5, <2>1, <2>2, ReadTarget, Zenon
  <2>4. parseSocks5UDPTarget(d) = r
    <3> DEFINE u == GetTarget(Drop(d, 3), SocksV4)
    <3>1. u = r
      BY <1>7, Zenon
    <3>2. u.ok
      BY <2>3, <3>1, Zenon
    <3> HIDE DEF d, r
    <3>3. parseSocks5UDPTarget(d) =
              CASE u.ok -> u
                [] ~u.ok /\ d[4] = SocksV4.name -> Unparsed("invalid")
                [] OTHER -> Unparsed("unknown_type")
      BY <1>9, Zenon DEF parseSocks5UDPTarget
    <3> HIDE DEF u
    <3>4. parseSocks5UDPTarget(d) = u
      BY <3>2, <3>3
    <3> QED  BY <3>1, <3>4, Zenon
  <2>5. Asked.host = HostString(ask.atyp, ask.bytes) /\ Asked.port = ask.port
    BY DEF Asked
  <2>6. ask.port % (Base * Base) = ask.port
    BY <1>3, <1>4, LowBytes, Zenon
  <2>7. Asked.port % (Base * Base) = ask.port
    BY <2>5, <2>6, Zenon
  <2> HIDE DEF r
  <2> QED  BY <1>1, <2>3, <2>4, <2>5, <2>7, Zenon DEF SameTarget
<1>10. CASE ~(Len(d) < 6 + V4) /\ ask.atyp = "ip6"
  <2> DEFINE u == GetTarget(Drop(d, 3), SocksV4)
  <2>1. n = 4 /\ (\A x \in DOMAIN SocksV4 : SocksV4[x] # 4) /\ SocksV4.name = 3
    BY <1>10 DEF Socks, SocksV4
  <2>2. ~GetAddress(g, SocksV4).ok
    <3>1. \A x \in DOMAIN SocksV4 : SocksV4[x] # g[1]
      BY <1>5, <2>1, Zenon
    <3> HIDE DEF g
    <3> QED  BY <1>5, <3>1, TypeUnknown, Zenon
  <2>3. GetTarget(g, SocksV4) = Fail
    <3> HIDE DEF g
    <3> QED  BY <2>2, Zenon DEF GetTarget
  <2>4. u = Fail
    BY <1>7, <2>3, Zenon
  <2>5. ~u.ok
    BY <2>4 DEF Fail
  <2>6. d[4] # SocksV4.name
    <3>1. d[4] = 4
      BY <1>5, <1>7, <2>1, Zenon
    <3> QED  BY <2>1, <3>1
  <2> HIDE DEF d
  <2>7. parseSocks5UDPTarget(d) =
            CASE u.ok -> u
              [] ~u.ok /\ d[4] = SocksV4.name -> Unparsed("invalid")
              [] OTHER -> Unparsed("unknown_type")
    BY <1>10, Zenon DEF parseSocks5UDPTarget
  <2> HIDE DEF u
  <2>8. parseSocks5UDPTarget(d) = Unparsed("unknown_type")
    BY <2>5, <2>6, <2>7
  <2> QED  BY <1>1, <1>10, <2>8, Zenon DEF d
<1> QED  BY <1>8, <1>9, <1>10

\* The NAT map knows every datagram by its target, but for those to IPv6 targets, which
\* are one to it, and for those of less than ten bytes.
THEOREM DatagramIsKnown == Spec => []DatagramIsSeen
<1>1. Init => Seen
  BY InitSeen
<1>2. Inv /\ Seen /\ [Next]_vars => Seen'
  BY SeenStep
<1>3. Inv /\ Seen => DatagramIsSeen
  BY DatagramFollows
<1> QED  BY <1>1, <1>2, <1>3, Invariant, PTL DEF Spec

-----------------------------------------------------------------------------
(* ClientHellos.                                                            *)

\* The bytes b are in s, from place i + 1.
HasAt(s, i, b) == i + Len(b) <= Len(s) /\ \A j \in 1..Len(b) : s[i + j] = b[j]

\* What is in a string has its parts in it.
LEMMA HoldsParts ==
  ASSUME NEW S, NEW s \in Seq(S), NEW i \in Nat, NEW x \in Seq(S), NEW y \in Seq(S), NEW b,
         Joined(S, x, y, b), HasAt(s, i, b)
  PROVE  HasAt(s, i, x) /\ HasAt(s, i + Len(x), y)
<1> DEFINE m == Len(x)
           n == Len(y)
<1>1. /\ m \in Nat /\ n \in Nat /\ Len(b) = m + n /\ Len(s) \in Nat
      /\ (\A j \in 1..m : b[j] = x[j]) /\ \A j \in 1..n : b[m + j] = y[j]
  BY DEF Joined
<1>2. i + (m + n) <= Len(s) /\ \A j \in 1..(m + n) : s[i + j] = b[j]
  BY <1>1 DEF HasAt
<1>3. i + m <= Len(s) /\ (i + m) + n <= Len(s)
  BY <1>1, <1>2
<1>4. \A j \in 1..m : s[i + j] = x[j]
  BY <1>1, <1>2
<1>5. ASSUME NEW j \in 1..n PROVE s[(i + m) + j] = y[j]
  <2>1. m + j \in 1..(m + n) /\ (i + m) + j = i + (m + j)
    BY <1>1
  <2>2. s[i + (m + j)] = b[m + j]
    BY <1>2, <2>1
  <2> QED  BY <1>1, <2>1, <2>2
<1> QED  BY <1>3, <1>4, <1>5 DEF HasAt

\* A number of two bytes.
LEMMA HoldsNumber ==
  ASSUME NEW s, NEW i \in Nat, NEW n \in 0..(Base * Base - 1), HasAt(s, i, PutUint16(n))
  PROVE  Uint16(s, i + 1) = n /\ i + 2 <= Len(s)
<1> DEFINE p == PutUint16(n)
<1>1. n \in Nat
  BY FormatsAssumption
<1>2. Len(p) = 2
  BY <1>1, PutUint16Type
<1> HIDE DEF p
<1>3. i + 2 <= Len(s) /\ s[i + 1] = p[1] /\ s[i + 2] = p[2] /\ (i + 1) + 1 = i + 2
  BY <1>2 DEF HasAt, p
<1> QED  BY <1>3, Uint16Is DEF p

\* A part of a string.
LEMMA HoldsSlice ==
  ASSUME NEW S, NEW s \in Seq(S), NEW i \in Nat, NEW b \in Seq(S), HasAt(s, i, b)
  PROVE  SubSeq(s, i + 1, i + Len(b)) = b
<1> DEFINE d == SubSeq(s, i + 1, i + Len(b))
<1>1. d \in Seq(S) /\ Len(d) = Len(b) /\ \A j \in 1..Len(b) : d[j] = s[i + j]
  BY DEF HasAt
<1> HIDE DEF d
<1>2. \A j \in 1..Len(d) : d[j] = b[j]
  BY <1>1 DEF HasAt
<1>3. d = b
  BY <1>1, <1>2, SameSeq
<1> QED  BY <1>3 DEF d

-----------------------------------------------------------------------------
\* The fields of a ClientHello.
LEMMA Fields ==
  ASSUME NEW b \in Seq(Byte), Len(b) <= MaxContent
  PROVE  /\ Joined(Byte, PutUint16(Len(b)), b, Field16(b)) /\ Len(PutUint16(Len(b))) = 2
         /\ Len(b) \in 0..(Base * Base - 1)
<1>1. Len(b) \in Nat /\ PutUint16(Len(b)) \in Seq(Byte) /\ Len(PutUint16(Len(b))) = 2
  BY PutUint16Type
<1>2. Joined(Byte, PutUint16(Len(b)), b, Field16(b))
  BY <1>1, Join, Zenon DEF Field16
<1>3. Base * Base \in Nat
  BY FormatsAssumption
<1> QED  BY <1>1, <1>2, <1>3 DEF MaxContent

\* Extensions whose length fits: a number, a length and that many bytes.
ExtType == {e \in [type : 0..MaxContent, body : Seq(Byte)] : Len(e.body) <= MaxContent}

\* What it is written as.
LEMMA ExtensionIs ==
  ASSUME NEW e \in ExtType
  PROVE  /\ Joined(Byte, PutUint16(e.type), Field16(e.body), Extension(e))
         /\ Len(PutUint16(e.type)) = 2 /\ e.type \in 0..(Base * Base - 1)
         /\ Len(Extension(e)) = 4 + Len(e.body)
<1>1. e.type \in 0..MaxContent /\ e.body \in Seq(Byte) /\ Len(e.body) <= MaxContent
  BY DEF ExtType
<1> DEFINE b == e.body
           t == e.type
<1>2. /\ Joined(Byte, PutUint16(Len(b)), b, Field16(b)) /\ Len(PutUint16(Len(b))) = 2
  BY <1>1, Fields, Zenon
<1>3. t \in Nat /\ t \in 0..(Base * Base - 1)
  BY <1>1, FormatsAssumption DEF MaxContent
<1>4. PutUint16(t) \in Seq(Byte) /\ Len(PutUint16(t)) = 2
  BY <1>3, PutUint16Type
<1>5. Field16(b) \in Seq(Byte) /\ Len(Field16(b)) = 2 + Len(b)
  BY <1>2 DEF Joined
<1>6. Joined(Byte, PutUint16(t), Field16(b), Extension(e))
  BY <1>4, <1>5, Join, Zenon DEF Extension
<1>7. Len(Extension(e)) = 4 + Len(b)
  BY <1>1, <1>4, <1>5, <1>6 DEF Joined
<1> QED  BY <1>3, <1>4, <1>6, <1>7

\* An extension in a string of them.
LEMMA ExtensionAt ==
  ASSUME NEW s \in Seq(Byte), NEW i \in Nat, NEW e \in ExtType, HasAt(s, i, Extension(e))
  PROVE  /\ Uint16(s, i + 1) = e.type /\ Uint16(s, i + 3) = Len(e.body)
         /\ i + 4 + Len(e.body) <= Len(s) /\ SubSeq(s, i + 5, i + 4 + Len(e.body)) = e.body
<1> DEFINE b == e.body
           t == e.type
           l == PutUint16(Len(b))
           f == Field16(b)
<1>1. /\ Joined(Byte, PutUint16(t), f, Extension(e))
      /\ Len(PutUint16(t)) = 2 /\ t \in 0..(Base * Base - 1)
  BY ExtensionIs, Zenon
<1>2. b \in Seq(Byte) /\ Len(b) <= MaxContent
  BY DEF ExtType
<1>3. Joined(Byte, l, b, f) /\ Len(l) = 2 /\ Len(b) \in 0..(Base * Base - 1)
  BY <1>2, Fields, Zenon
<1>4. PutUint16(t) \in Seq(Byte) /\ l \in Seq(Byte) /\ f \in Seq(Byte)
  <2>1. t \in Nat /\ Len(b) \in Nat
    BY <1>1, <1>3, FormatsAssumption
  <2> QED  BY <1>3, <2>1, PutUint16Type DEF Joined
<1>5. HasAt(s, i, PutUint16(t)) /\ HasAt(s, i + 2, f)
  <2> HIDE DEF t, f
  <2> QED  BY <1>1, <1>4, HoldsParts
<1>6. HasAt(s, i + 2, l) /\ HasAt(s, (i + 2) + 2, b)
  <2> HIDE DEF b, l, f
  <2>1. i + 2 \in Nat
    OBVIOUS
  <2> QED  BY <1>2, <1>3, <1>4, <1>5, <2>1, HoldsParts
<1>7. Uint16(s, i + 1) = t
  BY <1>1, <1>5, HoldsNumber
<1>8. Uint16(s, (i + 2) + 1) = Len(b)
  BY <1>3, <1>6, HoldsNumber
<1>9. SubSeq(s, (i + 2) + 2 + 1, (i + 2) + 2 + Len(b)) = b
  <2>1. (i + 2) + 2 \in Nat
    OBVIOUS
  <2> HIDE DEF b
  <2> QED  BY <1>2, <1>6, <2>1, HoldsSlice
<1>10. (i + 2) + 2 + Len(b) <= Len(s)
  BY <1>6 DEF HasAt
<1>11. (i + 2) + 1 = i + 3 /\ (i + 2) + 2 + 1 = i + 5 /\ (i + 2) + 2 + Len(b) = i + 4 + Len(b)
  BY <1>3, FormatsAssumption
<1> QED  BY <1>7, <1>8, <1>9, <1>10, <1>11

-----------------------------------------------------------------------------
\* The loop over the extensions, from place i on; f has what it finds from later places.
SniOf(body) ==
    IF Len(body) < 5 \/ body[3] # 0 \/ Len(body) - 5 < Uint16(body, 4) THEN Fail
    ELSE [ok |-> TRUE, name |-> SubSeq(body, 6, 5 + Uint16(body, 4))]
NameStep(f, ext, i) ==
    IF Len(ext) - i < 4 \/ Len(ext) - i - 4 < Uint16(ext, i + 3) THEN Fail
    ELSE LET next == i + 4 + Uint16(ext, i + 3)
             body == SubSeq(ext, i + 5, next)
         IN IF Uint16(ext, i + 1) # 0 THEN f[next] ELSE SniOf(body)
Names(f, ext, a) == f = [i \in a..Len(ext) |-> NameStep(f, ext, i)]

\* The function by which ServerName is defined: its values, and that there is one.
LEMMA NamesAt ==
  ASSUME NEW f, NEW ext, NEW a, NEW i \in a..Len(ext), Names(f, ext, a)
  PROVE  f[i] = NameStep(f, ext, i)
<1> DEFINE g == [j \in a..Len(ext) |-> NameStep(f, ext, j)]
<1>1. f = g
  BY DEF Names
<1>2. g[i] = NameStep(f, ext, i)
  BY Zenon
<1> HIDE DEF g
<1> QED  BY <1>1, <1>2

\* Only later places matter.
LEMMA NameAgrees ==
  ASSUME NEW ext \in Seq(Byte), NEW i \in 0..Len(ext), NEW f, NEW g,
         \A j \in (i + 1)..Len(ext) : f[j] = g[j]
  PROVE  NameStep(f, ext, i) = NameStep(g, ext, i)
<1> DEFINE n == Len(ext)
           u == Uint16(ext, i + 3)
           next == i + 4 + u
           stop == n - i < 4 \/ n - i - 4 < u
           other == Uint16(ext, i + 1) # 0
           name == SniOf(SubSeq(ext, i + 5, next))
<1>1. n \in Nat /\ i \in Nat
  OBVIOUS
<1>2. ~stop => u \in Nat /\ next \in (i + 1)..n
  <2> SUFFICES ASSUME ~stop PROVE u \in Nat /\ next \in (i + 1)..n
    OBVIOUS
  <2>1. i + 3 \in 1..n /\ i + 4 \in 1..n
    BY <1>1
  <2>2. ext[i + 3] \in Nat /\ ext[i + 4] \in Nat /\ Base \in Nat /\ (i + 3) + 1 = i + 4
    <3>1. ext[i + 3] \in Byte /\ ext[i + 4] \in Byte
      BY <2>1
    <3>2. \A x \in Byte : x \in Nat
      BY FormatsAssumption DEF Byte
    <3>3. Base \in Nat
      BY FormatsAssumption
    <3>4. (i + 3) + 1 = i + 4
      BY <1>1
    <3> QED  BY <3>1, <3>2, <3>3, <3>4, Zenon
  <2>3. u \in Nat
    <3> DEFINE p == ext[i + 3]
               q == ext[i + 4]
    <3>1. u = p * Base + q
      BY <2>2, Zenon DEF Uint16
    <3>2. p \in Nat /\ q \in Nat /\ Base \in Nat
      BY <2>2
    <3> HIDE DEF p, q
    <3>3. p * Base + q \in Nat
      BY <3>2
    <3> QED  BY <3>1, <3>3, Zenon
  <2> HIDE DEF u
  <2> QED  BY <1>1, <2>3
<1>3. ~stop => f[next] = g[next]
  <2> HIDE DEF next, stop
  <2> QED  BY <1>2
<1>4. NameStep(f, ext, i) = IF stop THEN Fail ELSE IF other THEN f[next] ELSE name
  BY Zenon DEF NameStep
<1>5. NameStep(g, ext, i) = IF stop THEN Fail ELSE IF other THEN g[next] ELSE name
  BY Zenon DEF NameStep
<1> HIDE DEF stop, next, other, name
<1> QED  BY <1>3, <1>4, <1>5

\* The loop has its values at all places.
LEMMA NamesExists == ASSUME NEW s \in Seq(Byte) PROVE \E f : Names(f, s, 0)
<1> DEFINE n == Len(s)
           L == {k \in Nat : k <= n + 1 => \E f : Names(f, s, n + 1 - k)}
<1>0. n \in Nat
  OBVIOUS
<1>1. 0 \in L
  <2> DEFINE g == [i \in (n + 1)..n |-> 0]
  <2>1. (n + 1)..n = {} /\ n + 1 - 0 = n + 1
    BY <1>0
  <2>2. Names(g, s, n + 1)
    BY <2>1 DEF Names
  <2> HIDE DEF g
  <2> QED  BY <2>1, <2>2
<1>2. ASSUME NEW k \in Nat, k \in L PROVE k + 1 \in L
  <2> SUFFICES ASSUME k + 1 <= n + 1 PROVE \E f : Names(f, s, n + 1 - (k + 1))
    OBVIOUS
  <2> DEFINE a == n + 1 - (k + 1)
  <2>1. PICK f : Names(f, s, n + 1 - k)
    BY <1>0, <1>2
  <2>2. a \in 0..n /\ n + 1 - k = a + 1
    BY <1>0
  <2> HIDE DEF a
  <2> DEFINE g == [i \in a..n |-> IF i = a THEN NameStep(f, s, i) ELSE f[i]]
  <2>3. \A i \in (a + 1)..n : g[i] = f[i]
    BY <1>0, <2>2
  <2>4. ASSUME NEW i \in a..n PROVE g[i] = NameStep(g, s, i)
    <3>1. NameStep(f, s, i) = NameStep(g, s, i)
      <4>1. \A j \in (i + 1)..n : f[j] = g[j]
        BY <1>0, <2>2, <2>3
      <4>2. i \in 0..n
        BY <1>0, <2>2
      <4> HIDE DEF g
      <4> QED  BY <4>1, <4>2, NameAgrees
    <3>2. CASE i = a
      BY <3>1, <3>2
    <3>3. CASE i # a
      <4>1. g[i] = f[i] /\ i \in (a + 1)..n
        BY <1>0, <2>2, <3>3
      <4>2. f[i] = NameStep(f, s, i)
        BY <2>1, <2>2, <4>1, NamesAt
      <4> QED  BY <3>1, <4>1, <4>2
    <3> QED  BY <3>2, <3>3
  <2>5. g = [i \in a..n |-> g[i]]
    OBVIOUS
  <2> HIDE DEF g
  <2>6. Names(g, s, a)
    BY <2>4, <2>5, Zenon DEF Names
  <2> QED  BY <2>6 DEF a
<1> HIDE DEF L
<1>3. n + 1 \in L
  BY <1>0, <1>1, <1>2, NatInd
<1>4. n + 1 - (n + 1) = 0 /\ n + 1 <= n + 1 /\ n + 1 \in Nat
  BY <1>0
<1> QED  BY <1>3, <1>4 DEF L

\* ServerName is where the loop comes to from the first place.
LEMMA ServerNameIs ==
  ASSUME NEW s \in Seq(Byte)
  PROVE  \E f : ServerName(s) = f[0] /\ \A i \in 0..Len(s) : f[i] = NameStep(f, s, i)
<1> DEFINE f == CHOOSE f : Names(f, s, 0)
<1>1. Names(f, s, 0)
  BY NamesExists, Zenon
<1>2. ServerName(s) = f[0]
  BY Zenon DEF ServerName, Names, NameStep, SniOf
<1> HIDE DEF f
<1> QED  BY <1>1, <1>2, NamesAt, Zenon

-----------------------------------------------------------------------------
\* An extension that is not a server name is skipped.
LEMMA SkipOne ==
  ASSUME NEW s \in Seq(Byte), NEW i \in Nat, NEW f, f[i] = NameStep(f, s, i),
         NEW e \in ExtType, e.type # 0, HasAt(s, i, Extension(e))
  PROVE  f[i] = f[i + Len(Extension(e))]
<1> DEFINE b == e.body
           l == Len(e.body)
<1>1. /\ Uint16(s, i + 1) = e.type /\ Uint16(s, i + 3) = l
      /\ i + 4 + l <= Len(s)
  BY ExtensionAt
<1>2. l \in Nat /\ Len(s) \in Nat /\ Len(Extension(e)) = 4 + l
  <2>1. b \in Seq(Byte)
    BY DEF ExtType
  <2> QED  BY <2>1, ExtensionIs
<1> HIDE DEF l
<1>3. ~(Len(s) - i < 4 \/ Len(s) - i - 4 < l)
  BY <1>1, <1>2
<1>4. NameStep(f, s, i) = f[i + 4 + l]
  BY <1>1, <1>3, Zenon DEF NameStep
<1>5. i + 4 + l = i + Len(Extension(e))
  BY <1>2
<1> QED  BY <1>4, <1>5

NamedAt(s, i, f, tag, name) ==
    /\ s \in Seq(Byte) /\ i \in Nat /\ f[i] = NameStep(f, s, i)
    /\ tag \in Byte /\ name \in Seq(Byte) /\ HostName(tag, name) \in ExtType
    /\ HasAt(s, i, Extension(HostName(tag, name)))

\* A server name is found, if it is that of a host.
LEMMA NameFound ==
  ASSUME NEW s, NEW i, NEW f, NEW tag, NEW name, NamedAt(s, i, f, tag, name)
  PROVE  f[i] = IF tag = 0 THEN [ok |-> TRUE, name |-> name] ELSE Fail
<1>0. /\ s \in Seq(Byte) /\ i \in Nat /\ f[i] = NameStep(f, s, i)
      /\ tag \in Byte /\ name \in Seq(Byte) /\ HostName(tag, name) \in ExtType
      /\ HasAt(s, i, Extension(HostName(tag, name)))
  BY Zenon DEF NamedAt
<1> USE <1>0
<1> DEFINE e == HostName(tag, name)
           b == e.body
           l == Len(b)
           k == <<tag>>
           t == Field16(name)
           u == k \o t
           p == PutUint16(Len(u))
<1>1. b = Field16(u) /\ e.type = 0 /\ b \in Seq(Byte) /\ Len(b) <= MaxContent
  BY DEF HostName, ExtType
<1>2. Uint16(s, i + 1) = 0 /\ Uint16(s, i + 3) = l /\ i + 4 + l <= Len(s) /\ SubSeq(s, i + 5, i + 4 + l) = b
  <2>1. /\ Uint16(s, i + 1) = e.type /\ Uint16(s, i + 3) = l
        /\ i + 4 + l <= Len(s) /\ SubSeq(s, i + 5, i + 4 + l) = b
    <3> HIDE DEF e
    <3> QED  BY ExtensionAt DEF e
  <2> QED  BY <1>1, <2>1
<1>3. l \in Nat /\ Len(s) \in Nat
  BY <1>1
<1>4. f[i] = SniOf(b)
  <2> HIDE DEF l, b
  <2>1. ~(Len(s) - i < 4 \/ Len(s) - i - 4 < l)
    BY <1>2, <1>3
  <2>2. ~(Uint16(s, i + 1) # 0)
    BY <1>2
  <2>3. NameStep(f, s, i) = SniOf(SubSeq(s, i + 5, i + 4 + l))
    BY <1>2, <2>1, <2>2, Zenon DEF NameStep
  <2> QED  BY <1>2, <2>3, Zenon
<1>5. /\ Joined(Byte, p, u, b) /\ Len(p) = 2 /\ Joined(Byte, k, t, u) /\ Len(k) = 1 /\ k[1] = tag
      /\ Joined(Byte, PutUint16(Len(name)), name, t) /\ Len(PutUint16(Len(name))) = 2
      /\ Len(name) \in 0..(Base * Base - 1)
  <2>1. Len(PutUint16(Len(name))) = 2 /\ PutUint16(Len(name)) \in Seq(Byte) /\ Len(name) \in Nat
    BY PutUint16Type
  <2>2. Joined(Byte, PutUint16(Len(name)), name, t)
    BY <2>1, Join, Zenon DEF Field16
  <2>3. k \in Seq(Byte) /\ t \in Seq(Byte) /\ Len(k) = 1 /\ k[1] = tag
    BY <2>2 DEF Joined
  <2>4. Joined(Byte, k, t, u)
    <3> HIDE DEF k, t
    <3> QED  BY <2>3, Join, Zenon
  <2>5. u \in Seq(Byte) /\ Len(u) \in Nat
    <3> HIDE DEF u
    <3> QED  BY <2>4 DEF Joined
  <2>6. p \in Seq(Byte) /\ Len(p) = 2
    <3> HIDE DEF u
    <3> QED  BY <2>5, PutUint16Type
  <2>7. Joined(Byte, p, u, b)
    <3>1. b = p \o u
      BY <1>1, Zenon DEF Field16
    <3> HIDE DEF b, p, u
    <3> QED  BY <2>5, <2>6, <3>1, Join, Zenon
  <2>8. Len(name) <= MaxContent
    <3> HIDE DEF b, p, u, t, k
    <3> QED  BY <1>1, <2>1, <2>2, <2>3, <2>4, <2>6, <2>7, FormatsAssumption DEF Joined, MaxContent
  <2>9. Base * Base \in Nat
    BY FormatsAssumption
  <2> QED  BY <2>1, <2>2, <2>3, <2>4, <2>6, <2>7, <2>8, <2>9 DEF MaxContent
<1> HIDE DEF b, l, k, u, p, t
<1>6. HasAt(b, 2, u)
  BY <1>5 DEF Joined, HasAt
<1>7. k \in Seq(Byte) /\ t \in Seq(Byte) /\ u \in Seq(Byte) /\ PutUint16(Len(name)) \in Seq(Byte) /\ b \in Seq(Byte)
  <2>1. k \in Seq(Byte)
    BY DEF k
  <2>2. Len(name) \in Nat
    OBVIOUS
  <2> QED  BY <1>5, <2>1, <2>2, PutUint16Type DEF Joined
<1>8. HasAt(b, 2, k) /\ HasAt(b, 3, t)
  <2>1. HasAt(b, 2, k) /\ HasAt(b, 2 + Len(k), t)
    BY <1>5, <1>6, <1>7, HoldsParts
  <2>2. 2 + Len(k) = 3
    BY <1>5
  <2> QED  BY <2>1, <2>2
<1>9. HasAt(b, 3, PutUint16(Len(name))) /\ HasAt(b, 5, name)
  <2>1. HasAt(b, 3, PutUint16(Len(name))) /\ HasAt(b, 3 + Len(PutUint16(Len(name))), name)
    BY <1>5, <1>7, <1>8, HoldsParts
  <2>2. 3 + Len(PutUint16(Len(name))) = 5
    BY <1>5
  <2> QED  BY <2>1, <2>2
<1>10. b[3] = tag
  BY <1>5, <1>8 DEF HasAt
<1>11. Uint16(b, 4) = Len(name)
  <2>1. Uint16(b, 3 + 1) = Len(name)
    BY <1>5, <1>9, HoldsNumber
  <2> QED  BY <2>1
<1>12. SubSeq(b, 6, 5 + Len(name)) = name
  <2>1. SubSeq(b, 5 + 1, 5 + Len(name)) = name
    BY <1>7, <1>9, HoldsSlice
  <2> QED  BY <2>1
<1>13. ~(Len(b) < 5) /\ ~(Len(b) - 5 < Len(name))
  <2>1. 5 + Len(name) <= Len(b) /\ Len(b) \in Nat /\ Len(name) \in Nat
    BY <1>7, <1>9 DEF HasAt
  <2> QED  BY <2>1
<1> QED  BY <1>4, <1>10, <1>11, <1>12, <1>13 DEF SniOf

-----------------------------------------------------------------------------
\* Extensions of any length.
Wide == [type : Nat, body : Seq(Byte)]

\* The bytes of an extension.
LEMMA ExtensionBytes ==
  ASSUME NEW e \in Wide
  PROVE  Extension(e) \in Seq(Byte) /\ Len(Extension(e)) = 4 + Len(e.body)
<1> DEFINE b == e.body
           t == e.type
           p == PutUint16(Len(b))
           f == Field16(b)
<1>1. b \in Seq(Byte) /\ t \in Nat /\ Len(b) \in Nat
  BY DEF Wide
<1>2. p \in Seq(Byte) /\ Len(p) = 2 /\ PutUint16(t) \in Seq(Byte) /\ Len(PutUint16(t)) = 2
  BY <1>1, PutUint16Type
<1>3. Joined(Byte, p, b, f)
  BY <1>1, <1>2, Join, Zenon DEF Field16
<1>4. f \in Seq(Byte) /\ Len(f) = 2 + Len(b)
  BY <1>2, <1>3 DEF Joined
<1>5. Joined(Byte, PutUint16(t), f, Extension(e))
  BY <1>2, <1>4, Join, Zenon DEF Extension
<1> QED  BY <1>1, <1>2, <1>4, <1>5 DEF Joined

\* The bytes of extensions, of some and one, of some and others.
LEMMA EncodedType ==
  ASSUME NEW es \in Seq(Wide)
  PROVE  [i \in DOMAIN es |-> Extension(es[i])] \in Seq(Seq(Byte)) /\ Encoded(es) \in Seq(Byte)
<1> DEFINE g == [i \in DOMAIN es |-> Extension(es[i])]
<1>1. \A e \in Wide : Extension(e) \in Seq(Byte)
  BY ExtensionBytes, Zenon
<1>2. DOMAIN es = 1..Len(es) /\ \A i \in 1..Len(es) : es[i] \in Wide
  OBVIOUS
<1>3. g \in Seq(Seq(Byte))
  BY <1>1, <1>2
<1>4. Encoded(es) = FlattenSeq(g)
  BY Zenon DEF Encoded
<1> HIDE DEF g
<1>5. FlattenSeq(g) \in Seq(Byte)
  BY <1>3, FlattenType, Zenon
<1> QED  BY <1>3, <1>4, <1>5 DEF g

\* The bytes of extensions, some behind others.
LEMMA EncodedConcat ==
  ASSUME NEW a \in Seq(Wide), NEW b \in Seq(Wide)
  PROVE  Joined(Byte, Encoded(a), Encoded(b), Encoded(a \o b))
<1> DEFINE c == a \o b
           f == [i \in DOMAIN a |-> Extension(a[i])]
           g == [i \in DOMAIN b |-> Extension(b[i])]
           h == [i \in DOMAIN c |-> Extension(c[i])]
<1>1. c \in Seq(Wide)
  OBVIOUS
<1>2. Joined(Wide, a, b, c)
  BY Join, Zenon
<1>3. f \in Seq(Seq(Byte)) /\ g \in Seq(Seq(Byte)) /\ h \in Seq(Seq(Byte))
      /\ Encoded(a) \in Seq(Byte) /\ Encoded(b) \in Seq(Byte)
  <2> HIDE DEF c
  <2> QED  BY <1>1, EncodedType
<1>4. Len(f) = Len(a) /\ Len(g) = Len(b) /\ Len(h) = Len(c)
      /\ (\A i \in 1..Len(a) : f[i] = Extension(a[i]))
      /\ (\A i \in 1..Len(b) : g[i] = Extension(b[i]))
      /\ (\A i \in 1..Len(c) : h[i] = Extension(c[i]))
  <2> HIDE DEF c
  <2> QED  BY <1>1, <1>3
<1>5. Encoded(a) = FlattenSeq(f) /\ Encoded(b) = FlattenSeq(g) /\ Encoded(c) = FlattenSeq(h)
  BY Zenon DEF Encoded
<1> HIDE DEF c, f, g, h
<1> DEFINE x == f \o g
<1>6. Joined(Seq(Byte), f, g, x)
  BY <1>3, Join, Zenon
<1>7. h = x
  <2> HIDE DEF x
  <2>1. Len(a) \in Nat /\ Len(b) \in Nat /\ Len(h) = Len(a) + Len(b) /\ Len(x) = Len(a) + Len(b)
        /\ x \in Seq(Seq(Byte))
    BY <1>2, <1>4, <1>6 DEF Joined
  <2>2. ASSUME NEW i \in 1..Len(h) PROVE h[i] = x[i]
    <3>1. CASE i <= Len(a)
      <4>1. c[i] = a[i] /\ x[i] = f[i]
        BY <1>2, <1>4, <1>6, <2>1, <3>1 DEF Joined
      <4> QED  BY <1>2, <1>4, <2>1, <3>1, <4>1
    <3>2. CASE ~(i <= Len(a))
      <4> DEFINE j == i - Len(a)
      <4>1. j \in 1..Len(b) /\ i = Len(a) + j
        BY <2>1, <3>2
      <4> HIDE DEF j
      <4>2. c[i] = b[j] /\ x[i] = g[j]
        BY <1>2, <1>4, <1>6, <4>1 DEF Joined
      <4>3. i \in 1..Len(c)
        BY <1>4
      <4> QED  BY <1>4, <4>1, <4>2, <4>3
    <3> QED  BY <3>1, <3>2
  <2> QED  BY <1>3, <2>1, <2>2, SameSeq
<1>8. FlattenSeq(x) = FlattenSeq(f) \o FlattenSeq(g)
  BY <1>3, FlattenConcat, Zenon
<1>9. Encoded(c) = Encoded(a) \o Encoded(b)
  BY <1>5, <1>7, <1>8, Zenon
<1>10. Joined(Byte, Encoded(a), Encoded(b), Encoded(c))
  BY <1>3, <1>9, Join, Zenon
<1> QED  BY <1>10 DEF c

\* The bytes of one extension.
LEMMA EncodedOne ==
  ASSUME NEW e \in Wide
  PROVE  <<e>> \in Seq(Wide) /\ Encoded(<<e>>) = Extension(e) /\ Extension(e) \in Seq(Byte)
<1> DEFINE s == <<e>>
           g == [i \in DOMAIN s |-> Extension(s[i])]
<1>1. Extension(e) \in Seq(Byte)
  BY ExtensionBytes, Zenon
<1>2. g = <<Extension(e)>>
  OBVIOUS
<1>3. Encoded(s) = FlattenSeq(g)
  BY Zenon DEF Encoded
<1> HIDE DEF g
<1>4. FlattenSeq(<<Extension(e)>>) = Extension(e)
  BY <1>1, FlattenOne, Zenon
<1> QED  BY <1>1, <1>2, <1>3, <1>4

\* No extensions have no bytes.
LEMMA EncodedNone == Encoded(<<>>) = <<>>
<1> DEFINE s == <<>>
           g == [i \in DOMAIN s |-> Extension(s[i])]
<1>1. Encoded(s) = FlattenSeq(g)
  BY Zenon DEF Encoded
<1>2. g = <<>>
  OBVIOUS
<1> HIDE DEF g
<1> QED  BY <1>1, <1>2, FlattenEmpty, Zenon

-----------------------------------------------------------------------------
Others == {e \in ExtType : e.type # 0}

\* An extension whose length fits is one.
LEMMA Widen == Others \subseteq ExtType /\ ExtType \subseteq Wide
<1>1. MaxContent \in Int
  BY FormatsAssumption DEF MaxContent
<1> QED  BY <1>1 DEF Others, ExtType, Wide

Loop(f, s) == \A j \in 0..Len(s) : f[j] = NameStep(f, s, j)

\* Of a string s with extensions es at place i, which end at place k; none is a server name.
SkipsAt(s, i, k, f, es, b) ==
    /\ s \in Seq(Byte) /\ i \in Nat /\ Loop(f, s) /\ es \in Seq(Others)
    /\ b = Encoded(es) /\ HasAt(s, i, b) /\ k = i + Len(b)

SameAt(f, i, k) == f[i] = f[k]

\* All of them are skipped.
LEMMA SkipAll ==
  ASSUME NEW s, NEW i, NEW k, NEW f, NEW es, NEW b, SkipsAt(s, i, k, f, es, b)
  PROVE  SameAt(f, i, k)
<1> USE DEF Loop
<1>0. /\ s \in Seq(Byte) /\ i \in Nat /\ Loop(f, s) /\ es \in Seq(Others)
      /\ b = Encoded(es) /\ HasAt(s, i, b) /\ k = i + Len(b)
  BY Zenon DEF SkipsAt
<1> DEFINE L == {t \in Seq(Others) : HasAt(s, i, Encoded(t)) => f[i] = f[i + Len(Encoded(t))]}
<1>1. <<>> \in L
  <2>1. Len(Encoded(<<>>)) = 0 /\ i + 0 = i
    BY <1>0, EncodedNone
  <2>2. <<>> \in Seq(Others)
    OBVIOUS
  <2> QED  BY <2>1, <2>2
<1>2. ASSUME NEW t \in Seq(Others), NEW e \in Others, t \in L PROVE Append(t, e) \in L
  <2> DEFINE a == Append(t, e)
             x == Encoded(t)
             y == Extension(e)
             z == Encoded(a)
  <2>1. /\ a \in Seq(Others) /\ a = t \o <<e>> /\ t \in Seq(Wide)
        /\ e \in Wide /\ e \in ExtType /\ e.type # 0
    <3>1. Others \subseteq Wide /\ Others \subseteq ExtType /\ e \in Others
      BY Widen
    <3>2. t \in Seq(Wide) /\ a \in Seq(Others) /\ a = t \o <<e>>
      BY <3>1
    <3> QED  BY <3>1, <3>2 DEF Others
  <2>2. <<e>> \in Seq(Wide) /\ Encoded(<<e>>) = y /\ y \in Seq(Byte) /\ x \in Seq(Byte)
    BY <2>1, EncodedOne, EncodedType
  <2>3. Joined(Byte, x, y, z)
    <3>1. Joined(Byte, Encoded(t), Encoded(<<e>>), Encoded(t \o <<e>>))
      BY <2>1, <2>2, EncodedConcat, Zenon
    <3> QED  BY <2>1, <2>2, <3>1, Zenon
  <2> SUFFICES ASSUME HasAt(s, i, z) PROVE f[i] = f[i + Len(z)]
    BY <2>1
  <2> HIDE DEF a, x, y, z
  <2>4. HasAt(s, i, x) /\ HasAt(s, i + Len(x), y)
    BY <1>0, <2>2, <2>3, HoldsParts
  <2>5. f[i] = f[i + Len(x)]
    BY <1>2, <2>4 DEF x
  <2>6. Len(x) \in Nat /\ Len(y) \in Nat /\ Len(z) = Len(x) + Len(y) /\ Len(s) \in Nat
    BY <1>0, <2>3 DEF Joined
  <2> DEFINE o == i + Len(x)
  <2>7. o \in Nat /\ o \in 0..Len(s) /\ o + Len(y) = i + Len(z)
    BY <1>0, <2>4, <2>6 DEF HasAt
  <2>8. HasAt(s, o, y)
    BY <2>4
  <2> HIDE DEF o
  <2>9. f[o] = f[o + Len(y)]
    <3>1. f[o] = NameStep(f, s, o)
      BY <1>0, <2>7
    <3> QED  BY <1>0, <2>1, <2>7, <2>8, <3>1, SkipOne, Zenon DEF y
  <2> QED  BY <2>5, <2>7, <2>9, Zenon DEF o
<1> HIDE DEF L
<1>3. es \in L
  BY <1>0, <1>1, <1>2, SeqInd, Zenon
<1> QED  BY <1>0, <1>3, Zenon DEF L, SameAt

\* The extensions before a server name, it or none, and those behind it.
AmongAt(a, m, z, tag, name, named, ext) ==
    /\ a \in Seq(Others) /\ m \in Seq(ExtType) /\ z \in Seq(Others)
    /\ tag \in Byte /\ name \in Seq(Byte) /\ named \in BOOLEAN
    /\ IF named THEN HostName(tag, name) \in ExtType /\ m = <<HostName(tag, name)>> ELSE m = <<>>
    /\ ext = Encoded((a \o m) \o z)

NameIs(ext, named, tag, name) ==
    ServerName(ext) = IF named /\ tag = 0 THEN [ok |-> TRUE, name |-> name] ELSE Fail

\* The loop finds the server name among the extensions.
LEMMA NameAmong ==
  ASSUME NEW a, NEW m, NEW z, NEW tag, NEW name, NEW named, NEW ext,
         AmongAt(a, m, z, tag, name, named, ext)
  PROVE  NameIs(ext, named, tag, name)
<1> DEFINE am == a \o m
           amz == am \o z
           x == Encoded(a)
           y == Encoded(m)
           xy == Encoded(am)
           w == Encoded(z)
           s == Encoded(amz)
<1>0. /\ a \in Seq(Others) /\ m \in Seq(ExtType) /\ z \in Seq(Others)
      /\ tag \in Byte /\ name \in Seq(Byte) /\ named \in BOOLEAN
      /\ IF named THEN HostName(tag, name) \in ExtType /\ m = <<HostName(tag, name)>> ELSE m = <<>>
      /\ ext = s
  BY Zenon DEF AmongAt
<1> USE <1>0
<1>1. a \in Seq(Wide) /\ m \in Seq(Wide) /\ z \in Seq(Wide) /\ am \in Seq(Wide)
  BY Widen
<1>2. Joined(Byte, x, y, xy) /\ Joined(Byte, xy, w, s)
  <2>1. Joined(Byte, x, y, xy)
    BY <1>1, EncodedConcat, Zenon
  <2> HIDE DEF am
  <2>2. Joined(Byte, xy, w, s)
    BY <1>1, EncodedConcat, Zenon
  <2> QED  BY <2>1, <2>2
<1>3. x \in Seq(Byte) /\ y \in Seq(Byte) /\ w \in Seq(Byte)
  BY <1>1, EncodedType
<1> HIDE DEF am, amz, xy, s
<1>4. xy \in Seq(Byte) /\ s \in Seq(Byte) /\ Len(x) \in Nat /\ Len(y) \in Nat /\ Len(w) \in Nat
      /\ Len(xy) = Len(x) + Len(y) /\ Len(s) = Len(xy) + Len(w)
  BY <1>2 DEF Joined
<1>5. PICK f : ServerName(s) = f[0] /\ Loop(f, s)
  BY <1>4, ServerNameIs, Zenon DEF Loop
<1>6. HasAt(s, 0, s)
  BY <1>4 DEF HasAt
<1>7. HasAt(s, 0, xy) /\ HasAt(s, Len(xy), w)
  <2>1. HasAt(s, 0, xy) /\ HasAt(s, 0 + Len(xy), w)
    BY <1>2, <1>3, <1>4, <1>6, HoldsParts
  <2>2. 0 + Len(xy) = Len(xy)
    BY <1>4
  <2> QED  BY <2>1, <2>2
<1>8. HasAt(s, 0, x) /\ HasAt(s, Len(x), y)
  <2>1. HasAt(s, 0, x) /\ HasAt(s, 0 + Len(x), y)
    BY <1>2, <1>3, <1>4, <1>7, HoldsParts
  <2>2. 0 + Len(x) = Len(x)
    BY <1>4
  <2> QED  BY <2>1, <2>2
<1>9. f[0] = f[Len(x)]
  <2>1. 0 \in Nat /\ 0 + Len(x) = Len(x)
    BY <1>4
  <2> DEFINE o == 0
             k == Len(x)
  <2>2. o \in Nat /\ k = o + Len(x) /\ HasAt(s, o, x) /\ x = Encoded(a)
    BY <1>8, <2>1
  <2> HIDE DEF x, o, k
  <2>3. SkipsAt(s, o, k, f, a, x)
    BY <1>4, <1>5, <2>2, Zenon DEF SkipsAt
  <2>4. SameAt(f, o, k)
    BY <2>3, SkipAll, Zenon
  <2> QED  BY <2>4 DEF o, k, SameAt
<1>10. Len(x) \in 0..Len(s) /\ Len(xy) \in 0..Len(s)
  BY <1>4
<1>11. CASE named
  <2> DEFINE e == HostName(tag, name)
  <2>1. e \in ExtType /\ y = Extension(e)
    <3>1. e \in ExtType /\ m = <<e>>
      BY <1>11
    <3> HIDE DEF e
    <3> QED  BY <3>1, EncodedOne, Widen
  <2>2. f[Len(x)] = NameStep(f, s, Len(x))
    BY <1>5, <1>10 DEF Loop
  <2>3. f[Len(x)] = IF tag = 0 THEN [ok |-> TRUE, name |-> name] ELSE Fail
    <3> DEFINE k == Len(x)
    <3>1. k \in Nat /\ f[k] = NameStep(f, s, k) /\ HasAt(s, k, Extension(HostName(tag, name)))
      BY <1>4, <1>8, <2>1, <2>2, Zenon
    <3> HIDE DEF k
    <3>2. NamedAt(s, k, f, tag, name)
      BY <1>4, <2>1, <3>1, Zenon DEF NamedAt
    <3>3. f[k] = IF tag = 0 THEN [ok |-> TRUE, name |-> name] ELSE Fail
      BY <3>2, NameFound, Zenon
    <3> QED  BY <3>3 DEF k
  <2> QED  BY <1>5, <1>9, <1>11, <2>3 DEF NameIs
<1>12. CASE ~named
  <2>1. y = <<>>
    BY <1>12, EncodedNone
  <2>2. Len(xy) = Len(x)
    BY <1>4, <2>1
  <2>3. f[Len(xy)] = f[Len(s)]
    <3> DEFINE o == Len(xy)
               k == Len(s)
    <3>1. o \in Nat /\ k = o + Len(w) /\ HasAt(s, o, w) /\ w = Encoded(z)
      BY <1>4, <1>7, <1>10
    <3> HIDE DEF w, o, k
    <3>2. SkipsAt(s, o, k, f, z, w)
      BY <1>4, <1>5, <3>1, Zenon DEF SkipsAt
    <3>3. SameAt(f, o, k)
      BY <3>2, SkipAll, Zenon
    <3> QED  BY <3>3 DEF o, k, SameAt
  <2>4. f[Len(s)] = Fail
    <3>1. f[Len(s)] = NameStep(f, s, Len(s))
      BY <1>4, <1>5 DEF Loop
    <3>2. Len(s) - Len(s) < 4
      BY <1>4
    <3>3. NameStep(f, s, Len(s)) = Fail
      BY <3>2, Zenon DEF NameStep
    <3> QED  BY <3>1, <3>3
  <2>5. f[0] = Fail
    BY <1>4, <1>9, <2>2, <2>3, <2>4
  <2> QED  BY <1>5, <1>12, <2>5 DEF NameIs
<1> QED  BY <1>11, <1>12

-----------------------------------------------------------------------------
\* Five strings, one behind the other.
Parts5(a, b, c, d, e, s) ==
    /\ a \in Seq(Byte) /\ b \in Seq(Byte) /\ c \in Seq(Byte) /\ d \in Seq(Byte) /\ e \in Seq(Byte)
    /\ s = a \o b \o c \o d \o e

Places5(a, b, c, d, e, s) ==
    /\ s \in Seq(Byte) /\ HasAt(s, 0, a) /\ HasAt(s, Len(a), b) /\ HasAt(s, Len(a) + Len(b), c)
    /\ HasAt(s, Len(a) + Len(b) + Len(c), d) /\ HasAt(s, Len(a) + Len(b) + Len(c) + Len(d), e)
    /\ Len(s) = Len(a) + Len(b) + Len(c) + Len(d) + Len(e)

\* They are at these places.
LEMMA FiveParts ==
  ASSUME NEW a, NEW b, NEW c, NEW d, NEW e, NEW s, Parts5(a, b, c, d, e, s)
  PROVE  Places5(a, b, c, d, e, s)
<1> DEFINE ab == a \o b
           abc == ab \o c
           abcd == abc \o d
<1>1. /\ a \in Seq(Byte) /\ b \in Seq(Byte) /\ c \in Seq(Byte) /\ d \in Seq(Byte) /\ e \in Seq(Byte)
      /\ s = abcd \o e
  BY Zenon DEF Parts5
<1>2. Joined(Byte, a, b, ab)
  BY <1>1, Join, Zenon
<1>3. Joined(Byte, ab, c, abc)
  <2>1. ab \in Seq(Byte)
    BY <1>2 DEF Joined
  <2> HIDE DEF ab
  <2> QED  BY <1>1, <2>1, Join, Zenon
<1>4. Joined(Byte, abc, d, abcd)
  <2>1. abc \in Seq(Byte)
    <3> HIDE DEF abc
    <3> QED  BY <1>3 DEF Joined
  <2> HIDE DEF abc
  <2> QED  BY <1>1, <2>1, Join, Zenon
<1>5. Joined(Byte, abcd, e, s)
  <2>1. abcd \in Seq(Byte)
    <3> HIDE DEF abcd
    <3> QED  BY <1>4 DEF Joined
  <2> HIDE DEF abcd
  <2> QED  BY <1>1, <2>1, Join, Zenon
<1> HIDE DEF ab, abc, abcd
<1>6. /\ ab \in Seq(Byte) /\ abc \in Seq(Byte) /\ abcd \in Seq(Byte) /\ s \in Seq(Byte)
      /\ Len(a) \in Nat /\ Len(b) \in Nat /\ Len(c) \in Nat /\ Len(d) \in Nat /\ Len(e) \in Nat
      /\ Len(ab) = Len(a) + Len(b) /\ Len(abc) = Len(a) + Len(b) + Len(c)
      /\ Len(abcd) = Len(a) + Len(b) + Len(c) + Len(d)
      /\ Len(s) = Len(a) + Len(b) + Len(c) + Len(d) + Len(e)
  BY <1>2, <1>3, <1>4, <1>5 DEF Joined
<1> DEFINE o == 0
<1>7. o \in Nat /\ HasAt(s, o, s) /\ o + Len(a) = Len(a) /\ o + Len(ab) = Len(ab)
      /\ o + Len(abc) = Len(abc) /\ o + Len(abcd) = Len(abcd)
  BY <1>6 DEF HasAt
<1> HIDE DEF o
<1>8. HasAt(s, o, abcd) /\ HasAt(s, o + Len(abcd), e)
  BY <1>1, <1>5, <1>6, <1>7, HoldsParts
<1>9. HasAt(s, o, abc) /\ HasAt(s, o + Len(abc), d)
  BY <1>1, <1>4, <1>6, <1>7, <1>8, HoldsParts
<1>10. HasAt(s, o, ab) /\ HasAt(s, o + Len(ab), c)
  BY <1>1, <1>3, <1>6, <1>7, <1>9, HoldsParts
<1>11. HasAt(s, o, a) /\ HasAt(s, o + Len(a), b)
  BY <1>1, <1>2, <1>6, <1>7, <1>10, HoldsParts
<1> QED  BY <1>6, <1>7, <1>8, <1>9, <1>10, <1>11 DEF Places5, o

-----------------------------------------------------------------------------
\* Where the parts of a ClientHello s are: session id, cipher suites, compression methods,
\* with their lengths l, m and n, and unless it is bare the extensions x, behind e.
Shape(s, l, m, n, e, bare, x) ==
    /\ s \in Seq(Byte) /\ l \in Nat /\ m \in Nat /\ n \in Nat /\ e = HelloFixed + 4 + l + m + n
    /\ s[HelloFixed + 1] = l /\ Uint16(s, HelloFixed + 2 + l) = m /\ s[HelloFixed + 4 + l + m] = n
    /\ bare => Len(s) = e
    /\ ~bare => /\ Len(s) = e + 2 + Len(x) /\ x \in Seq(Byte)
                /\ Uint16(s, e + 1) = Len(x) /\ SubSeq(s, e + 3, e + 2 + Len(x)) = x

\* The first bytes of it.
IsStart(d, s) == d \in Seq(Byte) /\ Len(d) <= Len(s) /\ \A j \in 1..Len(d) : d[j] = s[j]

\* Its extensions are found when all of it is there.
LEMMA ExtensionsOK ==
  ASSUME NEW d, NEW s, NEW l, NEW m, NEW n, NEW e, NEW bare \in BOOLEAN, NEW x,
         Shape(s, l, m, n, e, bare, x), IsStart(d, s), Len(d) >= HelloFixed + 4
  PROVE  Extensions(d) = IF ~bare /\ Len(d) = Len(s) THEN [ok |-> TRUE, bytes |-> x] ELSE Fail
<1> DEFINE suites == HelloFixed + 1 + d[HelloFixed + 1]
           methods == suites + 2 + Uint16(d, suites + 1)
           exts == methods + 1 + d[methods + 1]
           u == Uint16(d, exts + 1)
           short == suites + 2 > Len(d) \/ methods + 1 > Len(d) \/ exts + 2 > Len(d)
           bytes == SubSeq(d, exts + 3, exts + 2 + u)
<1>1. Extensions(d) = IF short \/ exts + 2 + u > Len(d) THEN Fail ELSE [ok |-> TRUE, bytes |-> bytes]
  BY Zenon DEF Extensions
<1>2. /\ HelloFixed \in Nat /\ l \in Nat /\ m \in Nat /\ n \in Nat /\ e = HelloFixed + 4 + l + m + n
      /\ Len(d) \in Nat /\ Len(s) \in Nat /\ Len(d) <= Len(s)
      /\ s[HelloFixed + 1] = l /\ Uint16(s, HelloFixed + 2 + l) = m /\ s[HelloFixed + 4 + l + m] = n
  BY FormatsAssumption DEF Shape, IsStart
<1>3. \A j \in 1..Len(d) : d[j] = s[j]
  BY DEF IsStart
<1>4. ASSUME NEW j \in 1..Len(d), j + 1 \in 1..Len(d) PROVE Uint16(d, j) = Uint16(s, j)
  BY <1>3, <1>4 DEF Uint16
<1>5. suites = HelloFixed + 1 + l
  <2>1. HelloFixed + 1 \in 1..Len(d)
    BY <1>2
  <2> QED  BY <1>2, <1>3, <2>1
<1> HIDE DEF suites
<1>6. CASE suites + 2 > Len(d)
  <2>1. short /\ (bare \/ Len(d) # Len(s))
    BY <1>2, <1>5, <1>6 DEF Shape
  <2> HIDE DEF short
  <2> QED  BY <1>1, <2>1
<1>7. CASE ~(suites + 2 > Len(d))
  <2>1. methods = HelloFixed + 3 + l + m
    <3> DEFINE j == suites + 1
    <3>1. j \in 1..Len(d) /\ j + 1 \in 1..Len(d) /\ j = HelloFixed + 2 + l
      BY <1>2, <1>5, <1>7
    <3> HIDE DEF j
    <3>2. Uint16(d, j) = m
      BY <1>2, <1>4, <3>1
    <3> QED  BY <1>2, <1>5, <3>2 DEF j
  <2> HIDE DEF methods
  <2>2. CASE methods + 1 > Len(d)
    <3>1. short /\ (bare \/ Len(d) # Len(s))
      BY <1>2, <2>1, <2>2 DEF Shape
    <3> HIDE DEF short
    <3> QED  BY <1>1, <3>1
  <2>3. CASE ~(methods + 1 > Len(d))
    <3>1. exts = e
      <4>1. methods + 1 \in 1..Len(d) /\ methods + 1 = HelloFixed + 4 + l + m
        BY <1>2, <2>1, <2>3
      <4>2. d[methods + 1] = n
        BY <1>2, <1>3, <4>1
      <4> QED  BY <1>2, <2>1, <4>2
    <3> HIDE DEF exts
    <3>2. CASE exts + 2 > Len(d)
      <4>1. short /\ (bare \/ Len(d) # Len(s))
        BY <1>2, <3>1, <3>2 DEF Shape
      <4> HIDE DEF short
      <4> QED  BY <1>1, <4>1
    <3>3. CASE ~(exts + 2 > Len(d))
      <4>1. ~short
        BY <1>7, <2>3, <3>3
      <4>2. ~bare
        BY <1>2, <3>1, <3>3 DEF Shape
      <4>3. /\ Len(s) = e + 2 + Len(x) /\ x \in Seq(Byte)
            /\ Uint16(s, e + 1) = Len(x) /\ SubSeq(s, e + 3, e + 2 + Len(x)) = x
        BY <4>2 DEF Shape
      <4>4. u = Len(x)
        <5>1. e + 1 \in 1..Len(d) /\ (e + 1) + 1 \in 1..Len(d)
          BY <1>2, <3>1, <3>3
        <5> QED  BY <1>4, <3>1, <4>3, <5>1
      <4> HIDE DEF short, u
      <4>5. CASE Len(d) = Len(s)
        <5>1. d = s
          BY <1>3, <4>5, SameSeq DEF Shape, IsStart
        <5>2. bytes = x
          BY <3>1, <4>3, <4>4, <5>1
        <5>3. ~(exts + 2 + u > Len(d))
          BY <1>2, <3>1, <4>3, <4>4, <4>5
        <5> HIDE DEF bytes
        <5> QED  BY <1>1, <4>1, <4>2, <4>5, <5>2, <5>3
      <4>6. CASE Len(d) # Len(s)
        <5>1. exts + 2 + u > Len(d)
          BY <1>2, <3>1, <4>3, <4>4, <4>6
        <5> HIDE DEF bytes
        <5> QED  BY <1>1, <4>6, <5>1
      <4> QED  BY <4>5, <4>6
    <3> QED  BY <3>2, <3>3
  <2> QED  BY <2>2, <2>3
<1> QED  BY <1>6, <1>7

-----------------------------------------------------------------------------
\* What a ClientHello is made of.
Sized(h) ==
    /\ h.first \in Seq(Byte) /\ h.session \in Seq(Byte) /\ h.suites \in Seq(Byte)
    /\ h.methods \in Seq(Byte) /\ h.name \in Seq(Byte) /\ h.kind \in Byte
    /\ h.bare \in BOOLEAN /\ h.named \in BOOLEAN /\ h.covers \in 0..MaxContent /\ h.come \in Nat
    /\ h.before \in Seq(Others) /\ h.after \in Seq(Others)
    /\ Len(h.first) = HelloFixed /\ Len(h.session) < Base /\ Len(h.methods) < Base
    /\ Len(Hello(h)) <= MaxContent

\* The ClientHellos of WireAssumption are made of such parts.
LEMMA HelloSized == ASSUME NEW h \in Hellos PROVE Sized(h)
<1>1. Extra = Others
  BY DEF Extra, Others, ExtType, ByteStrings, Byte
<1>2. h \in [first : ByteStrings, session : ByteStrings, suites : ByteStrings,
             methods : ByteStrings, bare : BOOLEAN, before : Seq(Extra),
             named : BOOLEAN, kind : 0..(Base - 1), name : ByteStrings,
             after : Seq(Extra), covers : 0..MaxContent, come : Nat]
  BY WireAssumption, Zenon
<1>3. /\ Len(h.first) = HelloFixed /\ Len(h.session) < Base /\ Len(h.methods) < Base
      /\ Len(Hello(h)) <= MaxContent
  BY WireAssumption, Zenon
<1>4. ByteStrings = Seq(Byte) /\ 0..(Base - 1) = Byte
  BY DEF ByteStrings, Byte
<1>5. h \in [first : Seq(Byte), session : Seq(Byte), suites : Seq(Byte),
             methods : Seq(Byte), bare : BOOLEAN, before : Seq(Others),
             named : BOOLEAN, kind : Byte, name : Seq(Byte),
             after : Seq(Others), covers : 0..MaxContent, come : Nat]
  BY <1>1, <1>2, <1>4, Zenon
<1>6. /\ h.first \in Seq(Byte) /\ h.session \in Seq(Byte) /\ h.suites \in Seq(Byte)
      /\ h.methods \in Seq(Byte) /\ h.name \in Seq(Byte) /\ h.kind \in Byte
      /\ h.bare \in BOOLEAN /\ h.named \in BOOLEAN /\ h.covers \in 0..MaxContent /\ h.come \in Nat
      /\ h.before \in Seq(Others) /\ h.after \in Seq(Others)
  BY <1>5
<1> QED  BY <1>3, <1>6, Zenon DEF Sized

\* A field with a length of one byte, and one of two.
LEMMA Field8Is ==
  ASSUME NEW b \in Seq(Byte), Len(b) < Base
  PROVE  Field8(b) \in Seq(Byte) /\ Len(Field8(b)) = 1 + Len(b) /\ Field8(b)[1] = Len(b)
<1> DEFINE k == <<Len(b)>>
<1>1. Len(b) \in Byte /\ Len(b) \in Nat
  BY FormatsAssumption DEF Byte
<1>2. k \in Seq(Byte) /\ Len(k) = 1 /\ k[1] = Len(b)
  BY <1>1
<1>3. Joined(Byte, k, b, Field8(b))
  BY <1>2, Join, Zenon DEF Field8
<1> HIDE DEF k
<1> QED  BY <1>1, <1>2, <1>3 DEF Joined

\* A field with a length of two bytes.
LEMMA Field16Is ==
  ASSUME NEW b \in Seq(Byte)
  PROVE  /\ Field16(b) \in Seq(Byte) /\ Len(Field16(b)) = 2 + Len(b)
         /\ PutUint16(Len(b)) \in Seq(Byte) /\ Len(PutUint16(Len(b))) = 2
         /\ Joined(Byte, PutUint16(Len(b)), b, Field16(b))
<1>1. Len(b) \in Nat
  OBVIOUS
<1>2. PutUint16(Len(b)) \in Seq(Byte) /\ Len(PutUint16(Len(b))) = 2
  BY <1>1, PutUint16Type
<1>3. Joined(Byte, PutUint16(Len(b)), b, Field16(b))
  BY <1>2, Join, Zenon DEF Field16
<1> QED  BY <1>1, <1>2, <1>3 DEF Joined

\* Such a field in a string.
LEMMA Field16At ==
  ASSUME NEW s \in Seq(Byte), NEW i \in Nat, NEW b \in Seq(Byte), Len(b) <= MaxContent, HasAt(s, i, Field16(b))
  PROVE  Uint16(s, i + 1) = Len(b) /\ SubSeq(s, i + 3, i + 2 + Len(b)) = b
<1> DEFINE p == PutUint16(Len(b))
           f == Field16(b)
           k == i + 2
<1>1. p \in Seq(Byte) /\ Len(p) = 2 /\ Joined(Byte, p, b, f) /\ Len(b) \in 0..(Base * Base - 1)
  BY Field16Is, Fields
<1> HIDE DEF p
<1>2. HasAt(s, i, p) /\ HasAt(s, i + 2, b)
  <2>1. HasAt(s, i, p) /\ HasAt(s, i + Len(p), b)
    BY <1>1, HoldsParts
  <2> QED  BY <1>1, <2>1
<1>3. Uint16(s, i + 1) = Len(b)
  BY <1>1, <1>2, HoldsNumber DEF p
<1>4. k \in Nat /\ HasAt(s, k, b) /\ k + 1 = i + 3 /\ k + Len(b) = i + 2 + Len(b)
  BY <1>2
<1> HIDE DEF k
<1>5. SubSeq(s, k + 1, k + Len(b)) = b
  BY <1>4, HoldsSlice
<1> QED  BY <1>3, <1>4, <1>5

-----------------------------------------------------------------------------
\* The bytes of the extensions of a ClientHello.
Inner(h) == IF h.named THEN <<HostName(h.kind, h.name)>> ELSE <<>>

\* A server name is an extension.
LEMMA NameBytes ==
  ASSUME NEW tag \in Byte, NEW name \in Seq(Byte)
  PROVE  HostName(tag, name) \in Wide /\ HostName(tag, name).type = 0
<1> DEFINE t == Field16(name)
           u == <<tag>> \o t
<1>1. t \in Seq(Byte)
  BY Field16Is
<1>2. u \in Seq(Byte)
  BY <1>1
<1> HIDE DEF u
<1>3. Field16(u) \in Seq(Byte)
  BY <1>2, Field16Is
<1> QED  BY <1>3 DEF HostName, Wide, u

\* The extensions before the server name, it, and those behind it.
LEMMA ExtensionsWide ==
  ASSUME NEW h, Sized(h)
  PROVE  /\ h.before \in Seq(Wide) /\ Inner(h) \in Seq(Wide) /\ h.after \in Seq(Wide)
         /\ ExtensionsOf(h) = (h.before \o Inner(h)) \o h.after
         /\ Encoded(ExtensionsOf(h)) \in Seq(Byte)
         /\ Len(Encoded(Inner(h))) <= Len(Encoded(ExtensionsOf(h)))
<1> DEFINE a == h.before
           m == Inner(h)
           z == h.after
           am == a \o m
           amz == am \o z
<1>1. a \in Seq(Others) /\ z \in Seq(Others) /\ h.kind \in Byte /\ h.name \in Seq(Byte)
  BY Zenon DEF Sized
<1>2. a \in Seq(Wide) /\ z \in Seq(Wide)
  BY <1>1, Widen
<1>3. m \in Seq(Wide)
  <2>1. HostName(h.kind, h.name) \in Wide
    BY <1>1, NameBytes
  <2> QED  BY <2>1 DEF Inner
<1>4. ExtensionsOf(h) = amz
  BY Zenon DEF ExtensionsOf, Inner
<1> HIDE DEF a, m, z
<1>5. am \in Seq(Wide)
  BY <1>2, <1>3
<1>6. Joined(Byte, Encoded(a), Encoded(m), Encoded(am))
  BY <1>2, <1>3, EncodedConcat, Zenon
<1> HIDE DEF am
<1>7. Joined(Byte, Encoded(am), Encoded(z), Encoded(amz))
  BY <1>2, <1>5, EncodedConcat, Zenon
<1>8. amz \in Seq(Wide)
  BY <1>2, <1>5
<1> HIDE DEF amz
<1>9. Encoded(a) \in Seq(Byte) /\ Encoded(m) \in Seq(Byte) /\ Encoded(z) \in Seq(Byte) /\ Encoded(amz) \in Seq(Byte)
  BY <1>2, <1>3, <1>8, EncodedType
<1>10. Len(Encoded(m)) <= Len(Encoded(amz))
  BY <1>6, <1>7, <1>9 DEF Joined
<1> QED  BY <1>2, <1>3, <1>4, <1>9, <1>10 DEF a, m, z, am, amz

-----------------------------------------------------------------------------
\* Where the compression methods end.
End(h) == HelloFixed + 4 + Len(h.session) + Len(h.suites) + Len(h.methods)

\* A ClientHello has its parts at their places.
LEMMA HelloShape ==
  ASSUME NEW h, Sized(h), NEW x, x = Encoded(ExtensionsOf(h)),
         NEW e, e = End(h)
  PROVE  /\ Shape(Hello(h), Len(h.session), Len(h.suites), Len(h.methods), e, h.bare, x)
         /\ h.first # <<>> /\ Hello(h)[1] = h.first[1]
<1> DEFINE s == Hello(h)
           a == h.first
           b == Field8(h.session)
           c == Field16(h.suites)
           d == Field8(h.methods)
           t == IF h.bare THEN <<>> ELSE Field16(x)
           l == Len(h.session)
           m == Len(h.suites)
           n == Len(h.methods)
<1>1. /\ a \in Seq(Byte) /\ h.session \in Seq(Byte) /\ h.suites \in Seq(Byte) /\ h.methods \in Seq(Byte)
      /\ Len(a) = HelloFixed /\ l < Base /\ n < Base /\ Len(s) <= MaxContent /\ h.bare \in BOOLEAN
  BY Zenon DEF Sized
<1>2. x \in Seq(Byte) /\ Len(x) \in Nat
  <2>1. x \in Seq(Byte)
    BY ExtensionsWide, Zenon
  <2> QED  BY <2>1
<1>3. b \in Seq(Byte) /\ Len(b) = 1 + l /\ b[1] = l
  BY <1>1, Field8Is
<1>4. c \in Seq(Byte) /\ Len(c) = 2 + m
  BY <1>1, Field16Is
<1>5. d \in Seq(Byte) /\ Len(d) = 1 + n /\ d[1] = n
  BY <1>1, Field8Is
<1>6. t \in Seq(Byte) /\ Len(t) = IF h.bare THEN 0 ELSE 2 + Len(x)
  BY <1>1, <1>2, Field16Is
<1>7. s = a \o b \o c \o d \o t
  BY Zenon DEF Hello
<1> HIDE DEF s, a, b, c, d, t
<1>8. Places5(a, b, c, d, t, s)
  BY <1>1, <1>3, <1>4, <1>5, <1>6, <1>7, FiveParts, Zenon DEF Parts5
<1>9. /\ s \in Seq(Byte) /\ HasAt(s, 0, a) /\ HasAt(s, Len(a), b) /\ HasAt(s, Len(a) + Len(b), c)
      /\ HasAt(s, Len(a) + Len(b) + Len(c), d) /\ HasAt(s, Len(a) + Len(b) + Len(c) + Len(d), t)
      /\ Len(s) = Len(a) + Len(b) + Len(c) + Len(d) + Len(t)
  BY <1>8, Zenon DEF Places5
<1>10. l \in Nat /\ m \in Nat /\ n \in Nat /\ HelloFixed \in Nat /\ HelloFixed > 0 /\ MaxContent \in Int
  BY <1>1, FormatsAssumption DEF MaxContent
<1>11. e = HelloFixed + 4 + l + m + n
  BY Zenon DEF End
<1> HIDE DEF l, m, n
<1>12. /\ Len(t) \in Nat /\ e \in Nat
       /\ Len(s) = e + Len(t)
       /\ Len(a) + Len(b) = HelloFixed + 1 + l
       /\ Len(a) + Len(b) + Len(c) = HelloFixed + 3 + l + m
       /\ Len(a) + Len(b) + Len(c) + Len(d) = e
  <2>1. Len(t) \in Nat
    BY <1>6
  <2>2. Len(a) = HelloFixed /\ Len(b) = 1 + l /\ Len(c) = 2 + m /\ Len(d) = 1 + n
    BY <1>1, <1>3, <1>4, <1>5 DEF m
  <2>3. Len(s) = Len(a) + Len(b) + Len(c) + Len(d) + Len(t)
    BY <1>9, Zenon
  <2>4. Len(a) + Len(b) = HelloFixed + 1 + l /\ e \in Nat
    BY <1>10, <1>11, <2>2
  <2>5. Len(a) + Len(b) + Len(c) = HelloFixed + 3 + l + m
    BY <1>10, <2>2
  <2>6. Len(a) + Len(b) + Len(c) + Len(d) = e
    BY <1>10, <1>11, <2>2
  <2>7. Len(s) = e + Len(t)
    BY <2>1, <2>3, <2>6
  <2> QED  BY <2>1, <2>4, <2>5, <2>6, <2>7, Zenon
<1>13. a # <<>> /\ s[1] = a[1]
  <2>1. 1 \in 1..Len(a) /\ 0 + 1 = 1
    BY <1>1, <1>10
  <2>2. s[0 + 1] = a[1]
    BY <1>9, <2>1 DEF HasAt
  <2> QED  BY <1>1, <1>10, <2>2
<1>14. s[HelloFixed + 1] = l
  <2>1. 1 \in 1..Len(b)
    BY <1>3, <1>10
  <2> QED  BY <1>1, <1>3, <1>9, <2>1 DEF HasAt
<1>15. Uint16(s, HelloFixed + 2 + l) = m
  <2> DEFINE k == HelloFixed + 1 + l
  <2>1. k \in Nat /\ k + 1 = HelloFixed + 2 + l /\ HasAt(s, k, c)
    BY <1>9, <1>10, <1>12
  <2>2. Len(h.suites) <= MaxContent
    <3>1. m <= MaxContent
      BY <1>1, <1>10, <1>11, <1>12
    <3> QED  BY <3>1 DEF m
  <2> HIDE DEF k
  <2>3. Uint16(s, k + 1) = Len(h.suites)
    BY <1>1, <1>9, <2>1, <2>2, Field16At DEF c
  <2> QED  BY <2>1, <2>3 DEF m
<1>16. s[HelloFixed + 4 + l + m] = n
  <2> DEFINE k == HelloFixed + 3 + l + m
  <2>1. k \in Nat /\ k + 1 = HelloFixed + 4 + l + m /\ HasAt(s, k, d) /\ 1 \in 1..Len(d)
    BY <1>5, <1>9, <1>10, <1>12
  <2> HIDE DEF k
  <2>2. s[k + 1] = d[1]
    BY <2>1 DEF HasAt
  <2> QED  BY <1>5, <2>1, <2>2
<1>17. h.bare => Len(s) = e
  <2>1. h.bare => Len(t) = 0
    BY <1>6
  <2> QED  BY <1>12, <2>1
<1>18. ASSUME ~h.bare
       PROVE  /\ Len(s) = e + 2 + Len(x)
              /\ Uint16(s, e + 1) = Len(x) /\ SubSeq(s, e + 3, e + 2 + Len(x)) = x
  <2>1. t = Field16(x) /\ Len(s) = e + 2 + Len(x) /\ e \in Nat
    <3>1. Len(t) = 2 + Len(x)
      BY <1>6, <1>18
    <3>2. t = Field16(x)
      BY <1>18 DEF t
    <3> QED  BY <1>2, <1>12, <3>1, <3>2
  <2>2. Len(x) <= MaxContent /\ HasAt(s, e, Field16(x))
    <3>1. Len(x) <= MaxContent
      <4>1. Len(s) <= MaxContent
        BY <1>1, Zenon
      <4> QED  BY <1>2, <1>10, <2>1, <4>1
    <3>2. HasAt(s, e, t)
      BY <1>9, <1>12, Zenon
    <3> QED  BY <2>1, <3>1, <3>2, Zenon
  <2>3. Uint16(s, e + 1) = Len(x) /\ SubSeq(s, e + 3, e + 2 + Len(x)) = x
    BY <1>2, <1>9, <2>1, <2>2, Field16At
  <2> QED  BY <2>1, <2>3
<1>19. Shape(s, l, m, n, e, h.bare, x)
  BY <1>2, <1>9, <1>10, <1>11, <1>14, <1>15, <1>16, <1>17, <1>18, Zenon DEF Shape
<1> QED  BY <1>13, <1>19 DEF s, a, l, m, n

\* The server name among its extensions.
LEMMA HelloName ==
  ASSUME NEW h, Sized(h), ~h.bare
  PROVE  ServerName(Encoded(ExtensionsOf(h)))
             = IF h.named /\ h.kind = 0 THEN [ok |-> TRUE, name |-> h.name] ELSE Fail
<1> DEFINE x == Encoded(ExtensionsOf(h))
           e == End(h)
           n == HostName(h.kind, h.name)
           m == Inner(h)
<1>1. /\ h.before \in Seq(Others) /\ h.after \in Seq(Others) /\ h.kind \in Byte /\ h.name \in Seq(Byte)
      /\ h.named \in BOOLEAN /\ Len(Hello(h)) <= MaxContent
      /\ h.session \in Seq(Byte) /\ h.suites \in Seq(Byte) /\ h.methods \in Seq(Byte)
  BY Zenon DEF Sized
<1>2. Len(Hello(h)) = e + 2 + Len(x) /\ x \in Seq(Byte)
  <2>1. Shape(Hello(h), Len(h.session), Len(h.suites), Len(h.methods), e, h.bare, x)
    <3> HIDE DEF x, e
    <3> QED  BY HelloShape DEF x, e
  <2> HIDE DEF x, e
  <2> QED  BY <2>1 DEF Shape
<1>3. Len(x) <= MaxContent
  <2>1. e \in Nat /\ Len(x) \in Nat /\ MaxContent \in Int
    <3>1. Len(h.session) \in Nat /\ Len(h.suites) \in Nat /\ Len(h.methods) \in Nat
      BY <1>1
    <3>2. MaxContent \in Int
      BY FormatsAssumption DEF MaxContent
    <3>3. e \in Nat
      <4> DEFINE l == Len(h.session)
                 k == Len(h.suites)
                 o == Len(h.methods)
      <4>1. l \in Nat /\ k \in Nat /\ o \in Nat /\ HelloFixed \in Nat
        BY <3>1, FormatsAssumption
      <4> HIDE DEF l, k, o
      <4>2. HelloFixed + 4 + l + k + o \in Nat
        BY <4>1
      <4> QED  BY <4>2 DEF l, k, o, End
    <3> HIDE DEF x, e
    <3> QED  BY <1>2, <3>2, <3>3
  <2> HIDE DEF x, e
  <2> QED  BY <1>1, <1>2, <2>1
<1>4. h.named => n \in ExtType
  <2> SUFFICES ASSUME h.named PROVE n \in ExtType
    OBVIOUS
  <2>1. n \in Wide /\ n.type = 0
    BY <1>1, NameBytes, Zenon
  <2> HIDE DEF n, x
  <2>2. m = <<n>>
    BY DEF Inner, n
  <2>3. Encoded(m) = Extension(n)
    BY <2>1, <2>2, EncodedOne
  <2>4. Len(Extension(n)) = 4 + Len(n.body)
    BY <2>1, ExtensionBytes
  <2>5. Len(Extension(n)) <= Len(x)
    BY <2>3, ExtensionsWide DEF x
  <2>6. n.body \in Seq(Byte) /\ Len(n.body) \in Nat /\ Len(x) \in Nat /\ MaxContent \in Int
    BY <1>2, <2>1, FormatsAssumption DEF Wide, MaxContent
  <2>7. Len(n.body) <= MaxContent /\ 0 \in 0..MaxContent
    BY <1>3, <2>4, <2>5, <2>6
  <2>8. n \in [type : 0..MaxContent, body : Seq(Byte)]
    BY <2>1, <2>6, <2>7 DEF Wide
  <2> QED  BY <2>7, <2>8 DEF ExtType
<1>5. m \in Seq(ExtType) /\ IF h.named THEN n \in ExtType /\ m = <<n>> ELSE m = <<>>
  BY <1>1, <1>4 DEF Inner
<1>6. ServerName(Encoded((h.before \o m) \o h.after))
          = IF h.named /\ h.kind = 0 THEN [ok |-> TRUE, name |-> h.name] ELSE Fail
  <2> DEFINE y == Encoded((h.before \o m) \o h.after)
  <2>1. AmongAt(h.before, m, h.after, h.kind, h.name, h.named, y)
    BY <1>1, <1>5, Zenon DEF AmongAt
  <2> HIDE DEF y
  <2>2. NameIs(y, h.named, h.kind, h.name)
    BY <2>1, NameAmong, Zenon
  <2> QED  BY <2>2, Zenon DEF y, NameIs
<1>7. ExtensionsOf(h) = (h.before \o m) \o h.after
  BY ExtensionsWide, Zenon
<1> HIDE DEF m
<1> QED  BY <1>6, <1>7, Zenon

-----------------------------------------------------------------------------
\* A record r with the bytes s in it.
RecordOf(r, s, covers, come) ==
    /\ r \in Seq(Byte) /\ s \in Seq(Byte) /\ come \in Nat /\ covers \in 0..MaxContent
    /\ Len(r) = Fewer(come, 5 + Len(s))
    /\ Len(r) >= 5 => r[1] = Handshake /\ r[2] = MajorVersion /\ Uint16(r, 4) = covers
    /\ \A j \in 6..Len(r) : r[j] = s[j - 5]

\* A client's record is one with its ClientHello.
LEMMA RecordIs ==
  ASSUME NEW h, Sized(h)
  PROVE  RecordOf(Record(h), Hello(h), h.covers, h.come)
<1> DEFINE s == Hello(h)
           k == <<Handshake, MajorVersion, 1>>
           p == PutUint16(h.covers)
           kp == k \o p
           w == kp \o s
           r == Record(h)
<1>1. h.covers \in 0..MaxContent /\ h.come \in Nat /\ h.covers \in 0..(Base * Base - 1) /\ h.covers \in Nat
  BY FormatsAssumption DEF Sized, MaxContent
<1>2. s \in Seq(Byte)
  <2> DEFINE x == Encoded(ExtensionsOf(h))
             e == End(h)
  <2>1. Shape(s, Len(h.session), Len(h.suites), Len(h.methods), e, h.bare, x)
    <3> HIDE DEF x, e, s
    <3> QED  BY HelloShape DEF x, e, s
  <2> HIDE DEF x, e, s
  <2> QED  BY <2>1, Zenon DEF Shape
<1>3. k \in Seq(Byte) /\ Len(k) = 3 /\ k[1] = Handshake /\ k[2] = MajorVersion
  BY FormatsAssumption DEF Byte, Handshake, MajorVersion
<1>4. p \in Seq(Byte) /\ Len(p) = 2
  BY <1>1, PutUint16Type
<1>5. r = Take(w, h.come)
  BY Zenon DEF Record
<1> HIDE DEF s, k, p, r
<1>6. Joined(Byte, k, p, kp)
  BY <1>3, <1>4, Join, Zenon
<1> HIDE DEF kp
<1>7. kp \in Seq(Byte) /\ Len(kp) = 5 /\ kp[1] = Handshake /\ kp[2] = MajorVersion /\ kp[4] = p[1] /\ kp[5] = p[2]
  <2>1. kp \in Seq(Byte) /\ Len(kp) = 5
    BY <1>3, <1>4, <1>6 DEF Joined
  <2>2. kp[1] = k[1] /\ kp[2] = k[2]
    BY <1>3, <1>6 DEF Joined
  <2>3. kp[Len(k) + 1] = p[1] /\ kp[Len(k) + 2] = p[2]
    <3>1. 1 \in 1..Len(p) /\ 2 \in 1..Len(p)
      BY <1>4
    <3> QED  BY <1>6, <3>1 DEF Joined
  <2>4. Len(k) + 1 = 4 /\ Len(k) + 2 = 5
    BY <1>3
  <2> QED  BY <1>3, <2>1, <2>2, <2>3, <2>4
<1>8. Joined(Byte, kp, s, w)
  BY <1>2, <1>7, Join, Zenon
<1> HIDE DEF w
<1>9. w \in Seq(Byte) /\ Len(w) = 5 + Len(s) /\ Len(s) \in Nat
  BY <1>7, <1>8 DEF Joined
<1>10. /\ r \in Seq(Byte) /\ Len(r) = Fewer(h.come, 5 + Len(s)) /\ Len(r) <= Len(w)
       /\ \A j \in 1..Len(r) : r[j] = w[j]
  <2> DEFINE f == Fewer(h.come, Len(w))
  <2>1. f \in 0..Len(w)
    BY <1>1, <1>9 DEF Fewer
  <2>2. r = SubSeq(w, 1, f)
    BY <1>5, Zenon DEF Take
  <2>3. f = Fewer(h.come, 5 + Len(s))
    BY <1>9
  <2> HIDE DEF f
  <2> QED  BY <1>9, <2>1, <2>2, <2>3
<1>11. ASSUME Len(r) >= 5 PROVE r[1] = Handshake /\ r[2] = MajorVersion /\ Uint16(r, 4) = h.covers
  <2>1. \A j \in 1..5 : w[j] = kp[j]
    BY <1>7, <1>8 DEF Joined
  <2>2. \A j \in 1..5 : r[j] = w[j]
    BY <1>9, <1>10, <1>11
  <2>3. r[1] = Handshake /\ r[2] = MajorVersion /\ r[4] = p[1] /\ r[5] = p[2]
    BY <1>7, <2>1, <2>2
  <2> DEFINE i == 4
  <2>4. r[i] = p[1] /\ r[i + 1] = p[2]
    BY <2>3
  <2> HIDE DEF i
  <2>5. Uint16(r, i) = h.covers
    BY <1>1, <2>4, Uint16Is DEF p
  <2> QED  BY <2>3, <2>5 DEF i
<1>12. ASSUME NEW j \in 6..Len(r) PROVE r[j] = s[j - 5]
  <2>1. j - 5 \in 1..Len(s) /\ 5 + (j - 5) = j /\ j \in 1..Len(r)
    BY <1>9, <1>10
  <2>2. w[5 + (j - 5)] = s[j - 5]
    BY <1>7, <1>8, <2>1 DEF Joined
  <2> QED  BY <1>10, <2>1, <2>2
<1> QED  BY <1>1, <1>2, <1>10, <1>11, <1>12 DEF RecordOf, r, s

-----------------------------------------------------------------------------
\* When a server name is to be found.
ToBeFound(h) == /\ h.first[1] = ClientHello /\ ~h.bare /\ h.named /\ h.kind = 0
                /\ h.covers = Len(Hello(h)) /\ h.come >= 5 + h.covers

\* It is found then, and no name otherwise.
LEMMA NameSniffed ==
  ASSUME NEW h, Sized(h)
  PROVE  sniffTargetTLS(Record(h)) = IF ToBeFound(h) THEN [ok |-> TRUE, name |-> h.name] ELSE Fail
<1> DEFINE s == Hello(h)
           r == Record(h)
           e == End(h)
           x == Encoded(ExtensionsOf(h))
           body == SubSeq(r, 6, 5 + Uint16(r, 4))
           head == Len(r) < 5 \/ r[1] # Handshake \/ r[2] # MajorVersion
           found == [ok |-> TRUE, name |-> h.name]
           exts == Extensions(body)
<1>1. sniffTargetTLS(r) =
          IF \/ head \/ Len(r) < 5 + Uint16(r, 4)
             \/ Len(body) < HelloFixed + 4 \/ body[1] # ClientHello \/ ~exts.ok
          THEN Fail ELSE ServerName(exts.bytes)
  BY Zenon DEF sniffTargetTLS
<1>2. RecordOf(r, s, h.covers, h.come)
  BY RecordIs, Zenon
<1>3. /\ Shape(s, Len(h.session), Len(h.suites), Len(h.methods), e, h.bare, x)
      /\ s[1] = h.first[1] /\ h.bare \in BOOLEAN
  <2>1. h.bare \in BOOLEAN
    BY Zenon DEF Sized
  <2> HIDE DEF x, e, s
  <2> QED  BY <2>1, HelloShape DEF x, e, s
<1>4. ~h.bare => ServerName(x) = IF h.named /\ h.kind = 0 THEN found ELSE Fail
  BY HelloName, Zenon
<1> HIDE DEF s, r, e, x, body, head, exts, found
<1>5. /\ r \in Seq(Byte) /\ s \in Seq(Byte) /\ h.come \in Nat /\ h.covers \in Nat
      /\ Len(r) = Fewer(h.come, 5 + Len(s)) /\ Len(r) \in Nat /\ Len(s) \in Nat
  BY <1>2 DEF RecordOf
<1>6. Len(s) >= HelloFixed + 4
  <2>1. /\ Len(h.session) \in Nat /\ Len(h.suites) \in Nat /\ Len(h.methods) \in Nat
        /\ e = HelloFixed + 4 + Len(h.session) + Len(h.suites) + Len(h.methods)
    BY <1>3, Zenon DEF Shape
  <2> DEFINE l == Len(h.session)
             m == Len(h.suites)
             n == Len(h.methods)
  <2>2. l \in Nat /\ m \in Nat /\ n \in Nat /\ e = HelloFixed + 4 + l + m + n
    BY <2>1, Zenon
  <2> HIDE DEF l, m, n
  <2>3. e \in Nat /\ e >= HelloFixed + 4
    BY <2>2, FormatsAssumption
  <2>4. h.bare => Len(s) = e
    BY <1>3, Zenon DEF Shape
  <2>5. ~h.bare => Len(s) = e + 2 + Len(x) /\ x \in Seq(Byte)
    BY <1>3, Zenon DEF Shape
  <2>6. Len(s) >= e
    <3>1. CASE h.bare
      BY <2>3, <2>4, <3>1
    <3>2. CASE ~h.bare
      <4>1. Len(x) \in Nat
        BY <2>5, <3>2
      <4> QED  BY <2>3, <2>5, <3>2, <4>1
    <3> QED  BY <3>1, <3>2
  <2> QED  BY <1>5, <2>3, <2>6, FormatsAssumption
<1>7. ToBeFound(h) <=> /\ h.first[1] = ClientHello /\ ~h.bare /\ h.named /\ h.kind = 0
                       /\ h.covers = Len(s) /\ h.come >= 5 + h.covers
  BY Zenon DEF ToBeFound, s
<1>8. CASE Len(r) < 5
  <2>1. sniffTargetTLS(r) = Fail
    BY <1>1, <1>8, Zenon DEF head
  <2>2. ~(h.covers = Len(s) /\ h.come >= 5 + h.covers)
    BY <1>5, <1>8 DEF Fewer
  <2> QED  BY <1>7, <2>1, <2>2, Zenon DEF r
<1>9. CASE Len(r) >= 5 /\ Len(r) < 5 + h.covers
  <2>1. Uint16(r, 4) = h.covers
    BY <1>2, <1>9, Zenon DEF RecordOf
  <2>2. sniffTargetTLS(r) = Fail
    BY <1>1, <1>9, <2>1, Zenon
  <2>3. ~(h.covers = Len(s) /\ h.come >= 5 + h.covers)
    BY <1>5, <1>9 DEF Fewer
  <2> QED  BY <1>7, <2>2, <2>3, Zenon DEF r
<1>10. CASE Len(r) >= 5 /\ ~(Len(r) < 5 + h.covers)
  <2>1. Uint16(r, 4) = h.covers /\ r[1] = Handshake /\ r[2] = MajorVersion /\ ~head
    <3>1. Uint16(r, 4) = h.covers /\ r[1] = Handshake /\ r[2] = MajorVersion
      BY <1>2, <1>10, Zenon DEF RecordOf
    <3>2. ~(Len(r) < 5)
      BY <1>5, <1>10
    <3> QED  BY <3>1, <3>2, Zenon DEF head
  <2>2. body \in Seq(Byte) /\ Len(body) = h.covers /\ \A j \in 1..Len(body) : body[j] = s[j]
    <3>1. body = SubSeq(r, 6, 5 + h.covers)
      BY <2>1, Zenon DEF body
    <3>2. body \in Seq(Byte) /\ Len(body) = h.covers /\ \A j \in 1..h.covers : body[j] = r[5 + j]
      BY <1>5, <1>10, <3>1
    <3>3. ASSUME NEW j \in 1..h.covers PROVE r[5 + j] = s[j]
      <4>1. 5 + j \in 6..Len(r) /\ (5 + j) - 5 = j
        BY <1>5, <1>10
      <4> QED  BY <1>2, <4>1 DEF RecordOf
    <3> QED  BY <3>2, <3>3
  <2>3. h.covers <= Len(s)
    BY <1>5, <1>10 DEF Fewer
  <2>4. sniffTargetTLS(r) = IF Len(body) < HelloFixed + 4 \/ body[1] # ClientHello \/ ~exts.ok
                            THEN Fail ELSE ServerName(exts.bytes)
    BY <1>1, <1>10, <2>1, Zenon
  <2>5. CASE Len(body) < HelloFixed + 4
    <3>1. h.covers # Len(s)
      BY <1>5, <1>6, <2>2, <2>5, FormatsAssumption
    <3> QED  BY <1>7, <2>4, <2>5, <3>1, Zenon DEF r
  <2>6. CASE ~(Len(body) < HelloFixed + 4)
    <3>1. Len(body) >= HelloFixed + 4 /\ body[1] = h.first[1]
      <4>1. Len(body) >= HelloFixed + 4 /\ 1 \in 1..Len(body)
        BY <1>5, <2>2, <2>6, FormatsAssumption
      <4> QED  BY <1>3, <2>2, <4>1
    <3>2. IsStart(body, s)
      BY <2>2, <2>3 DEF IsStart
    <3>3. exts = IF ~h.bare /\ Len(body) = Len(s) THEN [ok |-> TRUE, bytes |-> x] ELSE Fail
      BY <1>3, <3>1, <3>2, ExtensionsOK, Zenon DEF exts
    <3>4. CASE ~h.bare /\ h.covers = Len(s)
      <4>1. exts = [ok |-> TRUE, bytes |-> x]
        BY <2>2, <3>3, <3>4
      <4>2. exts.ok /\ exts.bytes = x
        BY <4>1
      <4>3. h.come >= 5 + h.covers
        BY <1>5, <1>10, <3>4 DEF Fewer
      <4>4. sniffTargetTLS(r) = IF h.first[1] # ClientHello THEN Fail ELSE ServerName(x)
        BY <2>4, <2>6, <3>1, <4>2, Zenon
      <4> QED  BY <1>4, <1>7, <3>4, <4>3, <4>4, Zenon DEF r, found
    <3>5. CASE ~(~h.bare /\ h.covers = Len(s))
      <4>1. exts = Fail
        BY <2>2, <3>3, <3>5
      <4>2. ~exts.ok
        BY <4>1 DEF Fail
      <4> QED  BY <1>7, <2>4, <3>5, <4>2, Zenon DEF r
    <3> QED  BY <3>4, <3>5
  <2> QED  BY <2>5, <2>6
<1>11. Len(r) < 5 \/ Len(r) >= 5
  BY <1>5
<1> QED  BY <1>8, <1>9, <1>10, <1>11

-----------------------------------------------------------------------------
\* What was found is what the look at the ClientHello has found.
Sniffs == /\ via = "tls" => ask \in Hellos
          /\ step = "looked" /\ via = "tls" => seen = sniffTargetForRoutingTLS(Record(ask))

\* At first nothing was looked at.
LEMMA InitSniffs == ASSUME Init PROVE Sniffs
<1>1. step # "looked"
  <2>1. step \in {"open", "asks"}
    BY Zenon DEF Init
  <2> QED  BY <2>1
<1>2. via = "tls" => ask \in Hellos
  <2> SUFFICES ASSUME via = "tls" PROVE ask \in Hellos
    OBVIOUS
  <2>1. ~Targets
    BY DEF Targets
  <2>2. via # ""
    OBVIOUS
  <2> QED  BY <2>1, <2>2, Zenon DEF Init
<1> QED  BY <1>1, <1>2 DEF Sniffs

\* Every step keeps it.
LEMMA SniffsStep == ASSUME Sniffs, [Next]_vars PROVE Sniffs'
<1>1. CASE Request
  <2>1. step' # "looked" /\ UNCHANGED <<via, ask>>
    BY <1>1 DEF Request
  <2> QED  BY <2>1 DEF Sniffs
<1>2. CASE Look
  <2>1. UNCHANGED <<via, ask>>
    BY <1>2, Zenon DEF Look
  <2>2. via # "udp" => seen' = sniffTargetForRoutingTLS(Record(ask))
    BY <1>2, Zenon DEF Look
  <2>3. via = "tls" => via # "udp"
    OBVIOUS
  <2> QED  BY <2>1, <2>2, <2>3, Zenon DEF Sniffs
<1>3. CASE UNCHANGED request
  <2>1. UNCHANGED <<step, via, ask, seen>>
    BY <1>3 DEF request
  <2> QED  BY <2>1, Zenon DEF Sniffs
<1> QED  BY <1>1, <1>2, <1>3 DEF Next, vars

\* The server name is what was found.
LEMMA NameFollows == ASSUME Sniffs PROVE NameIsSeen
<1> SUFFICES ASSUME step = "looked", via = "tls"
             PROVE  seen = IF ToBeFound(ask) /\ ask.name # <<>> THEN [ok |-> TRUE, name |-> ask.name] ELSE Fail
  BY Zenon DEF NameIsSeen, ToBeFound
<1>1. ask \in Hellos /\ seen = sniffTargetForRoutingTLS(Record(ask))
  BY Zenon DEF Sniffs
<1>2. Sized(ask)
  BY <1>1, HelloSized, Zenon
<1> DEFINE r == sniffTargetTLS(Record(ask))
           found == [ok |-> TRUE, name |-> ask.name]
<1>3. r = IF ToBeFound(ask) THEN found ELSE Fail
  BY <1>2, NameSniffed, Zenon
<1>4. seen = IF r.ok /\ r.name # <<>> THEN r ELSE Fail
  BY <1>1, Zenon DEF sniffTargetForRoutingTLS
<1>5. found.ok /\ found.name = ask.name /\ ~Fail.ok
  BY DEF Fail
<1> HIDE DEF r, found
<1>6. seen = IF ToBeFound(ask) /\ ask.name # <<>> THEN found ELSE Fail
  <2>1. CASE ToBeFound(ask)
    BY <1>3, <1>4, <1>5, <2>1, Zenon
  <2>2. CASE ~ToBeFound(ask)
    BY <1>3, <1>4, <1>5, <2>2, Zenon
  <2> QED  BY <2>1, <2>2
<1> QED  BY <1>6 DEF found

\* What is looked at is found: the target of a datagram, and the server name of a TLS
\* ClientHello, wherever it is among the extensions, when the gateway's reader holds all
\* of the ClientHello in one record; by any other nothing is routed.
THEOREM TargetsAreSeen == Spec => []TargetIsSeen
<1>1. Init => Sniffs
  BY InitSniffs
<1>2. Sniffs /\ [Next]_vars => Sniffs'
  BY SniffsStep
<1>3. Sniffs => NameIsSeen
  BY NameFollows
<1>4. DatagramIsSeen /\ NameIsSeen => TargetIsSeen
  BY DEF TargetIsSeen
<1> QED  BY <1>1, <1>2, <1>3, <1>4, DatagramIsKnown, PTL DEF Spec

=============================================================================
