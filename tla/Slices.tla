------------------------------- MODULE Slices -------------------------------
(***************************************************************************)
(* Byte slices as the code cuts them: s[:n] and s[n:], clipped to s.       *)
(***************************************************************************)
EXTENDS Naturals, Sequences, SequencesExt

Fewer(a, b) == IF a < b THEN a ELSE b
Take(s, n) == SubSeq(s, 1, Fewer(n, Len(s)))
Drop(s, n) == SubSeq(s, n + 1, Len(s))

=============================================================================
