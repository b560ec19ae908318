------------------------------ MODULE Sublists ------------------------------
(***************************************************************************)
(* The elements of a sequence that stand at given places, in their order:  *)
(* the loop that goes through a list and appends what passes a test.  It   *)
(* takes the places as a set, where SelectSeq takes the test as an         *)
(* operator, so that theorems can speak about any of them.                 *)
(***************************************************************************)
EXTENDS Integers, Sequences

Sublist(seq, places) ==
    LET picked[n \in 0 .. Len(seq)] ==
            IF n = 0 THEN <<>>
            ELSE IF n \in places THEN Append(picked[n - 1], seq[n])
            ELSE picked[n - 1]
    IN  picked[Len(seq)]

=============================================================================
