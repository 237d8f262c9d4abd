------------------------------- MODULE UniqueIds -------------------------------
(***************************************************************************)
(* What sequence.GetUUID promises: every call returns a number that no     *)
(* call has returned before.                                               *)
(***************************************************************************)
EXTENDS Naturals, Sequences

VARIABLE ids     \* the numbers returned so far

Init == ids = <<>>

(* The number that a step adds is new.                                     *)
Issue ==
  /\ Len(ids') = Len(ids) + 1
  /\ ids' = Append(ids, ids'[Len(ids')])
  /\ \A i \in 1 .. Len(ids) : ids[i] # ids'[Len(ids')]

Spec == Init /\ [][Issue]_ids
=============================================================================
