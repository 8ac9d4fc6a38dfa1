------------------------------- MODULE MCNatSit -------------------------------
(***************************************************************************)
(* Instance of LbzNatSit for TLC: two slots in different segments, pages   *)
(* of one entry, so that every page boundary of the list is crossed.       *)
(***************************************************************************)
EXTENDS LbzNatSit

TwoSlots == {0, 1}
=============================================================================
