----------------------------- MODULE MCLifecycle -----------------------------
(***************************************************************************)
(* Instances of LbzLifecycle for TLC.                                      *)
(***************************************************************************)
EXTENDS LbzLifecycle

\* With leaves of two entries and nodes of two leaves: a device that ends inside
\* a leaf, one that ends with a leaf inside a node, and one that fills two nodes.
SmallSizes == {3, 6, 8}
=============================================================================
