------------------------------ MODULE MCRequest ------------------------------
(***************************************************************************)
(* Instances of LbzRequest for TLC: bios that overlap on one block, so     *)
(* that their parts meet in the task tree, with too little room for all.   *)
(***************************************************************************)
EXTENDS LbzRequest

CONSTANTS x1, x2

Bio(op, start, n, flush, cp) ==
    [op |-> op, start |-> start, blocks |-> n, flush |-> flush, cp |-> cp]

\* A long write, a long read of which one block was never written, a flush of a
\* checkpoint block, and a flush without data.  All but the last share block 1.
MixedShapes == {Bio("write", 0, 2, FALSE, FALSE), Bio("read", 1, 2, FALSE, FALSE),
                Bio("write", 1, 1, TRUE, TRUE), Bio("write", 0, 0, TRUE, FALSE)}
=============================================================================
