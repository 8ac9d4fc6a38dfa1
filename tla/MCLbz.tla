------------------------------- MODULE MCLbz --------------------------------
(***************************************************************************)
(* Instances of Lbz small enough for TLC.  The number of writes the users  *)
(* submit is bounded by MaxWrites; everything the driver does with them    *)
(* (retries, GC, zone state passes, reads) is not.                         *)
(***************************************************************************)
EXTENDS Lbz, TLC

CONSTANTS b1, b2, b3, t1, t2, r1, v1, v2

CONSTANT MaxWrites      \* bound: writes submitted in a behaviour

VARIABLE budget         \* writes that may still be submitted

mcVars == <<vars, budget>>

\* create.sh resets the device before lbz is created on it.
FreshDisk == [z \in Zone |-> 0]

\* No nat/sit rule: all blocks in stream 0.  A rule that separates b1.
OneStream  == [x \in Blks |-> 0]
TwoStreams == [x \in Blks |-> IF x = b1 THEN 0 ELSE 1]

\* Sound where StreamId treats the blocks alike.
Symmetry == Permutations(Blks) \cup Permutations(UTasks) \cup Permutations(Values)

MCInit == Init /\ budget = MaxWrites

MCNext ==
    /\ Next
    /\ budget' = IF inflight'.write > inflight.write THEN budget - 1 ELSE budget
    /\ budget' >= 0

\* The code as it is.
CodeSpec == MCInit /\ [][MCNext]_mcVars

\* The behaviours of the code in which no zone is closed or reset early.
ApprovedSpec == MCInit /\ [][MCNext /\ ZoneMgmtApproved']_mcVars

\* The same without a bound on the writes, under fairness.
LiveSpec == MCInit /\ [][Next /\ ZoneMgmtApproved' /\ UNCHANGED budget]_mcVars /\ Fairness
=============================================================================
