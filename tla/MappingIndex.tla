---------------------------- MODULE MappingIndex ----------------------------
(***************************************************************************)
(* The shape of the forward map of lbz-mapping.c: an array root[] of       *)
(* internal nodes, each an array of leaves, each an array of pbids.  Which *)
(* nodes lbz_mapping_init allocates for a device of m blocks, which ones   *)
(* lbz_mapping_destroy frees, and which entry __find_specific_node picks.  *)
(***************************************************************************)
EXTENDS Integers

CONSTANTS LBZ_LEAF_NODE_ENTIRES, LBZ_INT_NODE_ENTRIES

ASSUME IndexAssumption ==
    LBZ_LEAF_NODE_ENTIRES \in Nat \ {0} /\ LBZ_INT_NODE_ENTRIES \in Nat \ {0}

LBZ_INT_NODE_INDEXED_BLKS == LBZ_LEAF_NODE_ENTIRES * LBZ_INT_NODE_ENTRIES

\* __find_specific_node.
root_index(blkid) == blkid \div LBZ_INT_NODE_INDEXED_BLKS
int_index(blkid)  == (blkid \div LBZ_LEAF_NODE_ENTIRES) % LBZ_INT_NODE_ENTRIES
leaf_index(blkid) == blkid % LBZ_LEAF_NODE_ENTIRES

Leaf(blkid)  == <<root_index(blkid), int_index(blkid)>>
Entry(blkid) == <<Leaf(blkid), leaf_index(blkid)>>

nr_internal_node(m) == (m + LBZ_INT_NODE_INDEXED_BLKS - 1) \div LBZ_INT_NODE_INDEXED_BLKS

\* Mutant: the last leaf is left out when it is not full.
nr_leaf_node_RoundsDown(m) == m \div LBZ_LEAF_NODE_ENTIRES

nr_leaf_node(m) == (m + LBZ_LEAF_NODE_ENTIRES - 1) \div LBZ_LEAF_NODE_ENTIRES

\* The leaves in the order of the two nested loops, in which the leaf <<i, j>> is
\* number i * LBZ_INT_NODE_ENTRIES + j; the loops stop after nr_leaf_node leaves.
Leaves(m) ==
    {n \in (0 .. nr_internal_node(m) - 1) \X (0 .. LBZ_INT_NODE_ENTRIES - 1) :
        n[1] * LBZ_INT_NODE_ENTRIES + n[2] < nr_leaf_node(m)}

lbz_mapping_init(m) == [root |-> 0 .. nr_internal_node(m) - 1, leaves |-> Leaves(m)]
lbz_mapping_destroy(root, leaves, m) ==
    [root |-> root \ (0 .. nr_internal_node(m) - 1), leaves |-> leaves \ Leaves(m)]

\* No block below m lacks an entry of its own: its internal node and its leaf
\* are allocated, the index is inside the leaf, and no other block has the same
\* entry.
OwnEntry(root, leaves, m) ==
    \A b \in 0 .. m - 1 :
        /\ root_index(b) \in root /\ Leaf(b) \in leaves
        /\ leaf_index(b) \in 0 .. LBZ_LEAF_NODE_ENTIRES - 1
        /\ \A c \in 0 .. m - 1 : Entry(b) = Entry(c) => b = c
=============================================================================
