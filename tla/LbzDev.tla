------------------------------- MODULE LbzDev -------------------------------
(***************************************************************************)
(* The parts of struct lbz_device that every component shares, and the     *)
(* zoned block device underneath (phy_bdev), which is not code of this     *)
(* repository: zone append picks the next free block of the zone, zone     *)
(* reset blanks it, and any command may fail MaxErrors times in all.       *)
(***************************************************************************)
EXTENDS Integers

CONSTANTS
    NrZones,        \* zmd->nr_zones
    ZoneNrBlocks,   \* zmd->zone_nr_blocks, the capacity of a zone in blocks
    Blks,           \* the logical block numbers (blkid) in use
    Values,         \* the data a block can hold
    NULL,           \* a null pointer, and the content of a blank block
    INVALID,        \* LBZ_INVALID_PBID, also the invalid reverse-map entry
    MaxErrors       \* bound: device commands that may fail

Zone   == 0 .. NrZones - 1
Offset == 0 .. ZoneNrBlocks - 1

\* A physical block number, split into its zone and its offset in the zone.
Pbid == Zone \X Offset

\* get_zone_by_pbid: the zone a physical block lies in.
get_zone_by_pbid(p) == p[1]

ASSUME DevAssumption ==
    /\ NrZones \in Nat \ {0}
    /\ ZoneNrBlocks \in Nat \ {0}
    /\ Blks # {} /\ Values # {}
    /\ INVALID \notin Blks \cup Pbid
    /\ NULL \notin Values \cup Blks \cup Zone \cup Pbid
    /\ MaxErrors \in Nat

VARIABLES
    media,      \* content of every physical block
    errors,     \* device commands that have failed so far
    faulty,     \* LBZ_DEV_STATE_FAULTY of dev->flags
    gc_state,   \* LBZ_GC_STAT_RECLAIMING / _EMERGENCY bits of gc_ctx->gc_state
    oops        \* which BUG()/panic() stopped the kernel, "none" while it runs

devVars == <<media, errors, faulty, gc_state, oops>>

Oops == {"none", "reset_valid", "gc_eagain", "gc_eio", "gc_oldpbid", "gc_conflict"}

DevTypeOK ==
    /\ media \in [Pbid -> Values \cup {NULL}]
    /\ errors \in 0 .. MaxErrors
    /\ faulty \in BOOLEAN
    /\ gc_state \in SUBSET {"RECLAIMING", "EMERGENCY"}
    /\ oops \in Oops

\* The device's write pointer: the first blank block of zone z.
WritePointer(p) ==
    /\ media[p] = NULL
    /\ \A o \in Offset : o < p[2] => media[<<p[1], o>>] # NULL

\* REQ_OP_ZONE_APPEND of v to the zone of p, the device choosing p.
ZoneAppend(p, v) == WritePointer(p) /\ media' = [media EXCEPT ![p] = v]

\* REQ_OP_ZONE_RESET: every block of zone z becomes blank.
ZoneReset(z) ==
    media' = [p \in Pbid |-> IF get_zone_by_pbid(p) = z THEN NULL ELSE media[p]]

\* A device command fails.
CommandFails == errors < MaxErrors /\ errors' = errors + 1

lbz_dev_set_faulty == faulty' = TRUE
=============================================================================
