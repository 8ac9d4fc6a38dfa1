---------------------------- MODULE ZoneMetadata ----------------------------
(***************************************************************************)
(* lbz-zone-metadata.c: the zone descriptors, their lists, the block       *)
(* allocator, and zone_state_wk_fn, the work item that closes full zones   *)
(* and resets collected ones.  What runs under one spinlock is one step.   *)
(***************************************************************************)
EXTENDS LbzDev, Sequences, FiniteSets

CONSTANTS
    DiskWp,          \* write pointer of each zone when the device is created
    ReclaimWmGcLow,  \* reclaim_wm_gc_low, percent of the device
    ReclaimWmGcHigh, \* reclaim_wm_gc_high, percent of the device
    ZoneReclaimWm,   \* zone_reclaim_wm, percent of a zone
    SplitPut         \* TRUE: lbz_put_zone takes two steps when it drops the last reference

LBZ_ZONE_MAX_STREAM == 2
Streams == 0 .. LBZ_ZONE_MAX_STREAM - 1

\* Zones never written; they are listed in the order of their numbers.
BlankZones == {z \in Zone : DiskWp[z] = 0}

\* Zones created half written; each becomes the active zone of a stream.
PartialZones == {z \in Zone : 0 < DiskWp[z] /\ DiskWp[z] < ZoneNrBlocks}

\* The last conjunct is the BUG_ON of lbz_init_zone.
ASSUME ZmdAssumption ==
    /\ DiskWp \in [Zone -> 0 .. ZoneNrBlocks]
    /\ ReclaimWmGcLow \in Nat /\ ReclaimWmGcHigh \in Nat /\ ZoneReclaimWm \in Nat
    /\ SplitPut \in BOOLEAN
    /\ Cardinality(PartialZones) <= LBZ_ZONE_MAX_STREAM

VARIABLES
    zone,               \* the zone descriptors (struct lbz_zone)
    zrms,               \* the reverse map: the logical block of each pbid
    empty_zone_list,    \* FIFO of zones ready to be opened
    full_zone_list,     \* zones GC may choose from (order does not matter)
    active_zone,        \* the zone each stream writes, or NULL
    nr_allocable_blks,  \* blocks the allocator may still hand out
    zs                  \* where zone_state_wk_fn is: step, i, send_zone_mgmgt

listVars == <<empty_zone_list, full_zone_list, active_zone, nr_allocable_blks>>
zmdVars == <<zone, zrms, listVars, zs>>

Flags == {"INIT", "ACTIVE", "TO_FULL", "FULL", "GC", "GC_COMPLETED"}
ZoneRec == [state : {"EMPTY", "OPEN", "FULL", "CLOSED"}, flags : SUBSET Flags,
            refcount : Int, wp_block : Int, weight : Int, pending_write_io : Int,
            in_put : BOOLEAN]    \* a last put has not yet looked at the flags

ZsRec == [pc : {"idle", "scan", "close", "gc", "reset", "release"}, i : Zone, send : BOOLEAN]

ZmdTypeOK ==
    /\ zone \in [Zone -> ZoneRec]
    /\ zrms \in [Pbid -> Blks \cup {INVALID}]
    /\ empty_zone_list \in Seq(Zone)
    /\ full_zone_list \in SUBSET Zone
    /\ active_zone \in [Streams -> Zone \cup {NULL}]
    /\ nr_allocable_blks \in Int
    /\ zs \in ZsRec

nr_total_blks    == NrZones * ZoneNrBlocks
reserved_blks_gc == ZoneNrBlocks

-----------------------------------------------------------------------------
(* lbz_init_zone, for every zone the device reports.                       *)

InitZone(z) ==
    LET w == DiskWp[z] IN
    [state |-> IF w = 0 THEN "EMPTY" ELSE IF w < ZoneNrBlocks THEN "OPEN" ELSE "FULL",
     flags |-> IF w = 0 THEN {"INIT"} ELSE IF w < ZoneNrBlocks THEN {"ACTIVE"} ELSE {"FULL"},
     refcount |-> IF z \in PartialZones THEN 1 ELSE 0,
     wp_block |-> w, weight |-> w, pending_write_io |-> 0, in_put |-> FALSE]

\* The stream a half-written zone is given: the first one still without a zone.
StreamTaken(z) == Cardinality({y \in PartialZones : y < z})

ZmdInit ==
    /\ zone = [z \in Zone |-> InitZone(z)]
    /\ zrms = [p \in Pbid |-> INVALID]
    /\ empty_zone_list \in [1 .. Cardinality(BlankZones) -> BlankZones]
    /\ \A j, k \in 1 .. Cardinality(BlankZones) : j < k => empty_zone_list[j] < empty_zone_list[k]
    /\ full_zone_list = {z \in Zone : DiskWp[z] = ZoneNrBlocks}
    /\ active_zone = [s \in Streams |->
           IF \E z \in PartialZones : StreamTaken(z) = s
           THEN CHOOSE z \in PartialZones : StreamTaken(z) = s ELSE NULL]
    /\ nr_allocable_blks = nr_total_blks - Cardinality({p \in Pbid : p[2] < DiskWp[p[1]]})
    /\ zs = [pc |-> "idle", i |-> 0, send |-> FALSE]

-----------------------------------------------------------------------------
(* Reference counts and per-zone counters, as functions of the descriptor. *)

lbz_get_zone(d) == [d EXCEPT !.refcount = @ + 1]

\* Mutant: a put closes the zone without looking at its pending writes.
lbz_put_zone_Eager(d) ==
    LET r == [d EXCEPT !.refcount = @ - 1] IN
    IF r.refcount = 0 /\ "GC" \in r.flags THEN [r EXCEPT !.state = "EMPTY"]
    ELSE IF "TO_FULL" \in r.flags THEN [r EXCEPT !.state = "FULL"] ELSE r

\* The last put of a zone under GC makes it ready for reset; any put of a
\* fully allocated zone without pending writes makes it ready to be closed.
PutState(d, last) ==
    IF last /\ "GC" \in d.flags THEN [d EXCEPT !.state = "EMPTY"]
    ELSE IF "TO_FULL" \in d.flags /\ d.pending_write_io = 0
         THEN [d EXCEPT !.state = "FULL"] ELSE d

\* zone->lock is held, but lbz_find_victim_zone, which takes references and sets
\* the GC flag, does not take it: it may come between the two halves.
lbz_put_zone(d) ==
    LET r == [d EXCEPT !.refcount = @ - 1] IN
    IF r.refcount = 0 /\ SplitPut THEN [r EXCEPT !.in_put = TRUE]
    ELSE PutState(r, r.refcount = 0)

\* The second half of a last put.
PutZoneEnd(z) ==
    /\ zone[z].in_put
    /\ zone' = [zone EXCEPT ![z] = PutState([@ EXCEPT !.in_put = FALSE], TRUE)]
    /\ UNCHANGED <<devVars, zrms, listVars, zs>>

SetFlag(d, f) == [d EXCEPT !.flags = @ \cup {f}]

lbz_zone_complete_write(d)     == [d EXCEPT !.pending_write_io = @ - 1]
lbz_zone_release_global_res(d) == [d EXCEPT !.weight = @ - 1]

lbz_zone_update_reverse_map(p, blkid) == zrms' = [zrms EXCEPT ![p] = blkid]

-----------------------------------------------------------------------------
(* lbz_zone_alloc_res: one block of stream s for a user or a GC write.     *)

\* The stream has no zone to write, or its zone is written to the end.
NeedZone(s) ==
    \/ active_zone[s] = NULL
    \/ zone[active_zone[s]].wp_block = ZoneNrBlocks

\* Mutant: user writes may take the first block of the reserve.
AllocDenied_OffByOne(flag) == flag = "USER" /\ nr_allocable_blks < reserved_blks_gc - 1

\* User writes stop while only the blocks reserved for GC are left.
AllocDenied(flag) == flag = "USER" /\ nr_allocable_blks < reserved_blks_gc

AllocSucceeds(flag, s) ==
    /\ ~faulty
    /\ ~AllocDenied(flag)
    /\ NeedZone(s) => empty_zone_list # <<>>

\* __get_free_zone: the zone that will be written.
TargetZone(s) == IF NeedZone(s) THEN Head(empty_zone_list) ELSE active_zone[s]

OpenZone(d) ==
    [lbz_get_zone(d) EXCEPT !.flags = @ \cup {"ACTIVE"}, !.state = "OPEN"]

\* __alloc_res and __pending_write; the allocation that takes the last block
\* moves the zone from ACTIVE to TO_FULL and drops the stream's reference.
TakeBlock(d) ==
    LET r == [lbz_get_zone(d) EXCEPT !.wp_block = @ + 1, !.weight = @ + 1,
                                     !.pending_write_io = @ + 1] IN
    IF r.wp_block = ZoneNrBlocks
    THEN lbz_put_zone([r EXCEPT !.flags = (@ \ {"ACTIVE"}) \cup {"TO_FULL"}])
    ELSE r

\* A stream whose zone is full has given it up already (AllocableExact), so a
\* failing call changes nothing and put is zone.
lbz_zone_alloc_res(flag, s) ==
    LET z == TargetZone(s)
        old == active_zone[s]
        d == IF NeedZone(s) THEN OpenZone(zone[z]) ELSE zone[z]
        put == IF NeedZone(s) /\ old # NULL
               THEN [zone EXCEPT ![old] = lbz_put_zone(@)] ELSE zone
    IN /\ AllocSucceeds(flag, s)
       /\ zone' = [put EXCEPT ![z] = TakeBlock(d)]
       /\ empty_zone_list' = IF NeedZone(s) THEN Tail(empty_zone_list) ELSE empty_zone_list
       /\ active_zone' = [active_zone EXCEPT
              ![s] = IF TakeBlock(d).wp_block = ZoneNrBlocks THEN NULL ELSE z]
       /\ nr_allocable_blks' = nr_allocable_blks - 1
       /\ UNCHANGED <<full_zone_list, zrms, zs>>

\* Watermarks.  The subtraction is unsigned: below the reserve it wraps to a
\* huge number and the test fails.
BelowWatermark(allocable, percent) ==
    /\ allocable >= reserved_blks_gc
    /\ allocable - reserved_blks_gc < (nr_total_blks * percent) \div 100

lbz_check_need_reclaim_low == BelowWatermark(nr_allocable_blks, ReclaimWmGcLow)
lbz_check_zone_low_wm(z) == zone[z].weight <= (ZoneNrBlocks * ZoneReclaimWm) \div 100

-----------------------------------------------------------------------------
(* zone_state_wk_fn: one pass over all zones.  zs.send is the local        *)
(* send_zone_mgmgt, which is set once and stays set for the whole pass.    *)

ZsIdle == [pc |-> "idle", i |-> 0, send |-> FALSE]

NextZone == IF zs.i + 1 < NrZones THEN [zs EXCEPT !.pc = "scan", !.i = @ + 1] ELSE ZsIdle

ZsStart ==
    /\ zs.pc = "idle" /\ ~faulty
    /\ zs' = [pc |-> "scan", i |-> 0, send |-> FALSE]
    /\ UNCHANGED <<devVars, zone, zrms, listVars>>

\* A zone marked TO_FULL: look at its state under zone->lock.
ZsScanToFull ==
    LET d == zone[zs.i]
        send == zs.send \/ d.state = "FULL"
    IN /\ zs.pc = "scan" /\ "TO_FULL" \in d.flags /\ ~d.in_put
       /\ zone' = IF d.state = "FULL" THEN [zone EXCEPT ![zs.i].state = "CLOSED"] ELSE zone
       /\ zs' = IF send THEN [zs EXCEPT !.pc = "close", !.send = TRUE] ELSE NextZone
       /\ UNCHANGED <<devVars, zrms, listVars>>

\* Any other zone is looked at further only when nobody references it.
ZsScanRefcount ==
    /\ zs.pc = "scan" /\ "TO_FULL" \notin zone[zs.i].flags
    /\ zs' = IF zone[zs.i].refcount = 0 THEN [zs EXCEPT !.pc = "gc"] ELSE NextZone
    /\ UNCHANGED <<devVars, zone, zrms, listVars>>

ZsClose ==
    /\ zs.pc = "close"
    /\ zone' = [zone EXCEPT ![zs.i].flags = {"FULL"}]
    /\ full_zone_list' = full_zone_list \cup {zs.i}
    /\ zs' = NextZone
    /\ UNCHANGED <<devVars, zrms, empty_zone_list, active_zone, nr_allocable_blks>>

\* The GC flag, then the state under zone->lock; lbz_complete_one_zone when
\* there is nothing to reset.
ZsGcZone ==
    LET d == zone[zs.i]
        send == zs.send \/ d.state = "EMPTY"
    IN /\ zs.pc = "gc" /\ ~d.in_put
       /\ \/ /\ "GC" \notin d.flags
             /\ zs' = NextZone
             /\ UNCHANGED gc_state
          \/ /\ "GC" \in d.flags /\ send
             /\ zs' = [zs EXCEPT !.pc = "reset", !.send = TRUE]
             /\ UNCHANGED gc_state
          \/ /\ "GC" \in d.flags /\ ~send
             /\ zs' = NextZone
             /\ gc_state' = gc_state \ {"RECLAIMING"}
       /\ UNCHANGED <<media, errors, faulty, oops, zone, zrms, listVars>>

\* lbz_reset_zone, the panic on valid blocks, and the descriptor made new.
ZsReset ==
    /\ zs.pc = "reset"
    /\ ZoneReset(zs.i)
    /\ IF zone[zs.i].weight # 0
       THEN oops' = "reset_valid" /\ UNCHANGED <<zone, zrms, zs>>
       ELSE /\ zone' = [zone EXCEPT ![zs.i] = [@ EXCEPT !.wp_block = 0, !.state = "EMPTY",
                                                        !.flags = {"INIT"}]]
            /\ zrms' = [p \in Pbid |-> IF p[1] = zs.i THEN INVALID ELSE zrms[p]]
            /\ zs' = [zs EXCEPT !.pc = "release"]
            /\ UNCHANGED oops
    /\ UNCHANGED <<errors, faulty, gc_state, listVars>>

ZsResetFails ==
    /\ zs.pc = "reset" /\ CommandFails
    /\ lbz_dev_set_faulty
    /\ zs' = ZsIdle
    /\ UNCHANGED <<media, gc_state, oops, zone, zrms, listVars>>

\* Mutant: the released zone's blocks are not given back to the allocator.
ZsRelease_NoCredit ==
    /\ zs.pc = "release"
    /\ empty_zone_list' = Append(empty_zone_list, zs.i)
    /\ gc_state' = gc_state \ {"RECLAIMING"}
    /\ zs' = NextZone
    /\ UNCHANGED <<media, errors, faulty, oops, zone, zrms, full_zone_list, active_zone,
                   nr_allocable_blks>>

\* Under zmd_lock the zone becomes allocable; then lbz_complete_one_zone.
ZsRelease ==
    /\ zs.pc = "release"
    /\ empty_zone_list' = Append(empty_zone_list, zs.i)
    /\ nr_allocable_blks' = nr_allocable_blks + ZoneNrBlocks
    /\ gc_state' = gc_state \ {"RECLAIMING"}
    /\ zs' = NextZone
    /\ UNCHANGED <<media, errors, faulty, oops, zone, zrms, full_zone_list, active_zone>>

ZoneStateWork ==
    ZsStart \/ ZsScanToFull \/ ZsScanRefcount \/ ZsClose
        \/ ZsGcZone \/ ZsReset \/ ZsResetFails \/ ZsRelease

\* lbz_find_victim_zone: the zones a scan of full_zone_list may end with.
MinWeight == {z \in full_zone_list : \A y \in full_zone_list : zone[z].weight <= zone[y].weight}

lbz_find_victim_zone(mod) ==
    {z \in MinWeight : /\ zone[z].weight < ZoneNrBlocks
                       /\ mod = "REGULAR" => lbz_check_zone_low_wm(z)}
=============================================================================
