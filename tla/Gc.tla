-------------------------------- MODULE Gc ----------------------------------
(***************************************************************************)
(* lbz-gc.c: the thread that picks a victim zone and starts one copy for   *)
(* every block its reverse map calls valid.                                *)
(***************************************************************************)
EXTENDS IoScheduler

CONSTANT GcTimer    \* may LBZ_GC_RECLAIM_MIN_INTERVAL have passed since the last GC?

ASSUME GcAssumption == GcTimer \in BOOLEAN

VARIABLE gc         \* lbz_gc_thread: step, mod, gc_ctx->gc_zone, the loop's iter

GcRec == [pc : {"idle", "victim", "iter"}, mod : {"DEFAULT", "REGULAR", "EMERGENCY"},
          gc_zone : Zone \cup {NULL}, iter : Nat]

GcTypeOK == gc \in GcRec

GcInit == gc = [pc |-> "idle", mod |-> "DEFAULT", gc_zone |-> NULL, iter |-> 0]

Emergency == lbz_check_need_reclaim_low \/ "EMERGENCY" \in gc_state
Regular   == GcTimer \/ "RECLAIMING" \in gc_state

Mod == IF Emergency THEN "EMERGENCY" ELSE IF Regular THEN "REGULAR" ELSE "DEFAULT"

\* One zone at a time: the previous victim must have lost its GC flag, which
\* it does when zone_state_wk_fn has reset it.
PreviousZoneDone == gc.gc_zone # NULL => "GC" \notin zone[gc.gc_zone].flags

\* Is there anything to do?  A thread that finds nothing sleeps and looks again.
GcCheck ==
    /\ gc.pc = "idle" /\ ~faulty
    /\ Mod # "DEFAULT"
    /\ PreviousZoneDone
    /\ gc' = [gc EXCEPT !.pc = "victim", !.mod = Mod]
    /\ UNCHANGED <<devVars, zmdVars, pbids, ioVars>>

\* lbz_find_victim_zone, in the mode decided before.
GcSelect ==
    /\ gc.pc = "victim"
    /\ \E z \in lbz_find_victim_zone(gc.mod) :
          /\ full_zone_list' = full_zone_list \ {z}
          /\ zone' = [zone EXCEPT ![z] = SetFlag(lbz_get_zone(@), "GC")]
          /\ gc' = [pc |-> "iter", mod |-> "DEFAULT", gc_zone |-> z, iter |-> 0]
    /\ UNCHANGED <<devVars, zrms, empty_zone_list, active_zone, nr_allocable_blks, zs,
                   pbids, ioVars>>

GcNoVictim ==
    /\ gc.pc = "victim" /\ lbz_find_victim_zone(gc.mod) = {}
    /\ gc' = [gc EXCEPT !.pc = "idle", !.mod = "DEFAULT"]
    /\ UNCHANGED <<devVars, zmdVars, pbids, ioVars>>

\* Mutant: a copy takes no reference on the zone it reads.
GcIter_NoGet ==
    LET p == <<gc.gc_zone, gc.iter>> IN
    /\ gc.pc = "iter" /\ gc.iter < zone[gc.gc_zone].wp_block
    /\ gc' = [gc EXCEPT !.iter = @ + 1]
    /\ \/ zrms[p] = INVALID /\ UNCHANGED <<gt, inflight>>
       \/ /\ zrms[p] # INVALID /\ gt[p].pc = "none"
          /\ gt' = [gt EXCEPT ![p] = [NoGcTask EXCEPT !.pc = "reading", !.blkid = zrms[p]]]
          /\ inflight' = [inflight EXCEPT !.gc = @ + 1]
    /\ UNCHANGED <<devVars, zmdVars, pbids, wt, tree, user_pending, gc_writes, wk, rd>>

\* __gc_one_zone, one entry of LBZ_REVERSE_MAP_FOR_EACH_ENTRY: a valid block is
\* read, with a reference on its zone.  That reference also keeps p's slot in
\* gt to one task at a time.
GcIter ==
    LET z == gc.gc_zone
        p == <<z, gc.iter>>
    IN /\ gc.pc = "iter" /\ gc.iter < zone[z].wp_block
       /\ gc' = [gc EXCEPT !.iter = @ + 1]
       /\ \/ /\ zrms[p] = INVALID
             /\ UNCHANGED <<zone, gt, inflight>>
          \/ /\ zrms[p] # INVALID /\ gt[p].pc = "none"
             /\ zone' = [zone EXCEPT ![z] = lbz_get_zone(@)]
             /\ gt' = [gt EXCEPT ![p] = [NoGcTask EXCEPT !.pc = "reading", !.blkid = zrms[p]]]
             /\ inflight' = [inflight EXCEPT !.gc = @ + 1]
       /\ UNCHANGED <<devVars, zrms, listVars, zs, pbids, wt, tree, user_pending, gc_writes,
                      wk, rd>>

\* The end of __gc_one_zone, and the emergency is over.
GcFinish ==
    LET z == gc.gc_zone IN
    /\ gc.pc = "iter" /\ gc.iter >= zone[z].wp_block
    /\ zone' = [zone EXCEPT ![z] = lbz_put_zone(SetFlag(@, "GC_COMPLETED"))]
    /\ gc_state' = gc_state \ {"EMERGENCY"}
    /\ gc' = [gc EXCEPT !.pc = "idle", !.iter = 0]
    /\ UNCHANGED <<media, errors, faulty, oops, zrms, listVars, zs, pbids, ioVars>>

GcThread == GcCheck \/ GcSelect \/ GcNoVictim \/ GcIter \/ GcFinish
=============================================================================
