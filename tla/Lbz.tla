-------------------------------- MODULE Lbz ---------------------------------
(***************************************************************************)
(* The running device: user reads and writes, the retry worker, the zone   *)
(* state worker and the GC thread over one zoned block device, from        *)
(* lbz_create_device to the first BUG() or panic(), if one is reached.     *)
(***************************************************************************)
EXTENDS Gc

vars == <<devVars, zmdVars, pbids, ioVars, gc>>

Init ==
    /\ media = [p \in Pbid |-> IF p[2] < DiskWp[p[1]] THEN CHOOSE v \in Values : TRUE ELSE NULL]
    /\ errors = 0 /\ faulty = FALSE /\ gc_state = {} /\ oops = "none"
    /\ ZmdInit /\ MappingInit /\ IoInit /\ GcInit

\* A crashed kernel does nothing more; a faulty device may have nothing left to do.
Halted == (oops # "none" \/ faulty) /\ UNCHANGED vars

Running ==
    \/ ZoneStateWork /\ UNCHANGED <<pbids, ioVars, gc>>
    \/ \E z \in Zone : PutZoneEnd(z) /\ UNCHANGED <<pbids, ioVars, gc>>
    \/ \E t \in UTasks : (SubmitWrite(t) \/ WriteStep(t)) /\ UNCHANGED gc
    \/ \E r \in Readers : (SubmitRead(r) \/ lbz_read_io_endio(r)) /\ UNCHANGED gc
    \/ \E p \in Pbid : GcCopy(p) /\ UNCHANGED gc
    \/ RetryWork /\ UNCHANGED gc
    \/ GcThread

Next == (oops = "none" /\ Running) \/ Halted

Spec == Init /\ [][Next]_vars

\* zone_state_wk_fn acts only on a zone whose state its own lock section has
\* approved.  The code does not ensure it: send_zone_mgmgt, once set for one
\* zone, stays set for the rest of the pass (FullZoneQuiet fails then).  MCLbz
\* has runs over all behaviours of the code and runs over these.
ZoneMgmtApproved ==
    /\ zs.pc = "close" => zone[zs.i].state # "OPEN"
    /\ zs.pc = "reset" => zone[zs.i].state = "EMPTY"

\* The kernel runs every work item, thread and interrupt handler that is ready
\* (both workers are queued again by periodic timers), and the device
\* completes every command.  Nobody has to submit I/O.  Of the zone worker only
\* approved steps are asked for: a liveness run that leaves out the others must
\* not leave out a behaviour because its worker waits for approval.
Fairness ==
    /\ WF_vars(oops = "none" /\ ZoneStateWork /\ ZoneMgmtApproved' /\ UNCHANGED <<pbids, ioVars, gc>>)
    /\ \A z \in Zone : WF_vars(oops = "none" /\ PutZoneEnd(z) /\ UNCHANGED <<pbids, ioVars, gc>>)
    /\ \A t \in UTasks : WF_vars(oops = "none" /\ WriteStep(t) /\ UNCHANGED gc)
    /\ \A r \in Readers : WF_vars(oops = "none" /\ lbz_read_io_endio(r) /\ UNCHANGED gc)
    /\ \A p \in Pbid : WF_vars(oops = "none" /\ GcCopy(p) /\ UNCHANGED gc)
    /\ WF_vars(oops = "none" /\ RetryWork /\ UNCHANGED gc)
    /\ WF_vars(oops = "none" /\ GcThread)

TypeOK == DevTypeOK /\ ZmdTypeOK /\ MappingTypeOK /\ IoTypeOK /\ GcTypeOK

-----------------------------------------------------------------------------
(* Which steps of a task need what.                                        *)

\* From insert_task_to_tree to del_task_from_tree.
WtInTree(t) == \/ wt[t].pc \in {"alloc", "alloc2", "append", "endio", "oldrmap", "oldweight",
                                "newrmap", "del"}
               \/ wt[t].pc = "queued" /\ wt[t].status = "ALLOC_RES"
GtInTree(p) == gt[p].pc \in {"lookup", "alloc", "alloc2", "append", "endio", "cb_rmap",
                             "cb_map", "cb_old", "cb_put"}

\* A GC copy that has checked the mapping and not yet replaced it.
GtCopying(p) == gt[p].pc \in {"alloc", "alloc2", "append", "endio", "cb_rmap", "cb_map"}

\* Blocks allocated to a task and not yet in the forward map.
WtWriting(t) == wt[t].pc \in {"append", "endio"}
GtWriting(p) == gt[p].pc \in {"append", "endio", "cb_rmap", "cb_map"}

-----------------------------------------------------------------------------
(* Safety.                                                                 *)

\* The task tree holds exactly the tasks between insert_task_to_tree and
\* del_task_from_tree, so a logical block is owned by one task at a time.
TaskTreeExact ==
    /\ \A t \in UTasks : WtInTree(t) => tree[wt[t].blkid] = t
    /\ \A p \in Pbid : GtInTree(p) => tree[gt[p].blkid] = p
    /\ \A x \in Blks : /\ tree[x] \in UTasks => WtInTree(tree[x]) /\ wt[tree[x]].blkid = x
                       /\ tree[x] \in Pbid => GtInTree(tree[x]) /\ gt[tree[x]].blkid = x

\* From the lookup of __submit_gc_task to lbz_mapping_add in __gc_task_callback
\* the block a GC task copies stays mapped to its source: the copy never
\* replaces newer data, and the BUG_ON in the callback cannot fire.
GcSourceMapped == \A p \in Pbid : GtCopying(p) => pbids[gt[p].blkid] = p

\* Whose zone is z, when f gives the zone of each of its arguments.
Count(f, z) == Cardinality({x \in DOMAIN f : f[x] = z})

\* The zone each task, read and the GC thread holds a reference on.
WriteRef  == [t \in UTasks |-> wt[t].zone]
CopyRef   == [p \in Pbid |-> gt[p].zone]
SourceRef == [p \in Pbid |-> IF gt[p].pc \in {"none", "fault"} THEN NULL ELSE p[1]]
ReadRef   == [r \in Readers |-> IF rd[r].pc = "none" THEN NULL ELSE rd[r].pbid[1]]
GcRef     == IF gc.pc = "iter" THEN gc.gc_zone ELSE NULL

\* zone->refcount counts exactly the stream, tasks, reads and GC thread that
\* use the zone.
RefcountExact ==
    \A z \in Zone : zone[z].refcount =
        Count(active_zone, z) + Count(WriteRef, z) + Count(CopyRef, z) + Count(SourceRef, z)
            + Count(ReadRef, z) + (IF GcRef = z THEN 1 ELSE 0)

\* The zone of each write and copy between the allocation of its block and
\* lbz_zone_complete_write.
WritePending ==
    [t \in UTasks |-> IF WtWriting(t) \/ wt[t].pc \in {"oldrmap", "oldweight", "newrmap", "del", "complete"}
                      THEN wt[t].zone ELSE NULL]
CopyPending == [p \in Pbid |-> IF gt[p].pc \in {"append", "endio"} THEN gt[p].zone ELSE NULL]

\* zone->pending_write_io counts exactly those, errors or not.
PendingExact ==
    \A z \in Zone : zone[z].pending_write_io = Count(WritePending, z) + Count(CopyPending, z)

\* The zone of each mapped block, of each block allocated to a write that is not
\* mapped yet, and of each old copy still to be released.
MapWeight    == [x \in Blks |-> IF Mapped(x) THEN pbids[x][1] ELSE NULL]
WriteWeight  == [t \in UTasks |-> IF WtWriting(t) THEN wt[t].zone ELSE NULL]
OldWeight    == [t \in UTasks |-> IF wt[t].pc \in {"oldrmap", "oldweight"} THEN wt[t].old[1] ELSE NULL]
CopyWeight   == [p \in Pbid |-> IF GtWriting(p) THEN gt[p].zone ELSE NULL]
SourceWeight == [p \in Pbid |-> IF gt[p].pc = "cb_old" THEN p[1] ELSE NULL]

LiveBlocks(z) ==
    Count(MapWeight, z) + Count(WriteWeight, z) + Count(OldWeight, z)
        + Count(CopyWeight, z) + Count(SourceWeight, z)

\* Until a command fails, zone->weight counts the live blocks of the zone and
\* those written before lbz_create_device, which nothing ever releases.
WeightExact == errors = 0 => \A z \in Zone : zone[z].weight = DiskWp[z] + LiveBlocks(z)

\* The blocks stream s can still write in its zone.
StreamRoom(s) ==
    IF active_zone[s] = NULL THEN 0 ELSE ZoneNrBlocks - zone[active_zone[s]].wp_block

\* nr_allocable_blks is the room in the empty and the active zones, no zone
\* is in two places at once, and an active zone always has room.
AllocableExact ==
    LET act == {active_zone[s] : s \in Streams} \ {NULL}
        emp == {empty_zone_list[k] : k \in DOMAIN empty_zone_list}
    IN /\ nr_allocable_blks = ZoneNrBlocks * Len(empty_zone_list) + StreamRoom(0) + StreamRoom(1)
       /\ Cardinality(emp) = Len(empty_zone_list)
       /\ emp \cap act = {} /\ emp \cap full_zone_list = {} /\ act \cap full_zone_list = {}
       /\ \A s1, s2 \in Streams : s1 # s2 /\ active_zone[s1] # NULL => active_zone[s1] # active_zone[s2]
       /\ \A z \in act : zone[z].wp_block < ZoneNrBlocks

\* The reverse map GC relies on: a mapped block that no task is moving is
\* found under its physical block, and a valid entry names a block that is
\* mapped there unless a task owns that block.
ReverseMapAgrees ==
    \A x \in Blks : tree[x] = NULL =>
        /\ Mapped(x) => zrms[pbids[x]] = x
        /\ \A p \in Pbid : zrms[p] = x => pbids[x] = p

\* A zone GC may choose has no write in flight (the order of the last
\* statements of lbz_write_io_endio is there for this).
FullZoneQuiet ==
    \A z \in full_zone_list : zone[z].pending_write_io = 0 /\ \A t \in UTasks :
        wt[t].zone = z => ~WtInTree(t)

\* A zone is reset only when nothing refers to it and no block lives in it.
ResetOnlyDead ==
    zs.pc = "reset" => /\ zone[zs.i].refcount = 0
                       /\ \A x \in Blks : Mapped(x) => pbids[x][1] # zs.i

\* Source blocks of the zone under GC that may still need a block from the reserve.
Unserved(t) == wt[t].pc # "none" /\ wt[t].zone = NULL
GcDemand ==
    {p \in Pbid :
        \/ gc.pc = "iter" /\ p[1] = gc.gc_zone /\ p[2] >= gc.iter /\ zrms[p] # INVALID
        \/ gt[p].pc \in {"reading", "queued", "lookup", "alloc", "alloc2"}
        \/ gt[p].pc = "conflict" /\ Unserved(gt[p].tk)
        \/ gt[p].pc = "agency" /\ \E t \in UTasks : wt[t].pending_gc_node = p /\ Unserved(t)}

\* The blocks reserved for GC cover what GC still has to copy, once the zone
\* being released is counted.
GcReserve ==
    nr_allocable_blks + (IF zs.pc = "release" THEN ZoneNrBlocks ELSE 0) >= Cardinality(GcDemand)

OnList(s, x) == \E k \in 1 .. Len(s) : s[k] = x
Distinct(s)  == \A j, k \in 1 .. Len(s) : s[j] = s[k] => j = k

\* No task is lost or queued twice: a task that waits to be submitted again is
\* on one list, its own or the one the retry worker spliced off, and once.
QueuedOnce ==
    /\ \A t \in UTasks : /\ wt[t].pc = "queued" <=> OnList(user_pending, t) \/ OnList(wk.users, t)
                         /\ ~(OnList(user_pending, t) /\ OnList(wk.users, t))
    /\ \A p \in Pbid : /\ gt[p].pc = "queued" <=> OnList(gc_writes, p) \/ OnList(wk.gcs, p)
                       /\ ~(OnList(gc_writes, p) /\ OnList(wk.gcs, p))
    /\ Distinct(user_pending) /\ Distinct(wk.users) /\ Distinct(gc_writes) /\ Distinct(wk.gcs)

\* The references of a user task: its own, the tree's, and those of the tasks that
\* met it in the tree and have not yet let go.
OwnRefs(t) == IF WtInTree(t) THEN 2 ELSE IF wt[t].pc \in {"conflict", "queued"} THEN 1 ELSE 0
UserWaits  == [t \in UTasks |-> wt[t].tk]
CopyWaits  == [p \in Pbid |-> gt[p].tk]

\* task->refcount counts exactly these: no task is freed, and its slot used again,
\* while the tree or another task still knows it.
TaskRefExact ==
    \A t \in UTasks : wt[t].refcount = OwnRefs(t) + Count(UserWaits, t) + Count(CopyWaits, t)

\* A GC task handed to a user write is finished by exactly that write.
AgencyOwned ==
    \A p \in Pbid : Cardinality({t \in UTasks : wt[t].pending_gc_node = p})
                        = IF gt[p].pc = "agency" THEN 1 ELSE 0

\* The counters lbz_remove_device waits for count the I/O in flight.
InflightExact ==
    /\ inflight.write = Cardinality({t \in UTasks : wt[t].pc # "none"})
    /\ inflight.read = Cardinality({r \in Readers : rd[r].pc # "none"})
    /\ inflight.gc = Cardinality({p \in Pbid : gt[p].pc # "none"})


-----------------------------------------------------------------------------
(* Refinement: the device as its user sees it.                             *)

BdContent == [x \in Blks |-> IF oops # "none" \/ ~Mapped(x) THEN NULL ELSE media[pbids[x]]]

BdIdle == [st |-> "idle", blkid |-> NULL, data |-> NULL]

\* A write is pending until lbz_mapping_add, applied until __unhook_io.
BdWrite == [t \in UTasks |->
    IF oops # "none" \/ wt[t].pc \in {"none", "del", "complete", "put"} THEN BdIdle
    ELSE [st |-> IF wt[t].pc \in {"oldrmap", "oldweight", "newrmap"} THEN "applied" ELSE "pending",
          blkid |-> wt[t].blkid, data |-> wt[t].data]]

\* A read in flight will get what its physical block holds.
BdRead == [r \in Readers |->
    IF oops # "none" \/ rd[r].pc = "none" THEN BdIdle
    ELSE [st |-> "waiting", blkid |-> rd[r].blkid, data |-> media[rd[r].pbid]]]

BD == INSTANCE BlockDevice WITH
          Writers <- UTasks, content <- BdContent, write <- BdWrite, read <- BdRead,
          crashed <- (oops # "none")

\* lbz is a block device: writes take effect once, reads see the value the
\* block had when the read was submitted, GC and resets are invisible.
ImplementsBlockDevice == BD!Spec

\* Every write is completed, also when it first has to wait for another task
\* on its block or for GC to free space.
WritesComplete == \A t \in UTasks : wt[t].pc # "none" ~> (wt[t].pc = "none" \/ oops # "none")

-----------------------------------------------------------------------------
(* The ways the kernel can stop.                                           *)

\* The BUG_ON of __gc_task_callback never fires: the mapping a copy replaces
\* is the one of its source block, or none.
NoGcCallbackBug == oops # "gc_oldpbid"

\* Two GC tasks never meet on one logical block: __submit_gc_task would take the
\* other one for a user task and write over its iosched pointer.
GcTasksDisjoint == oops # "gc_conflict"

\* "GC and write callback will not exec at the same time": a zone is never
\* reset between the two halves of a block's release, so the panic of
\* zone_state_wk_fn on a weight that is not zero cannot happen.
NoResetPanic == oops # "reset_valid"

\* The reserve keeps GC supplied: BUG_ON(ret == -EAGAIN) of __submit_gc_task.
GcNeverDenied == oops # "gc_eagain"

\* An I/O error makes the device faulty; it does not run into BUG().
NoBugOnIoError == oops # "gc_eio"
=============================================================================
