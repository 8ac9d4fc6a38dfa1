------------------------------- MODULE LbzInv -------------------------------
(***************************************************************************)
(* The inductive invariants behind the theorems: IInv for LbzProofs,       *)
(* ZoneInv for LbzCountProofs, BlockInv for LbzMapProofs; GcInv, MediaInv  *)
(* and ReserveInv for LbzGcProofs.                                         *)
(***************************************************************************)
EXTENDS Lbz

\* What a user write knows at each step: its block, the result of its append,
\* and where the retry worker will resume it.
WtFacts ==
    \A t \in UTasks :
        /\ wt[t].pc # "none" => wt[t].blkid \in Blks
        /\ wt[t].pc = "endio" /\ ~wt[t].error => wt[t].pbid \in Pbid
        /\ wt[t].pc = "conflict" => wt[t].status = "INIT"
        /\ wt[t].pc \in {"alloc", "alloc2"} => wt[t].status = "ALLOC_RES"

\* The same for a GC copy.
GtFacts ==
    \A p \in Pbid :
        /\ gt[p].pc \notin {"none", "fault"} => gt[p].blkid \in Blks
        /\ gt[p].pc = "endio" /\ ~gt[p].error => gt[p].pbid \in Pbid
        /\ gt[p].pc \in {"cb_rmap", "cb_map"} => gt[p].pbid \in Pbid

\* The retry worker holds a spliced list only while it works on it.
SplicedLists ==
    /\ wk.pc # "user" => wk.users = <<>>
    /\ wk.pc # "gc" => wk.gcs = <<>>

\* A GC task handed over waits for one user task.
PendingAgency ==
    \A t \in UTasks : wt[t].pending_gc_node # NULL =>
        /\ gt[wt[t].pending_gc_node].pc = "agency"
        /\ \A u \in UTasks : wt[u].pending_gc_node = wt[t].pending_gc_node => u = t

TaskInv ==
    /\ WtFacts
    /\ GtFacts
    /\ QueuedOnce
    /\ SplicedLists
    /\ PendingAgency
    /\ TaskTreeExact
    /\ GcSourceMapped

IInv == TypeOK /\ TaskInv /\ NoGcCallbackBug

-----------------------------------------------------------------------------
(* What counts the zones, their references and the I/O in flight.          *)

\* The zone a user write has been given, and the block the device chose in it.
WtZones ==
    \A t \in UTasks :
        /\ wt[t].pc \in {"none", "conflict", "queued", "alloc", "alloc2"} => wt[t].zone = NULL
        /\ wt[t].pc \in {"append", "endio", "oldrmap", "oldweight", "newrmap", "del", "complete", "put"}
              => wt[t].zone \in Zone
        /\ (wt[t].pc = "endio" /\ ~wt[t].error) \/ wt[t].pc \in {"oldrmap", "oldweight", "newrmap"}
              => wt[t].pbid \in Pbid /\ wt[t].pbid[1] = wt[t].zone
        /\ wt[t].pc \in {"oldrmap", "oldweight"} => wt[t].old \in Pbid

\* The same for a GC copy.
GtZones ==
    \A p \in Pbid :
        /\ gt[p].pc \in {"none", "reading", "queued", "conflict", "agency", "lookup", "alloc", "alloc2",
                         "fault"} => gt[p].zone = NULL
        /\ gt[p].pc \in {"append", "endio", "cb_rmap", "cb_map", "cb_old", "cb_put"} => gt[p].zone \in Zone
        /\ (gt[p].pc = "endio" /\ ~gt[p].error) \/ gt[p].pc \in {"cb_rmap", "cb_map", "cb_old"}
              => gt[p].pbid \in Pbid /\ gt[p].pbid[1] = gt[p].zone

\* A read and the GC thread know the zone they use.
ReadFacts == \A r \in Readers : rd[r].pc = "reading" => rd[r].pbid \in Pbid
GcFacts   == gc.pc = "iter" => gc.gc_zone \in Zone

\* A write that failed, and a faulty device, have seen a command fail.
ErrorsSeen ==
    errors = 0 => /\ ~faulty
                  /\ \A t \in UTasks : ~wt[t].error
                  /\ \A p \in Pbid : ~gt[p].error /\ gt[p].pc # "fault"

\* Zones ready to be opened, being written, or waiting for GC.
EmptyZone(z)  == \E k \in 1 .. Len(empty_zone_list) : empty_zone_list[k] = z
ActiveZone(z) == \E s \in Streams : active_zone[s] = z
FullZone(z)   == z \in full_zone_list
Listed(z)     == EmptyZone(z) \/ ActiveZone(z) \/ FullZone(z)

\* A zone is in at most one place.
OnePlace ==
    /\ Distinct(empty_zone_list)
    /\ \A s1, s2 \in Streams : active_zone[s1] = active_zone[s2] /\ active_zone[s1] # NULL => s1 = s2
    /\ \A z \in Zone : /\ ~(EmptyZone(z) /\ ActiveZone(z))
                       /\ ~(EmptyZone(z) /\ FullZone(z))
                       /\ ~(ActiveZone(z) /\ FullZone(z))

\* Where a zone is, what its flags say and how far it is written go together.
Unmarked(z) == "TO_FULL" \notin zone[z].flags /\ "GC" \notin zone[z].flags
ZoneMarks ==
    \A z \in Zone :
        /\ Listed(z) => Unmarked(z)
        /\ ~("GC" \in zone[z].flags /\ "TO_FULL" \in zone[z].flags)
        /\ zone[z].wp_block \in 0 .. ZoneNrBlocks
        /\ EmptyZone(z) => zone[z].wp_block = 0
        /\ ActiveZone(z) => zone[z].wp_block < ZoneNrBlocks

\* The zone zone_state_wk_fn is about to close, reset or release.
WorkerZone ==
    /\ zs.pc = "close" => "TO_FULL" \in zone[zs.i].flags
    /\ zs.pc = "reset" => "GC" \in zone[zs.i].flags
    /\ zs.pc = "release" => ~Listed(zs.i) /\ Unmarked(zs.i) /\ zone[zs.i].wp_block = 0

RoomExact ==
    nr_allocable_blks = ZoneNrBlocks * Len(empty_zone_list) + StreamRoom(0) + StreamRoom(1)

FactsInv == WtZones /\ GtZones /\ ReadFacts /\ GcFacts /\ ErrorsSeen
PlaceInv == OnePlace /\ ZoneMarks /\ WorkerZone /\ RoomExact
ZoneInv  == FactsInv /\ PlaceInv /\ InflightExact /\ RefcountExact

-----------------------------------------------------------------------------
(* What makes the weights and the reverse map right.                       *)

\* zone->weight is never less than the blocks that live in the zone: a failed
\* write leaves weight behind, nothing takes off too much.
WeightAtLeast == \A z \in Zone : zone[z].weight >= DiskWp[z] + LiveBlocks(z)

\* What a write in flight carries is data.
DataKnown ==
    /\ \A t \in UTasks : wt[t].pc # "none" => wt[t].data \in Values
    /\ \A p \in Pbid : gt[p].pc \notin {"none", "reading", "fault"} => gt[p].data \in Values

\* Where the live physical blocks are: in the map; written by a user write and
\* not yet in the map; replaced by one and still to be released; the same two
\* for a GC copy.
Held ==
    [map    |-> [x \in Blks |-> IF Mapped(x) THEN pbids[x] ELSE NULL],
     new    |-> [t \in UTasks |-> IF wt[t].pc = "endio" /\ ~wt[t].error THEN wt[t].pbid ELSE NULL],
     old    |-> [t \in UTasks |-> IF wt[t].pc \in {"oldrmap", "oldweight"} THEN wt[t].old ELSE NULL],
     copy   |-> [p \in Pbid |-> IF (gt[p].pc = "endio" /\ ~gt[p].error) \/ gt[p].pc \in {"cb_rmap", "cb_map"}
                                THEN gt[p].pbid ELSE NULL],
     source |-> [p \in Pbid |-> IF gt[p].pc = "cb_old" THEN p ELSE NULL]]
Holders ==
    [map |-> Blks, new |-> UTasks, old |-> UTasks, copy |-> Pbid, source |-> Pbid]
HeldIn == {"map", "new", "old", "copy", "source"}

\* A physical block is in one of these places only.
OneHolder ==
    \A j, k \in HeldIn : \A x \in Holders[j], y \in Holders[k] :
        Held[j][x] = Held[k][y] /\ Held[j][x] # NULL => j = k /\ x = y

\* While the kernel runs, a live block has been written.
HolderWritten ==
    oops = "none" =>
        \A k \in HeldIn : \A x \in Holders[k] : Held[k][x] # NULL => media[Held[k][x]] # NULL

\* Between lbz_mapping_add and the update of the reverse map the task knows
\* where its block lives; a GC copy has told the reverse map first.
TaskMapped ==
    /\ \A t \in UTasks : wt[t].pc \in {"oldrmap", "oldweight", "newrmap"} =>
          pbids[wt[t].blkid] = wt[t].pbid
    /\ \A p \in Pbid : gt[p].pc = "cb_map" => zrms[gt[p].pbid] = gt[p].blkid

\* Each entry of one map is in the other, unless a task is about to make it so.
ForwardReverse ==
    \A x \in Blks : Mapped(x) =>
        \/ zrms[pbids[x]] = x
        \/ \E t \in UTasks : wt[t].blkid = x /\ wt[t].pc \in {"oldrmap", "oldweight", "newrmap"}
ReverseForward ==
    \A p \in Pbid : zrms[p] # INVALID =>
        \/ pbids[zrms[p]] = p
        \/ \E t \in UTasks : wt[t].pc = "oldrmap" /\ wt[t].blkid = zrms[p] /\ wt[t].old = p
        \/ \E q \in Pbid : gt[q].pc = "cb_map" /\ gt[q].blkid = zrms[p] /\ gt[q].pbid = p
        \/ gt[p].pc = "cb_old" /\ gt[p].blkid = zrms[p]

WeightInv == WeightAtLeast /\ WeightExact
BlockInv  == DataKnown /\ OneHolder /\ HolderWritten /\ TaskMapped /\ ForwardReverse /\ ReverseForward

-----------------------------------------------------------------------------
(* What keeps GC away from a zone that is still written, while the zone    *)
(* worker acts on approved states only.                                    *)

Marked(z) == "GC" \in zone[z].flags

\* The state of a zone goes with its place; a zone that is full, under GC or ready
\* to be closed is written to its end and has no write in flight.
QuietZones ==
    \A z \in Zone :
        /\ FullZone(z) \/ Marked(z) \/ ("TO_FULL" \in zone[z].flags /\ zone[z].state # "OPEN")
              => zone[z].pending_write_io = 0
        /\ ActiveZone(z) => zone[z].state = "OPEN"
        /\ FullZone(z) \/ "TO_FULL" \in zone[z].flags => zone[z].state # "EMPTY"
        /\ FullZone(z) \/ Marked(z) \/ "TO_FULL" \in zone[z].flags => zone[z].wp_block = ZoneNrBlocks

\* Only a task that met another one knows it.
WaitFacts ==
    /\ \A t \in UTasks : wt[t].pc # "conflict" => wt[t].tk = NULL
    /\ \A p \in Pbid : gt[p].pc # "conflict" => gt[p].tk = NULL

-----------------------------------------------------------------------------
(* What makes a collected zone dead before it is reset.                    *)

\* No command has failed, lbz_put_zone is not overtaken by lbz_find_victim_zone
\* between its halves, and the zone worker acts on approved states.
Undisturbed == ~SplitPut /\ errors = 0 /\ ZoneMgmtApproved

\* A zone ready for reset has no reference, and no put is half done.
Settled(d) == d.in_put = FALSE /\ ("GC" \in d.flags /\ d.state = "EMPTY" => d.refcount <= 0)
ZonesSettled == \A z \in Zone : Settled(zone[z])

\* One zone is under GC, the one the GC thread chose last.
GcZoneOnly ==
    /\ \A z \in Zone : Marked(z) => gc.gc_zone = z
    /\ gc.pc = "iter" => Marked(gc.gc_zone)
    /\ gc.pc = "victim" => PreviousZoneDone

\* Copies go from the zone under GC to another one, and leave their slot blank.
CopiesMarked ==
    \A p \in Pbid : /\ gt[p].pc \notin {"none", "fault"} => Marked(p[1])
                    /\ gt[p].zone # NULL => ~Marked(gt[p].zone)
                    /\ gt[p].pc = "none" => gt[p].blkid = NULL

\* Until it leaves the tree, a finished write is where the map says.
DelMapped ==
    \A t \in UTasks : wt[t].pc = "del" /\ ~wt[t].error =>
        wt[t].pbid \in Pbid /\ wt[t].pbid[1] = wt[t].zone /\ pbids[wt[t].blkid] = wt[t].pbid

\* User task u owns block x and has not replaced its mapping yet.
NotYet(u, x) ==
    /\ u \in UTasks /\ wt[u].blkid = x
    /\ \/ wt[u].pc \in {"alloc", "alloc2", "append", "endio"}
       \/ wt[u].pc = "queued" /\ wt[u].status = "ALLOC_RES"

\* Block x, which lives at p, will be moved away from p: by the copy of p, or by
\* the write that copy met.
MovesAway(p, x) ==
    /\ gt[p].blkid = x
    /\ \/ gt[p].pc \in {"reading", "queued", "lookup"} \/ GtCopying(p)
       \/ gt[p].pc = "conflict" /\ NotYet(gt[p].tk, x)
       \/ gt[p].pc = "agency" /\ \E u \in UTasks : wt[u].pending_gc_node = p /\ NotYet(u, x)

\* A block that lives in the zone under GC is still to be visited, or moves away.
GcMapped ==
    \A x \in Blks : Mapped(x) /\ Marked(pbids[x][1]) =>
        (gc.pc = "iter" /\ gc.iter <= pbids[x][2]) \/ MovesAway(pbids[x], x)

\* The blocks GC finds, or has found, under physical block p; no block is found
\* twice in the zone under GC.
Claim(p) == {zrms[p], gt[p].blkid} \ {INVALID, NULL}
ClaimOnce ==
    \A p, q \in Pbid : p[1] = q[1] /\ Marked(p[1]) /\ p # q => Claim(p) \cap Claim(q) = {}

\* GC task p has met user task u, or has been handed to it.  Then it waits for the
\* same block and no other GC task is there; no task that was handed one is freed.
At(p, u) == gt[p].tk = u \/ wt[u].pending_gc_node = p
Attached ==
    /\ \A p \in Pbid, u \in UTasks : At(p, u) =>
          /\ gt[p].pc \in {"conflict", "agency"}
          /\ wt[u].pc # "none" => wt[u].blkid = gt[p].blkid
          /\ \A q \in Pbid : At(q, u) => p = q
    /\ \A u \in UTasks : wt[u].pending_gc_node # NULL => wt[u].refcount # 0
    /\ \A p \in Pbid : gt[p].pc = "agency" => \E u \in UTasks : wt[u].pending_gc_node = p

GcInv ==
    /\ ZonesSettled
    /\ GcZoneOnly
    /\ CopiesMarked
    /\ DelMapped
    /\ GcMapped
    /\ ClaimOnce
    /\ Attached
    /\ GcTasksDisjoint

-----------------------------------------------------------------------------
(* What makes copies and reads show the data of their block.               *)

\* While the kernel runs: a completed append holds the data of its task, a copy
\* carries what its source holds, and what a read will return has been written.
MediaInv ==
    oops = "none" =>
        /\ \A t \in UTasks : wt[t].pc = "endio" /\ ~wt[t].error => media[wt[t].pbid] = wt[t].data
        /\ \A p \in Pbid :
              /\ gt[p].pc \notin {"none", "reading", "fault"} /\ media[p] # NULL => gt[p].data = media[p]
              /\ (gt[p].pc = "endio" /\ ~gt[p].error) \/ gt[p].pc \in {"cb_rmap", "cb_map"} =>
                    media[gt[p].pbid] = gt[p].data
        /\ \A r \in Readers : rd[r].pc # "none" => media[rd[r].pbid] # NULL
-----------------------------------------------------------------------------
(* What the reserve is for.                                                *)

\* The blocks the allocator may hand out, once the zone being released is counted.
Allocable == nr_allocable_blks + (IF zs.pc = "release" THEN ZoneNrBlocks ELSE 0)

\* Nothing has been written since lbz_create_device.
Untouched == \A z \in Zone : zone[z].wp_block = DiskWp[z]

\* A copy that met a task met a user write, and lies behind the GC thread.
CopiesBehind ==
    \A p \in Pbid :
        /\ gt[p].pc = "conflict" => gt[p].tk \in UTasks
        /\ gt[p].pc \notin {"none", "fault"} /\ gc.pc = "iter" => p[2] < gc.iter

\* GC never needs a whole zone; while no zone is under GC, one block less than the
\* reserve is there for it, or there is no zone it could choose.
ReserveInv ==
    /\ CopiesBehind
    /\ GcReserve
    /\ Cardinality(GcDemand) < ZoneNrBlocks
    /\ (\A z \in Zone : ~Marked(z)) => Allocable >= ZoneNrBlocks - 1 \/ Untouched
=============================================================================
