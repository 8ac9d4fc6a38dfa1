---------------------------- MODULE IoScheduler -----------------------------
(***************************************************************************)
(* lbz-io-scheduler.c: user reads and writes, GC copies, the task tree     *)
(* that keeps two tasks off one logical block, and retry_wk_fn.            *)
(*                                                                         *)
(* A task's pc names the next thing it does: "insert" to "alloc2" are      *)
(* __submit_write_task / __submit_gc_task, "append" waits for the device,  *)
(* and the later ones are lbz_write_io_endio / lbz_gc_write_endio.         *)
(***************************************************************************)
EXTENDS Mapping

CONSTANTS
    UTasks,     \* slots for user write tasks: the writes in flight at once
    Readers,    \* slots for user reads in flight
    StreamId    \* lbz_nat_sit_get_stream_id of each logical block

ASSUME IoAssumption ==
    /\ StreamId \in [Blks -> Streams]
    /\ UTasks \cap Pbid = {} /\ NULL \notin UTasks
    /\ IsFiniteSet(Blks) /\ IsFiniteSet(UTasks) /\ IsFiniteSet(Readers)

VARIABLES
    wt,             \* user write tasks
    gt,             \* GC tasks, each named by the physical block it copies
    tree,           \* task_tree: the task that owns each logical block
    user_pending,   \* lbz_user_pending
    gc_writes,      \* lbz_gc_writes
    wk,             \* retry_wk_fn: step, list spliced off, task in hand
    rd,             \* user reads
    inflight        \* user_write / user_read / gc _inflight_io_cnt

ioVars == <<wt, gt, tree, user_pending, gc_writes, wk, rd, inflight>>

WtPc == {"none", "conflict", "queued", "alloc", "alloc2", "append", "endio",
         "oldrmap", "oldweight", "newrmap", "del", "complete", "put"}
GtPc == {"none", "reading", "queued", "conflict", "agency", "lookup", "alloc", "alloc2",
         "append", "endio", "cb_rmap", "cb_map", "cb_old", "cb_put", "fault"}

NoTask == [pc |-> "none", status |-> "INIT", blkid |-> NULL, data |-> NULL, zone |-> NULL,
           pbid |-> NULL, old |-> INVALID, error |-> FALSE, refcount |-> 0,
           pending_gc_node |-> NULL, tk |-> NULL]
NoGcTask == [pc |-> "none", blkid |-> NULL, data |-> NULL, zone |-> NULL,
             pbid |-> NULL, error |-> FALSE, tk |-> NULL]
NoRead == [pc |-> "none", blkid |-> NULL, pbid |-> NULL]

Owner == UTasks \cup Pbid \cup {NULL}

WtRec == [pc : WtPc, status : {"INIT", "ALLOC_RES"}, blkid : Blks \cup {NULL},
          data : Values \cup {NULL}, zone : Zone \cup {NULL}, pbid : Pbid \cup {NULL},
          old : Pbid \cup {INVALID}, error : BOOLEAN, refcount : Int,
          pending_gc_node : Pbid \cup {NULL}, tk : Owner]
GtRec == [pc : GtPc, blkid : Blks \cup {NULL}, data : Values \cup {NULL},
          zone : Zone \cup {NULL}, pbid : Pbid \cup {NULL}, error : BOOLEAN, tk : Owner]

WkRec == [pc : {"idle", "user", "gc"}, users : Seq(UTasks), gcs : Seq(Pbid), cur : Owner]
RdRec == [pc : {"none", "reading"}, blkid : Blks \cup {NULL}, pbid : Pbid \cup {NULL}]
InflightRec == [write : Int, read : Int, gc : Int]

IoTypeOK ==
    /\ wt \in [UTasks -> WtRec]
    /\ gt \in [Pbid -> GtRec]
    /\ tree \in [Blks -> Owner]
    /\ user_pending \in Seq(UTasks)
    /\ gc_writes \in Seq(Pbid)
    /\ wk \in WkRec
    /\ rd \in [Readers -> RdRec]
    /\ inflight \in InflightRec

IoInit ==
    /\ wt = [t \in UTasks |-> NoTask]
    /\ gt = [p \in Pbid |-> NoGcTask]
    /\ tree = [b \in Blks |-> NULL]
    /\ user_pending = <<>> /\ gc_writes = <<>>
    /\ wk = [pc |-> "idle", users |-> <<>>, gcs |-> <<>>, cur |-> NULL]
    /\ rd = [r \in Readers |-> NoRead]
    /\ inflight = [write |-> 0, read |-> 0, gc |-> 0]

-----------------------------------------------------------------------------
(* Task references and the task tree.                                      *)

\* n task_puts on user task u free it.
LastPut(u, n) == wt[u].refcount = n

\* The GC task whose __gc_task_callback the last put of u runs, if any.
Pending(u, n) ==
    IF LastPut(u, n) /\ wt[u].pending_gc_node # NULL THEN {wt[u].pending_gc_node} ELSE {}

\* __gc_task_callback with error -ENOENT for the tasks ps, over descriptors zn:
\* put the source zone, free the task.
CallbackZone(zn, ps) ==
    [z \in Zone |-> IF \E p \in ps : get_zone_by_pbid(p) = z THEN lbz_put_zone(zn[z]) ELSE zn[z]]
CallbackTask(g, ps) == [p \in Pbid |-> IF p \in ps THEN NoGcTask ELSE g[p]]

\* task_put, n times, on user task u, whose record becomes task.
task_put(u, n, task) ==
    IF LastPut(u, n) THEN [task EXCEPT !.refcount = 0, !.pending_gc_node = NULL]
                     ELSE [task EXCEPT !.refcount = @ - n]

\* Mutant: a block owned by a GC task counts as free.
InsertUser_OverGc(t, task) ==
    LET own == tree[task.blkid] IN
    \/ /\ own \notin UTasks
       /\ tree' = [tree EXCEPT ![task.blkid] = t]
       /\ wt' = [wt EXCEPT ![t] = [task EXCEPT !.pc = "alloc", !.status = "ALLOC_RES",
                                               !.refcount = @ + 1]]
    \/ /\ own \in UTasks
       /\ wt' = [wt EXCEPT ![t] = [task EXCEPT !.pc = "conflict", !.tk = own],
                           ![own].refcount = @ + 1]
       /\ UNCHANGED tree

\* Mutant: a task that meets the owner of its block takes no reference on it.
InsertUser_NoOwnerRef(t, task) ==
    LET own == tree[task.blkid] IN
    \/ /\ own = NULL
       /\ tree' = [tree EXCEPT ![task.blkid] = t]
       /\ wt' = [wt EXCEPT ![t] = [task EXCEPT !.pc = "alloc", !.status = "ALLOC_RES",
                                               !.refcount = @ + 1]]
    \/ /\ own # NULL
       /\ wt' = [wt EXCEPT ![t] = [task EXCEPT !.pc = "conflict", !.tk = own]]
       /\ UNCHANGED tree

\* insert_task_to_tree for user task t: on success it owns the block (its
\* reference count becomes 2), else it holds a reference on the owner.
InsertUser(t, task) ==
    LET b == task.blkid
        own == tree[b]
        fail == [task EXCEPT !.pc = "conflict", !.tk = own]
    IN \/ /\ own = NULL
          /\ tree' = [tree EXCEPT ![b] = t]
          /\ wt' = [wt EXCEPT ![t] = [task EXCEPT !.pc = "alloc", !.status = "ALLOC_RES",
                                                  !.refcount = @ + 1]]
       \/ /\ own \in UTasks
          /\ wt' = [[wt EXCEPT ![t] = fail] EXCEPT ![own].refcount = @ + 1]
          /\ UNCHANGED tree
       \/ /\ own \in Pbid
          /\ wt' = [wt EXCEPT ![t] = fail]
          /\ UNCHANGED tree

del_task_from_tree(b) == tree' = [tree EXCEPT ![b] = NULL]

\* Submission of task x is over; if the retry worker did it, it goes on.
Submitted(x) == wk' = IF wk.cur = x THEN [wk EXCEPT !.cur = NULL] ELSE wk

lowVars == <<devVars, zmdVars, pbids>>

-----------------------------------------------------------------------------
(* User writes: lbz_submit_io_to_iosched and __submit_write_task.          *)

lbz_submit_write(t, b, v) ==
    /\ ~faulty
    /\ wt[t].pc = "none" /\ wt[t].refcount = 0
    /\ InsertUser(t, [NoTask EXCEPT !.blkid = b, !.data = v, !.refcount = 1])
    /\ inflight' = [inflight EXCEPT !.write = @ + 1]
    /\ UNCHANGED <<lowVars, gt, user_pending, gc_writes, wk, rd>>

\* -EAGAIN from the tree: drop the owner, queue for the retry worker.  The
\* owner may have finished meanwhile, and then this is its last reference.
\* GC tasks are not counted: their last put only frees them.
WConflict(t) ==
    LET u == wt[t].tk
        ps == IF u \in UTasks THEN Pending(u, 1) ELSE {}
        w == IF u \in UTasks THEN [wt EXCEPT ![u] = task_put(u, 1, @)] ELSE wt
    IN /\ wt[t].pc = "conflict"
       /\ wt' = [w EXCEPT ![t].pc = "queued", ![t].tk = NULL]
       /\ zone' = CallbackZone(zone, ps)
       /\ gt' = CallbackTask(gt, ps)
       /\ inflight' = [inflight EXCEPT !.gc = @ - Cardinality(ps)]
       /\ user_pending' = Append(user_pending, t)
       /\ Submitted(t)
       /\ UNCHANGED <<devVars, zrms, listVars, zs, pbids, tree, gc_writes, rd>>

\* A task a GC copy waits for may use the blocks reserved for GC.
AllocFlag(t) == IF wt[t].pending_gc_node = NULL THEN "USER" ELSE "GC"

OtherStream(s) == 1 - s

\* A block was allocated: start GC below the high watermark, send the append.
WGotZone(t, s) ==
    /\ lbz_zone_alloc_res(AllocFlag(t), s)
    /\ gc_state' = IF BelowWatermark(nr_allocable_blks', ReclaimWmGcHigh)
                   THEN gc_state \cup {"RECLAIMING"} ELSE gc_state
    /\ wt' = [wt EXCEPT ![t].zone = TargetZone(s), ![t].pc = "append"]
    /\ Submitted(t)
    /\ UNCHANGED <<media, errors, faulty, oops, pbids, gt, tree, user_pending, gc_writes,
                   rd, inflight>>

WAlloc(t) ==
    LET s == StreamId[wt[t].blkid] IN
    /\ wt[t].pc = "alloc"
    /\ \/ WGotZone(t, s)
       \/ /\ ~AllocSucceeds(AllocFlag(t), s)
          /\ wt' = [wt EXCEPT ![t].pc = "alloc2"]
          /\ UNCHANGED <<lowVars, gt, tree, user_pending, gc_writes, wk, rd, inflight>>

\* Neither stream has a block: ask for GC, keep the tree entry, retry later.
WAllocEagain(t) ==
    /\ ~faulty
    /\ wt' = [wt EXCEPT ![t].pc = "queued"]
    /\ user_pending' = Append(user_pending, t)
    /\ UNCHANGED <<zone, gt, tree, inflight>>

\* Mutant: a failed write is not taken off the in-flight count.
WAllocEio_StillCounted(t) ==
    LET ps == Pending(t, 2) IN
    /\ faulty
    /\ del_task_from_tree(wt[t].blkid)
    /\ wt' = [wt EXCEPT ![t] = task_put(t, 2, [NoTask EXCEPT !.refcount = wt[t].refcount,
                                       !.pending_gc_node = wt[t].pending_gc_node])]
    /\ zone' = CallbackZone(zone, ps)
    /\ gt' = CallbackTask(gt, ps)
    /\ inflight' = [inflight EXCEPT !.gc = @ - Cardinality(ps)]
    /\ UNCHANGED user_pending

\* -EIO: leave the tree, fail the bio, drop both references.
WAllocEio(t) ==
    LET ps == Pending(t, 2) IN
    /\ faulty
    /\ del_task_from_tree(wt[t].blkid)
    /\ wt' = [wt EXCEPT ![t] = task_put(t, 2, [NoTask EXCEPT !.refcount = wt[t].refcount,
                                       !.pending_gc_node = wt[t].pending_gc_node])]
    /\ zone' = CallbackZone(zone, ps)
    /\ gt' = CallbackTask(gt, ps)
    /\ inflight' = [inflight EXCEPT !.write = @ - 1, !.gc = @ - Cardinality(ps)]
    /\ UNCHANGED user_pending

\* Mutant: a write that finds no block does not ask for GC.
WAlloc2_NoEmergency(t) ==
    LET s == OtherStream(StreamId[wt[t].blkid]) IN
    /\ wt[t].pc = "alloc2"
    /\ \/ WGotZone(t, s)
       \/ /\ ~AllocSucceeds(AllocFlag(t), s)
          /\ WAllocEagain(t) \/ WAllocEio(t)
          /\ Submitted(t)
          /\ UNCHANGED <<devVars, zrms, listVars, zs, pbids, gc_writes, rd>>

WAlloc2(t) ==
    LET s == OtherStream(StreamId[wt[t].blkid]) IN
    /\ wt[t].pc = "alloc2"
    /\ \/ WGotZone(t, s)
       \/ /\ ~AllocSucceeds(AllocFlag(t), s)
          /\ WAllocEagain(t) \/ WAllocEio(t)
          /\ gc_state' = gc_state \cup {"EMERGENCY"}
          /\ Submitted(t)
          /\ UNCHANGED <<media, errors, faulty, oops, zrms, listVars, zs, pbids, gc_writes, rd>>

-----------------------------------------------------------------------------
(* The device, then lbz_write_io_endio step by step.                       *)

WAppend(t) ==
    /\ wt[t].pc = "append"
    /\ \E p \in Pbid :
          /\ get_zone_by_pbid(p) = wt[t].zone
          /\ ZoneAppend(p, wt[t].data)
          /\ wt' = [wt EXCEPT ![t].pbid = p, ![t].pc = "endio"]
    /\ UNCHANGED <<errors, faulty, gc_state, oops, zmdVars, pbids, gt, tree, user_pending,
                   gc_writes, wk, rd, inflight>>

WAppendFails(t) ==
    /\ wt[t].pc = "append" /\ CommandFails
    /\ wt' = [wt EXCEPT ![t].error = TRUE, ![t].pc = "endio"]
    /\ UNCHANGED <<media, faulty, gc_state, oops, zmdVars, pbids, gt, tree, user_pending,
                   gc_writes, wk, rd, inflight>>

\* lbz_mapping_add makes the new data visible; an error makes the device faulty.
WEndio(t) ==
    LET b == wt[t].blkid
        old == pbids[b]
    IN /\ wt[t].pc = "endio"
       /\ \/ /\ ~wt[t].error
             /\ lbz_mapping_add(b, wt[t].pbid)
             /\ wt' = [wt EXCEPT ![t].old = old,
                                 ![t].pc = IF old = INVALID THEN "newrmap" ELSE "oldrmap"]
             /\ UNCHANGED faulty
          \/ /\ wt[t].error
             /\ lbz_dev_set_faulty
             /\ wt' = [wt EXCEPT ![t].pc = "del"]
             /\ UNCHANGED pbids
       /\ UNCHANGED <<media, errors, gc_state, oops, zmdVars, gt, tree, user_pending,
                      gc_writes, wk, rd, inflight>>

\* Mutant: the old block stays valid in the reverse map.
WOldRmap_Skipped(t) ==
    /\ wt[t].pc = "oldrmap"
    /\ wt' = [wt EXCEPT ![t].pc = "oldweight"]
    /\ UNCHANGED <<devVars, zmdVars, pbids, gt, tree, user_pending, gc_writes, wk, rd, inflight>>

WOldRmap(t) ==
    /\ wt[t].pc = "oldrmap"
    /\ lbz_zone_update_reverse_map(wt[t].old, INVALID)
    /\ wt' = [wt EXCEPT ![t].pc = "oldweight"]
    /\ UNCHANGED <<devVars, zone, listVars, zs, pbids, gt, tree, user_pending, gc_writes,
                   wk, rd, inflight>>

WOldWeight(t) ==
    /\ wt[t].pc = "oldweight"
    /\ zone' = [zone EXCEPT ![get_zone_by_pbid(wt[t].old)] = lbz_zone_release_global_res(@)]
    /\ wt' = [wt EXCEPT ![t].pc = "newrmap"]
    /\ UNCHANGED <<devVars, zrms, listVars, zs, pbids, gt, tree, user_pending, gc_writes,
                   wk, rd, inflight>>

\* The reverse map of the new block, then __unhook_io completes the user's bio.
WNewRmap(t) ==
    /\ wt[t].pc = "newrmap"
    /\ lbz_zone_update_reverse_map(wt[t].pbid, wt[t].blkid)
    /\ wt' = [wt EXCEPT ![t].pc = "del"]
    /\ UNCHANGED <<devVars, zone, listVars, zs, pbids, gt, tree, user_pending, gc_writes,
                   wk, rd, inflight>>

\* Leave the tree and drop both references; the last one finishes a waiting GC task.
WDel(t) ==
    LET ps == Pending(t, 2) IN
    /\ wt[t].pc = "del"
    /\ del_task_from_tree(wt[t].blkid)
    /\ wt' = [wt EXCEPT ![t] = task_put(t, 2, [@ EXCEPT !.pc = "complete"])]
    /\ zone' = CallbackZone(zone, ps)
    /\ gt' = CallbackTask(gt, ps)
    /\ inflight' = [inflight EXCEPT !.gc = @ - Cardinality(ps)]
    /\ UNCHANGED <<devVars, zrms, listVars, zs, pbids, user_pending, gc_writes, wk, rd>>

\* Mutant: a write that failed stays pending.
WComplete_FailedKept(t) ==
    /\ wt[t].pc = "complete"
    /\ zone' = IF wt[t].error THEN zone
               ELSE [zone EXCEPT ![wt[t].zone] = lbz_zone_complete_write(@)]
    /\ wt' = [wt EXCEPT ![t].pc = "put"]
    /\ UNCHANGED <<devVars, zrms, listVars, zs, pbids, gt, tree, user_pending, gc_writes,
                   wk, rd, inflight>>

WComplete(t) ==
    /\ wt[t].pc = "complete"
    /\ zone' = [zone EXCEPT ![wt[t].zone] = lbz_zone_complete_write(@)]
    /\ wt' = [wt EXCEPT ![t].pc = "put"]
    /\ UNCHANGED <<devVars, zrms, listVars, zs, pbids, gt, tree, user_pending, gc_writes,
                   wk, rd, inflight>>

\* The task itself lives on while someone it conflicted with still holds it.
WPut(t) ==
    /\ wt[t].pc = "put"
    /\ zone' = [zone EXCEPT ![wt[t].zone] = lbz_put_zone(@)]
    /\ wt' = [wt EXCEPT ![t] = [NoTask EXCEPT !.refcount = wt[t].refcount,
                                              !.pending_gc_node = wt[t].pending_gc_node]]
    /\ inflight' = [inflight EXCEPT !.write = @ - 1]
    /\ UNCHANGED <<devVars, zrms, listVars, zs, pbids, gt, tree, user_pending, gc_writes,
                   wk, rd>>

SubmitWrite(t) == \E b \in Blks, v \in Values : lbz_submit_write(t, b, v)

WriteStep(t) ==
    \/ WConflict(t) \/ WAlloc(t) \/ WAlloc2(t) \/ WAppend(t) \/ WAppendFails(t)
    \/ WEndio(t) \/ WOldRmap(t) \/ WOldWeight(t) \/ WNewRmap(t)
    \/ WDel(t) \/ WComplete(t) \/ WPut(t)

-----------------------------------------------------------------------------
(* User reads: __submit_read_io and lbz_read_io_endio.  A read of a block  *)
(* that is not mapped completes at once and changes no state.              *)

lbz_submit_read(r, b) ==
    /\ ~faulty
    /\ rd[r].pc = "none"
    /\ lbz_mapping_lookup(b)
    /\ rd' = [rd EXCEPT ![r] = [pc |-> "reading", blkid |-> b, pbid |-> pbids[b]]]
    /\ inflight' = [inflight EXCEPT !.read = @ + 1]
    /\ UNCHANGED <<devVars, wt, gt, tree, user_pending, gc_writes, wk>>

\* The device returns media[rd[r].pbid] or an error, which makes lbz faulty.
lbz_read_io_endio(r) ==
    /\ rd[r].pc = "reading"
    /\ \/ UNCHANGED <<errors, faulty>>
       \/ CommandFails /\ lbz_dev_set_faulty
    /\ zone' = [zone EXCEPT ![get_zone_by_pbid(rd[r].pbid)] = lbz_put_zone(@)]
    /\ rd' = [rd EXCEPT ![r] = NoRead]
    /\ inflight' = [inflight EXCEPT !.read = @ - 1]
    /\ UNCHANGED <<media, gc_state, oops, zrms, listVars, zs, pbids, wt, gt, tree,
                   user_pending, gc_writes, wk>>

SubmitRead(r) == \E b \in Blks : lbz_submit_read(r, b)

-----------------------------------------------------------------------------
(* GC copies: lbz_gc_read_endio, __submit_gc_task, lbz_gc_write_endio and  *)
(* __gc_task_callback.  The task is named by its source block p, which it  *)
(* keeps a reference on (through the zone) until the callback.             *)

\* A blank block reads as anything.
GRead(p) ==
    /\ gt[p].pc = "reading"
    /\ \E v \in Values :
          /\ media[p] # NULL => v = media[p]
          /\ gt' = [gt EXCEPT ![p].data = v, ![p].pc = "queued"]
    /\ gc_writes' = Append(gc_writes, p)
    /\ UNCHANGED <<lowVars, wt, tree, user_pending, wk, rd, inflight>>

\* The callback puts the source zone before the device becomes faulty.
GReadFails(p) ==
    /\ gt[p].pc = "reading" /\ CommandFails
    /\ gt' = [gt EXCEPT ![p].pc = "fault"]
    /\ zone' = [zone EXCEPT ![get_zone_by_pbid(p)] = lbz_put_zone(@)]
    /\ UNCHANGED <<media, faulty, gc_state, oops, zrms, listVars, zs, pbids, wt, tree,
                   user_pending, gc_writes, wk, rd, inflight>>

GFault(p) ==
    /\ gt[p].pc = "fault"
    /\ lbz_dev_set_faulty
    /\ gt' = [gt EXCEPT ![p] = NoGcTask]
    /\ inflight' = [inflight EXCEPT !.gc = @ - 1]
    /\ UNCHANGED <<media, errors, gc_state, oops, zmdVars, pbids, wt, tree, user_pending,
                   gc_writes, wk, rd>>

\* insert_task_to_tree for a GC task.  Meeting another GC task would write
\* pending_gc_node over its iosched pointer (they share a union).
GInsert(p) ==
    LET b == gt[p].blkid
        own == tree[b]
    IN \/ /\ own = NULL
          /\ tree' = [tree EXCEPT ![b] = p]
          /\ gt' = [gt EXCEPT ![p].pc = "lookup"]
          /\ UNCHANGED <<wt, oops>>
       \/ /\ own # NULL
          /\ wt' = IF own \in UTasks THEN [wt EXCEPT ![own].refcount = @ + 1] ELSE wt
          /\ gt' = [gt EXCEPT ![p].pc = "conflict", ![p].tk = own]
          /\ oops' = IF own \in Pbid THEN "gc_conflict" ELSE oops
          /\ UNCHANGED tree

\* Mutant: the put that may be the owner's last one runs no callback.
GAgency_NoCallback(p) ==
    LET u == gt[p].tk IN
    /\ gt[p].pc = "conflict" /\ u \in UTasks
    /\ wt' = [wt EXCEPT ![u] = task_put(u, 1, [@ EXCEPT !.pending_gc_node = p])]
    /\ gt' = [gt EXCEPT ![p].pc = "agency", ![p].tk = NULL]
    /\ Submitted(p)
    /\ UNCHANGED <<lowVars, tree, user_pending, gc_writes, rd, inflight>>

\* -ENOENT: the user write that owns the block finishes this task for us.
GAgency(p) ==
    LET u == gt[p].tk
        last == LastPut(u, 1)
    IN /\ gt[p].pc = "conflict" /\ u \in UTasks
       /\ wt' = [wt EXCEPT ![u] = task_put(u, 1, [@ EXCEPT !.pending_gc_node = p])]
       /\ gt' = [gt EXCEPT ![p] = IF last THEN NoGcTask ELSE [@ EXCEPT !.pc = "agency", !.tk = NULL]]
       /\ zone' = IF last THEN [zone EXCEPT ![get_zone_by_pbid(p)] = lbz_put_zone(@)] ELSE zone
       /\ inflight' = IF last THEN [inflight EXCEPT !.gc = @ - 1] ELSE inflight
       /\ Submitted(p)
       /\ UNCHANGED <<devVars, zrms, listVars, zs, pbids, tree, user_pending, gc_writes, rd>>

\* lbz_mapping_lookup and lbz_put_zone: zone descriptors after both.
LookupAndPut(b) ==
    IF Mapped(b)
    THEN [zone EXCEPT ![get_zone_by_pbid(pbids[b])] = lbz_put_zone(lbz_get_zone(@))]
    ELSE zone

\* Mutant: the copy goes on although the block has moved.
GLookup_Unchecked(p) ==
    /\ gt[p].pc = "lookup"
    /\ gt' = [gt EXCEPT ![p].pc = "alloc"]
    /\ zone' = LookupAndPut(gt[p].blkid)
    /\ UNCHANGED <<devVars, zrms, listVars, zs, pbids, wt, tree, user_pending, gc_writes,
                   wk, rd, inflight>>

\* Mutant: a task whose block has moved keeps its source zone.
GLookup_KeepsSource(p) ==
    LET b == gt[p].blkid IN
    /\ gt[p].pc = "lookup"
    /\ zone' = LookupAndPut(b)
    /\ \/ /\ pbids[b] = p
          /\ gt' = [gt EXCEPT ![p].pc = "alloc"]
          /\ UNCHANGED <<tree, wk, inflight>>
       \/ /\ pbids[b] # p
          /\ del_task_from_tree(b)
          /\ gt' = [gt EXCEPT ![p] = NoGcTask]
          /\ inflight' = [inflight EXCEPT !.gc = @ - 1]
          /\ Submitted(p)
    /\ UNCHANGED <<devVars, zrms, listVars, zs, pbids, wt, user_pending, gc_writes, rd>>

\* Copy only if the block still lives at p; else (-EEXIST) leave the tree and
\* call back, which puts the source zone.
GLookup(p) ==
    LET b == gt[p].blkid
        zn == LookupAndPut(b)
    IN /\ gt[p].pc = "lookup"
       /\ \/ /\ pbids[b] = p
             /\ gt' = [gt EXCEPT ![p].pc = "alloc"]
             /\ zone' = zn
             /\ UNCHANGED <<tree, wk, inflight>>
          \/ /\ pbids[b] # p
             /\ del_task_from_tree(b)
             /\ gt' = [gt EXCEPT ![p] = NoGcTask]
             /\ zone' = [zn EXCEPT ![get_zone_by_pbid(p)] = lbz_put_zone(@)]
             /\ inflight' = [inflight EXCEPT !.gc = @ - 1]
             /\ Submitted(p)
       /\ UNCHANGED <<devVars, zrms, listVars, zs, pbids, wt, user_pending, gc_writes, rd>>

GGotZone(p, s) ==
    /\ lbz_zone_alloc_res("GC", s)
    /\ gt' = [gt EXCEPT ![p].zone = TargetZone(s), ![p].pc = "append"]
    /\ Submitted(p)
    /\ UNCHANGED <<devVars, pbids, wt, tree, user_pending, gc_writes, rd, inflight>>

GAlloc(p) ==
    LET s == StreamId[gt[p].blkid] IN
    /\ gt[p].pc = "alloc"
    /\ \/ GGotZone(p, s)
       \/ /\ ~AllocSucceeds("GC", s)
          /\ gt' = [gt EXCEPT ![p].pc = "alloc2"]
          /\ UNCHANGED <<lowVars, wt, tree, user_pending, gc_writes, wk, rd, inflight>>

\* Both streams refused: BUG_ON(ret == -EAGAIN), or BUG() on -EIO in the retry worker.
GAlloc2(p) ==
    LET s == OtherStream(StreamId[gt[p].blkid]) IN
    /\ gt[p].pc = "alloc2"
    /\ \/ GGotZone(p, s)
       \/ /\ ~AllocSucceeds("GC", s)
          /\ oops' = IF faulty THEN "gc_eio" ELSE "gc_eagain"
          /\ UNCHANGED <<media, errors, faulty, gc_state, zmdVars, pbids, ioVars>>

GAppend(p) ==
    /\ gt[p].pc = "append"
    /\ \E q \in Pbid :
          /\ get_zone_by_pbid(q) = gt[p].zone
          /\ ZoneAppend(q, gt[p].data)
          /\ gt' = [gt EXCEPT ![p].pbid = q, ![p].pc = "endio"]
    /\ UNCHANGED <<errors, faulty, gc_state, oops, zmdVars, pbids, wt, tree, user_pending,
                   gc_writes, wk, rd, inflight>>

GAppendFails(p) ==
    /\ gt[p].pc = "append" /\ CommandFails
    /\ gt' = [gt EXCEPT ![p].error = TRUE, ![p].pc = "endio"]
    /\ UNCHANGED <<media, faulty, gc_state, oops, zmdVars, pbids, wt, tree, user_pending,
                   gc_writes, wk, rd, inflight>>

\* Mutant: the callback does not look at the error of the append.
GEndio_IgnoresError(p) ==
    /\ gt[p].pc = "endio"
    /\ zone' = [zone EXCEPT ![gt[p].zone] = lbz_zone_complete_write(@)]
    /\ gt' = [gt EXCEPT ![p].pc = IF faulty THEN "cb_put" ELSE "cb_rmap"]
    /\ UNCHANGED <<devVars, zrms, listVars, zs, pbids, wt, tree, user_pending, gc_writes,
                   wk, rd, inflight>>

\* lbz_zone_complete_write, then the callback, which changes the maps only
\* while the device is not faulty.
GEndio(p) ==
    /\ gt[p].pc = "endio"
    /\ zone' = [zone EXCEPT ![gt[p].zone] = lbz_zone_complete_write(@)]
    /\ gt' = [gt EXCEPT ![p].pc = IF faulty \/ gt[p].error THEN "cb_put" ELSE "cb_rmap"]
    /\ UNCHANGED <<devVars, zrms, listVars, zs, pbids, wt, tree, user_pending, gc_writes,
                   wk, rd, inflight>>

GCbRmap(p) ==
    /\ gt[p].pc = "cb_rmap"
    /\ lbz_zone_update_reverse_map(gt[p].pbid, gt[p].blkid)
    /\ gt' = [gt EXCEPT ![p].pc = "cb_map"]
    /\ UNCHANGED <<devVars, zone, listVars, zs, pbids, wt, tree, user_pending, gc_writes,
                   wk, rd, inflight>>

\* The old mapping must be the source block: BUG_ON otherwise.
GCbMap(p) ==
    LET old == pbids[gt[p].blkid] IN
    /\ gt[p].pc = "cb_map"
    /\ lbz_mapping_add(gt[p].blkid, gt[p].pbid)
    /\ oops' = IF old \notin {p, INVALID} THEN "gc_oldpbid" ELSE oops
    /\ gt' = [gt EXCEPT ![p].pc = IF old = INVALID THEN "cb_put" ELSE "cb_old"]
    /\ UNCHANGED <<media, errors, faulty, gc_state, zmdVars, wt, tree, user_pending,
                   gc_writes, wk, rd, inflight>>

\* Mutant: the source block keeps its weight.
GCbOld_KeepsWeight(p) ==
    /\ gt[p].pc = "cb_old"
    /\ lbz_zone_update_reverse_map(p, INVALID)
    /\ gt' = [gt EXCEPT ![p].pc = "cb_put"]
    /\ UNCHANGED <<devVars, zone, listVars, zs, pbids, wt, tree, user_pending, gc_writes,
                   wk, rd, inflight>>

\* The source block becomes invalid; the task's zone reference covers both updates.
GCbOld(p) ==
    /\ gt[p].pc = "cb_old"
    /\ lbz_zone_update_reverse_map(p, INVALID)
    /\ zone' = [zone EXCEPT ![get_zone_by_pbid(p)] = lbz_zone_release_global_res(@)]
    /\ gt' = [gt EXCEPT ![p].pc = "cb_put"]
    /\ UNCHANGED <<devVars, listVars, zs, pbids, wt, tree, user_pending, gc_writes,
                   wk, rd, inflight>>

\* Put the written zone, leave the tree, put the source zone.  After a write
\* error the device is made faulty only now.
GCbPut(p) ==
    LET err == gt[p].error
        zn == [zone EXCEPT ![gt[p].zone] = lbz_put_zone(@)]
    IN /\ gt[p].pc = "cb_put"
       /\ zone' = [zn EXCEPT ![get_zone_by_pbid(p)] = lbz_put_zone(@)]
       /\ del_task_from_tree(gt[p].blkid)
       /\ gt' = [gt EXCEPT ![p] = [NoGcTask EXCEPT !.pc = IF err THEN "fault" ELSE "none"]]
       /\ inflight' = IF err THEN inflight ELSE [inflight EXCEPT !.gc = @ - 1]
       /\ UNCHANGED <<devVars, zrms, listVars, zs, pbids, wt, user_pending, gc_writes, wk, rd>>

GcCopy(p) ==
    \/ GRead(p) \/ GReadFails(p) \/ GFault(p) \/ GAgency(p) \/ GLookup(p)
    \/ GAlloc(p) \/ GAlloc2(p) \/ GAppend(p) \/ GAppendFails(p) \/ GEndio(p)
    \/ GCbRmap(p) \/ GCbMap(p) \/ GCbOld(p) \/ GCbPut(p)

-----------------------------------------------------------------------------
(* retry_wk_fn: first every queued user write, then every finished GC read.*)
(* The workqueue is single-threaded; wk.cur is the task being submitted.   *)

\* Mutant: the list is copied and not spliced.
WkStart_KeepsList ==
    /\ wk.pc = "idle" /\ ~faulty
    /\ user_pending # <<>> \/ gc_writes # <<>>
    /\ wk' = [wk EXCEPT !.pc = "user", !.users = user_pending]
    /\ UNCHANGED <<lowVars, wt, gt, tree, user_pending, gc_writes, rd, inflight>>

\* A pass that finds both lists empty changes nothing and is left out.
WkStart ==
    /\ wk.pc = "idle" /\ ~faulty
    /\ user_pending # <<>> \/ gc_writes # <<>>
    /\ wk' = [wk EXCEPT !.pc = "user", !.users = user_pending]
    /\ user_pending' = <<>>
    /\ UNCHANGED <<lowVars, wt, gt, tree, gc_writes, rd, inflight>>

\* __submit_write_task starts where the task's status says.
WkUser ==
    LET t == Head(wk.users) IN
    /\ wk.pc = "user" /\ wk.cur = NULL /\ wk.users # <<>>
    /\ wk' = [wk EXCEPT !.users = Tail(@), !.cur = t]
    /\ \/ wt[t].status = "INIT" /\ InsertUser(t, wt[t])
       \/ /\ wt[t].status = "ALLOC_RES"
          /\ wt' = [wt EXCEPT ![t].pc = "alloc"]
          /\ UNCHANGED tree
    /\ UNCHANGED <<lowVars, gt, user_pending, gc_writes, rd, inflight>>

WkSpliceGc ==
    /\ wk.pc = "user" /\ wk.cur = NULL /\ wk.users = <<>>
    /\ wk' = [wk EXCEPT !.pc = "gc", !.gcs = gc_writes]
    /\ gc_writes' = <<>>
    /\ UNCHANGED <<lowVars, wt, gt, tree, user_pending, rd, inflight>>

WkGc ==
    /\ wk.pc = "gc" /\ wk.cur = NULL /\ wk.gcs # <<>>
    /\ wk' = [wk EXCEPT !.gcs = Tail(@), !.cur = Head(wk.gcs)]
    /\ GInsert(Head(wk.gcs))
    /\ UNCHANGED <<media, errors, faulty, gc_state, zmdVars, pbids, user_pending, gc_writes,
                   rd, inflight>>

WkEnd ==
    /\ wk.pc = "gc" /\ wk.cur = NULL /\ wk.gcs = <<>>
    /\ wk' = [wk EXCEPT !.pc = "idle"]
    /\ UNCHANGED <<lowVars, wt, gt, tree, user_pending, gc_writes, rd, inflight>>

RetryWork == WkStart \/ WkUser \/ WkSpliceGc \/ WkGc \/ WkEnd
=============================================================================
