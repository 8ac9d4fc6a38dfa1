--------------------------- MODULE LbzCountProofs ---------------------------
(***************************************************************************)
(* ZoneInv is inductive: the lists of zones, nr_allocable_blks, the        *)
(* reference counts of the zones and the in-flight counters are exact in   *)
(* every behaviour, also after errors and early zone resets.               *)
(***************************************************************************)
EXTENDS LbzProofs, NumberLemmas

-----------------------------------------------------------------------------
(* The operations on a zone descriptor, field by field.                    *)

\* What no reference count touches.
SameZone(d, e) == d.flags = e.flags /\ d.wp_block = e.wp_block /\ d.weight = e.weight

\* lbz_put_zone takes one reference, whichever way it goes.
LEMMA PutFields ==
    ASSUME NEW d \in ZoneRec
    PROVE  lbz_put_zone(d).refcount = d.refcount - 1 /\ SameZone(lbz_put_zone(d), d)
<1> DEFINE r == [d EXCEPT !.refcount = @ - 1]
<1>1. r \in ZoneRec /\ r.refcount = d.refcount - 1 /\ SameZone(r, d)
  BY DEF ZoneRec, SameZone
<1>2. lbz_put_zone(d) = IF r.refcount = 0 /\ SplitPut THEN [r EXCEPT !.in_put = TRUE]
                        ELSE PutState(r, r.refcount = 0)
  BY DEF lbz_put_zone
<1> HIDE DEF r
<1>3. [r EXCEPT !.in_put = TRUE].refcount = r.refcount /\ SameZone([r EXCEPT !.in_put = TRUE], r)
  BY <1>1 DEF ZoneRec, SameZone
<1>4. ASSUME NEW last
      PROVE  PutState(r, last).refcount = r.refcount /\ SameZone(PutState(r, last), r)
  BY <1>1 DEF PutState, ZoneRec, SameZone
<1> QED BY <1>1, <1>2, <1>3, <1>4 DEF SameZone

\* lbz_get_zone, the end of a write, and the release of a block.
LEMMA GetFields ==
    ASSUME NEW d \in ZoneRec
    PROVE  /\ lbz_get_zone(d).refcount = d.refcount + 1 /\ SameZone(lbz_get_zone(d), d)
           /\ lbz_zone_complete_write(d).refcount = d.refcount
           /\ SameZone(lbz_zone_complete_write(d), d)
           /\ lbz_zone_release_global_res(d).refcount = d.refcount
           /\ lbz_zone_release_global_res(d).flags = d.flags
           /\ lbz_zone_release_global_res(d).wp_block = d.wp_block
           /\ lbz_zone_release_global_res(d).weight = d.weight - 1
  BY DEF lbz_get_zone, lbz_zone_complete_write, lbz_zone_release_global_res, ZoneRec, SameZone

\* __alloc_res: one block and one reference, and the stream's reference goes
\* with the last block.
LEMMA TakeFields ==
    ASSUME NEW d \in ZoneRec
    PROVE  /\ TakeBlock(d).wp_block = d.wp_block + 1
           /\ TakeBlock(d).weight = d.weight + 1
           /\ d.wp_block + 1 = ZoneNrBlocks =>
                 TakeBlock(d).refcount = d.refcount
                 /\ TakeBlock(d).flags = (d.flags \ {"ACTIVE"}) \cup {"TO_FULL"}
           /\ d.wp_block + 1 # ZoneNrBlocks =>
                 TakeBlock(d).refcount = d.refcount + 1 /\ TakeBlock(d).flags = d.flags
<1> DEFINE r1 == [lbz_get_zone(d) EXCEPT !.wp_block = @ + 1]
           r2 == [r1 EXCEPT !.weight = @ + 1]
           r  == [r2 EXCEPT !.pending_write_io = @ + 1]
           f  == [r EXCEPT !.flags = (@ \ {"ACTIVE"}) \cup {"TO_FULL"}]
<1>1. lbz_get_zone(d) \in ZoneRec /\ lbz_get_zone(d).refcount = d.refcount + 1 /\ SameZone(lbz_get_zone(d), d)
  BY ZoneRecOps, GetFields
<1>2. /\ r1 \in ZoneRec /\ r1.refcount = d.refcount + 1 /\ r1.flags = d.flags
      /\ r1.weight = d.weight /\ r1.wp_block = d.wp_block + 1
  BY <1>1 DEF ZoneRec, SameZone
<1>3. /\ r2 \in ZoneRec /\ r2.refcount = d.refcount + 1 /\ r2.flags = d.flags
      /\ r2.weight = d.weight + 1 /\ r2.wp_block = d.wp_block + 1
  <2> HIDE DEF r1
  <2> QED BY <1>2 DEF ZoneRec
<1>4. /\ r \in ZoneRec /\ r.refcount = d.refcount + 1 /\ r.flags = d.flags
      /\ r.weight = d.weight + 1 /\ r.wp_block = d.wp_block + 1
  <2> HIDE DEF r2
  <2> QED BY <1>3 DEF ZoneRec
<1>5. /\ f \in ZoneRec /\ f.refcount = d.refcount + 1 /\ f.flags = (d.flags \ {"ACTIVE"}) \cup {"TO_FULL"}
      /\ f.weight = d.weight + 1 /\ f.wp_block = d.wp_block + 1
  <2> HIDE DEF r
  <2> QED BY <1>4 DEF ZoneRec, Flags
<1>6. TakeBlock(d) = IF r.wp_block = ZoneNrBlocks THEN lbz_put_zone(f) ELSE r
  BY <1>1 DEF TakeBlock, ZoneRec
<1> HIDE DEF r, f
<1>7. d.refcount \in Int
  BY DEF ZoneRec
<1> QED BY <1>4, <1>5, <1>6, <1>7, PutFields DEF SameZone

-----------------------------------------------------------------------------
(* What each step of a user write does to the tasks, the zones and the     *)
(* counters.                                                               *)

OthersKept(t) == \A u \in UTasks : u # t => SameTask(wt'[u], wt[u])

\* Task t is at another step and knows what it knew.
KeepsFields(t) ==
    /\ wt'[t].blkid = wt[t].blkid /\ wt'[t].zone = wt[t].zone /\ wt'[t].pbid = wt[t].pbid
    /\ wt'[t].old = wt[t].old /\ wt'[t].error = wt[t].error /\ wt'[t].data = wt[t].data

\* Task t is a new or no task.
Blank(t) ==
    wt'[t].zone = NULL /\ wt'[t].pbid = NULL /\ wt'[t].old = INVALID /\ wt'[t].error = FALSE

ZoneKept == zone' = zone
ZonePut(z) == zone' = [zone EXCEPT ![z] = lbz_put_zone(@)]
ListsSame == UNCHANGED listVars
InflightKept == inflight' = inflight

\* A task_put that was not, or was, the last one a GC task waited for.
NoCallback == gt' = gt /\ ZoneKept /\ inflight'.gc = inflight.gc
Callback(p) ==
    /\ gt[p].pc = "agency" /\ gt' = [gt EXCEPT ![p] = NoGcTask]
    /\ ZonePut(p[1]) /\ inflight'.gc = inflight.gc - 1

\* task_put runs at most one __gc_task_callback.
LEMMA PutCallback ==
    ASSUME TypeOK, TaskInv, NEW u \in UTasks, NEW n, NEW ps,
           ps = Pending(u, n) \/ ps = {},
           zone' = CallbackZone(zone, ps), gt' = CallbackTask(gt, ps),
           inflight'.gc = inflight.gc - Cardinality(ps)
    PROVE  NoCallback \/ \E p \in Pbid : Callback(p)
<1>1. zone \in [Zone -> ZoneRec] /\ gt \in [Pbid -> GtRec] /\ inflight.gc \in Int
  BY DEF TypeOK, ZmdTypeOK, IoTypeOK, InflightRec
<1>2. CASE ps = {}
  <2>1. zone' = zone /\ gt' = gt
    BY <1>1, <1>2 DEF CallbackZone, CallbackTask
  <2> QED BY <1>1, <1>2, <2>1, FS_EmptySet DEF NoCallback, ZoneKept
<1>3. CASE ps # {}
  <2> DEFINE p == wt[u].pending_gc_node
  <2>1. p # NULL /\ ps = {p}
    BY <1>3 DEF Pending
  <2>2. p \in Pbid
    BY <2>1 DEF TypeOK, IoTypeOK, WtRec
  <2>3. gt[p].pc = "agency"
    BY <2>1 DEF TaskInv, PendingAgency
  <2> HIDE DEF p
  <2>4. p[1] \in Zone
    BY <2>2 DEF Pbid
  <2>5. zone' = [zone EXCEPT ![p[1]] = lbz_put_zone(@)]
    BY <1>1, <2>1, <2>4 DEF CallbackZone, get_zone_by_pbid
  <2>6. gt' = [gt EXCEPT ![p] = NoGcTask]
    BY <1>1, <2>1, <2>2 DEF CallbackTask
  <2>7. inflight'.gc = inflight.gc - 1
    BY <1>1, <2>1, FS_Singleton
  <2> QED BY <2>2, <2>3, <2>5, <2>6, <2>7 DEF Callback, ZonePut
<1> QED BY <1>2, <1>3

\* insert_task_to_tree: the task owns its block or waits, the owner gets a reference.
LEMMA InsertFx ==
    ASSUME TypeOK, TaskInv, NEW t \in UTasks, NEW task \in WtRec, InsertUser(t, task), ~WtInTree(t),
           task.blkid \in Blks
    PROVE  /\ OthersKept(t) /\ wt'[t].pc \in {"alloc", "conflict"}
           /\ wt'[t].blkid = task.blkid /\ wt'[t].zone = task.zone /\ wt'[t].pbid = task.pbid
           /\ wt'[t].old = task.old /\ wt'[t].error = task.error /\ wt'[t].data = task.data
<1> DEFINE own == tree[task.blkid]
<1>1. wt \in [UTasks -> WtRec]
  BY DEF TypeOK, IoTypeOK
<1>2. own # t
  BY DEF TaskInv, TaskTreeExact
<1> DEFINE won == [task EXCEPT !.pc = "alloc", !.status = "ALLOC_RES", !.refcount = @ + 1]
           fail == [task EXCEPT !.pc = "conflict", !.tk = own]
<1>3. /\ won.pc = "alloc" /\ won.blkid = task.blkid /\ won.zone = task.zone /\ won.pbid = task.pbid
      /\ won.old = task.old /\ won.error = task.error /\ won.data = task.data
  BY DEF WtRec
<1>4. /\ fail.pc = "conflict" /\ fail.blkid = task.blkid /\ fail.zone = task.zone /\ fail.pbid = task.pbid
      /\ fail.old = task.old /\ fail.error = task.error /\ fail.data = task.data
  BY DEF WtRec
<1>5. \/ wt' = [wt EXCEPT ![t] = won]
      \/ own \in UTasks /\ wt' = [[wt EXCEPT ![t] = fail] EXCEPT ![own].refcount = @ + 1]
      \/ wt' = [wt EXCEPT ![t] = fail]
  BY DEF InsertUser
<1>6. OthersKept(t)
  <2> HIDE DEF won, fail, own
  <2> QED BY <1>1, <1>2, <1>5 DEF OthersKept, SameTask, WtRec
<1>7. wt'[t] = won \/ wt'[t] = fail
  <2> HIDE DEF won, fail, own
  <2> QED BY <1>1, <1>2, <1>5
<1> HIDE DEF won, fail, own
<1> QED BY <1>3, <1>4, <1>6, <1>7

\* lbz_submit_write: one task more in flight.
LEMMA SubmitFx ==
    ASSUME TypeOK, TaskInv, NEW t \in UTasks, SubmitWrite(t)
    PROVE  /\ wt[t].pc = "none" /\ wt'[t].pc \in {"alloc", "conflict"} /\ OthersKept(t) /\ Blank(t)
           /\ wt'[t].blkid \in Blks /\ wt'[t].data \in Values /\ inflight' = [inflight EXCEPT !.write = @ + 1]
           /\ UNCHANGED <<lowVars, gt, rd>>
<1>1. PICK b \in Blks, v \in Values : lbz_submit_write(t, b, v)
  BY DEF SubmitWrite
<1> DEFINE task == [NoTask EXCEPT !.blkid = b, !.data = v, !.refcount = 1]
<1>2. /\ task \in WtRec /\ task.blkid = b /\ task.zone = NULL /\ task.pbid = NULL
      /\ task.old = INVALID /\ task.error = FALSE /\ task.data = v
  <2> DEFINE n1 == [NoTask EXCEPT !.blkid = b]
             n2 == [n1 EXCEPT !.data = v]
  <2>1. n1 \in WtRec
    BY NoTaskType DEF WtRec
  <2>2. n2 \in WtRec
    <3> HIDE DEF n1
    <3> QED BY <2>1 DEF WtRec
  <2>3. [n2 EXCEPT !.refcount = 1] \in WtRec
    <3> HIDE DEF n2
    <3> QED BY <2>2 DEF WtRec
  <2> QED BY <2>3 DEF NoTask
<1>3. InsertUser(t, task) /\ wt[t].pc = "none"
  BY <1>1 DEF lbz_submit_write
<1> HIDE DEF task
<1>4. ~WtInTree(t)
  BY <1>3 DEF WtInTree
<1>5. /\ OthersKept(t) /\ wt'[t].pc \in {"alloc", "conflict"} /\ Blank(t)
      /\ wt'[t].blkid \in Blks /\ wt'[t].data \in Values
  BY <1>2, <1>3, <1>4, InsertFx DEF Blank
<1> QED BY <1>1, <1>3, <1>5 DEF lbz_submit_write

\* A step that only moves t.
LEMMA PcFx ==
    ASSUME TypeOK, NEW t \in UTasks, NEW c, wt' = [wt EXCEPT ![t].pc = c]
    PROVE  wt'[t].pc = c /\ KeepsFields(t) /\ OthersKept(t)
<1>1. wt \in [UTasks -> WtRec]
  BY DEF TypeOK, IoTypeOK
<1> QED BY <1>1 DEF KeepsFields, OthersKept, SameTask, WtRec

\* The retry worker submits the first task of its list again.
LEMMA WkUserFx ==
    ASSUME TypeOK, TaskInv, WkUser
    PROVE  \E t \in UTasks :
               /\ wt[t].pc = "queued" /\ wt'[t].pc \in {"alloc", "conflict"}
               /\ KeepsFields(t) /\ OthersKept(t)
               /\ UNCHANGED <<lowVars, gt, rd, inflight>>
<1> DEFINE t == Head(wk.users)
<1>1. wk.users \in Seq(UTasks) /\ wk.users # <<>> /\ wt \in [UTasks -> WtRec]
  BY DEF WkUser, TypeOK, IoTypeOK, WkRec
<1>2. t \in UTasks /\ OnList(wk.users, t)
  BY <1>1, TailList
<1>3. wt[t].pc = "queued"
  BY <1>2 DEF TaskInv, QueuedOnce
<1>4. wt[t].blkid \in Blks /\ wt[t] \in WtRec
  BY <1>1, <1>2, <1>3 DEF TaskInv, WtFacts
<1>5. UNCHANGED <<lowVars, gt, rd, inflight>>
  BY DEF WkUser
<1>6. \/ wt[t].status = "INIT" /\ InsertUser(t, wt[t])
      \/ wt' = [wt EXCEPT ![t].pc = "alloc"]
  BY DEF WkUser
<1> HIDE DEF t
<1>7. CASE wt[t].status = "INIT" /\ InsertUser(t, wt[t])
  <2>1. ~WtInTree(t)
    BY <1>3, <1>7 DEF WtInTree
  <2>2. wt'[t].pc \in {"alloc", "conflict"} /\ OthersKept(t) /\ KeepsFields(t)
    BY <1>2, <1>4, <1>7, <2>1, InsertFx DEF KeepsFields
  <2> QED BY <1>2, <1>3, <1>5, <2>2
<1>8. CASE wt' = [wt EXCEPT ![t].pc = "alloc"]
  BY <1>2, <1>3, <1>5, <1>8, PcFx
<1> QED BY <1>6, <1>7, <1>8

\* WConflict: t is queued, the owner loses a reference.
LEMMA WConflictFx ==
    ASSUME TypeOK, TaskInv, NEW t \in UTasks, WConflict(t)
    PROVE  /\ wt[t].pc = "conflict" /\ wt'[t].pc = "queued" /\ KeepsFields(t) /\ OthersKept(t)
           /\ NoCallback \/ \E p \in Pbid : Callback(p)
           /\ inflight'.write = inflight.write /\ inflight'.read = inflight.read
           /\ UNCHANGED <<devVars, zrms, listVars, zs, pbids, rd>>
<1> DEFINE u == wt[t].tk
           ps == IF u \in UTasks THEN Pending(u, 1) ELSE {}
           w == IF u \in UTasks THEN [wt EXCEPT ![u] = task_put(u, 1, @)] ELSE wt
<1>1. wt \in [UTasks -> WtRec]
  BY DEF TypeOK, IoTypeOK
<1>2. w \in [UTasks -> WtRec] /\ \A x \in UTasks : SameTask(w[x], wt[x])
  <2>1. CASE u \in UTasks
    <3>1. w = [wt EXCEPT ![u] = task_put(u, 1, wt[u])]
      BY <2>1
    <3>2. task_put(u, 1, wt[u]) \in WtRec /\ SameTask(task_put(u, 1, wt[u]), wt[u])
      BY <2>1, <1>1, TaskPutType, TaskPutFields
    <3> HIDE DEF w, u
    <3> QED BY <2>1, <3>1, <3>2, <1>1 DEF SameTask
  <2>2. CASE u \notin UTasks
    BY <2>2, <1>1 DEF SameTask
  <2> QED BY <2>1, <2>2
<1>3. wt' = [w EXCEPT ![t].pc = "queued", ![t].tk = NULL]
  BY DEF WConflict
<1>4. wt'[t].pc = "queued" /\ KeepsFields(t) /\ OthersKept(t)
  <2> HIDE DEF w
  <2> QED BY <1>2, <1>3 DEF KeepsFields, OthersKept, SameTask, WtRec
<1>5. /\ zone' = CallbackZone(zone, ps) /\ gt' = CallbackTask(gt, ps)
      /\ inflight' = [inflight EXCEPT !.gc = @ - Cardinality(ps)]
  BY DEF WConflict
<1>6. /\ inflight'.write = inflight.write /\ inflight'.read = inflight.read
      /\ inflight'.gc = inflight.gc - Cardinality(ps)
  <2> HIDE DEF ps
  <2> QED BY <1>5 DEF TypeOK, IoTypeOK, InflightRec
<1>7. NoCallback \/ \E p \in Pbid : Callback(p)
  <2>1. CASE u \in UTasks
    <3> HIDE DEF u
    <3> QED BY <1>5, <1>6, <2>1, PutCallback
  <2>2. CASE u \notin UTasks
    BY <1>5, <1>6, <2>2, PutCallback
  <2> QED BY <2>1, <2>2
<1> QED BY <1>4, <1>6, <1>7 DEF WConflict

\* WGotZone: t knows its zone.
LEMMA WGotZoneFx ==
    ASSUME TypeOK, NEW t \in UTasks, NEW s, WGotZone(t, s)
    PROVE  /\ wt'[t].pc = "append" /\ wt'[t].zone = TargetZone(s)
           /\ wt'[t].blkid = wt[t].blkid /\ wt'[t].pbid = wt[t].pbid /\ wt'[t].old = wt[t].old
           /\ wt'[t].error = wt[t].error /\ wt'[t].data = wt[t].data
           /\ OthersKept(t) /\ lbz_zone_alloc_res(AllocFlag(t), s)
           /\ UNCHANGED <<media, errors, faulty, oops, zrms, zs, pbids, gt, rd, inflight>>
<1>1. wt \in [UTasks -> WtRec]
  BY DEF TypeOK, IoTypeOK
<1>2. wt' = [wt EXCEPT ![t].zone = TargetZone(s), ![t].pc = "append"]
  BY DEF WGotZone
<1>3. /\ wt'[t].pc = "append" /\ wt'[t].zone = TargetZone(s)
      /\ wt'[t].blkid = wt[t].blkid /\ wt'[t].pbid = wt[t].pbid /\ wt'[t].old = wt[t].old
      /\ wt'[t].error = wt[t].error /\ wt'[t].data = wt[t].data /\ OthersKept(t)
  <2> HIDE DEF TargetZone
  <2> QED BY <1>1, <1>2 DEF OthersKept, SameTask, WtRec
<1> QED BY <1>3 DEF WGotZone, lbz_zone_alloc_res

\* WAllocEio: the task is gone.
LEMMA WAllocEioFx ==
    ASSUME TypeOK, TaskInv, NEW t \in UTasks, WAllocEio(t)
    PROVE  /\ wt'[t].pc = "none" /\ Blank(t) /\ OthersKept(t)
           /\ NoCallback \/ \E p \in Pbid : Callback(p)
           /\ inflight'.write = inflight.write - 1 /\ inflight'.read = inflight.read
<1>1. wt \in [UTasks -> WtRec]
  BY DEF TypeOK, IoTypeOK
<1> DEFINE n1 == [NoTask EXCEPT !.refcount = wt[t].refcount]
           n  == [n1 EXCEPT !.pending_gc_node = wt[t].pending_gc_node]
<1>2. /\ n \in WtRec /\ n.pc = "none" /\ n.zone = NULL /\ n.pbid = NULL /\ n.old = INVALID
      /\ n.error = FALSE
  <2>1. n1 \in WtRec
    BY <1>1, NoTaskType DEF WtRec
  <2>2. n \in WtRec
    <3> HIDE DEF n1
    <3> QED BY <1>1, <2>1 DEF WtRec
  <2> QED BY <2>2 DEF NoTask
<1>3. wt' = [wt EXCEPT ![t] = task_put(t, 2, n)]
  BY <1>1 DEF WAllocEio
<1> HIDE DEF n
<1>4. wt'[t].pc = "none" /\ Blank(t) /\ OthersKept(t)
  <2>1. SameTask(task_put(t, 2, n), n)
    BY <1>2, TaskPutFields
  <2>2. wt'[t].pc = "none" /\ Blank(t)
    BY <1>1, <1>2, <1>3, <2>1 DEF SameTask, Blank
  <2> QED BY <1>1, <1>3, <2>2 DEF OthersKept, SameTask
<1>5. /\ zone' = CallbackZone(zone, Pending(t, 2)) /\ gt' = CallbackTask(gt, Pending(t, 2))
      /\ inflight' = [inflight EXCEPT !.write = @ - 1, !.gc = @ - Cardinality(Pending(t, 2))]
  BY DEF WAllocEio
<1>6. /\ inflight'.write = inflight.write - 1 /\ inflight'.read = inflight.read
      /\ inflight'.gc = inflight.gc - Cardinality(Pending(t, 2))
  BY <1>5 DEF TypeOK, IoTypeOK, InflightRec
<1>7. NoCallback \/ \E p \in Pbid : Callback(p)
  BY <1>5, <1>6, PutCallback
<1> QED BY <1>4, <1>6, <1>7

\* WDel: both references are dropped.
LEMMA WDelFx ==
    ASSUME TypeOK, TaskInv, NEW t \in UTasks, WDel(t)
    PROVE  /\ wt[t].pc = "del" /\ wt'[t].pc = "complete" /\ KeepsFields(t) /\ OthersKept(t)
           /\ NoCallback \/ \E p \in Pbid : Callback(p)
           /\ inflight'.write = inflight.write /\ inflight'.read = inflight.read
           /\ UNCHANGED <<devVars, zrms, listVars, zs, pbids, rd>>
<1>1. wt \in [UTasks -> WtRec] /\ wt[t].pc = "del"
  BY DEF TypeOK, IoTypeOK, WDel
<1> DEFINE n == [wt[t] EXCEPT !.pc = "complete"]
<1>2. /\ n \in WtRec /\ n.pc = "complete" /\ n.blkid = wt[t].blkid /\ n.zone = wt[t].zone
      /\ n.pbid = wt[t].pbid /\ n.old = wt[t].old /\ n.error = wt[t].error /\ n.data = wt[t].data
  BY <1>1 DEF WtRec, WtPc
<1>3. wt' = [wt EXCEPT ![t] = task_put(t, 2, n)]
  BY <1>1 DEF WDel
<1> HIDE DEF n
<1>4. wt'[t].pc = "complete" /\ KeepsFields(t) /\ OthersKept(t)
  BY <1>1, <1>2, <1>3, TaskPutFields DEF SameTask, KeepsFields, OthersKept
<1>5. /\ zone' = CallbackZone(zone, Pending(t, 2)) /\ gt' = CallbackTask(gt, Pending(t, 2))
      /\ inflight' = [inflight EXCEPT !.gc = @ - Cardinality(Pending(t, 2))]
  BY DEF WDel
<1>6. /\ inflight'.write = inflight.write /\ inflight'.read = inflight.read
      /\ inflight'.gc = inflight.gc - Cardinality(Pending(t, 2))
  BY <1>5 DEF TypeOK, IoTypeOK, InflightRec
<1>7. NoCallback \/ \E p \in Pbid : Callback(p)
  BY <1>5, <1>6, PutCallback
<1> QED BY <1>1, <1>4, <1>6, <1>7 DEF WDel

\* WPut: the task is gone, its zone loses a reference.
LEMMA WPutFx ==
    ASSUME TypeOK, NEW t \in UTasks, WPut(t)
    PROVE  /\ wt[t].pc = "put" /\ wt'[t].pc = "none" /\ Blank(t) /\ OthersKept(t)
           /\ ZonePut(wt[t].zone) /\ inflight' = [inflight EXCEPT !.write = @ - 1]
           /\ UNCHANGED <<devVars, zrms, listVars, zs, pbids, gt, rd>>
<1>1. wt \in [UTasks -> WtRec]
  BY DEF TypeOK, IoTypeOK
<1> DEFINE n == [NoTask EXCEPT !.refcount = wt[t].refcount, !.pending_gc_node = wt[t].pending_gc_node]
<1>2. n.pc = "none" /\ n.zone = NULL /\ n.pbid = NULL /\ n.old = INVALID /\ n.error = FALSE
  BY DEF NoTask
<1>3. wt' = [wt EXCEPT ![t] = n]
  BY DEF WPut
<1> HIDE DEF n
<1>4. wt'[t].pc = "none" /\ Blank(t) /\ OthersKept(t)
  BY <1>1, <1>2, <1>3 DEF Blank, OthersKept, SameTask
<1> QED BY <1>4 DEF WPut, ZonePut

\* WAppend and WAppendFails: what the device answered.
LEMMA WAppendFx ==
    ASSUME TypeOK, NEW t \in UTasks, WAppend(t) \/ WAppendFails(t)
    PROVE  /\ wt[t].pc = "append" /\ wt'[t].pc = "endio" /\ OthersKept(t)
           /\ wt'[t].blkid = wt[t].blkid /\ wt'[t].zone = wt[t].zone /\ wt'[t].old = wt[t].old
           /\ wt'[t].data = wt[t].data
           /\ \/ /\ wt'[t].pbid \in Pbid /\ wt'[t].pbid[1] = wt[t].zone /\ wt'[t].error = wt[t].error
                 /\ ZoneAppend(wt'[t].pbid, wt[t].data) /\ errors' = errors
              \/ /\ wt'[t].pbid = wt[t].pbid /\ wt'[t].error /\ UNCHANGED media
                 /\ errors' = errors + 1
           /\ UNCHANGED <<faulty, gc_state, oops, zmdVars, pbids, gt, rd, inflight>>
<1>1. wt \in [UTasks -> WtRec]
  BY DEF TypeOK, IoTypeOK
<1>2. CASE WAppend(t)
  <2>1. PICK p \in Pbid : /\ get_zone_by_pbid(p) = wt[t].zone /\ ZoneAppend(p, wt[t].data)
                          /\ wt' = [wt EXCEPT ![t].pbid = p, ![t].pc = "endio"]
    BY <1>2 DEF WAppend
  <2>2. /\ wt'[t].pc = "endio" /\ wt'[t].pbid = p /\ wt'[t].blkid = wt[t].blkid /\ wt'[t].data = wt[t].data
        /\ wt'[t].zone = wt[t].zone /\ wt'[t].old = wt[t].old /\ wt'[t].error = wt[t].error
        /\ OthersKept(t)
    BY <1>1, <2>1 DEF OthersKept, SameTask, WtRec
  <2> QED BY <1>2, <2>1, <2>2 DEF WAppend, get_zone_by_pbid
<1>3. CASE WAppendFails(t)
  <2>1. wt' = [wt EXCEPT ![t].error = TRUE, ![t].pc = "endio"]
    BY <1>3 DEF WAppendFails
  <2>2. /\ wt'[t].pc = "endio" /\ wt'[t].pbid = wt[t].pbid /\ wt'[t].blkid = wt[t].blkid
        /\ wt'[t].zone = wt[t].zone /\ wt'[t].old = wt[t].old /\ wt'[t].error
        /\ OthersKept(t) /\ wt'[t].data = wt[t].data
    BY <1>1, <2>1 DEF OthersKept, SameTask, WtRec
  <2> QED BY <1>3, <2>2 DEF WAppendFails, CommandFails
<1> QED BY <1>2, <1>3

\* WEndio: the block is mapped, or the device becomes faulty.
LEMMA WEndioFx ==
    ASSUME TypeOK, NEW t \in UTasks, WEndio(t)
    PROVE  /\ wt[t].pc = "endio" /\ OthersKept(t)
           /\ wt'[t].blkid = wt[t].blkid /\ wt'[t].zone = wt[t].zone /\ wt'[t].pbid = wt[t].pbid
           /\ wt'[t].error = wt[t].error /\ wt'[t].data = wt[t].data
           /\ \/ /\ ~wt[t].error /\ wt'[t].old = pbids[wt[t].blkid]
                 /\ wt'[t].pc = IF pbids[wt[t].blkid] = INVALID THEN "newrmap" ELSE "oldrmap"
                 /\ pbids' = [pbids EXCEPT ![wt[t].blkid] = wt[t].pbid] /\ UNCHANGED faulty
              \/ wt[t].error /\ wt'[t].pc = "del" /\ wt'[t].old = wt[t].old /\ UNCHANGED pbids
           /\ UNCHANGED <<media, errors, gc_state, oops, zmdVars, gt, rd, inflight>>
<1>1. wt \in [UTasks -> WtRec]
  BY DEF TypeOK, IoTypeOK
<1> DEFINE old == pbids[wt[t].blkid]
           c == IF old = INVALID THEN "newrmap" ELSE "oldrmap"
<1>2. CASE ~wt[t].error
  <2>1. wt' = [wt EXCEPT ![t].old = old, ![t].pc = c]
    BY <1>2 DEF WEndio
  <2>2. /\ wt'[t].pc = c /\ wt'[t].old = old /\ wt'[t].blkid = wt[t].blkid
        /\ wt'[t].zone = wt[t].zone /\ wt'[t].pbid = wt[t].pbid /\ wt'[t].error = wt[t].error
        /\ OthersKept(t) /\ wt'[t].data = wt[t].data
    <3> HIDE DEF old, c
    <3> QED BY <1>1, <2>1 DEF OthersKept, SameTask, WtRec
  <2> QED BY <1>2, <2>2 DEF WEndio, lbz_mapping_add
<1>3. CASE wt[t].error
  BY <1>3, PcFx DEF WEndio, KeepsFields
<1> QED BY <1>2, <1>3

-----------------------------------------------------------------------------
(* The same for the steps of a GC copy.                                    *)

AllUsersKept == \A u \in UTasks : SameTask(wt'[u], wt[u])

\* GC task p is at another step and knows what it knew.
GcKeeps(p) ==
    /\ gt'[p].blkid = gt[p].blkid /\ gt'[p].zone = gt[p].zone /\ gt'[p].pbid = gt[p].pbid
    /\ gt'[p].error = gt[p].error /\ gt'[p].data = gt[p].data

\* GC task p is gone.
GcGone(p) == gt'[p] = NoGcTask /\ GcFrame(p)

\* A step that only moves p.
LEMMA GcPcFx ==
    ASSUME TypeOK, NEW p \in Pbid, NEW c, gt' = [gt EXCEPT ![p].pc = c]
    PROVE  gt'[p].pc = c /\ GcKeeps(p) /\ GcFrame(p)
<1>1. gt \in [Pbid -> GtRec]
  BY DEF TypeOK, IoTypeOK
<1> QED BY <1>1 DEF GcKeeps, GcFrame, GtRec

\* A step that frees p.
LEMMA GcGoneFx ==
    ASSUME TypeOK, NEW p \in Pbid, gt' = [gt EXCEPT ![p] = NoGcTask]
    PROVE  GcGone(p) /\ gt'[p].pc = "none" /\ gt'[p].zone = NULL /\ gt'[p].error = FALSE
<1>1. gt \in [Pbid -> GtRec]
  BY DEF TypeOK, IoTypeOK
<1> QED BY <1>1 DEF GcGone, GcFrame, NoGcTask

\* lbz_gc_read_endio.
LEMMA GReadFx ==
    ASSUME TypeOK, NEW p \in Pbid, GRead(p)
    PROVE  /\ gt[p].pc = "reading" /\ gt'[p].pc = "queued" /\ GcFrame(p)
           /\ gt'[p].blkid = gt[p].blkid /\ gt'[p].zone = gt[p].zone /\ gt'[p].pbid = gt[p].pbid
           /\ gt'[p].error = gt[p].error /\ gt'[p].data \in Values
           /\ UNCHANGED <<lowVars, wt, rd, inflight>>
<1>1. gt \in [Pbid -> GtRec]
  BY DEF TypeOK, IoTypeOK
<1>2. PICK v \in Values : gt' = [gt EXCEPT ![p].data = v, ![p].pc = "queued"]
  BY DEF GRead
<1>3. /\ gt'[p].pc = "queued" /\ gt'[p].data = v /\ GcFrame(p)
      /\ gt'[p].blkid = gt[p].blkid /\ gt'[p].zone = gt[p].zone /\ gt'[p].pbid = gt[p].pbid
      /\ gt'[p].error = gt[p].error
  BY <1>1, <1>2 DEF GcFrame, GtRec
<1> QED BY <1>3 DEF GRead

\* GAgency: the user task finishes p, or p ends at once.
LEMMA GAgencyFx ==
    ASSUME TypeOK, NEW p \in Pbid, GAgency(p)
    PROVE  /\ gt[p].pc = "conflict" /\ AllUsersKept /\ GcFrame(p)
           /\ \/ gt' = [gt EXCEPT ![p] = NoGcTask] /\ ZonePut(p[1])
                 /\ inflight' = [inflight EXCEPT !.gc = @ - 1]
              \/ gt'[p].pc = "agency" /\ GcKeeps(p) /\ ZoneKept /\ InflightKept
           /\ UNCHANGED <<devVars, zrms, listVars, zs, pbids, rd>>
<1> DEFINE u == gt[p].tk
<1>1. wt \in [UTasks -> WtRec] /\ gt \in [Pbid -> GtRec]
  BY DEF TypeOK, IoTypeOK
<1>2. u \in UTasks /\ wt' = [wt EXCEPT ![u] = task_put(u, 1, [@ EXCEPT !.pending_gc_node = p])]
  BY DEF GAgency
<1>3. AllUsersKept
  <2> HIDE DEF u
  <2> DEFINE n == [wt[u] EXCEPT !.pending_gc_node = p]
  <2>1. n \in WtRec /\ SameTask(n, wt[u])
    BY <1>1, <1>2 DEF WtRec, SameTask
  <2>2. wt' = [wt EXCEPT ![u] = task_put(u, 1, n)]
    BY <1>1, <1>2
  <2> HIDE DEF n
  <2>3. SameTask(task_put(u, 1, n), n)
    BY <2>1, TaskPutFields
  <2> QED BY <1>1, <1>2, <2>1, <2>2, <2>3 DEF AllUsersKept, SameTask
<1>4. CASE LastPut(u, 1)
  <2>1. gt' = [gt EXCEPT ![p] = NoGcTask] /\ zone' = [zone EXCEPT ![p[1]] = lbz_put_zone(@)]
        /\ inflight' = [inflight EXCEPT !.gc = @ - 1]
    BY <1>4 DEF GAgency, get_zone_by_pbid
  <2>2. GcFrame(p)
    BY <1>1, <2>1 DEF GcFrame
  <2> QED BY <1>3, <2>1, <2>2 DEF GAgency, ZonePut
<1>5. CASE ~LastPut(u, 1)
  <2>1. gt' = [gt EXCEPT ![p] = [@ EXCEPT !.pc = "agency", !.tk = NULL]] /\ zone' = zone
        /\ inflight' = inflight
    BY <1>5 DEF GAgency
  <2>2. gt'[p].pc = "agency" /\ GcKeeps(p) /\ GcFrame(p)
    BY <1>1, <2>1 DEF GcFrame, GcKeeps, GtRec
  <2> QED BY <1>3, <2>1, <2>2 DEF GAgency, ZoneKept, InflightKept
<1> QED BY <1>4, <1>5

\* Zone counters and flags as they were, reference counts too.
ZonesAlike(zn) ==
    /\ zn \in [Zone -> ZoneRec]
    /\ \A z \in Zone : zn[z].refcount = zone[z].refcount /\ SameZone(zn[z], zone[z])

\* lbz_mapping_lookup and lbz_put_zone cancel out.
LEMMA LookupFx ==
    ASSUME TypeOK, NEW b \in Blks
    PROVE  ZonesAlike(LookupAndPut(b))
<1>1. zone \in [Zone -> ZoneRec] /\ pbids \in [Blks -> Pbid \cup {INVALID}]
  BY DEF TypeOK, ZmdTypeOK, MappingTypeOK
<1>2. CASE Mapped(b)
  <2> DEFINE y == pbids[b][1]
  <2>1. y \in Zone
    BY <1>1, <1>2 DEF Mapped, Pbid
  <2>2. LookupAndPut(b) = [zone EXCEPT ![y] = lbz_put_zone(lbz_get_zone(zone[y]))]
    BY <1>2 DEF LookupAndPut, get_zone_by_pbid
  <2> HIDE DEF y
  <2>3. /\ lbz_get_zone(zone[y]) \in ZoneRec /\ lbz_get_zone(zone[y]).refcount = zone[y].refcount + 1
        /\ SameZone(lbz_get_zone(zone[y]), zone[y])
    BY <1>1, <2>1, ZoneRecOps, GetFields
  <2>4. /\ lbz_put_zone(lbz_get_zone(zone[y])) \in ZoneRec
        /\ lbz_put_zone(lbz_get_zone(zone[y])).refcount = lbz_get_zone(zone[y]).refcount - 1
        /\ SameZone(lbz_put_zone(lbz_get_zone(zone[y])), lbz_get_zone(zone[y]))
    BY <2>3, ZoneRecOps, PutFields
  <2>5. zone[y].refcount \in Int
    BY <1>1, <2>1 DEF ZoneRec
  <2>6. /\ lbz_put_zone(lbz_get_zone(zone[y])).refcount = zone[y].refcount
        /\ SameZone(lbz_put_zone(lbz_get_zone(zone[y])), zone[y])
    BY <2>3, <2>4, <2>5 DEF SameZone
  <2> QED BY <1>1, <2>1, <2>2, <2>4, <2>6 DEF ZonesAlike, SameZone
<1>3. CASE ~Mapped(b)
  BY <1>1, <1>3 DEF LookupAndPut, ZonesAlike, SameZone
<1> QED BY <1>2, <1>3

\* GLookup: p goes on, or is gone with its reference.
LEMMA GLookupFx ==
    ASSUME TypeOK, TaskInv, NEW p \in Pbid, GLookup(p)
    PROVE  /\ gt[p].pc = "lookup" /\ GcFrame(p)
           /\ \/ /\ gt'[p].pc = "alloc" /\ GcKeeps(p) /\ ZonesAlike(zone') /\ InflightKept
                 /\ pbids[gt[p].blkid] = p
              \/ /\ gt' = [gt EXCEPT ![p] = NoGcTask] /\ inflight' = [inflight EXCEPT !.gc = @ - 1]
                 /\ \E zn : ZonesAlike(zn) /\ zone' = [zn EXCEPT ![p[1]] = lbz_put_zone(@)]
           /\ UNCHANGED <<devVars, zrms, listVars, zs, pbids, wt, rd>>
<1>1. gt[p].pc = "lookup"
  BY DEF GLookup
<1>2. gt[p].blkid \in Blks
  BY <1>1 DEF TaskInv, GtFacts
<1>3. ZonesAlike(LookupAndPut(gt[p].blkid))
  BY <1>2, LookupFx
<1>4. CASE pbids[gt[p].blkid] = p
  <2>1. gt' = [gt EXCEPT ![p].pc = "alloc"] /\ zone' = LookupAndPut(gt[p].blkid) /\ inflight' = inflight
    BY <1>4 DEF GLookup
  <2>2. gt'[p].pc = "alloc" /\ GcKeeps(p) /\ GcFrame(p)
    BY <2>1, GcPcFx
  <2> HIDE DEF LookupAndPut
  <2>3. UNCHANGED <<devVars, zrms, listVars, zs, pbids, wt, rd>>
    BY DEF GLookup
  <2>4. ZonesAlike(zone')
    BY <1>3, <2>1
  <2> QED BY <1>1, <1>4, <2>1, <2>2, <2>3, <2>4 DEF InflightKept
<1>5. CASE pbids[gt[p].blkid] # p
  <2> DEFINE zn == LookupAndPut(gt[p].blkid)
  <2>1. gt' = [gt EXCEPT ![p] = NoGcTask] /\ inflight' = [inflight EXCEPT !.gc = @ - 1]
        /\ zone' = [zn EXCEPT ![p[1]] = lbz_put_zone(@)]
    BY <1>5 DEF GLookup, get_zone_by_pbid
  <2>2. GcFrame(p)
    BY <2>1, GcGoneFx DEF GcGone
  <2>3. UNCHANGED <<devVars, zrms, listVars, zs, pbids, wt, rd>>
    BY DEF GLookup
  <2> HIDE DEF zn
  <2> QED BY <1>1, <1>3, <2>1, <2>2, <2>3 DEF zn
<1> QED BY <1>4, <1>5

\* GGotZone: p knows its zone.
LEMMA GGotZoneFx ==
    ASSUME TypeOK, NEW p \in Pbid, NEW s, GGotZone(p, s)
    PROVE  /\ gt'[p].pc = "append" /\ gt'[p].zone = TargetZone(s)
           /\ gt'[p].blkid = gt[p].blkid /\ gt'[p].pbid = gt[p].pbid /\ gt'[p].error = gt[p].error
           /\ gt'[p].data = gt[p].data /\ GcFrame(p) /\ lbz_zone_alloc_res("GC", s)
           /\ UNCHANGED <<media, errors, faulty, oops, zrms, zs, pbids, wt, rd, inflight>>
<1>1. gt \in [Pbid -> GtRec]
  BY DEF TypeOK, IoTypeOK
<1>2. gt' = [gt EXCEPT ![p].zone = TargetZone(s), ![p].pc = "append"]
  BY DEF GGotZone
<1>3. /\ gt'[p].pc = "append" /\ gt'[p].zone = TargetZone(s)
      /\ gt'[p].blkid = gt[p].blkid /\ gt'[p].pbid = gt[p].pbid /\ gt'[p].error = gt[p].error
      /\ gt'[p].data = gt[p].data /\ GcFrame(p)
  <2> HIDE DEF TargetZone
  <2> QED BY <1>1, <1>2 DEF GcFrame, GtRec
<1> QED BY <1>3 DEF GGotZone, lbz_zone_alloc_res, devVars

\* GAppend and GAppendFails: what the device answered.
LEMMA GAppendFx ==
    ASSUME TypeOK, NEW p \in Pbid, GAppend(p) \/ GAppendFails(p)
    PROVE  /\ gt[p].pc = "append" /\ gt'[p].pc = "endio" /\ GcFrame(p)
           /\ gt'[p].blkid = gt[p].blkid /\ gt'[p].zone = gt[p].zone /\ gt'[p].data = gt[p].data
           /\ \/ /\ gt'[p].pbid \in Pbid /\ gt'[p].pbid[1] = gt[p].zone /\ gt'[p].error = gt[p].error
                 /\ ZoneAppend(gt'[p].pbid, gt[p].data) /\ errors' = errors
              \/ /\ gt'[p].pbid = gt[p].pbid /\ gt'[p].error /\ UNCHANGED media
                 /\ errors' = errors + 1
           /\ UNCHANGED <<faulty, gc_state, oops, zmdVars, pbids, wt, rd, inflight>>
<1>1. gt \in [Pbid -> GtRec]
  BY DEF TypeOK, IoTypeOK
<1>2. CASE GAppend(p)
  <2>1. PICK q \in Pbid : /\ get_zone_by_pbid(q) = gt[p].zone /\ ZoneAppend(q, gt[p].data)
                          /\ gt' = [gt EXCEPT ![p].pbid = q, ![p].pc = "endio"]
    BY <1>2 DEF GAppend
  <2>2. /\ gt'[p].pc = "endio" /\ gt'[p].pbid = q /\ gt'[p].blkid = gt[p].blkid /\ gt'[p].data = gt[p].data
        /\ gt'[p].zone = gt[p].zone /\ gt'[p].error = gt[p].error /\ GcFrame(p)
    BY <1>1, <2>1 DEF GcFrame, GtRec
  <2> QED BY <1>2, <2>1, <2>2 DEF GAppend, get_zone_by_pbid
<1>3. CASE GAppendFails(p)
  <2>1. gt' = [gt EXCEPT ![p].error = TRUE, ![p].pc = "endio"]
    BY <1>3 DEF GAppendFails
  <2>2. /\ gt'[p].pc = "endio" /\ gt'[p].pbid = gt[p].pbid /\ gt'[p].blkid = gt[p].blkid
        /\ gt'[p].zone = gt[p].zone /\ gt'[p].error /\ GcFrame(p) /\ gt'[p].data = gt[p].data
    BY <1>1, <2>1 DEF GcFrame, GtRec
  <2> QED BY <1>3, <2>2 DEF GAppendFails, CommandFails
<1> QED BY <1>2, <1>3

\* GCbPut: both zones lose a reference; a failed copy has the device made faulty.
LEMMA GCbPutFx ==
    ASSUME TypeOK, NEW p \in Pbid, GCbPut(p)
    PROVE  /\ gt[p].pc = "cb_put" /\ GcFrame(p) /\ gt'[p].zone = NULL /\ gt'[p].error = FALSE
           /\ \/ gt[p].error /\ gt'[p].pc = "fault" /\ InflightKept
              \/ ~gt[p].error /\ gt'[p].pc = "none" /\ inflight' = [inflight EXCEPT !.gc = @ - 1]
           /\ zone' = [[zone EXCEPT ![gt[p].zone] = lbz_put_zone(@)] EXCEPT ![p[1]] = lbz_put_zone(@)]
           /\ UNCHANGED <<devVars, zrms, listVars, zs, pbids, wt, rd>>
<1>1. gt \in [Pbid -> GtRec]
  BY DEF TypeOK, IoTypeOK
<1>2. gt' = [gt EXCEPT ![p] = [NoGcTask EXCEPT !.pc = IF gt[p].error THEN "fault" ELSE "none"]]
  BY DEF GCbPut
<1>3. GcFrame(p) /\ gt'[p].zone = NULL /\ gt'[p].error = FALSE
      /\ gt'[p].pc = IF gt[p].error THEN "fault" ELSE "none"
  BY <1>1, <1>2 DEF GcFrame, NoGcTask
<1> QED BY <1>1, <1>3 DEF GCbPut, InflightKept, get_zone_by_pbid, GtRec

\* The retry worker submits the first finished GC read.
LEMMA WkGcFx ==
    ASSUME TypeOK, TaskInv, WkGc
    PROVE  \E p \in Pbid :
               /\ gt[p].pc = "queued" /\ gt'[p].pc \in {"lookup", "conflict"}
               /\ GcKeeps(p) /\ GcFrame(p) /\ AllUsersKept
               /\ UNCHANGED <<media, errors, faulty, gc_state, zmdVars, pbids, rd, inflight>>
<1> DEFINE p == Head(wk.gcs)
           own == tree[gt[p].blkid]
<1>1. wk.gcs \in Seq(Pbid) /\ wk.gcs # <<>> /\ wt \in [UTasks -> WtRec] /\ gt \in [Pbid -> GtRec]
  BY DEF WkGc, TypeOK, IoTypeOK, WkRec
<1>2. p \in Pbid /\ OnList(wk.gcs, p)
  BY <1>1, TailList
<1>3. gt[p].pc = "queued"
  BY <1>2 DEF TaskInv, QueuedOnce
<1>4. \/ gt' = [gt EXCEPT ![p].pc = "lookup"] /\ wt' = wt
      \/ /\ gt' = [gt EXCEPT ![p].pc = "conflict", ![p].tk = own]
         /\ wt' = IF own \in UTasks THEN [wt EXCEPT ![own].refcount = @ + 1] ELSE wt
  BY DEF WkGc, GInsert
<1>5. UNCHANGED <<media, errors, faulty, gc_state, zmdVars, pbids, rd, inflight>>
  BY DEF WkGc
<1> HIDE DEF p, own
<1>6. gt'[p].pc \in {"lookup", "conflict"} /\ GcKeeps(p) /\ GcFrame(p)
  BY <1>1, <1>2, <1>4 DEF GcKeeps, GcFrame, GtRec
<1>7. AllUsersKept
  BY <1>1, <1>4 DEF AllUsersKept, SameTask, WtRec
<1> QED BY <1>2, <1>3, <1>5, <1>6, <1>7

\* __gc_one_zone: an entry that is not valid, or a new copy with a reference.
LEMMA GcIterFx ==
    ASSUME TypeOK, GcFacts, ZoneMarks, GcIter
    PROVE  /\ gc.pc = "iter" /\ gc.gc_zone \in Zone /\ gc'.pc = gc.pc /\ gc'.gc_zone = gc.gc_zone
           /\ \/ ZoneKept /\ gt' = gt /\ InflightKept
              \/ \E p \in Pbid :
                    /\ p[1] = gc.gc_zone /\ gt[p].pc = "none" /\ GcFrame(p)
                    /\ gt'[p].pc = "reading" /\ gt'[p].zone = NULL /\ gt'[p].error = FALSE
                    /\ zone' = [zone EXCEPT ![p[1]] = lbz_get_zone(@)]
                    /\ inflight' = [inflight EXCEPT !.gc = @ + 1]
           /\ UNCHANGED <<devVars, zrms, listVars, zs, pbids, wt, rd>>
<1> DEFINE p == <<gc.gc_zone, gc.iter>>
<1>1. gc \in GcRec /\ gt \in [Pbid -> GtRec] /\ zone \in [Zone -> ZoneRec]
  BY DEF TypeOK, GcTypeOK, IoTypeOK, ZmdTypeOK
<1>2. gc.pc = "iter" /\ gc.gc_zone \in Zone /\ gc.iter < zone[gc.gc_zone].wp_block
  BY DEF GcIter, GcFacts
<1>3. gc'.pc = gc.pc /\ gc'.gc_zone = gc.gc_zone
  BY <1>1 DEF GcIter, GcRec
<1>4. p \in Pbid /\ p[1] = gc.gc_zone
  <2>1. gc.iter \in Nat /\ zone[gc.gc_zone].wp_block \in 0 .. ZoneNrBlocks
    BY <1>1, <1>2 DEF GcRec, ZoneMarks
  <2>2. gc.iter \in Offset
    BY <1>2, <2>1, DevAssumption DEF Offset
  <2> QED BY <1>2, <2>2 DEF Pbid
<1>5. \/ zone' = zone /\ gt' = gt /\ inflight' = inflight
      \/ /\ gt[p].pc = "none"
         /\ zone' = [zone EXCEPT ![p[1]] = lbz_get_zone(@)]
         /\ gt' = [gt EXCEPT ![p] = [NoGcTask EXCEPT !.pc = "reading", !.blkid = zrms[p]]]
         /\ inflight' = [inflight EXCEPT !.gc = @ + 1]
  BY DEF GcIter
<1>6. UNCHANGED <<devVars, zrms, listVars, zs, pbids, wt, rd>>
  BY DEF GcIter
<1> HIDE DEF p
<1>7. CASE zone' = zone /\ gt' = gt /\ inflight' = inflight
  BY <1>2, <1>3, <1>6, <1>7 DEF ZoneKept, InflightKept
<1>8. CASE /\ gt[p].pc = "none"
           /\ zone' = [zone EXCEPT ![p[1]] = lbz_get_zone(@)]
           /\ gt' = [gt EXCEPT ![p] = [NoGcTask EXCEPT !.pc = "reading", !.blkid = zrms[p]]]
           /\ inflight' = [inflight EXCEPT !.gc = @ + 1]
  <2>1. GcFrame(p) /\ gt'[p].pc = "reading" /\ gt'[p].zone = NULL /\ gt'[p].error = FALSE
    BY <1>1, <1>4, <1>8 DEF GcFrame, NoGcTask
  <2> QED BY <1>2, <1>3, <1>4, <1>6, <1>8, <2>1
<1> QED BY <1>5, <1>7, <1>8

-----------------------------------------------------------------------------
(* The facts about tasks, reads, the GC thread and errors.                 *)

\* Only task t changed.
LEMMA WtZonesStep ==
    ASSUME WtZones, NEW t \in UTasks, OthersKept(t),
           wt'[t].pc \in {"none", "conflict", "queued", "alloc", "alloc2"} => wt'[t].zone = NULL,
           wt'[t].pc \in {"append", "endio", "oldrmap", "oldweight", "newrmap", "del", "complete", "put"}
              => wt'[t].zone \in Zone,
           (wt'[t].pc = "endio" /\ ~wt'[t].error) \/ wt'[t].pc \in {"oldrmap", "oldweight", "newrmap"}
              => wt'[t].pbid \in Pbid /\ wt'[t].pbid[1] = wt'[t].zone,
           wt'[t].pc \in {"oldrmap", "oldweight"} => wt'[t].old \in Pbid
    PROVE  WtZones'
  BY DEF WtZones, OthersKept, SameTask

\* Only GC task p changed.
LEMMA GtZonesStep ==
    ASSUME GtZones, NEW p \in Pbid, GcFrame(p),
           gt'[p].pc \in {"none", "reading", "queued", "conflict", "agency", "lookup", "alloc", "alloc2",
                         "fault"} => gt'[p].zone = NULL,
           gt'[p].pc \in {"append", "endio", "cb_rmap", "cb_map", "cb_old", "cb_put"}
              => gt'[p].zone \in Zone,
           (gt'[p].pc = "endio" /\ ~gt'[p].error) \/ gt'[p].pc \in {"cb_rmap", "cb_map", "cb_old"}
              => gt'[p].pbid \in Pbid /\ gt'[p].pbid[1] = gt'[p].zone
    PROVE  GtZones'
  BY DEF GtZones, GcFrame

\* No task changed.
LEMMA ZonesSame ==
    /\ WtZones /\ AllUsersKept => WtZones'
    /\ GtZones /\ gt' = gt => GtZones'
    /\ ReadFacts /\ rd' = rd => ReadFacts'
    /\ GcFacts /\ gc' = gc => GcFacts'
    /\ wt' = wt => AllUsersKept
  BY DEF WtZones, AllUsersKept, SameTask, GtZones, ReadFacts, GcFacts

\* The callback frees a task.
LEMMA CallbackZones ==
    ASSUME TypeOK, GtZones, NoCallback \/ \E p \in Pbid : Callback(p)
    PROVE  GtZones'
<1>1. CASE NoCallback
  BY <1>1, ZonesSame DEF NoCallback
<1>2. ASSUME NEW p \in Pbid, Callback(p) PROVE GtZones'
  <2>1. GcGone(p) /\ gt'[p].pc = "none" /\ gt'[p].zone = NULL
    BY <1>2, GcGoneFx DEF Callback
  <2> QED BY <2>1, GtZonesStep DEF GcGone
<1> QED BY <1>1, <1>2

\* Errors are only counted up, and nothing marks a task that saw none.
LEMMA ErrorsStep ==
    ASSUME TypeOK, TypeOK', ErrorsSeen,
           \/ errors' = errors + 1
           \/ /\ errors' = errors
              /\ errors = 0 => ~faulty'
              /\ errors = 0 => \A t \in UTasks : ~wt'[t].error
              /\ errors = 0 => \A p \in Pbid : ~gt'[p].error /\ gt'[p].pc # "fault"
    PROVE  ErrorsSeen'
<1>1. errors \in Nat /\ errors' \in Nat
  BY DevAssumption DEF TypeOK, DevTypeOK
<1> QED BY <1>1 DEF ErrorsSeen

\* The callback marks no task.
LEMMA CallbackErrors ==
    ASSUME TypeOK, ErrorsSeen, errors = 0, NoCallback \/ \E p \in Pbid : Callback(p)
    PROVE  \A p \in Pbid : ~gt'[p].error /\ gt'[p].pc # "fault"
<1>1. CASE NoCallback
  BY <1>1 DEF NoCallback, ErrorsSeen
<1>2. ASSUME NEW p \in Pbid, Callback(p) PROVE \A q \in Pbid : ~gt'[q].error /\ gt'[q].pc # "fault"
  <2>1. GcGone(p) /\ gt'[p].pc = "none" /\ gt'[p].error = FALSE
    BY <1>2, GcGoneFx DEF Callback
  <2> QED BY <2>1 DEF GcGone, GcFrame, ErrorsSeen
<1> QED BY <1>1, <1>2

\* A write that was given a block.
LEMMA WGotZoneFacts ==
    ASSUME TypeOK, TypeOK', TaskInv, FactsInv, NEW t \in UTasks, NEW s \in Streams, WGotZone(t, s),
           UNCHANGED gc
    PROVE  FactsInv'
<1> USE DEF FactsInv
<1>1. /\ wt'[t].pc = "append" /\ wt'[t].zone = TargetZone(s) /\ wt'[t].error = wt[t].error
      /\ OthersKept(t) /\ lbz_zone_alloc_res(AllocFlag(t), s)
      /\ UNCHANGED <<errors, faulty, gt, rd>>
  BY WGotZoneFx
<1>2. TargetZone(s) \in Zone
  BY <1>1, AllocType
<1>3. WtZones'
  BY <1>1, <1>2, WtZonesStep
<1>4. GtZones' /\ ReadFacts'
  BY <1>1, ZonesSame
<1>5. ErrorsSeen'
  BY <1>1, ErrorsStep DEF ErrorsSeen, OthersKept, SameTask
<1> QED BY <1>3, <1>4, <1>5, ZonesSame

\* The steps of user writes keep the facts.
LEMMA WriteFacts ==
    ASSUME TypeOK, TypeOK', TaskInv, FactsInv, NEW t \in UTasks, SubmitWrite(t) \/ WriteStep(t),
           UNCHANGED gc
    PROVE  FactsInv'
<1> USE DEF FactsInv
<1>1. GcFacts'
  BY ZonesSame
<1>2. CASE SubmitWrite(t)
  <2>1. /\ wt'[t].pc \in {"alloc", "conflict"} /\ OthersKept(t) /\ Blank(t)
        /\ UNCHANGED <<errors, faulty, gt, rd>>
    BY <1>2, SubmitFx DEF lowVars, devVars
  <2>2. WtZones' /\ GtZones' /\ ReadFacts'
    BY <2>1, WtZonesStep, ZonesSame DEF Blank
  <2>3. ErrorsSeen'
    BY <2>1, ErrorsStep DEF ErrorsSeen, OthersKept, SameTask, Blank
  <2> QED BY <1>1, <2>2, <2>3
<1>3. CASE WConflict(t) \/ WDel(t)
  <2>1. /\ \/ wt[t].pc = "conflict" /\ wt'[t].pc = "queued"
           \/ wt[t].pc = "del" /\ wt'[t].pc = "complete"
        /\ KeepsFields(t) /\ OthersKept(t)
        /\ NoCallback \/ \E p \in Pbid : Callback(p)
        /\ UNCHANGED <<devVars, rd>>
    BY <1>3, WConflictFx, WDelFx
  <2>2. WtZones'
    BY <2>1, WtZonesStep DEF KeepsFields, WtZones
  <2>3. GtZones' /\ ReadFacts'
    BY <2>1, CallbackZones, ZonesSame
  <2>4. ErrorsSeen'
    BY <2>1, ErrorsStep, CallbackErrors DEF ErrorsSeen, OthersKept, SameTask, KeepsFields, devVars
  <2> QED BY <1>1, <2>2, <2>3, <2>4
<1>5. ASSUME NEW s \in Streams, WGotZone(t, s) PROVE FactsInv'
  BY <1>5, WGotZoneFacts
<1>6. CASE WAlloc(t)
  <2>1. wt[t].blkid \in Blks /\ wt[t].pc = "alloc"
    BY <1>6 DEF WAlloc, TaskInv, WtFacts
  <2>2. StreamId[wt[t].blkid] \in Streams
    BY <2>1, IoAssumption
  <2>3. CASE wt' = [wt EXCEPT ![t].pc = "alloc2"] /\ UNCHANGED <<lowVars, gt, rd>>
    <3>1. wt'[t].pc = "alloc2" /\ KeepsFields(t) /\ OthersKept(t) /\ UNCHANGED <<errors, faulty, gt, rd>>
      BY <2>3, PcFx DEF lowVars, devVars
    <3>2. WtZones' /\ GtZones' /\ ReadFacts'
      BY <2>1, <3>1, WtZonesStep, ZonesSame DEF KeepsFields, WtZones
    <3>3. ErrorsSeen'
      BY <3>1, ErrorsStep DEF ErrorsSeen, OthersKept, SameTask, KeepsFields
    <3> QED BY <1>1, <3>2, <3>3
  <2> QED BY <1>5, <1>6, <2>2, <2>3 DEF WAlloc
<1>7. CASE WAlloc2(t)
  <2>1. wt[t].blkid \in Blks /\ wt[t].pc = "alloc2"
    BY <1>7 DEF WAlloc2, TaskInv, WtFacts
  <2>2. OtherStream(StreamId[wt[t].blkid]) \in Streams
    BY <2>1, IoAssumption DEF OtherStream, Streams, LBZ_ZONE_MAX_STREAM
  <2>3. CASE WAllocEagain(t) /\ UNCHANGED <<errors, faulty, rd>>
    <3>1. wt'[t].pc = "queued" /\ KeepsFields(t) /\ OthersKept(t) /\ UNCHANGED <<errors, faulty, gt, rd>>
      BY <2>3, PcFx DEF WAllocEagain
    <3>2. WtZones' /\ GtZones' /\ ReadFacts'
      BY <2>1, <3>1, WtZonesStep, ZonesSame DEF KeepsFields, WtZones
    <3>3. ErrorsSeen'
      BY <3>1, ErrorsStep DEF ErrorsSeen, OthersKept, SameTask, KeepsFields
    <3> QED BY <1>1, <3>2, <3>3
  <2>4. CASE WAllocEio(t) /\ UNCHANGED <<errors, faulty, rd>>
    <3>1. /\ wt'[t].pc = "none" /\ Blank(t) /\ OthersKept(t)
          /\ NoCallback \/ \E p \in Pbid : Callback(p)
      BY <2>4, WAllocEioFx
    <3>2. WtZones' /\ GtZones' /\ ReadFacts'
      BY <2>4, <3>1, WtZonesStep, CallbackZones, ZonesSame DEF Blank
    <3>3. ErrorsSeen'
      BY <2>4, <3>1, ErrorsStep, CallbackErrors DEF ErrorsSeen, OthersKept, SameTask, Blank
    <3> QED BY <1>1, <3>2, <3>3
  <2> QED BY <1>5, <1>7, <2>2, <2>3, <2>4 DEF WAlloc2
<1>8. CASE WAppend(t) \/ WAppendFails(t)
  <2>1. /\ wt[t].pc = "append" /\ wt'[t].pc = "endio" /\ OthersKept(t)
        /\ wt'[t].zone = wt[t].zone /\ UNCHANGED <<faulty, gt, rd>>
        /\ \/ /\ wt'[t].pbid \in Pbid /\ wt'[t].pbid[1] = wt[t].zone /\ wt'[t].error = wt[t].error
              /\ errors' = errors
           \/ wt'[t].error /\ errors' = errors + 1
    BY <1>8, WAppendFx
  <2>2. WtZones' /\ GtZones' /\ ReadFacts'
    BY <2>1, WtZonesStep, ZonesSame DEF WtZones
  <2>3. ErrorsSeen'
    BY <2>1, ErrorsStep DEF ErrorsSeen, OthersKept, SameTask
  <2> QED BY <1>1, <2>2, <2>3
<1>9. CASE WEndio(t)
  <2>1. /\ wt[t].pc = "endio" /\ OthersKept(t)
        /\ wt'[t].zone = wt[t].zone /\ wt'[t].pbid = wt[t].pbid /\ wt'[t].error = wt[t].error
        /\ \/ /\ ~wt[t].error /\ wt'[t].old = pbids[wt[t].blkid] /\ UNCHANGED faulty
              /\ wt'[t].pc = IF pbids[wt[t].blkid] = INVALID THEN "newrmap" ELSE "oldrmap"
           \/ wt[t].error /\ wt'[t].pc = "del"
        /\ UNCHANGED <<errors, gt, rd>>
    BY <1>9, WEndioFx
  <2>2. pbids[wt[t].blkid] \in Pbid \cup {INVALID}
    BY <2>1 DEF TaskInv, WtFacts, TypeOK, MappingTypeOK
  <2>3. WtZones' /\ GtZones' /\ ReadFacts'
    BY <2>1, <2>2, WtZonesStep, ZonesSame DEF WtZones
  <2>4. ErrorsSeen'
    BY <2>1, ErrorsStep DEF ErrorsSeen, OthersKept, SameTask
  <2> QED BY <1>1, <2>3, <2>4
<1>10. ASSUME NEW from, NEW to, wt[t].pc = from, wt' = [wt EXCEPT ![t].pc = to],
              \/ from \in {"oldrmap", "oldweight", "newrmap"} /\ to \in {"newrmap", "del"}
              \/ from = "oldrmap" /\ to = "oldweight"
              \/ from = "complete" /\ to = "put",
              from = "newrmap" => to = "del",
              UNCHANGED <<errors, faulty, gt, rd>>
       PROVE  FactsInv'
  <2>1. wt'[t].pc = to /\ KeepsFields(t) /\ OthersKept(t)
    BY <1>10, PcFx
  <2>2. WtZones'
    BY <1>10, <2>1, WtZonesStep DEF KeepsFields, WtZones
  <2>3. GtZones' /\ ReadFacts'
    BY <1>10, ZonesSame
  <2>4. ErrorsSeen'
    BY <1>10, <2>1, ErrorsStep DEF ErrorsSeen, OthersKept, SameTask, KeepsFields
  <2> QED BY <1>1, <2>2, <2>3, <2>4
<1>11. CASE WOldRmap(t) \/ WOldWeight(t) \/ WNewRmap(t) \/ WComplete(t)
  BY <1>10, <1>11 DEF WOldRmap, WOldWeight, WNewRmap, WComplete, devVars
<1>12. CASE WPut(t)
  <2>1. wt'[t].pc = "none" /\ Blank(t) /\ OthersKept(t) /\ UNCHANGED <<errors, faulty, gt, rd>>
    BY <1>12, WPutFx DEF devVars
  <2>2. WtZones' /\ GtZones' /\ ReadFacts'
    BY <2>1, WtZonesStep, ZonesSame DEF Blank
  <2>3. ErrorsSeen'
    BY <2>1, ErrorsStep DEF ErrorsSeen, OthersKept, SameTask, Blank
  <2> QED BY <1>1, <2>2, <2>3
<1> QED BY <1>2, <1>3, <1>6, <1>7, <1>8, <1>9, <1>11, <1>12 DEF WriteStep

\* The steps of GC copies keep the facts.
LEMMA CopyFacts ==
    ASSUME TypeOK, TypeOK', TaskInv, FactsInv, NEW p \in Pbid, GcCopy(p), UNCHANGED gc
    PROVE  FactsInv'
<1> USE DEF FactsInv
<1>1. GcFacts'
  BY ZonesSame
<1>2. gt \in [Pbid -> GtRec]
  BY DEF TypeOK, IoTypeOK
<1>3. ASSUME UNCHANGED <<errors, faulty, wt, rd>>, GcFrame(p), ~gt'[p].error \/ gt'[p].error = gt[p].error,
             errors = 0 => gt'[p].pc # "fault", GtZones'
      PROVE  FactsInv'
  <2>1. WtZones' /\ ReadFacts'
    BY <1>3, ZonesSame
  <2>2. ErrorsSeen'
    BY <1>3, ErrorsStep DEF ErrorsSeen, GcFrame
  <2> QED BY <1>1, <1>3, <2>1, <2>2
<1>4. ASSUME UNCHANGED <<wt, rd>>, errors' = errors + 1, GtZones'
      PROVE  FactsInv'
  BY <1>1, <1>4, ZonesSame, ErrorsStep
<1>5. CASE GRead(p)
  <2>1. /\ gt[p].pc = "reading" /\ gt'[p].pc = "queued" /\ GcFrame(p) /\ gt'[p].zone = gt[p].zone
        /\ gt'[p].error = gt[p].error /\ UNCHANGED <<errors, faulty, wt, rd>>
    BY <1>5, GReadFx DEF lowVars, devVars
  <2>2. GtZones'
    BY <2>1, GtZonesStep DEF GtZones
  <2> QED BY <1>3, <2>1, <2>2
<1>6. CASE GReadFails(p)
  <2>1. gt[p].pc = "reading" /\ gt' = [gt EXCEPT ![p].pc = "fault"] /\ errors' = errors + 1 /\ UNCHANGED <<wt, rd>>
    BY <1>6 DEF GReadFails, CommandFails
  <2>2. gt'[p].pc = "fault" /\ GcKeeps(p) /\ GcFrame(p)
    BY <2>1, GcPcFx
  <2>3. GtZones'
    BY <2>1, <2>2, GtZonesStep DEF GcKeeps, GtZones
  <2> QED BY <1>4, <2>1, <2>3
<1>7. CASE GFault(p)
  <2>1. gt[p].pc = "fault" /\ gt' = [gt EXCEPT ![p] = NoGcTask] /\ UNCHANGED <<errors, wt, rd>>
    BY <1>7 DEF GFault
  <2>2. GcGone(p) /\ gt'[p].pc = "none" /\ gt'[p].zone = NULL
    BY <2>1, GcGoneFx
  <2>3. GtZones'
    BY <2>2, GtZonesStep DEF GcGone
  <2>4. errors # 0
    BY <2>1 DEF ErrorsSeen
  <2>5. ErrorsSeen'
    BY <2>1, <2>4 DEF ErrorsSeen
  <2> QED BY <1>1, <2>1, <2>3, <2>5, ZonesSame
<1>8. CASE GAgency(p)
  <2>1. /\ gt[p].pc = "conflict" /\ AllUsersKept /\ GcFrame(p) /\ UNCHANGED <<errors, faulty, rd>>
        /\ \/ gt' = [gt EXCEPT ![p] = NoGcTask]
           \/ gt'[p].pc = "agency" /\ GcKeeps(p)
    BY <1>8, GAgencyFx DEF devVars
  <2>2. /\ gt'[p].pc \in {"none", "agency"} /\ gt'[p].zone = NULL
        /\ gt'[p].error = FALSE \/ gt'[p].error = gt[p].error
    BY <2>1, GcGoneFx DEF GcKeeps, GtZones
  <2>3. GtZones'
    BY <2>1, <2>2, GtZonesStep
  <2>4. ErrorsSeen'
    BY <2>1, <2>2, ErrorsStep DEF ErrorsSeen, GcFrame, AllUsersKept, SameTask
  <2> QED BY <1>1, <2>1, <2>3, <2>4, ZonesSame
<1>9. CASE GLookup(p)
  <2>1. /\ gt[p].pc = "lookup" /\ GcFrame(p) /\ UNCHANGED <<errors, faulty, wt, rd>>
        /\ \/ gt' = [gt EXCEPT ![p] = NoGcTask]
           \/ gt'[p].pc = "alloc" /\ GcKeeps(p)
    BY <1>9, GLookupFx DEF devVars
  <2>2. /\ gt'[p].pc \in {"none", "alloc"} /\ gt'[p].zone = NULL
        /\ gt'[p].error = FALSE \/ gt'[p].error = gt[p].error
    BY <2>1, GcGoneFx DEF GcKeeps, GtZones
  <2>3. GtZones'
    BY <2>1, <2>2, GtZonesStep
  <2> QED BY <1>3, <2>1, <2>2, <2>3
<1>10. ASSUME NEW s \in Streams, GGotZone(p, s), gt[p].pc \in {"alloc", "alloc2"} PROVE FactsInv'
  <2>1. /\ gt'[p].pc = "append" /\ gt'[p].zone = TargetZone(s) /\ gt'[p].error = gt[p].error
        /\ GcFrame(p) /\ lbz_zone_alloc_res("GC", s) /\ UNCHANGED <<errors, faulty, wt, rd>>
    BY <1>10, GGotZoneFx
  <2>2. TargetZone(s) \in Zone
    BY <2>1, <1>10, AllocType
  <2>3. GtZones'
    BY <2>1, <2>2, GtZonesStep
  <2> QED BY <1>3, <2>1, <2>3
<1>11. CASE GAlloc(p)
  <2>1. gt[p].blkid \in Blks /\ gt[p].pc = "alloc"
    BY <1>11 DEF GAlloc, TaskInv, GtFacts
  <2>2. StreamId[gt[p].blkid] \in Streams
    BY <2>1, IoAssumption
  <2>3. CASE gt' = [gt EXCEPT ![p].pc = "alloc2"] /\ UNCHANGED <<lowVars, wt, rd>>
    <3>1. gt'[p].pc = "alloc2" /\ GcKeeps(p) /\ GcFrame(p) /\ UNCHANGED <<errors, faulty, wt, rd>>
      BY <2>3, GcPcFx DEF lowVars, devVars
    <3>2. GtZones'
      BY <2>1, <3>1, GtZonesStep DEF GcKeeps, GtZones
    <3> QED BY <1>3, <3>1, <3>2 DEF GcKeeps
  <2> QED BY <1>10, <1>11, <2>1, <2>2, <2>3 DEF GAlloc
<1>12. CASE GAlloc2(p)
  <2>1. gt[p].blkid \in Blks /\ gt[p].pc = "alloc2"
    BY <1>12 DEF GAlloc2, TaskInv, GtFacts
  <2>2. OtherStream(StreamId[gt[p].blkid]) \in Streams
    BY <2>1, IoAssumption DEF OtherStream, Streams, LBZ_ZONE_MAX_STREAM
  <2>3. CASE UNCHANGED <<errors, faulty, ioVars>>
    <3>1. UNCHANGED <<errors, faulty, wt, gt, rd>>
      BY <2>3 DEF ioVars
    <3>2. GtZones'
      BY <3>1, ZonesSame
    <3> QED BY <1>3, <2>1, <3>1, <3>2 DEF GcFrame
  <2> QED BY <1>10, <1>12, <2>1, <2>2, <2>3 DEF GAlloc2
<1>13. CASE GAppend(p) \/ GAppendFails(p)
  <2>1. /\ gt[p].pc = "append" /\ gt'[p].pc = "endio" /\ GcFrame(p) /\ gt'[p].zone = gt[p].zone
        /\ UNCHANGED <<faulty, wt, rd>>
        /\ \/ /\ gt'[p].pbid \in Pbid /\ gt'[p].pbid[1] = gt[p].zone /\ gt'[p].error = gt[p].error
              /\ errors' = errors
           \/ gt'[p].error /\ errors' = errors + 1
    BY <1>13, GAppendFx
  <2>2. GtZones'
    BY <2>1, GtZonesStep DEF GtZones
  <2> QED BY <1>3, <1>4, <2>1, <2>2
<1>14. ASSUME NEW to, gt' = [gt EXCEPT ![p].pc = to], UNCHANGED <<errors, faulty, wt, rd>>,
              \/ gt[p].pc = "endio" /\ to = "cb_put"
              \/ gt[p].pc = "endio" /\ ~gt[p].error /\ to = "cb_rmap"
              \/ gt[p].pc = "cb_rmap" /\ to = "cb_map"
              \/ gt[p].pc = "cb_map" /\ to \in {"cb_put", "cb_old"}
              \/ gt[p].pc = "cb_old" /\ to = "cb_put"
       PROVE  FactsInv'
  <2>1. gt'[p].pc = to /\ GcKeeps(p) /\ GcFrame(p)
    BY <1>14, GcPcFx
  <2>2. GtZones'
    BY <1>14, <2>1, GtZonesStep DEF GcKeeps, GtZones
  <2>3. to # "fault"
    BY <1>14
  <2> QED BY <1>3, <1>14, <2>1, <2>2, <2>3 DEF GcKeeps
<1>15. CASE GEndio(p)
  <2>1. gt[p].error \in BOOLEAN
    BY <1>2 DEF GtRec
  <2> QED BY <1>14, <1>15, <2>1 DEF GEndio, devVars
<1>16. CASE GCbRmap(p) \/ GCbMap(p) \/ GCbOld(p)
  BY <1>14, <1>16 DEF GCbRmap, GCbMap, GCbOld, devVars
<1>17. CASE GCbPut(p)
  <2>1. /\ gt[p].pc = "cb_put" /\ GcFrame(p) /\ gt'[p].zone = NULL /\ gt'[p].error = FALSE
        /\ (gt[p].error /\ gt'[p].pc = "fault") \/ gt'[p].pc = "none"
        /\ UNCHANGED <<errors, faulty, wt, rd>>
    BY <1>17, GCbPutFx DEF devVars
  <2>2. GtZones'
    BY <2>1, GtZonesStep
  <2> QED BY <1>3, <2>1, <2>2 DEF ErrorsSeen
<1> QED BY <1>5, <1>6, <1>7, <1>8, <1>9, <1>11, <1>12, <1>13, <1>15, <1>16, <1>17 DEF GcCopy

\* A step that moves no task and sees no error.
LEMMA QuietFacts ==
    ASSUME TypeOK, TypeOK', FactsInv, UNCHANGED <<errors, faulty, gt, rd, gc>>, AllUsersKept
    PROVE  FactsInv'
<1> USE DEF FactsInv
<1>1. ErrorsSeen'
  BY ErrorsStep DEF ErrorsSeen, AllUsersKept, SameTask
<1> QED BY <1>1, ZonesSame

\* Every step keeps the facts.
LEMMA NextFacts ==
    ASSUME TypeOK, TypeOK', TaskInv, FactsInv, ZoneMarks, [Next]_vars
    PROVE  FactsInv'
<1> USE DEF FactsInv
<1>1. CASE UNCHANGED vars
  BY <1>1, QuietFacts, ZonesSame DEF vars, ioVars, devVars
<1>2. CASE ZoneStateWork /\ UNCHANGED <<pbids, ioVars, gc>>
  <2>1. UNCHANGED <<wt, gt, rd, gc>>
    BY <1>2 DEF ioVars
  <2>2. CASE ZsResetFails
    BY <2>1, <2>2, ZonesSame, ErrorsStep DEF ZsResetFails, CommandFails
  <2>3. CASE ~ZsResetFails
    <3>1. UNCHANGED <<errors, faulty>>
      BY <1>2, <2>3 DEF ZoneStateWork, ZsStart, ZsScanToFull, ZsScanRefcount, ZsClose, ZsGcZone, ZsReset,
                        ZsRelease, devVars
    <3> QED BY <2>1, <3>1, QuietFacts, ZonesSame
  <2> QED BY <2>2, <2>3
<1>3. ASSUME NEW z \in Zone, PutZoneEnd(z), UNCHANGED <<pbids, ioVars, gc>> PROVE FactsInv'
  BY <1>3, QuietFacts, ZonesSame DEF PutZoneEnd, ioVars, devVars
<1>4. ASSUME NEW t \in UTasks, SubmitWrite(t) \/ WriteStep(t), UNCHANGED gc PROVE FactsInv'
  BY <1>4, WriteFacts
<1>5. ASSUME NEW r \in Readers, SubmitRead(r), UNCHANGED gc PROVE FactsInv'
  <2>1. PICK b \in Blks : lbz_submit_read(r, b)
    BY <1>5 DEF SubmitRead
  <2>2. UNCHANGED <<errors, faulty, wt, gt, gc>> /\ Mapped(b)
        /\ rd' = [rd EXCEPT ![r] = [pc |-> "reading", blkid |-> b, pbid |-> pbids[b]]]
    BY <1>5, <2>1 DEF lbz_submit_read, lbz_mapping_lookup, devVars
  <2>3. ReadFacts'
    <3>1. pbids[b] \in Pbid
      BY <2>2 DEF Mapped, TypeOK, MappingTypeOK
    <3> QED BY <2>2, <3>1 DEF ReadFacts, TypeOK, IoTypeOK
  <2>4. ErrorsSeen'
    BY <2>2, ErrorsStep DEF ErrorsSeen
  <2> QED BY <2>2, <2>3, <2>4, ZonesSame
<1>6. ASSUME NEW r \in Readers, lbz_read_io_endio(r), UNCHANGED gc PROVE FactsInv'
  <2>1. /\ UNCHANGED <<wt, gt, gc>> /\ rd' = [rd EXCEPT ![r] = NoRead]
        /\ UNCHANGED <<errors, faulty>> \/ errors' = errors + 1
    BY <1>6 DEF lbz_read_io_endio, CommandFails
  <2>2. ReadFacts'
    BY <2>1 DEF ReadFacts, TypeOK, IoTypeOK, NoRead
  <2>3. ErrorsSeen'
    BY <2>1, ErrorsStep DEF ErrorsSeen
  <2> QED BY <2>1, <2>2, <2>3, ZonesSame
<1>7. ASSUME NEW p \in Pbid, GcCopy(p), UNCHANGED gc PROVE FactsInv'
  BY <1>7, CopyFacts
<1>8. CASE RetryWork /\ UNCHANGED gc
  <2>1. CASE WkStart \/ WkSpliceGc \/ WkEnd
    BY <1>8, <2>1, QuietFacts, ZonesSame DEF WkStart, WkSpliceGc, WkEnd, lowVars, devVars
  <2>2. CASE WkUser
    <3>1. PICK t \in UTasks : /\ wt[t].pc = "queued" /\ wt'[t].pc \in {"alloc", "conflict"}
                              /\ KeepsFields(t) /\ OthersKept(t)
                              /\ UNCHANGED <<lowVars, gt, rd, inflight>>
      BY <2>2, WkUserFx
    <3>2. WtZones'
      BY <3>1, WtZonesStep DEF KeepsFields, WtZones
    <3>3. ErrorsSeen'
      BY <3>1, ErrorsStep DEF ErrorsSeen, OthersKept, SameTask, KeepsFields, lowVars, devVars
    <3> QED BY <1>8, <3>1, <3>2, <3>3, ZonesSame
  <2>3. CASE WkGc
    <3>1. PICK p \in Pbid : /\ gt[p].pc = "queued" /\ gt'[p].pc \in {"lookup", "conflict"}
                            /\ GcKeeps(p) /\ GcFrame(p) /\ AllUsersKept
                            /\ UNCHANGED <<media, errors, faulty, gc_state, zmdVars, pbids, rd, inflight>>
      BY <2>3, WkGcFx
    <3>2. GtZones'
      BY <3>1, GtZonesStep DEF GcKeeps, GtZones
    <3>3. ErrorsSeen'
      BY <3>1, ErrorsStep DEF ErrorsSeen, GcKeeps, GcFrame, AllUsersKept, SameTask
    <3> QED BY <1>8, <3>1, <3>2, <3>3, ZonesSame
  <2> QED BY <1>8, <2>1, <2>2, <2>3 DEF RetryWork
<1>9. CASE GcThread
  <2>1. ASSUME UNCHANGED <<errors, faulty, wt, gt, rd>>, GcFacts' PROVE FactsInv'
    <3>1. ErrorsSeen'
      BY <2>1, ErrorsStep DEF ErrorsSeen
    <3> QED BY <2>1, <3>1, ZonesSame
  <2>2. CASE GcCheck \/ GcNoVictim \/ GcFinish
    <3>1. GcFacts'
      BY <2>2 DEF GcCheck, GcNoVictim, GcFinish, GcFacts, TypeOK, GcTypeOK, GcRec
    <3> QED BY <2>1, <2>2, <3>1 DEF GcCheck, GcNoVictim, GcFinish, devVars, ioVars
  <2>3. CASE GcSelect
    <3>1. PICK z \in lbz_find_victim_zone(gc.mod) :
              gc' = [pc |-> "iter", mod |-> "DEFAULT", gc_zone |-> z, iter |-> 0]
      BY <2>3 DEF GcSelect
    <3>2. z \in Zone
      BY DEF lbz_find_victim_zone, MinWeight, TypeOK, ZmdTypeOK
    <3>3. GcFacts'
      BY <3>1, <3>2 DEF GcFacts
    <3> QED BY <2>1, <2>3, <3>3 DEF GcSelect, devVars, ioVars
  <2>4. CASE GcIter
    <3>1. /\ gc.pc = "iter" /\ gc.gc_zone \in Zone /\ gc'.pc = gc.pc /\ gc'.gc_zone = gc.gc_zone
          /\ \/ gt' = gt
             \/ \E p \in Pbid : /\ gt[p].pc = "none" /\ GcFrame(p) /\ gt'[p].pc = "reading"
                                /\ gt'[p].zone = NULL /\ gt'[p].error = FALSE
          /\ UNCHANGED <<errors, faulty, wt, rd>>
      BY <2>4, GcIterFx DEF devVars
    <3>2. GcFacts'
      BY <3>1 DEF GcFacts
    <3>3. GtZones'
      BY <3>1, GtZonesStep, ZonesSame
    <3>4. ErrorsSeen'
      BY <3>1, ErrorsStep DEF ErrorsSeen, GcFrame
    <3> QED BY <3>1, <3>2, <3>3, <3>4, ZonesSame
  <2> QED BY <1>9, <2>2, <2>3, <2>4 DEF GcThread
<1> QED BY <1>1, <1>2, <1>3, <1>4, <1>5, <1>6, <1>7, <1>8, <1>9 DEF Next, Running, Halted

-----------------------------------------------------------------------------
(* Where each zone is.                                                     *)

\* The marks of a zone and its write pointer are as they were.
MarksAlike(d, e) ==
    /\ d.wp_block = e.wp_block
    /\ "TO_FULL" \in d.flags <=> "TO_FULL" \in e.flags
    /\ "GC" \in d.flags <=> "GC" \in e.flags

\* A step that moves no zone and marks none.
LEMMA PlaceFrame ==
    ASSUME TypeOK, PlaceInv, ListsSame, \A z \in Zone : MarksAlike(zone'[z], zone[z])
    PROVE  OnePlace' /\ ZoneMarks' /\ RoomExact' /\ (zs' = zs => WorkerZone')
<1> USE DEF PlaceInv, ListsSame, listVars
<1>1. \A z \in Zone : (EmptyZone(z)' <=> EmptyZone(z)) /\ (ActiveZone(z)' <=> ActiveZone(z))
                      /\ (FullZone(z)' <=> FullZone(z)) /\ (Unmarked(z)' <=> Unmarked(z))
  BY DEF EmptyZone, ActiveZone, FullZone, Unmarked, MarksAlike
<1>2. OnePlace'
  BY <1>1 DEF OnePlace
<1>3. ZoneMarks'
  BY <1>1 DEF ZoneMarks, Listed, MarksAlike
<1>4. zs.i \in Zone
  BY DEF TypeOK, ZmdTypeOK, ZsRec
<1>5. zs' = zs => WorkerZone'
  BY <1>1, <1>4 DEF WorkerZone, Listed, MarksAlike
<1>6. \A s \in Streams : StreamRoom(s)' = StreamRoom(s)
  BY DEF StreamRoom, MarksAlike, TypeOK, ZmdTypeOK
<1>7. RoomExact'
  BY <1>6 DEF RoomExact, Streams, LBZ_ZONE_MAX_STREAM
<1> QED BY <1>2, <1>3, <1>5, <1>7

\* lbz_zone_alloc_res writes the stream's zone, or the first empty one, and
\* drops a zone that became full.
LEMMA AllocFx ==
    ASSUME TypeOK, OnePlace, ZoneMarks, NEW flag, NEW s \in Streams, lbz_zone_alloc_res(flag, s),
           NEW z, z = TargetZone(s)
    PROVE  /\ z \in Zone /\ Listed(z) /\ Unmarked(z)
           /\ zone' \in [Zone -> ZoneRec] /\ \A y \in Zone : y # z => zone'[y] = zone[y]
           /\ zone'[z].wp_block = zone[z].wp_block + 1 /\ zone'[z].weight = zone[z].weight + 1
           /\ zone[z].wp_block < ZoneNrBlocks /\ zone[z].wp_block \in Nat
           /\ \/ active_zone[s] = z /\ empty_zone_list' = empty_zone_list
              \/ /\ active_zone[s] = NULL /\ zone[z].wp_block = 0 /\ empty_zone_list # <<>>
                 /\ z = Head(empty_zone_list) /\ empty_zone_list' = Tail(empty_zone_list)
           /\ \/ /\ zone[z].wp_block + 1 = ZoneNrBlocks /\ active_zone' = [active_zone EXCEPT ![s] = NULL]
                 /\ "TO_FULL" \in zone'[z].flags /\ "GC" \notin zone'[z].flags
              \/ /\ zone[z].wp_block + 1 < ZoneNrBlocks /\ active_zone' = [active_zone EXCEPT ![s] = z]
                 /\ Unmarked(z)'
           /\ zone'[z].refcount = zone[z].refcount + (IF active_zone[s] = NULL THEN 1 ELSE 0)
                 + (IF zone[z].wp_block + 1 = ZoneNrBlocks THEN 0 ELSE 1)
           /\ nr_allocable_blks' = nr_allocable_blks - 1 /\ UNCHANGED <<full_zone_list, zrms, zs>>
<1> USE DEF Listed, Unmarked
<1>1. /\ zone \in [Zone -> ZoneRec] /\ active_zone \in [Streams -> Zone \cup {NULL}]
      /\ empty_zone_list \in Seq(Zone) /\ ZoneNrBlocks \in Nat \ {0} /\ NULL \notin Zone
  BY DevAssumption DEF TypeOK, ZmdTypeOK
<1>2. z \in Zone /\ zone' \in [Zone -> ZoneRec]
  BY AllocType DEF ZmdTypeOK
<1>3. NeedZone(s) <=> active_zone[s] = NULL
  <2>1. ASSUME active_zone[s] # NULL
        PROVE  active_zone[s] \in Zone /\ ActiveZone(active_zone[s])
    BY <1>1, <2>1 DEF ActiveZone
  <2> QED BY <1>1, <2>1 DEF NeedZone, ZoneMarks
<1>4. \/ active_zone[s] = z /\ empty_zone_list' = empty_zone_list /\ ActiveZone(z)
      \/ /\ active_zone[s] = NULL /\ zone[z].wp_block = 0 /\ empty_zone_list # <<>>
         /\ z = Head(empty_zone_list) /\ empty_zone_list' = Tail(empty_zone_list) /\ EmptyZone(z)
  <2>1. CASE active_zone[s] = NULL
    <3>1. z = Head(empty_zone_list) /\ empty_zone_list # <<>> /\ empty_zone_list' = Tail(empty_zone_list)
      BY <1>3, <2>1 DEF TargetZone, lbz_zone_alloc_res, AllocSucceeds
    <3>2. EmptyZone(z)
      BY <1>1, <3>1 DEF EmptyZone
    <3> QED BY <1>2, <2>1, <3>1, <3>2 DEF ZoneMarks
  <2>2. CASE active_zone[s] # NULL
    BY <1>3, <2>2 DEF TargetZone, lbz_zone_alloc_res, ActiveZone
  <2> QED BY <2>1, <2>2
<1>5. /\ Listed(z) /\ Unmarked(z) /\ zone[z].wp_block \in Nat /\ zone[z].wp_block < ZoneNrBlocks
  BY <1>1, <1>2, <1>4 DEF ZoneMarks
<1> DEFINE d == IF NeedZone(s) THEN OpenZone(zone[z]) ELSE zone[z]
<1>6. zone' = [zone EXCEPT ![z] = TakeBlock(d)]
  BY <1>3 DEF lbz_zone_alloc_res
<1>7. /\ d \in ZoneRec /\ d.wp_block = zone[z].wp_block /\ d.weight = zone[z].weight
      /\ d.refcount = zone[z].refcount + (IF active_zone[s] = NULL THEN 1 ELSE 0)
      /\ "TO_FULL" \notin d.flags /\ "GC" \notin d.flags
  <2>1. CASE NeedZone(s)
    <3> DEFINE g == lbz_get_zone(zone[z])
               r == [g EXCEPT !.flags = @ \cup {"ACTIVE"}]
    <3>1. g \in ZoneRec /\ g.refcount = zone[z].refcount + 1 /\ SameZone(g, zone[z])
      BY <1>1, <1>2, ZoneRecOps, GetFields
    <3> HIDE DEF g
    <3>2. /\ r \in ZoneRec /\ r.refcount = g.refcount /\ r.wp_block = g.wp_block /\ r.weight = g.weight
          /\ r.flags = g.flags \cup {"ACTIVE"}
      BY <3>1 DEF ZoneRec, Flags
    <3>3. OpenZone(zone[z]) = [r EXCEPT !.state = "OPEN"]
      BY DEF OpenZone, g
    <3> HIDE DEF r
    <3>4. /\ [r EXCEPT !.state = "OPEN"] \in ZoneRec /\ [r EXCEPT !.state = "OPEN"].refcount = r.refcount
          /\ [r EXCEPT !.state = "OPEN"].wp_block = r.wp_block /\ [r EXCEPT !.state = "OPEN"].weight = r.weight
          /\ [r EXCEPT !.state = "OPEN"].flags = r.flags
      BY <3>2 DEF ZoneRec
    <3>5. d = [r EXCEPT !.state = "OPEN"]
      BY <2>1, <3>3
    <3> HIDE DEF d
    <3> QED BY <1>3, <1>5, <2>1, <3>1, <3>2, <3>4, <3>5 DEF SameZone
  <2>2. CASE ~NeedZone(s)
    <3>1. d = zone[z]
      BY <2>2
    <3>2. zone[z].refcount \in Int
      BY <1>1, <1>2 DEF ZoneRec
    <3> HIDE DEF d
    <3> QED BY <1>1, <1>2, <1>3, <1>5, <2>2, <3>1, <3>2
  <2> QED BY <2>1, <2>2
<1>8. active_zone' = [active_zone EXCEPT ![s] = IF TakeBlock(d).wp_block = ZoneNrBlocks THEN NULL ELSE z]
  BY DEF lbz_zone_alloc_res
<1>9. nr_allocable_blks' = nr_allocable_blks - 1 /\ UNCHANGED <<full_zone_list, zrms, zs>>
  BY DEF lbz_zone_alloc_res
<1> HIDE DEF d
<1>10. zone'[z] = TakeBlock(d) /\ \A y \in Zone : y # z => zone'[y] = zone[y]
  BY <1>1, <1>2, <1>6
<1>11. zone[z].refcount \in Int /\ d.refcount \in Int
  BY <1>1, <1>2, <1>7 DEF ZoneRec
<1>12. /\ TakeBlock(d).wp_block = zone[z].wp_block + 1
       /\ TakeBlock(d).weight = zone[z].weight + 1
       /\ zone[z].wp_block + 1 = ZoneNrBlocks =>
             TakeBlock(d).refcount = d.refcount
             /\ TakeBlock(d).flags = (d.flags \ {"ACTIVE"}) \cup {"TO_FULL"}
       /\ zone[z].wp_block + 1 # ZoneNrBlocks =>
             TakeBlock(d).refcount = d.refcount + 1 /\ TakeBlock(d).flags = d.flags
  BY <1>7, TakeFields
<1>13. zone'[z].refcount = zone[z].refcount + (IF active_zone[s] = NULL THEN 1 ELSE 0)
                 + (IF zone[z].wp_block + 1 = ZoneNrBlocks THEN 0 ELSE 1)
  BY <1>7, <1>10, <1>11, <1>12
<1>14. \/ /\ zone[z].wp_block + 1 = ZoneNrBlocks /\ active_zone' = [active_zone EXCEPT ![s] = NULL]
          /\ "TO_FULL" \in zone'[z].flags /\ "GC" \notin zone'[z].flags
       \/ /\ zone[z].wp_block + 1 < ZoneNrBlocks /\ active_zone' = [active_zone EXCEPT ![s] = z]
          /\ Unmarked(z)'
  <2>1. CASE zone[z].wp_block + 1 = ZoneNrBlocks
    BY <1>7, <1>8, <1>10, <1>12, <2>1
  <2>2. CASE zone[z].wp_block + 1 # ZoneNrBlocks
    <3>1. zone[z].wp_block + 1 < ZoneNrBlocks
      BY <1>1, <1>5, <2>2
    <3>2. Unmarked(z)'
      BY <1>7, <1>10, <1>12, <2>2
    <3>3. active_zone' = [active_zone EXCEPT ![s] = z]
      BY <1>8, <1>12, <2>2
    <3> QED BY <3>1, <3>2, <3>3
  <2> QED BY <2>1, <2>2
<1> QED BY <1>2, <1>4, <1>5, <1>9, <1>10, <1>12, <1>13, <1>14

\* An allocation keeps every zone in its place.
LEMMA AllocPlace ==
    ASSUME TypeOK, PlaceInv, NEW flag, NEW s \in Streams, lbz_zone_alloc_res(flag, s)
    PROVE  PlaceInv'
<1>0. PICK z : z = TargetZone(s)
  OBVIOUS
<1> USE DEF PlaceInv
<1>1. /\ active_zone \in [Streams -> Zone \cup {NULL}] /\ NULL \notin Zone
      /\ empty_zone_list \in Seq(Zone) /\ ZoneNrBlocks \in Nat \ {0} /\ nr_allocable_blks \in Int
      /\ zs.i \in Zone /\ zone \in [Zone -> ZoneRec]
  BY DevAssumption DEF TypeOK, ZmdTypeOK, ZsRec
<1>2. /\ z \in Zone /\ Listed(z) /\ Unmarked(z)
      /\ \A y \in Zone : y # z => zone'[y] = zone[y]
      /\ zone'[z].wp_block = zone[z].wp_block + 1
      /\ zone[z].wp_block < ZoneNrBlocks /\ zone[z].wp_block \in Nat
      /\ \/ active_zone[s] = z /\ empty_zone_list' = empty_zone_list
         \/ /\ active_zone[s] = NULL /\ zone[z].wp_block = 0 /\ empty_zone_list # <<>>
            /\ z = Head(empty_zone_list) /\ empty_zone_list' = Tail(empty_zone_list)
      /\ \/ /\ zone[z].wp_block + 1 = ZoneNrBlocks /\ active_zone' = [active_zone EXCEPT ![s] = NULL]
            /\ "TO_FULL" \in zone'[z].flags /\ "GC" \notin zone'[z].flags
         \/ /\ zone[z].wp_block + 1 < ZoneNrBlocks /\ active_zone' = [active_zone EXCEPT ![s] = z]
            /\ "TO_FULL" \notin zone'[z].flags /\ "GC" \notin zone'[z].flags
      /\ nr_allocable_blks' = nr_allocable_blks - 1 /\ UNCHANGED <<full_zone_list, zs>>
  <2> HIDE DEF PlaceInv
  <2>1. OnePlace /\ ZoneMarks
    BY DEF PlaceInv
  <2> QED BY <1>0, <2>1, AllocFx DEF Unmarked
<1>3. /\ Distinct(empty_zone_list') /\ ~EmptyZone(z)'
      /\ \A y \in Zone : y # z => (EmptyZone(y)' <=> EmptyZone(y))
      /\ Len(empty_zone_list') = Len(empty_zone_list) - (IF active_zone[s] = NULL THEN 1 ELSE 0)
      /\ Len(empty_zone_list) \in Nat
  <2>1. CASE active_zone[s] = z /\ empty_zone_list' = empty_zone_list
    <3>1. ActiveZone(z) /\ active_zone[s] # NULL
      BY <1>1, <1>2, <2>1 DEF ActiveZone
    <3>2. Distinct(empty_zone_list) /\ ~EmptyZone(z)
      BY <1>1, <1>2, <3>1 DEF OnePlace
    <3>3. Distinct(empty_zone_list') /\ \A y : EmptyZone(y)' <=> EmptyZone(y)
      BY <2>1, <3>2 DEF EmptyZone
    <3>4. Len(empty_zone_list) \in Nat /\ Len(empty_zone_list') = Len(empty_zone_list)
      BY <1>1, <2>1
    <3> QED BY <3>1, <3>2, <3>3, <3>4
  <2>2. CASE active_zone[s] = NULL /\ empty_zone_list # <<>> /\ z = Head(empty_zone_list)
             /\ empty_zone_list' = Tail(empty_zone_list)
    <3>1. /\ \A y : OnList(empty_zone_list, y) <=> OnList(Tail(empty_zone_list), y) \/ y = z
          /\ Distinct(Tail(empty_zone_list)) /\ ~OnList(Tail(empty_zone_list), z)
      BY <1>1, <2>2, TailList DEF OnePlace
    <3>2. \A y : (EmptyZone(y) <=> OnList(empty_zone_list, y)) /\ (EmptyZone(y)' <=> OnList(Tail(empty_zone_list), y))
      BY <2>2 DEF EmptyZone, OnList
    <3>3. Len(Tail(empty_zone_list)) = Len(empty_zone_list) - 1 /\ Len(empty_zone_list) \in Nat
      BY <1>1, <2>2
    <3> QED BY <2>2, <3>1, <3>2, <3>3
  <2> QED BY <1>2, <2>1, <2>2
<1>4. /\ \A y \in Zone : y # z => (ActiveZone(y)' <=> ActiveZone(y)) /\ (FullZone(y)' <=> FullZone(y))
      /\ ~FullZone(z)' /\ \A r \in Streams : r # s => active_zone'[r] = active_zone[r] /\ active_zone[r] # z
      /\ ActiveZone(z)' => zone[z].wp_block + 1 < ZoneNrBlocks
  <2>1. EmptyZone(z) \/ active_zone[s] = z
    BY <1>1, <1>2 DEF EmptyZone
  <2>2. ~FullZone(z)
    BY <1>2, <2>1 DEF OnePlace, ActiveZone
  <2>3. \A r \in Streams : r # s => active_zone[r] # z
    BY <1>1, <1>2, <2>1 DEF OnePlace, ActiveZone
  <2> QED BY <1>1, <1>2, <2>2, <2>3 DEF ActiveZone, FullZone
<1>5. OnePlace'
  <2>1. \A s1, s2 \in Streams : active_zone'[s1] = active_zone'[s2] /\ active_zone'[s1] # NULL => s1 = s2
    BY <1>1, <1>2, <1>4 DEF OnePlace
  <2> QED BY <1>3, <1>4, <2>1 DEF OnePlace
<1>6. ZoneMarks'
  <2>1. ASSUME NEW y \in Zone, y # z
        PROVE  /\ Listed(y)' => Unmarked(y)'
               /\ ~("GC" \in zone'[y].flags /\ "TO_FULL" \in zone'[y].flags)
               /\ zone'[y].wp_block \in 0 .. ZoneNrBlocks
               /\ EmptyZone(y)' => zone'[y].wp_block = 0
               /\ ActiveZone(y)' => zone'[y].wp_block < ZoneNrBlocks
    BY <1>2, <1>3, <1>4, <2>1 DEF ZoneMarks, Listed, Unmarked
  <2>2. /\ Listed(z)' => Unmarked(z)'
        /\ ~("GC" \in zone'[z].flags /\ "TO_FULL" \in zone'[z].flags)
        /\ zone'[z].wp_block \in 0 .. ZoneNrBlocks
        /\ EmptyZone(z)' => zone'[z].wp_block = 0
        /\ ActiveZone(z)' => zone'[z].wp_block < ZoneNrBlocks
    BY <1>1, <1>2, <1>3, <1>4 DEF Listed, Unmarked
  <2> QED BY <2>1, <2>2 DEF ZoneMarks
<1>7. WorkerZone'
  <2>1. zs.pc \in {"close", "reset", "release"} => zs.i # z
    BY <1>2 DEF WorkerZone, Unmarked
  <2> QED BY <1>1, <1>2, <1>3, <1>4, <2>1 DEF WorkerZone, Listed, Unmarked
<1>8. RoomExact'
  <2>1. \A r \in Streams : r # s => StreamRoom(r)' = StreamRoom(r)
    BY <1>1, <1>2, <1>4 DEF StreamRoom
  <2>2. StreamRoom(s)' = ZoneNrBlocks - (zone[z].wp_block + 1)
    BY <1>1, <1>2 DEF StreamRoom
  <2>3. StreamRoom(s) = IF active_zone[s] = NULL THEN 0 ELSE ZoneNrBlocks - zone[z].wp_block
    BY <1>2 DEF StreamRoom
  <2>4. \A r \in Streams : StreamRoom(r) \in Int
    <3>1. \A r \in Streams : active_zone[r] # NULL => zone[active_zone[r]].wp_block \in Int
      BY <1>1 DEF ZoneRec
    <3> QED BY <1>1, <3>1 DEF StreamRoom
  <2>5. ZoneNrBlocks * (Len(empty_zone_list) - 1) = ZoneNrBlocks * Len(empty_zone_list) - ZoneNrBlocks
    BY <1>1, <1>3
  <2>6. s = 0 \/ s = 1
    BY DEF Streams, LBZ_ZONE_MAX_STREAM
  <2>7. 0 \in Streams /\ 1 \in Streams
    BY DEF Streams, LBZ_ZONE_MAX_STREAM
  <2> DEFINE a == ZoneNrBlocks * Len(empty_zone_list)
             a2 == ZoneNrBlocks * Len(empty_zone_list')
  <2>8. a \in Int /\ a2 = a - (IF active_zone[s] = NULL THEN ZoneNrBlocks ELSE 0)
    <3>1. CASE active_zone[s] = NULL
      BY <1>1, <1>3, <2>5, <3>1
    <3>2. CASE active_zone[s] # NULL
      BY <1>1, <1>3, <3>2
    <3> QED BY <3>1, <3>2
  <2>9. nr_allocable_blks = a + StreamRoom(0) + StreamRoom(1)
    BY DEF RoomExact
  <2>10. RoomExact' <=> nr_allocable_blks' = a2 + StreamRoom(0)' + StreamRoom(1)'
    BY DEF RoomExact
  <2> HIDE DEF a, a2, StreamRoom
  <2>11. StreamRoom(s)' + a2 = StreamRoom(s) + a - 1
    <3>1. CASE active_zone[s] = NULL
      BY <1>1, <1>2, <2>2, <2>3, <2>4, <2>8, <3>1
    <3>2. CASE active_zone[s] # NULL
      <4>1. a2 = a /\ a \in Int /\ StreamRoom(s) = ZoneNrBlocks - zone[z].wp_block
        BY <2>3, <2>8, <3>2
      <4>2. zone[z].wp_block \in Nat /\ ZoneNrBlocks \in Nat
        BY <1>1, <1>2
      <4> QED BY <2>2, <4>1, <4>2
    <3> QED BY <3>1, <3>2
  <2>12. StreamRoom(s)' \in Int /\ a2 \in Int
    BY <1>1, <1>2, <2>2, <2>8
  <2> DEFINE old == nr_allocable_blks
             new == nr_allocable_blks'
  <2>13. old \in Int /\ new = old - 1
    BY <1>1, <1>2
  <2> HIDE DEF old, new
  <2>14. (RoomExact' <=> new = a2 + StreamRoom(0)' + StreamRoom(1)') /\ old = a + StreamRoom(0) + StreamRoom(1)
    BY <2>9, <2>10 DEF old, new
  <2>15. CASE s = 0
    <3>1. StreamRoom(1)' = StreamRoom(1)
      BY <2>1, <2>7, <2>15
    <3>2. StreamRoom(0)' + a2 = StreamRoom(0) + a - 1 /\ StreamRoom(0)' \in Int
      BY <2>11, <2>12, <2>15
    <3> QED BY <2>4, <2>7, <2>8, <2>12, <2>13, <2>14, <3>1, <3>2
  <2>16. CASE s = 1
    <3>1. StreamRoom(0)' = StreamRoom(0)
      BY <2>1, <2>7, <2>16
    <3>2. StreamRoom(1)' + a2 = StreamRoom(1) + a - 1 /\ StreamRoom(1)' \in Int
      BY <2>11, <2>12, <2>16
    <3> QED BY <2>4, <2>7, <2>8, <2>12, <2>13, <2>14, <3>1, <3>2
  <2> QED BY <2>6, <2>15, <2>16
<1> QED BY <1>5, <1>6, <1>7, <1>8

\* zone_state_wk_fn moves on.
LEMMA NextZoneScans ==
    ASSUME TypeOK
    PROVE  NextZone.pc \in {"scan", "idle"} /\ ZsIdle.pc = "idle"
  BY DEF TypeOK, ZmdTypeOK, ZsRec, NextZone, ZsIdle

\* zone_state_wk_fn keeps every zone in one place: it lists a zone as full when
\* it takes its TO_FULL mark, and as empty when it takes its GC mark.
LEMMA WorkerPlace ==
    ASSUME TypeOK, PlaceInv, ZoneStateWork
    PROVE  PlaceInv'
<1>1. /\ zone \in [Zone -> ZoneRec] /\ zs \in ZsRec /\ zs.i \in Zone /\ empty_zone_list \in Seq(Zone)
      /\ active_zone \in [Streams -> Zone \cup {NULL}] /\ ZoneNrBlocks \in Nat \ {0} /\ NULL \notin Zone
      /\ full_zone_list \in SUBSET Zone /\ nr_allocable_blks \in Int
  BY DevAssumption DEF TypeOK, ZmdTypeOK, ZsRec
<1>2. ASSUME ListsSame, \A z \in Zone : MarksAlike(zone'[z], zone[z]), WorkerZone' \/ zs' = zs
      PROVE  PlaceInv'
  BY <1>2, PlaceFrame DEF PlaceInv
<1>3. ASSUME zs'.pc \notin {"close", "reset", "release"} PROVE WorkerZone'
  BY <1>3 DEF WorkerZone
<1>4. CASE ZsStart \/ ZsResetFails \/ ZsScanRefcount
  <2>1. zs'.pc \notin {"close", "reset", "release"}
    <3>1. \/ zs' = [pc |-> "scan", i |-> 0, send |-> FALSE] \/ zs' = ZsIdle
          \/ zs' = [zs EXCEPT !.pc = "gc"] \/ zs' = NextZone
      BY <1>4 DEF ZsStart, ZsResetFails, ZsScanRefcount
    <3> QED BY <1>1, <3>1, NextZoneScans DEF ZsRec
  <2>2. zone' = zone /\ ListsSame
    BY <1>4 DEF ZsStart, ZsResetFails, ZsScanRefcount, ListsSame
  <2>3. \A z \in Zone : MarksAlike(zone'[z], zone[z])
    BY <2>2 DEF MarksAlike
  <2> QED BY <1>2, <1>3, <2>1, <2>2, <2>3
<1>5. CASE ZsScanToFull
  <2>1. zone' = zone \/ zone' = [zone EXCEPT ![zs.i].state = "CLOSED"]
    BY <1>5 DEF ZsScanToFull
  <2>2. \A z \in Zone : MarksAlike(zone'[z], zone[z])
    <3> DEFINE d == [zone[zs.i] EXCEPT !.state = "CLOSED"]
    <3>1. MarksAlike(d, zone[zs.i])
      BY <1>1 DEF MarksAlike, ZoneRec
    <3>2. zone' = zone \/ zone' = [zone EXCEPT ![zs.i] = d]
      BY <2>1
    <3> HIDE DEF d
    <3> QED BY <1>1, <3>1, <3>2 DEF MarksAlike
  <2>3. "TO_FULL" \in zone[zs.i].flags /\ ListsSame
    BY <1>5 DEF ZsScanToFull, ListsSame
  <2>4. zs'.pc \in {"scan", "idle"} \/ (zs'.pc = "close" /\ zs'.i = zs.i)
    <3>1. zs' = [zs EXCEPT !.pc = "close", !.send = TRUE] \/ zs' = NextZone
      BY <1>5 DEF ZsScanToFull
    <3> QED BY <1>1, <3>1, NextZoneScans DEF ZsRec
  <2>5. WorkerZone'
    BY <1>1, <2>2, <2>3, <2>4 DEF WorkerZone, MarksAlike
  <2> QED BY <1>2, <2>2, <2>3, <2>5
<1>6. CASE ZsGcZone
  <2>1. zone' = zone /\ ListsSame
    BY <1>6 DEF ZsGcZone, ListsSame
  <2>2. \/ zs'.pc \in {"scan", "idle"}
        \/ "GC" \in zone[zs.i].flags /\ zs'.pc = "reset" /\ zs'.i = zs.i
    <3>1. \/ zs' = NextZone
          \/ "GC" \in zone[zs.i].flags /\ zs' = [zs EXCEPT !.pc = "reset", !.send = TRUE]
      BY <1>6 DEF ZsGcZone
    <3> QED BY <1>1, <3>1, NextZoneScans DEF ZsRec
  <2>3. WorkerZone'
    BY <2>1, <2>2 DEF WorkerZone
  <2> QED BY <1>2, <2>1, <2>3 DEF MarksAlike
<1>7. CASE ZsClose
  <2> DEFINE i == zs.i
  <2>1. /\ "TO_FULL" \in zone[i].flags /\ full_zone_list' = full_zone_list \cup {i}
        /\ zone' = [zone EXCEPT ![i].flags = {"FULL"}]
        /\ UNCHANGED <<empty_zone_list, active_zone, nr_allocable_blks>>
    BY <1>7 DEF ZsClose, PlaceInv, WorkerZone
  <2>2. zs'.pc \in {"scan", "idle"}
    BY <1>7, NextZoneScans DEF ZsClose
  <2> HIDE DEF i
  <2>3. i \in Zone /\ ~Listed(i)
    <3>1. i \in Zone
      BY <1>1 DEF i
    <3> QED BY <2>1, <3>1 DEF PlaceInv, ZoneMarks, Unmarked
  <2>4. /\ \A z \in Zone : z # i => zone'[z] = zone[z]
        /\ zone'[i].wp_block = zone[i].wp_block /\ zone'[i].flags = {"FULL"}
    BY <1>1, <2>1, <2>3 DEF ZoneRec
  <2>5. /\ \A z : EmptyZone(z)' <=> EmptyZone(z)
        /\ \A z : ActiveZone(z)' <=> ActiveZone(z)
        /\ \A z \in Zone : FullZone(z)' => FullZone(z) \/ z = i
    BY <2>1 DEF EmptyZone, ActiveZone, FullZone
  <2>6. PICK j : j = i
    OBVIOUS
  <2>7. OnePlace'
    BY <2>1, <2>3, <2>5 DEF PlaceInv, OnePlace, Listed
  <2>8. ZoneMarks'
    BY <2>3, <2>4, <2>5 DEF PlaceInv, ZoneMarks, Listed, Unmarked
  <2>9. RoomExact'
    <3>1. \A s \in Streams : StreamRoom(s)' = StreamRoom(s)
      BY <1>1, <2>1, <2>4 DEF StreamRoom
    <3>2. 0 \in Streams /\ 1 \in Streams
      BY DEF Streams, LBZ_ZONE_MAX_STREAM
    <3> QED BY <2>1, <3>1, <3>2 DEF PlaceInv, RoomExact
  <2> QED BY <1>3, <2>2, <2>7, <2>8, <2>9 DEF PlaceInv
<1>8. CASE ZsReset
  <2>1. CASE zone[zs.i].weight # 0
    <3>1. UNCHANGED <<zone, zs>> /\ ListsSame
      BY <1>8, <2>1 DEF ZsReset, ListsSame
    <3> QED BY <1>2, <3>1 DEF MarksAlike
  <2>2. CASE zone[zs.i].weight = 0
    <3>1. PICK i \in Zone : i = zs.i
      BY <1>1
    <3> DEFINE d == [zone[i] EXCEPT !.wp_block = 0, !.state = "EMPTY", !.flags = {"INIT"}]
    <3>2. /\ "GC" \in zone[i].flags /\ zs' = [zs EXCEPT !.pc = "release"]
          /\ zone' = [zone EXCEPT ![i] = d] /\ UNCHANGED listVars
      BY <1>1, <1>8, <2>2, <3>1 DEF ZsReset, PlaceInv, WorkerZone
    <3>3. ~Listed(i)
      BY <3>2 DEF PlaceInv, ZoneMarks, Unmarked
    <3>4. d.wp_block = 0 /\ d.flags = {"INIT"}
      BY <1>1 DEF ZoneRec
    <3> HIDE DEF d
    <3>5. /\ \A z \in Zone : z # i => zone'[z] = zone[z]
          /\ zone'[i].wp_block = 0 /\ zone'[i].flags = {"INIT"}
      BY <1>1, <3>2, <3>4
    <3>6. \A z \in Zone : (EmptyZone(z)' <=> EmptyZone(z)) /\ (ActiveZone(z)' <=> ActiveZone(z))
                          /\ (FullZone(z)' <=> FullZone(z))
      BY <3>2 DEF EmptyZone, ActiveZone, FullZone, listVars
    <3>7. OnePlace'
      BY <3>2, <3>6 DEF PlaceInv, OnePlace, listVars
    <3>8. ZoneMarks'
      BY <1>1, <3>3, <3>5, <3>6 DEF PlaceInv, ZoneMarks, Listed, Unmarked
    <3>9. WorkerZone'
      <4>1. zs'.pc = "release" /\ zs'.i = i
        BY <1>1, <3>1, <3>2 DEF ZsRec
      <4>2. ~Listed(i)'
        BY <3>3, <3>6 DEF Listed
      <4> QED BY <3>5, <4>1, <4>2 DEF WorkerZone, Unmarked, Listed, EmptyZone, ActiveZone, FullZone
    <3>10. RoomExact'
      <4>1. \A s \in Streams : StreamRoom(s)' = StreamRoom(s)
        BY <1>1, <3>2, <3>3, <3>5 DEF StreamRoom, Listed, ActiveZone, listVars
      <4>2. 0 \in Streams /\ 1 \in Streams
        BY DEF Streams, LBZ_ZONE_MAX_STREAM
      <4> QED BY <3>2, <4>1, <4>2 DEF PlaceInv, RoomExact, listVars
    <3> QED BY <3>7, <3>8, <3>9, <3>10 DEF PlaceInv
  <2> QED BY <2>1, <2>2
<1>9. CASE ZsRelease
  <2>1. PICK i \in Zone : i = zs.i
    BY <1>1
  <2>2. /\ ~Listed(i) /\ Unmarked(i) /\ zone[i].wp_block = 0
        /\ empty_zone_list' = Append(empty_zone_list, i)
        /\ nr_allocable_blks' = nr_allocable_blks + ZoneNrBlocks
        /\ UNCHANGED <<zone, full_zone_list, active_zone>> /\ zs' = NextZone
    BY <1>9, <2>1 DEF ZsRelease, PlaceInv, WorkerZone
  <2>3. zs'.pc \in {"scan", "idle"}
    BY <2>2, NextZoneScans
  <2>4. \A z : EmptyZone(z) <=> OnList(empty_zone_list, z)
    BY DEF EmptyZone, OnList
  <2>5. \A z : EmptyZone(z)' <=> OnList(empty_zone_list', z)
    BY DEF EmptyZone, OnList
  <2>6. \A z : EmptyZone(z)' <=> EmptyZone(z) \/ z = i
    BY <1>1, <2>2, <2>4, <2>5, AppendList
  <2>7. Distinct(empty_zone_list')
    BY <1>1, <2>2, <2>4, AppendList DEF PlaceInv, OnePlace, Listed
  <2>8. \A z \in Zone : (ActiveZone(z)' <=> ActiveZone(z)) /\ (FullZone(z)' <=> FullZone(z))
    BY <2>2 DEF ActiveZone, FullZone
  <2>9. OnePlace'
    BY <2>2, <2>6, <2>7, <2>8 DEF PlaceInv, OnePlace, Listed
  <2>10. ZoneMarks'
    BY <2>2, <2>6, <2>8 DEF PlaceInv, ZoneMarks, Listed, Unmarked
  <2>11. RoomExact'
    <3>1. StreamRoom(0)' = StreamRoom(0) /\ StreamRoom(1)' = StreamRoom(1)
      BY <2>2 DEF StreamRoom
    <3>2. StreamRoom(0) \in Int /\ StreamRoom(1) \in Int
      <4>1. \A r \in Streams : active_zone[r] # NULL => zone[active_zone[r]].wp_block \in Int
        BY <1>1 DEF ZoneRec
      <4> QED BY <1>1, <4>1 DEF StreamRoom, Streams, LBZ_ZONE_MAX_STREAM
    <3>3. Len(empty_zone_list') = Len(empty_zone_list) + 1 /\ Len(empty_zone_list) \in Nat
      BY <1>1, <2>2
    <3>4. ZoneNrBlocks * (Len(empty_zone_list) + 1) = ZoneNrBlocks * Len(empty_zone_list) + ZoneNrBlocks
      BY <1>1, <3>3
    <3>5. ZoneNrBlocks * Len(empty_zone_list) \in Int
      BY <1>1, <3>3
    <3> HIDE DEF StreamRoom
    <3> QED BY <1>1, <2>2, <3>1, <3>2, <3>3, <3>4, <3>5 DEF PlaceInv, RoomExact
  <2> QED BY <1>3, <2>3, <2>9, <2>10, <2>11 DEF PlaceInv
<1> QED BY <1>4, <1>5, <1>6, <1>7, <1>8, <1>9 DEF ZoneStateWork

\* A step that changes no list and no mark.
LEMMA PlaceKept ==
    ASSUME TypeOK, PlaceInv, UNCHANGED <<listVars, zs>>, \A z \in Zone : MarksAlike(zone'[z], zone[z])
    PROVE  PlaceInv'
<1>1. ListsSame /\ zs' = zs
  BY DEF ListsSame
<1> QED BY <1>1, PlaceFrame DEF PlaceInv

\* Zone descriptors that differ in one zone, whose marks are as they were.
LEMMA OneAlike ==
    ASSUME TypeOK, NEW zn, \A z \in Zone : MarksAlike(zn[z], zone[z]), DOMAIN zn = Zone,
           NEW y, NEW d, y \in Zone => MarksAlike(d, zn[y])
    PROVE  /\ \A z \in Zone : MarksAlike([zn EXCEPT ![y] = d][z], zone[z])
           /\ DOMAIN [zn EXCEPT ![y] = d] = Zone
  BY DEF MarksAlike

\* The reference counts and counters of a zone leave its marks alone.
LEMMA OpsAlike ==
    ASSUME NEW d \in ZoneRec
    PROVE  /\ MarksAlike(lbz_put_zone(d), d) /\ MarksAlike(lbz_get_zone(d), d)
           /\ MarksAlike(lbz_zone_complete_write(d), d) /\ MarksAlike(lbz_zone_release_global_res(d), d)
           /\ MarksAlike(PutState([d EXCEPT !.in_put = FALSE], TRUE), d)
<1>1. MarksAlike(lbz_put_zone(d), d) /\ MarksAlike(lbz_get_zone(d), d)
  BY PutFields, GetFields DEF SameZone, MarksAlike
<1>2. MarksAlike(lbz_zone_complete_write(d), d) /\ MarksAlike(lbz_zone_release_global_res(d), d)
  BY GetFields DEF SameZone, MarksAlike
<1>3. MarksAlike(PutState([d EXCEPT !.in_put = FALSE], TRUE), d)
  <2> DEFINE r == [d EXCEPT !.in_put = FALSE]
  <2>1. r \in ZoneRec /\ r.flags = d.flags /\ r.wp_block = d.wp_block
    BY DEF ZoneRec
  <2> HIDE DEF r
  <2>2. PutState(r, TRUE).flags = r.flags /\ PutState(r, TRUE).wp_block = r.wp_block
    BY <2>1 DEF PutState, ZoneRec
  <2> QED BY <2>1, <2>2 DEF MarksAlike, r
<1> QED BY <1>1, <1>2, <1>3

\* A step that updates one zone's counters.
LEMMA OneZonePlace ==
    ASSUME TypeOK, PlaceInv, UNCHANGED <<listVars, zs>>, NEW y,
           \/ zone' = zone
           \/ ZonePut(y)
           \/ zone' = [zone EXCEPT ![y] = lbz_get_zone(@)]
           \/ zone' = [zone EXCEPT ![y] = lbz_zone_complete_write(@)]
           \/ zone' = [zone EXCEPT ![y] = lbz_zone_release_global_res(@)]
           \/ zone' = [zone EXCEPT ![y] = PutState([@ EXCEPT !.in_put = FALSE], TRUE)]
    PROVE  PlaceInv'
<1>1. zone \in [Zone -> ZoneRec] /\ \A z \in Zone : MarksAlike(zone[z], zone[z])
  BY DEF TypeOK, ZmdTypeOK, MarksAlike
<1>2. PICK d : (y \in Zone => MarksAlike(d, zone[y])) /\ (zone' = zone \/ zone' = [zone EXCEPT ![y] = d])
  BY <1>1, OpsAlike DEF ZonePut
<1>3. \A z \in Zone : MarksAlike(zone'[z], zone[z])
  BY <1>1, <1>2, OneAlike
<1> QED BY <1>3, PlaceKept

\* A task_put keeps every zone in its place.
LEMMA CallbackPlace ==
    ASSUME TypeOK, PlaceInv, UNCHANGED <<listVars, zs>>, NoCallback \/ \E p \in Pbid : Callback(p)
    PROVE  PlaceInv'
<1>1. CASE NoCallback
  BY <1>1, OneZonePlace DEF NoCallback, ZoneKept
<1>2. ASSUME NEW p \in Pbid, Callback(p) PROVE PlaceInv'
  BY <1>2, OneZonePlace DEF Callback
<1> QED BY <1>1, <1>2

\* So do the steps of a user write.
LEMMA WritePlace ==
    ASSUME TypeOK, TaskInv, PlaceInv, NEW t \in UTasks, SubmitWrite(t) \/ WriteStep(t)
    PROVE  PlaceInv'
<1>1. CASE SubmitWrite(t)
  BY <1>1, SubmitFx, OneZonePlace DEF lowVars, zmdVars
<1>2. CASE WConflict(t) \/ WDel(t)
  <2>1. (NoCallback \/ \E p \in Pbid : Callback(p)) /\ UNCHANGED <<listVars, zs>>
    BY <1>2, WConflictFx, WDelFx
  <2> QED BY <2>1, CallbackPlace
<1>3. ASSUME NEW s \in Streams, WGotZone(t, s) PROVE PlaceInv'
  BY <1>3, AllocPlace DEF WGotZone
<1>4. CASE WAlloc(t)
  <2>1. wt[t].blkid \in Blks
    BY <1>4 DEF WAlloc, TaskInv, WtFacts
  <2>2. StreamId[wt[t].blkid] \in Streams
    BY <2>1, IoAssumption
  <2>3. CASE UNCHANGED lowVars
    BY <2>3, OneZonePlace DEF lowVars, zmdVars
  <2> QED BY <1>3, <1>4, <2>2, <2>3 DEF WAlloc
<1>5. CASE WAlloc2(t)
  <2>1. wt[t].blkid \in Blks
    BY <1>5 DEF WAlloc2, TaskInv, WtFacts
  <2>2. OtherStream(StreamId[wt[t].blkid]) \in Streams
    BY <2>1, IoAssumption DEF OtherStream, Streams, LBZ_ZONE_MAX_STREAM
  <2>3. CASE WAllocEagain(t) /\ UNCHANGED <<listVars, zs>>
    BY <2>3, OneZonePlace DEF WAllocEagain
  <2>4. CASE WAllocEio(t) /\ UNCHANGED <<listVars, zs>>
    BY <2>4, WAllocEioFx, CallbackPlace
  <2> QED BY <1>3, <1>5, <2>2, <2>3, <2>4 DEF WAlloc2
<1>6. CASE WAppend(t) \/ WAppendFails(t) \/ WEndio(t) \/ WOldRmap(t) \/ WNewRmap(t)
  <2>1. zone' = zone /\ UNCHANGED <<listVars, zs>>
    BY <1>6 DEF WAppend, WAppendFails, WEndio, WOldRmap, WNewRmap, zmdVars
  <2> QED BY <2>1, OneZonePlace
<1>7. CASE WOldWeight(t)
  BY <1>7, OneZonePlace DEF WOldWeight
<1>8. CASE WComplete(t)
  BY <1>8, OneZonePlace DEF WComplete
<1>9. CASE WPut(t)
  BY <1>9, WPutFx, OneZonePlace
<1> QED BY <1>1, <1>2, <1>4, <1>5, <1>6, <1>7, <1>8, <1>9 DEF WriteStep

\* So do the steps of a GC copy.
LEMMA CopyPlace ==
    ASSUME TypeOK, TaskInv, PlaceInv, NEW p \in Pbid, GcCopy(p)
    PROVE  PlaceInv'
<1>1. zone \in [Zone -> ZoneRec] /\ \A z \in Zone : MarksAlike(zone[z], zone[z])
  BY DEF TypeOK, ZmdTypeOK, MarksAlike
<1>2. CASE GRead(p) \/ GFault(p) \/ GAppend(p) \/ GAppendFails(p) \/ GCbRmap(p) \/ GCbMap(p)
  <2>1. zone' = zone /\ UNCHANGED <<listVars, zs>>
    BY <1>2 DEF GRead, GFault, GAppend, GAppendFails, GCbRmap, GCbMap, lowVars, zmdVars
  <2> QED BY <2>1, OneZonePlace
<1>3. CASE GReadFails(p)
  BY <1>3, OneZonePlace DEF GReadFails, ZonePut
<1>4. CASE GAgency(p)
  BY <1>4, GAgencyFx, OneZonePlace DEF ZoneKept
<1>5. CASE GLookup(p)
  <2>1. PICK zn : /\ ZonesAlike(zn) /\ (zone' = zn \/ zone' = [zn EXCEPT ![p[1]] = lbz_put_zone(@)])
                  /\ UNCHANGED <<listVars, zs>>
    BY <1>5, GLookupFx
  <2>2. \A z \in Zone : MarksAlike(zn[z], zone[z]) /\ zn[z] \in ZoneRec
    BY <2>1 DEF ZonesAlike, SameZone, MarksAlike
  <2>3. DOMAIN zn = Zone
    BY <2>1 DEF ZonesAlike
  <2>4. p[1] \in Zone => MarksAlike(lbz_put_zone(zn[p[1]]), zn[p[1]])
    BY <2>2, OpsAlike
  <2>5. \A z \in Zone : MarksAlike(zone'[z], zone[z])
    BY <2>1, <2>2, <2>3, <2>4, OneAlike
  <2> QED BY <2>1, <2>5, PlaceKept
<1>6. ASSUME NEW s \in Streams, GGotZone(p, s) PROVE PlaceInv'
  BY <1>6, AllocPlace DEF GGotZone
<1>7. CASE GAlloc(p)
  <2>1. gt[p].blkid \in Blks
    BY <1>7 DEF GAlloc, TaskInv, GtFacts
  <2>2. StreamId[gt[p].blkid] \in Streams
    BY <2>1, IoAssumption
  <2>3. CASE UNCHANGED lowVars
    BY <2>3, OneZonePlace DEF lowVars, zmdVars
  <2> QED BY <1>6, <1>7, <2>2, <2>3 DEF GAlloc
<1>8. CASE GAlloc2(p)
  <2>1. gt[p].blkid \in Blks
    BY <1>8 DEF GAlloc2, TaskInv, GtFacts
  <2>2. OtherStream(StreamId[gt[p].blkid]) \in Streams
    BY <2>1, IoAssumption DEF OtherStream, Streams, LBZ_ZONE_MAX_STREAM
  <2>3. CASE UNCHANGED zmdVars
    BY <2>3, OneZonePlace DEF zmdVars
  <2> QED BY <1>6, <1>8, <2>2, <2>3 DEF GAlloc2
<1>9. CASE GEndio(p)
  BY <1>9, OneZonePlace DEF GEndio
<1>10. CASE GCbOld(p)
  BY <1>10, OneZonePlace DEF GCbOld
<1>11. CASE GCbPut(p)
  <2> DEFINE zn == [zone EXCEPT ![gt[p].zone] = lbz_put_zone(@)]
  <2>1. zone' = [zn EXCEPT ![p[1]] = lbz_put_zone(@)] /\ UNCHANGED <<listVars, zs>>
    BY <1>11, GCbPutFx
  <2>2. (\A z \in Zone : MarksAlike(zn[z], zone[z])) /\ zn \in [Zone -> ZoneRec]
    BY <1>1, OpsAlike, ZoneRecOps, OneAlike
  <2> HIDE DEF zn
  <2>3. DOMAIN zn = Zone /\ (p[1] \in Zone => MarksAlike(lbz_put_zone(zn[p[1]]), zn[p[1]]))
    BY <2>2, OpsAlike
  <2>4. \A z \in Zone : MarksAlike(zone'[z], zone[z])
    BY <2>1, <2>2, <2>3, OneAlike
  <2> QED BY <2>1, <2>4, PlaceKept
<1> QED BY <1>2, <1>3, <1>4, <1>5, <1>7, <1>8, <1>9, <1>10, <1>11 DEF GcCopy

\* The GC thread takes the victim off the list of full zones when it marks it.
LEMMA GcThreadPlace ==
    ASSUME TypeOK, GcFacts, PlaceInv, GcThread
    PROVE  PlaceInv'
<1>1. /\ zone \in [Zone -> ZoneRec] /\ zs.i \in Zone /\ full_zone_list \in SUBSET Zone
      /\ active_zone \in [Streams -> Zone \cup {NULL}]
  BY DEF TypeOK, ZmdTypeOK, ZsRec
<1>2. CASE GcCheck \/ GcNoVictim
  BY <1>2, OneZonePlace DEF GcCheck, GcNoVictim, zmdVars
<1>3. CASE GcSelect
  <2>1. PICK z \in lbz_find_victim_zone(gc.mod) :
            /\ full_zone_list' = full_zone_list \ {z}
            /\ zone' = [zone EXCEPT ![z] = SetFlag(lbz_get_zone(@), "GC")]
    BY <1>3 DEF GcSelect
  <2>2. z \in full_zone_list /\ z \in Zone
    BY <1>1 DEF lbz_find_victim_zone, MinWeight
  <2>3. UNCHANGED <<empty_zone_list, active_zone, nr_allocable_blks, zs>>
    BY <1>3 DEF GcSelect
  <2> DEFINE g == lbz_get_zone(zone[z])
  <2>4. g \in ZoneRec /\ SameZone(g, zone[z])
    BY <1>1, <2>2, ZoneRecOps, GetFields
  <2>5. zone' = [zone EXCEPT ![z] = SetFlag(g, "GC")]
    BY <2>1
  <2> HIDE DEF g
  <2>6. SetFlag(g, "GC").wp_block = zone[z].wp_block /\ SetFlag(g, "GC").flags = zone[z].flags \cup {"GC"}
    BY <2>4 DEF SetFlag, ZoneRec, SameZone
  <2>7. /\ \A y \in Zone : y # z => zone'[y] = zone[y]
        /\ zone'[z].wp_block = zone[z].wp_block /\ zone'[z].flags = zone[z].flags \cup {"GC"}
    BY <1>1, <2>2, <2>5, <2>6
  <2>8. /\ \A y \in Zone : (EmptyZone(y)' <=> EmptyZone(y)) /\ (ActiveZone(y)' <=> ActiveZone(y))
                           /\ (FullZone(y)' <=> FullZone(y) /\ y # z)
        /\ FullZone(z) /\ ~EmptyZone(z) /\ ~ActiveZone(z) /\ Unmarked(z)
    BY <2>1, <2>2, <2>3 DEF EmptyZone, ActiveZone, FullZone, PlaceInv, OnePlace, ZoneMarks, Listed
  <2>9. OnePlace'
    BY <2>3, <2>8 DEF PlaceInv, OnePlace
  <2>10. ZoneMarks'
    BY <2>7, <2>8 DEF PlaceInv, ZoneMarks, Listed, Unmarked
  <2>11. WorkerZone'
    <3>1. zs.pc \in {"close", "reset", "release"} => zs.i # z
      BY <2>8 DEF PlaceInv, WorkerZone, Unmarked, Listed
    <3> QED BY <1>1, <2>3, <2>7, <2>8, <3>1 DEF PlaceInv, WorkerZone, Listed, Unmarked
  <2>12. RoomExact'
    <3>1. \A s \in Streams : StreamRoom(s)' = StreamRoom(s)
      BY <1>1, <2>2, <2>3, <2>7 DEF StreamRoom
    <3>2. 0 \in Streams /\ 1 \in Streams
      BY DEF Streams, LBZ_ZONE_MAX_STREAM
    <3> QED BY <2>3, <3>1, <3>2 DEF PlaceInv, RoomExact
  <2> QED BY <2>9, <2>10, <2>11, <2>12 DEF PlaceInv
<1>4. CASE GcIter
  BY <1>4, GcIterFx, OneZonePlace DEF ZoneKept, PlaceInv
<1>5. CASE GcFinish
  <2>1. PICK z : z = gc.gc_zone
    OBVIOUS
  <2>2. /\ z \in Zone /\ zone' = [zone EXCEPT ![z] = lbz_put_zone(SetFlag(@, "GC_COMPLETED"))]
        /\ UNCHANGED <<listVars, zs>>
    BY <1>5, <2>1 DEF GcFinish, GcFacts
  <2> DEFINE g == SetFlag(zone[z], "GC_COMPLETED")
  <2>3. g \in ZoneRec /\ MarksAlike(g, zone[z])
    BY <1>1, <2>2 DEF SetFlag, ZoneRec, Flags, MarksAlike
  <2>4. zone' = [zone EXCEPT ![z] = lbz_put_zone(g)]
    BY <2>2
  <2> HIDE DEF g
  <2>5. MarksAlike(lbz_put_zone(g), zone[z])
    BY <2>3, OpsAlike DEF MarksAlike
  <2>6. \A y \in Zone : MarksAlike(zone'[y], zone[y])
    BY <1>1, <2>4, <2>5 DEF MarksAlike
  <2> QED BY <2>2, <2>6, PlaceKept
<1> QED BY <1>2, <1>3, <1>4, <1>5 DEF GcThread

\* Every step keeps every zone in its place.
LEMMA NextPlace ==
    ASSUME TypeOK, TaskInv, GcFacts, PlaceInv, [Next]_vars
    PROVE  PlaceInv'
<1>1. CASE UNCHANGED vars
  BY <1>1, OneZonePlace DEF vars, zmdVars
<1>2. CASE ZoneStateWork /\ UNCHANGED <<pbids, ioVars, gc>>
  BY <1>2, WorkerPlace
<1>3. ASSUME NEW z \in Zone, PutZoneEnd(z) PROVE PlaceInv'
  BY <1>3, OneZonePlace DEF PutZoneEnd
<1>4. ASSUME NEW t \in UTasks, SubmitWrite(t) \/ WriteStep(t) PROVE PlaceInv'
  BY <1>4, WritePlace
<1>5. ASSUME NEW r \in Readers, SubmitRead(r) PROVE PlaceInv'
  <2>1. PICK b \in Blks : lbz_submit_read(r, b)
    BY <1>5 DEF SubmitRead
  <2> QED BY <2>1, OneZonePlace DEF lbz_submit_read, lbz_mapping_lookup
<1>6. ASSUME NEW r \in Readers, lbz_read_io_endio(r) PROVE PlaceInv'
  BY <1>6, OneZonePlace DEF lbz_read_io_endio, ZonePut
<1>7. ASSUME NEW p \in Pbid, GcCopy(p) PROVE PlaceInv'
  BY <1>7, CopyPlace
<1>8. CASE RetryWork
  <2>1. UNCHANGED zmdVars
    BY <1>8 DEF RetryWork, WkStart, WkUser, WkSpliceGc, WkGc, WkEnd, lowVars
  <2> QED BY <2>1, OneZonePlace DEF zmdVars
<1>9. CASE GcThread
  BY <1>9, GcThreadPlace
<1> QED BY <1>1, <1>2, <1>3, <1>4, <1>5, <1>6, <1>7, <1>8, <1>9 DEF Next, Running, Halted

-----------------------------------------------------------------------------
(* The zones of a new device.                                              *)

\* lbz_init_zone gives each half-written zone a stream of its own.
LEMMA InitStreams ==
    ASSUME Init
    PROVE  /\ \A z \in PartialZones : \E s \in Streams : active_zone[s] = z
           /\ \A s \in Streams : \/ active_zone[s] = NULL
                                 \/ active_zone[s] \in PartialZones /\ StreamTaken(active_zone[s]) = s
<1>1. IsFiniteSet(PartialZones) /\ PartialZones \in SUBSET Zone /\ Cardinality(PartialZones) <= 2
  <2>1. IsFiniteSet(Zone)
    BY DevAssumption, CountBelow DEF Zone
  <2> QED BY <2>1, CountNat, ZmdAssumption DEF PartialZones, LBZ_ZONE_MAX_STREAM
<1>2. Zone \in SUBSET Int
  BY DevAssumption DEF Zone
<1> DEFINE Before(z) == {y \in PartialZones : y < z}
<1>3. ASSUME NEW z \in PartialZones
      PROVE  IsFiniteSet(Before(z)) /\ Cardinality(Before(z)) \in Nat /\ Cardinality(Before(z)) < 2
  <2>1. Before(z) \in SUBSET (PartialZones \ {z})
    BY <1>1, <1>2
  <2>2. IsFiniteSet(PartialZones \ {z}) /\ Cardinality(PartialZones \ {z}) = Cardinality(PartialZones) - 1
    BY <1>1, FS_RemoveElement
  <2> HIDE DEF Before
  <2>3. /\ IsFiniteSet(Before(z)) /\ Cardinality(Before(z)) <= Cardinality(PartialZones) - 1
        /\ Cardinality(Before(z)) \in Nat /\ Cardinality(PartialZones) \in Nat
    BY <1>1, <2>1, <2>2, FS_Subset, FS_CardinalityType
  <2> QED BY <1>1, <2>3
<1>4. ASSUME NEW y \in PartialZones, NEW z \in PartialZones, y < z
      PROVE  Cardinality(Before(y)) # Cardinality(Before(z))
  <2>1. Before(y) \in SUBSET Before(z) /\ y \in Before(z) /\ y \notin Before(y)
    <3>1. y \in Int /\ z \in Int /\ \A x \in PartialZones : x \in Int
      BY <1>1, <1>2
    <3>2. \A x \in PartialZones : x < y => x < z
      BY <1>4, <3>1
    <3>3. y < z /\ ~(y < y)
      BY <1>4, <3>1
    <3> HIDE DEF PartialZones
    <3> QED BY <3>2, <3>3
  <2> HIDE DEF Before
  <2> QED BY <1>3, <2>1, FS_Subset
<1>5. \A z \in PartialZones : StreamTaken(z) \in Streams
  <2>1. \A z \in PartialZones : StreamTaken(z) = Cardinality(Before(z))
    BY DEF StreamTaken
  <2> HIDE DEF Before
  <2> QED BY <1>3, <2>1 DEF Streams, LBZ_ZONE_MAX_STREAM
<1>6. \A y, z \in PartialZones : StreamTaken(y) = StreamTaken(z) => y = z
  <2> SUFFICES ASSUME NEW y \in PartialZones, NEW z \in PartialZones, y # z
               PROVE  StreamTaken(y) # StreamTaken(z)
    OBVIOUS
  <2>1. y < z \/ z < y
    BY <1>1, <1>2
  <2> QED BY <1>4, <2>1 DEF StreamTaken
<1>7. active_zone = [s \in Streams |->
           IF \E z \in PartialZones : StreamTaken(z) = s
           THEN CHOOSE z \in PartialZones : StreamTaken(z) = s ELSE NULL]
  BY DEF Init, ZmdInit
<1> HIDE DEF Before
<1>8. ASSUME NEW s \in Streams
      PROVE  \/ active_zone[s] = NULL /\ \A z \in PartialZones : StreamTaken(z) # s
             \/ active_zone[s] \in PartialZones /\ StreamTaken(active_zone[s]) = s
  BY <1>7
<1>9. ASSUME NEW z \in PartialZones PROVE \E s \in Streams : active_zone[s] = z
  <2>1. PICK s \in Streams : s = StreamTaken(z)
    BY <1>5
  <2>2. active_zone[s] \in PartialZones /\ StreamTaken(active_zone[s]) = s
    BY <1>8, <2>1
  <2> QED BY <1>6, <2>1, <2>2
<1> QED BY <1>8, <1>9

\* The blocks a new device can still allocate are those of its blank zones and
\* the rest of its half-written ones.
LEMMA InitRoom ==
    ASSUME Init
    PROVE  RoomExact
<1> DEFINE W == {p \in Pbid : p[2] < DiskWp[p[1]]}
           B == BlankZones \X Offset
           F(s) == {p \in Pbid : p[1] = active_zone[s] /\ p[2] >= zone[p[1]].wp_block}
<1>1. /\ zone = [z \in Zone |-> InitZone(z)]
      /\ empty_zone_list \in [1 .. Cardinality(BlankZones) -> BlankZones]
      /\ nr_allocable_blks = NrZones * ZoneNrBlocks - Cardinality(W)
  BY DEF Init, ZmdInit, nr_total_blks
<1>2. /\ \A z \in PartialZones : \E s \in Streams : active_zone[s] = z
      /\ \A s \in Streams : \/ active_zone[s] = NULL
                            \/ active_zone[s] \in PartialZones /\ StreamTaken(active_zone[s]) = s
  BY InitStreams
<1>3. /\ NrZones \in Nat \ {0} /\ ZoneNrBlocks \in Nat \ {0} /\ NULL \notin Zone
      /\ DiskWp \in [Zone -> 0 .. ZoneNrBlocks]
  BY DevAssumption, ZmdAssumption
<1>4. \A z \in Zone : zone[z].wp_block = DiskWp[z]
  BY <1>1 DEF InitZone
<1>5. /\ IsFiniteSet(Zone) /\ Cardinality(Zone) = NrZones
      /\ IsFiniteSet(Offset) /\ Cardinality(Offset) = ZoneNrBlocks
  BY <1>3, CountBelow DEF Zone, Offset
<1>6. IsFiniteSet(Pbid) /\ Cardinality(Pbid) = NrZones * ZoneNrBlocks
  BY <1>5, FS_Product DEF Pbid
<1>7. IsFiniteSet(BlankZones) /\ Cardinality(BlankZones) \in Nat /\ Len(empty_zone_list) = Cardinality(BlankZones)
  <2>1. IsFiniteSet(BlankZones) /\ Cardinality(BlankZones) \in Nat
    BY <1>5, CountNat DEF BlankZones
  <2>2. empty_zone_list \in Seq(BlankZones) /\ DOMAIN empty_zone_list = 1 .. Cardinality(BlankZones)
    BY <1>1, <2>1
  <2> QED BY <2>1, <2>2
<1>8. IsFiniteSet(B) /\ Cardinality(B) = Cardinality(BlankZones) * ZoneNrBlocks
  BY <1>5, <1>7, FS_Product
<1>9. ASSUME NEW s \in Streams PROVE IsFiniteSet(F(s)) /\ Cardinality(F(s)) = StreamRoom(s)
  <2>1. CASE active_zone[s] = NULL
    <3>1. F(s) = {}
      BY <1>3, <2>1 DEF Pbid
    <3> QED BY <2>1, <3>1, FS_EmptySet DEF StreamRoom
  <2>2. CASE active_zone[s] \in PartialZones
    <3>1. PICK z \in Zone : z = active_zone[s]
      BY <2>2 DEF PartialZones
    <3>2. PICK w \in 0 .. ZoneNrBlocks : w = zone[z].wp_block
      BY <1>3, <1>4
    <3>3. F(s) = {z} \X (w .. ZoneNrBlocks - 1)
      <4>1. F(s) \in SUBSET ({z} \X (w .. ZoneNrBlocks - 1))
        <5> SUFFICES ASSUME NEW p \in F(s) PROVE p \in {z} \X (w .. ZoneNrBlocks - 1)
          OBVIOUS
        <5>1. p \in Zone \X Offset /\ p[1] = z /\ p[2] >= w
          BY <3>1, <3>2 DEF Pbid
        <5>2. p[2] \in w .. ZoneNrBlocks - 1
          BY <1>3, <3>2, <5>1 DEF Offset
        <5> QED BY <5>1, <5>2
      <4>2. ({z} \X (w .. ZoneNrBlocks - 1)) \in SUBSET F(s)
        <5> SUFFICES ASSUME NEW o \in w .. ZoneNrBlocks - 1 PROVE <<z, o>> \in F(s)
          OBVIOUS
        <5>1. o \in Offset
          BY <1>3, <3>2 DEF Offset
        <5> QED BY <3>1, <3>2, <5>1 DEF Pbid
      <4> QED BY <4>1, <4>2
    <3>4. /\ IsFiniteSet(w .. ZoneNrBlocks - 1) /\ Cardinality(w .. ZoneNrBlocks - 1) = ZoneNrBlocks - w
      BY <1>3, <3>2, CountBelow
    <3>5. IsFiniteSet(F(s)) /\ Cardinality(F(s)) = 1 * (ZoneNrBlocks - w)
      <4>1. IsFiniteSet({z}) /\ Cardinality({z}) = 1
        BY FS_Singleton
      <4> DEFINE O == w .. ZoneNrBlocks - 1
      <4>2. IsFiniteSet(O) /\ Cardinality(O) = ZoneNrBlocks - w /\ F(s) = {z} \X O
        BY <3>3, <3>4
      <4> HIDE DEF O, F
      <4>3. IsFiniteSet({z} \X O) /\ Cardinality({z} \X O) = Cardinality({z}) * Cardinality(O)
        BY <4>1, <4>2, FS_Product
      <4> QED BY <4>1, <4>2, <4>3
    <3>6. StreamRoom(s) = ZoneNrBlocks - w
      BY <1>3, <3>1, <3>2 DEF StreamRoom
    <3> QED BY <1>3, <3>2, <3>5, <3>6
  <2> QED BY <1>2, <2>1, <2>2
<1>10. 0 \in Streams /\ 1 \in Streams /\ \A s \in Streams : s = 0 \/ s = 1
  BY DEF Streams, LBZ_ZONE_MAX_STREAM
<1>11. Pbid = W \cup (B \cup (F(0) \cup F(1)))
  <2>1. ASSUME NEW p \in Pbid PROVE p \in W \/ p \in B \/ p \in F(0) \/ p \in F(1)
    <3>1. p[1] \in Zone /\ p[2] \in Offset /\ p = <<p[1], p[2]>>
      BY DEF Pbid
    <3>2. DiskWp[p[1]] \in 0 .. ZoneNrBlocks /\ p[2] \in Int /\ p[2] < ZoneNrBlocks
      BY <1>3, <3>1 DEF Offset
    <3>3. CASE p[2] < DiskWp[p[1]]
      BY <3>3
    <3>4. CASE DiskWp[p[1]] = 0
      BY <3>1, <3>4 DEF BlankZones
    <3>5. CASE p[2] >= DiskWp[p[1]] /\ DiskWp[p[1]] # 0
      <4>1. p[1] \in PartialZones
        BY <1>3, <3>1, <3>2, <3>5 DEF PartialZones
      <4>2. PICK s \in Streams : active_zone[s] = p[1]
        BY <1>2, <4>1
      <4>3. p \in F(s)
        BY <1>4, <3>1, <3>5, <4>2
      <4> HIDE DEF F
      <4> QED BY <1>10, <4>3
    <3> QED BY <3>2, <3>3, <3>4, <3>5
  <2>2. B \in SUBSET Pbid
    BY DEF Pbid, BlankZones
  <2> QED BY <2>1, <2>2
<1>12. F(0) \cap F(1) = {} /\ B \cap (F(0) \cup F(1)) = {} /\ W \cap (B \cup (F(0) \cup F(1))) = {}
  <2>1. ASSUME NEW s \in Streams, NEW p \in F(s)
        PROVE  p[1] \in PartialZones /\ StreamTaken(p[1]) = s /\ p \notin W /\ p \notin B
    <3>1. p[1] \in Zone /\ p[2] \in Offset /\ p[1] = active_zone[s] /\ p[2] >= DiskWp[p[1]]
      BY <1>4, <2>1 DEF Pbid
    <3>2. p[1] \in PartialZones /\ StreamTaken(p[1]) = s
      BY <1>2, <1>3, <3>1
    <3>3. p \notin W
      BY <1>3, <3>1 DEF Offset
    <3>4. p \notin B
      BY <1>3, <3>2 DEF BlankZones, PartialZones
    <3> QED BY <3>2, <3>3, <3>4
  <2>2. W \cap B = {}
    <3> SUFFICES ASSUME NEW p \in W, p \in B PROVE FALSE
      OBVIOUS
    <3>1. p[2] \in Nat /\ DiskWp[p[1]] = 0 /\ p[2] < DiskWp[p[1]]
      BY <1>3 DEF BlankZones, Offset
    <3> QED BY <3>1
  <2> HIDE DEF F, W, B
  <2>3. F(0) \cap F(1) = {}
    <3> SUFFICES ASSUME NEW p \in F(0), p \in F(1) PROVE FALSE
      OBVIOUS
    <3>1. StreamTaken(p[1]) = 0 /\ StreamTaken(p[1]) = 1
      BY <1>10, <2>1
    <3> QED BY <3>1
  <2> QED BY <1>10, <2>1, <2>2, <2>3
<1>13. IsFiniteSet(W) /\ Cardinality(W) \in Nat
  BY <1>6, CountNat
<1>14. IsFiniteSet(F(0)) /\ Cardinality(F(0)) = StreamRoom(0)
       /\ IsFiniteSet(F(1)) /\ Cardinality(F(1)) = StreamRoom(1)
  BY <1>9, <1>10
<1> DEFINE G == F(0) \cup F(1)
<1>15. IsFiniteSet(G) /\ Cardinality(G) = StreamRoom(0) + StreamRoom(1)
  <2>1. PICK S, T : S = F(0) /\ T = F(1)
    OBVIOUS
  <2> HIDE DEF F
  <2>2. IsFiniteSet(S) /\ IsFiniteSet(T) /\ S \cap T = {} /\ G = S \cup T
    BY <1>12, <1>14, <2>1
  <2>3. IsFiniteSet(S \cup T) /\ Cardinality(S \cup T) = Cardinality(S) + Cardinality(T)
    BY <2>2, CountDisjoint
  <2> QED BY <1>14, <2>1, <2>2, <2>3
<1> DEFINE H == B \cup G
<1>16. IsFiniteSet(H) /\ Cardinality(H) = Cardinality(B) + Cardinality(G)
  <2>1. B \cap G = {}
    BY <1>12
  <2> HIDE DEF B, G
  <2> QED BY <1>8, <1>15, <2>1, CountDisjoint
<1>17. Cardinality(Pbid) = Cardinality(W) + Cardinality(H)
  <2>1. W \cap H = {} /\ Pbid = W \cup H
    BY <1>11, <1>12
  <2> HIDE DEF W, H
  <2> QED BY <1>13, <1>16, <2>1, CountDisjoint
<1>18. StreamRoom(0) \in Int /\ StreamRoom(1) \in Int
  BY <1>14, FS_CardinalityType
<1> DEFINE k == Cardinality(BlankZones)
           m == ZoneNrBlocks * k
           n == Cardinality(W)
<1>19. k * ZoneNrBlocks = m /\ m \in Int /\ n \in Int /\ NrZones * ZoneNrBlocks \in Int
  BY <1>3, <1>7, <1>13
<1>20. nr_allocable_blks = NrZones * ZoneNrBlocks - n /\ NrZones * ZoneNrBlocks = n + Cardinality(H)
  BY <1>1, <1>6, <1>17
<1>21. Cardinality(H) = m + (StreamRoom(0) + StreamRoom(1))
  BY <1>8, <1>15, <1>16, <1>19
<1>22. RoomExact <=> nr_allocable_blks = m + StreamRoom(0) + StreamRoom(1)
  BY <1>7 DEF RoomExact
<1> HIDE DEF W, H, G, B, F, StreamRoom, m, n, k
<1> QED BY <1>18, <1>19, <1>20, <1>21, <1>22

\* lbz_create_device lists every zone in one place.
LEMMA InitPlace ==
    ASSUME Init
    PROVE  PlaceInv
<1>1. /\ zone = [z \in Zone |-> InitZone(z)]
      /\ empty_zone_list \in [1 .. Cardinality(BlankZones) -> BlankZones]
      /\ \A j, k \in 1 .. Cardinality(BlankZones) : j < k => empty_zone_list[j] < empty_zone_list[k]
      /\ full_zone_list = {z \in Zone : DiskWp[z] = ZoneNrBlocks}
      /\ zs.pc = "idle"
  BY DEF Init, ZmdInit
<1>2. \A s \in Streams : \/ active_zone[s] = NULL
                         \/ active_zone[s] \in PartialZones /\ StreamTaken(active_zone[s]) = s
  BY InitStreams
<1>3. /\ ZoneNrBlocks \in Nat \ {0} /\ NULL \notin Zone /\ DiskWp \in [Zone -> 0 .. ZoneNrBlocks]
      /\ BlankZones \in SUBSET Int
  BY DevAssumption, ZmdAssumption DEF BlankZones, Zone
<1>4. Cardinality(BlankZones) \in Nat
  <2>1. IsFiniteSet(Zone)
    BY DevAssumption, CountBelow DEF Zone
  <2> QED BY <2>1, CountNat DEF BlankZones
<1>5. Len(empty_zone_list) = Cardinality(BlankZones)
  <2>1. empty_zone_list \in Seq(BlankZones) /\ DOMAIN empty_zone_list = 1 .. Cardinality(BlankZones)
    BY <1>1, <1>4
  <2> QED BY <1>4, <2>1
<1>6. \A z \in Zone : /\ EmptyZone(z) => DiskWp[z] = 0
                      /\ ActiveZone(z) => 0 < DiskWp[z] /\ DiskWp[z] < ZoneNrBlocks
                      /\ FullZone(z) => DiskWp[z] = ZoneNrBlocks
                      /\ zone[z].wp_block = DiskWp[z] /\ Unmarked(z)
  <2> SUFFICES ASSUME NEW z \in Zone
               PROVE  /\ EmptyZone(z) => DiskWp[z] = 0
                      /\ ActiveZone(z) => 0 < DiskWp[z] /\ DiskWp[z] < ZoneNrBlocks
                      /\ FullZone(z) => DiskWp[z] = ZoneNrBlocks
                      /\ zone[z].wp_block = DiskWp[z] /\ Unmarked(z)
    OBVIOUS
  <2>1. EmptyZone(z) => DiskWp[z] = 0
    BY <1>1, <1>5 DEF EmptyZone, BlankZones
  <2>2. ActiveZone(z) => 0 < DiskWp[z] /\ DiskWp[z] < ZoneNrBlocks
    BY <1>2, <1>3 DEF ActiveZone, PartialZones
  <2>3. zone[z] = InitZone(z)
    BY <1>1
  <2>4. zone[z].wp_block = DiskWp[z] /\ Unmarked(z)
    BY <2>3 DEF InitZone, Unmarked
  <2> QED BY <1>1, <2>1, <2>2, <2>4 DEF FullZone
<1>7. Distinct(empty_zone_list)
  <2> SUFFICES ASSUME NEW j \in 1 .. Len(empty_zone_list), NEW k \in 1 .. Len(empty_zone_list), j # k
               PROVE  empty_zone_list[j] # empty_zone_list[k]
    BY DEF Distinct
  <2>1. j < k \/ k < j
    BY <1>4, <1>5
  <2>2. empty_zone_list[j] \in Int /\ empty_zone_list[k] \in Int
    BY <1>1, <1>3, <1>5
  <2> QED BY <1>1, <1>5, <2>1, <2>2
<1>8. OnePlace
  <2>1. \A s1, s2 \in Streams : active_zone[s1] = active_zone[s2] /\ active_zone[s1] # NULL => s1 = s2
    BY <1>2
  <2>2. \A z \in Zone : /\ ~(EmptyZone(z) /\ ActiveZone(z))
                        /\ ~(EmptyZone(z) /\ FullZone(z))
                        /\ ~(ActiveZone(z) /\ FullZone(z))
    BY <1>3, <1>6
  <2> QED BY <1>7, <2>1, <2>2 DEF OnePlace
<1>9. ZoneMarks
  BY <1>3, <1>6 DEF ZoneMarks, Unmarked
<1>10. WorkerZone
  BY <1>1 DEF WorkerZone
<1> QED BY <1>8, <1>9, <1>10, InitRoom DEF PlaceInv

-----------------------------------------------------------------------------
(* The I/O in flight.                                                      *)

\* A step takes at most one write, one read and one GC copy in or out.
WritesKept == inflight'.write = inflight.write /\ \A t \in UTasks : wt'[t].pc = "none" <=> wt[t].pc = "none"
WritesMore(t) ==
    /\ inflight'.write = inflight.write + 1 /\ wt[t].pc = "none" /\ wt'[t].pc # "none"
    /\ \A u \in UTasks : u # t => (wt'[u].pc = "none" <=> wt[u].pc = "none")
WritesLess(t) ==
    /\ inflight'.write = inflight.write - 1 /\ wt[t].pc # "none" /\ wt'[t].pc = "none"
    /\ \A u \in UTasks : u # t => (wt'[u].pc = "none" <=> wt[u].pc = "none")
WritesStep == WritesKept \/ \E t \in UTasks : WritesMore(t) \/ WritesLess(t)

ReadsKept == inflight'.read = inflight.read /\ \A r \in Readers : rd'[r].pc = "none" <=> rd[r].pc = "none"
ReadsMore(r) ==
    /\ inflight'.read = inflight.read + 1 /\ rd[r].pc = "none" /\ rd'[r].pc # "none"
    /\ \A q \in Readers : q # r => (rd'[q].pc = "none" <=> rd[q].pc = "none")
ReadsLess(r) ==
    /\ inflight'.read = inflight.read - 1 /\ rd[r].pc # "none" /\ rd'[r].pc = "none"
    /\ \A q \in Readers : q # r => (rd'[q].pc = "none" <=> rd[q].pc = "none")
ReadsStep == ReadsKept \/ \E r \in Readers : ReadsMore(r) \/ ReadsLess(r)

CopiesKept == inflight'.gc = inflight.gc /\ \A p \in Pbid : gt'[p].pc = "none" <=> gt[p].pc = "none"
CopiesMore(p) ==
    /\ inflight'.gc = inflight.gc + 1 /\ gt[p].pc = "none" /\ gt'[p].pc # "none"
    /\ \A q \in Pbid : q # p => (gt'[q].pc = "none" <=> gt[q].pc = "none")
CopiesLess(p) ==
    /\ inflight'.gc = inflight.gc - 1 /\ gt[p].pc # "none" /\ gt'[p].pc = "none"
    /\ \A q \in Pbid : q # p => (gt'[q].pc = "none" <=> gt[q].pc = "none")
CopiesStep == CopiesKept \/ \E p \in Pbid : CopiesMore(p) \/ CopiesLess(p)

\* The physical blocks are finite in number.
LEMMA PbidFinite == IsFiniteSet(Pbid) /\ IsFiniteSet(Zone)
<1>1. IsFiniteSet(Zone) /\ IsFiniteSet(Offset)
  BY DevAssumption, CountBelow DEF Zone, Offset
<1> QED BY <1>1, FS_Product DEF Pbid

\* Then the three counters stay exact.
LEMMA InflightStep ==
    ASSUME TypeOK, InflightExact, WritesStep, ReadsStep, CopiesStep
    PROVE  InflightExact'
<1> DEFINE W == {t \in UTasks : wt[t].pc # "none"}
           V == {t \in UTasks : wt'[t].pc # "none"}
           R == {r \in Readers : rd[r].pc # "none"}
           Q == {r \in Readers : rd'[r].pc # "none"}
           G == {p \in Pbid : gt[p].pc # "none"}
           F == {p \in Pbid : gt'[p].pc # "none"}
<1>1. IsFiniteSet(UTasks) /\ IsFiniteSet(Readers) /\ IsFiniteSet(Pbid)
  BY IoAssumption, PbidFinite
<1>2. /\ inflight.write = Cardinality(W) /\ inflight.read = Cardinality(R) /\ inflight.gc = Cardinality(G)
      /\ Cardinality(W) \in Nat /\ Cardinality(R) \in Nat /\ Cardinality(G) \in Nat
      /\ Cardinality(V) \in Nat /\ Cardinality(Q) \in Nat /\ Cardinality(F) \in Nat
  BY <1>1, CountNat DEF InflightExact
<1>3. inflight'.write = Cardinality(V)
  <2>1. CASE WritesKept
    <3>1. V = W
      BY <2>1 DEF WritesKept
    <3> QED BY <1>2, <2>1, <3>1 DEF WritesKept
  <2>2. ASSUME NEW t \in UTasks, WritesMore(t) PROVE Cardinality(V) = Cardinality(W) + 1
    <3>1. t \in V /\ t \notin W /\ \A u \in UTasks : u # t => (u \in W <=> u \in V)
      BY <2>2 DEF WritesMore
    <3> QED BY <1>1, <3>1, CountMore
  <2>3. ASSUME NEW t \in UTasks, WritesLess(t) PROVE Cardinality(W) = Cardinality(V) + 1
    <3>1. t \in W /\ t \notin V /\ \A u \in UTasks : u # t => (u \in V <=> u \in W)
      BY <2>3 DEF WritesLess
    <3> QED BY <1>1, <3>1, CountMore
  <2> HIDE DEF V, W
  <2> QED BY <1>2, <2>1, <2>2, <2>3 DEF WritesStep, WritesMore, WritesLess
<1>4. inflight'.read = Cardinality(Q)
  <2>1. CASE ReadsKept
    <3>1. Q = R
      BY <2>1 DEF ReadsKept
    <3> QED BY <1>2, <2>1, <3>1 DEF ReadsKept
  <2>2. ASSUME NEW r \in Readers, ReadsMore(r) PROVE Cardinality(Q) = Cardinality(R) + 1
    <3>1. r \in Q /\ r \notin R /\ \A u \in Readers : u # r => (u \in R <=> u \in Q)
      BY <2>2 DEF ReadsMore
    <3> QED BY <1>1, <3>1, CountMore
  <2>3. ASSUME NEW r \in Readers, ReadsLess(r) PROVE Cardinality(R) = Cardinality(Q) + 1
    <3>1. r \in R /\ r \notin Q /\ \A u \in Readers : u # r => (u \in Q <=> u \in R)
      BY <2>3 DEF ReadsLess
    <3> QED BY <1>1, <3>1, CountMore
  <2> HIDE DEF Q, R
  <2> QED BY <1>2, <2>1, <2>2, <2>3 DEF ReadsStep, ReadsMore, ReadsLess
<1>5. inflight'.gc = Cardinality(F)
  <2>1. CASE CopiesKept
    <3>1. F = G
      BY <2>1 DEF CopiesKept
    <3> QED BY <1>2, <2>1, <3>1 DEF CopiesKept
  <2>2. ASSUME NEW p \in Pbid, CopiesMore(p) PROVE Cardinality(F) = Cardinality(G) + 1
    <3>1. p \in F /\ p \notin G /\ \A u \in Pbid : u # p => (u \in G <=> u \in F)
      BY <2>2 DEF CopiesMore
    <3> QED BY <1>1, <3>1, CountMore
  <2>3. ASSUME NEW p \in Pbid, CopiesLess(p) PROVE Cardinality(G) = Cardinality(F) + 1
    <3>1. p \in G /\ p \notin F /\ \A u \in Pbid : u # p => (u \in F <=> u \in G)
      BY <2>3 DEF CopiesLess
    <3> QED BY <1>1, <3>1, CountMore
  <2> HIDE DEF F, G
  <2> QED BY <1>2, <2>1, <2>2, <2>3 DEF CopiesStep, CopiesMore, CopiesLess
<1> QED BY <1>3, <1>4, <1>5 DEF InflightExact

\* Nobody comes or goes when nothing of it changes.
LEMMA InflightFrame ==
    /\ AllUsersKept /\ inflight'.write = inflight.write => WritesStep
    /\ rd' = rd /\ inflight'.read = inflight.read => ReadsStep
    /\ gt' = gt /\ inflight'.gc = inflight.gc => CopiesStep
    /\ inflight' = inflight => /\ inflight'.write = inflight.write /\ inflight'.read = inflight.read
                               /\ inflight'.gc = inflight.gc
    /\ wt' = wt => AllUsersKept
  BY DEF WritesStep, WritesKept, ReadsStep, ReadsKept, CopiesStep, CopiesKept, AllUsersKept, SameTask

\* One counter changes.
LEMMA InflightFields ==
    ASSUME TypeOK, NEW d \in Int
    PROVE  /\ inflight' = [inflight EXCEPT !.write = @ + d] =>
                 inflight'.write = inflight.write + d /\ inflight'.read = inflight.read /\ inflight'.gc = inflight.gc
           /\ inflight' = [inflight EXCEPT !.read = @ + d] =>
                 inflight'.read = inflight.read + d /\ inflight'.write = inflight.write /\ inflight'.gc = inflight.gc
           /\ inflight' = [inflight EXCEPT !.gc = @ + d] =>
                 inflight'.gc = inflight.gc + d /\ inflight'.write = inflight.write /\ inflight'.read = inflight.read
           /\ inflight' = [inflight EXCEPT !.write = @ - d] =>
                 inflight'.write = inflight.write - d /\ inflight'.read = inflight.read /\ inflight'.gc = inflight.gc
           /\ inflight' = [inflight EXCEPT !.read = @ - d] =>
                 inflight'.read = inflight.read - d /\ inflight'.write = inflight.write /\ inflight'.gc = inflight.gc
           /\ inflight' = [inflight EXCEPT !.gc = @ - d] =>
                 inflight'.gc = inflight.gc - d /\ inflight'.write = inflight.write /\ inflight'.read = inflight.read
  BY DEF TypeOK, IoTypeOK, InflightRec

\* task_put takes out at most the one GC copy it calls back.
LEMMA CallbackCopies ==
    ASSUME TypeOK, NoCallback \/ \E p \in Pbid : Callback(p)
    PROVE  CopiesStep
<1>1. CASE NoCallback
  BY <1>1, InflightFrame DEF NoCallback
<1>2. ASSUME NEW p \in Pbid, Callback(p) PROVE CopiesStep
  <2>1. GcGone(p) /\ gt'[p].pc = "none"
    BY <1>2, GcGoneFx DEF Callback
  <2> QED BY <1>2, <2>1 DEF Callback, CopiesStep, CopiesLess, GcGone, GcFrame
<1> QED BY <1>1, <1>2

\* A user task moves on, and stays in flight.
LEMMA WritesMoves ==
    ASSUME NEW t \in UTasks, OthersKept(t), wt[t].pc # "none", wt'[t].pc # "none",
           inflight'.write = inflight.write
    PROVE  WritesStep
  BY DEF WritesStep, WritesKept, OthersKept, SameTask

\* A GC copy moves on, and stays in flight.
LEMMA CopiesMoves ==
    ASSUME NEW p \in Pbid, GcFrame(p), gt[p].pc # "none", gt'[p].pc # "none", inflight'.gc = inflight.gc
    PROVE  CopiesStep
  BY DEF CopiesStep, CopiesKept, GcFrame

\* A GC copy is freed.
LEMMA CopiesGoes ==
    ASSUME TypeOK, NEW p \in Pbid, gt' = [gt EXCEPT ![p] = NoGcTask], gt[p].pc # "none",
           inflight'.gc = inflight.gc - 1
    PROVE  CopiesStep
<1>1. GcGone(p) /\ gt'[p].pc = "none"
  BY GcGoneFx
<1> QED BY <1>1 DEF CopiesStep, CopiesLess, GcGone, GcFrame

\* The steps of a user write.
LEMMA WriteInflight ==
    ASSUME TypeOK, TaskInv, InflightExact, NEW t \in UTasks, SubmitWrite(t) \/ WriteStep(t)
    PROVE  InflightExact'
<1>1. ASSUME OthersKept(t), wt[t].pc # "none", wt'[t].pc # "none", inflight' = inflight, UNCHANGED <<gt, rd>>
      PROVE  InflightExact'
  BY <1>1, WritesMoves, InflightFrame, InflightStep
<1>2. CASE SubmitWrite(t)
  <2>1. /\ wt[t].pc = "none" /\ wt'[t].pc \in {"alloc", "conflict"} /\ OthersKept(t)
        /\ inflight' = [inflight EXCEPT !.write = @ + 1] /\ UNCHANGED <<gt, rd>>
    BY <1>2, SubmitFx
  <2>2. inflight'.write = inflight.write + 1 /\ inflight'.read = inflight.read /\ inflight'.gc = inflight.gc
    BY <2>1, InflightFields
  <2>3. WritesStep
    BY <2>1, <2>2 DEF WritesStep, WritesMore, OthersKept, SameTask
  <2> QED BY <2>1, <2>2, <2>3, InflightFrame, InflightStep
<1>3. CASE WConflict(t) \/ WDel(t)
  <2>1. /\ wt[t].pc # "none" /\ wt'[t].pc # "none" /\ OthersKept(t)
        /\ NoCallback \/ \E p \in Pbid : Callback(p)
        /\ inflight'.write = inflight.write /\ inflight'.read = inflight.read /\ rd' = rd
    BY <1>3, WConflictFx, WDelFx
  <2> QED BY <2>1, WritesMoves, CallbackCopies, InflightFrame, InflightStep
<1>4. ASSUME NEW s, WGotZone(t, s), wt[t].pc \in {"alloc", "alloc2"} PROVE InflightExact'
  BY <1>1, <1>4, WGotZoneFx
<1>5. CASE WAlloc(t)
  <2>1. CASE wt' = [wt EXCEPT ![t].pc = "alloc2"] /\ UNCHANGED <<gt, rd, inflight>>
    <3>1. wt'[t].pc = "alloc2" /\ OthersKept(t) /\ wt[t].pc = "alloc"
      BY <1>5, <2>1, PcFx DEF WAlloc
    <3> QED BY <1>1, <2>1, <3>1
  <2> QED BY <1>4, <1>5, <2>1 DEF WAlloc
<1>6. CASE WAlloc2(t)
  <2>1. wt[t].pc = "alloc2"
    BY <1>6 DEF WAlloc2
  <2>2. CASE WAllocEagain(t) /\ rd' = rd
    <3>1. wt'[t].pc = "queued" /\ OthersKept(t)
      BY <2>2, PcFx DEF WAllocEagain
    <3> QED BY <1>1, <2>1, <2>2, <3>1 DEF WAllocEagain
  <2>3. CASE WAllocEio(t) /\ rd' = rd
    <3>1. /\ wt'[t].pc = "none" /\ OthersKept(t)
          /\ NoCallback \/ \E p \in Pbid : Callback(p)
      BY <2>3, WAllocEioFx
    <3>2. inflight'.write = inflight.write - 1 /\ inflight'.read = inflight.read
      BY <2>3, WAllocEioFx
    <3>3. WritesStep
      BY <2>1, <3>1, <3>2 DEF WritesStep, WritesLess, OthersKept, SameTask
    <3> QED BY <2>3, <3>1, <3>2, <3>3, CallbackCopies, InflightFrame, InflightStep
  <2> QED BY <1>4, <1>6, <2>1, <2>2, <2>3 DEF WAlloc2
<1>7. CASE WAppend(t) \/ WAppendFails(t)
  BY <1>1, <1>7, WAppendFx
<1>8. CASE WEndio(t)
  <2>1. wt'[t].pc # "none" /\ wt[t].pc # "none" /\ OthersKept(t) /\ UNCHANGED <<gt, rd, inflight>>
    BY <1>8, WEndioFx
  <2> QED BY <1>1, <2>1
<1>9. CASE WOldRmap(t) \/ WOldWeight(t) \/ WNewRmap(t) \/ WComplete(t)
  <2>1. PICK c \in {"oldweight", "newrmap", "del", "put"} :
            wt' = [wt EXCEPT ![t].pc = c] /\ wt[t].pc # "none" /\ UNCHANGED <<gt, rd, inflight>>
    BY <1>9 DEF WOldRmap, WOldWeight, WNewRmap, WComplete
  <2>2. wt'[t].pc = c /\ OthersKept(t)
    BY <2>1, PcFx
  <2> QED BY <1>1, <2>1, <2>2
<1>10. CASE WPut(t)
  <2>1. /\ wt[t].pc = "put" /\ wt'[t].pc = "none" /\ OthersKept(t)
        /\ inflight' = [inflight EXCEPT !.write = @ - 1] /\ UNCHANGED <<gt, rd>>
    BY <1>10, WPutFx
  <2>2. inflight'.write = inflight.write - 1 /\ inflight'.read = inflight.read /\ inflight'.gc = inflight.gc
    BY <2>1, InflightFields
  <2>3. WritesStep
    BY <2>1, <2>2 DEF WritesStep, WritesLess, OthersKept, SameTask
  <2> QED BY <2>1, <2>2, <2>3, InflightFrame, InflightStep
<1> QED BY <1>2, <1>3, <1>5, <1>6, <1>7, <1>8, <1>9, <1>10 DEF WriteStep

\* The steps of a GC copy.
LEMMA CopyInflight ==
    ASSUME TypeOK, TaskInv, InflightExact, NEW p \in Pbid, GcCopy(p)
    PROVE  InflightExact'
<1>1. ASSUME GcFrame(p), gt[p].pc # "none", gt'[p].pc # "none", inflight' = inflight, AllUsersKept, rd' = rd
      PROVE  InflightExact'
  BY <1>1, CopiesMoves, InflightFrame, InflightStep
<1>2. ASSUME gt[p].pc # "none", gt' = [gt EXCEPT ![p] = NoGcTask], inflight' = [inflight EXCEPT !.gc = @ - 1],
             AllUsersKept, rd' = rd
      PROVE  InflightExact'
  <2>1. inflight'.gc = inflight.gc - 1 /\ inflight'.write = inflight.write /\ inflight'.read = inflight.read
    BY <1>2, InflightFields
  <2> QED BY <1>2, <2>1, CopiesGoes, InflightFrame, InflightStep
<1>3. wt' = wt => AllUsersKept
  BY InflightFrame
<1>4. CASE GRead(p)
  BY <1>1, <1>3, <1>4, GReadFx
<1>5. ASSUME NEW c \in {"fault", "alloc2", "cb_put", "cb_rmap", "cb_map", "cb_old"},
             gt' = [gt EXCEPT ![p].pc = c], gt[p].pc # "none", UNCHANGED <<wt, rd, inflight>>
      PROVE  InflightExact'
  <2>1. gt'[p].pc = c /\ GcFrame(p)
    BY <1>5, GcPcFx
  <2> QED BY <1>1, <1>3, <1>5, <2>1
<1>6. CASE GReadFails(p) \/ GEndio(p) \/ GCbRmap(p) \/ GCbMap(p) \/ GCbOld(p)
  BY <1>5, <1>6 DEF GReadFails, GEndio, GCbRmap, GCbMap, GCbOld
<1>7. CASE GFault(p)
  BY <1>2, <1>3, <1>7 DEF GFault
<1>8. CASE GAgency(p)
  <2>1. /\ gt[p].pc = "conflict" /\ AllUsersKept /\ GcFrame(p) /\ rd' = rd
        /\ \/ gt' = [gt EXCEPT ![p] = NoGcTask] /\ inflight' = [inflight EXCEPT !.gc = @ - 1]
           \/ gt'[p].pc = "agency" /\ inflight' = inflight
    BY <1>8, GAgencyFx DEF InflightKept
  <2> QED BY <1>1, <1>2, <2>1
<1>9. CASE GLookup(p)
  <2>1. /\ gt[p].pc = "lookup" /\ GcFrame(p) /\ rd' = rd /\ wt' = wt
        /\ \/ gt' = [gt EXCEPT ![p] = NoGcTask] /\ inflight' = [inflight EXCEPT !.gc = @ - 1]
           \/ gt'[p].pc = "alloc" /\ inflight' = inflight
    BY <1>9, GLookupFx DEF InflightKept
  <2> QED BY <1>1, <1>2, <1>3, <2>1
<1>10. ASSUME NEW s, GGotZone(p, s), gt[p].pc \in {"alloc", "alloc2"} PROVE InflightExact'
  BY <1>1, <1>3, <1>10, GGotZoneFx
<1>11. CASE GAlloc(p)
  BY <1>5, <1>10, <1>11 DEF GAlloc
<1>12. CASE GAlloc2(p)
  <2>1. CASE UNCHANGED ioVars
    BY <2>1, InflightFrame, InflightStep DEF ioVars
  <2> QED BY <1>10, <1>12, <2>1 DEF GAlloc2
<1>13. CASE GAppend(p) \/ GAppendFails(p)
  BY <1>1, <1>3, <1>13, GAppendFx
<1>14. CASE GCbPut(p)
  <2>1. /\ gt[p].pc = "cb_put" /\ GcFrame(p) /\ UNCHANGED <<wt, rd>>
        /\ \/ gt'[p].pc = "fault" /\ inflight' = inflight
           \/ gt'[p].pc = "none" /\ inflight' = [inflight EXCEPT !.gc = @ - 1]
    BY <1>14, GCbPutFx DEF InflightKept
  <2>2. CASE gt'[p].pc = "none" /\ inflight' = [inflight EXCEPT !.gc = @ - 1]
    <3>1. inflight'.gc = inflight.gc - 1 /\ inflight'.write = inflight.write /\ inflight'.read = inflight.read
      BY <2>2, InflightFields
    <3>2. CopiesStep
      BY <2>1, <2>2, <3>1 DEF CopiesStep, CopiesLess, GcFrame
    <3> QED BY <1>3, <2>1, <3>1, <3>2, InflightFrame, InflightStep
  <2> QED BY <1>1, <1>3, <2>1, <2>2
<1> QED BY <1>4, <1>6, <1>7, <1>8, <1>9, <1>11, <1>12, <1>13, <1>14 DEF GcCopy

\* Every step keeps the in-flight counters exact.
LEMMA NextInflight ==
    ASSUME TypeOK, TaskInv, GcFacts, ZoneMarks, InflightExact, [Next]_vars
    PROVE  InflightExact'
<1>1. ASSUME UNCHANGED <<wt, gt, rd, inflight>> PROVE InflightExact'
  BY <1>1, InflightFrame, InflightStep
<1>2. CASE UNCHANGED vars
  BY <1>1, <1>2 DEF vars, ioVars
<1>3. CASE UNCHANGED ioVars
  BY <1>1, <1>3 DEF ioVars
<1>4. ASSUME NEW t \in UTasks, SubmitWrite(t) \/ WriteStep(t) PROVE InflightExact'
  BY <1>4, WriteInflight
<1>5. ASSUME NEW r \in Readers, SubmitRead(r) PROVE InflightExact'
  <2>1. PICK b \in Blks : lbz_submit_read(r, b)
    BY <1>5 DEF SubmitRead
  <2>2. /\ UNCHANGED <<wt, gt>> /\ rd[r].pc = "none" /\ inflight' = [inflight EXCEPT !.read = @ + 1]
        /\ rd' = [rd EXCEPT ![r] = [pc |-> "reading", blkid |-> b, pbid |-> pbids[b]]]
    BY <2>1 DEF lbz_submit_read
  <2>3. inflight'.read = inflight.read + 1 /\ inflight'.write = inflight.write /\ inflight'.gc = inflight.gc
    BY <2>2, InflightFields
  <2>4. ReadsStep
    BY <2>2, <2>3 DEF ReadsStep, ReadsMore, TypeOK, IoTypeOK
  <2> QED BY <2>2, <2>3, <2>4, InflightFrame, InflightStep
<1>6. ASSUME NEW r \in Readers, lbz_read_io_endio(r) PROVE InflightExact'
  <2>1. /\ UNCHANGED <<wt, gt>> /\ rd[r].pc = "reading" /\ inflight' = [inflight EXCEPT !.read = @ - 1]
        /\ rd' = [rd EXCEPT ![r] = NoRead]
    BY <1>6 DEF lbz_read_io_endio
  <2>2. inflight'.read = inflight.read - 1 /\ inflight'.write = inflight.write /\ inflight'.gc = inflight.gc
    BY <2>1, InflightFields
  <2>3. ReadsStep
    BY <2>1, <2>2 DEF ReadsStep, ReadsLess, NoRead, TypeOK, IoTypeOK
  <2> QED BY <2>1, <2>2, <2>3, InflightFrame, InflightStep
<1>7. ASSUME NEW p \in Pbid, GcCopy(p) PROVE InflightExact'
  BY <1>7, CopyInflight
<1>8. CASE RetryWork
  <2>1. CASE WkStart \/ WkSpliceGc \/ WkEnd
    BY <1>1, <2>1 DEF WkStart, WkSpliceGc, WkEnd
  <2>2. CASE WkUser
    <3>1. PICK t \in UTasks : /\ wt[t].pc = "queued" /\ wt'[t].pc \in {"alloc", "conflict"}
                              /\ OthersKept(t) /\ UNCHANGED <<gt, rd, inflight>>
      BY <2>2, WkUserFx
    <3> QED BY <3>1, WritesMoves, InflightFrame, InflightStep
  <2>3. CASE WkGc
    <3>1. PICK p \in Pbid : /\ gt[p].pc = "queued" /\ gt'[p].pc \in {"lookup", "conflict"}
                            /\ GcFrame(p) /\ AllUsersKept /\ UNCHANGED <<rd, inflight>>
      BY <2>3, WkGcFx
    <3> QED BY <3>1, CopiesMoves, InflightFrame, InflightStep
  <2> QED BY <1>8, <2>1, <2>2, <2>3 DEF RetryWork
<1>9. CASE GcIter
  <2>1. UNCHANGED <<wt, rd>>
    BY <1>9, GcIterFx
  <2>2. CASE gt' = gt /\ InflightKept
    BY <1>1, <2>1, <2>2 DEF InflightKept
  <2>3. ASSUME NEW p \in Pbid, gt[p].pc = "none", gt'[p].pc = "reading", GcFrame(p),
               inflight' = [inflight EXCEPT !.gc = @ + 1]
        PROVE  InflightExact'
    <3>1. inflight'.gc = inflight.gc + 1 /\ inflight'.write = inflight.write /\ inflight'.read = inflight.read
      BY <2>3, InflightFields
    <3>2. CopiesStep
      BY <2>3, <3>1 DEF CopiesStep, CopiesMore, GcFrame
    <3> QED BY <2>1, <3>1, <3>2, InflightFrame, InflightStep
  <2> QED BY <1>9, <2>2, <2>3, GcIterFx
<1>10. CASE GcThread
  BY <1>3, <1>9, <1>10 DEF GcThread, GcCheck, GcSelect, GcNoVictim, GcFinish
<1> QED BY <1>2, <1>3, <1>4, <1>5, <1>6, <1>7, <1>8, <1>10 DEF Next, Running, Halted

-----------------------------------------------------------------------------
(* References on the zones.                                                *)

\* Who refers to zone z.
ByStreams(z) == Count(active_zone, z)
ByWrites(z)  == Count(WriteRef, z)
ByCopies(z)  == Count(CopyRef, z)
BySources(z) == Count(SourceRef, z)
ByReads(z)   == Count(ReadRef, z)
ByGc(z)      == IF GcRef = z THEN 1 ELSE 0

\* A reference that goes from a to b, seen from zone z.
Turn(a, b, z) == (IF b = z THEN 1 ELSE 0) - (IF a = z THEN 1 ELSE 0)

\* The streams are finitely many.
LEMMA StreamsFinite == IsFiniteSet(Streams)
<1>1. PICK a \in Int, b \in Int : a = 0 /\ b = 2 /\ a <= b
  OBVIOUS
<1>2. Streams = a .. b - 1
  BY <1>1 DEF Streams, LBZ_ZONE_MAX_STREAM
<1>3. IsFiniteSet(a .. b - 1)
  BY ONLY a \in Int, b \in Int, <1>1, CountBelow, Zenon
<1> QED BY <1>2, <1>3

\* What a map on a finite set is counted by.
LEMMA CountOf ==
    ASSUME NEW S, IsFiniteSet(S), NEW f, DOMAIN f = S, NEW z
    PROVE  Count(f, z) \in Nat
<1>1. {x \in DOMAIN f : f[x] = z} \in SUBSET S
  OBVIOUS
<1> QED BY <1>1, CountNat DEF Count

\* How the count moves when the map changes at c.
LEMMA CountTurn ==
    ASSUME NEW S, IsFiniteSet(S), NEW f, DOMAIN f = S, NEW g, DOMAIN g = S, NEW c \in S,
           \A x \in S : x # c => g[x] = f[x], NEW z
    PROVE  Count(g, z) = Count(f, z) + Turn(f[c], g[c], z)
<1> DEFINE A == {x \in S : f[x] = z}
           B == {x \in S : g[x] = z}
<1>1. Cardinality(A) \in Nat /\ Cardinality(B) \in Nat
  BY CountNat
<1>2. Count(f, z) = Cardinality(A) /\ Count(g, z) = Cardinality(B)
  BY DEF Count
<1>3. CASE f[c] = z <=> g[c] = z
  <2>1. A = B
    BY <1>3
  <2>2. Turn(f[c], g[c], z) = 0
    BY <1>3 DEF Turn
  <2> HIDE DEF A, B
  <2> QED BY <1>1, <1>2, <2>1, <2>2
<1>4. CASE f[c] = z /\ g[c] # z
  <2>1. Cardinality(A) = Cardinality(B) + 1
    BY <1>4, CountMore
  <2> QED BY <1>1, <1>2, <1>4, <2>1 DEF Turn
<1>5. CASE f[c] # z /\ g[c] = z
  <2>1. Cardinality(B) = Cardinality(A) + 1
    BY <1>5, CountMore
  <2> QED BY <1>1, <1>2, <1>5, <2>1 DEF Turn
<1> QED BY <1>3, <1>4, <1>5

\* Each kind of reference is counted by a natural number, before and after a step.
LEMMA RefsNat ==
    ASSUME TypeOK, TypeOK', NEW z
    PROVE  /\ ByStreams(z) \in Nat /\ ByWrites(z) \in Nat /\ ByCopies(z) \in Nat
           /\ BySources(z) \in Nat /\ ByReads(z) \in Nat /\ ByGc(z) \in Int
           /\ ByStreams(z)' \in Nat /\ ByWrites(z)' \in Nat /\ ByCopies(z)' \in Nat
           /\ BySources(z)' \in Nat /\ ByReads(z)' \in Nat /\ ByGc(z)' \in Int
<1>1. /\ DOMAIN active_zone = Streams /\ DOMAIN WriteRef = UTasks /\ DOMAIN CopyRef = Pbid
      /\ DOMAIN SourceRef = Pbid /\ DOMAIN ReadRef = Readers
      /\ DOMAIN active_zone' = Streams /\ DOMAIN WriteRef' = UTasks /\ DOMAIN CopyRef' = Pbid
      /\ DOMAIN SourceRef' = Pbid /\ DOMAIN ReadRef' = Readers
  BY DEF TypeOK, ZmdTypeOK, WriteRef, CopyRef, SourceRef, ReadRef
<1>2. ByGc(z) \in Int /\ ByGc(z)' \in Int
  BY DEF ByGc
<1>3. /\ ByStreams(z) \in Nat /\ ByWrites(z) \in Nat /\ ByCopies(z) \in Nat
      /\ BySources(z) \in Nat /\ ByReads(z) \in Nat
  BY <1>1, CountOf, StreamsFinite, PbidFinite, IoAssumption
     DEF ByStreams, ByWrites, ByCopies, BySources, ByReads
<1>4. /\ Count(active_zone', z) \in Nat /\ Count(WriteRef', z) \in Nat /\ Count(CopyRef', z) \in Nat
      /\ Count(SourceRef', z) \in Nat /\ Count(ReadRef', z) \in Nat
  BY <1>1, CountOf, StreamsFinite, PbidFinite, IoAssumption
<1> QED BY <1>2, <1>3, <1>4 DEF ByStreams, ByWrites, ByCopies, BySources, ByReads, Count

\* The reference counts move exactly as the references do.
RefBalance(z) ==
    zone'[z].refcount = zone[z].refcount
        + (ByStreams(z)' - ByStreams(z)) + (ByWrites(z)' - ByWrites(z))
        + (ByCopies(z)' - ByCopies(z)) + (BySources(z)' - BySources(z))
        + (ByReads(z)' - ByReads(z)) + (ByGc(z)' - ByGc(z))

\* If every count moves as the references do, so does the zone's.
LEMMA RefSum ==
    ASSUME TypeOK, TypeOK', RefcountExact, \A z \in Zone : RefBalance(z)
    PROVE  RefcountExact'
<1>1. SUFFICES ASSUME NEW z \in Zone
               PROVE  zone'[z].refcount = ByStreams(z)' + ByWrites(z)' + ByCopies(z)' + BySources(z)'
                                              + ByReads(z)' + ByGc(z)'
  BY DEF RefcountExact, ByStreams, ByWrites, ByCopies, BySources, ByReads, ByGc
<1>2. zone[z].refcount = ByStreams(z) + ByWrites(z) + ByCopies(z) + BySources(z) + ByReads(z) + ByGc(z)
  BY DEF RefcountExact, ByStreams, ByWrites, ByCopies, BySources, ByReads, ByGc
<1>3. /\ ByStreams(z) \in Int /\ ByWrites(z) \in Int /\ ByCopies(z) \in Int
      /\ BySources(z) \in Int /\ ByReads(z) \in Int /\ ByGc(z) \in Int
      /\ ByStreams(z)' \in Int /\ ByWrites(z)' \in Int /\ ByCopies(z)' \in Int
      /\ BySources(z)' \in Int /\ ByReads(z)' \in Int /\ ByGc(z)' \in Int
  BY RefsNat
<1> QED BY <1>2, <1>3 DEF RefBalance

\* One stream, task or reader moves; the others keep their references.
LEMMA StreamTurn ==
    ASSUME TypeOK, TypeOK', NEW s \in Streams, \A r \in Streams : r # s => active_zone'[r] = active_zone[r],
           NEW z
    PROVE  ByStreams(z)' = ByStreams(z) + Turn(active_zone[s], active_zone'[s], z)
<1>1. DOMAIN active_zone = Streams /\ DOMAIN active_zone' = Streams
  BY DEF TypeOK, ZmdTypeOK
<1>2. Count(active_zone', z) = Count(active_zone, z) + Turn(active_zone[s], active_zone'[s], z)
  BY <1>1, CountTurn, StreamsFinite
<1>3. Count(active_zone, z) \in Nat
  BY <1>1, CountOf, StreamsFinite
<1> QED BY <1>2, <1>3 DEF ByStreams, Count

\* The same for a user write.
LEMMA WriteTurn ==
    ASSUME NEW t \in UTasks, OthersKept(t), NEW z
    PROVE  ByWrites(z)' = ByWrites(z) + Turn(wt[t].zone, wt'[t].zone, z)
<1>1. /\ DOMAIN WriteRef = UTasks /\ DOMAIN WriteRef' = UTasks
      /\ \A u \in UTasks : u # t => WriteRef'[u] = WriteRef[u]
      /\ WriteRef[t] = wt[t].zone /\ WriteRef'[t] = wt'[t].zone
  BY DEF WriteRef, OthersKept, SameTask
<1>2. Count(WriteRef', z) = Count(WriteRef, z) + Turn(WriteRef[t], WriteRef'[t], z)
  BY <1>1, CountTurn, IoAssumption
<1>3. Count(WriteRef, z) \in Nat
  BY <1>1, CountOf, IoAssumption
<1> QED BY <1>1, <1>2, <1>3 DEF ByWrites, Count

\* The same for a GC copy: the zone it writes and the zone it reads.
LEMMA CopyTurn ==
    ASSUME NEW p \in Pbid, GcFrame(p), NEW z
    PROVE  /\ ByCopies(z)' = ByCopies(z) + Turn(gt[p].zone, gt'[p].zone, z)
           /\ BySources(z)' = BySources(z) + Turn(SourceRef[p], SourceRef'[p], z)
<1>1. /\ DOMAIN CopyRef = Pbid /\ DOMAIN CopyRef' = Pbid
      /\ DOMAIN SourceRef = Pbid /\ DOMAIN SourceRef' = Pbid
      /\ \A q \in Pbid : q # p => CopyRef'[q] = CopyRef[q] /\ SourceRef'[q] = SourceRef[q]
      /\ CopyRef[p] = gt[p].zone /\ CopyRef'[p] = gt'[p].zone
  BY DEF CopyRef, SourceRef, GcFrame
<1>2. Count(CopyRef', z) = Count(CopyRef, z) + Turn(CopyRef[p], CopyRef'[p], z)
  BY <1>1, CountTurn, PbidFinite
<1>3. Count(SourceRef', z) = Count(SourceRef, z) + Turn(SourceRef[p], SourceRef'[p], z)
  BY <1>1, CountTurn, PbidFinite
<1>4. Count(CopyRef, z) \in Nat /\ Count(SourceRef, z) \in Nat
  BY <1>1, CountOf, PbidFinite
<1>5. ByCopies(z)' = ByCopies(z) + Turn(gt[p].zone, gt'[p].zone, z)
  BY <1>1, <1>2, <1>4 DEF ByCopies, Count
<1>6. BySources(z)' = BySources(z) + Turn(SourceRef[p], SourceRef'[p], z)
  BY <1>3, <1>4 DEF BySources, Count
<1> QED BY <1>5, <1>6

\* The same for a read.
LEMMA ReadTurn ==
    ASSUME NEW r \in Readers, \A q \in Readers : q # r => rd'[q] = rd[q], NEW z
    PROVE  ByReads(z)' = ByReads(z) + Turn(ReadRef[r], ReadRef'[r], z)
<1>1. /\ DOMAIN ReadRef = Readers /\ DOMAIN ReadRef' = Readers
      /\ \A q \in Readers : q # r => ReadRef'[q] = ReadRef[q]
  BY DEF ReadRef
<1>2. Count(ReadRef', z) = Count(ReadRef, z) + Turn(ReadRef[r], ReadRef'[r], z)
  BY <1>1, CountTurn, IoAssumption
<1>3. Count(ReadRef, z) \in Nat
  BY <1>1, CountOf, IoAssumption
<1> QED BY <1>2, <1>3 DEF ByReads, Count

\* Who keeps still keeps its references.
LEMMA RefsStill ==
    ASSUME NEW z
    PROVE  /\ active_zone' = active_zone => ByStreams(z)' = ByStreams(z)
           /\ AllUsersKept => ByWrites(z)' = ByWrites(z)
           /\ gt' = gt => ByCopies(z)' = ByCopies(z) /\ BySources(z)' = BySources(z)
           /\ rd' = rd => ByReads(z)' = ByReads(z)
           /\ gc' = gc => ByGc(z)' = ByGc(z)
<1>1. AllUsersKept => WriteRef' = WriteRef
  BY DEF AllUsersKept, SameTask, WriteRef
<1>2. gt' = gt => CopyRef' = CopyRef /\ SourceRef' = SourceRef
  BY DEF CopyRef, SourceRef
<1>3. rd' = rd => ReadRef' = ReadRef
  BY DEF ReadRef
<1>4. gc' = gc => GcRef' = GcRef
  BY DEF GcRef
<1> QED BY <1>1, <1>2, <1>3, <1>4 DEF ByStreams, ByWrites, ByCopies, BySources, ByReads, ByGc, Count

\* lbz_put_zone and lbz_get_zone on zone y, as zone z sees them.
LEMMA PutRefs ==
    ASSUME TypeOK, NEW y \in Zone, ZonePut(y), NEW z \in Zone
    PROVE  zone'[z].refcount = zone[z].refcount + Turn(y, NULL, z)
<1>1. zone \in [Zone -> ZoneRec] /\ NULL \notin Zone /\ zone[z].refcount \in Int
  BY DevAssumption DEF TypeOK, ZmdTypeOK, ZoneRec
<1>2. CASE z = y
  <2>1. zone'[z] = lbz_put_zone(zone[z])
    BY <1>1, <1>2 DEF ZonePut
  <2> QED BY <1>1, <1>2, <2>1, PutFields DEF Turn
<1>3. CASE z # y
  BY <1>1, <1>3 DEF ZonePut, Turn
<1> QED BY <1>2, <1>3

\* The reference one lbz_get_zone takes.
LEMMA GetRefs ==
    ASSUME TypeOK, NEW y \in Zone, zone' = [zone EXCEPT ![y] = lbz_get_zone(@)], NEW z \in Zone
    PROVE  zone'[z].refcount = zone[z].refcount + Turn(NULL, y, z)
<1>1. zone \in [Zone -> ZoneRec] /\ NULL \notin Zone /\ zone[z].refcount \in Int
  BY DevAssumption DEF TypeOK, ZmdTypeOK, ZoneRec
<1>2. CASE z = y
  <2>1. zone'[z] = lbz_get_zone(zone[z])
    BY <1>1, <1>2
  <2> QED BY <1>1, <1>2, <2>1, GetFields DEF Turn
<1>3. CASE z # y
  BY <1>1, <1>3 DEF Turn
<1> QED BY <1>2, <1>3

\* lbz_zone_alloc_res gives out one reference on the zone z it writes, and the
\* stream takes its own with the first block and gives it back with the last.
LEMMA AllocRefs ==
    ASSUME TypeOK, TypeOK', OnePlace, ZoneMarks, NEW flag, NEW s \in Streams, lbz_zone_alloc_res(flag, s),
           NEW z, z = TargetZone(s), NEW y \in Zone
    PROVE  zone'[y].refcount = zone[y].refcount + (ByStreams(y)' - ByStreams(y)) + Turn(NULL, z, y)
<1>1. /\ z \in Zone /\ (y # z => zone'[y] = zone[y])
      /\ active_zone[s] = z \/ active_zone[s] = NULL
      /\ \/ zone[z].wp_block + 1 = ZoneNrBlocks /\ active_zone' = [active_zone EXCEPT ![s] = NULL]
         \/ zone[z].wp_block + 1 < ZoneNrBlocks /\ active_zone' = [active_zone EXCEPT ![s] = z]
      /\ zone'[z].refcount = zone[z].refcount + (IF active_zone[s] = NULL THEN 1 ELSE 0)
            + (IF zone[z].wp_block + 1 = ZoneNrBlocks THEN 0 ELSE 1)
      /\ zone[z].wp_block \in Nat
  BY AllocFx
<1>2. /\ active_zone \in [Streams -> Zone \cup {NULL}] /\ NULL \notin Zone
      /\ zone[y].refcount \in Int /\ zone[z].refcount \in Int /\ ZoneNrBlocks \in Nat
  BY <1>1, DevAssumption DEF TypeOK, ZmdTypeOK, ZoneRec
<1>3. \A r \in Streams : r # s => active_zone'[r] = active_zone[r]
  BY <1>1, <1>2
<1>4. ByStreams(y)' = ByStreams(y) + Turn(active_zone[s], active_zone'[s], y)
  BY <1>3, StreamTurn
<1>5. ByStreams(y) \in Int
  BY RefsNat
<1>6. \/ zone[z].wp_block + 1 = ZoneNrBlocks /\ active_zone'[s] = NULL
      \/ zone[z].wp_block + 1 # ZoneNrBlocks /\ active_zone'[s] = z
  BY <1>1, <1>2
<1>7. CASE y = z
  <2>1. Turn(active_zone[s], active_zone'[s], y) =
            (IF zone[z].wp_block + 1 = ZoneNrBlocks THEN 0 ELSE 1) - (IF active_zone[s] = NULL THEN 0 ELSE 1)
    BY <1>1, <1>2, <1>6, <1>7 DEF Turn
  <2>2. Turn(NULL, z, y) = 1
    BY <1>2, <1>7 DEF Turn
  <2> QED BY <1>1, <1>2, <1>4, <1>5, <1>7, <2>1, <2>2
<1>8. CASE y # z
  <2>1. Turn(active_zone[s], active_zone'[s], y) = 0 /\ Turn(NULL, z, y) = 0
    BY <1>1, <1>2, <1>6, <1>8 DEF Turn
  <2> QED BY <1>1, <1>2, <1>4, <1>5, <1>8, <2>1
<1> QED BY <1>7, <1>8

\* __gc_task_callback, when task_put runs it, drops the reference of a copy that
\* has not been given a zone.
LEMMA CallbackRefs ==
    ASSUME TypeOK, TypeOK', GtZones, NoCallback \/ \E p \in Pbid : Callback(p), NEW z \in Zone
    PROVE  /\ zone'[z].refcount = zone[z].refcount + (BySources(z)' - BySources(z))
           /\ ByCopies(z)' = ByCopies(z)
<1>1. zone[z].refcount \in Int /\ NULL \notin Zone
  BY DevAssumption DEF TypeOK, ZmdTypeOK, ZoneRec
<1>2. CASE NoCallback
  BY <1>1, <1>2, RefsStill, RefsNat DEF NoCallback, ZoneKept
<1>3. ASSUME NEW p \in Pbid, Callback(p)
      PROVE  /\ zone'[z].refcount = zone[z].refcount + (BySources(z)' - BySources(z))
             /\ ByCopies(z)' = ByCopies(z)
  <2>1. gt[p].pc = "agency" /\ gt' = [gt EXCEPT ![p] = NoGcTask] /\ ZonePut(p[1]) /\ p[1] \in Zone
    BY <1>3 DEF Callback, Pbid
  <2>2. GcFrame(p) /\ gt'[p].pc = "none" /\ gt'[p].zone = NULL
    BY <2>1, GcGoneFx DEF GcGone
  <2>3. gt[p].zone = NULL
    BY <2>1 DEF GtZones
  <2>4. SourceRef[p] = p[1] /\ SourceRef'[p] = NULL
    BY <2>1, <2>2 DEF SourceRef
  <2>5. /\ ByCopies(z)' = ByCopies(z) + Turn(NULL, NULL, z)
        /\ BySources(z)' = BySources(z) + Turn(p[1], NULL, z)
    BY <2>2, <2>3, <2>4, CopyTurn
  <2>6. zone'[z].refcount = zone[z].refcount + Turn(p[1], NULL, z)
    BY <2>1, PutRefs
  <2>7. Turn(NULL, NULL, z) = 0 /\ Turn(p[1], NULL, z) \in Int
    BY <1>1 DEF Turn
  <2>8. ByCopies(z) \in Int /\ BySources(z) \in Int
    BY RefsNat
  <2> QED BY <1>1, <2>5, <2>6, <2>7, <2>8
<1> QED BY <1>2, <1>3

\* The zones' reference counts stay as they are.
RefsKept == \A z \in Zone : zone'[z].refcount = zone[z].refcount

\* Updates of a zone that leave its reference count alone.
LEMMA OneKept ==
    ASSUME TypeOK, NEW y,
           \/ zone' = zone
           \/ zone' = [zone EXCEPT ![y] = lbz_zone_complete_write(@)]
           \/ zone' = [zone EXCEPT ![y] = lbz_zone_release_global_res(@)]
    PROVE  RefsKept
<1>1. zone \in [Zone -> ZoneRec]
  BY DEF TypeOK, ZmdTypeOK
<1>2. ASSUME NEW z \in Zone PROVE zone'[z].refcount = zone[z].refcount
  <2>1. \/ zone'[z] = zone[z]
        \/ zone'[z] = lbz_zone_complete_write(zone[z])
        \/ zone'[z] = lbz_zone_release_global_res(zone[z])
    BY <1>1
  <2> QED BY <1>1, <2>1, GetFields
<1> QED BY <1>2 DEF RefsKept

\* A step that moves the references of one write only: it takes or drops as many
\* on each zone as the zone counts, and the streams' besides.
LEMMA WriteBalance ==
    ASSUME TypeOK, TypeOK', NEW t \in UTasks, OthersKept(t), UNCHANGED <<gt, rd, gc>>, NEW z \in Zone,
           zone'[z].refcount = zone[z].refcount + (ByStreams(z)' - ByStreams(z))
                                   + Turn(wt[t].zone, wt'[t].zone, z)
    PROVE  RefBalance(z)
<1>1. ByWrites(z)' = ByWrites(z) + Turn(wt[t].zone, wt'[t].zone, z)
  BY WriteTurn
<1>2. /\ ByCopies(z)' = ByCopies(z) /\ BySources(z)' = BySources(z) /\ ByReads(z)' = ByReads(z)
      /\ ByGc(z)' = ByGc(z)
  BY RefsStill
<1>3. /\ zone[z].refcount \in Int /\ ByStreams(z) \in Int /\ ByStreams(z)' \in Int /\ ByWrites(z) \in Int
      /\ ByCopies(z) \in Int /\ BySources(z) \in Int /\ ByReads(z) \in Int /\ ByGc(z) \in Int
  BY RefsNat DEF TypeOK, ZmdTypeOK, ZoneRec
<1>4. Turn(wt[t].zone, wt'[t].zone, z) \in Int
  BY DEF Turn
<1> QED BY <1>1, <1>2, <1>3, <1>4 DEF RefBalance

\* The same for a GC copy, which refers to the zone it writes and to its source.
LEMMA CopyBalance ==
    ASSUME TypeOK, TypeOK', NEW p \in Pbid, GcFrame(p), AllUsersKept, UNCHANGED <<rd, gc>>, NEW z \in Zone,
           zone'[z].refcount = zone[z].refcount + (ByStreams(z)' - ByStreams(z))
               + Turn(gt[p].zone, gt'[p].zone, z) + Turn(SourceRef[p], SourceRef'[p], z)
    PROVE  RefBalance(z)
<1>1. /\ ByCopies(z)' = ByCopies(z) + Turn(gt[p].zone, gt'[p].zone, z)
      /\ BySources(z)' = BySources(z) + Turn(SourceRef[p], SourceRef'[p], z)
  BY CopyTurn
<1>2. ByWrites(z)' = ByWrites(z) /\ ByReads(z)' = ByReads(z) /\ ByGc(z)' = ByGc(z)
  BY RefsStill
<1>3. /\ zone[z].refcount \in Int /\ ByStreams(z) \in Int /\ ByStreams(z)' \in Int /\ ByWrites(z) \in Int
      /\ ByCopies(z) \in Int /\ BySources(z) \in Int /\ ByReads(z) \in Int /\ ByGc(z) \in Int
  BY RefsNat DEF TypeOK, ZmdTypeOK, ZoneRec
<1>4. Turn(gt[p].zone, gt'[p].zone, z) \in Int /\ Turn(SourceRef[p], SourceRef'[p], z) \in Int
  BY DEF Turn
<1> QED BY <1>1, <1>2, <1>3, <1>4 DEF RefBalance

\* task_put, with the callback it may run.
LEMMA CallbackBalance ==
    ASSUME TypeOK, TypeOK', GtZones, NEW t \in UTasks, OthersKept(t), wt'[t].zone = wt[t].zone,
           NoCallback \/ \E p \in Pbid : Callback(p), UNCHANGED <<active_zone, rd, gc>>, NEW z \in Zone
    PROVE  RefBalance(z)
<1>1. /\ zone'[z].refcount = zone[z].refcount + (BySources(z)' - BySources(z))
      /\ ByCopies(z)' = ByCopies(z)
  BY CallbackRefs
<1>2. ByStreams(z)' = ByStreams(z) /\ ByReads(z)' = ByReads(z) /\ ByGc(z)' = ByGc(z)
  BY RefsStill
<1>3. AllUsersKept \/ ByWrites(z)' = ByWrites(z) + Turn(wt[t].zone, wt'[t].zone, z)
  BY WriteTurn
<1>4. /\ zone[z].refcount \in Int /\ ByStreams(z) \in Int /\ ByWrites(z) \in Int
      /\ ByCopies(z) \in Int /\ BySources(z) \in Int /\ ByReads(z) \in Int /\ ByGc(z) \in Int
      /\ BySources(z)' \in Int
  BY RefsNat DEF TypeOK, ZmdTypeOK, ZoneRec
<1>5. Turn(wt[t].zone, wt'[t].zone, z) = 0
  BY DEF Turn
<1>6. ByWrites(z)' = ByWrites(z)
  BY <1>3, <1>4, <1>5, RefsStill
<1> QED BY <1>1, <1>2, <1>4, <1>6 DEF RefBalance

\* The steps of a user write.
LEMMA WriteRefs ==
    ASSUME TypeOK, TypeOK', TaskInv, FactsInv, PlaceInv, NEW t \in UTasks, SubmitWrite(t) \/ WriteStep(t),
           UNCHANGED gc, NEW z \in Zone
    PROVE  RefBalance(z)
<1>1. /\ NULL \notin Zone /\ zone[z].refcount \in Int /\ ByStreams(z) \in Int /\ ByStreams(z)' \in Int
      /\ active_zone' = active_zone => ByStreams(z)' = ByStreams(z)
  BY RefsNat, RefsStill, DevAssumption DEF TypeOK, ZmdTypeOK, ZoneRec
<1>2. ASSUME OthersKept(t), wt'[t].zone = wt[t].zone, RefsKept, UNCHANGED <<gt, rd, active_zone>>
      PROVE  RefBalance(z)
  <2>1. zone'[z].refcount = zone[z].refcount /\ Turn(wt[t].zone, wt'[t].zone, z) = 0
    BY <1>2 DEF RefsKept, Turn
  <2> QED BY <1>1, <1>2, <2>1, WriteBalance
<1>3. ASSUME NEW c, wt' = [wt EXCEPT ![t].pc = c], RefsKept, UNCHANGED <<gt, rd, active_zone>>
      PROVE  RefBalance(z)
  <2>1. OthersKept(t) /\ wt'[t].zone = wt[t].zone
    BY <1>3, PcFx DEF KeepsFields
  <2> QED BY <1>2, <1>3, <2>1
<1>4. zone' = zone => RefsKept
  BY DEF RefsKept
<1>5. CASE SubmitWrite(t)
  <2>1. /\ wt[t].pc = "none" /\ wt'[t].zone = NULL /\ OthersKept(t)
        /\ zone' = zone /\ UNCHANGED <<gt, rd, active_zone>>
    BY <1>5, SubmitFx DEF Blank, lowVars, zmdVars, listVars
  <2>2. wt[t].zone = NULL
    BY <2>1 DEF FactsInv, WtZones
  <2> QED BY <1>2, <1>4, <2>1, <2>2
<1>6. CASE WConflict(t) \/ WDel(t)
  <2>1. /\ OthersKept(t) /\ wt'[t].zone = wt[t].zone /\ UNCHANGED <<active_zone, rd>>
        /\ NoCallback \/ \E p \in Pbid : Callback(p)
    BY <1>6, WConflictFx, WDelFx DEF KeepsFields, listVars
  <2> QED BY <2>1, CallbackBalance DEF FactsInv
<1>7. ASSUME NEW s \in Streams, WGotZone(t, s), wt[t].pc \in {"alloc", "alloc2"} PROVE RefBalance(z)
  <2>1. PICK y : y = TargetZone(s)
    OBVIOUS
  <2>2. /\ wt'[t].zone = y /\ OthersKept(t) /\ lbz_zone_alloc_res(AllocFlag(t), s) /\ UNCHANGED <<gt, rd>>
    BY <1>7, <2>1, WGotZoneFx
  <2>3. wt[t].zone = NULL
    BY <1>7 DEF FactsInv, WtZones
  <2>4. zone'[z].refcount = zone[z].refcount + (ByStreams(z)' - ByStreams(z)) + Turn(NULL, y, z)
    BY <2>1, <2>2, AllocRefs DEF PlaceInv
  <2> QED BY <2>2, <2>3, <2>4, WriteBalance
<1>8. CASE WAlloc(t)
  <2>1. wt[t].pc = "alloc" /\ StreamId[wt[t].blkid] \in Streams
    BY <1>8, IoAssumption DEF WAlloc, TaskInv, WtFacts
  <2>2. CASE wt' = [wt EXCEPT ![t].pc = "alloc2"] /\ UNCHANGED <<lowVars, gt, rd>>
    BY <1>3, <1>4, <2>2 DEF lowVars, zmdVars, listVars
  <2> QED BY <1>7, <1>8, <2>1, <2>2 DEF WAlloc
<1>9. CASE WAlloc2(t)
  <2>1. wt[t].pc = "alloc2" /\ OtherStream(StreamId[wt[t].blkid]) \in Streams
    BY <1>9, IoAssumption DEF WAlloc2, TaskInv, WtFacts, OtherStream, Streams, LBZ_ZONE_MAX_STREAM
  <2>2. CASE WAllocEagain(t) /\ UNCHANGED <<listVars, rd>>
    BY <1>3, <1>4, <2>2 DEF WAllocEagain, listVars
  <2>3. CASE WAllocEio(t) /\ UNCHANGED <<listVars, rd>>
    <3>1. /\ wt'[t].zone = NULL /\ OthersKept(t) /\ active_zone' = active_zone /\ rd' = rd
          /\ NoCallback \/ \E p \in Pbid : Callback(p)
      BY <2>3, WAllocEioFx DEF Blank, listVars
    <3>2. wt[t].zone = NULL
      BY <2>1 DEF FactsInv, WtZones
    <3> QED BY <3>1, <3>2, CallbackBalance DEF FactsInv
  <2> QED BY <1>7, <1>9, <2>1, <2>2, <2>3 DEF WAlloc2
<1>10. CASE WAppend(t) \/ WAppendFails(t)
  BY <1>2, <1>4, <1>10, WAppendFx DEF zmdVars, listVars
<1>11. CASE WEndio(t)
  <2>1. OthersKept(t) /\ wt'[t].zone = wt[t].zone /\ UNCHANGED <<zmdVars, gt, rd>>
    BY <1>11, WEndioFx
  <2> QED BY <1>2, <1>4, <2>1 DEF zmdVars, listVars
<1>12. CASE WOldRmap(t) \/ WOldWeight(t) \/ WNewRmap(t) \/ WComplete(t)
  <2>1. PICK c, y : /\ wt' = [wt EXCEPT ![t].pc = c] /\ UNCHANGED <<gt, rd, listVars>>
                    /\ \/ zone' = zone
                       \/ zone' = [zone EXCEPT ![y] = lbz_zone_complete_write(@)]
                       \/ zone' = [zone EXCEPT ![y] = lbz_zone_release_global_res(@)]
    BY <1>12 DEF WOldRmap, WOldWeight, WNewRmap, WComplete
  <2>2. RefsKept
    BY <2>1, OneKept
  <2> QED BY <1>3, <2>1, <2>2 DEF listVars
<1>13. CASE WPut(t)
  <2>1. /\ wt[t].pc = "put" /\ wt'[t].zone = NULL /\ OthersKept(t) /\ ZonePut(wt[t].zone)
        /\ UNCHANGED <<active_zone, gt, rd>>
    BY <1>13, WPutFx DEF Blank, listVars
  <2>2. wt[t].zone \in Zone
    BY <2>1 DEF FactsInv, WtZones
  <2>3. zone'[z].refcount = zone[z].refcount + Turn(wt[t].zone, NULL, z)
    BY <2>1, <2>2, PutRefs
  <2>4. Turn(wt[t].zone, NULL, z) \in Int
    BY DEF Turn
  <2> QED BY <1>1, <2>1, <2>3, <2>4, WriteBalance
<1> QED BY <1>5, <1>6, <1>8, <1>9, <1>10, <1>11, <1>12, <1>13 DEF WriteStep

\* A copy that has a source refers to its zone.
LEMMA SourceOf ==
    ASSUME NEW p \in Pbid
    PROVE  /\ gt[p].pc \notin {"none", "fault"} => SourceRef[p] = p[1]
           /\ gt'[p].pc \notin {"none", "fault"} => SourceRef'[p] = p[1]
           /\ gt[p].pc \in {"none", "fault"} => SourceRef[p] = NULL
           /\ gt'[p].pc \in {"none", "fault"} => SourceRef'[p] = NULL
  BY DEF SourceRef

\* Two zones, or one zone twice, are put in one step.
LEMMA TwoPuts ==
    ASSUME TypeOK, NEW a \in Zone, NEW b \in Zone, NEW z \in Zone,
           zone' = [[zone EXCEPT ![a] = lbz_put_zone(@)] EXCEPT ![b] = lbz_put_zone(@)]
    PROVE  zone'[z].refcount = zone[z].refcount + Turn(a, NULL, z) + Turn(b, NULL, z)
<1>1. zone \in [Zone -> ZoneRec] /\ NULL \notin Zone /\ zone[z].refcount \in Int
  BY DevAssumption DEF TypeOK, ZmdTypeOK, ZoneRec
<1>2. PICK e : e = [zone EXCEPT ![a] = lbz_put_zone(@)]
  OBVIOUS
<1>3. DOMAIN e = Zone /\ e[z] = IF z = a THEN lbz_put_zone(zone[z]) ELSE zone[z]
  BY <1>1, <1>2
<1>4. zone'[z] = IF z = b THEN lbz_put_zone(e[z]) ELSE e[z]
  BY <1>2, <1>3
<1>5. lbz_put_zone(zone[z]).refcount = zone[z].refcount - 1
  BY <1>1, PutFields
<1>6. lbz_put_zone(zone[z]) \in ZoneRec
  BY <1>1, ZoneRecOps
<1>7. lbz_put_zone(lbz_put_zone(zone[z])).refcount = zone[z].refcount - 1 - 1
  BY <1>5, <1>6, PutFields
<1> QED BY <1>1, <1>3, <1>4, <1>5, <1>7 DEF Turn

\* The steps of a GC copy.
LEMMA CopyRefs ==
    ASSUME TypeOK, TypeOK', TaskInv, FactsInv, PlaceInv, NEW p \in Pbid, GcCopy(p), UNCHANGED gc,
           NEW z \in Zone
    PROVE  RefBalance(z)
<1>1. /\ NULL \notin Zone /\ p[1] \in Zone /\ zone[z].refcount \in Int
      /\ ByStreams(z) \in Int /\ ByStreams(z)' \in Int
      /\ active_zone' = active_zone => ByStreams(z)' = ByStreams(z)
  <2>1. NULL \notin Zone /\ p[1] \in Zone /\ zone[z].refcount \in Int
    BY DevAssumption DEF TypeOK, ZmdTypeOK, ZoneRec, Pbid
  <2> QED BY <2>1, RefsNat, RefsStill
<1>2. wt' = wt => AllUsersKept
  BY InflightFrame
<1>3. ASSUME GcFrame(p), gt'[p].zone = gt[p].zone, gt[p].pc \notin {"none", "fault"},
             gt'[p].pc \notin {"none", "fault"}, RefsKept, AllUsersKept, UNCHANGED <<rd, active_zone>>
      PROVE  RefBalance(z)
  <2>1. zone'[z].refcount = zone[z].refcount /\ Turn(gt[p].zone, gt'[p].zone, z) = 0
    BY <1>3 DEF RefsKept, Turn
  <2>2. Turn(SourceRef[p], SourceRef'[p], z) = 0
    BY <1>3, SourceOf DEF Turn
  <2> QED BY <1>1, <1>3, <2>1, <2>2, CopyBalance
<1>4. ASSUME GcFrame(p), gt'[p].zone = gt[p].zone, gt[p].pc \notin {"none", "fault"},
             gt'[p].pc \in {"none", "fault"}, zone'[z].refcount = zone[z].refcount + Turn(p[1], NULL, z),
             AllUsersKept, UNCHANGED <<rd, active_zone>>
      PROVE  RefBalance(z)
  <2>1. Turn(gt[p].zone, gt'[p].zone, z) = 0 /\ Turn(p[1], NULL, z) \in Int
    BY <1>4 DEF Turn
  <2>2. SourceRef[p] = p[1] /\ SourceRef'[p] = NULL
    BY <1>4, SourceOf
  <2> QED BY <1>1, <1>4, <2>1, <2>2, CopyBalance
<1>5. ASSUME NEW c \in {"alloc2", "cb_put", "cb_rmap", "cb_map", "cb_old"}, gt' = [gt EXCEPT ![p].pc = c],
             gt[p].pc \notin {"none", "fault"}, RefsKept, UNCHANGED <<wt, rd, active_zone>>
      PROVE  RefBalance(z)
  <2>1. gt'[p].pc = c /\ GcFrame(p) /\ gt'[p].zone = gt[p].zone
    BY <1>5, GcPcFx DEF GcKeeps
  <2> QED BY <1>2, <1>3, <1>5, <2>1
<1>6. zone' = zone => RefsKept
  BY DEF RefsKept
<1>7. CASE GRead(p)
  <2>1. /\ gt[p].pc = "reading" /\ gt'[p].pc = "queued" /\ GcFrame(p) /\ gt'[p].zone = gt[p].zone
        /\ zone' = zone /\ UNCHANGED <<wt, rd, active_zone>>
    BY <1>7, GReadFx DEF GcKeeps, lowVars, zmdVars, listVars
  <2> QED BY <1>2, <1>3, <1>6, <2>1
<1>8. CASE GReadFails(p)
  <2>1. /\ gt[p].pc = "reading" /\ gt' = [gt EXCEPT ![p].pc = "fault"] /\ ZonePut(p[1])
        /\ UNCHANGED <<wt, rd, active_zone>>
    BY <1>8 DEF GReadFails, ZonePut, get_zone_by_pbid, listVars
  <2>2. gt'[p].pc = "fault" /\ GcFrame(p) /\ gt'[p].zone = gt[p].zone
    BY <2>1, GcPcFx DEF GcKeeps
  <2>3. zone'[z].refcount = zone[z].refcount + Turn(p[1], NULL, z)
    BY <1>1, <2>1, PutRefs
  <2> QED BY <1>2, <1>4, <2>1, <2>2, <2>3
<1>9. CASE GFault(p)
  <2>1. /\ gt[p].pc = "fault" /\ gt' = [gt EXCEPT ![p] = NoGcTask] /\ zone' = zone
        /\ UNCHANGED <<wt, rd, active_zone>>
    BY <1>9 DEF GFault, zmdVars, listVars
  <2>2. GcFrame(p) /\ gt'[p].pc = "none" /\ gt'[p].zone = NULL /\ gt[p].zone = NULL
    BY <2>1, GcGoneFx DEF GcGone, FactsInv, GtZones
  <2>3. Turn(gt[p].zone, gt'[p].zone, z) = 0 /\ Turn(SourceRef[p], SourceRef'[p], z) = 0
    BY <2>1, <2>2, SourceOf DEF Turn
  <2> QED BY <1>1, <1>2, <2>1, <2>2, <2>3, CopyBalance
<1>10. CASE GAgency(p)
  <2>1. /\ gt[p].pc = "conflict" /\ AllUsersKept /\ GcFrame(p) /\ UNCHANGED <<rd, active_zone>>
        /\ \/ gt' = [gt EXCEPT ![p] = NoGcTask] /\ ZonePut(p[1])
           \/ gt'[p].pc = "agency" /\ gt'[p].zone = gt[p].zone /\ zone' = zone
    BY <1>10, GAgencyFx DEF GcKeeps, ZoneKept, listVars
  <2>2. CASE gt' = [gt EXCEPT ![p] = NoGcTask] /\ ZonePut(p[1])
    <3>1. gt'[p].pc = "none" /\ gt'[p].zone = NULL /\ gt[p].zone = NULL
      BY <2>1, <2>2, GcGoneFx DEF FactsInv, GtZones
    <3>2. zone'[z].refcount = zone[z].refcount + Turn(p[1], NULL, z)
      BY <1>1, <2>2, PutRefs
    <3> QED BY <1>4, <2>1, <3>1, <3>2
  <2> QED BY <1>3, <1>6, <2>1, <2>2
<1>11. CASE GLookup(p)
  <2>1. /\ gt[p].pc = "lookup" /\ GcFrame(p) /\ UNCHANGED <<wt, rd, active_zone>>
        /\ \/ gt'[p].pc = "alloc" /\ gt'[p].zone = gt[p].zone /\ ZonesAlike(zone')
           \/ /\ gt' = [gt EXCEPT ![p] = NoGcTask]
              /\ \E zn : ZonesAlike(zn) /\ zone' = [zn EXCEPT ![p[1]] = lbz_put_zone(@)]
    BY <1>11, GLookupFx DEF GcKeeps, listVars
  <2>2. CASE gt'[p].pc = "alloc" /\ gt'[p].zone = gt[p].zone /\ ZonesAlike(zone')
    BY <1>2, <1>3, <2>1, <2>2 DEF ZonesAlike, RefsKept
  <2>3. ASSUME NEW zn, ZonesAlike(zn), zone' = [zn EXCEPT ![p[1]] = lbz_put_zone(@)],
               gt' = [gt EXCEPT ![p] = NoGcTask]
        PROVE  RefBalance(z)
    <3>1. gt'[p].pc = "none" /\ gt'[p].zone = NULL /\ gt[p].zone = NULL
      BY <2>1, <2>3, GcGoneFx DEF FactsInv, GtZones
    <3>2. zn[z] \in ZoneRec /\ zn[z].refcount = zone[z].refcount
      BY <2>3 DEF ZonesAlike
    <3>3. zone'[z] = IF z = p[1] THEN lbz_put_zone(zn[z]) ELSE zn[z]
      BY <2>3 DEF ZonesAlike
    <3>4. zone'[z].refcount = zone[z].refcount + Turn(p[1], NULL, z)
      BY <1>1, <3>2, <3>3, PutFields DEF Turn
    <3> QED BY <1>2, <1>4, <2>1, <3>1, <3>4
  <2> QED BY <2>1, <2>2, <2>3
<1>12. ASSUME NEW s \in Streams, GGotZone(p, s), gt[p].pc \in {"alloc", "alloc2"} PROVE RefBalance(z)
  <2>1. PICK y : y = TargetZone(s)
    OBVIOUS
  <2>2. /\ gt'[p].pc = "append" /\ gt'[p].zone = y /\ GcFrame(p) /\ lbz_zone_alloc_res("GC", s)
        /\ UNCHANGED <<wt, rd>>
    BY <1>12, <2>1, GGotZoneFx
  <2>3. gt[p].zone = NULL
    BY <1>12 DEF FactsInv, GtZones
  <2>4. zone'[z].refcount = zone[z].refcount + (ByStreams(z)' - ByStreams(z)) + Turn(NULL, y, z)
    BY <2>1, <2>2, AllocRefs DEF PlaceInv
  <2>5. Turn(SourceRef[p], SourceRef'[p], z) = 0 /\ Turn(NULL, y, z) \in Int
    BY <1>12, <2>2, SourceOf DEF Turn
  <2> QED BY <1>1, <1>2, <2>2, <2>3, <2>4, <2>5, CopyBalance
<1>13. CASE GAlloc(p)
  <2>1. gt[p].pc = "alloc" /\ StreamId[gt[p].blkid] \in Streams
    BY <1>13, IoAssumption DEF GAlloc, TaskInv, GtFacts
  <2>2. CASE gt' = [gt EXCEPT ![p].pc = "alloc2"] /\ UNCHANGED <<lowVars, wt, rd>>
    BY <1>5, <1>6, <2>1, <2>2 DEF lowVars, zmdVars, listVars
  <2> QED BY <1>12, <1>13, <2>1, <2>2 DEF GAlloc
<1>14. CASE GAlloc2(p)
  <2>1. gt[p].pc = "alloc2" /\ OtherStream(StreamId[gt[p].blkid]) \in Streams
    BY <1>14, IoAssumption DEF GAlloc2, TaskInv, GtFacts, OtherStream, Streams, LBZ_ZONE_MAX_STREAM
  <2>2. CASE UNCHANGED <<zmdVars, ioVars>>
    <3>1. GcFrame(p) /\ gt' = gt /\ zone' = zone /\ UNCHANGED <<wt, rd, active_zone>>
      BY <2>2 DEF GcFrame, zmdVars, listVars, ioVars
    <3> QED BY <1>2, <1>3, <1>6, <2>1, <3>1
  <2> QED BY <1>12, <1>14, <2>1, <2>2 DEF GAlloc2
<1>15. CASE GAppend(p) \/ GAppendFails(p)
  <2>1. /\ gt[p].pc = "append" /\ gt'[p].pc = "endio" /\ GcFrame(p) /\ gt'[p].zone = gt[p].zone
        /\ zone' = zone /\ UNCHANGED <<wt, rd, active_zone>>
    BY <1>15, GAppendFx DEF zmdVars, listVars
  <2> QED BY <1>2, <1>3, <1>6, <2>1
<1>16. CASE GEndio(p) \/ GCbRmap(p) \/ GCbMap(p) \/ GCbOld(p)
  <2>1. ASSUME NEW y,
               \/ zone' = zone
               \/ zone' = [zone EXCEPT ![y] = lbz_zone_complete_write(@)]
               \/ zone' = [zone EXCEPT ![y] = lbz_zone_release_global_res(@)]
        PROVE  RefBalance(z)
    <3>1. RefsKept
      BY <2>1, OneKept
    <3>2. PICK c \in {"cb_put", "cb_rmap", "cb_map", "cb_old"} :
              /\ gt' = [gt EXCEPT ![p].pc = c] /\ gt[p].pc \notin {"none", "fault"}
              /\ UNCHANGED <<wt, rd, active_zone>>
      BY <1>16 DEF GEndio, GCbRmap, GCbMap, GCbOld, zmdVars, listVars
    <3> QED BY <1>5, <3>1, <3>2
  <2> QED BY <1>16, <2>1 DEF GEndio, GCbRmap, GCbMap, GCbOld, zmdVars
<1>17. CASE GCbPut(p)
  <2>1. /\ gt[p].pc = "cb_put" /\ GcFrame(p) /\ gt'[p].zone = NULL /\ gt'[p].pc \in {"fault", "none"}
        /\ zone' = [[zone EXCEPT ![gt[p].zone] = lbz_put_zone(@)] EXCEPT ![p[1]] = lbz_put_zone(@)]
        /\ UNCHANGED <<wt, rd, active_zone>>
    BY <1>17, GCbPutFx DEF listVars
  <2>2. gt[p].zone \in Zone
    BY <2>1 DEF FactsInv, GtZones
  <2>3. zone'[z].refcount = zone[z].refcount + Turn(gt[p].zone, NULL, z) + Turn(p[1], NULL, z)
    <3>1. PICK x, y : x = gt[p].zone /\ y = p[1]
      OBVIOUS
    <3>2. x \in Zone /\ y \in Zone /\ zone' = [[zone EXCEPT ![x] = lbz_put_zone(@)] EXCEPT ![y] = lbz_put_zone(@)]
      BY <1>1, <2>1, <2>2, <3>1
    <3>3. zone'[z].refcount = zone[z].refcount + Turn(x, NULL, z) + Turn(y, NULL, z)
      BY <1>1, <3>2, TwoPuts
    <3> QED BY <3>1, <3>3
  <2>4. SourceRef[p] = p[1] /\ SourceRef'[p] = NULL
    BY <2>1, SourceOf
  <2>5. Turn(gt[p].zone, NULL, z) \in Int /\ Turn(p[1], NULL, z) \in Int
    BY DEF Turn
  <2>6. zone'[z].refcount = zone[z].refcount + (ByStreams(z)' - ByStreams(z))
               + Turn(gt[p].zone, gt'[p].zone, z) + Turn(SourceRef[p], SourceRef'[p], z)
    BY <1>1, <2>1, <2>3, <2>4, <2>5
  <2> QED BY <1>2, <2>1, <2>6, CopyBalance
<1> QED BY <1>7, <1>8, <1>9, <1>10, <1>11, <1>13, <1>14, <1>15, <1>16, <1>17 DEF GcCopy

\* The steps of a read: lbz_mapping_lookup takes the reference its completion drops.
LEMMA ReadRefs ==
    ASSUME TypeOK, TypeOK', FactsInv, NEW r \in Readers, SubmitRead(r) \/ lbz_read_io_endio(r), UNCHANGED gc,
           NEW z \in Zone
    PROVE  RefBalance(z)
<1>1. /\ NULL \notin Zone /\ zone[z].refcount \in Int /\ rd \in [Readers -> RdRec]
      /\ \A p \in Pbid : p[1] \in Zone
  BY DevAssumption DEF TypeOK, ZmdTypeOK, IoTypeOK, ZoneRec, Pbid
<1>2. ASSUME NEW a, NEW b, ReadRef[r] = a, ReadRef'[r] = b, \A q \in Readers : q # r => rd'[q] = rd[q],
             zone'[z].refcount = zone[z].refcount + Turn(a, b, z), UNCHANGED <<active_zone, wt, gt>>
      PROVE  RefBalance(z)
  <2>1. ByReads(z)' = ByReads(z) + Turn(a, b, z)
    BY <1>2, ReadTurn
  <2>2. /\ ByStreams(z)' = ByStreams(z) /\ ByWrites(z)' = ByWrites(z) /\ ByCopies(z)' = ByCopies(z)
        /\ BySources(z)' = BySources(z) /\ ByGc(z)' = ByGc(z)
    BY <1>2, RefsStill, InflightFrame
  <2>3. /\ ByStreams(z) \in Int /\ ByWrites(z) \in Int /\ ByCopies(z) \in Int
        /\ BySources(z) \in Int /\ ByReads(z) \in Int /\ ByGc(z) \in Int
    BY RefsNat
  <2>4. Turn(a, b, z) \in Int
    BY DEF Turn
  <2> QED BY <1>1, <1>2, <2>1, <2>2, <2>3, <2>4 DEF RefBalance
<1>3. CASE SubmitRead(r)
  <2>1. PICK b \in Blks : lbz_submit_read(r, b)
    BY <1>3 DEF SubmitRead
  <2>2. /\ UNCHANGED <<wt, gt, active_zone>> /\ rd[r].pc = "none"
        /\ rd' = [rd EXCEPT ![r] = [pc |-> "reading", blkid |-> b, pbid |-> pbids[b]]]
        /\ zone' = [zone EXCEPT ![pbids[b][1]] = lbz_get_zone(@)] /\ Mapped(b)
    BY <2>1 DEF lbz_submit_read, lbz_mapping_lookup, get_zone_by_pbid, listVars
  <2>3. pbids[b] \in Pbid
    BY <2>2 DEF TypeOK, MappingTypeOK, Mapped
  <2>4. PICK y \in Zone : y = pbids[b][1]
    BY <1>1, <2>3
  <2>5. ReadRef[r] = NULL /\ ReadRef'[r] = y /\ \A q \in Readers : q # r => rd'[q] = rd[q]
    BY <1>1, <2>2, <2>4 DEF ReadRef
  <2>6. zone'[z].refcount = zone[z].refcount + Turn(NULL, y, z)
    BY <2>2, <2>4, GetRefs
  <2> QED BY <1>2, <2>2, <2>5, <2>6
<1>4. CASE lbz_read_io_endio(r)
  <2>1. /\ UNCHANGED <<wt, gt, active_zone>> /\ rd[r].pc = "reading" /\ rd' = [rd EXCEPT ![r] = NoRead]
        /\ ZonePut(rd[r].pbid[1])
    BY <1>4 DEF lbz_read_io_endio, ZonePut, get_zone_by_pbid, listVars
  <2>2. PICK y \in Zone : y = rd[r].pbid[1]
    BY <1>1, <2>1 DEF FactsInv, ReadFacts
  <2>3. ReadRef[r] = y /\ ReadRef'[r] = NULL /\ \A q \in Readers : q # r => rd'[q] = rd[q]
    BY <1>1, <2>1, <2>2 DEF ReadRef, NoRead
  <2>4. zone'[z].refcount = zone[z].refcount + Turn(y, NULL, z)
    BY <2>1, <2>2, PutRefs
  <2> QED BY <1>2, <2>1, <2>3, <2>4
<1> QED BY <1>3, <1>4

\* The GC thread's own reference, from lbz_find_victim_zone to the end of
\* __gc_one_zone, and the one each copy it starts is given.
LEMMA GcThreadRefs ==
    ASSUME TypeOK, TypeOK', FactsInv, PlaceInv, GcThread, NEW z \in Zone
    PROVE  RefBalance(z)
<1>1. NULL \notin Zone /\ zone[z].refcount \in Int /\ zone \in [Zone -> ZoneRec] /\ gc \in GcRec
  BY DevAssumption DEF TypeOK, ZmdTypeOK, GcTypeOK, ZoneRec
<1>2. ASSUME NEW a, NEW b, GcRef = a, GcRef' = b, zone'[z].refcount = zone[z].refcount + Turn(a, b, z),
             UNCHANGED <<active_zone, wt, gt, rd>>
      PROVE  RefBalance(z)
  <2>1. ByGc(z)' = ByGc(z) + Turn(a, b, z)
    BY <1>2 DEF ByGc, Turn
  <2>2. /\ ByStreams(z)' = ByStreams(z) /\ ByWrites(z)' = ByWrites(z) /\ ByCopies(z)' = ByCopies(z)
        /\ BySources(z)' = BySources(z) /\ ByReads(z)' = ByReads(z)
    BY <1>2, RefsStill, InflightFrame
  <2>3. /\ ByStreams(z) \in Int /\ ByWrites(z) \in Int /\ ByCopies(z) \in Int
        /\ BySources(z) \in Int /\ ByReads(z) \in Int /\ ByGc(z) \in Int
    BY RefsNat
  <2>4. Turn(a, b, z) \in Int
    BY DEF Turn
  <2> QED BY <1>1, <1>2, <2>1, <2>2, <2>3, <2>4 DEF RefBalance
<1>3. CASE GcCheck \/ GcNoVictim
  <2>1. zone' = zone /\ UNCHANGED <<active_zone, wt, gt, rd>> /\ GcRef = NULL /\ GcRef' = NULL
    BY <1>1, <1>3 DEF GcCheck, GcNoVictim, zmdVars, listVars, ioVars, GcRef, GcRec
  <2>2. Turn(NULL, NULL, z) = 0
    BY DEF Turn
  <2> QED BY <1>1, <1>2, <2>1, <2>2
<1>4. CASE GcSelect
  <2>1. PICK y \in full_zone_list :
            /\ zone' = [zone EXCEPT ![y] = SetFlag(lbz_get_zone(@), "GC")]
            /\ gc' = [pc |-> "iter", mod |-> "DEFAULT", gc_zone |-> y, iter |-> 0]
    BY <1>4 DEF GcSelect, lbz_find_victim_zone, MinWeight
  <2>2. gc.pc = "victim" /\ UNCHANGED <<active_zone, wt, gt, rd>> /\ y \in Zone
    BY <1>4 DEF GcSelect, ioVars, TypeOK, ZmdTypeOK
  <2>3. GcRef = NULL /\ GcRef' = y
    BY <2>1, <2>2 DEF GcRef
  <2>4. zone'[z].refcount = zone[z].refcount + Turn(NULL, y, z)
    <3>1. zone'[z] = IF z = y THEN SetFlag(lbz_get_zone(zone[z]), "GC") ELSE zone[z]
      BY <1>1, <2>1
    <3>2. SetFlag(lbz_get_zone(zone[z]), "GC").refcount = zone[z].refcount + 1
      BY <1>1, GetFields, ZoneRecOps DEF SetFlag, ZoneRec
    <3> QED BY <1>1, <2>2, <3>1, <3>2 DEF Turn
  <2> QED BY <1>2, <2>2, <2>3, <2>4
<1>5. CASE GcIter
  <2>1. /\ gc.pc = "iter" /\ gc'.pc = gc.pc /\ gc'.gc_zone = gc.gc_zone
        /\ UNCHANGED <<active_zone, wt, rd>>
        /\ \/ zone' = zone /\ gt' = gt
           \/ \E p \in Pbid :
                 /\ gt[p].pc = "none" /\ GcFrame(p) /\ gt'[p].pc = "reading" /\ gt'[p].zone = NULL
                 /\ zone' = [zone EXCEPT ![p[1]] = lbz_get_zone(@)]
    BY <1>5, GcIterFx DEF FactsInv, PlaceInv, ZoneKept, listVars
  <2>2. GcRef' = GcRef
    BY <2>1 DEF GcRef
  <2>3. CASE zone' = zone /\ gt' = gt
    <3>1. Turn(GcRef, GcRef, z) = 0
      BY DEF Turn
    <3> QED BY <1>1, <1>2, <2>1, <2>2, <2>3, <3>1
  <2>4. ASSUME NEW p \in Pbid, gt[p].pc = "none", GcFrame(p), gt'[p].pc = "reading", gt'[p].zone = NULL,
               zone' = [zone EXCEPT ![p[1]] = lbz_get_zone(@)]
        PROVE  RefBalance(z)
    <3>1. p[1] \in Zone /\ gt[p].zone = NULL
      BY <2>4 DEF Pbid, FactsInv, GtZones
    <3>2. SourceRef[p] = NULL /\ SourceRef'[p] = p[1]
      BY <2>4, SourceOf
    <3>3. ByCopies(z)' = ByCopies(z) + Turn(NULL, NULL, z) /\ BySources(z)' = BySources(z) + Turn(NULL, p[1], z)
      BY <2>4, <3>1, <3>2, CopyTurn
    <3>4. zone'[z].refcount = zone[z].refcount + Turn(NULL, p[1], z)
      BY <2>4, <3>1, GetRefs
    <3>5. ByStreams(z)' = ByStreams(z) /\ ByWrites(z)' = ByWrites(z) /\ ByReads(z)' = ByReads(z)
      BY <2>1, RefsStill, InflightFrame
    <3>6. ByGc(z)' = ByGc(z)
      BY <2>2 DEF ByGc
    <3>7. /\ ByStreams(z) \in Int /\ ByWrites(z) \in Int /\ ByCopies(z) \in Int
          /\ BySources(z) \in Int /\ ByReads(z) \in Int /\ ByGc(z) \in Int
      BY RefsNat
    <3>8. Turn(NULL, NULL, z) = 0 /\ Turn(NULL, p[1], z) \in Int
      BY DEF Turn
    <3> QED BY <1>1, <3>3, <3>4, <3>5, <3>6, <3>7, <3>8 DEF RefBalance
  <2> QED BY <2>1, <2>3, <2>4
<1>6. CASE GcFinish
  <2>1. /\ gc.pc = "iter" /\ UNCHANGED <<active_zone, wt, gt, rd>>
        /\ zone' = [zone EXCEPT ![gc.gc_zone] = lbz_put_zone(SetFlag(@, "GC_COMPLETED"))]
        /\ gc' = [gc EXCEPT !.pc = "idle", !.iter = 0]
    BY <1>6 DEF GcFinish, ioVars, listVars
  <2>2. PICK y \in Zone : y = gc.gc_zone
    BY <2>1 DEF FactsInv, GcFacts
  <2>3. GcRef = y /\ GcRef' = NULL
    BY <1>1, <2>1, <2>2 DEF GcRef, GcRec
  <2>4. zone'[z].refcount = zone[z].refcount + Turn(y, NULL, z)
    <3>1. zone'[z] = IF z = y THEN lbz_put_zone(SetFlag(zone[z], "GC_COMPLETED")) ELSE zone[z]
      BY <1>1, <2>1, <2>2
    <3>2. SetFlag(zone[z], "GC_COMPLETED") \in ZoneRec
          /\ SetFlag(zone[z], "GC_COMPLETED").refcount = zone[z].refcount
      BY <1>1 DEF SetFlag, ZoneRec, Flags
    <3> QED BY <1>1, <3>1, <3>2, PutFields DEF Turn
  <2> QED BY <1>2, <2>1, <2>3, <2>4
<1> QED BY <1>3, <1>4, <1>5, <1>6 DEF GcThread

\* zone_state_wk_fn and the second half of a put leave the reference counts alone.
LEMMA WorkerKeepsRefs ==
    ASSUME TypeOK, ZoneStateWork \/ \E z \in Zone : PutZoneEnd(z)
    PROVE  RefsKept /\ UNCHANGED active_zone
<1>1. zone \in [Zone -> ZoneRec]
  BY DEF TypeOK, ZmdTypeOK
<1>2. CASE ZoneStateWork
  <2>1. UNCHANGED active_zone
    BY <1>2 DEF ZoneStateWork, ZsStart, ZsScanToFull, ZsScanRefcount, ZsClose, ZsGcZone, ZsReset,
                ZsResetFails, ZsRelease, listVars
  <2>2. PICK i : i = zs.i
    OBVIOUS
  <2>3. \/ zone' = zone
        \/ zone' = [zone EXCEPT ![i].state = "CLOSED"]
        \/ zone' = [zone EXCEPT ![i].flags = {"FULL"}]
        \/ zone' = [zone EXCEPT ![i] = [@ EXCEPT !.wp_block = 0, !.state = "EMPTY", !.flags = {"INIT"}]]
    BY <1>2, <2>2 DEF ZoneStateWork, ZsStart, ZsScanToFull, ZsScanRefcount, ZsClose, ZsGcZone, ZsReset,
                ZsResetFails, ZsRelease
  <2>4. ASSUME NEW z \in Zone PROVE zone'[z].refcount = zone[z].refcount
    <3>1. zone[z] \in ZoneRec
      BY <1>1
    <3>2. \/ zone'[z] = zone[z]
          \/ zone'[z] = [zone[z] EXCEPT !.state = "CLOSED"]
          \/ zone'[z] = [zone[z] EXCEPT !.flags = {"FULL"}]
          \/ zone'[z] = [zone[z] EXCEPT !.wp_block = 0, !.state = "EMPTY", !.flags = {"INIT"}]
      BY <1>1, <2>3
    <3> QED BY <3>1, <3>2 DEF ZoneRec
  <2> QED BY <2>1, <2>4 DEF RefsKept
<1>3. ASSUME NEW y \in Zone, PutZoneEnd(y) PROVE RefsKept /\ UNCHANGED active_zone
  <2>1. zone' = [zone EXCEPT ![y] = PutState([@ EXCEPT !.in_put = FALSE], TRUE)] /\ UNCHANGED active_zone
    BY <1>3 DEF PutZoneEnd, listVars
  <2>2. ASSUME NEW z \in Zone PROVE zone'[z].refcount = zone[z].refcount
    <3>1. zone[z] \in ZoneRec
      BY <1>1
    <3>2. PICK d : d = [zone[z] EXCEPT !.in_put = FALSE]
      OBVIOUS
    <3>5. d \in ZoneRec /\ d.refcount = zone[z].refcount
      BY <3>1, <3>2 DEF ZoneRec
    <3>3. PutState(d, TRUE).refcount = d.refcount
      BY <3>5 DEF PutState, ZoneRec
    <3>4. zone'[z] = IF z = y THEN PutState(d, TRUE) ELSE zone[z]
      BY <1>1, <2>1, <3>2
    <3> QED BY <3>3, <3>4, <3>5
  <2> QED BY <2>1, <2>2 DEF RefsKept
<1> QED BY <1>2, <1>3

\* Every step keeps zone->refcount exact.
LEMMA NextRefs ==
    ASSUME TypeOK, TypeOK', TaskInv, FactsInv, PlaceInv, RefcountExact, [Next]_vars
    PROVE  RefcountExact'
<1>1. SUFFICES ASSUME NEW z \in Zone PROVE RefBalance(z)
  BY RefSum
<1>2. zone[z].refcount \in Int
  BY DEF TypeOK, ZmdTypeOK, ZoneRec
<1>3. ASSUME RefsKept, AllUsersKept, UNCHANGED <<active_zone, gt, rd, gc>> PROVE RefBalance(z)
  <2>1. /\ ByStreams(z)' = ByStreams(z) /\ ByWrites(z)' = ByWrites(z) /\ ByCopies(z)' = ByCopies(z)
        /\ BySources(z)' = BySources(z) /\ ByReads(z)' = ByReads(z) /\ ByGc(z)' = ByGc(z)
    BY <1>3, RefsStill
  <2>2. /\ ByStreams(z) \in Int /\ ByWrites(z) \in Int /\ ByCopies(z) \in Int
        /\ BySources(z) \in Int /\ ByReads(z) \in Int /\ ByGc(z) \in Int
    BY RefsNat
  <2>3. zone'[z].refcount = zone[z].refcount
    BY <1>3 DEF RefsKept
  <2> QED BY <1>2, <2>1, <2>2, <2>3 DEF RefBalance
<1>4. wt' = wt => AllUsersKept
  BY InflightFrame
<1>5. zone' = zone => RefsKept
  BY DEF RefsKept
<1>6. CASE UNCHANGED vars
  BY <1>3, <1>4, <1>5, <1>6 DEF vars, zmdVars, listVars, ioVars
<1>7. CASE (ZoneStateWork \/ \E y \in Zone : PutZoneEnd(y)) /\ UNCHANGED <<ioVars, gc>>
  BY <1>3, <1>4, <1>7, WorkerKeepsRefs DEF ioVars
<1>8. ASSUME NEW t \in UTasks, (SubmitWrite(t) \/ WriteStep(t)) /\ UNCHANGED gc PROVE RefBalance(z)
  BY <1>8, WriteRefs
<1>9. ASSUME NEW r \in Readers, (SubmitRead(r) \/ lbz_read_io_endio(r)) /\ UNCHANGED gc PROVE RefBalance(z)
  BY <1>9, ReadRefs
<1>10. ASSUME NEW p \in Pbid, GcCopy(p) /\ UNCHANGED gc PROVE RefBalance(z)
  BY <1>10, CopyRefs
<1>11. CASE RetryWork /\ UNCHANGED gc
  <2>1. CASE WkStart \/ WkSpliceGc \/ WkEnd
    <3>1. zone' = zone /\ UNCHANGED <<active_zone, wt, gt, rd>>
      BY <2>1 DEF WkStart, WkSpliceGc, WkEnd, lowVars, zmdVars, listVars
    <3> QED BY <1>3, <1>4, <1>5, <1>11, <3>1
  <2>2. CASE WkUser
    <3>1. PICK t \in UTasks : /\ wt'[t].zone = wt[t].zone /\ OthersKept(t)
                              /\ zone' = zone /\ UNCHANGED <<active_zone, gt, rd>>
      BY <2>2, WkUserFx DEF KeepsFields, lowVars, zmdVars, listVars
    <3>2. ByStreams(z)' = ByStreams(z) /\ ByStreams(z) \in Int /\ Turn(wt[t].zone, wt'[t].zone, z) = 0
      BY <3>1, RefsStill, RefsNat DEF Turn
    <3> QED BY <1>2, <1>11, <3>1, <3>2, WriteBalance
  <2>3. CASE WkGc
    <3>1. PICK p \in Pbid : /\ gt[p].pc = "queued" /\ gt'[p].pc \in {"lookup", "conflict"}
                            /\ gt'[p].zone = gt[p].zone /\ GcFrame(p) /\ AllUsersKept
                            /\ zone' = zone /\ UNCHANGED <<active_zone, rd>>
      BY <2>3, WkGcFx DEF GcKeeps, zmdVars, listVars
    <3>2. Turn(gt[p].zone, gt'[p].zone, z) = 0 /\ Turn(SourceRef[p], SourceRef'[p], z) = 0
      BY <3>1, SourceOf DEF Turn
    <3>3. ByStreams(z)' = ByStreams(z) /\ ByStreams(z) \in Int
      BY <3>1, RefsStill, RefsNat
    <3> QED BY <1>2, <1>11, <3>1, <3>2, <3>3, CopyBalance
  <2> QED BY <1>11, <2>1, <2>2, <2>3 DEF RetryWork
<1>12. CASE GcThread
  BY <1>12, GcThreadRefs
<1> QED BY <1>6, <1>7, <1>8, <1>9, <1>10, <1>11, <1>12 DEF Next, Running, Halted

\* A device just created: the zones half written belong to their streams.
LEMMA InitRefs ==
    ASSUME Init
    PROVE  RefcountExact
<1>1. SUFFICES ASSUME NEW z \in Zone
               PROVE  zone[z].refcount = ByStreams(z) + ByWrites(z) + ByCopies(z) + BySources(z)
                                             + ByReads(z) + ByGc(z)
  BY DEF RefcountExact, ByStreams, ByWrites, ByCopies, BySources, ByReads, ByGc
<1>2. /\ zone[z].refcount = (IF z \in PartialZones THEN 1 ELSE 0) /\ NULL \notin Zone
      /\ wt = [t \in UTasks |-> NoTask] /\ gt = [p \in Pbid |-> NoGcTask]
      /\ rd = [r \in Readers |-> NoRead] /\ gc.pc = "idle" /\ DOMAIN active_zone = Streams
  BY DevAssumption DEF Init, ZmdInit, IoInit, GcInit, InitZone
<1>3. ByGc(z) = 0
  BY <1>2 DEF ByGc, GcRef
<1>4. ASSUME NEW S, NEW f, DOMAIN f = S, \A x \in S : f[x] # z PROVE Count(f, z) = 0
  <2>1. {x \in DOMAIN f : f[x] = z} = {}
    BY <1>4
  <2> QED BY <2>1, FS_EmptySet DEF Count
<1>5. ByWrites(z) = 0 /\ ByCopies(z) = 0 /\ BySources(z) = 0 /\ ByReads(z) = 0
  <2>1. /\ DOMAIN WriteRef = UTasks /\ \A t \in UTasks : WriteRef[t] # z
        /\ DOMAIN CopyRef = Pbid /\ \A p \in Pbid : CopyRef[p] # z
        /\ DOMAIN SourceRef = Pbid /\ \A p \in Pbid : SourceRef[p] # z
        /\ DOMAIN ReadRef = Readers /\ \A r \in Readers : ReadRef[r] # z
    BY <1>2 DEF WriteRef, CopyRef, SourceRef, ReadRef, NoTask, NoGcTask, NoRead
  <2> QED BY <1>4, <2>1 DEF ByWrites, ByCopies, BySources, ByReads
<1>6. ByStreams(z) = IF z \in PartialZones THEN 1 ELSE 0
  <2>1. CASE z \in PartialZones
    <3>1. PICK s \in Streams : active_zone[s] = z
      BY <2>1, InitStreams
    <3>2. {x \in DOMAIN active_zone : active_zone[x] = z} = {s}
      BY <1>2, <3>1, InitStreams
    <3> QED BY <2>1, <3>2, FS_Singleton DEF ByStreams, Count
  <2>2. CASE z \notin PartialZones
    <3>1. \A s \in Streams : active_zone[s] # z
      BY <1>2, <2>2, InitStreams
    <3> QED BY <1>2, <1>4, <2>2, <3>1 DEF ByStreams
  <2> QED BY <2>1, <2>2
<1> QED BY <1>2, <1>3, <1>5, <1>6

\* No task, read or GC is there yet.
LEMMA InitFacts ==
    ASSUME Init
    PROVE  FactsInv /\ InflightExact
<1>1. /\ wt = [t \in UTasks |-> NoTask] /\ gt = [p \in Pbid |-> NoGcTask]
      /\ rd = [r \in Readers |-> NoRead] /\ gc.pc = "idle" /\ ~faulty
      /\ inflight = [write |-> 0, read |-> 0, gc |-> 0]
  BY DEF Init, IoInit, GcInit
<1>2. FactsInv
  BY <1>1 DEF FactsInv, WtZones, GtZones, ReadFacts, GcFacts, ErrorsSeen, NoTask, NoGcTask, NoRead
<1>3. {t \in UTasks : wt[t].pc # "none"} = {}
  BY <1>1 DEF NoTask
<1>4. {r \in Readers : rd[r].pc # "none"} = {}
  BY <1>1 DEF NoRead
<1>5. {p \in Pbid : gt[p].pc # "none"} = {}
  BY <1>1 DEF NoGcTask
<1>6. InflightExact
  BY <1>1, <1>3, <1>4, <1>5, FS_EmptySet DEF InflightExact
<1> QED BY <1>2, <1>6

-----------------------------------------------------------------------------
(* The theorems.                                                           *)

\* ZoneInv is inductive, given IInv.
THEOREM ZoneInductive == Spec => []ZoneInv
<1>1. Init => ZoneInv
  BY InitFacts, InitPlace, InitRefs DEF ZoneInv
<1>2. IInv /\ IInv' /\ ZoneInv /\ [Next]_vars => ZoneInv'
  <2> SUFFICES ASSUME IInv, IInv', ZoneInv, [Next]_vars PROVE ZoneInv'
    OBVIOUS
  <2>1. /\ TypeOK /\ TypeOK' /\ TaskInv /\ FactsInv /\ PlaceInv /\ InflightExact /\ RefcountExact
        /\ GcFacts /\ ZoneMarks
    BY DEF IInv, ZoneInv, FactsInv, PlaceInv
  <2>2. FactsInv'
    BY <2>1, NextFacts
  <2>3. PlaceInv'
    BY <2>1, NextPlace
  <2>4. InflightExact'
    BY <2>1, NextInflight
  <2>5. RefcountExact'
    BY <2>1, NextRefs
  <2> QED BY <2>2, <2>3, <2>4, <2>5 DEF ZoneInv
<1> QED BY <1>1, <1>2, Inductive, PTL DEF Spec

\* zone->refcount is always the number of streams, tasks, reads and GC threads
\* that use the zone: none is leaked on an error path or dropped twice.
THEOREM RefcountsExact == Spec => []RefcountExact
<1>1. ZoneInv => RefcountExact
  BY DEF ZoneInv
<1> QED BY <1>1, ZoneInductive, PTL

\* The counters lbz_remove_device polls are always exact.
THEOREM InflightCountersExact == Spec => []InflightExact
<1>1. ZoneInv => InflightExact
  BY DEF ZoneInv
<1> QED BY <1>1, ZoneInductive, PTL

\* A list without repetition is as long as the set of what it lists.
LEMMA ListCard ==
    ASSUME NEW S, NEW q \in Seq(S), Distinct(q)
    PROVE  Cardinality({q[k] : k \in DOMAIN q}) = Len(q)
<1> DEFINE T == {q[k] : k \in DOMAIN q}
<1>1. DOMAIN q = 1 .. Len(q) /\ Len(q) \in Nat
  OBVIOUS
<1>2. PICK f : f = [k \in 1 .. Len(q) |-> q[k]]
  OBVIOUS
<1>3. f \in Bijection(1 .. Len(q), T)
  BY <1>1, <1>2 DEF Distinct, Bijection, Injection, Surjection, IsInjective
<1>4. PICK a \in Int, b \in Int : a = 1 /\ b = Len(q) + 1 /\ a <= b
  BY <1>1
<1>5. a .. b - 1 = 1 .. Len(q) /\ b - a = Len(q)
  BY <1>1, <1>4
<1>6. IsFiniteSet(1 .. Len(q)) /\ Cardinality(1 .. Len(q)) = Len(q)
  BY <1>4, <1>5, CountBelow
<1> QED BY <1>3, <1>6, FS_Bijection DEF ExistsBijection

\* nr_allocable_blks is always the room left in the empty and the active zones,
\* and every zone is in one place.
THEOREM AllocableBlocksExact == Spec => []AllocableExact
<1>1. TypeOK /\ ZoneInv => AllocableExact
  <2> SUFFICES ASSUME TypeOK, ZoneInv PROVE AllocableExact
    OBVIOUS
  <2> DEFINE act == {active_zone[s] : s \in Streams} \ {NULL}
             emp == {empty_zone_list[k] : k \in DOMAIN empty_zone_list}
  <2>1. /\ OnePlace /\ ZoneMarks /\ RoomExact /\ empty_zone_list \in Seq(Zone)
        /\ active_zone \in [Streams -> Zone \cup {NULL}] /\ full_zone_list \in SUBSET Zone
    BY DEF ZoneInv, PlaceInv, TypeOK, ZmdTypeOK
  <2>2. Cardinality(emp) = Len(empty_zone_list)
    BY <2>1, ListCard DEF OnePlace
  <2>3. \A z \in emp : z \in Zone /\ EmptyZone(z)
    BY <2>1 DEF EmptyZone
  <2>4. \A z \in act : z \in Zone /\ ActiveZone(z)
    BY <2>1 DEF ActiveZone
  <2>5. emp \cap act = {} /\ emp \cap full_zone_list = {} /\ act \cap full_zone_list = {}
    BY <2>1, <2>3, <2>4 DEF OnePlace, FullZone
  <2>6. \A z \in act : zone[z].wp_block < ZoneNrBlocks
    BY <2>1, <2>4 DEF ZoneMarks
  <2>7. \A s1, s2 \in Streams : s1 # s2 /\ active_zone[s1] # NULL => active_zone[s1] # active_zone[s2]
    BY <2>1 DEF OnePlace
  <2> QED BY <2>1, <2>2, <2>5, <2>6, <2>7 DEF AllocableExact, RoomExact
<1> QED BY <1>1, ZoneInductive, TypeCorrect, PTL
=============================================================================
