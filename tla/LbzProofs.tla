----------------------------- MODULE LbzProofs ------------------------------
(***************************************************************************)
(* Theorems about the running device, for every number of zones, blocks,   *)
(* tasks and errors.  IInv is inductive: the first half shows that every   *)
(* step from a state in which TaskInv holds keeps TypeOK, the second that  *)
(* every step keeps TaskInv and NoGcCallbackBug.                           *)
(***************************************************************************)
EXTENDS LbzInv, FiniteSetTheorems, TLAPS

-----------------------------------------------------------------------------
(* The operations on one zone descriptor, and the task records.            *)

\* A zone descriptor stays one when a field is given a value of its type.
LEMMA ZoneRecFields ==
    ASSUME NEW d \in ZoneRec
    PROVE  /\ \A x \in {"EMPTY", "OPEN", "FULL", "CLOSED"} : [d EXCEPT !.state = x] \in ZoneRec
           /\ \A x \in SUBSET Flags : [d EXCEPT !.flags = x] \in ZoneRec
           /\ \A x \in Int : [d EXCEPT !.wp_block = x] \in ZoneRec
  BY DEF ZoneRec

\* Both halves of a put leave a zone descriptor.
LEMMA ZoneRecPut ==
    ASSUME NEW d \in ZoneRec
    PROVE  /\ \A x \in BOOLEAN : [d EXCEPT !.in_put = x] \in ZoneRec
           /\ \A last \in BOOLEAN : PutState(d, last) \in ZoneRec
<1>1. \A x \in BOOLEAN : [d EXCEPT !.in_put = x] \in ZoneRec
  BY DEF ZoneRec
<1>2. \A last \in BOOLEAN : PutState(d, last) \in ZoneRec
  BY ZoneRecFields DEF PutState
<1> QED BY <1>1, <1>2

\* Each of the zone operations leaves a zone descriptor.
LEMMA ZoneRecOps ==
    ASSUME NEW d \in ZoneRec
    PROVE  /\ lbz_get_zone(d) \in ZoneRec
           /\ lbz_put_zone(d) \in ZoneRec
           /\ lbz_zone_complete_write(d) \in ZoneRec
           /\ lbz_zone_release_global_res(d) \in ZoneRec
           /\ OpenZone(d) \in ZoneRec
           /\ TakeBlock(d) \in ZoneRec
<1>1. lbz_get_zone(d) \in ZoneRec
  BY DEF lbz_get_zone, ZoneRec
<1>2. ASSUME NEW e \in ZoneRec PROVE lbz_put_zone(e) \in ZoneRec
  <2> DEFINE r == [e EXCEPT !.refcount = @ - 1]
  <2>1. r \in ZoneRec
    BY DEF ZoneRec
  <2>2. [r EXCEPT !.in_put = TRUE] \in ZoneRec
    <3> HIDE DEF r
    <3> QED BY <2>1, ZoneRecPut
  <2>3. PutState(r, r.refcount = 0) \in ZoneRec
    <3> HIDE DEF r
    <3> QED BY <2>1, ZoneRecPut
  <2> QED BY <2>2, <2>3 DEF lbz_put_zone
<1>3. lbz_zone_complete_write(d) \in ZoneRec /\ lbz_zone_release_global_res(d) \in ZoneRec
  BY DEF lbz_zone_complete_write, lbz_zone_release_global_res, ZoneRec
<1>4. OpenZone(d) \in ZoneRec
  BY <1>1 DEF OpenZone, ZoneRec, Flags
<1>5. TakeBlock(d) \in ZoneRec
  <2> DEFINE r1 == [lbz_get_zone(d) EXCEPT !.wp_block = @ + 1]
             r2 == [r1 EXCEPT !.weight = @ + 1]
             r  == [r2 EXCEPT !.pending_write_io = @ + 1]
             f  == [r EXCEPT !.flags = (@ \ {"ACTIVE"}) \cup {"TO_FULL"}]
  <2>1. r1 \in ZoneRec
    BY <1>1 DEF ZoneRec
  <2>2. r2 \in ZoneRec
    <3> HIDE DEF r1
    <3> QED BY <2>1 DEF ZoneRec
  <2>3. r \in ZoneRec
    <3> HIDE DEF r2
    <3> QED BY <2>2 DEF ZoneRec
  <2>4. f \in ZoneRec
    <3> HIDE DEF r
    <3> QED BY <2>3 DEF ZoneRec, Flags
  <2>5. TakeBlock(d) = IF r.wp_block = ZoneNrBlocks THEN lbz_put_zone(f) ELSE r
    BY <1>1 DEF TakeBlock, ZoneRec
  <2> HIDE DEF r, f
  <2> QED BY <1>2, <2>3, <2>4, <2>5
<1> QED BY <1>1, <1>2, <1>3, <1>4, <1>5

\* The empty task records are task records.
LEMMA NoTaskType == NoTask \in WtRec /\ NoGcTask \in GtRec
  BY DEF NoTask, NoGcTask, WtRec, GtRec, WtPc, GtPc, Owner

\* Dropping references leaves a user task record.
LEMMA TaskPutType ==
    ASSUME NEW u, NEW n \in Int, NEW task \in WtRec
    PROVE  task_put(u, n, task) \in WtRec
<1>1. [task EXCEPT !.refcount = 0, !.pending_gc_node = NULL] \in WtRec
  <2>1. [task EXCEPT !.refcount = 0] \in WtRec
    BY DEF WtRec
  <2>2. \A r \in WtRec : [r EXCEPT !.pending_gc_node = NULL] \in WtRec
    BY DEF WtRec
  <2> QED BY <2>1, <2>2
<1>2. [task EXCEPT !.refcount = @ - n] \in WtRec
  BY DEF WtRec
<1> QED BY <1>1, <1>2 DEF task_put

\* A put runs the callback of at most one GC task.
LEMMA PendingCard ==
    ASSUME NEW u, NEW n
    PROVE  Cardinality(Pending(u, n)) \in Int
<1>1. Pending(u, n) = {} \/ Pending(u, n) = {wt[u].pending_gc_node}
  BY DEF Pending
<1> QED BY <1>1, FS_EmptySet, FS_Singleton

\* The callback leaves zone descriptors and GC task records.
LEMMA CallbackType ==
    ASSUME NEW zn \in [Zone -> ZoneRec], NEW g \in [Pbid -> GtRec], NEW ps
    PROVE  CallbackZone(zn, ps) \in [Zone -> ZoneRec] /\ CallbackTask(g, ps) \in [Pbid -> GtRec]
  BY ZoneRecOps, NoTaskType DEF CallbackZone, CallbackTask

-----------------------------------------------------------------------------
\* The state lbz_create_device leaves is typed.
LEMMA InitType == Init => TypeOK
<1> SUFFICES ASSUME Init PROVE TypeOK
  OBVIOUS
<1> USE DevAssumption, ZmdAssumption
<1>1. DevTypeOK
  <2>1. (CHOOSE v \in Values : TRUE) \in Values
    OBVIOUS
  <2>2. media \in [Pbid -> Values \cup {NULL}]
    BY <2>1 DEF Init
  <2>3. errors \in 0 .. MaxErrors
    BY DEF Init
  <2>4. faulty \in BOOLEAN /\ gc_state \in SUBSET {"RECLAIMING", "EMERGENCY"} /\ oops \in Oops
    BY DEF Init, Oops
  <2> QED BY <2>2, <2>3, <2>4 DEF DevTypeOK
<1>2. ZmdTypeOK
  <2>1. \A z \in Zone : InitZone(z) \in ZoneRec
    BY DEF InitZone, ZoneRec, Flags
  <2>2. IsFiniteSet(Zone) /\ IsFiniteSet(Offset)
    BY FS_Interval DEF Zone, Offset
  <2>3. IsFiniteSet(Pbid)
    BY <2>2, FS_Product DEF Pbid
  <2>4. Cardinality({p \in Pbid : p[2] < DiskWp[p[1]]}) \in Nat
    BY <2>3, FS_Subset, FS_CardinalityType
  <2>5. Cardinality(BlankZones) \in Nat
    BY <2>2, FS_Subset, FS_CardinalityType DEF BlankZones
  <2>6. empty_zone_list \in Seq(Zone)
    <3>1. empty_zone_list \in [1 .. Cardinality(BlankZones) -> Zone]
      BY DEF Init, ZmdInit, BlankZones
    <3> QED BY <2>5, <3>1
  <2>7. active_zone \in [Streams -> Zone \cup {NULL}]
    BY DEF Init, ZmdInit, PartialZones
  <2>8. nr_allocable_blks \in Int
    BY <2>4 DEF Init, ZmdInit, nr_total_blks
  <2>9. zone \in [Zone -> ZoneRec] /\ zrms \in [Pbid -> Blks \cup {INVALID}]
    BY <2>1 DEF Init, ZmdInit
  <2>10. full_zone_list \in SUBSET Zone
    BY DEF Init, ZmdInit
  <2>11. zs \in ZsRec
    BY DEF Init, ZmdInit, ZsRec, Zone
  <2> QED BY <2>6, <2>7, <2>8, <2>9, <2>10, <2>11 DEF ZmdTypeOK
<1>3. MappingTypeOK
  BY DEF Init, MappingInit, MappingTypeOK
<1>4. IoTypeOK
  BY NoTaskType DEF Init, IoInit, IoTypeOK, NoRead, Owner, WkRec, RdRec, InflightRec
<1>5. GcTypeOK
  BY DEF Init, GcInit, GcTypeOK, GcRec
<1> QED BY <1>1, <1>2, <1>3, <1>4, <1>5 DEF TypeOK

-----------------------------------------------------------------------------
\* Steps that leave the tasks, their lists and the maps alone keep them typed.
LEMMA UnchangedType ==
    /\ MappingTypeOK /\ UNCHANGED pbids => MappingTypeOK'
    /\ IoTypeOK /\ UNCHANGED ioVars => IoTypeOK'
    /\ GcTypeOK /\ UNCHANGED gc => GcTypeOK'
    /\ DevTypeOK /\ UNCHANGED devVars => DevTypeOK'
    /\ ZmdTypeOK /\ UNCHANGED zmdVars => ZmdTypeOK'
  BY DEF MappingTypeOK, IoTypeOK, GcTypeOK, DevTypeOK, ZmdTypeOK, ioVars, devVars, zmdVars, listVars

\* zone_state_wk_fn keeps the types.
LEMMA ZoneStateType ==
    ASSUME TypeOK, ZoneStateWork, UNCHANGED <<pbids, ioVars, gc>>
    PROVE  TypeOK'
<1> USE DevAssumption DEF devVars, listVars
<1>1. ZsIdle \in ZsRec
  BY DEF ZsIdle, ZsRec, Zone
<1>2. NextZone \in ZsRec
  <2>1. [zs EXCEPT !.pc = "scan"] \in ZsRec
    BY DEF TypeOK, ZmdTypeOK, ZsRec
  <2>2. zs.i + 1 < NrZones => zs.i + 1 \in Zone
    BY DEF TypeOK, ZmdTypeOK, ZsRec, Zone
  <2>3. \A r \in ZsRec, n \in Zone : [r EXCEPT !.i = n] \in ZsRec
    BY DEF ZsRec
  <2> QED BY <1>1, <2>1, <2>2, <2>3 DEF NextZone
<1>3. zs.i \in Zone
  BY DEF TypeOK, ZmdTypeOK, ZsRec
<1>4. \A c \in {"scan", "close", "gc", "reset", "release"} : [zs EXCEPT !.pc = c] \in ZsRec
  BY DEF TypeOK, ZmdTypeOK, ZsRec
<1>5. \A r \in ZsRec : [r EXCEPT !.send = TRUE] \in ZsRec
  BY DEF ZsRec
<1>6. DevTypeOK' /\ ZmdTypeOK'
  <2>1. CASE ZsStart
    <3>1. zs' \in ZsRec
      BY <2>1 DEF ZsStart, ZsRec, Zone
    <3> QED BY <2>1, <3>1 DEF ZsStart, TypeOK, DevTypeOK, ZmdTypeOK
  <2>2. CASE ZsScanToFull
    <3>1. zs' \in ZsRec
      BY <2>2, <1>2, <1>4, <1>5 DEF ZsScanToFull
    <3>2. zone' \in [Zone -> ZoneRec]
      BY <2>2, <1>3, ZoneRecFields DEF ZsScanToFull, TypeOK, ZmdTypeOK
    <3> QED BY <2>2, <3>1, <3>2 DEF ZsScanToFull, TypeOK, DevTypeOK, ZmdTypeOK
  <2>3. CASE ZsScanRefcount
    <3>1. zs' \in ZsRec
      BY <2>3, <1>2, <1>4 DEF ZsScanRefcount
    <3> QED BY <2>3, <3>1 DEF ZsScanRefcount, TypeOK, DevTypeOK, ZmdTypeOK
  <2>4. CASE ZsClose
    <3>1. zone' \in [Zone -> ZoneRec]
      BY <2>4, <1>3, ZoneRecFields DEF ZsClose, TypeOK, ZmdTypeOK, Flags
    <3> QED BY <2>4, <1>2, <1>3, <3>1 DEF ZsClose, TypeOK, DevTypeOK, ZmdTypeOK
  <2>5. CASE ZsGcZone
    <3>1. zs' \in ZsRec
      BY <2>5, <1>2, <1>4, <1>5 DEF ZsGcZone
    <3>2. gc_state' \in SUBSET {"RECLAIMING", "EMERGENCY"}
      BY <2>5 DEF ZsGcZone, TypeOK, DevTypeOK
    <3> QED BY <2>5, <3>1, <3>2 DEF ZsGcZone, TypeOK, DevTypeOK, ZmdTypeOK
  <2>6. CASE ZsReset
    <3>1. media' \in [Pbid -> Values \cup {NULL}] /\ zrms' \in [Pbid -> Blks \cup {INVALID}]
      BY <2>6 DEF ZsReset, ZoneReset, TypeOK, DevTypeOK, ZmdTypeOK
    <3>2. zone' \in [Zone -> ZoneRec]
      <4>1. {"INIT"} \in SUBSET Flags
        BY DEF Flags
      <4> DEFINE d1 == [zone[zs.i] EXCEPT !.wp_block = 0]
                 d2 == [d1 EXCEPT !.state = "EMPTY"]
                 d3 == [d2 EXCEPT !.flags = {"INIT"}]
      <4>2. d1 \in ZoneRec
        <5>1. zone[zs.i] \in ZoneRec
          BY <1>3 DEF TypeOK, ZmdTypeOK
        <5> QED BY <5>1 DEF ZoneRec
      <4>3. d2 \in ZoneRec
        <5> HIDE DEF d1
        <5> QED BY <4>2, ZoneRecFields
      <4>4. d3 \in ZoneRec
        <5> HIDE DEF d2
        <5> QED BY <4>1, <4>3, ZoneRecFields
      <4>5. zone' = zone \/ zone' = [zone EXCEPT ![zs.i] = d3]
        BY <2>6 DEF ZsReset
      <4> HIDE DEF d3
      <4> QED BY <4>4, <4>5 DEF TypeOK, ZmdTypeOK
    <3>3. zs' \in ZsRec /\ oops' \in Oops
      BY <2>6, <1>4 DEF ZsReset, TypeOK, DevTypeOK, ZmdTypeOK, Oops
    <3> QED BY <2>6, <3>1, <3>2, <3>3 DEF ZsReset, TypeOK, DevTypeOK, ZmdTypeOK
  <2>7. CASE ZsResetFails
    <3>1. errors' \in 0 .. MaxErrors
      BY <2>7 DEF ZsResetFails, CommandFails, TypeOK, DevTypeOK
    <3> QED BY <2>7, <1>1, <3>1 DEF ZsResetFails, lbz_dev_set_faulty, TypeOK, DevTypeOK, ZmdTypeOK
  <2>8. CASE ZsRelease
    <3>1. empty_zone_list' \in Seq(Zone) /\ nr_allocable_blks' \in Int
      BY <2>8, <1>3 DEF ZsRelease, TypeOK, ZmdTypeOK
    <3>2. gc_state' \in SUBSET {"RECLAIMING", "EMERGENCY"}
      BY <2>8 DEF ZsRelease, TypeOK, DevTypeOK
    <3> QED BY <2>8, <1>2, <3>1, <3>2 DEF ZsRelease, TypeOK, DevTypeOK, ZmdTypeOK
  <2> QED BY <2>1, <2>2, <2>3, <2>4, <2>5, <2>6, <2>7, <2>8 DEF ZoneStateWork
<1> QED BY <1>6, UnchangedType DEF TypeOK

-----------------------------------------------------------------------------
\* lbz_zone_alloc_res keeps the types and hands out a block of a real zone.
LEMMA AllocType ==
    ASSUME TypeOK, NEW flag, NEW s \in Streams, lbz_zone_alloc_res(flag, s)
    PROVE  TargetZone(s) \in Zone /\ ZmdTypeOK'
<1> DEFINE z == TargetZone(s)
           old == active_zone[s]
           d == IF NeedZone(s) THEN OpenZone(zone[z]) ELSE zone[z]
           put == IF NeedZone(s) /\ old # NULL
                  THEN [zone EXCEPT ![old] = lbz_put_zone(@)] ELSE zone
<1>1. NeedZone(s) => empty_zone_list # <<>>
  BY DEF lbz_zone_alloc_res, AllocSucceeds
<1>2. z \in Zone
  BY <1>1 DEF TargetZone, NeedZone, TypeOK, ZmdTypeOK
<1>3. d \in ZoneRec
  <2>1. zone[z] \in ZoneRec
    BY <1>2 DEF TypeOK, ZmdTypeOK
  <2> QED BY <2>1, ZoneRecOps
<1>4. put \in [Zone -> ZoneRec]
  BY ZoneRecOps DEF TypeOK, ZmdTypeOK
<1>5. zone' \in [Zone -> ZoneRec]
  <2>1. zone' = [put EXCEPT ![z] = TakeBlock(d)]
    BY DEF lbz_zone_alloc_res
  <2>2. TakeBlock(d) \in ZoneRec
    BY <1>3, ZoneRecOps
  <2> HIDE DEF put, z, d
  <2> QED BY <1>4, <2>1, <2>2
<1>6. empty_zone_list' \in Seq(Zone)
  BY <1>1 DEF lbz_zone_alloc_res, TypeOK, ZmdTypeOK
<1>7. active_zone' \in [Streams -> Zone \cup {NULL}]
  BY <1>2 DEF lbz_zone_alloc_res, TypeOK, ZmdTypeOK
<1>8. nr_allocable_blks' \in Int
  BY DEF lbz_zone_alloc_res, TypeOK, ZmdTypeOK
<1> QED BY <1>2, <1>5, <1>6, <1>7, <1>8 DEF lbz_zone_alloc_res, TypeOK, ZmdTypeOK

\* A task table stays one when a field of a task is given a value of its type.
LEMMA WtFields ==
    ASSUME NEW f \in [UTasks -> WtRec], NEW t
    PROVE  /\ \A x \in WtPc : [f EXCEPT ![t].pc = x] \in [UTasks -> WtRec]
           /\ \A x \in Zone : [f EXCEPT ![t].zone = x] \in [UTasks -> WtRec]
           /\ \A x \in Pbid : [f EXCEPT ![t].pbid = x] \in [UTasks -> WtRec]
           /\ \A x \in Pbid \cup {INVALID} : [f EXCEPT ![t].old = x] \in [UTasks -> WtRec]
           /\ [f EXCEPT ![t].error = TRUE] \in [UTasks -> WtRec]
           /\ \A x \in Owner : [f EXCEPT ![t].tk = x] \in [UTasks -> WtRec]
           /\ [f EXCEPT ![t].refcount = @ + 1] \in [UTasks -> WtRec]
<1>1. \A x \in WtPc : [f EXCEPT ![t].pc = x] \in [UTasks -> WtRec]
  <2>1. \A r \in WtRec : \A x \in WtPc : [r EXCEPT !.pc = x] \in WtRec
    BY DEF WtRec
  <2> QED BY <2>1
<1>2. \A x \in Zone : [f EXCEPT ![t].zone = x] \in [UTasks -> WtRec]
  <2>1. \A r \in WtRec : \A x \in Zone : [r EXCEPT !.zone = x] \in WtRec
    BY DEF WtRec
  <2> QED BY <2>1
<1>3. \A x \in Pbid : [f EXCEPT ![t].pbid = x] \in [UTasks -> WtRec]
  <2>1. \A r \in WtRec : \A x \in Pbid : [r EXCEPT !.pbid = x] \in WtRec
    BY DEF WtRec
  <2> QED BY <2>1
<1>4. \A x \in Pbid \cup {INVALID} : [f EXCEPT ![t].old = x] \in [UTasks -> WtRec]
  <2>1. \A r \in WtRec : \A x \in Pbid \cup {INVALID} : [r EXCEPT !.old = x] \in WtRec
    BY DEF WtRec
  <2> QED BY <2>1
<1>5. [f EXCEPT ![t].error = TRUE] \in [UTasks -> WtRec]
  <2>1. \A r \in WtRec : [r EXCEPT !.error = TRUE] \in WtRec
    BY DEF WtRec
  <2> QED BY <2>1
<1>6. \A x \in Owner : [f EXCEPT ![t].tk = x] \in [UTasks -> WtRec]
  <2>1. \A r \in WtRec : \A x \in Owner : [r EXCEPT !.tk = x] \in WtRec
    BY DEF WtRec
  <2> QED BY <2>1
<1>7. [f EXCEPT ![t].refcount = @ + 1] \in [UTasks -> WtRec]
  <2>1. \A r \in WtRec : [r EXCEPT !.refcount = @ + 1] \in WtRec
    BY DEF WtRec
  <2> QED BY <2>1
<1> QED BY <1>1, <1>2, <1>3, <1>4, <1>5, <1>6, <1>7

\* The same for the table of GC tasks.
LEMMA GtFields ==
    ASSUME NEW f \in [Pbid -> GtRec], NEW p
    PROVE  /\ \A x \in GtPc : [f EXCEPT ![p].pc = x] \in [Pbid -> GtRec]
           /\ \A x \in Zone : [f EXCEPT ![p].zone = x] \in [Pbid -> GtRec]
           /\ \A x \in Pbid : [f EXCEPT ![p].pbid = x] \in [Pbid -> GtRec]
           /\ \A x \in BOOLEAN : [f EXCEPT ![p].error = x] \in [Pbid -> GtRec]
           /\ \A x \in Owner : [f EXCEPT ![p].tk = x] \in [Pbid -> GtRec]
           /\ \A x \in Values \cup {NULL} : [f EXCEPT ![p].data = x] \in [Pbid -> GtRec]
<1>1. \A x \in GtPc : [f EXCEPT ![p].pc = x] \in [Pbid -> GtRec]
  <2>1. \A r \in GtRec : \A x \in GtPc : [r EXCEPT !.pc = x] \in GtRec
    BY DEF GtRec
  <2> QED BY <2>1
<1>2. \A x \in Zone : [f EXCEPT ![p].zone = x] \in [Pbid -> GtRec]
  <2>1. \A r \in GtRec : \A x \in Zone : [r EXCEPT !.zone = x] \in GtRec
    BY DEF GtRec
  <2> QED BY <2>1
<1>3. \A x \in Pbid : [f EXCEPT ![p].pbid = x] \in [Pbid -> GtRec]
  <2>1. \A r \in GtRec : \A x \in Pbid : [r EXCEPT !.pbid = x] \in GtRec
    BY DEF GtRec
  <2> QED BY <2>1
<1>4. \A x \in BOOLEAN : [f EXCEPT ![p].error = x] \in [Pbid -> GtRec]
  <2>1. \A r \in GtRec : \A x \in BOOLEAN : [r EXCEPT !.error = x] \in GtRec
    BY DEF GtRec
  <2> QED BY <2>1
<1>5. \A x \in Owner : [f EXCEPT ![p].tk = x] \in [Pbid -> GtRec]
  <2>1. \A r \in GtRec : \A x \in Owner : [r EXCEPT !.tk = x] \in GtRec
    BY DEF GtRec
  <2> QED BY <2>1
<1>6. \A x \in Values \cup {NULL} : [f EXCEPT ![p].data = x] \in [Pbid -> GtRec]
  <2>1. \A r \in GtRec : \A x \in Values \cup {NULL} : [r EXCEPT !.data = x] \in GtRec
    BY DEF GtRec
  <2> QED BY <2>1
<1> QED BY <1>1, <1>2, <1>3, <1>4, <1>5, <1>6

\* insert_task_to_tree keeps the task table and the tree typed.
LEMMA InsertUserType ==
    ASSUME wt \in [UTasks -> WtRec], tree \in [Blks -> Owner],
           NEW t \in UTasks, NEW task \in WtRec, InsertUser(t, task)
    PROVE  wt' \in [UTasks -> WtRec] /\ tree' \in [Blks -> Owner]
<1> DEFINE own == tree[task.blkid]
           a1 == [task EXCEPT !.pc = "alloc"]
           a2 == [a1 EXCEPT !.status = "ALLOC_RES"]
           won == [a2 EXCEPT !.refcount = @ + 1]
           f1 == [task EXCEPT !.pc = "conflict"]
           fail == [f1 EXCEPT !.tk = own]
<1>1. won \in WtRec
  <2>1. a1 \in WtRec
    BY DEF WtRec, WtPc
  <2>2. a2 \in WtRec
    <3> HIDE DEF a1
    <3> QED BY <2>1 DEF WtRec
  <2>3. \A r \in WtRec : [r EXCEPT !.refcount = @ + 1] \in WtRec
    BY DEF WtRec
  <2> HIDE DEF a2
  <2> QED BY <2>2, <2>3
<1>2. ASSUME own \in Owner PROVE fail \in WtRec
  <2>1. f1 \in WtRec
    BY DEF WtRec, WtPc
  <2> HIDE DEF f1, own
  <2> QED BY <1>2, <2>1 DEF WtRec
<1>3. CASE own = NULL /\ tree' = [tree EXCEPT ![task.blkid] = t] /\ wt' = [wt EXCEPT ![t] = won]
  <2> HIDE DEF won, own
  <2> QED BY <1>1, <1>3 DEF Owner
<1>4. CASE own \in UTasks /\ wt' = [[wt EXCEPT ![t] = fail] EXCEPT ![own].refcount = @ + 1] /\ UNCHANGED tree
  <2> HIDE DEF fail, own
  <2> DEFINE w == [wt EXCEPT ![t] = fail]
  <2>1. w \in [UTasks -> WtRec]
    BY <1>2, <1>4 DEF Owner
  <2>2. wt' = [w EXCEPT ![own].refcount = @ + 1]
    BY <1>4
  <2> HIDE DEF w
  <2>3. wt' \in [UTasks -> WtRec]
    BY <2>1, <2>2, WtFields
  <2> QED BY <1>4, <2>3
<1>5. CASE own \in Pbid /\ wt' = [wt EXCEPT ![t] = fail] /\ UNCHANGED tree
  <2> HIDE DEF fail, own
  <2> QED BY <1>2, <1>5 DEF Owner
<1> QED BY <1>3, <1>4, <1>5 DEF InsertUser

\* The callback of a put keeps the types.
LEMMA PutType ==
    ASSUME TypeOK, NEW u, NEW n
    PROVE  /\ CallbackZone(zone, Pending(u, n)) \in [Zone -> ZoneRec]
           /\ CallbackTask(gt, Pending(u, n)) \in [Pbid -> GtRec]
           /\ \A i \in InflightRec :
                 [i EXCEPT !.gc = @ - Cardinality(Pending(u, n))] \in InflightRec
<1>1. zone \in [Zone -> ZoneRec] /\ gt \in [Pbid -> GtRec]
  BY DEF TypeOK, ZmdTypeOK, IoTypeOK
<1>2. Cardinality(Pending(u, n)) \in Int
  BY PendingCard
<1> QED BY <1>1, <1>2, CallbackType DEF InflightRec

\* The end of a submission keeps the retry worker typed.
LEMMA SubmittedType ==
    ASSUME IoTypeOK, NEW x, Submitted(x)
    PROVE  wk' \in WkRec
<1>1. wk \in WkRec
  BY DEF IoTypeOK, WkRec
<1>2. [wk EXCEPT !.cur = NULL] \in WkRec
  BY <1>1 DEF WkRec, Owner
<1> QED BY <1>1, <1>2 DEF Submitted

\* A write being submitted keeps the types.
LEMMA SubmitWriteType ==
    ASSUME TypeOK, NEW t \in UTasks, SubmitWrite(t), UNCHANGED gc
    PROVE  TypeOK'
<1>1. PICK x \in Blks, v \in Values : lbz_submit_write(t, x, v)
  BY DEF SubmitWrite
<1> DEFINE n1 == [NoTask EXCEPT !.blkid = x]
           n2 == [n1 EXCEPT !.data = v]
           n  == [n2 EXCEPT !.refcount = 1]
<1>2. n \in WtRec
  <2>1. n1 \in WtRec
    BY NoTaskType DEF WtRec
  <2>2. n2 \in WtRec
    <3> HIDE DEF n1
    <3> QED BY <2>1 DEF WtRec
  <2> HIDE DEF n2
  <2> QED BY <2>2 DEF WtRec
<1>3. InsertUser(t, n)
  BY <1>1 DEF lbz_submit_write
<1>4. wt' \in [UTasks -> WtRec] /\ tree' \in [Blks -> Owner]
  <2> HIDE DEF n
  <2> QED BY <1>2, <1>3, InsertUserType DEF TypeOK, IoTypeOK
<1>5. inflight' \in InflightRec
  BY <1>1 DEF lbz_submit_write, TypeOK, IoTypeOK, InflightRec
<1>6. UNCHANGED <<devVars, zmdVars, pbids>>
  BY <1>1 DEF lbz_submit_write, lowVars
<1>7. IoTypeOK'
  BY <1>1, <1>4, <1>5 DEF lbz_submit_write, TypeOK, IoTypeOK
<1> QED BY <1>6, <1>7, UnchangedType DEF TypeOK

\* A user write that was given a block keeps the types.
LEMMA WGotZoneType ==
    ASSUME TypeOK, NEW t \in UTasks, NEW s \in Streams, WGotZone(t, s)
    PROVE  DevTypeOK' /\ ZmdTypeOK' /\ MappingTypeOK' /\ IoTypeOK'
<1>1. TargetZone(s) \in Zone /\ ZmdTypeOK'
  BY AllocType DEF WGotZone
<1>2. DevTypeOK'
  BY DEF WGotZone, TypeOK, DevTypeOK
<1>3. wt' \in [UTasks -> WtRec]
  <2> DEFINE w == [wt EXCEPT ![t].zone = TargetZone(s)]
  <2>1. w \in [UTasks -> WtRec]
    BY <1>1, WtFields DEF TypeOK, IoTypeOK
  <2>2. wt' = [w EXCEPT ![t].pc = "append"]
    BY DEF WGotZone
  <2>3. "append" \in WtPc
    BY DEF WtPc
  <2> HIDE DEF w
  <2> QED BY <2>1, <2>2, <2>3, WtFields
<1>4. wk' \in WkRec
  BY SubmittedType DEF WGotZone, TypeOK
<1>5. IoTypeOK'
  BY <1>3, <1>4 DEF WGotZone, TypeOK, IoTypeOK
<1> QED BY <1>1, <1>2, <1>5 DEF WGotZone, TypeOK, MappingTypeOK

\* Every step of a user write keeps the types.
LEMMA WriteStepType ==
    ASSUME TypeOK, WtFacts, NEW t \in UTasks, WriteStep(t), UNCHANGED gc
    PROVE  TypeOK'
<1> USE DEF devVars, zmdVars, listVars, lowVars
<1>1. wt \in [UTasks -> WtRec] /\ wt[t] \in WtRec
  BY DEF TypeOK, IoTypeOK
<1>2. {"queued", "alloc", "alloc2", "append", "endio", "oldrmap", "oldweight", "newrmap",
       "del", "complete", "put"} \subseteq WtPc
  BY DEF WtPc
<1>3. \A c \in WtPc : [wt EXCEPT ![t].pc = c] \in [UTasks -> WtRec]
  BY <1>1, WtFields
<1>4. wt[t].pc \in {"alloc", "alloc2"} =>
        /\ StreamId[wt[t].blkid] \in Streams
        /\ OtherStream(StreamId[wt[t].blkid]) \in Streams
  BY IoAssumption DEF WtFacts, OtherStream, Streams, LBZ_ZONE_MAX_STREAM
<1>5. DevTypeOK' /\ ZmdTypeOK' /\ MappingTypeOK' /\ IoTypeOK'
  <2>1. CASE WConflict(t)
    <3> DEFINE u == wt[t].tk
               w == IF u \in UTasks THEN [wt EXCEPT ![u] = task_put(u, 1, @)] ELSE wt
               w1 == [w EXCEPT ![t].pc = "queued"]
               ps == IF u \in UTasks THEN Pending(u, 1) ELSE {}
    <3>1. w \in [UTasks -> WtRec]
      BY <1>1, TaskPutType
    <3>2. w1 \in [UTasks -> WtRec]
      <4> HIDE DEF w
      <4> QED BY <3>1, <1>2, WtFields
    <3>3. wt' \in [UTasks -> WtRec]
      <4>1. wt' = [w1 EXCEPT ![t].tk = NULL]
        BY <2>1 DEF WConflict
      <4> HIDE DEF w1
      <4> QED BY <3>2, <4>1, WtFields DEF Owner
    <3>4. Cardinality(ps) \in Int
      BY PendingCard, FS_EmptySet
    <3>5. zone' \in [Zone -> ZoneRec] /\ gt' \in [Pbid -> GtRec]
      BY <2>1, CallbackType DEF WConflict, TypeOK, ZmdTypeOK, IoTypeOK
    <3>6. inflight' \in InflightRec
      <4>1. inflight' = [inflight EXCEPT !.gc = @ - Cardinality(ps)]
        BY <2>1 DEF WConflict
      <4> HIDE DEF ps
      <4> QED BY <3>4, <4>1 DEF TypeOK, IoTypeOK, InflightRec
    <3>7. wk' \in WkRec /\ user_pending' \in Seq(UTasks)
      BY <2>1, SubmittedType DEF WConflict, TypeOK, IoTypeOK
    <3>8. IoTypeOK'
      BY <2>1, <3>3, <3>5, <3>6, <3>7 DEF WConflict, TypeOK, IoTypeOK
    <3> QED BY <2>1, <3>5, <3>8 DEF WConflict, TypeOK, DevTypeOK, ZmdTypeOK, MappingTypeOK
  <2>2. CASE WAlloc(t)
    <3>1. CASE WGotZone(t, StreamId[wt[t].blkid])
      BY <2>2, <3>1, <1>4, WGotZoneType DEF WAlloc
    <3>2. CASE UNCHANGED <<lowVars, gt, tree, user_pending, gc_writes, wk, rd, inflight>>
               /\ wt' = [wt EXCEPT ![t].pc = "alloc2"]
      <4>1. IoTypeOK'
        BY <3>2, <1>2, <1>3 DEF TypeOK, IoTypeOK
      <4> QED BY <3>2, <4>1, UnchangedType DEF TypeOK
    <3> QED BY <2>2, <3>1, <3>2 DEF WAlloc
  <2>3. CASE WAlloc2(t)
    <3>1. CASE WGotZone(t, OtherStream(StreamId[wt[t].blkid]))
      BY <2>3, <3>1, <1>4, WGotZoneType DEF WAlloc2
    <3>2. CASE ~WGotZone(t, OtherStream(StreamId[wt[t].blkid]))
      <4>1. (WAllocEagain(t) \/ WAllocEio(t)) /\ Submitted(t)
            /\ gc_state' = gc_state \cup {"EMERGENCY"}
            /\ UNCHANGED <<media, errors, faulty, oops, zrms, listVars, zs, pbids, gc_writes, rd>>
        BY <2>3, <3>2 DEF WAlloc2
      <4>2. wk' \in WkRec
        BY <4>1, SubmittedType DEF TypeOK
      <4>3. DevTypeOK' /\ MappingTypeOK'
        BY <4>1 DEF TypeOK, DevTypeOK, MappingTypeOK
      <4>4. CASE WAllocEagain(t)
        <5>1. IoTypeOK'
          BY <4>1, <4>2, <4>4, <1>2, <1>3 DEF WAllocEagain, TypeOK, IoTypeOK
        <5> QED BY <4>1, <4>3, <4>4, <5>1 DEF WAllocEagain, TypeOK, ZmdTypeOK
      <4>5. CASE WAllocEio(t)
        <5> DEFINE n1 == [NoTask EXCEPT !.refcount = wt[t].refcount]
                   n == [n1 EXCEPT !.pending_gc_node = wt[t].pending_gc_node]
                   i1 == [inflight EXCEPT !.write = @ - 1]
        <5>1. n1 \in WtRec
          BY <1>1, NoTaskType DEF WtRec
        <5>2. n \in WtRec
          <6> HIDE DEF n1
          <6> QED BY <1>1, <5>1 DEF WtRec
        <5>3. wt' \in [UTasks -> WtRec]
          <6>1. wt' = [wt EXCEPT ![t] = task_put(t, 2, n)]
            BY <4>5 DEF WAllocEio
          <6> HIDE DEF n
          <6> QED BY <1>1, <5>2, <6>1, TaskPutType
        <5>4. zone' \in [Zone -> ZoneRec] /\ gt' \in [Pbid -> GtRec]
          BY <4>5, PutType DEF WAllocEio
        <5>5. inflight' \in InflightRec
          <6>1. i1 \in InflightRec
            BY DEF TypeOK, IoTypeOK, InflightRec
          <6>2. inflight' = [i1 EXCEPT !.gc = @ - Cardinality(Pending(t, 2))]
            BY <4>5 DEF WAllocEio, TypeOK, IoTypeOK, InflightRec
          <6> HIDE DEF i1
          <6> QED BY <6>1, <6>2, PutType
        <5>6. tree' \in [Blks -> Owner]
          BY <4>5 DEF WAllocEio, del_task_from_tree, TypeOK, IoTypeOK, Owner
        <5>7. IoTypeOK'
          BY <4>1, <4>2, <4>5, <5>3, <5>4, <5>5, <5>6 DEF WAllocEio, TypeOK, IoTypeOK
        <5> QED BY <4>1, <4>3, <5>4, <5>7 DEF TypeOK, ZmdTypeOK
      <4> QED BY <4>1, <4>4, <4>5
    <3> QED BY <3>1, <3>2
  <2>4. CASE WAppend(t)
    <3>1. PICK p \in Pbid : ZoneAppend(p, wt[t].data) /\ wt' = [wt EXCEPT ![t].pbid = p, ![t].pc = "endio"]
      BY <2>4 DEF WAppend
    <3>2. media' \in [Pbid -> Values \cup {NULL}]
      <4>1. wt[t].data \in Values \cup {NULL}
        BY <1>1 DEF WtRec
      <4> QED BY <3>1, <4>1 DEF ZoneAppend, TypeOK, DevTypeOK
    <3>3. wt' \in [UTasks -> WtRec]
      <4> DEFINE w == [wt EXCEPT ![t].pbid = p]
      <4>1. w \in [UTasks -> WtRec]
        BY <1>1, WtFields
      <4>2. wt' = [w EXCEPT ![t].pc = "endio"]
        BY <3>1
      <4> HIDE DEF w
      <4> QED BY <4>1, <4>2, <1>2, WtFields
    <3>4. IoTypeOK'
      BY <2>4, <3>3 DEF WAppend, TypeOK, IoTypeOK
    <3> QED BY <2>4, <3>2, <3>4, UnchangedType DEF WAppend, TypeOK, DevTypeOK
  <2>5. CASE WAppendFails(t)
    <3>1. errors' \in 0 .. MaxErrors
      BY <2>5, DevAssumption DEF WAppendFails, CommandFails, TypeOK, DevTypeOK
    <3>2. wt' \in [UTasks -> WtRec]
      <4> DEFINE w == [wt EXCEPT ![t].error = TRUE]
      <4>1. w \in [UTasks -> WtRec]
        BY <1>1, WtFields
      <4>2. wt' = [w EXCEPT ![t].pc = "endio"]
        BY <2>5 DEF WAppendFails
      <4> HIDE DEF w
      <4> QED BY <4>1, <4>2, <1>2, WtFields
    <3>3. IoTypeOK'
      BY <2>5, <3>2 DEF WAppendFails, TypeOK, IoTypeOK
    <3> QED BY <2>5, <3>1, <3>3, UnchangedType DEF WAppendFails, TypeOK, DevTypeOK
  <2>6. CASE WEndio(t)
    <3> DEFINE old == pbids[wt[t].blkid]
               c == IF old = INVALID THEN "newrmap" ELSE "oldrmap"
               w == [wt EXCEPT ![t].old = old]
    <3>1. wt[t].blkid \in Blks
      BY <2>6 DEF WEndio, WtFacts
    <3>2. old \in Pbid \cup {INVALID}
      BY <3>1 DEF TypeOK, MappingTypeOK
    <3>3. pbids' \in [Blks -> Pbid \cup {INVALID}]
      BY <2>6, <3>1 DEF WEndio, lbz_mapping_add, TypeOK, MappingTypeOK, WtFacts
    <3>4. w \in [UTasks -> WtRec]
      <4> HIDE DEF old
      <4> QED BY <1>1, <3>2, WtFields
    <3>5. [w EXCEPT ![t].pc = c] \in [UTasks -> WtRec]
      <4>1. c \in WtPc
        BY <1>2
      <4> HIDE DEF w, c
      <4> QED BY <3>4, <4>1, WtFields
    <3>6. wt' \in [UTasks -> WtRec]
      <4>1. wt' = [w EXCEPT ![t].pc = c] \/ wt' = [wt EXCEPT ![t].pc = "del"]
        BY <2>6 DEF WEndio
      <4> HIDE DEF w, c
      <4> QED BY <3>5, <4>1, <1>2, <1>3
    <3>7. IoTypeOK'
      BY <2>6, <3>6 DEF WEndio, TypeOK, IoTypeOK
    <3>8. faulty' \in BOOLEAN
      BY <2>6 DEF WEndio, lbz_dev_set_faulty, TypeOK, DevTypeOK
    <3> QED BY <2>6, <3>3, <3>7, <3>8, UnchangedType DEF WEndio, TypeOK, DevTypeOK, MappingTypeOK
  <2>7. CASE WOldRmap(t)
    <3>1. IoTypeOK'
      BY <2>7, <1>2, <1>3 DEF WOldRmap, TypeOK, IoTypeOK
    <3>2. zrms' \in [Pbid -> Blks \cup {INVALID}]
      BY <2>7 DEF WOldRmap, lbz_zone_update_reverse_map, TypeOK, ZmdTypeOK
    <3> QED BY <2>7, <3>1, <3>2, UnchangedType DEF WOldRmap, TypeOK, ZmdTypeOK
  <2>8. CASE WOldWeight(t)
    <3>1. IoTypeOK'
      BY <2>8, <1>2, <1>3 DEF WOldWeight, TypeOK, IoTypeOK
    <3>2. zone' \in [Zone -> ZoneRec]
      BY <2>8, ZoneRecOps DEF WOldWeight, TypeOK, ZmdTypeOK
    <3> QED BY <2>8, <3>1, <3>2, UnchangedType DEF WOldWeight, TypeOK, ZmdTypeOK
  <2>9. CASE WNewRmap(t)
    <3>1. IoTypeOK'
      BY <2>9, <1>2, <1>3 DEF WNewRmap, TypeOK, IoTypeOK
    <3>2. wt[t].blkid \in Blks
      BY <2>9 DEF WNewRmap, WtFacts
    <3>3. zrms' \in [Pbid -> Blks \cup {INVALID}]
      BY <2>9, <3>2 DEF WNewRmap, lbz_zone_update_reverse_map, TypeOK, ZmdTypeOK
    <3> QED BY <2>9, <3>1, <3>3, UnchangedType DEF WNewRmap, TypeOK, ZmdTypeOK
  <2>10. CASE WDel(t)
    <3>1. [wt[t] EXCEPT !.pc = "complete"] \in WtRec
      BY <1>1, <1>2 DEF WtRec
    <3>2. wt' \in [UTasks -> WtRec]
      BY <2>10, <1>1, <3>1, TaskPutType DEF WDel
    <3>3. zone' \in [Zone -> ZoneRec] /\ gt' \in [Pbid -> GtRec] /\ inflight' \in InflightRec
      BY <2>10, PutType DEF WDel, TypeOK, IoTypeOK
    <3>4. tree' \in [Blks -> Owner]
      BY <2>10 DEF WDel, del_task_from_tree, TypeOK, IoTypeOK, Owner
    <3>5. IoTypeOK'
      BY <2>10, <3>2, <3>3, <3>4 DEF WDel, TypeOK, IoTypeOK
    <3> QED BY <2>10, <3>3, <3>5, UnchangedType DEF WDel, TypeOK, ZmdTypeOK
  <2>11. CASE WComplete(t)
    <3>1. IoTypeOK'
      BY <2>11, <1>2, <1>3 DEF WComplete, TypeOK, IoTypeOK
    <3>2. zone' \in [Zone -> ZoneRec]
      BY <2>11, ZoneRecOps DEF WComplete, TypeOK, ZmdTypeOK
    <3> QED BY <2>11, <3>1, <3>2, UnchangedType DEF WComplete, TypeOK, ZmdTypeOK
  <2>12. CASE WPut(t)
    <3> DEFINE n1 == [NoTask EXCEPT !.refcount = wt[t].refcount]
               n == [n1 EXCEPT !.pending_gc_node = wt[t].pending_gc_node]
    <3>1. n1 \in WtRec
      BY <1>1, NoTaskType DEF WtRec
    <3>2. n \in WtRec
      <4> HIDE DEF n1
      <4> QED BY <1>1, <3>1 DEF WtRec
    <3>3. wt' \in [UTasks -> WtRec]
      <4>1. wt' = [wt EXCEPT ![t] = n]
        BY <2>12 DEF WPut
      <4> HIDE DEF n
      <4> QED BY <1>1, <3>2, <4>1
    <3>4. zone' \in [Zone -> ZoneRec]
      BY <2>12, ZoneRecOps DEF WPut, TypeOK, ZmdTypeOK
    <3>5. inflight' \in InflightRec
      BY <2>12 DEF WPut, TypeOK, IoTypeOK, InflightRec
    <3>6. IoTypeOK'
      BY <2>12, <3>3, <3>5 DEF WPut, TypeOK, IoTypeOK
    <3> QED BY <2>12, <3>4, <3>6, UnchangedType DEF WPut, TypeOK, ZmdTypeOK
  <2> QED BY <2>1, <2>2, <2>3, <2>4, <2>5, <2>6, <2>7, <2>8, <2>9, <2>10, <2>11, <2>12
          DEF WriteStep
<1> QED BY <1>5, UnchangedType DEF TypeOK

-----------------------------------------------------------------------------
\* User reads keep the types.
LEMMA ReadType ==
    ASSUME TypeOK, NEW r \in Readers, SubmitRead(r) \/ lbz_read_io_endio(r), UNCHANGED gc
    PROVE  TypeOK'
<1> USE DEF devVars, zmdVars, listVars, lowVars
<1>1. CASE SubmitRead(r)
  <2>1. PICK x \in Blks : lbz_submit_read(r, x)
    BY <1>1 DEF SubmitRead
  <2>2. pbids[x] \in Pbid
    BY <2>1 DEF lbz_submit_read, lbz_mapping_lookup, Mapped, TypeOK, MappingTypeOK
  <2>3. rd' \in [Readers -> RdRec]
    BY <2>1, <2>2 DEF lbz_submit_read, TypeOK, IoTypeOK, RdRec
  <2>4. zone' \in [Zone -> ZoneRec]
    BY <2>1, ZoneRecOps DEF lbz_submit_read, lbz_mapping_lookup, TypeOK, ZmdTypeOK
  <2>5. inflight' \in InflightRec
    BY <2>1 DEF lbz_submit_read, TypeOK, IoTypeOK, InflightRec
  <2>6. IoTypeOK'
    BY <2>1, <2>3, <2>5 DEF lbz_submit_read, TypeOK, IoTypeOK
  <2>7. ZmdTypeOK' /\ MappingTypeOK'
    BY <2>1, <2>4 DEF lbz_submit_read, lbz_mapping_lookup, TypeOK, ZmdTypeOK, MappingTypeOK
  <2> QED BY <2>1, <2>6, <2>7, UnchangedType DEF lbz_submit_read, TypeOK
<1>2. CASE lbz_read_io_endio(r)
  <2>1. rd' \in [Readers -> RdRec]
    BY <1>2 DEF lbz_read_io_endio, NoRead, TypeOK, IoTypeOK, RdRec
  <2>2. zone' \in [Zone -> ZoneRec]
    BY <1>2, ZoneRecOps DEF lbz_read_io_endio, TypeOK, ZmdTypeOK
  <2>3. inflight' \in InflightRec
    BY <1>2 DEF lbz_read_io_endio, TypeOK, IoTypeOK, InflightRec
  <2>4. IoTypeOK'
    BY <1>2, <2>1, <2>3 DEF lbz_read_io_endio, TypeOK, IoTypeOK
  <2>5. errors' \in 0 .. MaxErrors
    BY <1>2, DevAssumption DEF lbz_read_io_endio, CommandFails, TypeOK, DevTypeOK
  <2>6. faulty' \in BOOLEAN
    BY <1>2 DEF lbz_read_io_endio, lbz_dev_set_faulty, TypeOK, DevTypeOK
  <2>7. DevTypeOK'
    BY <1>2, <2>5, <2>6 DEF lbz_read_io_endio, TypeOK, DevTypeOK
  <2> QED BY <1>2, <2>2, <2>4, <2>7, UnchangedType DEF lbz_read_io_endio, TypeOK, ZmdTypeOK
<1> QED BY <1>1, <1>2

\* A GC copy that was given a block keeps the types.
LEMMA GGotZoneType ==
    ASSUME TypeOK, NEW p \in Pbid, NEW s \in Streams, GGotZone(p, s)
    PROVE  DevTypeOK' /\ ZmdTypeOK' /\ MappingTypeOK' /\ IoTypeOK'
<1>1. TargetZone(s) \in Zone /\ ZmdTypeOK'
  BY AllocType DEF GGotZone
<1>2. gt' \in [Pbid -> GtRec]
  <2> DEFINE g == [gt EXCEPT ![p].zone = TargetZone(s)]
  <2>1. g \in [Pbid -> GtRec]
    BY <1>1, GtFields DEF TypeOK, IoTypeOK
  <2>2. gt' = [g EXCEPT ![p].pc = "append"]
    BY DEF GGotZone
  <2>3. "append" \in GtPc
    BY DEF GtPc
  <2> HIDE DEF g
  <2> QED BY <2>1, <2>2, <2>3, GtFields
<1>3. wk' \in WkRec
  BY SubmittedType DEF GGotZone, TypeOK
<1>4. IoTypeOK'
  BY <1>2, <1>3 DEF GGotZone, TypeOK, IoTypeOK
<1> QED BY <1>1, <1>4, UnchangedType DEF GGotZone, TypeOK, MappingTypeOK

\* Every step of a GC copy keeps the types.
LEMMA GcCopyType ==
    ASSUME TypeOK, GtFacts, NEW p \in Pbid, GcCopy(p), UNCHANGED gc
    PROVE  TypeOK'
<1> USE DEF devVars, zmdVars, listVars, lowVars
<1>1. gt \in [Pbid -> GtRec] /\ gt[p] \in GtRec
  BY DEF TypeOK, IoTypeOK
<1>2. {"none", "queued", "agency", "lookup", "alloc", "alloc2", "append", "endio", "cb_rmap",
       "cb_map", "cb_old", "cb_put", "fault"} \subseteq GtPc
  BY DEF GtPc
<1>3. \A c \in GtPc : [gt EXCEPT ![p].pc = c] \in [Pbid -> GtRec]
  BY <1>1, GtFields
<1>4. [gt EXCEPT ![p] = NoGcTask] \in [Pbid -> GtRec]
  BY <1>1, NoTaskType
<1>5. gt[p].pc \in {"alloc", "alloc2"} =>
        /\ StreamId[gt[p].blkid] \in Streams
        /\ OtherStream(StreamId[gt[p].blkid]) \in Streams
  BY IoAssumption DEF GtFacts, OtherStream, Streams, LBZ_ZONE_MAX_STREAM
<1>6. [inflight EXCEPT !.gc = @ - 1] \in InflightRec
  BY DEF TypeOK, IoTypeOK, InflightRec
<1>7. \A z : [zone EXCEPT ![z] = lbz_put_zone(@)] \in [Zone -> ZoneRec]
  BY ZoneRecOps DEF TypeOK, ZmdTypeOK
<1>8. DevTypeOK' /\ ZmdTypeOK' /\ MappingTypeOK' /\ IoTypeOK'
  <2>1. CASE GRead(p)
    <3>5. PICK v \in Values : gt' = [gt EXCEPT ![p].data = v, ![p].pc = "queued"]
      BY <2>1 DEF GRead
    <3> DEFINE g == [gt EXCEPT ![p].data = v]
    <3>1. g \in [Pbid -> GtRec]
      BY <1>1, GtFields
    <3>2. gt' \in [Pbid -> GtRec]
      <4>1. gt' = [g EXCEPT ![p].pc = "queued"]
        BY <3>5
      <4> HIDE DEF g
      <4> QED BY <3>1, <4>1, <1>2, GtFields
    <3>3. gc_writes' \in Seq(Pbid)
      BY <2>1 DEF GRead, TypeOK, IoTypeOK
    <3>4. IoTypeOK'
      BY <2>1, <3>2, <3>3 DEF GRead, TypeOK, IoTypeOK
    <3> QED BY <2>1, <3>4, UnchangedType DEF GRead, TypeOK
  <2>2. CASE GReadFails(p)
    <3>1. errors' \in 0 .. MaxErrors
      BY <2>2, DevAssumption DEF GReadFails, CommandFails, TypeOK, DevTypeOK
    <3>2. IoTypeOK'
      BY <2>2, <1>2, <1>3 DEF GReadFails, TypeOK, IoTypeOK
    <3>3. ZmdTypeOK'
      BY <2>2, <1>7 DEF GReadFails, TypeOK, ZmdTypeOK
    <3> QED BY <2>2, <3>1, <3>2, <3>3, UnchangedType DEF GReadFails, TypeOK, DevTypeOK
  <2>3. CASE GFault(p)
    <3>1. IoTypeOK'
      BY <2>3, <1>4, <1>6 DEF GFault, TypeOK, IoTypeOK
    <3> QED BY <2>3, <3>1, UnchangedType DEF GFault, lbz_dev_set_faulty, TypeOK, DevTypeOK
  <2>4. CASE GAgency(p)
    <3> DEFINE u == gt[p].tk
               n == [wt[u] EXCEPT !.pending_gc_node = p]
               g == [gt EXCEPT ![p].pc = "agency"]
    <3>1. n \in WtRec
      <4>1. wt[u] \in WtRec
        BY <2>4 DEF GAgency, TypeOK, IoTypeOK
      <4> HIDE DEF u
      <4> QED BY <4>1 DEF WtRec
    <3>2. wt' \in [UTasks -> WtRec]
      <4>1. wt' = [wt EXCEPT ![u] = task_put(u, 1, n)]
        BY <2>4 DEF GAgency
      <4>2. task_put(u, 1, n) \in WtRec
        <5> HIDE DEF n, u
        <5> QED BY <3>1, TaskPutType
      <4>3. wt \in [UTasks -> WtRec]
        BY DEF TypeOK, IoTypeOK
      <4> HIDE DEF n, u
      <4> QED BY <4>1, <4>2, <4>3
    <3>3. gt' \in [Pbid -> GtRec]
      <4>1. [gt[p] EXCEPT !.pc = "agency"] \in GtRec
        BY <1>1, <1>2 DEF GtRec
      <4>2. \A r \in GtRec : [r EXCEPT !.tk = NULL] \in GtRec
        BY DEF GtRec, Owner
      <4>3. [gt[p] EXCEPT !.pc = "agency", !.tk = NULL] \in GtRec
        BY <4>1, <4>2
      <4> QED BY <2>4, <1>1, <4>3, NoTaskType DEF GAgency
    <3>4. zone' \in [Zone -> ZoneRec] /\ inflight' \in InflightRec
      BY <2>4, <1>6, <1>7 DEF GAgency, TypeOK, ZmdTypeOK, IoTypeOK
    <3>5. wk' \in WkRec
      BY <2>4, SubmittedType DEF GAgency, TypeOK
    <3>6. IoTypeOK'
      BY <2>4, <3>2, <3>3, <3>4, <3>5 DEF GAgency, TypeOK, IoTypeOK
    <3> QED BY <2>4, <3>4, <3>6, UnchangedType DEF GAgency, TypeOK, ZmdTypeOK
  <2>5. CASE GLookup(p)
    <3> DEFINE zn == LookupAndPut(gt[p].blkid)
    <3>1. zn \in [Zone -> ZoneRec]
      BY ZoneRecOps DEF LookupAndPut, TypeOK, ZmdTypeOK
    <3>2. [zn EXCEPT ![get_zone_by_pbid(p)] = lbz_put_zone(@)] \in [Zone -> ZoneRec]
      <4> HIDE DEF zn
      <4> QED BY <3>1, ZoneRecOps
    <3>3. zone' \in [Zone -> ZoneRec]
      BY <2>5, <3>1, <3>2 DEF GLookup
    <3>4. gt' \in [Pbid -> GtRec] /\ inflight' \in InflightRec
      <4>1. \/ gt' = [gt EXCEPT ![p].pc = "alloc"] /\ inflight' = inflight
            \/ gt' = [gt EXCEPT ![p] = NoGcTask] /\ inflight' = [inflight EXCEPT !.gc = @ - 1]
        BY <2>5 DEF GLookup
      <4>2. [gt EXCEPT ![p].pc = "alloc"] \in [Pbid -> GtRec] /\ inflight \in InflightRec
        BY <1>2, <1>3 DEF TypeOK, IoTypeOK
      <4> QED BY <4>1, <4>2, <1>4, <1>6
    <3>5. wk' \in WkRec
      BY <2>5, SubmittedType DEF GLookup, TypeOK, IoTypeOK
    <3>6. tree' \in [Blks -> Owner]
      BY <2>5 DEF GLookup, del_task_from_tree, TypeOK, IoTypeOK, Owner
    <3>7. IoTypeOK'
      BY <2>5, <3>4, <3>5, <3>6 DEF GLookup, TypeOK, IoTypeOK
    <3> QED BY <2>5, <3>3, <3>7, UnchangedType DEF GLookup, TypeOK, ZmdTypeOK
  <2>6. CASE GAlloc(p)
    <3>1. CASE GGotZone(p, StreamId[gt[p].blkid])
      BY <2>6, <3>1, <1>5, GGotZoneType DEF GAlloc
    <3>2. CASE UNCHANGED <<lowVars, wt, tree, user_pending, gc_writes, wk, rd, inflight>>
               /\ gt' = [gt EXCEPT ![p].pc = "alloc2"]
      <4>1. IoTypeOK'
        BY <3>2, <1>2, <1>3 DEF TypeOK, IoTypeOK
      <4> QED BY <3>2, <4>1, UnchangedType DEF TypeOK
    <3> QED BY <2>6, <3>1, <3>2 DEF GAlloc
  <2>7. CASE GAlloc2(p)
    <3>1. CASE GGotZone(p, OtherStream(StreamId[gt[p].blkid]))
      BY <2>7, <3>1, <1>5, GGotZoneType DEF GAlloc2
    <3>2. CASE UNCHANGED <<media, errors, faulty, gc_state, zmdVars, pbids, ioVars>>
               /\ oops' = IF faulty THEN "gc_eio" ELSE "gc_eagain"
      <4>1. oops' \in Oops
        BY <3>2 DEF Oops
      <4> QED BY <3>2, <4>1, UnchangedType DEF TypeOK, DevTypeOK
    <3> QED BY <2>7, <3>1, <3>2 DEF GAlloc2
  <2>8. CASE GAppend(p)
    <3>1. PICK q \in Pbid : ZoneAppend(q, gt[p].data) /\ gt' = [gt EXCEPT ![p].pbid = q, ![p].pc = "endio"]
      BY <2>8 DEF GAppend
    <3>2. media' \in [Pbid -> Values \cup {NULL}]
      <4>1. gt[p].data \in Values \cup {NULL}
        BY <1>1 DEF GtRec
      <4> QED BY <3>1, <4>1 DEF ZoneAppend, TypeOK, DevTypeOK
    <3>3. gt' \in [Pbid -> GtRec]
      <4> DEFINE g == [gt EXCEPT ![p].pbid = q]
      <4>1. g \in [Pbid -> GtRec]
        BY <1>1, GtFields
      <4>2. gt' = [g EXCEPT ![p].pc = "endio"]
        BY <3>1
      <4> HIDE DEF g
      <4> QED BY <4>1, <4>2, <1>2, GtFields
    <3>4. IoTypeOK'
      BY <2>8, <3>3 DEF GAppend, TypeOK, IoTypeOK
    <3> QED BY <2>8, <3>2, <3>4, UnchangedType DEF GAppend, TypeOK, DevTypeOK
  <2>9. CASE GAppendFails(p)
    <3>1. errors' \in 0 .. MaxErrors
      BY <2>9, DevAssumption DEF GAppendFails, CommandFails, TypeOK, DevTypeOK
    <3>2. gt' \in [Pbid -> GtRec]
      <4> DEFINE g == [gt EXCEPT ![p].error = TRUE]
      <4>1. g \in [Pbid -> GtRec]
        BY <1>1, GtFields
      <4>2. gt' = [g EXCEPT ![p].pc = "endio"]
        BY <2>9 DEF GAppendFails
      <4> HIDE DEF g
      <4> QED BY <4>1, <4>2, <1>2, GtFields
    <3>3. IoTypeOK'
      BY <2>9, <3>2 DEF GAppendFails, TypeOK, IoTypeOK
    <3> QED BY <2>9, <3>1, <3>3, UnchangedType DEF GAppendFails, TypeOK, DevTypeOK
  <2>10. CASE GEndio(p)
    <3>1. gt' \in [Pbid -> GtRec]
      BY <2>10, <1>2, <1>3 DEF GEndio
    <3>2. zone' \in [Zone -> ZoneRec]
      BY <2>10, ZoneRecOps DEF GEndio, TypeOK, ZmdTypeOK
    <3>3. IoTypeOK'
      BY <2>10, <3>1 DEF GEndio, TypeOK, IoTypeOK
    <3> QED BY <2>10, <3>2, <3>3, UnchangedType DEF GEndio, TypeOK, ZmdTypeOK
  <2>11. CASE GCbRmap(p)
    <3>1. IoTypeOK'
      BY <2>11, <1>2, <1>3 DEF GCbRmap, TypeOK, IoTypeOK
    <3>2. gt[p].blkid \in Blks
      BY <2>11 DEF GCbRmap, GtFacts
    <3>3. zrms' \in [Pbid -> Blks \cup {INVALID}]
      BY <2>11, <3>2 DEF GCbRmap, lbz_zone_update_reverse_map, TypeOK, ZmdTypeOK
    <3> QED BY <2>11, <3>1, <3>3, UnchangedType DEF GCbRmap, TypeOK, ZmdTypeOK
  <2>12. CASE GCbMap(p)
    <3>1. gt' \in [Pbid -> GtRec]
      BY <2>12, <1>2, <1>3 DEF GCbMap
    <3>2. IoTypeOK'
      BY <2>12, <3>1 DEF GCbMap, TypeOK, IoTypeOK
    <3>3. pbids' \in [Blks -> Pbid \cup {INVALID}]
      BY <2>12 DEF GCbMap, lbz_mapping_add, TypeOK, MappingTypeOK, GtFacts
    <3>4. oops' \in Oops
      BY <2>12 DEF GCbMap, TypeOK, DevTypeOK, Oops
    <3> QED BY <2>12, <3>2, <3>3, <3>4, UnchangedType DEF GCbMap, TypeOK, DevTypeOK, MappingTypeOK
  <2>13. CASE GCbOld(p)
    <3>1. IoTypeOK'
      BY <2>13, <1>2, <1>3 DEF GCbOld, TypeOK, IoTypeOK
    <3>2. zrms' \in [Pbid -> Blks \cup {INVALID}]
      BY <2>13 DEF GCbOld, lbz_zone_update_reverse_map, TypeOK, ZmdTypeOK
    <3>3. zone' \in [Zone -> ZoneRec]
      BY <2>13, ZoneRecOps DEF GCbOld, TypeOK, ZmdTypeOK
    <3> QED BY <2>13, <3>1, <3>2, <3>3, UnchangedType DEF GCbOld, TypeOK, ZmdTypeOK
  <2>14. CASE GCbPut(p)
    <3> DEFINE zn == [zone EXCEPT ![gt[p].zone] = lbz_put_zone(@)]
    <3>1. zn \in [Zone -> ZoneRec]
      BY <1>7
    <3>2. zone' \in [Zone -> ZoneRec]
      <4>1. zone' = [zn EXCEPT ![get_zone_by_pbid(p)] = lbz_put_zone(@)]
        BY <2>14 DEF GCbPut
      <4> HIDE DEF zn
      <4> QED BY <3>1, <4>1, ZoneRecOps
    <3>3. gt' \in [Pbid -> GtRec]
      <4>1. \A c \in GtPc : [NoGcTask EXCEPT !.pc = c] \in GtRec
        BY NoTaskType DEF GtRec
      <4> QED BY <2>14, <1>1, <1>2, <4>1 DEF GCbPut
    <3>4. tree' \in [Blks -> Owner]
      BY <2>14 DEF GCbPut, del_task_from_tree, TypeOK, IoTypeOK, Owner
    <3>5. IoTypeOK'
      BY <2>14, <1>6, <3>3, <3>4 DEF GCbPut, TypeOK, IoTypeOK
    <3> QED BY <2>14, <3>2, <3>5, UnchangedType DEF GCbPut, TypeOK, ZmdTypeOK
  <2> QED BY <2>1, <2>2, <2>3, <2>4, <2>5, <2>6, <2>7, <2>8, <2>9, <2>10, <2>11, <2>12,
             <2>13, <2>14 DEF GcCopy
<1> QED BY <1>8, UnchangedType DEF TypeOK

\* The retry worker keeps the types.
LEMMA RetryWorkType ==
    ASSUME TypeOK, GtFacts, QueuedOnce, RetryWork, UNCHANGED gc
    PROVE  TypeOK'
<1> USE DEF devVars, zmdVars, listVars, lowVars
<1>1. wk \in WkRec /\ user_pending \in Seq(UTasks) /\ gc_writes \in Seq(Pbid)
  BY DEF TypeOK, IoTypeOK
<1>2. DevTypeOK' /\ ZmdTypeOK' /\ MappingTypeOK' /\ IoTypeOK'
  <2>1. CASE WkStart
    <3>1. wk' \in WkRec
      <4>1. [wk EXCEPT !.pc = "user"] \in WkRec
        BY <1>1 DEF WkRec
      <4>2. \A r \in WkRec : [r EXCEPT !.users = user_pending] \in WkRec
        BY <1>1 DEF WkRec
      <4> QED BY <2>1, <4>1, <4>2 DEF WkStart
    <3>2. IoTypeOK'
      BY <2>1, <3>1 DEF WkStart, TypeOK, IoTypeOK
    <3> QED BY <2>1, <3>2, UnchangedType DEF WkStart, TypeOK
  <2>2. CASE WkUser
    <3> DEFINE t == Head(wk.users)
               k == [wk EXCEPT !.users = Tail(@)]
    <3>1. wk.users \in Seq(UTasks) /\ wk.users # <<>>
      BY <2>2, <1>1 DEF WkUser, WkRec
    <3>2. t \in UTasks /\ Tail(wk.users) \in Seq(UTasks)
      BY <3>1
    <3>3. wk' \in WkRec
      <4>1. k \in WkRec
        BY <1>1, <3>2 DEF WkRec
      <4>2. wk' = [k EXCEPT !.cur = t]
        BY <2>2 DEF WkUser
      <4> HIDE DEF k, t
      <4> QED BY <3>2, <4>1, <4>2 DEF WkRec, Owner
    <3>4. wt' \in [UTasks -> WtRec] /\ tree' \in [Blks -> Owner]
      <4>1. wt \in [UTasks -> WtRec] /\ tree \in [Blks -> Owner]
        BY DEF TypeOK, IoTypeOK
      <4>2. CASE InsertUser(t, wt[t])
        <5> HIDE DEF t
        <5> QED BY <4>1, <4>2, <3>2, InsertUserType
      <4>3. CASE wt' = [wt EXCEPT ![t].pc = "alloc"] /\ UNCHANGED tree
        <5>1. "alloc" \in WtPc
          BY DEF WtPc
        <5> HIDE DEF t
        <5> QED BY <4>1, <4>3, <5>1, WtFields
      <4> QED BY <2>2, <4>2, <4>3 DEF WkUser
    <3>5. IoTypeOK'
      BY <2>2, <3>3, <3>4 DEF WkUser, TypeOK, IoTypeOK
    <3> QED BY <2>2, <3>5, UnchangedType DEF WkUser, TypeOK
  <2>3. CASE WkSpliceGc
    <3>1. wk' \in WkRec
      <4>1. [wk EXCEPT !.pc = "gc"] \in WkRec
        BY <1>1 DEF WkRec
      <4>2. \A r \in WkRec : [r EXCEPT !.gcs = gc_writes] \in WkRec
        BY <1>1 DEF WkRec
      <4> QED BY <2>3, <4>1, <4>2 DEF WkSpliceGc
    <3>2. IoTypeOK'
      BY <2>3, <3>1 DEF WkSpliceGc, TypeOK, IoTypeOK
    <3> QED BY <2>3, <3>2, UnchangedType DEF WkSpliceGc, TypeOK
  <2>4. CASE WkGc
    <3> DEFINE p == Head(wk.gcs)
               k == [wk EXCEPT !.gcs = Tail(@)]
               own == tree[gt[p].blkid]
    <3>1. wk.gcs \in Seq(Pbid) /\ wk.gcs # <<>>
      BY <2>4, <1>1 DEF WkGc, WkRec
    <3>2. p \in Pbid /\ Tail(wk.gcs) \in Seq(Pbid)
      BY <3>1
    <3>3. wk' \in WkRec
      <4>1. k \in WkRec
        BY <1>1, <3>2 DEF WkRec
      <4>2. wk' = [k EXCEPT !.cur = p]
        BY <2>4 DEF WkGc
      <4> HIDE DEF k, p
      <4> QED BY <3>2, <4>1, <4>2 DEF WkRec, Owner
    <3>4. GInsert(p)
      BY <2>4 DEF WkGc
    <3>4a. OnList(wk.gcs, p)
      BY <3>1 DEF OnList
    <3> HIDE DEF p
    <3>5. tree' \in [Blks -> Owner] /\ oops' \in Oops
      BY <3>2, <3>4 DEF GInsert, TypeOK, DevTypeOK, IoTypeOK, Owner, Oops
    <3>6. wt' \in [UTasks -> WtRec]
      <4>1. wt' = wt \/ wt' = [wt EXCEPT ![own].refcount = @ + 1]
        BY <3>4 DEF GInsert
      <4>2. wt \in [UTasks -> WtRec]
        BY DEF TypeOK, IoTypeOK
      <4> HIDE DEF own
      <4>3. [wt EXCEPT ![own].refcount = @ + 1] \in [UTasks -> WtRec]
        BY <4>2, WtFields
      <4> QED BY <4>1, <4>2, <4>3
    <3>7. gt' \in [Pbid -> GtRec]
      <4>1. gt \in [Pbid -> GtRec] /\ "lookup" \in GtPc /\ "conflict" \in GtPc
        BY DEF TypeOK, IoTypeOK, GtPc
      <4>2. CASE gt' = [gt EXCEPT ![p].pc = "lookup"]
        BY <4>1, <4>2, GtFields
      <4>3. CASE gt' = [gt EXCEPT ![p].pc = "conflict", ![p].tk = own]
        <5> DEFINE g == [gt EXCEPT ![p].pc = "conflict"]
        <5>1. g \in [Pbid -> GtRec]
          BY <4>1, GtFields
        <5>2. own \in Owner
          <6>1. gt[p].blkid \in Blks
            BY <3>2, <3>4a DEF QueuedOnce, GtFacts
          <6> QED BY <6>1 DEF TypeOK, IoTypeOK
        <5>3. gt' = [g EXCEPT ![p].tk = own]
          BY <4>3
        <5> HIDE DEF g, own
        <5> QED BY <5>1, <5>2, <5>3, GtFields
      <4> QED BY <3>4, <4>2, <4>3 DEF GInsert
    <3>8. IoTypeOK'
      BY <2>4, <3>3, <3>5, <3>6, <3>7 DEF WkGc, TypeOK, IoTypeOK
    <3> QED BY <2>4, <3>5, <3>8, UnchangedType DEF WkGc, TypeOK, DevTypeOK
  <2>5. CASE WkEnd
    <3>1. wk' \in WkRec
      BY <2>5, <1>1 DEF WkEnd, WkRec
    <3>2. IoTypeOK'
      BY <2>5, <3>1 DEF WkEnd, TypeOK, IoTypeOK
    <3> QED BY <2>5, <3>2, UnchangedType DEF WkEnd, TypeOK
  <2> QED BY <2>1, <2>2, <2>3, <2>4, <2>5 DEF RetryWork
<1> QED BY <1>2, UnchangedType DEF TypeOK

\* The GC thread keeps the types.
LEMMA GcThreadType ==
    ASSUME TypeOK, GcThread
    PROVE  TypeOK'
<1> USE DEF devVars, zmdVars, listVars
<1>1. CASE GcSelect
  <2>1. PICK z \in lbz_find_victim_zone(gc.mod) :
          /\ full_zone_list' = full_zone_list \ {z}
          /\ zone' = [zone EXCEPT ![z] = SetFlag(lbz_get_zone(@), "GC")]
          /\ gc' = [pc |-> "iter", mod |-> "DEFAULT", gc_zone |-> z, iter |-> 0]
    BY <1>1 DEF GcSelect
  <2>2. z \in Zone
    BY DEF lbz_find_victim_zone, MinWeight, TypeOK, ZmdTypeOK
  <2>3. zone' \in [Zone -> ZoneRec]
    <3>1. lbz_get_zone(zone[z]) \in ZoneRec
      BY <2>2, ZoneRecOps DEF TypeOK, ZmdTypeOK
    <3>2. \A d \in ZoneRec : SetFlag(d, "GC") \in ZoneRec
      BY DEF SetFlag, ZoneRec, Flags
    <3> QED BY <2>1, <3>1, <3>2 DEF TypeOK, ZmdTypeOK
  <2>4. GcTypeOK'
    BY <2>1, <2>2 DEF GcTypeOK, GcRec
  <2>5. ZmdTypeOK'
    BY <1>1, <2>1, <2>3 DEF GcSelect, TypeOK, ZmdTypeOK
  <2> QED BY <1>1, <2>4, <2>5, UnchangedType DEF GcSelect, TypeOK
<1>2. CASE GcIter
  <2> DEFINE p == <<gc.gc_zone, gc.iter>>
  <2>1. GcTypeOK'
    BY <1>2 DEF GcIter, TypeOK, GcTypeOK, GcRec
  <2>2. zone' \in [Zone -> ZoneRec]
    BY <1>2, ZoneRecOps DEF GcIter, TypeOK, ZmdTypeOK
  <2>3. inflight' \in InflightRec
    BY <1>2 DEF GcIter, TypeOK, IoTypeOK, InflightRec
  <2>4. gt' \in [Pbid -> GtRec]
    <3> DEFINE n1 == [NoGcTask EXCEPT !.pc = "reading"]
               n == [n1 EXCEPT !.blkid = zrms[p]]
    <3>1. n1 \in GtRec
      BY NoTaskType DEF GtRec, GtPc
    <3>2. p \in Pbid /\ zrms[p] # INVALID => n \in GtRec
      <4>1. p \in Pbid /\ zrms[p] # INVALID => zrms[p] \in Blks
        BY DEF TypeOK, ZmdTypeOK
      <4> HIDE DEF n1, p
      <4> QED BY <3>1, <4>1 DEF GtRec
    <3>3. gt' = gt \/ (zrms[p] # INVALID /\ gt' = [gt EXCEPT ![p] = n])
      BY <1>2 DEF GcIter
    <3> HIDE DEF n, p
    <3> QED BY <3>2, <3>3 DEF TypeOK, IoTypeOK
  <2>5. IoTypeOK'
    BY <1>2, <2>3, <2>4 DEF GcIter, TypeOK, IoTypeOK
  <2> QED BY <1>2, <2>1, <2>2, <2>5, UnchangedType DEF GcIter, TypeOK, ZmdTypeOK
<1>3. CASE GcFinish
  <2>1. GcTypeOK'
    <3>1. [gc EXCEPT !.pc = "idle"] \in GcRec
      BY DEF TypeOK, GcTypeOK, GcRec
    <3>2. \A r \in GcRec : [r EXCEPT !.iter = 0] \in GcRec
      BY DEF GcRec
    <3> QED BY <1>3, <3>1, <3>2 DEF GcFinish, GcTypeOK
  <2>2. zone' \in [Zone -> ZoneRec]
    <3>1. \A d \in ZoneRec : SetFlag(d, "GC_COMPLETED") \in ZoneRec
      BY DEF SetFlag, ZoneRec, Flags
    <3> QED BY <1>3, <3>1, ZoneRecOps DEF GcFinish, TypeOK, ZmdTypeOK
  <2>3. gc_state' \in SUBSET {"RECLAIMING", "EMERGENCY"}
    BY <1>3 DEF GcFinish, TypeOK, DevTypeOK
  <2> QED BY <1>3, <2>1, <2>2, <2>3, UnchangedType DEF GcFinish, TypeOK, DevTypeOK, ZmdTypeOK
<1>4. CASE GcCheck \/ GcNoVictim
  <2>1. \A c \in {"idle", "victim"} : [gc EXCEPT !.pc = c] \in GcRec
    BY DEF TypeOK, GcTypeOK, GcRec
  <2>2. \A r \in GcRec, m \in {"DEFAULT", "REGULAR", "EMERGENCY"} : [r EXCEPT !.mod = m] \in GcRec
    BY DEF GcRec
  <2>3. Mod \in {"DEFAULT", "REGULAR", "EMERGENCY"}
    BY DEF Mod
  <2>4. GcTypeOK'
    <3> HIDE DEF Mod
    <3>1. CASE GcCheck
      <4> DEFINE g == [gc EXCEPT !.pc = "victim"]
      <4>1. g \in GcRec /\ gc' = [g EXCEPT !.mod = Mod]
        BY <2>1, <3>1 DEF GcCheck
      <4> HIDE DEF g
      <4> QED BY <4>1, <2>2, <2>3 DEF GcTypeOK
    <3>2. CASE GcNoVictim
      <4> DEFINE g == [gc EXCEPT !.pc = "idle"]
      <4>1. g \in GcRec /\ gc' = [g EXCEPT !.mod = "DEFAULT"]
        BY <2>1, <3>2 DEF GcNoVictim
      <4> HIDE DEF g
      <4> QED BY <4>1, <2>2 DEF GcTypeOK
    <3> QED BY <1>4, <3>1, <3>2
  <2> QED BY <1>4, <2>4, UnchangedType DEF GcCheck, GcNoVictim, TypeOK
<1> QED BY <1>1, <1>2, <1>3, <1>4 DEF GcThread

\* The second half of a put keeps the types.
LEMMA PutZoneEndType ==
    ASSUME TypeOK, NEW z \in Zone, PutZoneEnd(z), UNCHANGED <<pbids, ioVars, gc>>
    PROVE  TypeOK'
<1>1. zone \in [Zone -> ZoneRec]
  BY DEF TypeOK, ZmdTypeOK
<1>2. [zone[z] EXCEPT !.in_put = FALSE] \in ZoneRec
  BY <1>1, ZoneRecPut
<1>3. PutState([zone[z] EXCEPT !.in_put = FALSE], TRUE) \in ZoneRec
  BY <1>2, ZoneRecPut
<1>4. zone' \in [Zone -> ZoneRec]
  BY <1>1, <1>3 DEF PutZoneEnd
<1> QED BY <1>4, UnchangedType DEF PutZoneEnd, TypeOK, ZmdTypeOK, listVars

-----------------------------------------------------------------------------
\* Every step keeps the types, given what TaskInv says of the tasks.
LEMMA NextType ==
    ASSUME TypeOK, WtFacts, GtFacts, QueuedOnce, [Next]_vars
    PROVE  TypeOK'
<1>1. CASE UNCHANGED vars
  BY <1>1, UnchangedType DEF vars, TypeOK
<1>2. CASE ZoneStateWork /\ UNCHANGED <<pbids, ioVars, gc>>
  BY <1>2, ZoneStateType
<1>3. CASE \E t \in UTasks : (SubmitWrite(t) \/ WriteStep(t)) /\ UNCHANGED gc
  BY <1>3, SubmitWriteType, WriteStepType
<1>4. CASE \E r \in Readers : (SubmitRead(r) \/ lbz_read_io_endio(r)) /\ UNCHANGED gc
  BY <1>4, ReadType
<1>5. CASE \E p \in Pbid : GcCopy(p) /\ UNCHANGED gc
  BY <1>5, GcCopyType
<1>6. CASE RetryWork /\ UNCHANGED gc
  BY <1>6, RetryWorkType
<1>7. CASE GcThread
  BY <1>7, GcThreadType
<1>8. CASE \E z \in Zone : PutZoneEnd(z) /\ UNCHANGED <<pbids, ioVars, gc>>
  BY <1>8, PutZoneEndType
<1> QED BY <1>1, <1>2, <1>3, <1>4, <1>5, <1>6, <1>7, <1>8 DEF Next, Running, Halted


-----------------------------------------------------------------------------
(* Lists of tasks.                                                         *)

\* Appending a task that is not on the list.
LEMMA AppendList ==
    ASSUME NEW S, NEW s \in Seq(S), NEW e \in S
    PROVE  /\ \A x : OnList(Append(s, e), x) <=> OnList(s, x) \/ x = e
           /\ Distinct(s) /\ ~OnList(s, e) => Distinct(Append(s, e))
  BY DEF OnList, Distinct

\* Taking the first task off the list.
LEMMA TailList ==
    ASSUME NEW S, NEW s \in Seq(S), s # <<>>
    PROVE  /\ Head(s) \in S /\ Tail(s) \in Seq(S)
           /\ OnList(s, Head(s))
           /\ \A x : OnList(s, x) <=> OnList(Tail(s), x) \/ x = Head(s)
           /\ Distinct(s) => Distinct(Tail(s)) /\ ~OnList(Tail(s), Head(s))
<1>1. Head(s) \in S /\ Tail(s) \in Seq(S) /\ OnList(s, Head(s))
  BY DEF OnList
<1>2. Len(Tail(s)) = Len(s) - 1 /\ \A k \in 1 .. Len(Tail(s)) : Tail(s)[k] = s[k + 1]
  OBVIOUS
<1>3. Len(s) \in Nat \ {0} /\ Head(s) = s[1]
  OBVIOUS
<1>4. ASSUME NEW x, OnList(Tail(s), x) PROVE OnList(s, x)
  BY <1>2, <1>3, <1>4 DEF OnList
<1>5. ASSUME NEW x, OnList(s, x), x # Head(s) PROVE OnList(Tail(s), x)
  <2>1. PICK k \in 1 .. Len(s) : s[k] = x
    BY <1>5 DEF OnList
  <2>2. k - 1 \in 1 .. Len(Tail(s)) /\ Tail(s)[k - 1] = x
    BY <2>1, <1>2, <1>3, <1>5
  <2> QED BY <2>2 DEF OnList
<1>6. ASSUME Distinct(s) PROVE Distinct(Tail(s)) /\ ~OnList(Tail(s), Head(s))
  <2>1. ASSUME NEW j \in 1 .. Len(Tail(s)), NEW k \in 1 .. Len(Tail(s)), Tail(s)[j] = Tail(s)[k]
        PROVE  j = k
    <3>1. j + 1 \in 1 .. Len(s) /\ k + 1 \in 1 .. Len(s) /\ s[j + 1] = s[k + 1]
      BY <2>1, <1>2, <1>3
    <3> QED BY <3>1, <1>6 DEF Distinct
  <2>2. ASSUME NEW k \in 1 .. Len(Tail(s)), Tail(s)[k] = Head(s) PROVE FALSE
    <3>1. 1 \in 1 .. Len(s) /\ k + 1 \in 1 .. Len(s) /\ s[k + 1] = s[1]
      BY <2>2, <1>2, <1>3
    <3>2. k + 1 = 1
      BY <3>1, <1>6 DEF Distinct
    <3> QED BY <3>2
  <2> QED BY <2>1, <2>2 DEF Distinct, OnList
<1> QED BY <1>1, <1>4, <1>5, <1>6

\* The empty list.
LEMMA EmptyList == Distinct(<<>>) /\ \A x : ~OnList(<<>>, x)
  BY DEF Distinct, OnList

-----------------------------------------------------------------------------
(* Steps that move one task and nothing else TaskInv speaks of.            *)

ListFrame ==
    /\ UNCHANGED <<user_pending, gc_writes>>
    /\ wk'.pc = wk.pc /\ wk'.users = wk.users /\ wk'.gcs = wk.gcs

UserFrame(t) == \A u \in UTasks : u # t => wt'[u] = wt[u]
GcFrame(p)   == \A q \in Pbid : q # p => gt'[q] = gt[q]

\* A step outside the tasks and the maps keeps TaskInv.
LEMMA FrameInv ==
    ASSUME TaskInv, UNCHANGED <<wt, gt, tree, pbids>>, ListFrame
    PROVE  TaskInv'
<1>1. WtFacts' /\ GtFacts' /\ PendingAgency' /\ GcSourceMapped'
  BY DEF TaskInv, WtFacts, GtFacts, PendingAgency, GcSourceMapped, GtCopying
<1>2. TaskTreeExact'
  BY DEF TaskInv, TaskTreeExact, WtInTree, GtInTree
<1>3. QueuedOnce' /\ SplicedLists'
  BY DEF TaskInv, QueuedOnce, SplicedLists, ListFrame
<1> QED BY <1>1, <1>2, <1>3 DEF TaskInv

InTreePc == {"alloc", "alloc2", "append", "endio", "oldrmap", "oldweight", "newrmap", "del"}

\* A user task goes from one step to another that needs the tree just as the
\* first one did, and takes part in no list.
LEMMA UserMoves ==
    ASSUME TypeOK, TypeOK', TaskInv, NEW t \in UTasks, UserFrame(t), ListFrame,
           UNCHANGED <<gt, tree, pbids>>,
           wt'[t].blkid = wt[t].blkid, wt'[t].status = wt[t].status,
           wt'[t].pending_gc_node = wt[t].pending_gc_node,
           wt[t].pc \notin {"none", "queued"}, wt'[t].pc \notin {"none", "queued", "conflict"},
           wt'[t].pc \in {"alloc", "alloc2"} => wt[t].pc \in {"alloc", "alloc2"},
           wt'[t].pc = "endio" /\ ~wt'[t].error => wt'[t].pbid \in Pbid,
           wt[t].pc \in InTreePc <=> wt'[t].pc \in InTreePc
    PROVE  TaskInv'
<1>1. WtFacts'
  BY DEF TaskInv, WtFacts, UserFrame
<1>2. GtFacts' /\ GcSourceMapped'
  BY DEF TaskInv, GtFacts, GcSourceMapped, GtCopying
<1>3. QueuedOnce' /\ SplicedLists'
  BY DEF TaskInv, QueuedOnce, SplicedLists, ListFrame, UserFrame
<1>4. PendingAgency'
  BY DEF TaskInv, PendingAgency, UserFrame
<1>5. TaskTreeExact'
  BY DEF TaskInv, TaskTreeExact, WtInTree, GtInTree, UserFrame, InTreePc
<1> QED BY <1>1, <1>2, <1>3, <1>4, <1>5 DEF TaskInv

GcInTreePc == {"lookup", "alloc", "alloc2", "append", "endio", "cb_rmap", "cb_map", "cb_old", "cb_put"}
GcCopyPc   == {"alloc", "alloc2", "append", "endio", "cb_rmap", "cb_map"}

\* The same for a GC task.
LEMMA GcMoves ==
    ASSUME TypeOK, TypeOK', TaskInv, NEW p \in Pbid, GcFrame(p), ListFrame,
           UNCHANGED <<wt, tree, pbids>>,
           gt'[p].pc \notin {"none", "fault"} => gt[p].pc \notin {"none", "fault"} /\ gt'[p].blkid = gt[p].blkid,
           gt[p].pc \notin {"queued", "agency"}, gt'[p].pc \notin {"queued", "agency"},
           gt'[p].pc \in {"cb_rmap", "cb_map"} \/ (gt'[p].pc = "endio" /\ ~gt'[p].error) => gt'[p].pbid \in Pbid,
           gt[p].pc \in GcInTreePc <=> gt'[p].pc \in GcInTreePc,
           gt'[p].pc \in GcCopyPc => gt[p].pc \in GcCopyPc \/ pbids[gt[p].blkid] = p
    PROVE  TaskInv'
<1>1. WtFacts'
  BY DEF TaskInv, WtFacts
<1>2. GtFacts'
  BY DEF TaskInv, GtFacts, GcFrame
<1>3. QueuedOnce' /\ SplicedLists'
  BY DEF TaskInv, QueuedOnce, SplicedLists, ListFrame, GcFrame
<1>4. PendingAgency'
  <2>1. \A t \in UTasks : wt[t].pending_gc_node # NULL => wt[t].pending_gc_node \in Pbid
    BY DEF TypeOK, IoTypeOK, WtRec
  <2> QED BY <2>1 DEF TaskInv, PendingAgency, GcFrame
<1>5. TaskTreeExact'
  BY DEF TaskInv, TaskTreeExact, WtInTree, GtInTree, GcFrame, GcInTreePc
<1>6. GcSourceMapped'
  BY DEF TaskInv, GcSourceMapped, GtCopying, GcFrame, GcCopyPc
<1> QED BY <1>1, <1>2, <1>3, <1>4, <1>5, <1>6 DEF TaskInv

-----------------------------------------------------------------------------
(* insert_task_to_tree and del_task_from_tree.                             *)

\* del_task_from_tree by its owner: a user task t leaves the tree.  The put that
\* follows may finish a GC task that waits for t.
LEMMA UserLeaves ==
    ASSUME TypeOK, TypeOK', TaskInv, NEW t \in UTasks, UserFrame(t), ListFrame,
           UNCHANGED pbids,
           WtInTree(t), wt[t].pc # "queued",
           tree' = [tree EXCEPT ![wt[t].blkid] = NULL],
           gt' = CallbackTask(gt, Pending(t, 2)),
           \/ wt'[t].pc = "none"
           \/ wt'[t].pc = "complete" /\ wt'[t].blkid = wt[t].blkid,
           \/ Pending(t, 2) = {} /\ wt'[t].pending_gc_node = wt[t].pending_gc_node
           \/ Pending(t, 2) = {wt[t].pending_gc_node} /\ wt[t].pending_gc_node # NULL
              /\ wt'[t].pending_gc_node = NULL
    PROVE  TaskInv'
<1> USE DEF TaskInv
<1>1. wt[t].blkid \in Blks /\ tree[wt[t].blkid] = t
  BY DEF WtFacts, TaskTreeExact, WtInTree
<1>2. \A q \in Pbid : gt'[q] = gt[q] \/ (gt'[q] = NoGcTask /\ gt[q].pc = "agency" /\ wt[t].pending_gc_node = q)
  BY DEF CallbackTask, PendingAgency
<1>3. \A q \in Pbid : gt'[q].pc = "agency" => gt[q].pc = "agency"
  BY <1>2 DEF NoGcTask
<1>4. \A q \in Pbid : gt'[q].pc = gt[q].pc \/ (gt'[q].pc = "none" /\ gt[q].pc = "agency")
  BY <1>2 DEF NoGcTask
<1>5. \A q \in Pbid : gt'[q].pc # "none" => gt'[q] = gt[q]
  BY <1>2 DEF NoGcTask
<1>6. WtFacts'
  BY <1>1 DEF WtFacts, UserFrame
<1>7. GtFacts'
  BY <1>5 DEF GtFacts
<1>8. QueuedOnce' /\ SplicedLists'
  BY <1>4 DEF QueuedOnce, SplicedLists, ListFrame, UserFrame, WtInTree
<1>9. PendingAgency'
  <2>1. \A q \in Pbid : q \notin Pending(t, 2) => gt'[q] = gt[q]
    BY DEF CallbackTask
  <2>2. \A u \in UTasks : wt[u].pending_gc_node \in Pbid \cup {NULL}
    BY DEF TypeOK, IoTypeOK, WtRec
  <2> QED BY <2>1, <2>2, DevAssumption DEF PendingAgency, UserFrame
<1>10. TaskTreeExact'
  <2>1. \A u \in UTasks : WtInTree(u)' => u # t /\ WtInTree(u) /\ wt'[u].blkid = wt[u].blkid
    BY DEF WtInTree, UserFrame
  <2>2. \A u \in UTasks : WtInTree(u) /\ u # t => WtInTree(u)' /\ wt[u].blkid \in Blks
    BY DEF WtInTree, UserFrame, WtFacts
  <2>3. \A q \in Pbid : GtInTree(q)' <=> GtInTree(q)
    BY <1>4 DEF GtInTree
  <2>4. \A q \in Pbid : GtInTree(q) => gt'[q].blkid = gt[q].blkid /\ gt[q].blkid \in Blks
    BY <1>2 DEF GtInTree, GtFacts
  <2>5. t \notin Pbid /\ NULL \notin UTasks /\ NULL \notin Pbid /\ UTasks \cap Pbid = {}
    BY DevAssumption, IoAssumption
  <2>6. \A x \in Blks : tree'[x] = IF x = wt[t].blkid THEN NULL ELSE tree[x]
    BY DEF TypeOK, IoTypeOK
  <2>7. \A u \in UTasks : WtInTree(u)' => tree'[wt'[u].blkid] = u
    BY <2>1, <2>2, <2>6, <1>1 DEF TaskTreeExact
  <2>8. \A q \in Pbid : GtInTree(q)' => tree'[gt'[q].blkid] = q
    BY <2>3, <2>4, <2>5, <2>6, <1>1 DEF TaskTreeExact
  <2>9. ASSUME NEW x \in Blks, NEW u \in UTasks, tree'[x] = u
        PROVE  WtInTree(u)' /\ wt'[u].blkid = x
    <3>1. x # wt[t].blkid /\ tree[x] = u
      BY <2>5, <2>6, <2>9
    <3>2. WtInTree(u) /\ wt[u].blkid = x /\ u # t
      BY <3>1, <1>1 DEF TaskTreeExact
    <3> QED BY <3>2, <2>2 DEF UserFrame
  <2>10. ASSUME NEW x \in Blks, NEW q \in Pbid, tree'[x] = q
         PROVE  GtInTree(q)' /\ gt'[q].blkid = x
    <3>1. tree[x] = q
      BY <2>5, <2>6, <2>10
    <3>2. GtInTree(q) /\ gt[q].blkid = x
      BY <3>1 DEF TaskTreeExact
    <3> QED BY <3>2, <2>3, <2>4
  <2> QED BY <2>7, <2>8, <2>9, <2>10 DEF TaskTreeExact, WtInTree, GtInTree
<1>11. GcSourceMapped'
  BY <1>4, <1>5 DEF GcSourceMapped, GtCopying
<1> QED BY <1>6, <1>7, <1>8, <1>9, <1>10, <1>11

\* All a task knows but its reference count.
SameTask(r, s) ==
    /\ r.pc = s.pc /\ r.status = s.status /\ r.blkid = s.blkid
    /\ r.data = s.data /\ r.zone = s.zone /\ r.pbid = s.pbid /\ r.old = s.old /\ r.error = s.error

\* insert_task_to_tree for a user task that is not in the tree: it is put there
\* if nobody owns its block, and goes on waiting if somebody does.
LEMMA UserInserts ==
    ASSUME TypeOK, TypeOK', TaskInv, NEW t \in UTasks, NEW task \in WtRec, InsertUser(t, task),
           UNCHANGED <<gt, pbids>>, ~WtInTree(t),
           task.status = "INIT", task.blkid \in Blks,
           task.pending_gc_node \in {NULL, wt[t].pending_gc_node}
    PROVE  /\ wt'[t].pc \in {"alloc", "conflict"}
           /\ \A u \in UTasks : u # t => wt'[u].pc = wt[u].pc
           /\ WtFacts' /\ GtFacts' /\ PendingAgency' /\ TaskTreeExact' /\ GcSourceMapped'
<1> USE DEF TaskInv
<1> DEFINE b == task.blkid
           own == tree[b]
<1>1. wt \in [UTasks -> WtRec] /\ wt' \in [UTasks -> WtRec] /\ tree \in [Blks -> Owner]
  BY DEF TypeOK, IoTypeOK
<1>2. t \notin Pbid /\ NULL \notin UTasks /\ NULL \notin Pbid /\ UTasks \cap Pbid = {}
  BY DevAssumption, IoAssumption
<1>3. own # t
  BY DEF TaskTreeExact
<1>4. \A u \in UTasks : u # t => SameTask(wt'[u], wt[u])
                               /\ wt'[u].pending_gc_node = wt[u].pending_gc_node
  BY <1>1, <1>3 DEF InsertUser, WtRec, SameTask
<1>5. /\ wt'[t].blkid = b
      /\ wt'[t].pending_gc_node = task.pending_gc_node
      /\ \/ /\ own = NULL /\ tree' = [tree EXCEPT ![b] = t]
            /\ wt'[t].pc = "alloc" /\ wt'[t].status = "ALLOC_RES"
         \/ own # NULL /\ tree' = tree /\ wt'[t].pc = "conflict" /\ wt'[t].status = "INIT"
  <2>1. CASE own = NULL
    <3>1. /\ tree' = [tree EXCEPT ![b] = t]
          /\ wt'[t] = [task EXCEPT !.pc = "alloc", !.status = "ALLOC_RES", !.refcount = @ + 1]
      BY <1>1, <1>2, <2>1 DEF InsertUser
    <3> QED BY <3>1, <2>1 DEF WtRec
  <2> DEFINE fail == [task EXCEPT !.pc = "conflict", !.tk = own]
  <2>2. fail.blkid = b /\ fail.pending_gc_node = task.pending_gc_node /\ fail.pc = "conflict"
        /\ fail.status = "INIT"
    BY DEF WtRec
  <2> HIDE DEF fail
  <2>3. CASE own # NULL
    <3>1. tree' = tree /\ wt'[t] = fail
      BY <1>1, <1>3, <2>3 DEF InsertUser, fail
    <3> QED BY <3>1, <2>2, <2>3
  <2> QED BY <2>1, <2>3
<1>6. WtFacts'
  BY <1>4, <1>5 DEF WtFacts, SameTask
<1>7. GtFacts' /\ GcSourceMapped'
  BY DEF GtFacts, GcSourceMapped, GtCopying
<1>8. PendingAgency'
  BY <1>4, <1>5 DEF PendingAgency
<1>9. TaskTreeExact'
  <2>1. \A u \in UTasks : u # t => (WtInTree(u)' <=> WtInTree(u)) /\ wt'[u].blkid = wt[u].blkid
    BY <1>4 DEF WtInTree, SameTask
  <2>2. \A u \in UTasks : WtInTree(u) => wt[u].blkid \in Blks
    BY DEF WtInTree, WtFacts
  <2>3. \A q \in Pbid : GtInTree(q)' <=> GtInTree(q)
    BY DEF GtInTree
  <2>4. \A q \in Pbid : GtInTree(q) => gt[q].blkid \in Blks
    BY DEF GtInTree, GtFacts
  <2>5. CASE own # NULL
    <3>1. ~WtInTree(t)' /\ tree' = tree
      BY <1>5, <2>5 DEF WtInTree
    <3>2. \A x \in Blks : tree[x] # t
      BY DEF TaskTreeExact
    <3>3. \A u \in UTasks : WtInTree(u)' => tree'[wt'[u].blkid] = u
      BY <2>1, <3>1 DEF TaskTreeExact
    <3>4. \A q \in Pbid : GtInTree(q)' => tree'[gt'[q].blkid] = q
      BY <2>3, <3>1 DEF TaskTreeExact
    <3>5. \A x \in Blks : \A u \in UTasks : tree'[x] = u => WtInTree(u)' /\ wt'[u].blkid = x
      BY <2>1, <3>1, <3>2 DEF TaskTreeExact
    <3>6. \A x \in Blks : \A q \in Pbid : tree'[x] = q => GtInTree(q)' /\ gt'[q].blkid = x
      BY <2>3, <3>1 DEF TaskTreeExact
    <3> QED BY <3>3, <3>4, <3>5, <3>6 DEF TaskTreeExact, WtInTree, GtInTree
  <2>6. CASE own = NULL
    <3>1. WtInTree(t)' /\ wt'[t].blkid = b
      BY <1>5, <2>6 DEF WtInTree
    <3>2. \A x \in Blks : tree'[x] = IF x = b THEN t ELSE tree[x]
      BY <1>1, <1>5, <2>6
    <3>3. \A u \in UTasks : WtInTree(u)' => tree'[wt'[u].blkid] = u
      BY <2>1, <2>2, <3>1, <3>2, <2>6, <1>2 DEF TaskTreeExact
    <3>4. \A q \in Pbid : GtInTree(q)' => tree'[gt'[q].blkid] = q
      BY <2>3, <2>4, <3>2, <2>6, <1>2 DEF TaskTreeExact
    <3>5. \A x \in Blks : \A u \in UTasks : tree'[x] = u => WtInTree(u)' /\ wt'[u].blkid = x
      BY <2>1, <3>1, <3>2 DEF TaskTreeExact
    <3>6. \A x \in Blks : \A q \in Pbid : tree'[x] = q => GtInTree(q)' /\ gt'[q].blkid = x
      BY <2>3, <3>2, <1>2 DEF TaskTreeExact
    <3> QED BY <3>3, <3>4, <3>5, <3>6 DEF TaskTreeExact, WtInTree, GtInTree
  <2> QED BY <2>5, <2>6
<1> QED BY <1>4, <1>5, <1>6, <1>7, <1>8, <1>9 DEF SameTask

-----------------------------------------------------------------------------
(* The lists of tasks that wait to be submitted again.                     *)

UsersFrame(t) == \A u \in UTasks : u # t => wt'[u].pc = wt[u].pc
GcsQueued     == \A p \in Pbid : gt'[p].pc = "queued" <=> gt[p].pc = "queued"
GcsFrame(p)   == \A q \in Pbid : q # p => gt'[q].pc = gt[q].pc
UsersQueued   == \A t \in UTasks : wt'[t].pc = "queued" <=> wt[t].pc = "queued"

\* A step that queues and takes nothing.
LEMMA ListsKept ==
    ASSUME QueuedOnce, SplicedLists, ListFrame, UsersQueued, GcsQueued
    PROVE  QueuedOnce' /\ SplicedLists'
  BY DEF QueuedOnce, SplicedLists, ListFrame, UsersQueued, GcsQueued

\* __add_task_to_retry.
LEMMA UserQueued ==
    ASSUME TypeOK, QueuedOnce, SplicedLists, NEW t \in UTasks,
           wt[t].pc # "queued", wt'[t].pc = "queued", UsersFrame(t), GcsQueued,
           user_pending' = Append(user_pending, t), UNCHANGED gc_writes,
           wk'.pc = wk.pc, wk'.users = wk.users, wk'.gcs = wk.gcs
    PROVE  QueuedOnce' /\ SplicedLists'
<1>1. user_pending \in Seq(UTasks)
  BY DEF TypeOK, IoTypeOK
<1>2. \A x : OnList(user_pending', x) <=> OnList(user_pending, x) \/ x = t
  BY <1>1, AppendList
<1>3. ~OnList(user_pending, t) /\ ~OnList(wk.users, t)
  BY DEF QueuedOnce
<1>4. Distinct(user_pending')
  BY <1>1, <1>3, AppendList DEF QueuedOnce
<1>5. SplicedLists'
  BY DEF SplicedLists
<1> QED BY <1>2, <1>3, <1>4, <1>5 DEF QueuedOnce, UsersFrame, GcsQueued

\* The retry worker takes the first task of its user list.
LEMMA UserTaken ==
    ASSUME TypeOK, QueuedOnce, SplicedLists, NEW t \in UTasks,
           wk.pc = "user", wk.users # <<>>, t = Head(wk.users),
           wt'[t].pc # "queued", UsersFrame(t), GcsQueued,
           UNCHANGED <<user_pending, gc_writes>>,
           wk'.pc = wk.pc, wk'.users = Tail(wk.users), wk'.gcs = wk.gcs
    PROVE  QueuedOnce' /\ SplicedLists'
<1>1. wk.users \in Seq(UTasks)
  BY DEF TypeOK, IoTypeOK, WkRec
<1>2. OnList(wk.users, t) /\ \A x : OnList(wk.users, x) <=> OnList(wk'.users, x) \/ x = t
  BY <1>1, TailList
<1>3. Distinct(wk'.users) /\ ~OnList(wk'.users, t)
  BY <1>1, TailList DEF QueuedOnce
<1>4. ~OnList(user_pending, t)
  BY <1>2 DEF QueuedOnce
<1>5. SplicedLists'
  BY DEF SplicedLists
<1> QED BY <1>2, <1>3, <1>4, <1>5 DEF QueuedOnce, UsersFrame, GcsQueued

\* __add_task_to_gc_writes.
LEMMA GcQueued ==
    ASSUME TypeOK, QueuedOnce, SplicedLists, NEW p \in Pbid,
           gt[p].pc # "queued", gt'[p].pc = "queued", GcsFrame(p), UsersQueued,
           gc_writes' = Append(gc_writes, p), UNCHANGED <<user_pending, wk>>
    PROVE  QueuedOnce' /\ SplicedLists'
<1>1. gc_writes \in Seq(Pbid)
  BY DEF TypeOK, IoTypeOK
<1>2. \A x : OnList(gc_writes', x) <=> OnList(gc_writes, x) \/ x = p
  BY <1>1, AppendList
<1>3. ~OnList(gc_writes, p) /\ ~OnList(wk.gcs, p)
  BY DEF QueuedOnce
<1>4. Distinct(gc_writes')
  BY <1>1, <1>3, AppendList DEF QueuedOnce
<1>5. SplicedLists'
  BY DEF SplicedLists
<1> QED BY <1>2, <1>3, <1>4, <1>5 DEF QueuedOnce, GcsFrame, UsersQueued

\* The retry worker takes the first task of its GC list.
LEMMA GcTaken ==
    ASSUME TypeOK, QueuedOnce, SplicedLists, NEW p \in Pbid,
           wk.pc = "gc", wk.gcs # <<>>, p = Head(wk.gcs),
           gt'[p].pc # "queued", GcsFrame(p), UsersQueued,
           UNCHANGED <<user_pending, gc_writes>>,
           wk'.pc = wk.pc, wk'.gcs = Tail(wk.gcs), wk'.users = wk.users
    PROVE  QueuedOnce' /\ SplicedLists'
<1>1. wk.gcs \in Seq(Pbid)
  BY DEF TypeOK, IoTypeOK, WkRec
<1>2. OnList(wk.gcs, p) /\ \A x : OnList(wk.gcs, x) <=> OnList(wk'.gcs, x) \/ x = p
  BY <1>1, TailList
<1>3. Distinct(wk'.gcs) /\ ~OnList(wk'.gcs, p)
  BY <1>1, TailList DEF QueuedOnce
<1>4. ~OnList(gc_writes, p)
  BY <1>2 DEF QueuedOnce
<1>5. SplicedLists'
  BY DEF SplicedLists
<1> QED BY <1>2, <1>3, <1>4, <1>5 DEF QueuedOnce, UsersQueued, GcsFrame

-----------------------------------------------------------------------------
(* One lemma per step of a user write.                                     *)

\* The end of a submission touches no list.
LEMMA SubmittedLists ==
    ASSUME TypeOK, NEW x, Submitted(x)
    PROVE  wk'.pc = wk.pc /\ wk'.users = wk.users /\ wk'.gcs = wk.gcs
<1>1. wk \in WkRec
  BY DEF TypeOK, IoTypeOK
<1> QED BY <1>1 DEF Submitted, WkRec

\* lbz_submit_write: the new task owns its block or waits for the owner.
LEMMA SubmitWriteInv ==
    ASSUME TypeOK, TypeOK', TaskInv, NEW t \in UTasks, SubmitWrite(t)
    PROVE  TaskInv'
<1>1. PICK b \in Blks, v \in Values : lbz_submit_write(t, b, v)
  BY DEF SubmitWrite
<1> DEFINE task == [NoTask EXCEPT !.blkid = b, !.data = v, !.refcount = 1]
<1>2. task \in WtRec /\ task.status = "INIT" /\ task.blkid = b /\ task.pending_gc_node = NULL
  <2> DEFINE n1 == [NoTask EXCEPT !.blkid = b]
             n2 == [n1 EXCEPT !.data = v]
  <2>1. n1 \in WtRec
    BY NoTaskType DEF WtRec
  <2>2. n2 \in WtRec
    <3> HIDE DEF n1
    <3> QED BY <2>1 DEF WtRec
  <2>3. [n2 EXCEPT !.refcount = 1] \in WtRec
    <3> HIDE DEF n2
    <3> QED BY <2>2 DEF WtRec
  <2> QED BY <2>3 DEF NoTask
<1> HIDE DEF task
<1>3. InsertUser(t, task) /\ wt[t].pc = "none" /\ UNCHANGED <<gt, pbids>> /\ ListFrame
  BY <1>1 DEF lbz_submit_write, lowVars, ListFrame, task
<1>4. ~WtInTree(t)
  BY <1>3 DEF WtInTree
<1>5. /\ wt'[t].pc \in {"alloc", "conflict"}
      /\ \A u \in UTasks : u # t => wt'[u].pc = wt[u].pc
      /\ WtFacts' /\ GtFacts' /\ PendingAgency' /\ TaskTreeExact' /\ GcSourceMapped'
  BY <1>2, <1>3, <1>4, UserInserts
<1>6. UsersQueued /\ GcsQueued
  BY <1>3, <1>5 DEF UsersQueued, GcsQueued
<1>7. QueuedOnce' /\ SplicedLists'
  BY <1>3, <1>6, ListsKept DEF TaskInv
<1> QED BY <1>5, <1>7 DEF TaskInv

\* A put changes the reference count and, when it is the last one, the GC task
\* that waits.
LEMMA TaskPutFields ==
    ASSUME NEW u, NEW n \in Int, NEW task \in WtRec
    PROVE  /\ SameTask(task_put(u, n, task), task)
           /\ task_put(u, n, task).pending_gc_node =
                  IF LastPut(u, n) THEN NULL ELSE task.pending_gc_node
<1>1. CASE LastPut(u, n)
  BY <1>1 DEF task_put, WtRec, SameTask
<1>2. CASE ~LastPut(u, n)
  BY <1>2 DEF task_put, WtRec, SameTask
<1> QED BY <1>1, <1>2

\* WConflict: the owner loses a reference, which may finish a GC task that was
\* waiting for it; t is queued.
LEMMA WConflictInv ==
    ASSUME TypeOK, TypeOK', TaskInv, NEW t \in UTasks, WConflict(t)
    PROVE  TaskInv'
<1> USE DEF TaskInv
<1> DEFINE u == wt[t].tk
           ps == IF u \in UTasks THEN Pending(u, 1) ELSE {}
<1>1. wt \in [UTasks -> WtRec] /\ wt' \in [UTasks -> WtRec]
  BY DEF TypeOK, IoTypeOK
<1>2. /\ wt[t].pc = "conflict" /\ gt' = CallbackTask(gt, ps)
      /\ user_pending' = Append(user_pending, t) /\ Submitted(t)
      /\ UNCHANGED <<pbids, tree, gc_writes>>
  BY DEF WConflict
<1> DEFINE w == IF u \in UTasks THEN [wt EXCEPT ![u] = task_put(u, 1, @)] ELSE wt
<1>3. /\ w \in [UTasks -> WtRec]
      /\ \A x \in UTasks : SameTask(w[x], wt[x])
      /\ \A x \in UTasks : w[x].pending_gc_node =
             IF x = u /\ LastPut(u, 1) THEN NULL ELSE wt[x].pending_gc_node
  <2>1. CASE u \in UTasks
    <3>1. w = [wt EXCEPT ![u] = task_put(u, 1, wt[u])]
      BY <2>1
    <3>2. /\ task_put(u, 1, wt[u]) \in WtRec
          /\ SameTask(task_put(u, 1, wt[u]), wt[u])
          /\ task_put(u, 1, wt[u]).pending_gc_node =
                 IF LastPut(u, 1) THEN NULL ELSE wt[u].pending_gc_node
      BY <2>1, <1>1, TaskPutType, TaskPutFields
    <3> HIDE DEF w, u
    <3> QED BY <2>1, <3>1, <3>2, <1>1 DEF SameTask
  <2>2. CASE u \notin UTasks
    BY <2>2, <1>1 DEF SameTask
  <2> QED BY <2>1, <2>2
<1>4. wt' = [w EXCEPT ![t].pc = "queued", ![t].tk = NULL]
  BY DEF WConflict
<1>5. /\ wt'[t].pc = "queued" /\ wt'[t].status = "INIT" /\ wt'[t].blkid = wt[t].blkid
      /\ \A x \in UTasks : x # t => SameTask(wt'[x], wt[x])
      /\ \A x \in UTasks : wt'[x].pending_gc_node = w[x].pending_gc_node
  <2> HIDE DEF w, u
  <2> QED BY <1>2, <1>3, <1>4 DEF WtFacts, WtRec, SameTask
<1>6. \A x \in UTasks : \/ wt'[x].pending_gc_node = NULL
                        \/ /\ wt'[x].pending_gc_node = wt[x].pending_gc_node
                           /\ wt[x].pending_gc_node \notin ps
  <2> HIDE DEF w
  <2> QED BY <1>3, <1>5 DEF Pending, PendingAgency
<1>7. \A q \in Pbid : q \notin ps => gt'[q] = gt[q]
  BY <1>2 DEF CallbackTask
<1>8. \A q \in Pbid : q \in ps => gt[q].pc = "agency" /\ gt'[q].pc = "none"
  BY <1>2 DEF CallbackTask, Pending, PendingAgency, NoGcTask
<1>9. \A q \in Pbid : gt'[q].pc # "none" => gt'[q] = gt[q]
  BY <1>7, <1>8
<1> HIDE DEF u, ps, w
<1>10. WtFacts'
  BY <1>5, <1>2 DEF WtFacts, SameTask
<1>11. GtFacts' /\ GcSourceMapped'
  BY <1>9, <1>2 DEF GtFacts, GcSourceMapped, GtCopying
<1>12. PendingAgency'
  <2>1. \A x \in UTasks : wt[x].pending_gc_node \in Pbid \cup {NULL}
    BY DEF TypeOK, IoTypeOK, WtRec
  <2>2. \A x \in UTasks : wt'[x].pending_gc_node # NULL =>
            /\ wt'[x].pending_gc_node = wt[x].pending_gc_node
            /\ gt'[wt'[x].pending_gc_node].pc = "agency"
    BY <2>1, <1>6, <1>7 DEF PendingAgency
  <2> QED BY <2>2 DEF PendingAgency
<1>13. QueuedOnce' /\ SplicedLists'
  <2>1. UsersFrame(t) /\ GcsQueued
    BY <1>5, <1>7, <1>8 DEF UsersFrame, GcsQueued, SameTask
  <2> QED BY <2>1, <1>2, <1>5, SubmittedLists, UserQueued
<1>14. TaskTreeExact'
  <2>1. \A x \in UTasks : WtInTree(x)' <=> WtInTree(x)
    BY <1>2, <1>5 DEF WtInTree, SameTask
  <2>2. \A x \in UTasks : wt'[x].blkid = wt[x].blkid
    BY <1>5 DEF SameTask
  <2>3. \A q \in Pbid : GtInTree(q)' <=> GtInTree(q)
    BY <1>7, <1>8 DEF GtInTree
  <2>4. \A q \in Pbid : GtInTree(q) => gt'[q].blkid = gt[q].blkid
    BY <1>7, <1>8 DEF GtInTree
  <2> QED BY <1>2, <2>1, <2>2, <2>3, <2>4 DEF TaskTreeExact, WtInTree, GtInTree
<1> QED BY <1>10, <1>11, <1>12, <1>13, <1>14

\* A write that was given a block waits for the device.
LEMMA WGotZoneInv ==
    ASSUME TypeOK, TypeOK', TaskInv, NEW t \in UTasks, NEW s \in Streams,
           wt[t].pc \in {"alloc", "alloc2"}, WGotZone(t, s)
    PROVE  TaskInv'
<1>1. wt \in [UTasks -> WtRec]
  BY DEF TypeOK, IoTypeOK
<1>2. /\ wt'[t].pc = "append" /\ wt'[t].blkid = wt[t].blkid /\ wt'[t].status = wt[t].status
      /\ wt'[t].pending_gc_node = wt[t].pending_gc_node
      /\ UserFrame(t)
  BY <1>1 DEF WGotZone, WtRec, UserFrame
<1>3. ListFrame /\ UNCHANGED <<gt, tree, pbids>>
  BY SubmittedLists DEF WGotZone, ListFrame
<1> QED BY <1>2, <1>3, UserMoves DEF InTreePc

\* The first choice of stream.
LEMMA WAllocInv ==
    ASSUME TypeOK, TypeOK', TaskInv, NEW t \in UTasks, WAlloc(t)
    PROVE  TaskInv'
<1>1. wt \in [UTasks -> WtRec] /\ wt[t].pc = "alloc"
  BY DEF TypeOK, IoTypeOK, WAlloc
<1>2. wt[t].blkid \in Blks
  BY <1>1 DEF TaskInv, WtFacts
<1>3. StreamId[wt[t].blkid] \in Streams
  BY <1>2, IoAssumption
<1>4. CASE WGotZone(t, StreamId[wt[t].blkid])
  BY <1>1, <1>3, <1>4, WGotZoneInv
<1>5. CASE wt' = [wt EXCEPT ![t].pc = "alloc2"]
           /\ UNCHANGED <<lowVars, gt, tree, user_pending, gc_writes, wk, rd, inflight>>
  <2>1. /\ wt'[t].pc = "alloc2" /\ wt'[t].blkid = wt[t].blkid /\ wt'[t].status = wt[t].status
        /\ wt'[t].pending_gc_node = wt[t].pending_gc_node
        /\ UserFrame(t)
    BY <1>1, <1>5 DEF WtRec, UserFrame
  <2>2. ListFrame /\ UNCHANGED <<gt, tree, pbids>>
    BY <1>5 DEF ListFrame, lowVars
  <2> QED BY <1>1, <2>1, <2>2, UserMoves DEF InTreePc
<1> QED BY <1>4, <1>5 DEF WAlloc

\* No block for now: t is queued and stays in the tree.
LEMMA WAllocEagainInv ==
    ASSUME TypeOK, TypeOK', TaskInv, NEW t \in UTasks, wt[t].pc = "alloc2",
           WAllocEagain(t), Submitted(t), UNCHANGED <<pbids, gc_writes>>
    PROVE  TaskInv'
<1> USE DEF TaskInv
<1>1. wt \in [UTasks -> WtRec]
  BY DEF TypeOK, IoTypeOK
<1>2. /\ wt'[t].pc = "queued" /\ wt'[t].blkid = wt[t].blkid /\ wt'[t].status = "ALLOC_RES"
      /\ wt'[t].pending_gc_node = wt[t].pending_gc_node
      /\ UserFrame(t) /\ UNCHANGED <<gt, tree>> /\ user_pending' = Append(user_pending, t)
  BY <1>1 DEF WAllocEagain, WtRec, UserFrame, WtFacts
<1>3. WtFacts' /\ GtFacts' /\ GcSourceMapped' /\ PendingAgency'
  BY <1>2 DEF WtFacts, GtFacts, GcSourceMapped, GtCopying, PendingAgency, UserFrame
<1>4. QueuedOnce' /\ SplicedLists'
  <2>1. UsersFrame(t) /\ GcsQueued
    BY <1>2 DEF UsersFrame, GcsQueued, UserFrame
  <2> QED BY <2>1, <1>2, SubmittedLists, UserQueued
<1>5. TaskTreeExact'
  BY <1>2 DEF TaskTreeExact, WtInTree, GtInTree, UserFrame
<1> QED BY <1>3, <1>4, <1>5

\* The device is faulty: t leaves the tree and is gone.
LEMMA WAllocEioInv ==
    ASSUME TypeOK, TypeOK', TaskInv, NEW t \in UTasks, wt[t].pc = "alloc2",
           WAllocEio(t), Submitted(t), UNCHANGED <<pbids, gc_writes>>
    PROVE  TaskInv'
<1>1. wt \in [UTasks -> WtRec]
  BY DEF TypeOK, IoTypeOK
<1> DEFINE n1 == [NoTask EXCEPT !.refcount = wt[t].refcount]
           n  == [n1 EXCEPT !.pending_gc_node = wt[t].pending_gc_node]
<1>2. n \in WtRec /\ n.pc = "none" /\ n.pending_gc_node = wt[t].pending_gc_node
  <2>1. n1 \in WtRec /\ n1.pc = "none"
    BY <1>1, NoTaskType DEF WtRec, NoTask
  <2> HIDE DEF n1
  <2> QED BY <1>1, <2>1 DEF WtRec
<1>3. wt' = [wt EXCEPT ![t] = task_put(t, 2, n)] /\ UserFrame(t)
  BY <1>1 DEF WAllocEio, UserFrame
<1> HIDE DEF n
<1>4. /\ wt'[t].pc = "none"
      /\ wt'[t].pending_gc_node = IF LastPut(t, 2) THEN NULL ELSE wt[t].pending_gc_node
  BY <1>1, <1>2, <1>3, TaskPutFields DEF SameTask
<1>5. /\ tree' = [tree EXCEPT ![wt[t].blkid] = NULL]
      /\ gt' = CallbackTask(gt, Pending(t, 2)) /\ ListFrame
  BY SubmittedLists DEF WAllocEio, del_task_from_tree, ListFrame
<1>6. WtInTree(t)
  BY DEF WtInTree
<1>7. \/ Pending(t, 2) = {} /\ wt'[t].pending_gc_node = wt[t].pending_gc_node
      \/ Pending(t, 2) = {wt[t].pending_gc_node} /\ wt[t].pending_gc_node # NULL
         /\ wt'[t].pending_gc_node = NULL
  BY <1>4 DEF Pending
<1> QED BY <1>3, <1>4, <1>5, <1>6, <1>7, UserLeaves

\* The other stream.
LEMMA WAlloc2Inv ==
    ASSUME TypeOK, TypeOK', TaskInv, NEW t \in UTasks, WAlloc2(t)
    PROVE  TaskInv'
<1>1. wt[t].pc = "alloc2"
  BY DEF WAlloc2
<1>2. wt[t].blkid \in Blks
  BY <1>1 DEF TaskInv, WtFacts
<1>3. OtherStream(StreamId[wt[t].blkid]) \in Streams
  BY <1>2, IoAssumption DEF OtherStream, Streams, LBZ_ZONE_MAX_STREAM
<1>4. CASE WGotZone(t, OtherStream(StreamId[wt[t].blkid]))
  BY <1>1, <1>3, <1>4, WGotZoneInv
<1>5. CASE /\ WAllocEagain(t) \/ WAllocEio(t)
           /\ Submitted(t) /\ UNCHANGED <<pbids, gc_writes>>
  BY <1>1, <1>5, WAllocEagainInv, WAllocEioInv
<1> QED BY <1>4, <1>5 DEF WAlloc2

\* The device and the steps of lbz_write_io_endio that leave the forward map
\* and the tree alone.
LEMMA WStepInv ==
    ASSUME TypeOK, TypeOK', TaskInv, NEW t \in UTasks,
           \/ WAppend(t) \/ WAppendFails(t) \/ WOldRmap(t) \/ WOldWeight(t) \/ WNewRmap(t)
           \/ WComplete(t)
    PROVE  TaskInv'
<1>1. wt \in [UTasks -> WtRec]
  BY DEF TypeOK, IoTypeOK
<1>2. UNCHANGED <<gt, tree, pbids>> /\ ListFrame
  BY DEF WAppend, WAppendFails, WOldRmap, WOldWeight, WNewRmap, WComplete, ListFrame
<1>3. CASE WAppend(t)
  <2>1. PICK p \in Pbid : wt' = [wt EXCEPT ![t].pbid = p, ![t].pc = "endio"]
    BY <1>3 DEF WAppend
  <2>2. wt[t].pc = "append"
    BY <1>3 DEF WAppend
  <2>3. /\ wt'[t].pc = "endio" /\ wt'[t].pbid = p /\ wt'[t].blkid = wt[t].blkid
        /\ wt'[t].status = wt[t].status /\ wt'[t].pending_gc_node = wt[t].pending_gc_node
        /\ UserFrame(t)
    BY <1>1, <2>1 DEF WtRec, UserFrame
  <2> QED BY <1>2, <2>2, <2>3, UserMoves DEF InTreePc
<1>4. CASE WAppendFails(t)
  <2>1. wt[t].pc = "append" /\ wt' = [wt EXCEPT ![t].error = TRUE, ![t].pc = "endio"]
    BY <1>4 DEF WAppendFails
  <2>2. /\ wt'[t].pc = "endio" /\ wt'[t].error /\ wt'[t].blkid = wt[t].blkid
        /\ wt'[t].status = wt[t].status /\ wt'[t].pending_gc_node = wt[t].pending_gc_node
        /\ UserFrame(t)
    BY <1>1, <2>1 DEF WtRec, UserFrame
  <2> QED BY <1>2, <2>1, <2>2, UserMoves DEF InTreePc
<1>5. ASSUME NEW from \in WtPc, NEW to \in WtPc, wt[t].pc = from, wt' = [wt EXCEPT ![t].pc = to],
             \/ from \in {"oldrmap", "oldweight", "newrmap"} /\ to \in {"oldweight", "newrmap", "del"}
             \/ from = "complete" /\ to = "put"
      PROVE  TaskInv'
  <2>1. /\ wt'[t].pc = to /\ wt'[t].blkid = wt[t].blkid
        /\ wt'[t].status = wt[t].status /\ wt'[t].pending_gc_node = wt[t].pending_gc_node
        /\ UserFrame(t)
    BY <1>1, <1>5 DEF WtRec, UserFrame
  <2> QED BY <1>2, <1>5, <2>1, UserMoves DEF InTreePc
<1>6. CASE WOldRmap(t)
  BY <1>5, <1>6 DEF WOldRmap, WtPc
<1>7. CASE WOldWeight(t)
  BY <1>5, <1>7 DEF WOldWeight, WtPc
<1>8. CASE WNewRmap(t)
  BY <1>5, <1>8 DEF WNewRmap, WtPc
<1>9. CASE WComplete(t)
  BY <1>5, <1>9 DEF WComplete, WtPc
<1> QED BY <1>3, <1>4, <1>6, <1>7, <1>8, <1>9

\* lbz_mapping_add moves the block of a user write: t owns the block, so no GC
\* task is copying it.
LEMMA WEndioInv ==
    ASSUME TypeOK, TypeOK', TaskInv, NEW t \in UTasks, WEndio(t)
    PROVE  TaskInv'
<1> USE DEF TaskInv
<1> DEFINE b == wt[t].blkid
<1>1. wt \in [UTasks -> WtRec] /\ pbids \in [Blks -> Pbid \cup {INVALID}]
  BY DEF TypeOK, IoTypeOK, MappingTypeOK
<1>2. wt[t].pc = "endio" /\ ListFrame /\ UNCHANGED <<gt, tree>>
  BY DEF WEndio, ListFrame
<1>3. /\ wt'[t].pc \in {"newrmap", "oldrmap", "del"} /\ wt'[t].blkid = b
      /\ wt'[t].status = wt[t].status /\ wt'[t].pending_gc_node = wt[t].pending_gc_node
      /\ UserFrame(t)
  BY <1>1 DEF WEndio, WtRec, UserFrame
<1>4. \A x \in Blks : x # b => pbids'[x] = pbids[x]
  BY <1>1 DEF WEndio, lbz_mapping_add
<1>5. \A q \in Pbid : GtCopying(q) => gt[q].blkid # b /\ gt[q].blkid \in Blks
  <2>1. tree[b] = t
    BY <1>2 DEF TaskTreeExact, WtInTree
  <2>2. t \notin Pbid
    BY IoAssumption
  <2> QED BY <2>1, <2>2 DEF TaskTreeExact, GtInTree, GtCopying, GtFacts
<1>6. WtFacts'
  BY <1>2, <1>3 DEF WtFacts, UserFrame
<1>7. GtFacts' /\ GcSourceMapped'
  BY <1>2, <1>4, <1>5 DEF GtFacts, GcSourceMapped, GtCopying
<1>8. QueuedOnce' /\ SplicedLists'
  <2>1. UsersQueued /\ GcsQueued
    BY <1>2, <1>3 DEF UsersQueued, GcsQueued, UserFrame
  <2> QED BY <2>1, <1>2, ListsKept
<1>9. PendingAgency'
  BY <1>2, <1>3 DEF PendingAgency, UserFrame
<1>10. TaskTreeExact'
  BY <1>2, <1>3 DEF TaskTreeExact, WtInTree, GtInTree, UserFrame
<1> QED BY <1>6, <1>7, <1>8, <1>9, <1>10

\* del_task_from_tree and both puts at the end of lbz_write_io_endio.
LEMMA WDelInv ==
    ASSUME TypeOK, TypeOK', TaskInv, NEW t \in UTasks, WDel(t)
    PROVE  TaskInv'
<1>1. wt \in [UTasks -> WtRec] /\ wt[t].pc = "del"
  BY DEF TypeOK, IoTypeOK, WDel
<1> DEFINE n == [wt[t] EXCEPT !.pc = "complete"]
<1>2. /\ n \in WtRec /\ n.pc = "complete" /\ n.blkid = wt[t].blkid
      /\ n.pending_gc_node = wt[t].pending_gc_node
  BY <1>1 DEF WtRec, WtPc
<1>3. wt' = [wt EXCEPT ![t] = task_put(t, 2, n)] /\ UserFrame(t)
  BY <1>1 DEF WDel, UserFrame
<1> HIDE DEF n
<1>4. /\ wt'[t].pc = "complete" /\ wt'[t].blkid = wt[t].blkid
      /\ wt'[t].pending_gc_node = IF LastPut(t, 2) THEN NULL ELSE wt[t].pending_gc_node
  BY <1>1, <1>2, <1>3, TaskPutFields DEF SameTask
<1>5. /\ tree' = [tree EXCEPT ![wt[t].blkid] = NULL] /\ UNCHANGED pbids
      /\ gt' = CallbackTask(gt, Pending(t, 2)) /\ ListFrame
  BY DEF WDel, del_task_from_tree, ListFrame
<1>6. WtInTree(t)
  BY <1>1 DEF WtInTree
<1>7. \/ Pending(t, 2) = {} /\ wt'[t].pending_gc_node = wt[t].pending_gc_node
      \/ Pending(t, 2) = {wt[t].pending_gc_node} /\ wt[t].pending_gc_node # NULL
         /\ wt'[t].pending_gc_node = NULL
  BY <1>4 DEF Pending
<1> QED BY <1>1, <1>3, <1>4, <1>5, <1>6, <1>7, UserLeaves

\* The end of lbz_write_io_endio.
LEMMA WPutInv ==
    ASSUME TypeOK, TypeOK', TaskInv, NEW t \in UTasks, WPut(t)
    PROVE  TaskInv'
<1> USE DEF TaskInv
<1>1. wt \in [UTasks -> WtRec] /\ wt[t].pc = "put"
  BY DEF TypeOK, IoTypeOK, WPut
<1>2. /\ wt'[t].pc = "none" /\ wt'[t].pending_gc_node = wt[t].pending_gc_node /\ UserFrame(t)
      /\ ListFrame /\ UNCHANGED <<gt, tree, pbids>>
  BY <1>1 DEF WPut, WtRec, UserFrame, ListFrame, NoTask
<1>3. WtFacts' /\ GtFacts' /\ GcSourceMapped' /\ PendingAgency'
  BY <1>2 DEF WtFacts, GtFacts, GcSourceMapped, GtCopying, PendingAgency, UserFrame
<1>4. QueuedOnce' /\ SplicedLists'
  <2>1. UsersQueued /\ GcsQueued
    BY <1>1, <1>2 DEF UsersQueued, GcsQueued, UserFrame
  <2> QED BY <2>1, <1>2, ListsKept
<1>5. TaskTreeExact'
  BY <1>1, <1>2 DEF TaskTreeExact, WtInTree, GtInTree, UserFrame
<1> QED BY <1>3, <1>4, <1>5

\* Every step of a user write.
LEMMA WriteStepInv ==
    ASSUME TypeOK, TypeOK', TaskInv, NEW t \in UTasks, WriteStep(t)
    PROVE  TaskInv'
  BY WConflictInv, WAllocInv, WAlloc2Inv, WStepInv, WEndioInv, WDelInv, WPutInv DEF WriteStep

-----------------------------------------------------------------------------
(* One lemma per step of a GC copy.                                        *)

\* A GC task leaves the tree and is finished, or only has to report its error.
LEMMA GcLeaves ==
    ASSUME TypeOK, TypeOK', TaskInv, NEW p \in Pbid, GcFrame(p), ListFrame,
           UNCHANGED <<wt, pbids>>, GtInTree(p), gt'[p].pc \in {"none", "fault"},
           tree' = [tree EXCEPT ![gt[p].blkid] = NULL]
    PROVE  TaskInv'
<1> USE DEF TaskInv
<1> DEFINE b == gt[p].blkid
<1>1. b \in Blks /\ tree[b] = p
  BY DEF GtFacts, TaskTreeExact, GtInTree
<1>2. WtFacts' /\ GtFacts' /\ GcSourceMapped'
  BY DEF WtFacts, GtFacts, GcSourceMapped, GtCopying, GcFrame
<1>3. QueuedOnce' /\ SplicedLists'
  <2>1. UsersQueued /\ GcsQueued
    BY DEF UsersQueued, GcsQueued, GcFrame, GtInTree
  <2> QED BY <2>1, ListsKept
<1>4. PendingAgency'
  <2>1. \A t \in UTasks : wt[t].pending_gc_node # NULL => wt[t].pending_gc_node \in Pbid
    BY DEF TypeOK, IoTypeOK, WtRec
  <2> QED BY <2>1 DEF PendingAgency, GcFrame, GtInTree
<1>5. TaskTreeExact'
  <2>1. \A x \in Blks : tree'[x] = IF x = b THEN NULL ELSE tree[x]
    BY DEF TypeOK, IoTypeOK
  <2>2. NULL \notin UTasks /\ NULL \notin Pbid /\ UTasks \cap Pbid = {}
    BY DevAssumption, IoAssumption
  <2>3. \A u \in UTasks : WtInTree(u)' <=> WtInTree(u)
    BY DEF WtInTree
  <2>4. \A u \in UTasks : WtInTree(u) => wt[u].blkid \in Blks
    BY DEF WtInTree, WtFacts
  <2>5. \A q \in Pbid : GtInTree(q)' <=> GtInTree(q) /\ q # p
    BY DEF GtInTree, GcFrame
  <2>6. \A q \in Pbid : GtInTree(q) => gt[q].blkid \in Blks
    BY DEF GtInTree, GtFacts
  <2>7. \A u \in UTasks : WtInTree(u)' => tree'[wt'[u].blkid] = u
    BY <2>1, <2>2, <2>3, <2>4, <1>1 DEF TaskTreeExact
  <2>8. \A q \in Pbid : GtInTree(q)' => tree'[gt'[q].blkid] = q
    BY <2>1, <2>5, <2>6, <1>1 DEF TaskTreeExact, GcFrame
  <2>9. \A x \in Blks : \A u \in UTasks : tree'[x] = u => WtInTree(u)' /\ wt'[u].blkid = x
    BY <2>1, <2>2, <2>3 DEF TaskTreeExact
  <2>10. \A x \in Blks : \A q \in Pbid : tree'[x] = q => GtInTree(q)' /\ gt'[q].blkid = x
    BY <2>1, <2>2, <2>5, <1>1 DEF TaskTreeExact, GcFrame
  <2> QED BY <2>7, <2>8, <2>9, <2>10 DEF TaskTreeExact, WtInTree, GtInTree
<1> QED BY <1>2, <1>3, <1>4, <1>5

\* A finished read queues the task for the retry worker.
LEMMA GReadInv ==
    ASSUME TypeOK, TypeOK', TaskInv, NEW p \in Pbid, GRead(p)
    PROVE  TaskInv'
<1> USE DEF TaskInv
<1>1. gt \in [Pbid -> GtRec] /\ gt[p].pc = "reading"
  BY DEF TypeOK, IoTypeOK, GRead
<1>2. /\ gt'[p].pc = "queued" /\ gt'[p].blkid = gt[p].blkid /\ GcFrame(p)
      /\ UNCHANGED <<wt, tree, pbids, user_pending, wk>> /\ gc_writes' = Append(gc_writes, p)
  BY <1>1 DEF GRead, GtRec, GcFrame, lowVars
<1>3. WtFacts' /\ GtFacts' /\ GcSourceMapped'
  BY <1>1, <1>2 DEF WtFacts, GtFacts, GcSourceMapped, GtCopying, GcFrame
<1>4. PendingAgency'
  <2>1. \A x \in UTasks : wt[x].pending_gc_node \in Pbid \cup {NULL}
    BY DEF TypeOK, IoTypeOK, WtRec
  <2> QED BY <1>1, <1>2, <2>1 DEF PendingAgency, GcFrame
<1>5. QueuedOnce' /\ SplicedLists'
  <2>1. GcsFrame(p) /\ UsersQueued
    BY <1>2 DEF GcsFrame, UsersQueued, GcFrame
  <2> QED BY <2>1, <1>1, <1>2, GcQueued
<1>6. TaskTreeExact'
  BY <1>1, <1>2 DEF TaskTreeExact, WtInTree, GtInTree, GcFrame
<1> QED BY <1>3, <1>4, <1>5, <1>6

\* The steps of a copy that leave the forward map, the tree and the lists alone.
LEMMA GStepInv ==
    ASSUME TypeOK, TypeOK', TaskInv, NEW p \in Pbid,
           \/ GReadFails(p) \/ GFault(p) \/ GAppend(p) \/ GAppendFails(p) \/ GEndio(p)
           \/ GCbRmap(p) \/ GCbOld(p)
    PROVE  TaskInv'
<1>1. gt \in [Pbid -> GtRec]
  BY DEF TypeOK, IoTypeOK
<1>2. UNCHANGED <<wt, tree, pbids>> /\ ListFrame
  BY DEF GReadFails, GFault, GAppend, GAppendFails, GEndio, GCbRmap, GCbOld, ListFrame
<1>3. CASE GReadFails(p)
  <2>1. gt[p].pc = "reading" /\ gt'[p].pc = "fault" /\ GcFrame(p)
    BY <1>1, <1>3 DEF GReadFails, GtRec, GcFrame
  <2> QED BY <1>2, <2>1, GcMoves DEF GcInTreePc, GcCopyPc
<1>4. CASE GFault(p)
  <2>1. gt[p].pc = "fault" /\ gt'[p].pc = "none" /\ GcFrame(p)
    BY <1>1, <1>4 DEF GFault, GtRec, GcFrame, NoGcTask
  <2> QED BY <1>2, <2>1, GcMoves DEF GcInTreePc, GcCopyPc
<1>5. CASE GAppend(p)
  <2>1. PICK q \in Pbid : gt' = [gt EXCEPT ![p].pbid = q, ![p].pc = "endio"]
    BY <1>5 DEF GAppend
  <2>2. /\ gt[p].pc = "append" /\ gt'[p].pc = "endio" /\ gt'[p].pbid = q
        /\ gt'[p].blkid = gt[p].blkid /\ GcFrame(p)
    <3>1. gt[p].pc = "append"
      BY <1>5 DEF GAppend
    <3> QED BY <3>1, <1>1, <2>1 DEF GtRec, GcFrame
  <2> QED BY <1>2, <2>2, GcMoves DEF GcInTreePc, GcCopyPc
<1>6. CASE GAppendFails(p)
  <2>1. /\ gt[p].pc = "append" /\ gt'[p].pc = "endio" /\ gt'[p].error
        /\ gt'[p].blkid = gt[p].blkid /\ GcFrame(p)
    BY <1>1, <1>6 DEF GAppendFails, GtRec, GcFrame
  <2> QED BY <1>2, <2>1, GcMoves DEF GcInTreePc, GcCopyPc
<1>7. CASE GEndio(p)
  <2>1. /\ gt[p].pc = "endio" /\ gt'[p].pc \in {"cb_put", "cb_rmap"}
        /\ gt'[p].pc = "cb_rmap" => ~gt[p].error
        /\ gt'[p].blkid = gt[p].blkid /\ gt'[p].pbid = gt[p].pbid /\ GcFrame(p)
    BY <1>1, <1>7 DEF GEndio, GtRec, GcFrame
  <2>2. gt'[p].pc = "cb_rmap" => gt'[p].pbid \in Pbid
    BY <2>1 DEF TaskInv, GtFacts
  <2> QED BY <1>2, <2>1, <2>2, GcMoves DEF GcInTreePc, GcCopyPc
<1>8. CASE GCbRmap(p)
  <2>1. /\ gt[p].pc = "cb_rmap" /\ gt'[p].pc = "cb_map"
        /\ gt'[p].blkid = gt[p].blkid /\ gt'[p].pbid = gt[p].pbid /\ GcFrame(p)
    BY <1>1, <1>8 DEF GCbRmap, GtRec, GcFrame
  <2>2. gt'[p].pbid \in Pbid
    BY <2>1 DEF TaskInv, GtFacts
  <2> QED BY <1>2, <2>1, <2>2, GcMoves DEF GcInTreePc, GcCopyPc
<1>9. CASE GCbOld(p)
  <2>1. gt[p].pc = "cb_old" /\ gt'[p].pc = "cb_put" /\ gt'[p].blkid = gt[p].blkid /\ GcFrame(p)
    BY <1>1, <1>9 DEF GCbOld, GtRec, GcFrame
  <2> QED BY <1>2, <2>1, GcMoves DEF GcInTreePc, GcCopyPc
<1> QED BY <1>3, <1>4, <1>5, <1>6, <1>7, <1>8, <1>9

\* A conflict with a user write hands the copy over to it, or ends it at once if
\* the write is gone already.
LEMMA GAgencyInv ==
    ASSUME TypeOK, TypeOK', TaskInv, NEW p \in Pbid, GAgency(p)
    PROVE  TaskInv'
<1> USE DEF TaskInv
<1> DEFINE u == gt[p].tk
           n == [wt[u] EXCEPT !.pending_gc_node = p]
<1>1. wt \in [UTasks -> WtRec] /\ gt \in [Pbid -> GtRec]
  BY DEF TypeOK, IoTypeOK
<1>2. /\ gt[p].pc = "conflict" /\ u \in UTasks /\ UNCHANGED <<tree, pbids>>
      /\ wt' = [wt EXCEPT ![u] = task_put(u, 1, n)]
  BY DEF GAgency
<1>3. ListFrame
  <2>1. Submitted(p) /\ UNCHANGED <<user_pending, gc_writes>>
    BY DEF GAgency
  <2> QED BY <2>1, SubmittedLists DEF ListFrame
<1>4. n \in WtRec /\ SameTask(n, wt[u]) /\ n.pending_gc_node = p
  <2> HIDE DEF u
  <2> QED BY <1>1, <1>2 DEF WtRec, SameTask
<1>5. GcFrame(p) /\ IF LastPut(u, 1) THEN gt'[p] = NoGcTask
                    ELSE gt'[p] = [gt[p] EXCEPT !.pc = "agency", !.tk = NULL]
  BY <1>1 DEF GAgency, GcFrame
<1> HIDE DEF u, n
<1>6. /\ \A x \in UTasks : SameTask(wt'[x], wt[x])
      /\ wt'[u].pending_gc_node = IF LastPut(u, 1) THEN NULL ELSE p
      /\ \A x \in UTasks : x # u => wt'[x] = wt[x]
  BY <1>1, <1>2, <1>4, TaskPutFields DEF SameTask
<1>7. \/ LastPut(u, 1) /\ gt'[p].pc = "none"
      \/ ~LastPut(u, 1) /\ gt'[p].pc = "agency" /\ gt'[p].blkid = gt[p].blkid
  <2>1. gt[p] \in GtRec
    BY <1>1
  <2>2. CASE LastPut(u, 1)
    BY <2>2, <1>5 DEF NoGcTask
  <2>3. CASE ~LastPut(u, 1)
    <3>1. gt'[p] = [gt[p] EXCEPT !.pc = "agency", !.tk = NULL]
      BY <2>3, <1>5
    <3> QED BY <2>1, <2>3, <3>1 DEF GtRec
  <2> QED BY <2>2, <2>3
<1>8. WtFacts'
  BY <1>6 DEF WtFacts, SameTask
<1>9. GtFacts' /\ GcSourceMapped'
  BY <1>2, <1>5, <1>7 DEF GtFacts, GcSourceMapped, GtCopying, GcFrame
<1>10. QueuedOnce' /\ SplicedLists'
  <2>1. UsersQueued /\ GcsQueued
    BY <1>2, <1>5, <1>6, <1>7 DEF UsersQueued, GcsQueued, GcFrame, SameTask
  <2> QED BY <2>1, <1>3, ListsKept
<1>11. PendingAgency'
  <2>1. \A x \in UTasks : wt[x].pending_gc_node \in Pbid \cup {NULL}
    BY DEF TypeOK, IoTypeOK, WtRec
  <2>2. \A x \in UTasks : wt[x].pending_gc_node # p
    BY <1>2, DevAssumption DEF PendingAgency
  <2>3. \A x \in UTasks : x # u /\ wt'[x].pending_gc_node # NULL =>
            gt'[wt'[x].pending_gc_node].pc = "agency"
    BY <2>1, <2>2, <1>5, <1>6 DEF PendingAgency, GcFrame
  <2>4. wt'[u].pending_gc_node # NULL => gt'[wt'[u].pending_gc_node].pc = "agency"
    BY <1>6, <1>7
  <2> QED BY <2>2, <2>3, <2>4, <1>6 DEF PendingAgency
<1>12. TaskTreeExact'
  <2>1. \A x \in UTasks : (WtInTree(x)' <=> WtInTree(x)) /\ wt'[x].blkid = wt[x].blkid
    BY <1>6 DEF WtInTree, SameTask
  <2>2. \A q \in Pbid : GtInTree(q)' <=> GtInTree(q)
    BY <1>2, <1>5, <1>7 DEF GtInTree, GcFrame
  <2>3. \A q \in Pbid : GtInTree(q) => gt'[q].blkid = gt[q].blkid
    BY <1>2, <1>5, <1>7 DEF GtInTree, GcFrame
  <2> QED BY <1>2, <2>1, <2>2, <2>3 DEF TaskTreeExact, WtInTree, GtInTree
<1> QED BY <1>8, <1>9, <1>10, <1>11, <1>12

\* The copy goes on only from the block that is still mapped.
LEMMA GLookupInv ==
    ASSUME TypeOK, TypeOK', TaskInv, NEW p \in Pbid, GLookup(p)
    PROVE  TaskInv'
<1>1. gt \in [Pbid -> GtRec] /\ gt[p].pc = "lookup" /\ UNCHANGED <<wt, pbids>>
  BY DEF TypeOK, IoTypeOK, GLookup
<1>2. CASE /\ pbids[gt[p].blkid] = p /\ gt' = [gt EXCEPT ![p].pc = "alloc"]
           /\ UNCHANGED <<tree, wk, user_pending, gc_writes>>
  <2>1. gt'[p].pc = "alloc" /\ gt'[p].blkid = gt[p].blkid /\ GcFrame(p) /\ ListFrame
    BY <1>1, <1>2 DEF GtRec, GcFrame, ListFrame
  <2> QED BY <1>1, <1>2, <2>1, GcMoves DEF GcInTreePc, GcCopyPc
<1>3. CASE /\ del_task_from_tree(gt[p].blkid) /\ gt' = [gt EXCEPT ![p] = NoGcTask]
           /\ Submitted(p) /\ UNCHANGED <<user_pending, gc_writes>>
  <2>1. gt'[p].pc = "none" /\ GcFrame(p) /\ ListFrame
    BY <1>1, <1>3, SubmittedLists DEF NoGcTask, GcFrame, ListFrame
  <2> QED BY <1>1, <1>3, <2>1, GcLeaves DEF GtInTree, del_task_from_tree
<1> QED BY <1>2, <1>3 DEF GLookup

\* A copy that was given a block waits for the device.
LEMMA GGotZoneInv ==
    ASSUME TypeOK, TypeOK', TaskInv, NEW p \in Pbid, NEW s,
           gt[p].pc \in {"alloc", "alloc2"}, GGotZone(p, s)
    PROVE  TaskInv'
<1>1. gt \in [Pbid -> GtRec]
  BY DEF TypeOK, IoTypeOK
<1>2. gt'[p].pc = "append" /\ gt'[p].blkid = gt[p].blkid /\ GcFrame(p)
  BY <1>1 DEF GGotZone, GtRec, GcFrame
<1>3. ListFrame /\ UNCHANGED <<wt, tree, pbids>>
  BY SubmittedLists DEF GGotZone, ListFrame
<1> QED BY <1>2, <1>3, GcMoves DEF GcInTreePc, GcCopyPc

\* Both choices of stream.
LEMMA GAllocInv ==
    ASSUME TypeOK, TypeOK', TaskInv, NEW p \in Pbid, GAlloc(p) \/ GAlloc2(p)
    PROVE  TaskInv'
<1>1. gt \in [Pbid -> GtRec] /\ gt[p].pc \in {"alloc", "alloc2"}
  BY DEF TypeOK, IoTypeOK, GAlloc, GAlloc2
<1>2. CASE \E s : GGotZone(p, s)
  BY <1>1, <1>2, GGotZoneInv
<1>3. CASE /\ gt' = [gt EXCEPT ![p].pc = "alloc2"]
           /\ UNCHANGED <<wt, tree, pbids, user_pending, gc_writes, wk>>
  <2>1. gt'[p].pc = "alloc2" /\ gt'[p].blkid = gt[p].blkid /\ GcFrame(p) /\ ListFrame
    BY <1>1, <1>3 DEF GtRec, GcFrame, ListFrame
  <2> QED BY <1>1, <1>3, <2>1, GcMoves DEF GcInTreePc, GcCopyPc
<1>4. CASE UNCHANGED <<pbids, ioVars>>
  BY <1>4, FrameInv DEF ListFrame, ioVars
<1> QED BY <1>2, <1>3, <1>4 DEF GAlloc, GAlloc2, lowVars

\* lbz_mapping_add moves the block of a copy: p owns the block, so no other GC
\* task is copying it.
LEMMA GCbMapInv ==
    ASSUME TypeOK, TypeOK', TaskInv, NEW p \in Pbid, GCbMap(p)
    PROVE  TaskInv' /\ UNCHANGED oops
<1> USE DEF TaskInv
<1> DEFINE b == gt[p].blkid
<1>1. gt \in [Pbid -> GtRec] /\ pbids \in [Blks -> Pbid \cup {INVALID}] /\ gt[p].pc = "cb_map"
  BY DEF TypeOK, IoTypeOK, MappingTypeOK, GCbMap
<1>2. /\ gt'[p].pc \in {"cb_put", "cb_old"} /\ gt'[p].blkid = b /\ GcFrame(p) /\ ListFrame
      /\ UNCHANGED <<wt, tree>> /\ \A x \in Blks : x # b => pbids'[x] = pbids[x]
  BY <1>1 DEF GCbMap, lbz_mapping_add, GtRec, GcFrame, ListFrame
<1>3. UNCHANGED oops
  BY <1>1 DEF GCbMap, GcSourceMapped, GtCopying
<1>4. \A q \in Pbid : q # p /\ GtCopying(q) => gt[q].blkid # b /\ gt[q].blkid \in Blks
  BY <1>1 DEF TaskTreeExact, GtInTree, GtCopying, GtFacts
<1>5. WtFacts' /\ GtFacts'
  BY <1>1, <1>2 DEF WtFacts, GtFacts, GcFrame
<1>6. GcSourceMapped'
  BY <1>2, <1>4 DEF GcSourceMapped, GtCopying, GcFrame
<1>7. QueuedOnce' /\ SplicedLists'
  <2>1. UsersQueued /\ GcsQueued
    BY <1>1, <1>2 DEF UsersQueued, GcsQueued, GcFrame
  <2> QED BY <2>1, <1>2, ListsKept
<1>8. PendingAgency'
  <2>1. \A x \in UTasks : wt[x].pending_gc_node \in Pbid \cup {NULL}
    BY DEF TypeOK, IoTypeOK, WtRec
  <2> QED BY <1>1, <1>2, <2>1 DEF PendingAgency, GcFrame
<1>9. TaskTreeExact'
  BY <1>1, <1>2 DEF TaskTreeExact, WtInTree, GtInTree, GcFrame
<1> QED BY <1>3, <1>5, <1>6, <1>7, <1>8, <1>9

\* The end of __gc_task_callback.
LEMMA GCbPutInv ==
    ASSUME TypeOK, TypeOK', TaskInv, NEW p \in Pbid, GCbPut(p)
    PROVE  TaskInv'
<1>1. gt \in [Pbid -> GtRec] /\ gt[p].pc = "cb_put"
  BY DEF TypeOK, IoTypeOK, GCbPut
<1>2. /\ tree' = [tree EXCEPT ![gt[p].blkid] = NULL] /\ UNCHANGED <<wt, pbids>> /\ ListFrame
      /\ gt' = [gt EXCEPT ![p] = [NoGcTask EXCEPT !.pc = IF gt[p].error THEN "fault" ELSE "none"]]
  BY DEF GCbPut, del_task_from_tree, ListFrame
<1>3. gt'[p].pc \in {"none", "fault"} /\ GcFrame(p)
  BY <1>1, <1>2 DEF NoGcTask, GcFrame
<1> QED BY <1>1, <1>2, <1>3, GcLeaves DEF GtInTree

\* Every step of a GC copy.
LEMMA GcCopyInv ==
    ASSUME TypeOK, TypeOK', TaskInv, NEW p \in Pbid, GcCopy(p)
    PROVE  TaskInv'
  BY GReadInv, GStepInv, GAgencyInv, GLookupInv, GAllocInv, GCbMapInv, GCbPutInv DEF GcCopy

-----------------------------------------------------------------------------
(* The retry worker and the GC thread.                                     *)

\* insert_task_to_tree for a GC task taken off the list.
LEMMA WkGcInv ==
    ASSUME TypeOK, TypeOK', TaskInv, WkGc
    PROVE  TaskInv'
<1> USE DEF TaskInv
<1>1. /\ wt \in [UTasks -> WtRec] /\ gt \in [Pbid -> GtRec] /\ tree \in [Blks -> Owner]
      /\ wk \in WkRec /\ wk.gcs \in Seq(Pbid)
  BY DEF TypeOK, IoTypeOK, WkRec
<1>2. /\ wk.pc = "gc" /\ wk.gcs # <<>> /\ GInsert(Head(wk.gcs))
      /\ UNCHANGED <<pbids, user_pending, gc_writes>>
      /\ wk' = [wk EXCEPT !.gcs = Tail(@), !.cur = Head(wk.gcs)]
  BY DEF WkGc
<1>3. wk'.pc = wk.pc /\ wk'.gcs = Tail(wk.gcs) /\ wk'.users = wk.users
  BY <1>1, <1>2 DEF WkRec
<1>4. PICK p \in Pbid : p = Head(wk.gcs) /\ OnList(wk.gcs, p)
  BY <1>1, <1>2, TailList
<1> DEFINE b == gt[p].blkid
           own == tree[b]
<1>5. gt[p].pc = "queued"
  BY <1>4 DEF QueuedOnce
<1>6. b \in Blks /\ own \in Owner /\ ~GtInTree(p)
  BY <1>1, <1>4, <1>5 DEF GtFacts, GtInTree
<1>7. NULL \notin UTasks /\ NULL \notin Pbid /\ UTasks \cap Pbid = {}
  BY DevAssumption, IoAssumption
<1>8. \A u \in UTasks : SameTask(wt'[u], wt[u]) /\ wt'[u].pending_gc_node = wt[u].pending_gc_node
  <2>1. wt' = wt \/ (own \in UTasks /\ wt' = [wt EXCEPT ![own].refcount = @ + 1])
    BY <1>2, <1>4 DEF GInsert
  <2> HIDE DEF own
  <2> QED BY <1>1, <2>1 DEF WtRec, SameTask
<1>9. /\ GcFrame(p) /\ gt'[p].blkid = b
      /\ \/ own = NULL /\ tree' = [tree EXCEPT ![b] = p] /\ gt'[p].pc = "lookup"
         \/ own # NULL /\ tree' = tree /\ gt'[p].pc = "conflict"
  <2>1. \/ own = NULL /\ tree' = [tree EXCEPT ![b] = p] /\ gt' = [gt EXCEPT ![p].pc = "lookup"]
        \/ /\ own # NULL /\ tree' = tree
           /\ gt' = [gt EXCEPT ![p].pc = "conflict", ![p].tk = own]
    BY <1>2, <1>4 DEF GInsert
  <2> HIDE DEF own
  <2>2. CASE own = NULL
    BY <1>1, <2>1, <2>2 DEF GtRec, GcFrame
  <2>3. CASE own # NULL
    BY <1>1, <2>1, <2>3 DEF GtRec, GcFrame
  <2> QED BY <2>2, <2>3
<1> HIDE DEF own, b
<1>10. WtFacts' /\ GtFacts' /\ GcSourceMapped'
  BY <1>2, <1>6, <1>8, <1>9 DEF WtFacts, GtFacts, GcSourceMapped, GtCopying, GcFrame, SameTask
<1>11. PendingAgency'
  <2>1. \A x \in UTasks : wt[x].pending_gc_node \in Pbid \cup {NULL}
    BY DEF TypeOK, IoTypeOK, WtRec
  <2> QED BY <1>5, <1>8, <1>9, <2>1 DEF PendingAgency, GcFrame
<1>12. QueuedOnce' /\ SplicedLists'
  <2>1. GcsFrame(p) /\ UsersQueued /\ gt'[p].pc # "queued"
    BY <1>8, <1>9 DEF GcsFrame, UsersQueued, GcFrame, SameTask
  <2> QED BY <2>1, <1>2, <1>3, <1>4, GcTaken
<1>13. TaskTreeExact'
  <2>1. \A u \in UTasks : (WtInTree(u)' <=> WtInTree(u)) /\ wt'[u].blkid = wt[u].blkid
    BY <1>8 DEF WtInTree, SameTask
  <2>2. \A u \in UTasks : WtInTree(u) => wt[u].blkid \in Blks
    BY DEF WtInTree, WtFacts
  <2>3. \A q \in Pbid : q # p => (GtInTree(q)' <=> GtInTree(q)) /\ gt'[q].blkid = gt[q].blkid
    BY <1>9 DEF GtInTree, GcFrame
  <2>4. \A q \in Pbid : GtInTree(q) => gt[q].blkid \in Blks
    BY DEF GtInTree, GtFacts
  <2>5. \A x \in Blks : tree[x] # p
    BY <1>4, <1>6 DEF TaskTreeExact
  <2>6. CASE own # NULL
    <3>1. ~GtInTree(p)' /\ tree' = tree
      BY <2>6, <1>9 DEF GtInTree
    <3>2. \A u \in UTasks : WtInTree(u)' => tree'[wt'[u].blkid] = u
      BY <2>1, <3>1 DEF TaskTreeExact
    <3>3. \A q \in Pbid : GtInTree(q)' => tree'[gt'[q].blkid] = q
      BY <2>3, <3>1 DEF TaskTreeExact
    <3>4. \A x \in Blks : \A u \in UTasks : tree'[x] = u => WtInTree(u)' /\ wt'[u].blkid = x
      BY <2>1, <3>1 DEF TaskTreeExact
    <3>5. \A x \in Blks : \A q \in Pbid : tree'[x] = q => GtInTree(q)' /\ gt'[q].blkid = x
      BY <2>3, <2>5, <3>1 DEF TaskTreeExact
    <3> QED BY <3>2, <3>3, <3>4, <3>5 DEF TaskTreeExact, WtInTree, GtInTree
  <2>7. CASE own = NULL
    <3>1. GtInTree(p)' /\ gt'[p].blkid = b
      BY <2>7, <1>9 DEF GtInTree
    <3>2. \A x \in Blks : tree'[x] = IF x = b THEN p ELSE tree[x]
      BY <1>1, <2>7, <1>9
    <3>3. tree[b] = NULL
      BY <2>7 DEF own
    <3>4. \A u \in UTasks : WtInTree(u)' => tree'[wt'[u].blkid] = u
      BY <2>1, <2>2, <3>2, <3>3, <1>7 DEF TaskTreeExact
    <3>5. \A q \in Pbid : GtInTree(q)' => tree'[gt'[q].blkid] = q
      BY <2>3, <2>4, <3>1, <3>2, <3>3, <1>6, <1>7 DEF TaskTreeExact
    <3>6. \A x \in Blks : \A u \in UTasks : tree'[x] = u => WtInTree(u)' /\ wt'[u].blkid = x
      BY <2>1, <3>2, <1>4, <1>7 DEF TaskTreeExact
    <3>7. \A x \in Blks : \A q \in Pbid : tree'[x] = q => GtInTree(q)' /\ gt'[q].blkid = x
      BY <2>3, <2>5, <3>1, <3>2 DEF TaskTreeExact
    <3> QED BY <3>4, <3>5, <3>6, <3>7 DEF TaskTreeExact, WtInTree, GtInTree
  <2> QED BY <2>6, <2>7
<1> QED BY <1>10, <1>11, <1>12, <1>13

\* A user write taken off the list is inserted, or goes back to the allocator.
LEMMA WkUserInv ==
    ASSUME TypeOK, TypeOK', TaskInv, WkUser
    PROVE  TaskInv'
<1> USE DEF TaskInv
<1> DEFINE t == Head(wk.users)
<1>1. /\ wt \in [UTasks -> WtRec] /\ wk \in WkRec /\ wk.users \in Seq(UTasks)
  BY DEF TypeOK, IoTypeOK, WkRec
<1>2. /\ wk.pc = "user" /\ wk.users # <<>>
      /\ UNCHANGED <<gt, pbids, user_pending, gc_writes>>
      /\ wk' = [wk EXCEPT !.users = Tail(@), !.cur = t]
  BY DEF WkUser, lowVars
<1>3. wk'.pc = wk.pc /\ wk'.users = Tail(wk.users) /\ wk'.gcs = wk.gcs
  BY <1>1, <1>2 DEF WkRec
<1>4. t \in UTasks /\ OnList(wk.users, t)
  BY <1>1, <1>2, TailList
<1>5. wt[t].pc = "queued" /\ wt[t].blkid \in Blks /\ wt[t] \in WtRec
  BY <1>1, <1>4 DEF QueuedOnce, WtFacts
<1>6. \/ wt[t].status = "INIT" /\ InsertUser(t, wt[t])
      \/ wt[t].status = "ALLOC_RES" /\ wt' = [wt EXCEPT ![t].pc = "alloc"] /\ UNCHANGED tree
  BY DEF WkUser
<1>7. /\ wt'[t].pc \in {"alloc", "conflict"}
      /\ \A u \in UTasks : u # t => wt'[u].pc = wt[u].pc
      /\ WtFacts' /\ GtFacts' /\ PendingAgency' /\ TaskTreeExact' /\ GcSourceMapped'
  <2> HIDE DEF t
  <2>1. CASE wt[t].status = "INIT" /\ InsertUser(t, wt[t])
    <3>1. ~WtInTree(t)
      BY <1>5, <2>1 DEF WtInTree
    <3> QED BY <1>2, <1>4, <1>5, <2>1, <3>1, UserInserts
  <2>2. CASE wt[t].status = "ALLOC_RES" /\ wt' = [wt EXCEPT ![t].pc = "alloc"] /\ UNCHANGED tree
    <3>1. /\ wt'[t].pc = "alloc" /\ wt'[t].status = "ALLOC_RES" /\ wt'[t].blkid = wt[t].blkid
          /\ wt'[t].pending_gc_node = wt[t].pending_gc_node /\ UserFrame(t)
      BY <1>1, <1>4, <2>2 DEF WtRec, UserFrame
    <3>2. WtFacts' /\ GtFacts' /\ PendingAgency' /\ GcSourceMapped'
      BY <1>2, <1>5, <3>1 DEF WtFacts, GtFacts, PendingAgency, GcSourceMapped, GtCopying, UserFrame
    <3>3. TaskTreeExact'
      BY <1>2, <1>4, <1>5, <2>2, <3>1 DEF TaskTreeExact, WtInTree, GtInTree, UserFrame
    <3> QED BY <3>1, <3>2, <3>3 DEF UserFrame
  <2> QED BY <1>6, <2>1, <2>2
<1>8. QueuedOnce' /\ SplicedLists'
  <2>1. UsersFrame(t) /\ GcsQueued /\ wt'[t].pc # "queued"
    BY <1>2, <1>7 DEF UsersFrame, GcsQueued
  <2> QED BY <2>1, <1>2, <1>3, <1>4, UserTaken
<1> QED BY <1>7, <1>8

\* The steps of retry_wk_fn that move whole lists.
LEMMA WkSpliceInv ==
    ASSUME TypeOK, TypeOK', TaskInv, WkStart \/ WkSpliceGc \/ WkEnd
    PROVE  TaskInv'
<1> USE DEF TaskInv
<1>1. wk \in WkRec /\ UNCHANGED <<wt, gt, tree, pbids>>
  BY DEF TypeOK, IoTypeOK, WkStart, WkSpliceGc, WkEnd, lowVars
<1>2. WtFacts' /\ GtFacts' /\ PendingAgency' /\ GcSourceMapped'
  BY <1>1 DEF WtFacts, GtFacts, PendingAgency, GcSourceMapped, GtCopying
<1>3. TaskTreeExact'
  BY <1>1 DEF TaskTreeExact, WtInTree, GtInTree
<1>4. CASE WkStart
  <2>1. /\ wk.pc = "idle" /\ wk'.pc = "user" /\ wk'.users = user_pending /\ wk'.gcs = wk.gcs
        /\ user_pending' = <<>> /\ UNCHANGED gc_writes
    BY <1>1, <1>4 DEF WkStart, WkRec
  <2>2. wk.users = <<>>
    BY <2>1 DEF SplicedLists
  <2>3. SplicedLists'
    BY <2>1 DEF SplicedLists
  <2> QED BY <1>1, <1>2, <1>3, <2>1, <2>2, <2>3, EmptyList DEF QueuedOnce
<1>5. CASE WkSpliceGc
  <2>1. /\ wk.pc = "user" /\ wk.users = <<>> /\ wk'.pc = "gc" /\ wk'.users = wk.users
        /\ wk'.gcs = gc_writes /\ gc_writes' = <<>> /\ UNCHANGED user_pending
    BY <1>1, <1>5 DEF WkSpliceGc, WkRec
  <2>2. wk.gcs = <<>>
    BY <2>1 DEF SplicedLists
  <2>3. SplicedLists'
    BY <2>1 DEF SplicedLists
  <2> QED BY <1>1, <1>2, <1>3, <2>1, <2>2, <2>3, EmptyList DEF QueuedOnce
<1>6. CASE WkEnd
  <2>1. /\ wk.pc = "gc" /\ wk.gcs = <<>> /\ wk'.pc = "idle" /\ wk'.users = wk.users
        /\ wk'.gcs = wk.gcs /\ UNCHANGED <<user_pending, gc_writes>>
    BY <1>1, <1>6 DEF WkEnd, WkRec
  <2>2. SplicedLists'
    BY <2>1 DEF SplicedLists
  <2> QED BY <1>1, <1>2, <1>3, <2>1, <2>2 DEF QueuedOnce
<1> QED BY <1>4, <1>5, <1>6

\* __gc_one_zone starts a copy for a slot that has none.
LEMMA GcIterInv ==
    ASSUME TypeOK, TypeOK', TaskInv, GcIter
    PROVE  TaskInv'
<1> USE DEF TaskInv
<1> DEFINE p == <<gc.gc_zone, gc.iter>>
<1>1. gt \in [Pbid -> GtRec] /\ gt' \in [Pbid -> GtRec] /\ zrms \in [Pbid -> Blks \cup {INVALID}]
  BY DEF TypeOK, IoTypeOK, ZmdTypeOK
<1>2. UNCHANGED <<wt, tree, pbids>> /\ ListFrame
  BY DEF GcIter, ListFrame
<1>3. CASE UNCHANGED gt
  BY <1>2, <1>3, FrameInv
<1>4. CASE /\ zrms[p] # INVALID /\ gt[p].pc = "none"
           /\ gt' = [gt EXCEPT ![p] = [NoGcTask EXCEPT !.pc = "reading", !.blkid = zrms[p]]]
  <2> HIDE DEF p
  <2>1. CASE p \notin Pbid
    <3>1. gt' = gt
      BY <1>1, <1>4, <2>1
    <3> QED BY <1>2, <3>1, FrameInv
  <2>2. CASE p \in Pbid
    <3>1. gt'[p].pc = "reading" /\ gt'[p].blkid = zrms[p] /\ zrms[p] \in Blks /\ GcFrame(p)
      BY <1>1, <1>4, <2>2 DEF NoGcTask, GcFrame
    <3>2. WtFacts' /\ GtFacts' /\ GcSourceMapped'
      BY <1>2, <2>2, <3>1 DEF WtFacts, GtFacts, GcSourceMapped, GtCopying, GcFrame
    <3>3. PendingAgency'
      <4>1. \A x \in UTasks : wt[x].pending_gc_node \in Pbid \cup {NULL}
        BY DEF TypeOK, IoTypeOK, WtRec
      <4> QED BY <1>2, <1>4, <2>2, <3>1, <4>1 DEF PendingAgency, GcFrame
    <3>4. QueuedOnce' /\ SplicedLists'
      <4>1. UsersQueued /\ GcsQueued
        BY <1>2, <1>4, <3>1 DEF UsersQueued, GcsQueued, GcFrame
      <4> QED BY <1>2, <4>1, ListsKept
    <3>5. TaskTreeExact'
      BY <1>2, <1>4, <2>2, <3>1 DEF TaskTreeExact, WtInTree, GtInTree, GcFrame
    <3> QED BY <3>2, <3>3, <3>4, <3>5
  <2> QED BY <2>1, <2>2
<1> QED BY <1>3, <1>4 DEF GcIter

-----------------------------------------------------------------------------
(* The invariant, and the theorems.                                        *)

\* No task exists when the device starts.
LEMMA InitTaskInv == Init => TaskInv
<1> SUFFICES ASSUME Init PROVE TaskInv
  OBVIOUS
<1>1. /\ wt = [t \in UTasks |-> NoTask] /\ gt = [p \in Pbid |-> NoGcTask]
      /\ tree = [x \in Blks |-> NULL] /\ user_pending = <<>> /\ gc_writes = <<>>
      /\ wk.pc = "idle" /\ wk.users = <<>> /\ wk.gcs = <<>>
  BY DEF Init, IoInit
<1>2. NULL \notin UTasks /\ NULL \notin Pbid
  BY DevAssumption, IoAssumption
<1>3. WtFacts /\ GtFacts /\ PendingAgency /\ SplicedLists /\ GcSourceMapped
  BY <1>1 DEF WtFacts, GtFacts, PendingAgency, SplicedLists, GcSourceMapped, GtCopying,
              NoTask, NoGcTask
<1>4. QueuedOnce
  BY <1>1, EmptyList DEF QueuedOnce, NoTask, NoGcTask
<1>5. TaskTreeExact
  BY <1>1, <1>2 DEF TaskTreeExact, WtInTree, GtInTree, NoTask, NoGcTask
<1> QED BY <1>3, <1>4, <1>5 DEF TaskInv

\* Every step of the system keeps TaskInv.
LEMMA NextTaskInv ==
    ASSUME TypeOK, TypeOK', TaskInv, [Next]_vars
    PROVE  TaskInv'
<1>1. CASE UNCHANGED vars
  BY <1>1, FrameInv DEF vars, ioVars, ListFrame
<1>2. CASE \/ ZoneStateWork /\ UNCHANGED <<pbids, ioVars, gc>>
           \/ \E z \in Zone : PutZoneEnd(z) /\ UNCHANGED <<pbids, ioVars, gc>>
  BY <1>2, FrameInv DEF ioVars, ListFrame
<1>3. ASSUME NEW t \in UTasks, SubmitWrite(t) \/ WriteStep(t) PROVE TaskInv'
  BY <1>3, SubmitWriteInv, WriteStepInv
<1>4. ASSUME NEW r \in Readers, SubmitRead(r) \/ lbz_read_io_endio(r) PROVE TaskInv'
  <2>1. UNCHANGED <<wt, gt, tree, pbids, user_pending, gc_writes, wk>>
    BY <1>4 DEF SubmitRead, lbz_submit_read, lbz_mapping_lookup, lbz_read_io_endio
  <2> QED BY <2>1, FrameInv DEF ListFrame
<1>5. ASSUME NEW p \in Pbid, GcCopy(p) PROVE TaskInv'
  BY <1>5, GcCopyInv
<1>6. CASE RetryWork
  BY <1>6, WkSpliceInv, WkUserInv, WkGcInv DEF RetryWork
<1>7. CASE GcThread
  <2>1. CASE GcCheck \/ GcSelect \/ GcNoVictim \/ GcFinish
    BY <2>1, FrameInv DEF GcCheck, GcSelect, GcNoVictim, GcFinish, ioVars, ListFrame
  <2> QED BY <1>7, <2>1, GcIterInv DEF GcThread
<1> QED BY <1>1, <1>2, <1>3, <1>4, <1>5, <1>6, <1>7 DEF Next, Running, Halted

\* NoGcCallbackBug is kept: GCbMap is the only step that could set it.
LEMMA NextNoBug ==
    ASSUME TypeOK, TypeOK', TaskInv, NoGcCallbackBug, [Next]_vars
    PROVE  NoGcCallbackBug'
<1> USE DEF NoGcCallbackBug
<1>1. CASE UNCHANGED vars
  BY <1>1 DEF vars, devVars
<1>2. CASE ZoneStateWork \/ \E z \in Zone : PutZoneEnd(z)
  BY <1>2 DEF PutZoneEnd, ZoneStateWork, ZsStart, ZsScanToFull, ZsScanRefcount, ZsClose, ZsGcZone, ZsReset,
              ZsResetFails, ZsRelease, devVars
<1>3. ASSUME NEW t \in UTasks, SubmitWrite(t) PROVE NoGcCallbackBug'
  BY <1>3 DEF SubmitWrite, lbz_submit_write, lowVars, devVars
<1>4. ASSUME NEW t \in UTasks, WriteStep(t) PROVE NoGcCallbackBug'
  <2>1. UNCHANGED oops
    BY <1>4 DEF WriteStep, WConflict, WAlloc, WAlloc2, WGotZone, WAppend, WAppendFails, WEndio,
                WOldRmap, WOldWeight, WNewRmap, WDel, WComplete, WPut, lowVars, devVars
  <2> QED BY <2>1
<1>5. ASSUME NEW r \in Readers, SubmitRead(r) \/ lbz_read_io_endio(r) PROVE NoGcCallbackBug'
  BY <1>5 DEF SubmitRead, lbz_submit_read, lbz_read_io_endio, devVars
<1>6. ASSUME NEW p \in Pbid, GcCopy(p) PROVE NoGcCallbackBug'
  <2>1. CASE GCbMap(p)
    BY <2>1, GCbMapInv
  <2>2. CASE GAlloc2(p)
    BY <2>2 DEF GAlloc2, GGotZone, devVars
  <2>3. CASE GRead(p) \/ GReadFails(p) \/ GFault(p) \/ GAgency(p) \/ GLookup(p) \/ GAlloc(p)
    BY <2>3 DEF GRead, GReadFails, GFault, GAgency, GLookup, GAlloc, GGotZone, lowVars, devVars
  <2>4. CASE GAppend(p) \/ GAppendFails(p) \/ GEndio(p) \/ GCbRmap(p) \/ GCbOld(p) \/ GCbPut(p)
    BY <2>4 DEF GAppend, GAppendFails, GEndio, GCbRmap, GCbOld, GCbPut, devVars
  <2> QED BY <1>6, <2>1, <2>2, <2>3, <2>4 DEF GcCopy
<1>7. CASE RetryWork
  BY <1>7 DEF RetryWork, WkStart, WkUser, WkSpliceGc, WkGc, GInsert, WkEnd, lowVars, devVars
<1>8. CASE GcThread
  BY <1>8 DEF GcThread, GcCheck, GcSelect, GcNoVictim, GcIter, GcFinish, devVars
<1> QED BY <1>1, <1>2, <1>3, <1>4, <1>5, <1>6, <1>7, <1>8 DEF Next, Running, Halted

\* The inductive invariant holds in every reachable state.
THEOREM Inductive == Spec => []IInv
<1>1. Init => IInv
  BY InitType, InitTaskInv DEF IInv, Init, NoGcCallbackBug
<1>2. IInv /\ [Next]_vars => IInv'
  <2> SUFFICES ASSUME IInv, [Next]_vars PROVE IInv'
    OBVIOUS
  <2>1. TypeOK'
    BY NextType DEF IInv, TaskInv
  <2>2. TaskInv' /\ NoGcCallbackBug'
    BY <2>1, NextTaskInv, NextNoBug DEF IInv
  <2> QED BY <2>1, <2>2 DEF IInv
<1> QED BY <1>1, <1>2, PTL DEF Spec

\* Every variable keeps its type, whatever the interleaving and the errors.
THEOREM TypeCorrect == Spec => []TypeOK
<1>1. IInv => TypeOK
  BY DEF IInv
<1> QED BY <1>1, Inductive, PTL

\* The task tree always holds exactly the tasks between insert_task_to_tree and
\* del_task_from_tree: two tasks never work on one logical block.
THEOREM TreeExact == Spec => []TaskTreeExact
<1>1. IInv => TaskTreeExact
  BY DEF IInv, TaskInv
<1> QED BY <1>1, Inductive, PTL

\* A GC copy never replaces newer data: its block stays mapped to the source
\* from the lookup in __submit_gc_task to lbz_mapping_add in the callback.
THEOREM CopySourceMapped == Spec => []GcSourceMapped
<1>1. IInv => GcSourceMapped
  BY DEF IInv, TaskInv
<1> QED BY <1>1, Inductive, PTL

\* The BUG_ON(old_pbid != task->pbid) of __gc_task_callback is unreachable.
THEOREM CallbackSafe == Spec => []NoGcCallbackBug
<1>1. IInv => NoGcCallbackBug
  BY DEF IInv
<1> QED BY <1>1, Inductive, PTL

\* No task is lost between the lists of the retry worker or queued twice.
THEOREM EveryTaskQueuedOnce == Spec => []QueuedOnce
<1>1. IInv => QueuedOnce
  BY DEF IInv, TaskInv
<1> QED BY <1>1, Inductive, PTL
=============================================================================
