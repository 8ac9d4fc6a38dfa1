---------------------------- MODULE LbzMapProofs ----------------------------
(***************************************************************************)
(* WeightInv and BlockInv are inductive: zone->weight counts the live      *)
(* blocks until a command fails, a physical block holds the data of one    *)
(* place only, and the two maps agree wherever no task is at work.         *)
(***************************************************************************)
EXTENDS LbzCountProofs

-----------------------------------------------------------------------------
(* Few steps touch a weight, a map or the medium; the others are quiet.    *)

WritePcs == {"append", "endio", "oldrmap", "oldweight", "newrmap"}
CopyPcs  == {"append", "endio", "cb_rmap", "cb_map", "cb_old"}

WeightsKept == \A z \in Zone : zone'[z].weight = zone[z].weight

\* A write, or a copy, that has no block, before and after the step.
WriteQuiet(t) ==
    /\ OthersKept(t) /\ wt[t].pc \notin WritePcs /\ wt'[t].pc \notin WritePcs
    /\ wt'[t].pc # "none" => wt'[t].data \in Values
CopyQuiet(p) ==
    /\ GcFrame(p) /\ gt[p].pc \notin CopyPcs /\ gt'[p].pc \notin CopyPcs
    /\ gt'[p].pc \notin {"none", "reading", "fault"} => gt'[p].data \in Values
WritesQuiet == AllUsersKept \/ \E t \in UTasks : WriteQuiet(t)
CopiesQuiet == gt' = gt \/ \E p \in Pbid : CopyQuiet(p)

Quiet ==
    UNCHANGED <<media, pbids, zrms>> /\ WeightsKept /\ WritesQuiet /\ CopiesQuiet

\* The steps of a write and of a copy that are not.
WriteTakes(t, s) == wt[t].pc \in {"alloc", "alloc2"} /\ WGotZone(t, s)
CopyTakes(p, s)  == gt[p].pc \in {"alloc", "alloc2"} /\ GGotZone(p, s)
WriteWorks(t) ==
    \/ \E s \in Streams : WriteTakes(t, s)
    \/ WAppend(t) \/ WAppendFails(t) \/ WEndio(t) \/ WOldRmap(t) \/ WOldWeight(t) \/ WNewRmap(t)
CopyWorks(p) ==
    \/ \E s \in Streams : CopyTakes(p, s)
    \/ GAppend(p) \/ GAppendFails(p) \/ GEndio(p) \/ GCbRmap(p) \/ GCbMap(p) \/ GCbOld(p)

\* What lbz_put_zone, lbz_get_zone and lbz_zone_complete_write do to the weights.
LEMMA OpsKeepWeight ==
    ASSUME TypeOK, NEW y,
           \/ zone' = zone
           \/ ZonePut(y)
           \/ zone' = [zone EXCEPT ![y] = lbz_get_zone(@)]
           \/ zone' = [zone EXCEPT ![y] = lbz_zone_complete_write(@)]
    PROVE  WeightsKept
<1>1. zone \in [Zone -> ZoneRec]
  BY DEF TypeOK, ZmdTypeOK
<1>2. ASSUME NEW z \in Zone PROVE zone'[z].weight = zone[z].weight
  <2>1. \/ zone'[z] = zone[z]
        \/ zone'[z] = lbz_put_zone(zone[z])
        \/ zone'[z] = lbz_get_zone(zone[z])
        \/ zone'[z] = lbz_zone_complete_write(zone[z])
    BY <1>1 DEF ZonePut
  <2> QED BY <1>1, <2>1, PutFields, GetFields DEF SameZone
<1> QED BY <1>2 DEF WeightsKept

\* A task_put that may run a callback is quiet.
LEMMA CallbackQuiet ==
    ASSUME TypeOK, NoCallback \/ \E p \in Pbid : Callback(p)
    PROVE  WeightsKept /\ CopiesQuiet
<1>1. CASE NoCallback
  BY <1>1, OpsKeepWeight DEF NoCallback, ZoneKept, CopiesQuiet
<1>2. ASSUME NEW p \in Pbid, Callback(p) PROVE WeightsKept /\ CopiesQuiet
  <2>1. gt[p].pc = "agency" /\ gt'[p].pc = "none" /\ GcFrame(p)
    BY <1>2, GcGoneFx DEF Callback, GcGone
  <2>2. CopyQuiet(p)
    BY <2>1 DEF CopyQuiet, CopyPcs
  <2> QED BY <1>2, <2>2, OpsKeepWeight DEF Callback, CopiesQuiet
<1> QED BY <1>1, <1>2

\* The steps of a user write.
LEMMA WriteKinds ==
    ASSUME TypeOK, TaskInv, DataKnown, NEW t \in UTasks, SubmitWrite(t) \/ WriteStep(t)
    PROVE  Quiet \/ WriteWorks(t)
<1>1. /\ wt[t].pc # "none" => wt[t].data \in Values
      /\ gt' = gt => CopiesQuiet
      /\ zone' = zone => WeightsKept
  BY OpsKeepWeight DEF DataKnown, CopiesQuiet
<1>2. ASSUME OthersKept(t), KeepsFields(t), wt[t].pc \notin WritePcs \cup {"none"}, wt'[t].pc \notin WritePcs
      PROVE  WritesQuiet
  BY <1>1, <1>2 DEF WriteQuiet, WritesQuiet, KeepsFields
<1>3. CASE SubmitWrite(t)
  <2>1. WriteQuiet(t) /\ gt' = gt /\ zone' = zone /\ UNCHANGED <<media, pbids, zrms>>
    BY <1>3, SubmitFx DEF WriteQuiet, WritePcs, lowVars, devVars, zmdVars
  <2> QED BY <1>1, <2>1 DEF Quiet, WritesQuiet
<1>4. CASE WConflict(t) \/ WDel(t)
  <2>1. /\ wt[t].pc \in {"conflict", "del"} /\ wt'[t].pc \in {"queued", "complete"}
        /\ OthersKept(t) /\ KeepsFields(t)
        /\ (NoCallback \/ \E p \in Pbid : Callback(p)) /\ UNCHANGED <<media, pbids, zrms>>
    BY <1>4, WConflictFx, WDelFx DEF devVars
  <2> QED BY <1>2, <2>1, CallbackQuiet DEF Quiet, WritePcs
<1>5. ASSUME NEW c \in {"alloc2", "queued", "put"}, wt' = [wt EXCEPT ![t].pc = c],
             wt[t].pc \in {"alloc", "alloc2", "complete"}
      PROVE  WritesQuiet
  BY <1>2, <1>5, PcFx DEF WritePcs
<1>6. CASE WAlloc(t)
  <2>1. wt[t].pc = "alloc" /\ StreamId[wt[t].blkid] \in Streams
    BY <1>6, IoAssumption DEF WAlloc, TaskInv, WtFacts
  <2>2. CASE wt' = [wt EXCEPT ![t].pc = "alloc2"] /\ UNCHANGED <<lowVars, gt>>
    BY <1>1, <1>5, <2>1, <2>2 DEF lowVars, devVars, zmdVars, Quiet
  <2> QED BY <1>6, <2>1, <2>2 DEF WAlloc, WriteWorks, WriteTakes
<1>7. CASE WAlloc2(t)
  <2>1. wt[t].pc = "alloc2" /\ OtherStream(StreamId[wt[t].blkid]) \in Streams
    BY <1>7, IoAssumption DEF WAlloc2, TaskInv, WtFacts, OtherStream, Streams, LBZ_ZONE_MAX_STREAM
  <2>2. CASE WAllocEagain(t) /\ UNCHANGED <<media, pbids, zrms>>
    BY <1>1, <1>5, <2>1, <2>2 DEF WAllocEagain, Quiet
  <2>3. CASE WAllocEio(t) /\ UNCHANGED <<media, pbids, zrms>>
    <3>1. WriteQuiet(t) /\ (NoCallback \/ \E p \in Pbid : Callback(p))
      BY <2>1, <2>3, WAllocEioFx DEF WriteQuiet, WritePcs
    <3> QED BY <2>3, <3>1, CallbackQuiet DEF Quiet, WritesQuiet
  <2> QED BY <1>7, <2>1, <2>2, <2>3 DEF WAlloc2, WriteWorks, WriteTakes
<1>8. CASE WComplete(t)
  <2>1. WeightsKept
    BY <1>8, OpsKeepWeight DEF WComplete
  <2> QED BY <1>1, <1>5, <1>8, <2>1 DEF WComplete, Quiet, devVars
<1>9. CASE WPut(t)
  <2>1. WriteQuiet(t) /\ ZonePut(wt[t].zone) /\ UNCHANGED <<gt, media, pbids, zrms>>
    BY <1>9, WPutFx DEF WriteQuiet, WritePcs, devVars
  <2> QED BY <1>1, <2>1, OpsKeepWeight DEF Quiet, WritesQuiet
<1> QED BY <1>3, <1>4, <1>6, <1>7, <1>8, <1>9 DEF WriteStep, WriteWorks

\* The steps of a GC copy.
LEMMA CopyKinds ==
    ASSUME TypeOK, TaskInv, FactsInv, DataKnown, NEW p \in Pbid, GcCopy(p)
    PROVE  Quiet \/ CopyWorks(p)
<1>1. /\ gt[p].pc \notin {"none", "reading", "fault"} => gt[p].data \in Values
      /\ AllUsersKept => WritesQuiet
      /\ wt' = wt => WritesQuiet
      /\ zone' = zone => WeightsKept
      /\ gt' = gt => CopiesQuiet
  BY OpsKeepWeight, InflightFrame DEF DataKnown, WritesQuiet, CopiesQuiet
<1>2. ASSUME GcFrame(p), gt[p].pc \notin CopyPcs, gt'[p].pc \in {"none", "fault"}
      PROVE  CopiesQuiet
  BY <1>2 DEF CopyQuiet, CopiesQuiet, CopyPcs
<1>3. ASSUME GcFrame(p), GcKeeps(p), gt[p].pc \notin CopyPcs \cup {"none", "reading", "fault"},
             gt'[p].pc \notin CopyPcs
      PROVE  CopiesQuiet
  BY <1>1, <1>3 DEF CopyQuiet, CopiesQuiet, GcKeeps
<1>4. CASE GRead(p)
  <2>1. CopyQuiet(p) /\ wt' = wt /\ zone' = zone /\ UNCHANGED <<media, pbids, zrms>>
    BY <1>4, GReadFx DEF CopyQuiet, CopyPcs, lowVars, devVars, zmdVars
  <2> QED BY <1>1, <2>1 DEF Quiet, CopiesQuiet
<1>5. CASE GReadFails(p)
  <2>1. gt'[p].pc = "fault" /\ GcFrame(p)
    BY <1>5, GcPcFx DEF GReadFails
  <2>2. WeightsKept
    BY <1>5, OpsKeepWeight DEF GReadFails, ZonePut
  <2> QED BY <1>1, <1>2, <1>5, <2>1, <2>2 DEF GReadFails, Quiet, CopyPcs
<1>6. CASE GFault(p)
  <2>1. gt'[p].pc = "none" /\ GcFrame(p)
    BY <1>6, GcGoneFx DEF GFault, GcGone
  <2> QED BY <1>1, <1>2, <1>6, <2>1 DEF GFault, Quiet, CopyPcs, zmdVars
<1>7. CASE GAgency(p)
  <2>1. /\ gt[p].pc = "conflict" /\ AllUsersKept /\ GcFrame(p) /\ UNCHANGED <<media, pbids, zrms>>
        /\ \/ gt' = [gt EXCEPT ![p] = NoGcTask] /\ ZonePut(p[1])
           \/ gt'[p].pc = "agency" /\ GcKeeps(p) /\ zone' = zone
    BY <1>7, GAgencyFx DEF ZoneKept, devVars
  <2>2. CASE gt' = [gt EXCEPT ![p] = NoGcTask] /\ ZonePut(p[1])
    BY <1>1, <1>2, <2>1, <2>2, GcGoneFx, OpsKeepWeight DEF Quiet, CopyPcs
  <2> QED BY <1>1, <1>3, <2>1, <2>2 DEF Quiet, CopyPcs
<1>8. CASE GLookup(p)
  <2>1. /\ gt[p].pc = "lookup" /\ GcFrame(p) /\ UNCHANGED <<wt, media, pbids, zrms>>
        /\ \/ gt'[p].pc = "alloc" /\ GcKeeps(p) /\ ZonesAlike(zone')
           \/ /\ gt' = [gt EXCEPT ![p] = NoGcTask]
              /\ \E zn : ZonesAlike(zn) /\ zone' = [zn EXCEPT ![p[1]] = lbz_put_zone(@)]
    BY <1>8, GLookupFx DEF devVars
  <2>2. CASE gt'[p].pc = "alloc" /\ GcKeeps(p) /\ ZonesAlike(zone')
    BY <1>1, <1>3, <2>1, <2>2 DEF ZonesAlike, SameZone, WeightsKept, Quiet, CopyPcs
  <2>3. ASSUME NEW zn, ZonesAlike(zn), zone' = [zn EXCEPT ![p[1]] = lbz_put_zone(@)]
        PROVE  WeightsKept
    <3>1. ASSUME NEW z \in Zone PROVE zone'[z].weight = zone[z].weight
      <4>1. zn[z] \in ZoneRec /\ zn[z].weight = zone[z].weight
        BY <2>3 DEF ZonesAlike, SameZone
      <4>2. zone'[z] = IF z = p[1] THEN lbz_put_zone(zn[z]) ELSE zn[z]
        BY <2>3 DEF ZonesAlike
      <4> QED BY <4>1, <4>2, PutFields DEF SameZone
    <3> QED BY <3>1 DEF WeightsKept
  <2> QED BY <1>1, <1>2, <2>1, <2>2, <2>3, GcGoneFx DEF Quiet, CopyPcs
<1>9. CASE GAlloc(p)
  <2>1. gt[p].pc = "alloc" /\ StreamId[gt[p].blkid] \in Streams
    BY <1>9, IoAssumption DEF GAlloc, TaskInv, GtFacts
  <2>2. CASE gt' = [gt EXCEPT ![p].pc = "alloc2"] /\ UNCHANGED <<lowVars, wt>>
    <3>1. CopiesQuiet
      BY <1>3, <2>1, <2>2, GcPcFx DEF CopyPcs
    <3> QED BY <1>1, <2>2, <3>1 DEF lowVars, devVars, zmdVars, Quiet
  <2> QED BY <1>9, <2>1, <2>2 DEF GAlloc, CopyWorks, CopyTakes
<1>10. CASE GAlloc2(p)
  <2>1. gt[p].pc = "alloc2" /\ OtherStream(StreamId[gt[p].blkid]) \in Streams
    BY <1>10, IoAssumption DEF GAlloc2, TaskInv, GtFacts, OtherStream, Streams, LBZ_ZONE_MAX_STREAM
  <2>2. CASE UNCHANGED <<media, zmdVars, pbids, ioVars>>
    BY <1>1, <2>2 DEF zmdVars, ioVars, Quiet
  <2> QED BY <1>10, <2>1, <2>2 DEF GAlloc2, CopyWorks, CopyTakes
<1>11. CASE GCbPut(p)
  <2>1. /\ gt[p].pc = "cb_put" /\ GcFrame(p) /\ gt'[p].pc \in {"fault", "none"}
        /\ zone' = [[zone EXCEPT ![gt[p].zone] = lbz_put_zone(@)] EXCEPT ![p[1]] = lbz_put_zone(@)]
        /\ UNCHANGED <<media, pbids, zrms, wt>>
    BY <1>11, GCbPutFx DEF devVars
  <2>2. zone \in [Zone -> ZoneRec] /\ gt[p].zone \in Zone /\ p[1] \in Zone
    BY <2>1 DEF TypeOK, ZmdTypeOK, FactsInv, GtZones, Pbid
  <2>3. ASSUME NEW z \in Zone PROVE zone'[z].weight = zone[z].weight
    <3>1. PICK e : e = [zone EXCEPT ![gt[p].zone] = lbz_put_zone(@)]
      OBVIOUS
    <3>2. DOMAIN e = Zone /\ e[z] = IF z = gt[p].zone THEN lbz_put_zone(zone[z]) ELSE zone[z]
      BY <2>2, <3>1
    <3>3. zone'[z] = IF z = p[1] THEN lbz_put_zone(e[z]) ELSE e[z]
      BY <2>1, <3>1, <3>2
    <3>4. e[z] \in ZoneRec /\ e[z].weight = zone[z].weight
      BY <2>2, <3>2, PutFields, ZoneRecOps DEF SameZone
    <3> QED BY <3>3, <3>4, PutFields DEF SameZone
  <2> QED BY <1>1, <1>2, <2>1, <2>3 DEF WeightsKept, Quiet, CopyPcs
<1> QED BY <1>4, <1>5, <1>6, <1>7, <1>8, <1>9, <1>10, <1>11 DEF GcCopy, CopyWorks

\* zone_state_wk_fn changes what counts here only where it resets a zone.
LEMMA WorkerKinds ==
    ASSUME TypeOK, ZoneStateWork \/ (\E z \in Zone : PutZoneEnd(z)), UNCHANGED <<pbids, wt, gt>>
    PROVE  WeightsKept /\ (Quiet \/ ZsReset)
<1>1. zone \in [Zone -> ZoneRec]
  BY DEF TypeOK, ZmdTypeOK
<1>2. WritesQuiet /\ CopiesQuiet
  BY InflightFrame DEF WritesQuiet, CopiesQuiet
<1>3. CASE ZoneStateWork
  <2>1. ZsReset \/ UNCHANGED <<media, zrms>>
    BY <1>3 DEF ZoneStateWork, ZsStart, ZsScanToFull, ZsScanRefcount, ZsClose, ZsGcZone,
                ZsResetFails, ZsRelease, devVars
  <2>2. PICK i : i = zs.i
    OBVIOUS
  <2>3. \/ zone' = zone
        \/ zone' = [zone EXCEPT ![i].state = "CLOSED"]
        \/ zone' = [zone EXCEPT ![i].flags = {"FULL"}]
        \/ zone' = [zone EXCEPT ![i] = [@ EXCEPT !.wp_block = 0, !.state = "EMPTY", !.flags = {"INIT"}]]
    BY <1>3, <2>2 DEF ZoneStateWork, ZsStart, ZsScanToFull, ZsScanRefcount, ZsClose, ZsGcZone, ZsReset,
                ZsResetFails, ZsRelease
  <2>4. ASSUME NEW z \in Zone PROVE zone'[z].weight = zone[z].weight
    <3>1. zone[z] \in ZoneRec
      BY <1>1
    <3>2. \/ zone'[z] = zone[z]
          \/ zone'[z] = [zone[z] EXCEPT !.state = "CLOSED"]
          \/ zone'[z] = [zone[z] EXCEPT !.flags = {"FULL"}]
          \/ zone'[z] = [zone[z] EXCEPT !.wp_block = 0, !.state = "EMPTY", !.flags = {"INIT"}]
      BY <1>1, <2>3
    <3> QED BY <3>1, <3>2 DEF ZoneRec
  <2> QED BY <1>2, <2>1, <2>4 DEF WeightsKept, Quiet
<1>4. ASSUME NEW y \in Zone, PutZoneEnd(y) PROVE WeightsKept /\ Quiet
  <2>1. ASSUME NEW z \in Zone PROVE zone'[z].weight = zone[z].weight
    <3>1. zone[z] \in ZoneRec
      BY <1>1
    <3>2. PICK d : d = [zone[z] EXCEPT !.in_put = FALSE]
      OBVIOUS
    <3>3. d \in ZoneRec /\ d.weight = zone[z].weight
      BY <3>1, <3>2 DEF ZoneRec
    <3>4. PutState(d, TRUE).weight = d.weight
      BY <3>3 DEF PutState, ZoneRec
    <3>5. zone'[z] = IF z = y THEN PutState(d, TRUE) ELSE zone[z]
      BY <1>1, <1>4, <3>2 DEF PutZoneEnd
    <3> QED BY <3>3, <3>4, <3>5
  <2> QED BY <1>2, <1>4, <2>1 DEF WeightsKept, Quiet, PutZoneEnd, devVars
<1> QED BY <1>3, <1>4

\* Reads, the retry worker and the GC thread are quiet.
LEMMA OtherKinds ==
    ASSUME TypeOK, TaskInv, FactsInv, PlaceInv, DataKnown,
           \/ \E r \in Readers : SubmitRead(r) \/ lbz_read_io_endio(r)
           \/ RetryWork
           \/ GcThread
    PROVE  Quiet
<1>1. /\ AllUsersKept => WritesQuiet
      /\ wt' = wt => WritesQuiet
      /\ gt' = gt => CopiesQuiet
      /\ zone' = zone => WeightsKept
  BY OpsKeepWeight, InflightFrame DEF WritesQuiet, CopiesQuiet
<1>2. ASSUME NEW r \in Readers, SubmitRead(r) \/ lbz_read_io_endio(r) PROVE Quiet
  <2>1. UNCHANGED <<media, pbids, zrms, wt, gt>>
    BY <1>2 DEF SubmitRead, lbz_submit_read, lbz_read_io_endio, lbz_mapping_lookup, devVars
  <2>2. WeightsKept
    <3>1. CASE SubmitRead(r)
      BY <3>1, OpsKeepWeight DEF SubmitRead, lbz_submit_read, lbz_mapping_lookup
    <3>2. CASE lbz_read_io_endio(r)
      BY <3>2, OpsKeepWeight DEF lbz_read_io_endio, ZonePut
    <3> QED BY <1>2, <3>1, <3>2
  <2> QED BY <1>1, <2>1, <2>2 DEF Quiet
<1>3. CASE WkUser
  <2>1. PICK t \in UTasks :
            /\ wt[t].pc = "queued" /\ wt'[t].pc \in {"alloc", "conflict"}
            /\ KeepsFields(t) /\ OthersKept(t) /\ UNCHANGED <<lowVars, gt>>
    BY <1>3, WkUserFx
  <2>2. WriteQuiet(t)
    BY <2>1 DEF WriteQuiet, WritePcs, KeepsFields, DataKnown
  <2> QED BY <1>1, <2>1, <2>2 DEF WritesQuiet, Quiet, lowVars, devVars, zmdVars
<1>4. CASE WkGc
  <2>1. PICK p \in Pbid :
            /\ gt[p].pc = "queued" /\ gt'[p].pc \in {"lookup", "conflict"}
            /\ GcKeeps(p) /\ GcFrame(p) /\ AllUsersKept /\ UNCHANGED <<media, zmdVars, pbids>>
    BY <1>4, WkGcFx
  <2>2. CopyQuiet(p)
    BY <2>1 DEF CopyQuiet, CopyPcs, GcKeeps, DataKnown
  <2> QED BY <1>1, <2>1, <2>2 DEF CopiesQuiet, Quiet, zmdVars
<1>5. CASE WkStart \/ WkSpliceGc \/ WkEnd
  <2>1. UNCHANGED <<lowVars, wt, gt>>
    BY <1>5 DEF WkStart, WkSpliceGc, WkEnd
  <2> QED BY <1>1, <2>1 DEF Quiet, lowVars, devVars, zmdVars
<1>6. CASE GcCheck \/ GcNoVictim
  BY <1>1, <1>6 DEF GcCheck, GcNoVictim, Quiet, devVars, zmdVars, ioVars
<1>7. zone \in [Zone -> ZoneRec]
  BY DEF TypeOK, ZmdTypeOK
<1>8. CASE GcSelect
  <2>1. PICK y : zone' = [zone EXCEPT ![y] = SetFlag(lbz_get_zone(@), "GC")]
    BY <1>8 DEF GcSelect
  <2>2. ASSUME NEW z \in Zone PROVE zone'[z].weight = zone[z].weight
    <3>1. zone'[z] = zone[z] \/ zone'[z] = SetFlag(lbz_get_zone(zone[z]), "GC")
      BY <1>7, <2>1
    <3>2. SetFlag(lbz_get_zone(zone[z]), "GC").weight = zone[z].weight
      BY <1>7, GetFields, ZoneRecOps DEF SetFlag, ZoneRec, SameZone
    <3> QED BY <3>1, <3>2
  <2> QED BY <1>1, <1>8, <2>2 DEF GcSelect, Quiet, WeightsKept, devVars, ioVars
<1>9. CASE GcIter
  <2>1. /\ UNCHANGED <<media, pbids, zrms, wt>>
        /\ \/ zone' = zone /\ gt' = gt
           \/ \E p \in Pbid : /\ gt[p].pc = "none" /\ GcFrame(p) /\ gt'[p].pc = "reading"
                              /\ zone' = [zone EXCEPT ![p[1]] = lbz_get_zone(@)]
    BY <1>9, GcIterFx DEF FactsInv, PlaceInv, ZoneKept, devVars
  <2>2. ASSUME NEW p \in Pbid, gt[p].pc = "none", GcFrame(p), gt'[p].pc = "reading"
        PROVE  CopiesQuiet
    BY <2>2 DEF CopyQuiet, CopyPcs, CopiesQuiet
  <2> QED BY <1>1, <2>1, <2>2, OpsKeepWeight DEF Quiet
<1>10. CASE GcFinish
  <2>1. ASSUME NEW z \in Zone PROVE zone'[z].weight = zone[z].weight
    <3>1. zone'[z] = zone[z] \/ zone'[z] = lbz_put_zone(SetFlag(zone[z], "GC_COMPLETED"))
      BY <1>7, <1>10 DEF GcFinish
    <3>2. SetFlag(zone[z], "GC_COMPLETED") \in ZoneRec
          /\ SetFlag(zone[z], "GC_COMPLETED").weight = zone[z].weight
      BY <1>7 DEF SetFlag, ZoneRec, Flags
    <3> QED BY <3>1, <3>2, PutFields DEF SameZone
  <2> QED BY <1>1, <1>10, <2>1 DEF GcFinish, Quiet, WeightsKept, devVars, ioVars
<1> QED BY <1>2, <1>3, <1>4, <1>5, <1>6, <1>8, <1>9, <1>10 DEF RetryWork, GcThread

\* Failed commands are only counted up.
LEMMA ErrorsGrow ==
    ASSUME [Next]_vars
    PROVE  errors' = errors \/ errors' = errors + 1
<1>1. CASE ZoneStateWork \/ \E z \in Zone : PutZoneEnd(z)
  BY <1>1 DEF ZoneStateWork, ZsStart, ZsScanToFull, ZsScanRefcount, ZsClose, ZsGcZone, ZsReset,
              ZsResetFails, ZsRelease, PutZoneEnd, devVars, CommandFails
<1>2. ASSUME NEW t \in UTasks, SubmitWrite(t) \/ WriteStep(t) PROVE errors' = errors \/ errors' = errors + 1
  BY <1>2 DEF SubmitWrite, lbz_submit_write, WriteStep, WConflict, WAlloc, WAlloc2, WGotZone, WAppend,
              WAppendFails, WEndio, WOldRmap, WOldWeight, WNewRmap, WDel, WComplete, WPut, lowVars, devVars,
              CommandFails
<1>3. ASSUME NEW r \in Readers, SubmitRead(r) \/ lbz_read_io_endio(r)
      PROVE  errors' = errors \/ errors' = errors + 1
  BY <1>3 DEF SubmitRead, lbz_submit_read, lbz_read_io_endio, devVars, CommandFails
<1>4. ASSUME NEW p \in Pbid, GcCopy(p) PROVE errors' = errors \/ errors' = errors + 1
  BY <1>4 DEF GcCopy, GRead, GReadFails, GFault, GAgency, GLookup, GAlloc, GAlloc2, GGotZone, GAppend,
              GAppendFails, GEndio, GCbRmap, GCbMap, GCbOld, GCbPut, lowVars, devVars, CommandFails
<1>5. CASE RetryWork \/ GcThread
  BY <1>5 DEF RetryWork, WkStart, WkUser, WkSpliceGc, WkGc, WkEnd, GcThread, GcCheck, GcSelect, GcNoVictim,
              GcIter, GcFinish, lowVars, devVars
<1>6. CASE UNCHANGED vars
  BY <1>6 DEF vars, devVars
<1> QED BY <1>1, <1>2, <1>3, <1>4, <1>5, <1>6 DEF Next, Running, Halted

\* Every step of the system is one of these.
LEMMA NextKinds ==
    ASSUME TypeOK, TaskInv, FactsInv, PlaceInv, DataKnown, [Next]_vars
    PROVE  /\ oops' = "none" => oops = "none"
           /\ \/ Quiet
              \/ oops = "none" /\ \E t \in UTasks : WriteWorks(t)
              \/ oops = "none" /\ \E p \in Pbid : CopyWorks(p)
              \/ ZsReset /\ WeightsKept /\ UNCHANGED <<pbids, wt, gt>>
<1>1. CASE UNCHANGED vars
  <2>1. UNCHANGED <<oops, media, pbids, zrms, zone, wt, gt>>
    BY <1>1 DEF vars, devVars, zmdVars, ioVars
  <2> QED BY <2>1, OpsKeepWeight, InflightFrame DEF Quiet, WritesQuiet, CopiesQuiet
<1>2. CASE oops = "none" /\ Running
  <2>1. CASE (ZoneStateWork \/ \E z \in Zone : PutZoneEnd(z)) /\ UNCHANGED <<pbids, ioVars>>
    BY <1>2, <2>1, WorkerKinds DEF ioVars
  <2> QED BY <1>2, <2>1, WriteKinds, CopyKinds, OtherKinds DEF Running
<1> QED BY <1>1, <1>2 DEF Next, Halted

-----------------------------------------------------------------------------
(* The weights.                                                            *)

LiveMap(z)    == Count(MapWeight, z)
LiveWrite(z)  == Count(WriteWeight, z)
LiveOld(z)    == Count(OldWeight, z)
LiveCopy(z)   == Count(CopyWeight, z)
LiveSource(z) == Count(SourceWeight, z)

\* Each kind of live block is counted by a natural number.
LEMMA LiveNat ==
    ASSUME NEW z
    PROVE  /\ LiveMap(z) \in Nat /\ LiveWrite(z) \in Nat /\ LiveOld(z) \in Nat /\ LiveCopy(z) \in Nat
           /\ LiveSource(z) \in Nat
           /\ LiveBlocks(z) = LiveMap(z) + LiveWrite(z) + LiveOld(z) + LiveCopy(z) + LiveSource(z)
           /\ LiveMap(z)' \in Nat /\ LiveWrite(z)' \in Nat /\ LiveOld(z)' \in Nat /\ LiveCopy(z)' \in Nat
           /\ LiveSource(z)' \in Nat
           /\ LiveBlocks(z)' = LiveMap(z)' + LiveWrite(z)' + LiveOld(z)' + LiveCopy(z)' + LiveSource(z)'
<1>1. /\ DOMAIN MapWeight = Blks /\ DOMAIN WriteWeight = UTasks /\ DOMAIN OldWeight = UTasks
      /\ DOMAIN CopyWeight = Pbid /\ DOMAIN SourceWeight = Pbid
      /\ DOMAIN MapWeight' = Blks /\ DOMAIN WriteWeight' = UTasks /\ DOMAIN OldWeight' = UTasks
      /\ DOMAIN CopyWeight' = Pbid /\ DOMAIN SourceWeight' = Pbid
  BY DEF MapWeight, WriteWeight, OldWeight, CopyWeight, SourceWeight
<1>2. /\ LiveMap(z) \in Nat /\ LiveWrite(z) \in Nat /\ LiveOld(z) \in Nat /\ LiveCopy(z) \in Nat
      /\ LiveSource(z) \in Nat
  BY <1>1, CountOf, PbidFinite, IoAssumption DEF LiveMap, LiveWrite, LiveOld, LiveCopy, LiveSource
<1>3. /\ Count(MapWeight', z) \in Nat /\ Count(WriteWeight', z) \in Nat /\ Count(OldWeight', z) \in Nat
      /\ Count(CopyWeight', z) \in Nat /\ Count(SourceWeight', z) \in Nat
  BY <1>1, CountOf, PbidFinite, IoAssumption
<1>4. /\ LiveMap(z)' \in Nat /\ LiveWrite(z)' \in Nat /\ LiveOld(z)' \in Nat /\ LiveCopy(z)' \in Nat
      /\ LiveSource(z)' \in Nat
  BY <1>3 DEF LiveMap, LiveWrite, LiveOld, LiveCopy, LiveSource, Count
<1>5. /\ LiveBlocks(z) = LiveMap(z) + LiveWrite(z) + LiveOld(z) + LiveCopy(z) + LiveSource(z)
      /\ LiveBlocks(z)' = LiveMap(z)' + LiveWrite(z)' + LiveOld(z)' + LiveCopy(z)' + LiveSource(z)'
  BY DEF LiveBlocks, LiveMap, LiveWrite, LiveOld, LiveCopy, LiveSource
<1> QED BY <1>2, <1>4, <1>5

\* Where nothing moves the live blocks stay.
LEMMA LiveStill ==
    ASSUME NEW z
    PROVE  /\ pbids' = pbids => LiveMap(z)' = LiveMap(z)
           /\ WritesQuiet => LiveWrite(z)' = LiveWrite(z) /\ LiveOld(z)' = LiveOld(z)
           /\ CopiesQuiet => LiveCopy(z)' = LiveCopy(z) /\ LiveSource(z)' = LiveSource(z)
<1>1. pbids' = pbids => MapWeight' = MapWeight
  BY DEF MapWeight, Mapped
<1>2. WritesQuiet => WriteWeight' = WriteWeight /\ OldWeight' = OldWeight
  <2>1. ASSUME WritesQuiet, NEW u \in UTasks
        PROVE  \/ wt[u].pc = wt'[u].pc /\ wt[u].zone = wt'[u].zone /\ wt[u].old = wt'[u].old
               \/ wt[u].pc \notin WritePcs /\ wt'[u].pc \notin WritePcs
    BY <2>1 DEF WritesQuiet, AllUsersKept, WriteQuiet, OthersKept, SameTask
  <2> QED BY <2>1 DEF WriteWeight, OldWeight, WtWriting, WritePcs
<1>3. CopiesQuiet => CopyWeight' = CopyWeight /\ SourceWeight' = SourceWeight
  <2>1. ASSUME CopiesQuiet, NEW q \in Pbid
        PROVE  gt'[q] = gt[q] \/ (gt[q].pc \notin CopyPcs /\ gt'[q].pc \notin CopyPcs)
    BY <2>1 DEF CopiesQuiet, CopyQuiet, GcFrame
  <2> QED BY <2>1 DEF CopyWeight, SourceWeight, GtWriting, CopyPcs
<1> QED BY <1>1, <1>2, <1>3 DEF LiveMap, LiveWrite, LiveOld, LiveCopy, LiveSource, Count

\* The live blocks of one logical block, one write, one copy.
LEMMA MapMoves ==
    ASSUME NEW b \in Blks, \A x \in Blks : x # b => pbids'[x] = pbids[x], NEW z
    PROVE  LiveMap(z)' = LiveMap(z) + Turn(MapWeight[b], MapWeight'[b], z)
<1>1. /\ DOMAIN MapWeight = Blks /\ DOMAIN MapWeight' = Blks
      /\ \A x \in Blks : x # b => MapWeight'[x] = MapWeight[x]
  BY DEF MapWeight, Mapped
<1>2. Count(MapWeight', z) = Count(MapWeight, z) + Turn(MapWeight[b], MapWeight'[b], z)
  BY <1>1, CountTurn, IoAssumption
<1> QED BY <1>2 DEF LiveMap, Count

\* A write at work moves its own live blocks only.
LEMMA WriteMoves ==
    ASSUME NEW t \in UTasks, OthersKept(t), NEW z
    PROVE  /\ LiveWrite(z)' = LiveWrite(z) + Turn(WriteWeight[t], WriteWeight'[t], z)
           /\ LiveOld(z)' = LiveOld(z) + Turn(OldWeight[t], OldWeight'[t], z)
<1>1. /\ DOMAIN WriteWeight = UTasks /\ DOMAIN WriteWeight' = UTasks
      /\ DOMAIN OldWeight = UTasks /\ DOMAIN OldWeight' = UTasks
      /\ \A u \in UTasks : u # t => WriteWeight'[u] = WriteWeight[u] /\ OldWeight'[u] = OldWeight[u]
  BY DEF WriteWeight, OldWeight, WtWriting, OthersKept, SameTask
<1>2. Count(WriteWeight', z) = Count(WriteWeight, z) + Turn(WriteWeight[t], WriteWeight'[t], z)
  BY <1>1, CountTurn, IoAssumption
<1>3. Count(OldWeight', z) = Count(OldWeight, z) + Turn(OldWeight[t], OldWeight'[t], z)
  BY <1>1, CountTurn, IoAssumption
<1> QED BY <1>2, <1>3 DEF LiveWrite, LiveOld, Count

\* So does a copy at work.
LEMMA CopyMoves ==
    ASSUME NEW p \in Pbid, GcFrame(p), NEW z
    PROVE  /\ LiveCopy(z)' = LiveCopy(z) + Turn(CopyWeight[p], CopyWeight'[p], z)
           /\ LiveSource(z)' = LiveSource(z) + Turn(SourceWeight[p], SourceWeight'[p], z)
<1>1. /\ DOMAIN CopyWeight = Pbid /\ DOMAIN CopyWeight' = Pbid
      /\ DOMAIN SourceWeight = Pbid /\ DOMAIN SourceWeight' = Pbid
      /\ \A q \in Pbid : q # p => CopyWeight'[q] = CopyWeight[q] /\ SourceWeight'[q] = SourceWeight[q]
  BY DEF CopyWeight, SourceWeight, GtWriting, GcFrame
<1>2. Count(CopyWeight', z) = Count(CopyWeight, z) + Turn(CopyWeight[p], CopyWeight'[p], z)
  BY <1>1, CountTurn, PbidFinite
<1>3. Count(SourceWeight', z) = Count(SourceWeight, z) + Turn(SourceWeight[p], SourceWeight'[p], z)
  BY <1>1, CountTurn, PbidFinite
<1> QED BY <1>2, <1>3 DEF LiveCopy, LiveSource, Count

\* The weight of a zone moves as its live blocks do; after a failed command it
\* may stay too high.
WeightBalance(z) ==
    /\ zone'[z].weight >= zone[z].weight + (LiveBlocks(z)' - LiveBlocks(z))
    /\ errors' = 0 => zone'[z].weight = zone[z].weight + (LiveBlocks(z)' - LiveBlocks(z))

\* Then the weights stay right.
LEMMA WeightSum ==
    ASSUME TypeOK, TypeOK', WeightInv, errors' = errors \/ errors' = errors + 1,
           \A z \in Zone : WeightBalance(z)
    PROVE  WeightInv'
<1>1. errors' = 0 => errors = 0
  BY DEF TypeOK, DevTypeOK
<1>2. ASSUME NEW z \in Zone
      PROVE  /\ zone'[z].weight >= DiskWp[z] + LiveBlocks(z)'
             /\ errors' = 0 => zone'[z].weight = DiskWp[z] + LiveBlocks(z)'
  <2>1. LiveBlocks(z) \in Int /\ LiveBlocks(z)' \in Int
    BY LiveNat
  <2>2. DiskWp[z] \in Int /\ zone[z].weight \in Int /\ zone'[z].weight \in Int
    BY ZmdAssumption, DevAssumption DEF TypeOK, ZmdTypeOK, ZoneRec
  <2>3. /\ zone[z].weight >= DiskWp[z] + LiveBlocks(z)
        /\ errors = 0 => zone[z].weight = DiskWp[z] + LiveBlocks(z)
    BY DEF WeightInv, WeightAtLeast, WeightExact
  <2>4. WeightBalance(z)
    OBVIOUS
  <2> QED BY <1>1, <2>1, <2>2, <2>3, <2>4 DEF WeightBalance
<1>3. WeightAtLeast'
  BY <1>2 DEF WeightAtLeast
<1>4. WeightExact'
  BY <1>2 DEF WeightExact
<1> QED BY <1>3, <1>4 DEF WeightInv

\* The live blocks move with one write, or with one copy, and the map.
LEMMA WriteShift ==
    ASSUME NEW t \in UTasks, OthersKept(t), gt' = gt, NEW z
    PROVE  LiveBlocks(z)' - LiveBlocks(z) =
               (LiveMap(z)' - LiveMap(z)) + Turn(WriteWeight[t], WriteWeight'[t], z)
                   + Turn(OldWeight[t], OldWeight'[t], z)
<1>1. /\ LiveWrite(z)' = LiveWrite(z) + Turn(WriteWeight[t], WriteWeight'[t], z)
      /\ LiveOld(z)' = LiveOld(z) + Turn(OldWeight[t], OldWeight'[t], z)
  BY WriteMoves
<1>2. LiveCopy(z)' = LiveCopy(z) /\ LiveSource(z)' = LiveSource(z)
  BY LiveStill DEF CopiesQuiet
<1>3. Turn(WriteWeight[t], WriteWeight'[t], z) \in Int /\ Turn(OldWeight[t], OldWeight'[t], z) \in Int
  BY DEF Turn
<1> QED BY <1>1, <1>2, <1>3, LiveNat

\* The same for a copy.
LEMMA CopyShift ==
    ASSUME NEW p \in Pbid, GcFrame(p), wt' = wt, NEW z
    PROVE  LiveBlocks(z)' - LiveBlocks(z) =
               (LiveMap(z)' - LiveMap(z)) + Turn(CopyWeight[p], CopyWeight'[p], z)
                   + Turn(SourceWeight[p], SourceWeight'[p], z)
<1>1. /\ LiveCopy(z)' = LiveCopy(z) + Turn(CopyWeight[p], CopyWeight'[p], z)
      /\ LiveSource(z)' = LiveSource(z) + Turn(SourceWeight[p], SourceWeight'[p], z)
  BY CopyMoves
<1>2. LiveWrite(z)' = LiveWrite(z) /\ LiveOld(z)' = LiveOld(z)
  BY LiveStill, InflightFrame DEF WritesQuiet
<1>3. Turn(CopyWeight[p], CopyWeight'[p], z) \in Int /\ Turn(SourceWeight[p], SourceWeight'[p], z) \in Int
  BY DEF Turn
<1> QED BY <1>1, <1>2, <1>3, LiveNat

\* lbz_zone_release_global_res takes the weight of one block off zone y.
LEMMA ReleaseWeight ==
    ASSUME TypeOK, NEW y \in Zone, zone' = [zone EXCEPT ![y] = lbz_zone_release_global_res(@)], NEW z \in Zone
    PROVE  zone'[z].weight = zone[z].weight + Turn(y, NULL, z)
<1>1. zone \in [Zone -> ZoneRec] /\ NULL \notin Zone /\ zone[z].weight \in Int
  BY DevAssumption DEF TypeOK, ZmdTypeOK, ZoneRec
<1>2. CASE z = y
  <2>1. zone'[z] = lbz_zone_release_global_res(zone[z])
    BY <1>1, <1>2
  <2> QED BY <1>1, <1>2, <2>1, GetFields DEF Turn
<1>3. CASE z # y
  BY <1>1, <1>3 DEF Turn
<1> QED BY <1>2, <1>3

\* __alloc_res adds it.
LEMMA AllocWeight ==
    ASSUME TypeOK, PlaceInv, NEW flag, NEW s \in Streams, lbz_zone_alloc_res(flag, s),
           NEW y, y = TargetZone(s), NEW z \in Zone
    PROVE  zone'[z].weight = zone[z].weight + Turn(NULL, y, z)
<1>1. zone[z].weight \in Int /\ NULL \notin Zone
  BY DevAssumption DEF TypeOK, ZmdTypeOK, ZoneRec
<1>2. /\ y \in Zone /\ (z # y => zone'[z] = zone[z]) /\ zone'[y].weight = zone[y].weight + 1
  BY AllocFx DEF PlaceInv
<1> QED BY <1>1, <1>2 DEF Turn

\* A zone's weight and live blocks that move by the same number.
LEMMA Balanced ==
    ASSUME TypeOK, TypeOK', NEW z \in Zone, NEW n \in Int, zone'[z].weight = zone[z].weight + n,
           LiveBlocks(z)' - LiveBlocks(z) <= n, errors' = 0 => LiveBlocks(z)' - LiveBlocks(z) = n
    PROVE  WeightBalance(z)
<1>1. LiveBlocks(z) \in Int /\ LiveBlocks(z)' \in Int
  BY LiveNat
<1>2. zone[z].weight \in Int /\ zone'[z].weight \in Int
  BY DEF TypeOK, ZmdTypeOK, ZoneRec
<1> QED BY <1>1, <1>2 DEF WeightBalance

\* The steps of a user write that touch a weight or a live block.
LEMMA WriteWeights ==
    ASSUME TypeOK, TypeOK', TaskInv, FactsInv, PlaceInv, NEW t \in UTasks, WriteWorks(t), NEW z \in Zone
    PROVE  WeightBalance(z)
<1>1. NULL \notin Zone /\ zone[z].weight \in Int /\ (zone' = zone => zone'[z].weight = zone[z].weight + 0)
  BY DevAssumption DEF TypeOK, ZmdTypeOK, ZoneRec
<1>2. LiveMap(z) \in Int /\ LiveMap(z)' \in Int /\ (pbids' = pbids => LiveMap(z)' = LiveMap(z))
  BY LiveNat, LiveStill
<1>3. ASSUME OthersKept(t), gt' = gt, pbids' = pbids, NEW n \in Int, zone'[z].weight = zone[z].weight + n,
             Turn(WriteWeight[t], WriteWeight'[t], z) + Turn(OldWeight[t], OldWeight'[t], z) = n
      PROVE  WeightBalance(z)
  <2>1. Turn(WriteWeight[t], WriteWeight'[t], z) \in Int /\ Turn(OldWeight[t], OldWeight'[t], z) \in Int
    BY DEF Turn
  <2>2. LiveBlocks(z)' - LiveBlocks(z) =
               (LiveMap(z)' - LiveMap(z)) + Turn(WriteWeight[t], WriteWeight'[t], z)
                   + Turn(OldWeight[t], OldWeight'[t], z)
    BY <1>3, WriteShift
  <2>3. LiveBlocks(z)' - LiveBlocks(z) = n
    BY <1>2, <1>3, <2>1, <2>2
  <2> QED BY <1>3, <2>3, Balanced
<1>4. ASSUME NEW s \in Streams, WriteTakes(t, s) PROVE WeightBalance(z)
  <2>1. PICK y : y = TargetZone(s)
    OBVIOUS
  <2>2. /\ wt[t].pc \in {"alloc", "alloc2"} /\ wt'[t].pc = "append" /\ wt'[t].zone = y /\ OthersKept(t)
        /\ lbz_zone_alloc_res(AllocFlag(t), s) /\ UNCHANGED <<gt, pbids>>
    BY <1>4, <2>1, WGotZoneFx DEF WriteTakes
  <2>3. zone'[z].weight = zone[z].weight + Turn(NULL, y, z)
    BY <2>1, <2>2, AllocWeight
  <2>4. WriteWeight[t] = NULL /\ WriteWeight'[t] = y /\ OldWeight[t] = NULL /\ OldWeight'[t] = NULL
    BY <2>2 DEF WriteWeight, OldWeight, WtWriting
  <2>5. Turn(NULL, y, z) \in Int /\ Turn(NULL, NULL, z) = 0
    BY DEF Turn
  <2> QED BY <1>3, <2>2, <2>3, <2>4, <2>5
<1>5. ASSUME OthersKept(t), UNCHANGED <<zone, gt, pbids>>, WriteWeight'[t] = WriteWeight[t],
             OldWeight'[t] = OldWeight[t]
      PROVE  WeightBalance(z)
  <2>1. Turn(WriteWeight[t], WriteWeight'[t], z) = 0 /\ Turn(OldWeight[t], OldWeight'[t], z) = 0
    BY <1>5 DEF Turn
  <2> QED BY <1>1, <1>3, <1>5, <2>1
<1>6. CASE WAppend(t) \/ WAppendFails(t)
  <2>1. /\ wt[t].pc = "append" /\ wt'[t].pc = "endio" /\ wt'[t].zone = wt[t].zone /\ OthersKept(t)
        /\ UNCHANGED <<zone, gt, pbids>>
    BY <1>6, WAppendFx DEF zmdVars
  <2>2. WriteWeight'[t] = WriteWeight[t] /\ OldWeight'[t] = OldWeight[t]
    BY <2>1 DEF WriteWeight, OldWeight, WtWriting
  <2> QED BY <1>5, <2>1, <2>2
<1>7. CASE WEndio(t) /\ ~wt[t].error
  <2>1. PICK b \in Blks : b = wt[t].blkid
    BY <1>7 DEF WEndio, TaskInv, WtFacts
  <2>2. PICK y \in Zone : y = wt[t].zone
    BY <1>7 DEF WEndio, FactsInv, WtZones
  <2>3. /\ wt[t].pc = "endio" /\ OthersKept(t) /\ wt'[t].old = pbids[b]
        /\ wt'[t].pc = IF pbids[b] = INVALID THEN "newrmap" ELSE "oldrmap"
        /\ pbids' = [pbids EXCEPT ![b] = wt[t].pbid] /\ UNCHANGED <<zone, gt>>
    BY <1>7, <2>1, WEndioFx DEF zmdVars
  <2>4. wt[t].pbid \in Pbid /\ wt[t].pbid[1] = y /\ INVALID \notin Pbid /\ pbids \in [Blks -> Pbid \cup {INVALID}]
    BY <1>7, <2>2, <2>3, DevAssumption DEF FactsInv, WtZones, TypeOK, MappingTypeOK
  <2>5. PICK a : a = MapWeight[b]
    OBVIOUS
  <2>6. MapWeight'[b] = y
    BY <2>1, <2>3, <2>4 DEF MapWeight, Mapped
  <2>7. WriteWeight[t] = y /\ WriteWeight'[t] = NULL
    BY <2>2, <2>3 DEF WriteWeight, WtWriting
  <2>8. OldWeight[t] = NULL /\ OldWeight'[t] = a
    BY <2>1, <2>3, <2>5 DEF OldWeight, MapWeight, Mapped
  <2>9. LiveMap(z)' = LiveMap(z) + Turn(a, y, z)
    BY <2>1, <2>3, <2>4, <2>5, <2>6, MapMoves
  <2>10. LiveBlocks(z)' - LiveBlocks(z) = (LiveMap(z)' - LiveMap(z)) + Turn(y, NULL, z) + Turn(NULL, a, z)
    BY <2>3, <2>7, <2>8, WriteShift
  <2>11. /\ Turn(a, y, z) + Turn(y, NULL, z) + Turn(NULL, a, z) = 0
         /\ Turn(a, y, z) \in Int /\ Turn(y, NULL, z) \in Int /\ Turn(NULL, a, z) \in Int
    BY <1>1 DEF Turn
  <2>12. LiveBlocks(z)' - LiveBlocks(z) = 0
    BY <1>2, <2>9, <2>10, <2>11
  <2> QED BY <1>1, <2>3, <2>12, Balanced
<1>8. CASE WEndio(t) /\ wt[t].error
  <2>1. PICK y : y = wt[t].zone
    OBVIOUS
  <2>2. /\ wt[t].pc = "endio" /\ wt'[t].pc = "del" /\ OthersKept(t) /\ UNCHANGED <<zone, gt, pbids, errors>>
    BY <1>8, WEndioFx DEF zmdVars
  <2>3. errors' # 0
    BY <1>8, <2>2 DEF FactsInv, ErrorsSeen
  <2>4. WriteWeight[t] = y /\ WriteWeight'[t] = NULL /\ OldWeight[t] = NULL /\ OldWeight'[t] = NULL
    BY <2>1, <2>2 DEF WriteWeight, OldWeight, WtWriting
  <2>5. Turn(y, NULL, z) \in Int /\ Turn(y, NULL, z) <= 0 /\ Turn(NULL, NULL, z) = 0
    BY <1>1 DEF Turn
  <2>6. LiveBlocks(z)' - LiveBlocks(z) = (LiveMap(z)' - LiveMap(z)) + Turn(y, NULL, z) + Turn(NULL, NULL, z)
    BY <2>2, <2>4, WriteShift
  <2>7. LiveBlocks(z)' - LiveBlocks(z) <= 0
    BY <1>2, <2>2, <2>5, <2>6
  <2> QED BY <1>1, <2>2, <2>3, <2>7, Balanced
<1>9. CASE WOldRmap(t) \/ WNewRmap(t)
  <2>1. PICK c \in {"oldweight", "del"} : wt' = [wt EXCEPT ![t].pc = c] /\ UNCHANGED <<zone, gt, pbids>>
                                          /\ (c = "del" <=> wt[t].pc = "newrmap")
    BY <1>9 DEF WOldRmap, WNewRmap
  <2>2. wt'[t].pc = c /\ OthersKept(t) /\ KeepsFields(t) /\ wt[t].pc \in {"oldrmap", "newrmap"}
    BY <1>9, <2>1, PcFx DEF WOldRmap, WNewRmap
  <2>3. WriteWeight'[t] = WriteWeight[t] /\ OldWeight'[t] = OldWeight[t]
    BY <2>1, <2>2 DEF WriteWeight, OldWeight, WtWriting, KeepsFields
  <2> QED BY <1>5, <2>1, <2>2, <2>3
<1>10. CASE WOldWeight(t)
  <2>1. /\ wt[t].pc = "oldweight" /\ wt' = [wt EXCEPT ![t].pc = "newrmap"] /\ UNCHANGED <<gt, pbids>>
        /\ zone' = [zone EXCEPT ![wt[t].old[1]] = lbz_zone_release_global_res(@)]
    BY <1>10 DEF WOldWeight, get_zone_by_pbid
  <2>2. wt[t].old \in Pbid
    BY <2>1 DEF FactsInv, WtZones
  <2>3. PICK y \in Zone : y = wt[t].old[1]
    BY <2>2 DEF Pbid
  <2>4. wt'[t].pc = "newrmap" /\ OthersKept(t)
    BY <2>1, PcFx
  <2>5. WriteWeight[t] = NULL /\ WriteWeight'[t] = NULL /\ OldWeight[t] = y /\ OldWeight'[t] = NULL
    BY <2>1, <2>3, <2>4 DEF WriteWeight, OldWeight, WtWriting
  <2>6. zone'[z].weight = zone[z].weight + Turn(y, NULL, z)
    BY <2>1, <2>3, ReleaseWeight
  <2>7. Turn(y, NULL, z) \in Int /\ Turn(NULL, NULL, z) = 0
    BY DEF Turn
  <2> QED BY <1>3, <2>1, <2>4, <2>5, <2>6, <2>7
<1> QED BY <1>4, <1>6, <1>7, <1>8, <1>9, <1>10 DEF WriteWorks

\* The steps of a GC copy that do.
LEMMA CopyWeights ==
    ASSUME TypeOK, TypeOK', TaskInv, FactsInv, PlaceInv, NEW p \in Pbid, CopyWorks(p), NEW z \in Zone
    PROVE  WeightBalance(z)
<1>1. NULL \notin Zone /\ zone[z].weight \in Int /\ (zone' = zone => zone'[z].weight = zone[z].weight + 0)
      /\ (WeightsKept => zone'[z].weight = zone[z].weight + 0)
  BY DevAssumption DEF TypeOK, ZmdTypeOK, ZoneRec, WeightsKept
<1>2. LiveMap(z) \in Int /\ LiveMap(z)' \in Int /\ (pbids' = pbids => LiveMap(z)' = LiveMap(z))
  BY LiveNat, LiveStill
<1>3. ASSUME GcFrame(p), wt' = wt, pbids' = pbids, NEW n \in Int, zone'[z].weight = zone[z].weight + n,
             Turn(CopyWeight[p], CopyWeight'[p], z) + Turn(SourceWeight[p], SourceWeight'[p], z) = n
      PROVE  WeightBalance(z)
  <2>1. Turn(CopyWeight[p], CopyWeight'[p], z) \in Int /\ Turn(SourceWeight[p], SourceWeight'[p], z) \in Int
    BY DEF Turn
  <2>2. LiveBlocks(z)' - LiveBlocks(z) =
               (LiveMap(z)' - LiveMap(z)) + Turn(CopyWeight[p], CopyWeight'[p], z)
                   + Turn(SourceWeight[p], SourceWeight'[p], z)
    BY <1>3, CopyShift
  <2>3. LiveBlocks(z)' - LiveBlocks(z) = n
    BY <1>2, <1>3, <2>1, <2>2
  <2> QED BY <1>3, <2>3, Balanced
<1>4. ASSUME NEW s \in Streams, CopyTakes(p, s) PROVE WeightBalance(z)
  <2>1. PICK y : y = TargetZone(s)
    OBVIOUS
  <2>2. /\ gt[p].pc \in {"alloc", "alloc2"} /\ gt'[p].pc = "append" /\ gt'[p].zone = y /\ GcFrame(p)
        /\ lbz_zone_alloc_res("GC", s) /\ UNCHANGED <<wt, pbids>>
    BY <1>4, <2>1, GGotZoneFx DEF CopyTakes
  <2>3. zone'[z].weight = zone[z].weight + Turn(NULL, y, z)
    BY <2>1, <2>2, AllocWeight
  <2>4. CopyWeight[p] = NULL /\ CopyWeight'[p] = y /\ SourceWeight[p] = NULL /\ SourceWeight'[p] = NULL
    BY <2>2 DEF CopyWeight, SourceWeight, GtWriting
  <2>5. Turn(NULL, y, z) \in Int /\ Turn(NULL, NULL, z) = 0
    BY DEF Turn
  <2> QED BY <1>3, <2>2, <2>3, <2>4, <2>5
<1>5. ASSUME GcFrame(p), WeightsKept, UNCHANGED <<wt, pbids>>, CopyWeight'[p] = CopyWeight[p],
             SourceWeight'[p] = SourceWeight[p]
      PROVE  WeightBalance(z)
  <2>1. Turn(CopyWeight[p], CopyWeight'[p], z) = 0 /\ Turn(SourceWeight[p], SourceWeight'[p], z) = 0
    BY <1>5 DEF Turn
  <2> QED BY <1>1, <1>3, <1>5, <2>1
<1>6. CASE GAppend(p) \/ GAppendFails(p)
  <2>1. /\ gt[p].pc = "append" /\ gt'[p].pc = "endio" /\ gt'[p].zone = gt[p].zone /\ GcFrame(p)
        /\ UNCHANGED <<zone, wt, pbids>>
    BY <1>6, GAppendFx DEF zmdVars
  <2>2. CopyWeight'[p] = CopyWeight[p] /\ SourceWeight'[p] = SourceWeight[p]
    BY <2>1 DEF CopyWeight, SourceWeight, GtWriting
  <2> QED BY <1>5, <2>1, <2>2, OpsKeepWeight
<1>7. CASE GEndio(p)
  <2>1. PICK y, c : /\ y = gt[p].zone /\ c = IF faulty \/ gt[p].error THEN "cb_put" ELSE "cb_rmap"
    OBVIOUS
  <2>2. /\ gt[p].pc = "endio" /\ gt' = [gt EXCEPT ![p].pc = c] /\ UNCHANGED <<wt, pbids, errors>>
        /\ zone' = [zone EXCEPT ![y] = lbz_zone_complete_write(@)]
    BY <1>7, <2>1 DEF GEndio, devVars
  <2>3. gt'[p].pc = c /\ GcFrame(p) /\ gt'[p].zone = y /\ WeightsKept
    <3>1. gt'[p].pc = c /\ GcFrame(p) /\ gt'[p].zone = gt[p].zone
      BY <2>2, GcPcFx DEF GcKeeps
    <3>2. WeightsKept
      BY <2>2, OpsKeepWeight
    <3> QED BY <2>1, <3>1, <3>2
  <2>4. CASE c = "cb_rmap"
    <3>1. CopyWeight'[p] = CopyWeight[p] /\ SourceWeight'[p] = SourceWeight[p]
      BY <2>1, <2>2, <2>3, <2>4 DEF CopyWeight, SourceWeight, GtWriting
    <3> QED BY <1>5, <2>2, <2>3, <3>1
  <2>5. CASE c = "cb_put"
    <3>1. errors' # 0
      BY <2>1, <2>2, <2>5 DEF FactsInv, ErrorsSeen
    <3>2. CopyWeight[p] = y /\ CopyWeight'[p] = NULL /\ SourceWeight[p] = NULL /\ SourceWeight'[p] = NULL
      BY <2>1, <2>2, <2>3, <2>5 DEF CopyWeight, SourceWeight, GtWriting
    <3>3. Turn(y, NULL, z) \in Int /\ Turn(y, NULL, z) <= 0 /\ Turn(NULL, NULL, z) = 0
      BY <1>1 DEF Turn
    <3>4. LiveBlocks(z)' - LiveBlocks(z) = (LiveMap(z)' - LiveMap(z)) + Turn(y, NULL, z) + Turn(NULL, NULL, z)
      BY <2>2, <2>3, <3>2, CopyShift
    <3>5. LiveBlocks(z)' - LiveBlocks(z) <= 0
      BY <1>2, <2>2, <3>3, <3>4
    <3> QED BY <1>1, <2>3, <3>1, <3>5, Balanced
  <2> QED BY <2>1, <2>4, <2>5
<1>8. CASE GCbRmap(p)
  <2>1. /\ gt[p].pc = "cb_rmap" /\ gt' = [gt EXCEPT ![p].pc = "cb_map"] /\ UNCHANGED <<zone, wt, pbids>>
    BY <1>8 DEF GCbRmap
  <2>2. gt'[p].pc = "cb_map" /\ GcFrame(p) /\ gt'[p].zone = gt[p].zone /\ WeightsKept
    BY <2>1, GcPcFx, OpsKeepWeight DEF GcKeeps
  <2>3. CopyWeight'[p] = CopyWeight[p] /\ SourceWeight'[p] = SourceWeight[p]
    BY <2>1, <2>2 DEF CopyWeight, SourceWeight, GtWriting
  <2> QED BY <1>5, <2>1, <2>2, <2>3
<1>9. CASE GCbMap(p)
  <2>1. PICK b \in Blks : b = gt[p].blkid
    BY <1>9 DEF GCbMap, TaskInv, GtFacts
  <2>2. pbids[b] = p /\ INVALID \notin Pbid /\ pbids \in [Blks -> Pbid \cup {INVALID}]
    BY <1>9, <2>1, DevAssumption DEF GCbMap, TaskInv, GcSourceMapped, GtCopying, TypeOK, MappingTypeOK
  <2>3. /\ gt[p].pc = "cb_map" /\ gt' = [gt EXCEPT ![p].pc = "cb_old"] /\ UNCHANGED <<zone, wt>>
        /\ pbids' = [pbids EXCEPT ![b] = gt[p].pbid]
    BY <1>9, <2>1, <2>2 DEF GCbMap, lbz_mapping_add, zmdVars
  <2>4. PICK y \in Zone : y = gt[p].zone /\ gt[p].pbid \in Pbid /\ gt[p].pbid[1] = y
    BY <2>3 DEF FactsInv, GtZones
  <2>5. gt'[p].pc = "cb_old" /\ GcFrame(p)
    BY <2>3, GcPcFx
  <2>6. PICK a : a = p[1]
    OBVIOUS
  <2>7. CopyWeight[p] = y /\ CopyWeight'[p] = NULL /\ SourceWeight[p] = NULL /\ SourceWeight'[p] = a
    BY <2>3, <2>4, <2>5, <2>6 DEF CopyWeight, SourceWeight, GtWriting
  <2>8. MapWeight[b] = a /\ MapWeight'[b] = y
    BY <2>1, <2>2, <2>3, <2>4, <2>6 DEF MapWeight, Mapped
  <2>9. LiveMap(z)' = LiveMap(z) + Turn(a, y, z)
    BY <2>1, <2>2, <2>3, <2>8, MapMoves
  <2>10. LiveBlocks(z)' - LiveBlocks(z) = (LiveMap(z)' - LiveMap(z)) + Turn(y, NULL, z) + Turn(NULL, a, z)
    BY <2>3, <2>5, <2>7, CopyShift
  <2>11. /\ Turn(a, y, z) + Turn(y, NULL, z) + Turn(NULL, a, z) = 0
         /\ Turn(a, y, z) \in Int /\ Turn(y, NULL, z) \in Int /\ Turn(NULL, a, z) \in Int
    BY <1>1 DEF Turn
  <2>12. LiveBlocks(z)' - LiveBlocks(z) = 0
    BY <1>2, <2>9, <2>10, <2>11
  <2> QED BY <1>1, <2>3, <2>12, Balanced
<1>10. CASE GCbOld(p)
  <2>1. PICK y \in Zone : y = p[1]
    BY DEF Pbid
  <2>2. /\ gt[p].pc = "cb_old" /\ gt' = [gt EXCEPT ![p].pc = "cb_put"] /\ UNCHANGED <<wt, pbids>>
        /\ zone' = [zone EXCEPT ![y] = lbz_zone_release_global_res(@)]
    BY <1>10, <2>1 DEF GCbOld, get_zone_by_pbid
  <2>3. gt'[p].pc = "cb_put" /\ GcFrame(p)
    BY <2>2, GcPcFx
  <2>4. CopyWeight[p] = NULL /\ CopyWeight'[p] = NULL /\ SourceWeight[p] = y /\ SourceWeight'[p] = NULL
    BY <2>1, <2>2, <2>3 DEF CopyWeight, SourceWeight, GtWriting
  <2>5. zone'[z].weight = zone[z].weight + Turn(y, NULL, z)
    BY <2>2, ReleaseWeight
  <2>6. Turn(y, NULL, z) \in Int /\ Turn(NULL, NULL, z) = 0
    BY DEF Turn
  <2> QED BY <1>3, <2>2, <2>3, <2>4, <2>5, <2>6
<1> QED BY <1>4, <1>6, <1>7, <1>8, <1>9, <1>10 DEF CopyWorks

\* Every step keeps the weights right.
LEMMA NextWeights ==
    ASSUME TypeOK, TypeOK', TaskInv, FactsInv, PlaceInv, DataKnown, WeightInv, [Next]_vars
    PROVE  WeightInv'
<1>1. errors' = errors \/ errors' = errors + 1
  BY ErrorsGrow
<1>2. SUFFICES ASSUME NEW z \in Zone PROVE WeightBalance(z)
  BY <1>1, WeightSum
<1>3. ASSUME WeightsKept, pbids' = pbids, WritesQuiet, CopiesQuiet PROVE WeightBalance(z)
  <2>1. LiveBlocks(z)' - LiveBlocks(z) = 0
    BY <1>3, LiveStill, LiveNat
  <2>2. zone'[z].weight = zone[z].weight + 0
    BY <1>3 DEF WeightsKept, TypeOK, ZmdTypeOK, ZoneRec
  <2> QED BY <2>1, <2>2, Balanced
<1>4. CASE Quiet
  BY <1>3, <1>4 DEF Quiet
<1>5. CASE WeightsKept /\ UNCHANGED <<pbids, wt, gt>>
  BY <1>3, <1>5, InflightFrame DEF WritesQuiet, CopiesQuiet
<1> QED BY <1>4, <1>5, NextKinds, WriteWeights, CopyWeights

\* lbz_create_device gives each zone the weight of what the medium holds.
LEMMA InitWeights == Init => WeightInv
<1> SUFFICES ASSUME Init PROVE WeightInv
  OBVIOUS
<1>1. /\ \A x \in Blks : MapWeight[x] = NULL
      /\ \A t \in UTasks : WriteWeight[t] = NULL /\ OldWeight[t] = NULL
      /\ \A p \in Pbid : CopyWeight[p] = NULL /\ SourceWeight[p] = NULL
  BY DEF Init, MappingInit, IoInit, NoTask, NoGcTask, MapWeight, Mapped, WriteWeight, WtWriting, OldWeight,
         CopyWeight, GtWriting, SourceWeight
<1>2. ASSUME NEW z \in Zone PROVE LiveBlocks(z) = 0 /\ zone[z].weight = DiskWp[z] /\ DiskWp[z] \in Int
  <2>1. NULL # z
    BY DevAssumption
  <2>2. ASSUME NEW f, \A x \in DOMAIN f : f[x] = NULL PROVE Count(f, z) = 0
    <3>1. {x \in DOMAIN f : f[x] = z} = {}
      BY <2>1, <2>2
    <3> QED BY <3>1, FS_EmptySet DEF Count
  <2>3. /\ DOMAIN MapWeight = Blks /\ DOMAIN WriteWeight = UTasks /\ DOMAIN OldWeight = UTasks
        /\ DOMAIN CopyWeight = Pbid /\ DOMAIN SourceWeight = Pbid
    BY DEF MapWeight, WriteWeight, OldWeight, CopyWeight, SourceWeight
  <2>4. /\ Count(MapWeight, z) = 0 /\ Count(WriteWeight, z) = 0 /\ Count(OldWeight, z) = 0
        /\ Count(CopyWeight, z) = 0 /\ Count(SourceWeight, z) = 0
    BY <1>1, <2>2, <2>3
  <2> QED BY <2>4, ZmdAssumption DEF LiveBlocks, Init, ZmdInit, InitZone
<1> QED BY <1>2 DEF WeightInv, WeightAtLeast, WeightExact

-----------------------------------------------------------------------------
(* Where the live blocks are.                                              *)

\* A place is a kind and its index; h gives the physical block of each place.
OneOf(h) ==
    \A j, k \in HeldIn : \A x \in Holders[j], y \in Holders[k] :
        h[j][x] = h[k][y] /\ h[j][x] # NULL => j = k /\ x = y

\* No place gets a block.
Shrinks(h, g) == \A k \in HeldIn : \A x \in Holders[k] : g[k][x] = h[k][x] \/ g[k][x] = NULL

\* The same, but for the places (a, u) and (b, v).
ShrinksBut(h, g, a, u, b, v) ==
    \A k \in HeldIn : \A x \in Holders[k] :
        (k = a /\ x = u) \/ (k = b /\ x = v) \/ g[k][x] = h[k][x] \/ g[k][x] = NULL

\* Every block of g is one of h.
NoneNew(h, g) ==
    \A k \in HeldIn : \A x \in Holders[k] :
        g[k][x] = NULL \/ \E j \in HeldIn : \E y \in Holders[j] : g[k][x] = h[j][y]

\* Blocks that only go.
LEMMA ShrinkOne ==
    ASSUME NEW h, NEW g, OneOf(h), Shrinks(h, g)
    PROVE  OneOf(g) /\ NoneNew(h, g)
<1>1. OneOf(g)
  BY DEF OneOf, Shrinks
<1>2. NoneNew(h, g)
  BY DEF Shrinks, NoneNew
<1> QED BY <1>1, <1>2

\* One place gets a block nobody has.
LEMMA GainOne ==
    ASSUME NEW h, NEW g, OneOf(h), NEW a \in HeldIn, NEW u \in Holders[a], ShrinksBut(h, g, a, u, a, u),
           \A k \in HeldIn : \A x \in Holders[k] : h[k][x] # g[a][u]
    PROVE  OneOf(g)
  BY DEF OneOf, ShrinksBut

\* The block of (a, u) goes to (b, v), whose own goes to (c, w).
LEMMA MoveOne ==
    ASSUME NEW h, NEW g, OneOf(h), NEW a \in HeldIn, NEW b \in HeldIn, NEW c \in HeldIn,
           a # b, a # c, b # c, NEW u \in Holders[a], NEW v \in Holders[b], NEW w \in Holders[c],
           ShrinksBut(h, g, b, v, c, w), g[a][u] = NULL, g[b][v] = h[a][u], g[c][w] = h[b][v]
    PROVE  OneOf(g) /\ NoneNew(h, g)
<1>1. NoneNew(h, g)
  BY DEF ShrinksBut, NoneNew
<1>2. ASSUME NEW j \in HeldIn, NEW k \in HeldIn, NEW x \in Holders[j], NEW y \in Holders[k],
             g[j][x] = g[k][y], g[j][x] # NULL
      PROVE  j = k /\ x = y
  <2>1. \/ j = b /\ x = v
        \/ j = c /\ x = w
        \/ g[j][x] = h[j][x] /\ ~(j = a /\ x = u) /\ ~(j = b /\ x = v)
    BY <1>2 DEF ShrinksBut
  <2>2. \/ k = b /\ y = v
        \/ k = c /\ y = w
        \/ g[k][y] = h[k][y] /\ ~(k = a /\ y = u) /\ ~(k = b /\ y = v)
    BY <1>2 DEF ShrinksBut
  <2> QED BY <1>2, <2>1, <2>2 DEF OneOf
<1> QED BY <1>1, <1>2 DEF OneOf

\* What is held is written, if it was and no block is blanked.
LEMMA HeldStep ==
    ASSUME OneHolder, HolderWritten, oops' = "none" => oops = "none",
           OneOf(Held'), NoneNew(Held, Held'),
           \A k \in HeldIn : \A x \in Holders[k] : Held[k][x] # NULL =>
               (media[Held[k][x]] # NULL => media'[Held[k][x]] # NULL)
    PROVE  OneHolder' /\ HolderWritten'
<1>1. OneHolder'
  BY DEF OneOf, OneHolder
<1>2. ASSUME oops' = "none", NEW k \in HeldIn, NEW x \in Holders[k], Held'[k][x] # NULL
      PROVE  media'[Held'[k][x]] # NULL
  <2>1. PICK j \in HeldIn : \E y \in Holders[j] : Held'[k][x] = Held[j][y]
    BY <1>2 DEF NoneNew
  <2>2. PICK y \in Holders[j] : Held'[k][x] = Held[j][y]
    BY <2>1
  <2>3. Held[j][y] # NULL /\ media[Held[j][y]] # NULL
    BY <1>2, <2>2 DEF HolderWritten
  <2> QED BY <2>2, <2>3
<1>3. HolderWritten'
  BY <1>2 DEF HolderWritten
<1> QED BY <1>1, <1>3

\* The places, one kind at a time.
LEMMA HeldAt ==
    /\ \A x \in Blks : Held["map"][x] = IF Mapped(x) THEN pbids[x] ELSE NULL
    /\ \A t \in UTasks :
          /\ Held["new"][t] = IF wt[t].pc = "endio" /\ ~wt[t].error THEN wt[t].pbid ELSE NULL
          /\ Held["old"][t] = IF wt[t].pc \in {"oldrmap", "oldweight"} THEN wt[t].old ELSE NULL
    /\ \A p \in Pbid :
          /\ Held["copy"][p] = IF (gt[p].pc = "endio" /\ ~gt[p].error) \/ gt[p].pc \in {"cb_rmap", "cb_map"}
                               THEN gt[p].pbid ELSE NULL
          /\ Held["source"][p] = IF gt[p].pc = "cb_old" THEN p ELSE NULL
  BY DEF Held

\* The same after the step.
LEMMA HeldAfter ==
    /\ \A x \in Blks : Held'["map"][x] = IF pbids'[x] # INVALID THEN pbids'[x] ELSE NULL
    /\ \A t \in UTasks :
          /\ Held'["new"][t] = IF wt'[t].pc = "endio" /\ ~wt'[t].error THEN wt'[t].pbid ELSE NULL
          /\ Held'["old"][t] = IF wt'[t].pc \in {"oldrmap", "oldweight"} THEN wt'[t].old ELSE NULL
    /\ \A p \in Pbid :
          /\ Held'["copy"][p] = IF (gt'[p].pc = "endio" /\ ~gt'[p].error) \/ gt'[p].pc \in {"cb_rmap", "cb_map"}
                                THEN gt'[p].pbid ELSE NULL
          /\ Held'["source"][p] = IF gt'[p].pc = "cb_old" THEN p ELSE NULL
  BY DEF Held, Mapped

\* The kinds and their indices.
LEMMA HoldersAt ==
    /\ Holders["map"] = Blks /\ Holders["new"] = UTasks /\ Holders["old"] = UTasks
    /\ Holders["copy"] = Pbid /\ Holders["source"] = Pbid
    /\ "map" \in HeldIn /\ "new" \in HeldIn /\ "old" \in HeldIn /\ "copy" \in HeldIn /\ "source" \in HeldIn
  BY DEF Holders, HeldIn

\* Who is quiet, or keeps still, keeps its blocks.
LEMMA HeldStill ==
    /\ pbids' = pbids => \A x \in Blks : Held'["map"][x] = Held["map"][x]
    /\ WritesQuiet => \A u \in UTasks : Held'["new"][u] = Held["new"][u] /\ Held'["old"][u] = Held["old"][u]
    /\ CopiesQuiet => \A q \in Pbid : Held'["copy"][q] = Held["copy"][q] /\ Held'["source"][q] = Held["source"][q]
<1>1. pbids' = pbids => \A x \in Blks : Held'["map"][x] = Held["map"][x]
  BY HeldAt, HeldAfter DEF Mapped
<1>2. ASSUME WritesQuiet, NEW u \in UTasks
      PROVE  Held'["new"][u] = Held["new"][u] /\ Held'["old"][u] = Held["old"][u]
  <2>1. \/ wt[u].pc = wt'[u].pc /\ wt[u].pbid = wt'[u].pbid /\ wt[u].old = wt'[u].old /\ wt[u].error = wt'[u].error
        \/ wt[u].pc \notin WritePcs /\ wt'[u].pc \notin WritePcs
    BY <1>2 DEF WritesQuiet, AllUsersKept, WriteQuiet, OthersKept, SameTask
  <2> QED BY <2>1, HeldAt, HeldAfter DEF WritePcs
<1>3. ASSUME CopiesQuiet, NEW q \in Pbid
      PROVE  Held'["copy"][q] = Held["copy"][q] /\ Held'["source"][q] = Held["source"][q]
  <2>1. gt'[q] = gt[q] \/ (gt[q].pc \notin CopyPcs /\ gt'[q].pc \notin CopyPcs)
    BY <1>3 DEF CopiesQuiet, CopyQuiet, GcFrame
  <2> QED BY <2>1, HeldAt, HeldAfter DEF CopyPcs
<1> QED BY <1>1, <1>2, <1>3

\* The others keep their blocks when one write, or one copy, works.
LEMMA HeldOthers ==
    /\ \A t \in UTasks : OthersKept(t) => \A u \in UTasks : u # t =>
          Held'["new"][u] = Held["new"][u] /\ Held'["old"][u] = Held["old"][u]
    /\ \A p \in Pbid : GcFrame(p) => \A q \in Pbid : q # p =>
          Held'["copy"][q] = Held["copy"][q] /\ Held'["source"][q] = Held["source"][q]
<1>1. ASSUME NEW t \in UTasks, OthersKept(t), NEW u \in UTasks, u # t
      PROVE  Held'["new"][u] = Held["new"][u] /\ Held'["old"][u] = Held["old"][u]
  <2>1. wt[u].pc = wt'[u].pc /\ wt[u].pbid = wt'[u].pbid /\ wt[u].old = wt'[u].old /\ wt[u].error = wt'[u].error
    BY <1>1 DEF OthersKept, SameTask
  <2> QED BY <2>1, HeldAt, HeldAfter
<1>2. ASSUME NEW p \in Pbid, GcFrame(p), NEW q \in Pbid, q # p
      PROVE  Held'["copy"][q] = Held["copy"][q] /\ Held'["source"][q] = Held["source"][q]
  <2>1. gt'[q] = gt[q]
    BY <1>2 DEF GcFrame
  <2> QED BY <2>1, HeldAt, HeldAfter
<1> QED BY <1>1, <1>2

\* If only the places (a, u) and (b, v) may get a block.
LEMMA ButRows ==
    ASSUME NEW h, NEW g, NEW a, NEW u, NEW b, NEW v,
           \A x \in Blks : (a = "map" /\ x = u) \/ (b = "map" /\ x = v)
                              \/ g["map"][x] = h["map"][x] \/ g["map"][x] = NULL,
           \A x \in UTasks : (a = "new" /\ x = u) \/ (b = "new" /\ x = v)
                              \/ g["new"][x] = h["new"][x] \/ g["new"][x] = NULL,
           \A x \in UTasks : (a = "old" /\ x = u) \/ (b = "old" /\ x = v)
                              \/ g["old"][x] = h["old"][x] \/ g["old"][x] = NULL,
           \A x \in Pbid : (a = "copy" /\ x = u) \/ (b = "copy" /\ x = v)
                              \/ g["copy"][x] = h["copy"][x] \/ g["copy"][x] = NULL,
           \A x \in Pbid : (a = "source" /\ x = u) \/ (b = "source" /\ x = v)
                              \/ g["source"][x] = h["source"][x] \/ g["source"][x] = NULL
    PROVE  ShrinksBut(h, g, a, u, b, v)
<1>1. ASSUME NEW k \in HeldIn, NEW x \in Holders[k]
      PROVE  (k = a /\ x = u) \/ (k = b /\ x = v) \/ g[k][x] = h[k][x] \/ g[k][x] = NULL
  <2>1. k \in {"map", "new", "old", "copy", "source"}
    BY DEF HeldIn
  <2> QED BY <2>1, HoldersAt
<1> QED BY <1>1 DEF ShrinksBut

\* If no place does.
LEMMA Rows ==
    ASSUME NEW h, NEW g,
           \A x \in Blks : g["map"][x] = h["map"][x] \/ g["map"][x] = NULL,
           \A x \in UTasks : g["new"][x] = h["new"][x] \/ g["new"][x] = NULL,
           \A x \in UTasks : g["old"][x] = h["old"][x] \/ g["old"][x] = NULL,
           \A x \in Pbid : g["copy"][x] = h["copy"][x] \/ g["copy"][x] = NULL,
           \A x \in Pbid : g["source"][x] = h["source"][x] \/ g["source"][x] = NULL
    PROVE  Shrinks(h, g)
<1>1. ASSUME NEW k \in HeldIn, NEW x \in Holders[k] PROVE g[k][x] = h[k][x] \/ g[k][x] = NULL
  <2>1. k \in {"map", "new", "old", "copy", "source"}
    BY DEF HeldIn
  <2> QED BY <2>1, HoldersAt
<1> QED BY <1>1 DEF Shrinks

\* What is held is a physical block.
LEMMA HeldType ==
    ASSUME TypeOK, FactsInv
    PROVE  \A k \in HeldIn : \A x \in Holders[k] : Held[k][x] # NULL => Held[k][x] \in Pbid
<1>1. \A x \in Blks : Held["map"][x] # NULL => Held["map"][x] \in Pbid
  BY HeldAt DEF Mapped, TypeOK, MappingTypeOK
<1>2. \A t \in UTasks : /\ Held["new"][t] # NULL => Held["new"][t] \in Pbid
                        /\ Held["old"][t] # NULL => Held["old"][t] \in Pbid
  BY HeldAt DEF FactsInv, WtZones
<1>3. \A p \in Pbid : /\ Held["copy"][p] # NULL => Held["copy"][p] \in Pbid
                      /\ Held["source"][p] # NULL => Held["source"][p] \in Pbid
  BY HeldAt DEF FactsInv, GtZones
<1> QED BY <1>1, <1>2, <1>3, HoldersAt DEF HeldIn

\* A step in which blocks only go and none is blanked.
LEMMA HeldGoes ==
    ASSUME TypeOK, FactsInv, OneHolder, HolderWritten, oops' = "none" => oops = "none",
           \A q \in Pbid : media[q] # NULL => media'[q] # NULL,
           \A x \in Blks : Held'["map"][x] = Held["map"][x],
           \A x \in UTasks : Held'["new"][x] = Held["new"][x] \/ Held'["new"][x] = NULL,
           \A x \in UTasks : Held'["old"][x] = Held["old"][x] \/ Held'["old"][x] = NULL,
           \A x \in Pbid : Held'["copy"][x] = Held["copy"][x] \/ Held'["copy"][x] = NULL,
           \A x \in Pbid : Held'["source"][x] = Held["source"][x] \/ Held'["source"][x] = NULL
    PROVE  OneHolder' /\ HolderWritten'
<1>1. PICK h, g : h = Held /\ g = Held'
  OBVIOUS
<1>2. Shrinks(h, g)
  BY <1>1, Rows
<1>3. OneOf(h)
  BY <1>1 DEF OneOf, OneHolder
<1>4. OneOf(g) /\ NoneNew(h, g)
  BY <1>2, <1>3, ShrinkOne
<1>5. OneOf(Held') /\ NoneNew(Held, Held')
  BY <1>1, <1>4
<1> QED BY <1>5, HeldStep, HeldType

\* The device's append blanks nothing.
LEMMA AppendKeeps ==
    ASSUME TypeOK, NEW q \in Pbid, NEW v \in Values, ZoneAppend(q, v)
    PROVE  \A p \in Pbid : media[p] # NULL => media'[p] # NULL
  BY DevAssumption DEF ZoneAppend, TypeOK, DevTypeOK

\* A write, or a copy, is given the block q the device has just written.
LEMMA HeldGains ==
    ASSUME TypeOK, OneHolder, HolderWritten, oops = "none", NEW q \in Pbid, NEW v \in Values, ZoneAppend(q, v),
           NEW a \in HeldIn, NEW u \in Holders[a], Held'[a][u] = q, ShrinksBut(Held, Held', a, u, a, u)
    PROVE  OneHolder' /\ HolderWritten'
<1>1. media[q] = NULL /\ media' = [media EXCEPT ![q] = v] /\ media \in [Pbid -> Values \cup {NULL}]
      /\ q # NULL /\ v # NULL
  BY DevAssumption DEF ZoneAppend, WritePointer, TypeOK, DevTypeOK
<1>2. \A k \in HeldIn : \A x \in Holders[k] : Held[k][x] # q
  BY <1>1 DEF HolderWritten
<1>3. PICK h, g : h = Held /\ g = Held'
  OBVIOUS
<1>4. OneOf(h) /\ ShrinksBut(h, g, a, u, a, u) /\ \A k \in HeldIn : \A x \in Holders[k] : h[k][x] # g[a][u]
  BY <1>2, <1>3 DEF OneOf, OneHolder
<1>5. OneOf(g)
  BY <1>4, GainOne
<1>6. OneHolder'
  BY <1>3, <1>5 DEF OneOf, OneHolder
<1>7. ASSUME NEW k \in HeldIn, NEW x \in Holders[k], Held'[k][x] # NULL
      PROVE  media'[Held'[k][x]] # NULL
  <2>1. CASE Held'[k][x] = q
    BY <1>1, <2>1
  <2>2. CASE Held'[k][x] # q
    <3>1. Held'[k][x] = Held[k][x]
      BY <1>7, <2>2 DEF ShrinksBut
    <3>2. media[Held[k][x]] # NULL
      BY <1>7, <3>1 DEF HolderWritten
    <3>3. media'[Held[k][x]] = media[Held[k][x]]
      BY <1>1, <2>2, <3>1
    <3> QED BY <3>1, <3>2, <3>3
  <2> QED BY <2>1, <2>2
<1>8. HolderWritten'
  BY <1>7 DEF HolderWritten
<1> QED BY <1>6, <1>8

\* A block goes from a task into the map, and the one it replaces to the task.
LEMMA HeldMapped ==
    ASSUME OneHolder, HolderWritten, oops' = "none" => oops = "none", media' = media,
           NEW a \in {"new", "copy"}, NEW c \in {"old", "source"},
           NEW u \in Holders[a], NEW b \in Blks, NEW w \in Holders[c],
           Held'[a][u] = NULL, Held'["map"][b] = Held[a][u], Held'[c][w] = Held["map"][b],
           ShrinksBut(Held, Held', "map", b, c, w)
    PROVE  OneHolder' /\ HolderWritten'
<1>1. PICK h, g : h = Held /\ g = Held'
  OBVIOUS
<1>2. OneOf(h)
  BY <1>1 DEF OneOf, OneHolder
<1>3. a \in HeldIn /\ "map" \in HeldIn /\ c \in HeldIn /\ a # "map" /\ a # c /\ "map" # c /\ b \in Holders["map"]
  BY HoldersAt
<1>4. OneOf(g) /\ NoneNew(h, g)
  BY <1>1, <1>2, <1>3, MoveOne
<1>5. OneOf(Held') /\ NoneNew(Held, Held')
  BY <1>1, <1>4
<1> QED BY <1>5, HeldStep

\* The steps of a user write move its block from the write into the map.
LEMMA WriteHeld ==
    ASSUME TypeOK, TaskInv, FactsInv, DataKnown, OneHolder, HolderWritten, oops = "none",
           NEW t \in UTasks, WriteWorks(t)
    PROVE  OneHolder' /\ HolderWritten'
<1>1. /\ gt' = gt => \A x \in Pbid : Held'["copy"][x] = Held["copy"][x] /\ Held'["source"][x] = Held["source"][x]
      /\ pbids' = pbids => \A x \in Blks : Held'["map"][x] = Held["map"][x]
      /\ OthersKept(t) => \A x \in UTasks : x # t =>
            Held'["new"][x] = Held["new"][x] /\ Held'["old"][x] = Held["old"][x]
  BY HeldStill, HeldOthers DEF CopiesQuiet
<1>2. ASSUME OthersKept(t), UNCHANGED <<gt, pbids>>, \A q \in Pbid : media[q] # NULL => media'[q] # NULL,
             Held'["new"][t] = Held["new"][t] \/ Held'["new"][t] = NULL,
             Held'["old"][t] = Held["old"][t] \/ Held'["old"][t] = NULL
      PROVE  OneHolder' /\ HolderWritten'
  BY <1>1, <1>2, HeldGoes
<1>3. ASSUME NEW s \in Streams, WriteTakes(t, s) PROVE OneHolder' /\ HolderWritten'
  <2>1. wt'[t].pc = "append" /\ OthersKept(t) /\ UNCHANGED <<gt, pbids, media>>
    BY <1>3, WGotZoneFx DEF WriteTakes
  <2>2. Held'["new"][t] = NULL /\ Held'["old"][t] = NULL
    BY <2>1, HeldAfter
  <2> QED BY <1>2, <2>1, <2>2
<1>4. CASE WAppend(t) \/ WAppendFails(t)
  <2>1. /\ wt[t].pc = "append" /\ wt'[t].pc = "endio" /\ OthersKept(t) /\ UNCHANGED <<gt, pbids>>
        /\ \/ wt'[t].pbid \in Pbid /\ ZoneAppend(wt'[t].pbid, wt[t].data)
           \/ wt'[t].error /\ UNCHANGED media
    BY <1>4, WAppendFx
  <2>2. Held'["old"][t] = NULL
    BY <2>1, HeldAfter
  <2>3. PICK v \in Values : v = wt[t].data
    BY <2>1 DEF DataKnown
  <2>4. CASE wt'[t].error
    <3>1. Held'["new"][t] = NULL
      BY <2>1, <2>4, HeldAfter
    <3>2. \A q \in Pbid : media[q] # NULL => media'[q] # NULL
      BY <2>1, <2>3, AppendKeeps
    <3> QED BY <1>2, <2>1, <2>2, <3>1, <3>2
  <2>5. CASE ~wt'[t].error
    <3>1. PICK q \in Pbid : q = wt'[t].pbid /\ ZoneAppend(q, v)
      BY <2>1, <2>3, <2>5
    <3>2. Held'["new"][t] = q
      BY <2>1, <2>5, <3>1, HeldAfter
    <3>3. ShrinksBut(Held, Held', "new", t, "new", t)
      BY <1>1, <2>1, <2>2, ButRows
    <3>4. "new" \in HeldIn /\ t \in Holders["new"]
      BY HoldersAt
    <3> QED BY <3>1, <3>2, <3>3, <3>4, HeldGains
  <2> QED BY <2>4, <2>5
<1>5. CASE WEndio(t) /\ ~wt[t].error
  <2>1. PICK b \in Blks : b = wt[t].blkid
    BY <1>5 DEF WEndio, TaskInv, WtFacts
  <2>2. /\ wt[t].pc = "endio" /\ OthersKept(t) /\ wt'[t].old = pbids[b]
        /\ wt'[t].pc = IF pbids[b] = INVALID THEN "newrmap" ELSE "oldrmap"
        /\ pbids' = [pbids EXCEPT ![b] = wt[t].pbid] /\ UNCHANGED <<gt, media, oops>>
    BY <1>5, <2>1, WEndioFx
  <2>3. wt[t].pbid \in Pbid /\ INVALID \notin Pbid /\ pbids \in [Blks -> Pbid \cup {INVALID}]
    BY <1>5, <2>2, DevAssumption DEF FactsInv, WtZones, TypeOK, MappingTypeOK
  <2>4. Held["new"][t] = wt[t].pbid /\ Held'["new"][t] = NULL
    BY <1>5, <2>2, HeldAt, HeldAfter
  <2>5. Held'["map"][b] = wt[t].pbid /\ \A x \in Blks : x # b => Held'["map"][x] = Held["map"][x]
    BY <2>2, <2>3, HeldAt, HeldAfter DEF Mapped
  <2>6. Held'["old"][t] = Held["map"][b]
    BY <2>2, HeldAt, HeldAfter DEF Mapped
  <2>7. ShrinksBut(Held, Held', "map", b, "old", t)
    BY <1>1, <2>2, <2>4, <2>5, ButRows
  <2>8. t \in Holders["new"] /\ t \in Holders["old"]
    BY HoldersAt
  <2> QED BY <2>2, <2>4, <2>5, <2>6, <2>7, <2>8, HeldMapped
<1>6. CASE WEndio(t) /\ wt[t].error
  <2>1. wt'[t].pc = "del" /\ OthersKept(t) /\ UNCHANGED <<gt, pbids, media>>
    BY <1>6, WEndioFx
  <2>2. Held'["new"][t] = NULL /\ Held'["old"][t] = NULL
    BY <2>1, HeldAfter
  <2> QED BY <1>2, <2>1, <2>2
<1>7. CASE WOldRmap(t) \/ WOldWeight(t) \/ WNewRmap(t)
  <2>1. PICK c \in {"oldweight", "newrmap", "del"} :
            /\ wt' = [wt EXCEPT ![t].pc = c] /\ UNCHANGED <<gt, pbids, media>>
            /\ c = "oldweight" => wt[t].pc = "oldrmap"
    BY <1>7 DEF WOldRmap, WOldWeight, WNewRmap, devVars
  <2>2. wt'[t].pc = c /\ KeepsFields(t) /\ OthersKept(t)
    BY <2>1, PcFx
  <2>3. Held'["new"][t] = NULL /\ (Held'["old"][t] = Held["old"][t] \/ Held'["old"][t] = NULL)
    BY <2>1, <2>2, HeldAt, HeldAfter DEF KeepsFields
  <2> QED BY <1>2, <2>1, <2>2, <2>3
<1> QED BY <1>3, <1>4, <1>5, <1>6, <1>7 DEF WriteWorks

\* Those of a GC copy move the new block into the map and the source out of it.
LEMMA CopyHeld ==
    ASSUME TypeOK, TaskInv, FactsInv, DataKnown, OneHolder, HolderWritten, oops = "none",
           NEW p \in Pbid, CopyWorks(p)
    PROVE  OneHolder' /\ HolderWritten'
<1>1. /\ wt' = wt => \A x \in UTasks : Held'["new"][x] = Held["new"][x] /\ Held'["old"][x] = Held["old"][x]
      /\ pbids' = pbids => \A x \in Blks : Held'["map"][x] = Held["map"][x]
      /\ GcFrame(p) => \A x \in Pbid : x # p =>
            Held'["copy"][x] = Held["copy"][x] /\ Held'["source"][x] = Held["source"][x]
  BY HeldStill, HeldOthers, InflightFrame DEF WritesQuiet
<1>2. ASSUME GcFrame(p), UNCHANGED <<wt, pbids>>, \A q \in Pbid : media[q] # NULL => media'[q] # NULL,
             Held'["copy"][p] = Held["copy"][p] \/ Held'["copy"][p] = NULL,
             Held'["source"][p] = Held["source"][p] \/ Held'["source"][p] = NULL
      PROVE  OneHolder' /\ HolderWritten'
  BY <1>1, <1>2, HeldGoes
<1>3. ASSUME NEW s \in Streams, CopyTakes(p, s) PROVE OneHolder' /\ HolderWritten'
  <2>1. gt'[p].pc = "append" /\ GcFrame(p) /\ UNCHANGED <<wt, pbids, media>>
    BY <1>3, GGotZoneFx DEF CopyTakes
  <2>2. Held'["copy"][p] = NULL /\ Held'["source"][p] = NULL
    BY <2>1, HeldAfter
  <2> QED BY <1>2, <2>1, <2>2
<1>4. CASE GAppend(p) \/ GAppendFails(p)
  <2>1. /\ gt[p].pc = "append" /\ gt'[p].pc = "endio" /\ GcFrame(p) /\ UNCHANGED <<wt, pbids>>
        /\ \/ gt'[p].pbid \in Pbid /\ ZoneAppend(gt'[p].pbid, gt[p].data)
           \/ gt'[p].error /\ UNCHANGED media
    BY <1>4, GAppendFx
  <2>2. Held'["source"][p] = NULL
    BY <2>1, HeldAfter
  <2>3. PICK v \in Values : v = gt[p].data
    BY <2>1 DEF DataKnown
  <2>4. CASE gt'[p].error
    <3>1. Held'["copy"][p] = NULL
      BY <2>1, <2>4, HeldAfter
    <3>2. \A q \in Pbid : media[q] # NULL => media'[q] # NULL
      BY <2>1, <2>3, AppendKeeps
    <3> QED BY <1>2, <2>1, <2>2, <3>1, <3>2
  <2>5. CASE ~gt'[p].error
    <3>1. PICK q \in Pbid : q = gt'[p].pbid /\ ZoneAppend(q, v)
      BY <2>1, <2>3, <2>5
    <3>2. Held'["copy"][p] = q
      BY <2>1, <2>5, <3>1, HeldAfter
    <3>3. ShrinksBut(Held, Held', "copy", p, "copy", p)
      BY <1>1, <2>1, <2>2, ButRows
    <3>4. "copy" \in HeldIn /\ p \in Holders["copy"]
      BY HoldersAt
    <3> QED BY <3>1, <3>2, <3>3, <3>4, HeldGains
  <2> QED BY <2>4, <2>5
<1>5. CASE GEndio(p) \/ GCbRmap(p) \/ GCbOld(p)
  <2>1. PICK c \in {"cb_put", "cb_rmap", "cb_map"} :
            /\ gt' = [gt EXCEPT ![p].pc = c] /\ UNCHANGED <<wt, pbids, media>>
            /\ c = "cb_rmap" => gt[p].pc = "endio" /\ ~gt[p].error
            /\ c = "cb_map" => gt[p].pc = "cb_rmap"
    BY <1>5 DEF GEndio, GCbRmap, GCbOld, devVars
  <2>2. gt'[p].pc = c /\ GcKeeps(p) /\ GcFrame(p)
    BY <2>1, GcPcFx
  <2>3. Held'["source"][p] = NULL /\ (Held'["copy"][p] = Held["copy"][p] \/ Held'["copy"][p] = NULL)
    BY <2>1, <2>2, HeldAt, HeldAfter DEF GcKeeps
  <2> QED BY <1>2, <2>1, <2>2, <2>3
<1>6. CASE GCbMap(p)
  <2>1. PICK b \in Blks : b = gt[p].blkid
    BY <1>6 DEF GCbMap, TaskInv, GtFacts
  <2>2. pbids[b] = p /\ INVALID \notin Pbid /\ pbids \in [Blks -> Pbid \cup {INVALID}]
    BY <1>6, <2>1, DevAssumption DEF GCbMap, TaskInv, GcSourceMapped, GtCopying, TypeOK, MappingTypeOK
  <2>3. /\ gt[p].pc = "cb_map" /\ gt' = [gt EXCEPT ![p].pc = "cb_old"] /\ UNCHANGED <<media, wt>>
        /\ pbids' = [pbids EXCEPT ![b] = gt[p].pbid]
    BY <1>6, <2>1, <2>2 DEF GCbMap, lbz_mapping_add
  <2>4. gt[p].pbid \in Pbid
    BY <2>3 DEF FactsInv, GtZones
  <2>5. gt'[p].pc = "cb_old" /\ GcFrame(p)
    BY <2>3, GcPcFx
  <2>6. Held["copy"][p] = gt[p].pbid /\ Held'["copy"][p] = NULL
    BY <2>3, <2>5, HeldAt, HeldAfter
  <2>7. Held'["map"][b] = gt[p].pbid /\ \A x \in Blks : x # b => Held'["map"][x] = Held["map"][x]
    BY <2>2, <2>3, <2>4, HeldAt, HeldAfter DEF Mapped
  <2>8. Held'["source"][p] = Held["map"][b]
    BY <2>2, <2>5, HeldAt, HeldAfter DEF Mapped
  <2>9. ShrinksBut(Held, Held', "map", b, "source", p)
    BY <1>1, <2>3, <2>5, <2>6, <2>7, ButRows
  <2>10. p \in Holders["copy"] /\ p \in Holders["source"]
    BY HoldersAt
  <2> QED BY <2>3, <2>6, <2>7, <2>8, <2>9, <2>10, HeldMapped
<1> QED BY <1>3, <1>4, <1>5, <1>6 DEF CopyWorks

\* Nothing counted, nothing there.
LEMMA CountZero ==
    ASSUME NEW S, IsFiniteSet(S), NEW f, DOMAIN f = S, NEW z, Count(f, z) = 0
    PROVE  \A x \in S : f[x] # z
<1>1. {x \in S : f[x] = z} \in SUBSET S
  OBVIOUS
<1>2. IsFiniteSet({x \in S : f[x] = z})
  BY <1>1, FS_Subset
<1>3. {x \in S : f[x] = z} = {}
  BY <1>2, FS_EmptySet DEF Count
<1> QED BY <1>3

\* So nothing held lives in a zone whose weight is zero.
LEMMA DeadZone ==
    ASSUME TypeOK, FactsInv, WeightAtLeast, NEW z \in Zone, zone[z].weight = 0
    PROVE  \A k \in HeldIn : \A x \in Holders[k] : Held[k][x] # NULL => Held[k][x][1] # z
<1>1. LiveBlocks(z) <= 0 - DiskWp[z] /\ DiskWp[z] \in Nat
  <2>1. DiskWp[z] \in Nat
    BY ZmdAssumption
  <2>2. LiveBlocks(z) \in Int
    BY LiveNat
  <2>3. 0 >= DiskWp[z] + LiveBlocks(z)
    BY DEF WeightAtLeast
  <2> QED BY <2>1, <2>2, <2>3
<1>2. LiveMap(z) = 0 /\ LiveWrite(z) = 0 /\ LiveOld(z) = 0 /\ LiveCopy(z) = 0 /\ LiveSource(z) = 0
  <2>1. /\ LiveMap(z) \in Nat /\ LiveWrite(z) \in Nat /\ LiveOld(z) \in Nat /\ LiveCopy(z) \in Nat
        /\ LiveSource(z) \in Nat
        /\ LiveBlocks(z) = LiveMap(z) + LiveWrite(z) + LiveOld(z) + LiveCopy(z) + LiveSource(z)
    BY LiveNat
  <2> QED BY <1>1, <2>1
<1>3. /\ DOMAIN MapWeight = Blks /\ DOMAIN WriteWeight = UTasks /\ DOMAIN OldWeight = UTasks
      /\ DOMAIN CopyWeight = Pbid /\ DOMAIN SourceWeight = Pbid
  BY DEF MapWeight, WriteWeight, OldWeight, CopyWeight, SourceWeight
<1>4. /\ \A x \in Blks : MapWeight[x] # z
      /\ \A x \in UTasks : WriteWeight[x] # z
      /\ \A x \in UTasks : OldWeight[x] # z
      /\ \A x \in Pbid : CopyWeight[x] # z
      /\ \A x \in Pbid : SourceWeight[x] # z
  <2>1. \A x \in Blks : MapWeight[x] # z
    BY <1>2, <1>3, CountZero, IoAssumption DEF LiveMap
  <2>2. \A x \in UTasks : WriteWeight[x] # z
    BY <1>2, <1>3, CountZero, IoAssumption DEF LiveWrite
  <2>3. \A x \in UTasks : OldWeight[x] # z
    BY <1>2, <1>3, CountZero, IoAssumption DEF LiveOld
  <2>4. \A x \in Pbid : CopyWeight[x] # z
    BY <1>2, <1>3, CountZero, PbidFinite DEF LiveCopy
  <2>5. \A x \in Pbid : SourceWeight[x] # z
    BY <1>2, <1>3, CountZero, PbidFinite DEF LiveSource
  <2> QED BY <2>1, <2>2, <2>3, <2>4, <2>5
<1>5. \A x \in Blks : Held["map"][x] # NULL => Held["map"][x][1] # z
  BY <1>4, HeldAt DEF MapWeight
<1>6. \A x \in UTasks : Held["new"][x] # NULL => Held["new"][x][1] # z
  BY <1>4, HeldAt DEF WriteWeight, WtWriting, FactsInv, WtZones
<1>7. \A x \in UTasks : Held["old"][x] # NULL => Held["old"][x][1] # z
  BY <1>4, HeldAt DEF OldWeight
<1>8. \A x \in Pbid : Held["copy"][x] # NULL => Held["copy"][x][1] # z
  BY <1>4, HeldAt DEF CopyWeight, GtWriting, FactsInv, GtZones
<1>9. \A x \in Pbid : Held["source"][x] # NULL => Held["source"][x][1] # z
  BY <1>4, HeldAt DEF SourceWeight
<1>10. ASSUME NEW k \in HeldIn, NEW x \in Holders[k], Held[k][x] # NULL PROVE Held[k][x][1] # z
  <2>1. k \in {"map", "new", "old", "copy", "source"}
    BY DEF HeldIn
  <2> QED BY <1>5, <1>6, <1>7, <1>8, <1>9, <1>10, <2>1, HoldersAt
<1> QED BY <1>10

\* A reset blanks no block that is held, or the kernel panics.
LEMMA ResetHeld ==
    ASSUME TypeOK, FactsInv, WeightAtLeast, OneHolder, HolderWritten, ZsReset, UNCHANGED <<pbids, wt, gt>>,
           oops' = "none" => oops = "none"
    PROVE  OneHolder' /\ HolderWritten'
<1>1. Held' = Held
  BY DEF Held, Mapped
<1>2. OneHolder'
  BY <1>1 DEF OneHolder
<1>3. ASSUME oops' = "none" PROVE HolderWritten'
  <2>1. PICK i \in Zone : i = zs.i
    BY DEF TypeOK, ZmdTypeOK, ZsRec
  <2>2. zone[i].weight = 0 /\ media' = [p \in Pbid |-> IF p[1] = i THEN NULL ELSE media[p]]
    BY <1>3, <2>1 DEF ZsReset, ZoneReset, get_zone_by_pbid
  <2>3. ASSUME NEW k \in HeldIn, NEW x \in Holders[k], Held[k][x] # NULL
        PROVE  media'[Held[k][x]] = media[Held[k][x]]
    <3>1. Held[k][x] \in Pbid /\ Held[k][x][1] # i
      BY <2>2, <2>3, HeldType, DeadZone
    <3> QED BY <2>2, <3>1
  <2> QED BY <1>1, <1>3, <2>3 DEF HolderWritten
<1>4. CASE oops' # "none"
  BY <1>2, <1>4 DEF HolderWritten
<1> QED BY <1>2, <1>3, <1>4

\* Every step leaves each block in one place, and written.
LEMMA NextHeld ==
    ASSUME TypeOK, TaskInv, FactsInv, PlaceInv, DataKnown, WeightAtLeast, OneHolder, HolderWritten, [Next]_vars
    PROVE  OneHolder' /\ HolderWritten'
<1>1. oops' = "none" => oops = "none"
  BY NextKinds
<1>2. CASE Quiet
  <2>1. pbids' = pbids /\ media' = media /\ WritesQuiet /\ CopiesQuiet
    BY <1>2 DEF Quiet
  <2>2. /\ \A x \in Blks : Held'["map"][x] = Held["map"][x]
        /\ \A x \in UTasks : Held'["new"][x] = Held["new"][x] /\ Held'["old"][x] = Held["old"][x]
        /\ \A x \in Pbid : Held'["copy"][x] = Held["copy"][x] /\ Held'["source"][x] = Held["source"][x]
    BY <2>1, HeldStill
  <2> QED BY <1>1, <2>1, <2>2, HeldGoes
<1>3. ASSUME oops = "none", NEW t \in UTasks, WriteWorks(t) PROVE OneHolder' /\ HolderWritten'
  BY <1>3, WriteHeld
<1>4. ASSUME oops = "none", NEW p \in Pbid, CopyWorks(p) PROVE OneHolder' /\ HolderWritten'
  BY <1>4, CopyHeld
<1>5. CASE ZsReset /\ UNCHANGED <<pbids, wt, gt>>
  BY <1>1, <1>5, ResetHeld
<1> QED BY <1>2, <1>3, <1>4, <1>5, NextKinds

-----------------------------------------------------------------------------
(* The data of a write.                                                    *)

\* A write keeps its data while it works.
LEMMA WriteData ==
    ASSUME TypeOK, DataKnown, NEW t \in UTasks, WriteWorks(t)
    PROVE  wt'[t].data \in Values /\ OthersKept(t) /\ gt' = gt
<1>1. ASSUME wt[t].pc # "none", wt'[t].data = wt[t].data PROVE wt'[t].data \in Values
  BY <1>1 DEF DataKnown
<1>2. ASSUME NEW s \in Streams, WriteTakes(t, s) PROVE wt'[t].data \in Values /\ OthersKept(t) /\ gt' = gt
  <2>1. wt[t].pc # "none" /\ WGotZone(t, s)
    BY <1>2 DEF WriteTakes
  <2> QED BY <1>1, <2>1, WGotZoneFx
<1>3. CASE WAppend(t) \/ WAppendFails(t)
  BY <1>1, <1>3, WAppendFx
<1>4. CASE WEndio(t)
  BY <1>1, <1>4, WEndioFx
<1>5. CASE WOldRmap(t) \/ WOldWeight(t) \/ WNewRmap(t)
  <2>1. wt[t].pc # "none" /\ gt' = gt /\ \E c : wt' = [wt EXCEPT ![t].pc = c]
    BY <1>5 DEF WOldRmap, WOldWeight, WNewRmap
  <2> QED BY <1>1, <2>1, PcFx DEF KeepsFields
<1> QED BY <1>2, <1>3, <1>4, <1>5 DEF WriteWorks

\* So does a copy.
LEMMA CopyData ==
    ASSUME TypeOK, DataKnown, NEW p \in Pbid, CopyWorks(p)
    PROVE  gt'[p].data \in Values /\ GcFrame(p) /\ wt' = wt
<1>1. ASSUME gt[p].pc \notin {"none", "reading", "fault"}, gt'[p].data = gt[p].data PROVE gt'[p].data \in Values
  BY <1>1 DEF DataKnown
<1>2. ASSUME NEW s \in Streams, CopyTakes(p, s) PROVE gt'[p].data \in Values /\ GcFrame(p) /\ wt' = wt
  <2>1. gt[p].pc \notin {"none", "reading", "fault"} /\ GGotZone(p, s)
    BY <1>2 DEF CopyTakes
  <2> QED BY <1>1, <2>1, GGotZoneFx
<1>3. CASE GAppend(p) \/ GAppendFails(p)
  BY <1>1, <1>3, GAppendFx
<1>4. CASE GEndio(p) \/ GCbRmap(p) \/ GCbMap(p) \/ GCbOld(p)
  <2>1. gt[p].pc \notin {"none", "reading", "fault"} /\ wt' = wt /\ \E c : gt' = [gt EXCEPT ![p].pc = c]
    BY <1>4 DEF GEndio, GCbRmap, GCbMap, GCbOld
  <2> QED BY <1>1, <2>1, GcPcFx DEF GcKeeps
<1> QED BY <1>2, <1>3, <1>4 DEF CopyWorks

\* Every step leaves each write and each copy with data.
LEMMA NextData ==
    ASSUME TypeOK, TaskInv, FactsInv, PlaceInv, DataKnown, [Next]_vars
    PROVE  DataKnown'
<1>1. ASSUME WritesQuiet \/ \E t \in UTasks : wt'[t].data \in Values /\ OthersKept(t),
             NEW u \in UTasks, wt'[u].pc # "none"
      PROVE  wt'[u].data \in Values
  BY <1>1 DEF WritesQuiet, WriteQuiet, AllUsersKept, OthersKept, SameTask, DataKnown
<1>2. ASSUME CopiesQuiet \/ \E p \in Pbid : gt'[p].data \in Values /\ GcFrame(p),
             NEW q \in Pbid, gt'[q].pc \notin {"none", "reading", "fault"}
      PROVE  gt'[q].data \in Values
  BY <1>2 DEF CopiesQuiet, CopyQuiet, GcFrame, DataKnown
<1>3. /\ wt' = wt => WritesQuiet
      /\ gt' = gt => CopiesQuiet
  BY InflightFrame DEF WritesQuiet, CopiesQuiet
<1>4. /\ WritesQuiet \/ \E t \in UTasks : wt'[t].data \in Values /\ OthersKept(t)
      /\ CopiesQuiet \/ \E p \in Pbid : gt'[p].data \in Values /\ GcFrame(p)
  <2>1. CASE Quiet
    BY <2>1 DEF Quiet
  <2>2. CASE \E t \in UTasks : WriteWorks(t)
    BY <1>3, <2>2, WriteData
  <2>3. CASE \E p \in Pbid : CopyWorks(p)
    BY <1>3, <2>3, CopyData
  <2>4. CASE UNCHANGED <<wt, gt>>
    BY <1>3, <2>4
  <2> QED BY <2>1, <2>2, <2>3, <2>4, NextKinds
<1> QED BY <1>1, <1>2, <1>4 DEF DataKnown

-----------------------------------------------------------------------------
(* The two maps.                                                           *)

MapsAgree == TaskMapped /\ ForwardReverse /\ ReverseForward

\* Between lbz_mapping_add and the reverse map of the new block.
MapPcs == {"oldrmap", "oldweight", "newrmap"}

\* OneHolder, for the places a step of a write or of a copy compares.
LEMMA Apart ==
    ASSUME TypeOK, FactsInv, OneHolder
    PROVE  /\ \A x, y \in Blks : Mapped(x) /\ Mapped(y) /\ pbids[x] = pbids[y] => x = y
           /\ \A t \in UTasks, x \in Blks :
                 wt[t].pc = "oldrmap" /\ Mapped(x) => pbids[x] # wt[t].old
           /\ \A t \in UTasks, q \in Pbid :
                 wt[t].pc = "oldrmap" /\ gt[q].pc = "cb_map" => gt[q].pbid # wt[t].old
           /\ \A q \in Pbid, x \in Blks :
                 gt[q].pc \in {"cb_rmap", "cb_map"} /\ Mapped(x) => pbids[x] # gt[q].pbid
           /\ \A p, q \in Pbid :
                 gt[p].pc = "cb_rmap" /\ gt[q].pc = "cb_map" => gt[q].pbid # gt[p].pbid
           /\ \A p, q \in Pbid :
                 gt[p].pc = "cb_old" /\ gt[q].pc = "cb_map" => gt[q].pbid # p
           /\ \A p \in Pbid, x \in Blks : gt[p].pc = "cb_old" /\ Mapped(x) => pbids[x] # p
<1>1. ASSUME NEW j \in HeldIn, NEW k \in HeldIn, NEW x \in Holders[j], NEW y \in Holders[k],
             Held[j][x] # NULL, j # k \/ x # y
      PROVE  Held[j][x] # Held[k][y]
  BY <1>1 DEF OneHolder
<1>2. /\ \A x \in Blks : Mapped(x) => Held["map"][x] = pbids[x] /\ pbids[x] # NULL
      /\ \A t \in UTasks : wt[t].pc = "oldrmap" => Held["old"][t] = wt[t].old /\ wt[t].old # NULL
      /\ \A q \in Pbid : gt[q].pc \in {"cb_rmap", "cb_map"} => Held["copy"][q] = gt[q].pbid /\ gt[q].pbid # NULL
      /\ \A p \in Pbid : gt[p].pc = "cb_old" => Held["source"][p] = p /\ p # NULL
  BY HeldAt, DevAssumption DEF Mapped, TypeOK, MappingTypeOK, FactsInv, WtZones, GtZones
<1>3. \A x, y \in Blks : Mapped(x) /\ Mapped(y) /\ pbids[x] = pbids[y] => x = y
  BY <1>1, <1>2, HoldersAt
<1>4. \A t \in UTasks, x \in Blks : wt[t].pc = "oldrmap" /\ Mapped(x) => pbids[x] # wt[t].old
  BY <1>1, <1>2, HoldersAt
<1>5. \A t \in UTasks, q \in Pbid : wt[t].pc = "oldrmap" /\ gt[q].pc = "cb_map" => gt[q].pbid # wt[t].old
  BY <1>1, <1>2, HoldersAt
<1>6. \A q \in Pbid, x \in Blks : gt[q].pc \in {"cb_rmap", "cb_map"} /\ Mapped(x) => pbids[x] # gt[q].pbid
  BY <1>1, <1>2, HoldersAt
<1>7. \A p, q \in Pbid : gt[p].pc = "cb_rmap" /\ gt[q].pc = "cb_map" => gt[q].pbid # gt[p].pbid
  BY <1>1, <1>2, HoldersAt
<1>8. \A p, q \in Pbid : gt[p].pc = "cb_old" /\ gt[q].pc = "cb_map" => gt[q].pbid # p
  BY <1>1, <1>2, HoldersAt
<1>9. \A p \in Pbid, x \in Blks : gt[p].pc = "cb_old" /\ Mapped(x) => pbids[x] # p
  BY <1>1, <1>2, HoldersAt
<1> QED BY <1>3, <1>4, <1>5, <1>6, <1>7, <1>8, <1>9

\* A block that is being mapped by one task is not by another.
LEMMA OneMaps ==
    ASSUME TaskInv
    PROVE  /\ \A t, u \in UTasks : wt[t].pc = "endio" /\ wt[u].pc \in MapPcs => wt[u].blkid # wt[t].blkid
           /\ \A p \in Pbid, u \in UTasks : gt[p].pc = "cb_map" /\ wt[u].pc \in MapPcs => wt[u].blkid # gt[p].blkid
<1>1. /\ \A t \in UTasks : wt[t].pc \in MapPcs \cup {"endio"} => tree[wt[t].blkid] = t
      /\ \A p \in Pbid : gt[p].pc = "cb_map" => tree[gt[p].blkid] = p
  BY DEF TaskInv, TaskTreeExact, WtInTree, GtInTree, MapPcs
<1> QED BY <1>1, IoAssumption DEF MapPcs

\* Steps that map nothing.
LEMMA MapsStill ==
    ASSUME MapsAgree, UNCHANGED <<pbids, zrms>>,
           \A u \in UTasks : SameTask(wt'[u], wt[u]) \/ (wt[u].pc \notin MapPcs /\ wt'[u].pc \notin MapPcs),
           \A q \in Pbid : gt'[q] = gt[q] \/ (gt[q].pc \notin {"cb_map", "cb_old"} /\ gt'[q].pc \notin {"cb_map", "cb_old"})
    PROVE  MapsAgree'
<1>1. \A u \in UTasks : wt[u].pc \in MapPcs \/ wt'[u].pc \in MapPcs =>
          wt'[u].pc = wt[u].pc /\ wt'[u].blkid = wt[u].blkid /\ wt'[u].pbid = wt[u].pbid /\ wt'[u].old = wt[u].old
  BY DEF SameTask
<1>2. \A q \in Pbid : gt[q].pc \in {"cb_map", "cb_old"} \/ gt'[q].pc \in {"cb_map", "cb_old"} => gt'[q] = gt[q]
  OBVIOUS
<1>3. TaskMapped'
  BY <1>1, <1>2 DEF MapsAgree, TaskMapped, MapPcs
<1>4. ForwardReverse'
  BY <1>1 DEF MapsAgree, ForwardReverse, MapPcs, Mapped
<1>5. ReverseForward'
  BY <1>1, <1>2 DEF MapsAgree, ReverseForward, MapPcs
<1> QED BY <1>3, <1>4, <1>5 DEF MapsAgree

\* lbz_mapping_add for a user write: the old block is the write's to release.
LEMMA MapsWrite ==
    ASSUME TypeOK, TaskInv, FactsInv, MapsAgree, NEW t \in UTasks, WEndio(t), ~wt[t].error
    PROVE  MapsAgree'
<1>1. PICK b \in Blks : b = wt[t].blkid
  BY DEF WEndio, TaskInv, WtFacts
<1>2. /\ wt[t].pc = "endio" /\ OthersKept(t) /\ wt'[t].old = pbids[b] /\ wt'[t].blkid = b
      /\ wt'[t].pc = (IF pbids[b] = INVALID THEN "newrmap" ELSE "oldrmap") /\ wt'[t].pbid = wt[t].pbid
      /\ pbids' = [pbids EXCEPT ![b] = wt[t].pbid] /\ UNCHANGED <<gt, zrms>>
  BY <1>1, WEndioFx DEF zmdVars
<1>3. pbids'[b] = wt[t].pbid /\ \A x \in Blks : x # b => pbids'[x] = pbids[x]
  BY <1>2 DEF TypeOK, MappingTypeOK
<1>4. \A u \in UTasks : u # t =>
          wt'[u].pc = wt[u].pc /\ wt'[u].blkid = wt[u].blkid /\ wt'[u].pbid = wt[u].pbid /\ wt'[u].old = wt[u].old
  BY <1>2 DEF OthersKept, SameTask
<1>5. \A u \in UTasks : wt[u].pc \in MapPcs => wt[u].blkid \in Blks /\ wt[u].blkid # b /\ u # t
  BY <1>1, <1>2, OneMaps DEF TaskInv, WtFacts, MapPcs
<1>6. TaskMapped'
  BY <1>1, <1>2, <1>3, <1>4, <1>5 DEF MapsAgree, TaskMapped, MapPcs
<1>7. ASSUME NEW x \in Blks, pbids'[x] # INVALID
      PROVE  zrms'[pbids'[x]] = x \/ \E u \in UTasks : wt'[u].blkid = x /\ wt'[u].pc \in MapPcs
  <2>1. CASE x = b
    BY <1>2, <2>1 DEF MapPcs
  <2>2. CASE x # b
    <3>1. zrms[pbids[x]] = x \/ \E u \in UTasks : wt[u].blkid = x /\ wt[u].pc \in MapPcs
      BY <1>3, <1>7, <2>2 DEF MapsAgree, ForwardReverse, Mapped, MapPcs
    <3> QED BY <1>2, <1>3, <1>4, <1>5, <2>2, <3>1
  <2> QED BY <2>1, <2>2
<1>8. ForwardReverse'
  BY <1>7 DEF ForwardReverse, Mapped, MapPcs
<1>9. ASSUME NEW q \in Pbid, zrms'[q] # INVALID
      PROVE  \/ pbids'[zrms'[q]] = q
             \/ \E u \in UTasks : wt'[u].pc = "oldrmap" /\ wt'[u].blkid = zrms'[q] /\ wt'[u].old = q
             \/ \E r \in Pbid : gt'[r].pc = "cb_map" /\ gt'[r].blkid = zrms'[q] /\ gt'[r].pbid = q
             \/ gt'[q].pc = "cb_old" /\ gt'[q].blkid = zrms'[q]
  <2>1. PICK x \in Blks : x = zrms[q] /\ x = zrms'[q]
    BY <1>2, <1>9 DEF TypeOK, ZmdTypeOK
  <2>2. CASE pbids[x] = q /\ x # b
    BY <1>3, <2>1, <2>2
  <2>3. CASE pbids[x] = q /\ x = b
    <3>1. q # INVALID
      BY DevAssumption
    <3> QED BY <1>2, <2>1, <2>3, <3>1
  <2>4. ASSUME NEW u \in UTasks, wt[u].pc = "oldrmap", wt[u].blkid = x, wt[u].old = q
        PROVE  wt'[u].pc = "oldrmap" /\ wt'[u].blkid = x /\ wt'[u].old = q
    BY <1>4, <1>5, <2>4 DEF MapPcs
  <2> QED BY <1>2, <1>9, <2>1, <2>2, <2>3, <2>4 DEF MapsAgree, ReverseForward
<1>10. ReverseForward'
  BY <1>9 DEF ReverseForward
<1> QED BY <1>6, <1>8, <1>10 DEF MapsAgree

\* The rest of a user write: the old entry goes, the new one comes.
LEMMA MapsWritten ==
    ASSUME TypeOK, TaskInv, FactsInv, OneHolder, MapsAgree, NEW t \in UTasks,
           WOldRmap(t) \/ WOldWeight(t) \/ WNewRmap(t)
    PROVE  MapsAgree'
<1>1. PICK b \in Blks : b = wt[t].blkid
  BY DEF WOldRmap, WOldWeight, WNewRmap, TaskInv, WtFacts
<1>2. PICK o, n : o = wt[t].old /\ n = wt[t].pbid
  OBVIOUS
<1>3. \/ wt[t].pc = "oldrmap" /\ wt' = [wt EXCEPT ![t].pc = "oldweight"] /\ zrms' = [zrms EXCEPT ![o] = INVALID]
      \/ wt[t].pc = "oldweight" /\ wt' = [wt EXCEPT ![t].pc = "newrmap"] /\ zrms' = zrms
      \/ wt[t].pc = "newrmap" /\ wt' = [wt EXCEPT ![t].pc = "del"] /\ zrms' = [zrms EXCEPT ![n] = b]
  BY <1>1, <1>2 DEF WOldRmap, WOldWeight, WNewRmap, lbz_zone_update_reverse_map
<1>4. UNCHANGED <<pbids, gt>>
  BY DEF WOldRmap, WOldWeight, WNewRmap
<1>5. KeepsFields(t) /\ OthersKept(t) /\ wt'[t].pc \in {"oldweight", "newrmap", "del"}
      /\ (wt'[t].pc = "del" <=> wt[t].pc = "newrmap")
  BY <1>3, PcFx
<1>6. /\ \A u \in UTasks : wt'[u].blkid = wt[u].blkid /\ wt'[u].pbid = wt[u].pbid /\ wt'[u].old = wt[u].old
      /\ \A u \in UTasks : u # t => wt'[u].pc = wt[u].pc
  BY <1>5 DEF OthersKept, SameTask, KeepsFields
<1>7. n \in Pbid /\ pbids[b] = n /\ Mapped(b) /\ (wt[t].pc = "oldrmap" => o \in Pbid)
  BY <1>1, <1>2, <1>3, DevAssumption DEF MapsAgree, TaskMapped, FactsInv, WtZones, Mapped
<1>8. /\ zrms \in [Pbid -> Blks \cup {INVALID}] /\ INVALID \notin Blks
      /\ wt[t].pc = "oldrmap" => zrms'[o] = INVALID /\ \A q \in Pbid : q # o => zrms'[q] = zrms[q]
      /\ wt[t].pc = "oldweight" => zrms' = zrms
      /\ wt[t].pc = "newrmap" => zrms'[n] = b /\ \A q \in Pbid : q # n => zrms'[q] = zrms[q]
  BY <1>3, <1>7, DevAssumption DEF TypeOK, ZmdTypeOK
<1>9. wt[t].pc \in {"oldrmap", "oldweight", "newrmap"}
  BY <1>3
<1>10. /\ \A x \in Blks : Mapped(x) /\ pbids[x] = n => x = b
       /\ wt[t].pc = "oldrmap" => \A x \in Blks : Mapped(x) => pbids[x] # o
       /\ \A q \in Pbid : gt[q].pc = "cb_map" => gt[q].pbid # n
       /\ wt[t].pc = "oldrmap" => \A q \in Pbid : gt[q].pc = "cb_map" => gt[q].pbid # o
  <2>1. \A x \in Blks : Mapped(x) /\ pbids[x] = n => x = b
    BY <1>7, Apart
  <2>2. wt[t].pc = "oldrmap" => \A x \in Blks : Mapped(x) => pbids[x] # o
    BY <1>2, Apart
  <2>3. \A q \in Pbid : gt[q].pc = "cb_map" => gt[q].pbid # n
    BY <1>7, Apart
  <2>4. wt[t].pc = "oldrmap" => \A q \in Pbid : gt[q].pc = "cb_map" => gt[q].pbid # o
    BY <1>2, Apart
  <2> QED BY <2>1, <2>2, <2>3, <2>4
<1>11. TaskMapped'
  <2>1. ASSUME NEW u \in UTasks, wt'[u].pc \in MapPcs PROVE pbids'[wt'[u].blkid] = wt'[u].pbid
    BY <1>4, <1>6, <1>9, <2>1 DEF MapsAgree, TaskMapped, MapPcs
  <2>2. ASSUME NEW q \in Pbid, gt[q].pc = "cb_map" PROVE zrms'[gt[q].pbid] = gt[q].blkid
    <3>1. gt[q].pbid \in Pbid /\ zrms[gt[q].pbid] = gt[q].blkid
      BY <2>2 DEF MapsAgree, TaskMapped, FactsInv, GtZones
    <3> QED BY <1>8, <1>9, <1>10, <2>2, <3>1
  <2> QED BY <1>4, <2>1, <2>2 DEF TaskMapped, MapPcs
<1>12. ASSUME NEW x \in Blks, pbids[x] # INVALID
       PROVE  zrms'[pbids[x]] = x \/ \E u \in UTasks : wt'[u].blkid = x /\ wt'[u].pc \in MapPcs
  <2>1. pbids[x] \in Pbid /\ Mapped(x)
    BY <1>12 DEF TypeOK, MappingTypeOK, Mapped
  <2>2. CASE x = b /\ wt[t].pc = "newrmap"
    BY <1>7, <1>8, <2>2
  <2>3. CASE x = b /\ wt[t].pc # "newrmap"
    BY <1>1, <1>5, <1>6, <2>3 DEF MapPcs
  <2>4. CASE x # b
    <3>1. zrms'[pbids[x]] = zrms[pbids[x]]
      BY <1>8, <1>9, <1>10, <2>1, <2>4
    <3>2. zrms[pbids[x]] = x \/ \E u \in UTasks : wt[u].blkid = x /\ wt[u].pc \in MapPcs
      BY <2>1 DEF MapsAgree, ForwardReverse, MapPcs
    <3> QED BY <1>1, <1>6, <2>4, <3>1, <3>2
  <2> QED BY <2>2, <2>3, <2>4
<1>13. ForwardReverse'
  BY <1>4, <1>12 DEF ForwardReverse, Mapped, MapPcs
<1>14. ASSUME NEW q \in Pbid, zrms'[q] # INVALID
       PROVE  \/ pbids[zrms'[q]] = q
              \/ \E u \in UTasks : wt'[u].pc = "oldrmap" /\ wt'[u].blkid = zrms'[q] /\ wt'[u].old = q
              \/ \E r \in Pbid : gt[r].pc = "cb_map" /\ gt[r].blkid = zrms'[q] /\ gt[r].pbid = q
              \/ gt[q].pc = "cb_old" /\ gt[q].blkid = zrms'[q]
  <2>1. CASE q = n /\ wt[t].pc = "newrmap"
    BY <1>7, <1>8, <2>1
  <2>2. CASE ~(q = n /\ wt[t].pc = "newrmap")
    <3>1. zrms'[q] = zrms[q] /\ ~(q = o /\ wt[t].pc = "oldrmap")
      BY <1>8, <1>9, <1>14, <2>2
    <3>2. ASSUME NEW u \in UTasks, wt[u].pc = "oldrmap", wt[u].old = q PROVE u # t
      BY <1>2, <3>1, <3>2
    <3> QED BY <1>6, <1>14, <3>1, <3>2 DEF MapsAgree, ReverseForward
  <2> QED BY <2>1, <2>2
<1>15. ReverseForward'
  BY <1>4, <1>14 DEF ReverseForward
<1> QED BY <1>11, <1>13, <1>15 DEF MapsAgree

\* A GC copy tells the reverse map first, then the map, then drops its source.
LEMMA MapsCopied ==
    ASSUME TypeOK, TaskInv, FactsInv, OneHolder, MapsAgree, NEW p \in Pbid, GCbRmap(p) \/ GCbOld(p)
    PROVE  MapsAgree'
<1>1. PICK b \in Blks : b = gt[p].blkid
  BY DEF GCbRmap, GCbOld, TaskInv, GtFacts
<1>2. PICK n : n = gt[p].pbid
  OBVIOUS
<1>3. \/ gt[p].pc = "cb_rmap" /\ gt' = [gt EXCEPT ![p].pc = "cb_map"] /\ zrms' = [zrms EXCEPT ![n] = b]
      \/ gt[p].pc = "cb_old" /\ gt' = [gt EXCEPT ![p].pc = "cb_put"] /\ zrms' = [zrms EXCEPT ![p] = INVALID]
  BY <1>1, <1>2 DEF GCbRmap, GCbOld, lbz_zone_update_reverse_map
<1>4. UNCHANGED <<pbids, wt>>
  BY DEF GCbRmap, GCbOld
<1>5. GcKeeps(p) /\ GcFrame(p) /\ gt'[p].pc = (IF gt[p].pc = "cb_rmap" THEN "cb_map" ELSE "cb_put")
  BY <1>3, GcPcFx
<1>6. /\ \A q \in Pbid : q # p => gt'[q] = gt[q]
      /\ gt'[p].blkid = b /\ gt'[p].pbid = n
  BY <1>1, <1>2, <1>5 DEF GcFrame, GcKeeps
<1>7. gt[p].pc \in {"cb_rmap", "cb_old"} /\ n \in Pbid
  BY <1>2, <1>3 DEF FactsInv, GtZones
<1>8. /\ zrms \in [Pbid -> Blks \cup {INVALID}] /\ INVALID \notin Blks
      /\ gt[p].pc = "cb_rmap" => zrms'[n] = b /\ \A q \in Pbid : q # n => zrms'[q] = zrms[q]
      /\ gt[p].pc = "cb_old" => zrms'[p] = INVALID /\ \A q \in Pbid : q # p => zrms'[q] = zrms[q]
  BY <1>3, <1>7, DevAssumption DEF TypeOK, ZmdTypeOK
<1>9. /\ gt[p].pc = "cb_rmap" => \A x \in Blks : Mapped(x) => pbids[x] # n
      /\ gt[p].pc = "cb_old" => \A x \in Blks : Mapped(x) => pbids[x] # p
      /\ gt[p].pc = "cb_rmap" => \A q \in Pbid : gt[q].pc = "cb_map" => gt[q].pbid # n
      /\ gt[p].pc = "cb_old" => \A q \in Pbid : gt[q].pc = "cb_map" => gt[q].pbid # p
  <2>1. gt[p].pc = "cb_rmap" => \A x \in Blks : Mapped(x) => pbids[x] # n
    BY <1>2, Apart
  <2>2. gt[p].pc = "cb_old" => \A x \in Blks : Mapped(x) => pbids[x] # p
    BY Apart
  <2>3. gt[p].pc = "cb_rmap" => \A q \in Pbid : gt[q].pc = "cb_map" => gt[q].pbid # n
    BY <1>2, Apart
  <2>4. gt[p].pc = "cb_old" => \A q \in Pbid : gt[q].pc = "cb_map" => gt[q].pbid # p
    BY Apart
  <2> QED BY <2>1, <2>2, <2>3, <2>4
<1>10. TaskMapped'
  <2>1. ASSUME NEW q \in Pbid, gt'[q].pc = "cb_map" PROVE zrms'[gt'[q].pbid] = gt'[q].blkid
    <3>1. CASE q = p
      BY <1>5, <1>6, <1>8, <2>1, <3>1
    <3>2. CASE q # p
      <4>1. gt'[q] = gt[q] /\ gt[q].pbid \in Pbid /\ zrms[gt[q].pbid] = gt[q].blkid
        BY <1>6, <2>1, <3>2 DEF MapsAgree, TaskMapped, FactsInv, GtZones
      <4> QED BY <1>7, <1>8, <1>9, <2>1, <4>1
    <3> QED BY <3>1, <3>2
  <2> QED BY <1>4, <2>1 DEF MapsAgree, TaskMapped
<1>11. ASSUME NEW x \in Blks, Mapped(x) PROVE zrms'[pbids[x]] = zrms[pbids[x]]
  <2>1. pbids[x] \in Pbid
    BY <1>11 DEF TypeOK, MappingTypeOK, Mapped
  <2> QED BY <1>7, <1>8, <1>9, <1>11, <2>1
<1>12. ForwardReverse'
  BY <1>4, <1>11 DEF MapsAgree, ForwardReverse, Mapped
<1>13. ASSUME NEW q \in Pbid, zrms'[q] # INVALID
       PROVE  \/ pbids[zrms'[q]] = q
              \/ \E t \in UTasks : wt[t].pc = "oldrmap" /\ wt[t].blkid = zrms'[q] /\ wt[t].old = q
              \/ \E r \in Pbid : gt'[r].pc = "cb_map" /\ gt'[r].blkid = zrms'[q] /\ gt'[r].pbid = q
              \/ gt'[q].pc = "cb_old" /\ gt'[q].blkid = zrms'[q]
  <2>1. CASE q = n /\ gt[p].pc = "cb_rmap"
    BY <1>5, <1>6, <1>8, <2>1
  <2>2. CASE ~(q = n /\ gt[p].pc = "cb_rmap")
    <3>1. zrms'[q] = zrms[q] /\ ~(q = p /\ gt[p].pc = "cb_old")
      BY <1>7, <1>8, <1>13, <2>2
    <3>2. /\ \A r \in Pbid : gt[r].pc = "cb_map" => gt'[r] = gt[r]
          /\ gt[q].pc = "cb_old" => gt'[q] = gt[q]
      BY <1>6, <1>7, <3>1
    <3> QED BY <1>13, <3>1, <3>2 DEF MapsAgree, ReverseForward
  <2> QED BY <2>1, <2>2
<1>14. ReverseForward'
  BY <1>4, <1>13 DEF ReverseForward
<1> QED BY <1>10, <1>12, <1>14 DEF MapsAgree

\* lbz_mapping_add for a GC copy: its source is the copy's to release.
LEMMA MapsCopy ==
    ASSUME TypeOK, TaskInv, FactsInv, MapsAgree, NEW p \in Pbid, GCbMap(p)
    PROVE  MapsAgree'
<1>1. PICK b \in Blks : b = gt[p].blkid
  BY DEF GCbMap, TaskInv, GtFacts
<1>2. PICK n : n = gt[p].pbid
  OBVIOUS
<1>3. pbids[b] = p /\ INVALID \notin Pbid
  BY <1>1, DevAssumption DEF GCbMap, TaskInv, GcSourceMapped, GtCopying
<1>4. /\ gt[p].pc = "cb_map" /\ gt' = [gt EXCEPT ![p].pc = "cb_old"] /\ UNCHANGED <<zrms, wt>>
      /\ pbids' = [pbids EXCEPT ![b] = n]
  BY <1>1, <1>2, <1>3 DEF GCbMap, lbz_mapping_add, zmdVars
<1>5. zrms[n] = b
  BY <1>1, <1>2, <1>4 DEF MapsAgree, TaskMapped
<1>6. /\ gt'[p].pc = "cb_old" /\ gt'[p].blkid = b /\ \A q \in Pbid : q # p => gt'[q] = gt[q]
  BY <1>1, <1>4, GcPcFx DEF GcKeeps, GcFrame
<1>7. pbids'[b] = n /\ \A x \in Blks : x # b => pbids'[x] = pbids[x]
  BY <1>4 DEF TypeOK, MappingTypeOK
<1>8. \A u \in UTasks : wt[u].pc \in MapPcs => wt[u].blkid \in Blks /\ wt[u].blkid # b
  BY <1>1, <1>4, OneMaps DEF TaskInv, WtFacts, MapPcs
<1>9. TaskMapped'
  <2>1. \A u \in UTasks : wt'[u].pc \in MapPcs => pbids'[wt'[u].blkid] = wt'[u].pbid
    BY <1>4, <1>7, <1>8 DEF MapsAgree, TaskMapped, MapPcs
  <2>2. \A q \in Pbid : gt'[q].pc = "cb_map" => zrms'[gt'[q].pbid] = gt'[q].blkid
    BY <1>4, <1>6 DEF MapsAgree, TaskMapped
  <2> QED BY <2>1, <2>2 DEF TaskMapped, MapPcs
<1>10. ForwardReverse'
  BY <1>4, <1>5, <1>7 DEF MapsAgree, ForwardReverse, Mapped
<1>11. ASSUME NEW q \in Pbid, zrms[q] # INVALID
       PROVE  \/ pbids'[zrms[q]] = q
              \/ \E t \in UTasks : wt[t].pc = "oldrmap" /\ wt[t].blkid = zrms[q] /\ wt[t].old = q
              \/ \E r \in Pbid : gt'[r].pc = "cb_map" /\ gt'[r].blkid = zrms[q] /\ gt'[r].pbid = q
              \/ gt'[q].pc = "cb_old" /\ gt'[q].blkid = zrms[q]
  <2>1. PICK x \in Blks : x = zrms[q]
    BY <1>11 DEF TypeOK, ZmdTypeOK
  <2>2. CASE pbids[x] = q /\ x # b
    BY <1>7, <2>1, <2>2
  <2>3. CASE pbids[x] = q /\ x = b
    BY <1>3, <1>6, <2>1, <2>3
  <2>4. CASE \E t \in UTasks : wt[t].pc = "oldrmap" /\ wt[t].blkid = x /\ wt[t].old = q
    BY <2>1, <2>4
  <2>5. ASSUME NEW r \in Pbid, gt[r].pc = "cb_map", gt[r].blkid = x, gt[r].pbid = q
        PROVE  \/ pbids'[x] = q
               \/ gt'[r].pc = "cb_map" /\ gt'[r].blkid = x /\ gt'[r].pbid = q
    BY <1>1, <1>2, <1>6, <1>7, <2>5
  <2>6. CASE gt[q].pc = "cb_old" /\ gt[q].blkid = x
    BY <1>4, <1>6, <2>1, <2>6
  <2> QED BY <1>11, <2>1, <2>2, <2>3, <2>4, <2>5, <2>6 DEF MapsAgree, ReverseForward
<1>12. ReverseForward'
  BY <1>4, <1>11 DEF ReverseForward
<1> QED BY <1>9, <1>10, <1>12 DEF MapsAgree

\* A reset forgets no entry that is in use.
LEMMA MapsReset ==
    ASSUME TypeOK, FactsInv, WeightAtLeast, MapsAgree, ZsReset, UNCHANGED <<pbids, wt, gt>>
    PROVE  MapsAgree'
<1>1. CASE zrms' = zrms
  BY <1>1 DEF MapsAgree, TaskMapped, ForwardReverse, ReverseForward, Mapped
<1>2. PICK i \in Zone : i = zs.i
  BY DEF TypeOK, ZmdTypeOK, ZsRec
<1>3. CASE zone[i].weight = 0 /\ zrms' = [p \in Pbid |-> IF p[1] = i THEN INVALID ELSE zrms[p]]
  <2>1. ASSUME NEW k \in HeldIn, NEW x \in Holders[k], Held[k][x] # NULL
        PROVE  zrms'[Held[k][x]] = zrms[Held[k][x]]
    <3>1. Held[k][x] \in Pbid /\ Held[k][x][1] # i
      BY <1>3, <2>1, HeldType, DeadZone
    <3> QED BY <1>3, <3>1
  <2>2. ASSUME NEW x \in Blks, Mapped(x) PROVE zrms'[pbids[x]] = zrms[pbids[x]]
    <3>1. Held["map"][x] = pbids[x] /\ pbids[x] # NULL
      BY <2>2, HeldAt, DevAssumption DEF Mapped, TypeOK, MappingTypeOK
    <3> QED BY <2>1, <3>1, HoldersAt
  <2>3. ASSUME NEW q \in Pbid, gt[q].pc = "cb_map" PROVE zrms'[gt[q].pbid] = zrms[gt[q].pbid]
    <3>1. Held["copy"][q] = gt[q].pbid /\ gt[q].pbid # NULL
      BY <2>3, HeldAt, DevAssumption DEF FactsInv, GtZones
    <3> QED BY <2>1, <3>1, HoldersAt
  <2>4. TaskMapped'
    BY <2>3 DEF MapsAgree, TaskMapped
  <2>5. ForwardReverse'
    BY <2>2 DEF MapsAgree, ForwardReverse, Mapped
  <2>6. \A q \in Pbid : zrms'[q] # INVALID => zrms'[q] = zrms[q]
    BY <1>3
  <2>7. ReverseForward'
    BY <2>6 DEF MapsAgree, ReverseForward
  <2> QED BY <2>4, <2>5, <2>7 DEF MapsAgree
<1> QED BY <1>1, <1>2, <1>3 DEF ZsReset

\* Every step keeps the two maps in agreement.
LEMMA NextMaps ==
    ASSUME TypeOK, TaskInv, FactsInv, PlaceInv, DataKnown, WeightAtLeast, OneHolder, MapsAgree, [Next]_vars
    PROVE  MapsAgree'
<1>1. CASE Quiet
  <2>1. \A u \in UTasks : SameTask(wt'[u], wt[u]) \/ (wt[u].pc \notin MapPcs /\ wt'[u].pc \notin MapPcs)
    BY <1>1 DEF Quiet, WritesQuiet, WriteQuiet, AllUsersKept, OthersKept, MapPcs, WritePcs
  <2>2. \A q \in Pbid : gt'[q] = gt[q] \/ (gt[q].pc \notin {"cb_map", "cb_old"} /\ gt'[q].pc \notin {"cb_map", "cb_old"})
    BY <1>1 DEF Quiet, CopiesQuiet, CopyQuiet, GcFrame, CopyPcs
  <2> QED BY <1>1, <2>1, <2>2, MapsStill DEF Quiet
<1>2. ASSUME NEW t \in UTasks, WriteWorks(t) PROVE MapsAgree'
  <2>1. ASSUME OthersKept(t), UNCHANGED <<gt, pbids, zrms>>, wt[t].pc \notin MapPcs, wt'[t].pc \notin MapPcs
        PROVE  MapsAgree'
    BY <2>1, MapsStill DEF OthersKept
  <2>2. ASSUME NEW s \in Streams, WriteTakes(t, s) PROVE MapsAgree'
    <3>1. wt[t].pc \in {"alloc", "alloc2"} /\ wt'[t].pc = "append" /\ OthersKept(t) /\ UNCHANGED <<gt, pbids, zrms>>
      BY <2>2, WGotZoneFx DEF WriteTakes
    <3> QED BY <2>1, <3>1 DEF MapPcs
  <2>3. CASE WAppend(t) \/ WAppendFails(t)
    BY <2>1, <2>3, WAppendFx DEF MapPcs, zmdVars
  <2>4. CASE WEndio(t) /\ wt[t].error
    BY <2>1, <2>4, WEndioFx DEF MapPcs, zmdVars
  <2> QED BY <1>2, <2>2, <2>3, <2>4, MapsWrite, MapsWritten DEF WriteWorks
<1>3. ASSUME NEW p \in Pbid, CopyWorks(p) PROVE MapsAgree'
  <2>1. ASSUME GcFrame(p), UNCHANGED <<wt, pbids, zrms>>, gt[p].pc \notin {"cb_map", "cb_old"},
               gt'[p].pc \notin {"cb_map", "cb_old"}
        PROVE  MapsAgree'
    BY <2>1, MapsStill DEF GcFrame, SameTask
  <2>2. ASSUME NEW s \in Streams, CopyTakes(p, s) PROVE MapsAgree'
    <3>1. gt[p].pc \in {"alloc", "alloc2"} /\ gt'[p].pc = "append" /\ GcFrame(p) /\ UNCHANGED <<wt, pbids, zrms>>
      BY <2>2, GGotZoneFx DEF CopyTakes
    <3> QED BY <2>1, <3>1
  <2>3. CASE GAppend(p) \/ GAppendFails(p)
    BY <2>1, <2>3, GAppendFx DEF zmdVars
  <2>4. CASE GEndio(p)
    <3>1. PICK c \in {"cb_put", "cb_rmap"} : gt' = [gt EXCEPT ![p].pc = c]
      BY <2>4 DEF GEndio
    <3>2. gt[p].pc = "endio" /\ UNCHANGED <<wt, pbids, zrms>>
      BY <2>4 DEF GEndio
    <3> QED BY <2>1, <3>1, <3>2, GcPcFx
  <2> QED BY <1>3, <2>2, <2>3, <2>4, MapsCopy, MapsCopied DEF CopyWorks
<1>4. CASE ZsReset /\ UNCHANGED <<pbids, wt, gt>>
  BY <1>4, MapsReset
<1> QED BY <1>1, <1>2, <1>3, <1>4, NextKinds

-----------------------------------------------------------------------------
(* The theorems.                                                           *)

\* On a new device nothing is mapped and no task is at work.
LEMMA InitBlocks == Init => BlockInv
<1> SUFFICES ASSUME Init PROVE BlockInv
  OBVIOUS
<1>1. /\ \A x \in Blks : pbids[x] = INVALID
      /\ \A t \in UTasks : wt[t].pc = "none"
      /\ \A p \in Pbid : gt[p].pc = "none" /\ zrms[p] = INVALID
  BY DEF Init, MappingInit, IoInit, ZmdInit, NoTask, NoGcTask
<1>2. \A k \in HeldIn : \A x \in Holders[k] : Held[k][x] = NULL
  <2>1. ASSUME NEW k \in HeldIn, NEW x \in Holders[k] PROVE Held[k][x] = NULL
    <3>1. k \in {"map", "new", "old", "copy", "source"}
      BY DEF HeldIn
    <3> QED BY <1>1, <3>1, HoldersAt, HeldAt DEF Mapped
  <2> QED BY <2>1
<1>3. OneHolder /\ HolderWritten
  BY <1>2 DEF OneHolder, HolderWritten
<1>4. DataKnown /\ TaskMapped /\ ForwardReverse /\ ReverseForward
  BY <1>1 DEF DataKnown, TaskMapped, ForwardReverse, ReverseForward, Mapped
<1> QED BY <1>3, <1>4 DEF BlockInv

\* WeightInv and BlockInv are inductive, given IInv and ZoneInv: no step of a
\* write, a copy, the retry worker, GC or a zone reset loses or duplicates a
\* live block, or leaves one map behind the other without a task to mend it.
THEOREM MapInductive == Spec => [](WeightInv /\ BlockInv)
<1>1. Init => WeightInv /\ BlockInv
  BY InitWeights, InitBlocks
<1>2. ASSUME TypeOK, TypeOK', TaskInv, FactsInv, PlaceInv, WeightInv, BlockInv, [Next]_vars
      PROVE  WeightInv' /\ BlockInv'
  <2>1. DataKnown /\ OneHolder /\ HolderWritten /\ MapsAgree /\ WeightAtLeast
    BY <1>2 DEF BlockInv, MapsAgree, WeightInv
  <2>2. WeightInv'
    BY <1>2, <2>1, NextWeights
  <2>3. OneHolder' /\ HolderWritten'
    BY <1>2, <2>1, NextHeld
  <2>4. DataKnown'
    BY <1>2, <2>1, NextData
  <2>5. MapsAgree'
    BY <1>2, <2>1, NextMaps
  <2> QED BY <2>2, <2>3, <2>4, <2>5 DEF BlockInv, MapsAgree
<1>3. Spec => []TypeOK /\ []TaskInv /\ []FactsInv /\ []PlaceInv
  <2>1. IInv => TypeOK /\ TaskInv
    BY DEF IInv
  <2>2. ZoneInv => FactsInv /\ PlaceInv
    BY DEF ZoneInv
  <2> QED BY <2>1, <2>2, Inductive, ZoneInductive, PTL
<1> QED BY <1>1, <1>2, <1>3, PTL DEF Spec

\* Until a command fails zone->weight counts the live blocks of the zone, also
\* between the steps of the callbacks that move one.
THEOREM WeightsExact == Spec => []WeightExact
<1>1. WeightInv /\ BlockInv => WeightExact
  BY DEF WeightInv
<1> QED BY <1>1, MapInductive, PTL

\* GC may trust the reverse map: for a block no task owns it is the inverse of
\* the forward map, whatever writes, copies and resets have gone before.
THEOREM ReverseMapCorrect == Spec => []ReverseMapAgrees
<1>1. ASSUME TypeOK, TaskInv, BlockInv PROVE ReverseMapAgrees
  <2>1. ASSUME NEW x \in Blks, tree[x] = NULL
        PROVE  /\ \A t \in UTasks : wt[t].pc \in MapPcs => wt[t].blkid # x
               /\ \A p \in Pbid : gt[p].pc \in {"cb_map", "cb_old"} => gt[p].blkid # x
    BY <1>1, <2>1, IoAssumption, DevAssumption DEF TaskInv, TaskTreeExact, WtInTree, GtInTree, MapPcs
  <2>2. ASSUME NEW x \in Blks, tree[x] = NULL, Mapped(x) PROVE zrms[pbids[x]] = x
    BY <1>1, <2>1, <2>2 DEF BlockInv, ForwardReverse, MapPcs
  <2>3. ASSUME NEW x \in Blks, tree[x] = NULL, NEW p \in Pbid, zrms[p] = x PROVE pbids[x] = p
    <3>1. x # INVALID
      BY DevAssumption
    <3>2. /\ ~\E t \in UTasks : wt[t].pc = "oldrmap" /\ wt[t].blkid = x
          /\ ~\E q \in Pbid : gt[q].pc \in {"cb_map", "cb_old"} /\ gt[q].blkid = x
      BY <2>1, <2>3 DEF MapPcs
    <3> QED BY <1>1, <2>3, <3>1, <3>2 DEF BlockInv, ReverseForward
  <2> QED BY <2>2, <2>3 DEF ReverseMapAgrees
<1>2. IInv => TypeOK /\ TaskInv
  BY DEF IInv
<1> QED BY <1>1, <1>2, Inductive, MapInductive, PTL
=============================================================================
