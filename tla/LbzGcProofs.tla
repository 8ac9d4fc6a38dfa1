----------------------------- MODULE LbzGcProofs ----------------------------
(***************************************************************************)
(* Garbage collection: the writes pending on a zone, the zones that are    *)
(* quiet, the references of a task, and what makes a collected zone dead   *)
(* before it is reset (GcInv).  What rests on it: copies and reads carry   *)
(* the right data (MediaInv), lbz implements BlockDevice, and the reserve  *)
(* covers what GC has to copy (ReserveInv).                                *)
(***************************************************************************)
EXTENDS LbzMapProofs

-----------------------------------------------------------------------------
(* The operations on a zone descriptor: state and pending writes.          *)

\* What taking and dropping references may do to a descriptor.
Refers(d, e) ==
    /\ MarksAlike(e, d) /\ e.pending_write_io = d.pending_write_io
    /\ \/ e.state = d.state
       \/ e.state = "EMPTY" /\ "GC" \in d.flags
       \/ e.state = "FULL" /\ "TO_FULL" \in d.flags /\ d.pending_write_io = 0

\* A step keeps the zone settled.
Settles(d, e) == ~SplitPut /\ Settled(d) => Settled(e)

\* PutState looks at the flags and the pending writes.
LEMMA PutStateRefers ==
    ASSUME NEW d \in ZoneRec, NEW last \in BOOLEAN
    PROVE  /\ Refers(d, PutState(d, last))
           /\ PutState(d, last).refcount = d.refcount /\ PutState(d, last).in_put = d.in_put
           /\ PutState(d, last).state = "EMPTY" /\ "GC" \in d.flags => last \/ d.state = "EMPTY"
  BY DEF PutState, Refers, MarksAlike, ZoneRec

\* lbz_put_zone, lbz_get_zone, and the counters.
LEMMA PutRefers ==
    ASSUME NEW d \in ZoneRec
    PROVE  Refers(d, lbz_put_zone(d)) /\ Settles(d, lbz_put_zone(d))
<1> DEFINE r == [d EXCEPT !.refcount = @ - 1]
<1>1. /\ r \in ZoneRec /\ r.refcount = d.refcount - 1 /\ r.in_put = d.in_put /\ r.state = d.state
      /\ r.flags = d.flags /\ r.pending_write_io = d.pending_write_io /\ r.wp_block = d.wp_block
  BY DEF ZoneRec
<1>2. lbz_put_zone(d) = IF r.refcount = 0 /\ SplitPut THEN [r EXCEPT !.in_put = TRUE]
                        ELSE PutState(r, r.refcount = 0)
  BY DEF lbz_put_zone
<1>3. d.refcount \in Int
  BY DEF ZoneRec
<1> HIDE DEF r
<1>4. PICK last \in BOOLEAN : last <=> r.refcount = 0
  OBVIOUS
<1>5. PICK i : i = [r EXCEPT !.in_put = TRUE]
  OBVIOUS
<1>6. /\ i.state = r.state /\ i.flags = r.flags /\ i.pending_write_io = r.pending_write_io
      /\ i.wp_block = r.wp_block
  BY <1>1, <1>5 DEF ZoneRec
<1>7. PICK e : e = PutState(r, last)
  OBVIOUS
<1>8. /\ Refers(r, e) /\ e.refcount = r.refcount /\ e.in_put = r.in_put
      /\ e.state = "EMPTY" /\ "GC" \in r.flags => last \/ r.state = "EMPTY"
  BY <1>1, <1>7, PutStateRefers
<1>9. lbz_put_zone(d) = IF r.refcount = 0 /\ SplitPut THEN i ELSE e
  <2>1. PutState(r, r.refcount = 0) = PutState(r, last)
    BY <1>4 DEF PutState
  <2> QED BY <1>2, <1>5, <1>7, <2>1
<1>10. CASE r.refcount = 0 /\ SplitPut
  BY <1>1, <1>6, <1>9, <1>10 DEF Refers, MarksAlike, Settles
<1>11. CASE ~(r.refcount = 0 /\ SplitPut)
  <2>1. lbz_put_zone(d) = e
    BY <1>9, <1>11
  <2>2. Refers(d, e)
    BY <1>1, <1>8 DEF Refers, MarksAlike
  <2>3. Settles(d, e)
    BY <1>1, <1>3, <1>4, <1>8 DEF Settles, Settled, Refers, MarksAlike
  <2> QED BY <2>1, <2>2, <2>3
<1> QED BY <1>10, <1>11

\* Nothing else the tasks do changes more than a count.
LEMMA OpsRefer ==
    ASSUME NEW d \in ZoneRec
    PROVE  /\ Refers(d, d) /\ Settles(d, d)
           /\ Refers(d, lbz_get_zone(d))
           /\ Refers(d, lbz_put_zone(lbz_get_zone(d))) /\ Settles(d, lbz_put_zone(lbz_get_zone(d)))
           /\ Refers(d, lbz_zone_release_global_res(d)) /\ Settles(d, lbz_zone_release_global_res(d))
           /\ Refers(d, PutState([d EXCEPT !.in_put = FALSE], TRUE))
<1>1. Refers(d, d) /\ Settles(d, d)
  BY DEF Refers, MarksAlike, Settles
<1>2. /\ lbz_get_zone(d) \in ZoneRec /\ lbz_get_zone(d).refcount = d.refcount + 1
      /\ lbz_get_zone(d).in_put = d.in_put /\ lbz_get_zone(d).state = d.state
      /\ lbz_get_zone(d).pending_write_io = d.pending_write_io /\ lbz_get_zone(d).flags = d.flags
      /\ lbz_get_zone(d).wp_block = d.wp_block
  BY DEF lbz_get_zone, ZoneRec
<1>3. Refers(d, lbz_get_zone(d))
  BY <1>2 DEF Refers, MarksAlike
<1>4. /\ Refers(d, lbz_zone_release_global_res(d)) /\ Settles(d, lbz_zone_release_global_res(d))
  BY DEF lbz_zone_release_global_res, ZoneRec, Refers, MarksAlike, Settles, Settled
<1>5. Refers(d, PutState([d EXCEPT !.in_put = FALSE], TRUE))
  <2> DEFINE r == [d EXCEPT !.in_put = FALSE]
  <2>1. /\ r \in ZoneRec /\ r.flags = d.flags /\ r.wp_block = d.wp_block /\ r.state = d.state
        /\ r.pending_write_io = d.pending_write_io
    BY DEF ZoneRec
  <2> HIDE DEF r
  <2>2. Refers(r, PutState(r, TRUE))
    BY <2>1, PutStateRefers
  <2>3. Refers(d, PutState(r, TRUE))
    BY <2>1, <2>2 DEF Refers, MarksAlike
  <2> QED BY <2>3 DEF r
<1>6. Refers(d, lbz_put_zone(lbz_get_zone(d))) /\ Settles(d, lbz_put_zone(lbz_get_zone(d)))
  <2> DEFINE g == lbz_get_zone(d)
             r == [g EXCEPT !.refcount = @ - 1]
  <2>1. /\ r \in ZoneRec /\ r.refcount = d.refcount /\ r.in_put = d.in_put /\ r.state = d.state
        /\ r.flags = d.flags /\ r.pending_write_io = d.pending_write_io /\ r.wp_block = d.wp_block
    BY <1>2 DEF ZoneRec
  <2>2. lbz_put_zone(g) = IF r.refcount = 0 /\ SplitPut THEN [r EXCEPT !.in_put = TRUE]
                          ELSE PutState(r, r.refcount = 0)
    BY DEF lbz_put_zone
  <2> HIDE DEF g, r
  <2>3. PICK last \in BOOLEAN : last <=> r.refcount = 0
    OBVIOUS
  <2>4. PutState(r, r.refcount = 0) = PutState(r, last)
    BY <2>3 DEF PutState
  <2>5. PICK i, e : i = [r EXCEPT !.in_put = TRUE] /\ e = PutState(r, last)
    OBVIOUS
  <2>6. /\ Refers(r, e) /\ e.refcount = r.refcount /\ e.in_put = r.in_put
        /\ e.state = "EMPTY" /\ "GC" \in r.flags => last \/ r.state = "EMPTY"
    BY <2>1, <2>5, PutStateRefers
  <2>7. Refers(d, e)
    BY <2>1, <2>6 DEF Refers, MarksAlike
  <2>8. Settles(d, e)
    BY <2>1, <2>3, <2>6 DEF Settles, Settled, Refers, MarksAlike, ZoneRec
  <2>9. Refers(d, i)
    BY <2>1, <2>5 DEF Refers, MarksAlike, ZoneRec
  <2>10. Refers(d, lbz_put_zone(g)) /\ Settles(d, lbz_put_zone(g))
    BY <2>2, <2>4, <2>5, <2>7, <2>8, <2>9 DEF Settles
  <2> QED BY <2>10 DEF g
<1> QED BY <1>1, <1>3, <1>4, <1>5, <1>6

\* Both are transitive.
LEMMA RefersTwice ==
    ASSUME NEW d, NEW e, NEW f
    PROVE  /\ Refers(d, e) /\ Refers(e, f) => Refers(d, f)
           /\ Settles(d, e) /\ Settles(e, f) => Settles(d, f)
  BY DEF Refers, Settles, MarksAlike

-----------------------------------------------------------------------------
(* What a step does to the zones and to the writes pending on them.        *)

ZonesRefer  == \A z \in Zone : Refers(zone[z], zone'[z])
ZonesSettle == \A z \in Zone : Settles(zone[z], zone'[z])
PendSame ==
    /\ \A t \in UTasks : WritePending'[t] = WritePending[t]
    /\ \A p \in Pbid : CopyPending'[p] = CopyPending[p]

\* A step that takes or drops references, and one that drops or keeps them.
Calm   == ZonesRefer /\ UNCHANGED <<listVars, zs>> /\ PendSame
Calmer == Calm /\ ZonesSettle

\* One operation on one zone.
LEMMA OneRefers ==
    ASSUME TypeOK, NEW y
    PROVE  /\ \/ zone' = zone
              \/ ZonePut(y)
              \/ zone' = [zone EXCEPT ![y] = lbz_zone_release_global_res(@)]
              => ZonesRefer /\ ZonesSettle
           /\ zone' = [zone EXCEPT ![y] = lbz_get_zone(@)] => ZonesRefer
           /\ zone' = [zone EXCEPT ![y] = PutState([@ EXCEPT !.in_put = FALSE], TRUE)] => ZonesRefer
<1>1. zone \in [Zone -> ZoneRec]
  BY DEF TypeOK, ZmdTypeOK
<1>2. ASSUME NEW z \in Zone
      PROVE  /\ Refers(zone[z], zone[z]) /\ Settles(zone[z], zone[z])
             /\ Refers(zone[z], lbz_get_zone(zone[z]))
             /\ Refers(zone[z], lbz_zone_release_global_res(zone[z]))
             /\ Settles(zone[z], lbz_zone_release_global_res(zone[z]))
             /\ Refers(zone[z], PutState([zone[z] EXCEPT !.in_put = FALSE], TRUE))
             /\ Refers(zone[z], lbz_put_zone(zone[z])) /\ Settles(zone[z], lbz_put_zone(zone[z]))
  <2>1. zone[z] \in ZoneRec
    BY <1>1
  <2> QED BY <2>1, OpsRefer, PutRefers
<1>4. ASSUME zone' = zone PROVE ZonesRefer /\ ZonesSettle
  BY <1>2, <1>4 DEF ZonesRefer, ZonesSettle
<1>5. ASSUME ZonePut(y) PROVE ZonesRefer /\ ZonesSettle
  <2>1. \A z \in Zone : zone'[z] = zone[z] \/ zone'[z] = lbz_put_zone(zone[z])
    BY <1>1, <1>5 DEF ZonePut
  <2> QED BY <1>2, <2>1 DEF ZonesRefer, ZonesSettle
<1>6. ASSUME zone' = [zone EXCEPT ![y] = lbz_zone_release_global_res(@)] PROVE ZonesRefer /\ ZonesSettle
  <2>1. \A z \in Zone : zone'[z] = zone[z] \/ zone'[z] = lbz_zone_release_global_res(zone[z])
    BY <1>1, <1>6
  <2> QED BY <1>2, <2>1 DEF ZonesRefer, ZonesSettle
<1>7. ASSUME zone' = [zone EXCEPT ![y] = lbz_get_zone(@)] PROVE ZonesRefer
  <2>1. \A z \in Zone : zone'[z] = zone[z] \/ zone'[z] = lbz_get_zone(zone[z])
    BY <1>1, <1>7
  <2> QED BY <1>2, <2>1 DEF ZonesRefer
<1>8. ASSUME zone' = [zone EXCEPT ![y] = PutState([@ EXCEPT !.in_put = FALSE], TRUE)] PROVE ZonesRefer
  <2>1. \A z \in Zone : zone'[z] = zone[z] \/ zone'[z] = PutState([zone[z] EXCEPT !.in_put = FALSE], TRUE)
    BY <1>1, <1>8
  <2> QED BY <1>2, <2>1 DEF ZonesRefer
<1> QED BY <1>4, <1>5, <1>6, <1>7, <1>8

\* The callback a task_put may run.
LEMMA CallbackRefers ==
    ASSUME TypeOK, NoCallback \/ \E p \in Pbid : Callback(p)
    PROVE  ZonesRefer /\ ZonesSettle /\ \A p \in Pbid : CopyPending'[p] = CopyPending[p]
<1>1. CASE NoCallback
  BY <1>1, OneRefers DEF NoCallback, ZoneKept, CopyPending
<1>2. ASSUME NEW q \in Pbid, Callback(q)
      PROVE  ZonesRefer /\ ZonesSettle /\ \A p \in Pbid : CopyPending'[p] = CopyPending[p]
  <2>1. gt[q].pc = "agency" /\ ZonePut(q[1]) /\ gt' = [gt EXCEPT ![q] = NoGcTask]
    BY <1>2 DEF Callback
  <2>2. gt'[q].pc = "none" /\ GcFrame(q)
    BY <2>1, GcGoneFx DEF GcGone
  <2>3. \A p \in Pbid : CopyPending'[p] = CopyPending[p]
    BY <2>1, <2>2 DEF CopyPending, GcFrame
  <2> QED BY <2>1, <2>3, OneRefers
<1> QED BY <1>1, <1>2

\* The steps of a user write.
LEMMA WriteZones ==
    ASSUME TypeOK, TaskInv, FactsInv, NEW t \in UTasks, SubmitWrite(t) \/ WriteStep(t)
    PROVE  Calmer \/ WComplete(t) \/ \E s \in Streams : WriteTakes(t, s)
<1> DEFINE Pcs == {"append", "endio", "oldrmap", "oldweight", "newrmap", "del", "complete"}
<1>1. ASSUME OthersKept(t), wt'[t].zone = wt[t].zone, wt[t].pc \in Pcs <=> wt'[t].pc \in Pcs
      PROVE  \A u \in UTasks : WritePending'[u] = WritePending[u]
  BY <1>1 DEF WritePending, OthersKept, SameTask, WtWriting
<1>2. ASSUME OthersKept(t), wt[t].pc \notin Pcs, wt'[t].pc \notin Pcs
      PROVE  \A u \in UTasks : WritePending'[u] = WritePending[u]
  BY <1>2 DEF WritePending, OthersKept, SameTask, WtWriting
<1>3. gt' = gt => \A p \in Pbid : CopyPending'[p] = CopyPending[p]
  BY DEF CopyPending
<1>4. zone' = zone => ZonesRefer /\ ZonesSettle
  BY OneRefers
<1>5. CASE SubmitWrite(t)
  <2>1. /\ OthersKept(t) /\ wt[t].pc = "none" /\ wt'[t].pc \in {"alloc", "conflict"}
        /\ UNCHANGED <<zone, listVars, zs, gt>>
    BY <1>5, SubmitFx DEF lowVars, zmdVars
  <2> QED BY <1>2, <1>3, <1>4, <2>1 DEF Calm, Calmer, PendSame
<1>6. CASE WConflict(t) \/ WDel(t)
  <2>1. /\ \/ wt[t].pc = "conflict" /\ wt'[t].pc = "queued"
           \/ wt[t].pc = "del" /\ wt'[t].pc = "complete"
        /\ OthersKept(t) /\ KeepsFields(t) /\ UNCHANGED <<listVars, zs>>
        /\ NoCallback \/ \E p \in Pbid : Callback(p)
    BY <1>6, WConflictFx, WDelFx
  <2>2. \A u \in UTasks : WritePending'[u] = WritePending[u]
    BY <1>1, <1>2, <2>1 DEF KeepsFields
  <2> QED BY <2>1, <2>2, CallbackRefers DEF Calm, Calmer, PendSame
<1>7. CASE WAlloc(t)
  <2>1. wt[t].pc = "alloc" /\ StreamId[wt[t].blkid] \in Streams
    BY <1>7, IoAssumption DEF WAlloc, TaskInv, WtFacts
  <2>2. CASE wt' = [wt EXCEPT ![t].pc = "alloc2"] /\ UNCHANGED <<lowVars, gt>>
    <3>1. OthersKept(t) /\ wt'[t].pc = "alloc2"
      BY <2>2, PcFx
    <3> QED BY <1>2, <1>3, <1>4, <2>1, <2>2, <3>1 DEF Calm, Calmer, PendSame, lowVars, zmdVars
  <2> QED BY <1>7, <2>1, <2>2 DEF WAlloc, WriteTakes
<1>8. CASE WAlloc2(t)
  <2>1. wt[t].pc = "alloc2" /\ OtherStream(StreamId[wt[t].blkid]) \in Streams
    BY <1>8, IoAssumption DEF WAlloc2, TaskInv, WtFacts, OtherStream, Streams, LBZ_ZONE_MAX_STREAM
  <2>2. CASE WAllocEagain(t) /\ UNCHANGED <<listVars, zs>>
    <3>1. OthersKept(t) /\ wt'[t].pc = "queued" /\ UNCHANGED <<zone, gt>>
      BY <2>2, PcFx DEF WAllocEagain
    <3> QED BY <1>2, <1>3, <1>4, <2>1, <2>2, <3>1 DEF Calm, Calmer, PendSame
  <2>3. CASE WAllocEio(t) /\ UNCHANGED <<listVars, zs>>
    <3>1. wt'[t].pc = "none" /\ OthersKept(t) /\ (NoCallback \/ \E p \in Pbid : Callback(p))
      BY <2>3, WAllocEioFx
    <3> QED BY <1>2, <2>1, <2>3, <3>1, CallbackRefers DEF Calm, Calmer, PendSame
  <2> QED BY <1>8, <2>1, <2>2, <2>3 DEF WAlloc2, WriteTakes
<1>9. CASE WAppend(t) \/ WAppendFails(t)
  <2>1. /\ wt[t].pc = "append" /\ wt'[t].pc = "endio" /\ OthersKept(t) /\ wt'[t].zone = wt[t].zone
        /\ UNCHANGED <<zmdVars, gt>>
    BY <1>9, WAppendFx
  <2> QED BY <1>1, <1>3, <1>4, <2>1 DEF Calm, Calmer, PendSame, zmdVars
<1>10. CASE WEndio(t)
  <2>1. /\ wt[t].pc = "endio" /\ wt'[t].pc \in {"newrmap", "oldrmap", "del"} /\ OthersKept(t)
        /\ wt'[t].zone = wt[t].zone /\ UNCHANGED <<zmdVars, gt>>
    BY <1>10, WEndioFx
  <2> QED BY <1>1, <1>3, <1>4, <2>1 DEF Calm, Calmer, PendSame, zmdVars
<1>11. CASE WOldRmap(t) \/ WOldWeight(t) \/ WNewRmap(t)
  <2>1. PICK c, y : /\ wt' = [wt EXCEPT ![t].pc = c] /\ UNCHANGED <<gt, listVars, zs>>
                    /\ wt[t].pc \in Pcs /\ c \in Pcs
                    /\ \/ zone' = zone
                       \/ zone' = [zone EXCEPT ![y] = lbz_zone_release_global_res(@)]
    BY <1>11 DEF WOldRmap, WOldWeight, WNewRmap
  <2>2. OthersKept(t) /\ wt'[t].pc = c /\ wt'[t].zone = wt[t].zone
    BY <2>1, PcFx DEF KeepsFields
  <2> QED BY <1>1, <1>3, <2>1, <2>2, OneRefers DEF Calm, Calmer, PendSame
<1>12. CASE WPut(t)
  <2>1. /\ wt[t].pc = "put" /\ wt'[t].pc = "none" /\ OthersKept(t) /\ ZonePut(wt[t].zone)
        /\ UNCHANGED <<listVars, zs, gt>>
    BY <1>12, WPutFx
  <2>2. PICK y : y = wt[t].zone
    OBVIOUS
  <2>3. ZonesRefer /\ ZonesSettle
    BY <2>1, <2>2, OneRefers
  <2> QED BY <1>2, <1>3, <2>1, <2>3 DEF Calm, Calmer, PendSame
<1> QED BY <1>5, <1>6, <1>7, <1>8, <1>9, <1>10, <1>11, <1>12 DEF WriteStep

\* Descriptors zn that two operations lead to.
LEMMA PutAfter ==
    ASSUME TypeOK, NEW zn \in [Zone -> ZoneRec], NEW y,
           \A z \in Zone : Refers(zone[z], zn[z]) /\ Settles(zone[z], zn[z]),
           zone' = [zn EXCEPT ![y] = lbz_put_zone(@)]
    PROVE  ZonesRefer /\ ZonesSettle
<1>1. ASSUME NEW z \in Zone PROVE Refers(zone[z], zone'[z]) /\ Settles(zone[z], zone'[z])
  <2>1. zn[z] \in ZoneRec /\ (zone'[z] = zn[z] \/ zone'[z] = lbz_put_zone(zn[z]))
    OBVIOUS
  <2>2. Refers(zn[z], lbz_put_zone(zn[z])) /\ Settles(zn[z], lbz_put_zone(zn[z]))
    BY <2>1, PutRefers
  <2> QED BY <2>1, <2>2, RefersTwice
<1> QED BY <1>1 DEF ZonesRefer, ZonesSettle

\* lbz_mapping_lookup and lbz_put_zone.
LEMMA LookupRefers ==
    ASSUME TypeOK, NEW b \in Blks, NEW zn, zn = LookupAndPut(b)
    PROVE  zn \in [Zone -> ZoneRec] /\ \A z \in Zone : Refers(zone[z], zn[z]) /\ Settles(zone[z], zn[z])
<1>1. zone \in [Zone -> ZoneRec] /\ zn \in [Zone -> ZoneRec]
  BY LookupFx DEF ZonesAlike, TypeOK, ZmdTypeOK
<1>2. ASSUME NEW z \in Zone PROVE Refers(zone[z], zn[z]) /\ Settles(zone[z], zn[z])
  <2>1. zone[z] \in ZoneRec
    BY <1>1
  <2>2. zn[z] = zone[z] \/ zn[z] = lbz_put_zone(lbz_get_zone(zone[z]))
    BY <1>1 DEF LookupAndPut
  <2> QED BY <2>1, <2>2, OpsRefer
<1> QED BY <1>1, <1>2

\* The steps of a GC copy.
LEMMA CopyZones ==
    ASSUME TypeOK, TaskInv, FactsInv, NEW p \in Pbid, GcCopy(p)
    PROVE  Calmer \/ GEndio(p) \/ \E s \in Streams : CopyTakes(p, s)
<1> DEFINE Pcs == {"append", "endio"}
<1>1. ASSUME GcFrame(p), gt'[p].zone = gt[p].zone, gt[p].pc \in Pcs <=> gt'[p].pc \in Pcs
      PROVE  \A q \in Pbid : CopyPending'[q] = CopyPending[q]
  BY <1>1 DEF CopyPending, GcFrame
<1>2. ASSUME GcFrame(p), gt[p].pc \notin Pcs, gt'[p].pc \notin Pcs
      PROVE  \A q \in Pbid : CopyPending'[q] = CopyPending[q]
  BY <1>2 DEF CopyPending, GcFrame
<1>3. ASSUME AllUsersKept PROVE \A t \in UTasks : WritePending'[t] = WritePending[t]
  BY <1>3 DEF WritePending, AllUsersKept, SameTask, WtWriting
<1>4. (zone' = zone => ZonesRefer /\ ZonesSettle) /\ (wt' = wt => AllUsersKept)
  BY OneRefers, InflightFrame
<1>5. CASE GRead(p)
  <2>1. /\ gt[p].pc = "reading" /\ gt'[p].pc = "queued" /\ GcFrame(p) /\ wt' = wt
        /\ UNCHANGED <<zone, listVars, zs>>
    BY <1>5, GReadFx DEF lowVars, zmdVars
  <2> QED BY <1>2, <1>3, <1>4, <2>1 DEF Calm, Calmer, PendSame
<1>6. CASE GReadFails(p)
  <2>1. /\ gt[p].pc = "reading" /\ gt'[p].pc = "fault" /\ GcFrame(p) /\ wt' = wt
        /\ ZonePut(p[1]) /\ UNCHANGED <<listVars, zs>>
    BY <1>6, GcPcFx DEF GReadFails, ZonePut, get_zone_by_pbid
  <2> QED BY <1>2, <1>3, <1>4, <2>1, OneRefers DEF Calm, Calmer, PendSame
<1>7. CASE GFault(p)
  <2>1. gt[p].pc = "fault" /\ gt'[p].pc = "none" /\ GcFrame(p) /\ wt' = wt /\ UNCHANGED <<zone, listVars, zs>>
    BY <1>7, GcGoneFx DEF GFault, GcGone, zmdVars
  <2> QED BY <1>2, <1>3, <1>4, <2>1 DEF Calm, Calmer, PendSame
<1>8. CASE GAgency(p)
  <2>1. /\ gt[p].pc = "conflict" /\ AllUsersKept /\ GcFrame(p) /\ UNCHANGED <<listVars, zs>>
        /\ \/ gt' = [gt EXCEPT ![p] = NoGcTask] /\ ZonePut(p[1])
           \/ gt'[p].pc = "agency" /\ zone' = zone
    BY <1>8, GAgencyFx DEF ZoneKept
  <2>2. gt'[p].pc \in {"none", "agency"}
    BY <2>1, GcGoneFx
  <2>3. ZonesRefer /\ ZonesSettle
    BY <2>1, OneRefers
  <2> QED BY <1>2, <1>3, <2>1, <2>2, <2>3 DEF Calm, Calmer, PendSame
<1>9. CASE GLookup(p)
  <2>1. PICK b \in Blks : b = gt[p].blkid
    BY <1>9 DEF GLookup, TaskInv, GtFacts
  <2>2. PICK zn : zn = LookupAndPut(b)
    OBVIOUS
  <2>3. zn \in [Zone -> ZoneRec] /\ \A z \in Zone : Refers(zone[z], zn[z]) /\ Settles(zone[z], zn[z])
    BY <2>2, LookupRefers
  <2>4. /\ gt[p].pc = "lookup" /\ UNCHANGED <<wt, listVars, zs>>
        /\ \/ gt' = [gt EXCEPT ![p].pc = "alloc"] /\ zone' = zn
           \/ gt' = [gt EXCEPT ![p] = NoGcTask] /\ zone' = [zn EXCEPT ![p[1]] = lbz_put_zone(@)]
    BY <1>9, <2>1, <2>2 DEF GLookup, get_zone_by_pbid
  <2>5. ZonesRefer /\ ZonesSettle
    BY <2>3, <2>4, PutAfter DEF ZonesRefer, ZonesSettle
  <2>6. GcFrame(p) /\ gt'[p].pc \in {"alloc", "none"}
    BY <2>4, GcPcFx, GcGoneFx DEF GcGone
  <2> QED BY <1>2, <1>3, <1>4, <2>4, <2>5, <2>6 DEF Calm, Calmer, PendSame
<1>10. CASE GAlloc(p)
  <2>1. gt[p].pc = "alloc" /\ StreamId[gt[p].blkid] \in Streams
    BY <1>10, IoAssumption DEF GAlloc, TaskInv, GtFacts
  <2>2. CASE gt' = [gt EXCEPT ![p].pc = "alloc2"] /\ UNCHANGED <<lowVars, wt>>
    <3>1. GcFrame(p) /\ gt'[p].pc = "alloc2"
      BY <2>2, GcPcFx
    <3> QED BY <1>2, <1>3, <1>4, <2>1, <2>2, <3>1 DEF Calm, Calmer, PendSame, lowVars, zmdVars
  <2> QED BY <1>10, <2>1, <2>2 DEF GAlloc, CopyTakes
<1>11. CASE GAlloc2(p)
  <2>1. gt[p].pc = "alloc2" /\ OtherStream(StreamId[gt[p].blkid]) \in Streams
    BY <1>11, IoAssumption DEF GAlloc2, TaskInv, GtFacts, OtherStream, Streams, LBZ_ZONE_MAX_STREAM
  <2>2. CASE UNCHANGED <<zmdVars, ioVars>>
    BY <1>3, <1>4, <2>2 DEF Calm, Calmer, PendSame, CopyPending, zmdVars, ioVars
  <2> QED BY <1>11, <2>1, <2>2 DEF GAlloc2, CopyTakes
<1>12. CASE GAppend(p) \/ GAppendFails(p)
  <2>1. /\ gt[p].pc = "append" /\ gt'[p].pc = "endio" /\ GcFrame(p) /\ gt'[p].zone = gt[p].zone
        /\ UNCHANGED <<zone, listVars, zs, wt>>
    BY <1>12, GAppendFx DEF zmdVars
  <2> QED BY <1>1, <1>3, <1>4, <2>1 DEF Calm, Calmer, PendSame
<1>13. CASE GCbRmap(p) \/ GCbMap(p) \/ GCbOld(p)
  <2>1. PICK c, y : /\ gt' = [gt EXCEPT ![p].pc = c] /\ UNCHANGED <<wt, listVars, zs>>
                    /\ gt[p].pc \notin Pcs /\ c \notin Pcs
                    /\ \/ zone' = zone
                       \/ zone' = [zone EXCEPT ![y] = lbz_zone_release_global_res(@)]
    BY <1>13 DEF GCbRmap, GCbMap, GCbOld, zmdVars
  <2>2. GcFrame(p) /\ gt'[p].pc = c
    BY <2>1, GcPcFx
  <2> QED BY <1>2, <1>3, <1>4, <2>1, <2>2, OneRefers DEF Calm, Calmer, PendSame
<1>14. CASE GCbPut(p)
  <2>1. /\ gt[p].pc = "cb_put" /\ GcFrame(p) /\ gt'[p].pc \in {"fault", "none"}
        /\ zone' = [[zone EXCEPT ![gt[p].zone] = lbz_put_zone(@)] EXCEPT ![p[1]] = lbz_put_zone(@)]
        /\ UNCHANGED <<wt, listVars, zs>>
    BY <1>14, GCbPutFx
  <2>2. zone \in [Zone -> ZoneRec]
    BY DEF TypeOK, ZmdTypeOK
  <2>3. PICK zn : zn = [zone EXCEPT ![gt[p].zone] = lbz_put_zone(@)]
    OBVIOUS
  <2>4. ASSUME NEW z \in Zone PROVE Refers(zone[z], zn[z]) /\ Settles(zone[z], zn[z])
    <3>1. zone[z] \in ZoneRec /\ (zn[z] = zone[z] \/ zn[z] = lbz_put_zone(zone[z]))
      BY <2>2, <2>3
    <3> QED BY <3>1, PutRefers, OpsRefer
  <2>5. zn \in [Zone -> ZoneRec]
    <3>1. \A z \in Zone : lbz_put_zone(zone[z]) \in ZoneRec
      BY <2>2, ZoneRecOps
    <3> QED BY <2>2, <2>3, <3>1
  <2>6. ZonesRefer /\ ZonesSettle
    BY <2>1, <2>3, <2>4, <2>5, PutAfter
  <2> QED BY <1>2, <1>3, <1>4, <2>1, <2>6 DEF Calm, Calmer, PendSame
<1> QED BY <1>5, <1>6, <1>7, <1>8, <1>9, <1>10, <1>11, <1>12, <1>13, <1>14 DEF GcCopy

\* Taking a reference: a read, and the copy the GC thread starts.  A put in two
\* halves takes none.
Takes == (\E r \in Readers : SubmitRead(r)) \/ GcIter \/ \E z \in Zone : PutZoneEnd(z)

\* Reads, the retry worker and the GC thread but for its choice of a victim.
LEMMA OtherZones ==
    ASSUME TypeOK, TaskInv, FactsInv, PlaceInv,
           \/ \E r \in Readers : SubmitRead(r) \/ lbz_read_io_endio(r)
           \/ RetryWork
           \/ GcThread
    PROVE  Calmer \/ (Calm /\ Takes) \/ (GcSelect /\ PendSame)
<1>1. gt' = gt => \A p \in Pbid : CopyPending'[p] = CopyPending[p]
  BY DEF CopyPending
<1>2. AllUsersKept => \A t \in UTasks : WritePending'[t] = WritePending[t]
  BY DEF WritePending, AllUsersKept, SameTask, WtWriting
<1>3. (zone' = zone => ZonesRefer /\ ZonesSettle) /\ (wt' = wt => AllUsersKept)
  BY OneRefers, InflightFrame
<1>4. ASSUME NEW r \in Readers, SubmitRead(r) PROVE Calm /\ Takes
  <2>1. PICK y : zone' = [zone EXCEPT ![y] = lbz_get_zone(@)]
    BY <1>4 DEF SubmitRead, lbz_submit_read, lbz_mapping_lookup
  <2>2. UNCHANGED <<wt, gt, listVars, zs>>
    BY <1>4 DEF SubmitRead, lbz_submit_read, lbz_mapping_lookup
  <2> QED BY <1>1, <1>2, <1>3, <1>4, <2>1, <2>2, OneRefers DEF Calm, PendSame, Takes
<1>5. ASSUME NEW r \in Readers, lbz_read_io_endio(r) PROVE Calmer
  <2>1. PICK y : ZonePut(y)
    BY <1>5 DEF lbz_read_io_endio, ZonePut
  <2>2. UNCHANGED <<wt, gt, listVars, zs>>
    BY <1>5 DEF lbz_read_io_endio
  <2> QED BY <1>1, <1>2, <1>3, <2>1, <2>2, OneRefers DEF Calm, Calmer, PendSame
<1>6. CASE WkUser
  <2>1. PICK t \in UTasks :
            /\ wt[t].pc = "queued" /\ wt'[t].pc \in {"alloc", "conflict"}
            /\ KeepsFields(t) /\ OthersKept(t) /\ UNCHANGED <<lowVars, gt>>
    BY <1>6, WkUserFx
  <2>2. \A u \in UTasks : WritePending'[u] = WritePending[u]
    BY <2>1 DEF WritePending, OthersKept, SameTask, WtWriting
  <2> QED BY <1>1, <1>3, <2>1, <2>2 DEF Calm, Calmer, PendSame, lowVars, zmdVars
<1>7. CASE WkGc
  <2>1. PICK p \in Pbid :
            /\ gt[p].pc = "queued" /\ gt'[p].pc \in {"lookup", "conflict"}
            /\ GcFrame(p) /\ AllUsersKept /\ UNCHANGED zmdVars
    BY <1>7, WkGcFx
  <2>2. \A q \in Pbid : CopyPending'[q] = CopyPending[q]
    BY <2>1 DEF CopyPending, GcFrame
  <2> QED BY <1>2, <1>3, <2>1, <2>2 DEF Calm, Calmer, PendSame, zmdVars
<1>8. CASE WkStart \/ WkSpliceGc \/ WkEnd
  <2>1. UNCHANGED <<lowVars, wt, gt>>
    BY <1>8 DEF WkStart, WkSpliceGc, WkEnd
  <2> QED BY <1>1, <1>2, <1>3, <2>1 DEF Calm, Calmer, PendSame, lowVars, zmdVars
<1>9. CASE GcCheck \/ GcNoVictim
  BY <1>1, <1>2, <1>3, <1>9 DEF GcCheck, GcNoVictim, Calm, Calmer, PendSame, zmdVars, ioVars
<1>10. CASE GcSelect
  BY <1>1, <1>2, <1>3, <1>10 DEF GcSelect, PendSame, ioVars
<1>11. CASE GcIter
  <2>1. /\ UNCHANGED <<wt, listVars, zs>>
        /\ \/ zone' = zone /\ gt' = gt
           \/ \E p \in Pbid : /\ gt[p].pc = "none" /\ GcFrame(p) /\ gt'[p].pc = "reading"
                              /\ zone' = [zone EXCEPT ![p[1]] = lbz_get_zone(@)]
    BY <1>11, GcIterFx DEF FactsInv, PlaceInv, ZoneKept
  <2>2. CASE zone' = zone /\ gt' = gt
    BY <1>1, <1>2, <1>3, <2>1, <2>2 DEF Calm, Calmer, PendSame
  <2>3. ASSUME NEW p \in Pbid, gt[p].pc = "none", GcFrame(p), gt'[p].pc = "reading",
               zone' = [zone EXCEPT ![p[1]] = lbz_get_zone(@)]
        PROVE  Calm /\ Takes
    <3>1. \A q \in Pbid : CopyPending'[q] = CopyPending[q]
      BY <2>3 DEF CopyPending, GcFrame
    <3> QED BY <1>2, <1>3, <1>11, <2>1, <2>3, <3>1, OneRefers DEF Calm, PendSame, Takes
  <2> QED BY <2>1, <2>2, <2>3
<1>12. CASE GcFinish
  <2>1. zone \in [Zone -> ZoneRec]
    BY DEF TypeOK, ZmdTypeOK
  <2>2. ASSUME NEW z \in Zone PROVE Refers(zone[z], zone'[z]) /\ Settles(zone[z], zone'[z])
    <3>1. PICK d : d = SetFlag(zone[z], "GC_COMPLETED")
      OBVIOUS
    <3>2. zone'[z] = zone[z] \/ zone'[z] = lbz_put_zone(d)
      BY <1>12, <2>1, <3>1 DEF GcFinish
    <3>3. /\ zone[z] \in ZoneRec /\ d \in ZoneRec /\ Refers(zone[z], d) /\ Settles(zone[z], d)
      <4>1. /\ d.state = zone[z].state /\ d.flags = zone[z].flags \cup {"GC_COMPLETED"}
            /\ d.pending_write_io = zone[z].pending_write_io /\ d.wp_block = zone[z].wp_block
            /\ d.in_put = zone[z].in_put /\ d.refcount = zone[z].refcount
            /\ zone[z] \in ZoneRec /\ d \in ZoneRec
        BY <2>1, <3>1 DEF SetFlag, ZoneRec, Flags
      <4> QED BY <4>1 DEF Refers, MarksAlike, Settles, Settled
    <3>4. Refers(d, lbz_put_zone(d)) /\ Settles(d, lbz_put_zone(d))
      BY <3>3, PutRefers
    <3>5. Refers(zone[z], zone[z]) /\ Settles(zone[z], zone[z])
      BY <3>3, OpsRefer
    <3> QED BY <3>2, <3>3, <3>4, <3>5, RefersTwice
  <2>3. ZonesRefer /\ ZonesSettle
    BY <2>2 DEF ZonesRefer, ZonesSettle
  <2> QED BY <1>1, <1>2, <1>3, <1>12, <2>3 DEF GcFinish, Calm, Calmer, PendSame, ioVars
<1> QED BY <1>4, <1>5, <1>6, <1>7, <1>8, <1>9, <1>10, <1>11, <1>12 DEF RetryWork, GcThread

\* Every step of the system, as the zones see it.
LEMMA NextZones ==
    ASSUME TypeOK, TaskInv, FactsInv, PlaceInv, [Next]_vars
    PROVE  \/ Calmer
           \/ Calm /\ Takes
           \/ \E t \in UTasks : WComplete(t) \/ \E s \in Streams : WriteTakes(t, s)
           \/ \E p \in Pbid : GEndio(p) \/ \E s \in Streams : CopyTakes(p, s)
           \/ ZoneStateWork /\ PendSame
           \/ GcSelect /\ PendSame
<1>1. UNCHANGED <<wt, gt>> => PendSame
  BY InflightFrame DEF PendSame, CopyPending, WritePending, WtWriting
<1>2. CASE UNCHANGED vars
  <2>1. UNCHANGED <<zone, listVars, zs, wt, gt>>
    BY <1>2 DEF vars, zmdVars, ioVars
  <2> QED BY <1>1, <2>1, OneRefers DEF Calm, Calmer
<1>3. CASE Running
  <2>1. CASE ZoneStateWork /\ UNCHANGED ioVars
    BY <1>1, <2>1 DEF ioVars
  <2>2. ASSUME NEW z \in Zone, PutZoneEnd(z), UNCHANGED ioVars PROVE Calm /\ Takes
    BY <1>1, <2>2, OneRefers DEF PutZoneEnd, Calm, Takes, ioVars
  <2> QED BY <1>3, <2>1, <2>2, WriteZones, CopyZones, OtherZones DEF Running
<1> QED BY <1>2, <1>3 DEF Next, Halted

-----------------------------------------------------------------------------
(* pending_write_io.                                                       *)

\* __alloc_res and __pending_write: the put that goes with the last block finds
\* the write it has just counted, and leaves the zone open.
LEMMA TakePends ==
    ASSUME NEW d \in ZoneRec, "GC" \notin d.flags
    PROVE  /\ TakeBlock(d).pending_write_io = d.pending_write_io + 1
           /\ d.pending_write_io >= 0 => TakeBlock(d).state = d.state
           /\ ~SplitPut /\ d.in_put = FALSE => TakeBlock(d).in_put = FALSE
<1> DEFINE r1 == [lbz_get_zone(d) EXCEPT !.wp_block = @ + 1]
           r2 == [r1 EXCEPT !.weight = @ + 1]
           r  == [r2 EXCEPT !.pending_write_io = @ + 1]
           f  == [r EXCEPT !.flags = (@ \ {"ACTIVE"}) \cup {"TO_FULL"}]
<1>1. /\ lbz_get_zone(d) \in ZoneRec /\ lbz_get_zone(d).flags = d.flags /\ lbz_get_zone(d).state = d.state
      /\ lbz_get_zone(d).pending_write_io = d.pending_write_io /\ lbz_get_zone(d).in_put = d.in_put
  BY DEF lbz_get_zone, ZoneRec
<1>2. /\ r1 \in ZoneRec /\ r1.flags = d.flags /\ r1.state = d.state
      /\ r1.pending_write_io = d.pending_write_io /\ r1.in_put = d.in_put
  BY <1>1 DEF ZoneRec
<1>3. /\ r2 \in ZoneRec /\ r2.flags = d.flags /\ r2.state = d.state
      /\ r2.pending_write_io = d.pending_write_io /\ r2.in_put = d.in_put
  <2> HIDE DEF r1
  <2> QED BY <1>2 DEF ZoneRec
<1>4. /\ r \in ZoneRec /\ r.flags = d.flags /\ r.state = d.state
      /\ r.pending_write_io = d.pending_write_io + 1 /\ r.in_put = d.in_put
  <2> HIDE DEF r2
  <2> QED BY <1>3 DEF ZoneRec
<1>5. /\ f \in ZoneRec /\ "GC" \notin f.flags /\ f.state = d.state
      /\ f.pending_write_io = d.pending_write_io + 1 /\ f.in_put = d.in_put
  <2> HIDE DEF r
  <2> QED BY <1>4 DEF ZoneRec, Flags
<1>6. TakeBlock(d) = IF r.wp_block = ZoneNrBlocks THEN lbz_put_zone(f) ELSE r
  BY <1>1 DEF TakeBlock, ZoneRec
<1> HIDE DEF r, f
<1>7. d.pending_write_io \in Int
  BY DEF ZoneRec
<1>8. PICK e : e = lbz_put_zone(f)
  OBVIOUS
<1>9. Refers(f, e) /\ Settles(f, e)
  BY <1>5, <1>8, PutRefers
<1>10. /\ e.pending_write_io = d.pending_write_io + 1
       /\ d.pending_write_io >= 0 => e.state = d.state
       /\ ~SplitPut /\ d.in_put = FALSE => e.in_put = FALSE
  BY <1>5, <1>7, <1>9 DEF Refers, Settles, Settled
<1> QED BY <1>4, <1>6, <1>8, <1>10

\* lbz_zone_alloc_res on the zone it writes.
LEMMA AllocPends ==
    ASSUME TypeOK, OnePlace, ZoneMarks, NEW flag, NEW s \in Streams, lbz_zone_alloc_res(flag, s),
           NEW z, z = TargetZone(s)
    PROVE  /\ zone'[z].pending_write_io = zone[z].pending_write_io + 1
           /\ zone[z].pending_write_io >= 0 /\ (ActiveZone(z) => zone[z].state = "OPEN") => zone'[z].state = "OPEN"
           /\ ~SplitPut /\ zone[z].in_put = FALSE => zone'[z].in_put = FALSE
<1>1. /\ z \in Zone /\ Unmarked(z)
      /\ active_zone[s] = z \/ active_zone[s] = NULL
      /\ zone[z].wp_block < ZoneNrBlocks /\ zone[z].wp_block \in Nat
  BY AllocFx
<1>2. zone \in [Zone -> ZoneRec] /\ NULL \notin Zone /\ zone[z] \in ZoneRec
  BY <1>1, DevAssumption DEF TypeOK, ZmdTypeOK
<1>3. NeedZone(s) <=> active_zone[s] = NULL
  BY <1>1, <1>2, DevAssumption DEF NeedZone
<1> DEFINE d == IF NeedZone(s) THEN OpenZone(zone[z]) ELSE zone[z]
<1>4. zone' = [zone EXCEPT ![z] = TakeBlock(d)]
  BY <1>3 DEF lbz_zone_alloc_res
<1>5. zone'[z] = TakeBlock(d)
  BY <1>1, <1>2, <1>4
<1>6. /\ d \in ZoneRec /\ d.pending_write_io = zone[z].pending_write_io /\ d.in_put = zone[z].in_put
      /\ "GC" \notin d.flags
      /\ (ActiveZone(z) => zone[z].state = "OPEN") => d.state = "OPEN"
  <2>1. CASE NeedZone(s)
    <3> DEFINE g == lbz_get_zone(zone[z])
               r == [g EXCEPT !.flags = @ \cup {"ACTIVE"}]
    <3>1. /\ g \in ZoneRec /\ g.pending_write_io = zone[z].pending_write_io /\ g.in_put = zone[z].in_put
          /\ g.flags = zone[z].flags
      BY <1>2 DEF lbz_get_zone, ZoneRec
    <3> HIDE DEF g
    <3>2. /\ r \in ZoneRec /\ r.pending_write_io = g.pending_write_io /\ r.in_put = g.in_put
          /\ r.flags = g.flags \cup {"ACTIVE"}
      BY <3>1 DEF ZoneRec, Flags
    <3>3. d = [r EXCEPT !.state = "OPEN"]
      BY <2>1 DEF OpenZone, g
    <3> HIDE DEF r, d
    <3>4. /\ d \in ZoneRec /\ d.pending_write_io = r.pending_write_io /\ d.in_put = r.in_put
          /\ d.flags = r.flags /\ d.state = "OPEN"
      BY <3>2, <3>3 DEF ZoneRec
    <3> QED BY <1>1, <3>1, <3>2, <3>4 DEF Unmarked
  <2>2. CASE ~NeedZone(s)
    <3>1. ActiveZone(z) /\ d = zone[z]
      BY <1>1, <1>3, <2>2 DEF ActiveZone
    <3> HIDE DEF d
    <3> QED BY <1>1, <1>2, <3>1 DEF Unmarked
  <2> QED BY <2>1, <2>2
<1> HIDE DEF d
<1> QED BY <1>5, <1>6, TakePends

\* The pending writes of a zone, by who writes.
PendWrites(z) == Count(WritePending, z)
PendCopies(z) == Count(CopyPending, z)

\* They are natural numbers, and move with the task that moves.
LEMMA PendTurns ==
    ASSUME NEW z
    PROVE  /\ PendWrites(z) \in Nat /\ PendCopies(z) \in Nat
           /\ PendSame => PendWrites(z)' = PendWrites(z) /\ PendCopies(z)' = PendCopies(z)
           /\ \A t \in UTasks : (\A u \in UTasks : u # t => WritePending'[u] = WritePending[u]) =>
                 PendWrites(z)' = PendWrites(z) + Turn(WritePending[t], WritePending'[t], z)
           /\ \A p \in Pbid : (\A q \in Pbid : q # p => CopyPending'[q] = CopyPending[q]) =>
                 PendCopies(z)' = PendCopies(z) + Turn(CopyPending[p], CopyPending'[p], z)
<1>1. IsFiniteSet(UTasks) /\ IsFiniteSet(Pbid)
  BY IoAssumption, PbidFinite
<1>2. /\ DOMAIN WritePending = UTasks /\ DOMAIN CopyPending = Pbid
      /\ DOMAIN WritePending' = UTasks /\ DOMAIN CopyPending' = Pbid
  BY DEF WritePending, CopyPending
<1>3. PendWrites(z) \in Nat /\ PendCopies(z) \in Nat
  BY <1>1, <1>2, CountOf DEF PendWrites, PendCopies
<1>4. PICK f, g, h, k : f = WritePending /\ g = WritePending' /\ h = CopyPending /\ k = CopyPending'
  OBVIOUS
<1>5. /\ DOMAIN f = UTasks /\ DOMAIN g = UTasks /\ DOMAIN h = Pbid /\ DOMAIN k = Pbid
      /\ PendWrites(z) = Count(f, z) /\ PendWrites(z)' = Count(g, z)
      /\ PendCopies(z) = Count(h, z) /\ PendCopies(z)' = Count(k, z)
  BY <1>2, <1>4 DEF PendWrites, PendCopies
<1>6. ASSUME NEW t \in UTasks, \A u \in UTasks : u # t => WritePending'[u] = WritePending[u]
      PROVE  PendWrites(z)' = PendWrites(z) + Turn(WritePending[t], WritePending'[t], z)
  BY <1>1, <1>4, <1>5, <1>6, CountTurn
<1>7. ASSUME NEW p \in Pbid, \A q \in Pbid : q # p => CopyPending'[q] = CopyPending[q]
      PROVE  PendCopies(z)' = PendCopies(z) + Turn(CopyPending[p], CopyPending'[p], z)
  BY <1>1, <1>4, <1>5, <1>7, CountTurn
<1>8. ASSUME PendSame PROVE PendWrites(z)' = PendWrites(z) /\ PendCopies(z)' = PendCopies(z)
  <2>1. {x \in UTasks : g[x] = z} = {x \in UTasks : f[x] = z}
    BY <1>4, <1>8 DEF PendSame
  <2>2. {x \in Pbid : k[x] = z} = {x \in Pbid : h[x] = z}
    BY <1>4, <1>8 DEF PendSame
  <2> QED BY <1>5, <2>1, <2>2 DEF Count
<1> QED BY <1>3, <1>6, <1>7, <1>8

PendBalance(z) ==
    zone'[z].pending_write_io = zone[z].pending_write_io
        + (PendWrites(z)' - PendWrites(z)) + (PendCopies(z)' - PendCopies(z))

\* A write, or a copy, is given a block of zone y.
LEMMA TakeBalance ==
    ASSUME TypeOK, TypeOK', FactsInv, PlaceInv, NEW z \in Zone,
           \/ \E t \in UTasks, s \in Streams : WriteTakes(t, s)
           \/ \E p \in Pbid, s \in Streams : CopyTakes(p, s)
    PROVE  PendBalance(z)
<1>1. NULL \notin Zone /\ zone[z].pending_write_io \in Int /\ PendWrites(z) \in Int /\ PendCopies(z) \in Int
  BY PendTurns, DevAssumption DEF TypeOK, ZmdTypeOK, ZoneRec
<1>2. ASSUME NEW flag, NEW s \in Streams, lbz_zone_alloc_res(flag, s), NEW y, y = TargetZone(s)
      PROVE  y \in Zone /\ zone'[z].pending_write_io = zone[z].pending_write_io + Turn(NULL, y, z)
  <2>1. /\ y \in Zone /\ \A x \in Zone : x # y => zone'[x] = zone[x]
        /\ zone'[y].pending_write_io = zone[y].pending_write_io + 1
    <3>1. OnePlace /\ ZoneMarks
      BY DEF PlaceInv
    <3>2. y \in Zone /\ \A x \in Zone : x # y => zone'[x] = zone[x]
      BY <1>2, <3>1, AllocFx
    <3>3. zone'[y].pending_write_io = zone[y].pending_write_io + 1
      BY <1>2, <3>1, AllocPends
    <3> QED BY <3>2, <3>3
  <2> QED BY <1>1, <2>1 DEF Turn
<1>3. ASSUME NEW t \in UTasks, NEW s \in Streams, WriteTakes(t, s) PROVE PendBalance(z)
  <2>1. PICK y : y = TargetZone(s)
    OBVIOUS
  <2>2. /\ wt[t].pc \in {"alloc", "alloc2"} /\ wt'[t].pc = "append" /\ wt'[t].zone = y /\ OthersKept(t)
        /\ gt' = gt /\ lbz_zone_alloc_res(AllocFlag(t), s)
    BY <1>3, <2>1, WGotZoneFx DEF WriteTakes
  <2>3. WritePending[t] = NULL /\ WritePending'[t] = y
    BY <2>2 DEF WritePending, WtWriting
  <2>4. \A u \in UTasks : u # t => WritePending'[u] = WritePending[u]
    BY <2>2 DEF WritePending, WtWriting, OthersKept, SameTask
  <2>5. PendWrites(z)' = PendWrites(z) + Turn(NULL, y, z)
    BY <2>3, <2>4, PendTurns
  <2>6. PendCopies(z)' = PendCopies(z)
    BY <2>2 DEF PendCopies, CopyPending
  <2>7. zone'[z].pending_write_io = zone[z].pending_write_io + Turn(NULL, y, z)
    BY <1>2, <2>1, <2>2
  <2>8. Turn(NULL, y, z) \in Int
    BY DEF Turn
  <2> QED BY <1>1, <2>5, <2>6, <2>7, <2>8 DEF PendBalance
<1>4. ASSUME NEW p \in Pbid, NEW s \in Streams, CopyTakes(p, s) PROVE PendBalance(z)
  <2>1. PICK y : y = TargetZone(s)
    OBVIOUS
  <2>2. /\ gt[p].pc \in {"alloc", "alloc2"} /\ gt'[p].pc = "append" /\ gt'[p].zone = y /\ GcFrame(p)
        /\ wt' = wt /\ lbz_zone_alloc_res("GC", s)
    BY <1>4, <2>1, GGotZoneFx DEF CopyTakes
  <2>3. CopyPending[p] = NULL /\ CopyPending'[p] = y
    BY <2>2 DEF CopyPending
  <2>4. \A q \in Pbid : q # p => CopyPending'[q] = CopyPending[q]
    BY <2>2 DEF CopyPending, GcFrame
  <2>5. PendCopies(z)' = PendCopies(z) + Turn(NULL, y, z)
    BY <2>3, <2>4, PendTurns
  <2>6. PendWrites(z)' = PendWrites(z)
    BY <2>2 DEF PendWrites, WritePending, WtWriting
  <2>7. zone'[z].pending_write_io = zone[z].pending_write_io + Turn(NULL, y, z)
    BY <1>2, <2>1, <2>2
  <2>8. Turn(NULL, y, z) \in Int
    BY DEF Turn
  <2> QED BY <1>1, <2>5, <2>6, <2>7, <2>8 DEF PendBalance
<1> QED BY <1>3, <1>4

\* The write is done: lbz_zone_complete_write.
LEMMA CompleteBalance ==
    ASSUME TypeOK, TypeOK', FactsInv, NEW z \in Zone,
           (\E t \in UTasks : WComplete(t)) \/ (\E p \in Pbid : GEndio(p))
    PROVE  PendBalance(z)
<1>1. /\ NULL \notin Zone /\ zone[z].pending_write_io \in Int /\ PendWrites(z) \in Int /\ PendCopies(z) \in Int
      /\ zone \in [Zone -> ZoneRec]
  BY PendTurns, DevAssumption DEF TypeOK, ZmdTypeOK, ZoneRec
<1>2. ASSUME NEW y \in Zone, zone' = [zone EXCEPT ![y] = lbz_zone_complete_write(@)]
      PROVE  zone'[z].pending_write_io = zone[z].pending_write_io + Turn(y, NULL, z)
  <2>1. lbz_zone_complete_write(zone[z]).pending_write_io = zone[z].pending_write_io - 1
    BY <1>1 DEF lbz_zone_complete_write, ZoneRec
  <2>2. zone'[z] = IF z = y THEN lbz_zone_complete_write(zone[z]) ELSE zone[z]
    BY <1>1, <1>2
  <2> QED BY <1>1, <2>1, <2>2 DEF Turn
<1>3. ASSUME NEW t \in UTasks, WComplete(t) PROVE PendBalance(z)
  <2>1. PICK y : y = wt[t].zone
    OBVIOUS
  <2>2. /\ wt[t].pc = "complete" /\ wt' = [wt EXCEPT ![t].pc = "put"] /\ gt' = gt
        /\ zone' = [zone EXCEPT ![y] = lbz_zone_complete_write(@)]
    BY <1>3, <2>1 DEF WComplete
  <2>3. y \in Zone
    BY <2>1, <2>2 DEF FactsInv, WtZones
  <2>4. wt'[t].pc = "put" /\ OthersKept(t)
    BY <2>2, PcFx
  <2>5. WritePending[t] = y /\ WritePending'[t] = NULL
    BY <2>1, <2>2, <2>4 DEF WritePending, WtWriting
  <2>6. \A u \in UTasks : u # t => WritePending'[u] = WritePending[u]
    BY <2>4 DEF WritePending, WtWriting, OthersKept, SameTask
  <2>7. PendWrites(z)' = PendWrites(z) + Turn(y, NULL, z)
    BY <2>5, <2>6, PendTurns
  <2>8. PendCopies(z)' = PendCopies(z)
    BY <2>2 DEF PendCopies, CopyPending
  <2>9. zone'[z].pending_write_io = zone[z].pending_write_io + Turn(y, NULL, z)
    BY <1>2, <2>2, <2>3
  <2>10. Turn(y, NULL, z) \in Int
    BY DEF Turn
  <2> QED BY <1>1, <2>7, <2>8, <2>9, <2>10 DEF PendBalance
<1>4. ASSUME NEW p \in Pbid, GEndio(p) PROVE PendBalance(z)
  <2>1. PICK y, c : y = gt[p].zone /\ c = IF faulty \/ gt[p].error THEN "cb_put" ELSE "cb_rmap"
    OBVIOUS
  <2>2. /\ gt[p].pc = "endio" /\ gt' = [gt EXCEPT ![p].pc = c] /\ wt' = wt
        /\ zone' = [zone EXCEPT ![y] = lbz_zone_complete_write(@)]
    BY <1>4, <2>1 DEF GEndio
  <2>3. y \in Zone
    BY <2>1, <2>2 DEF FactsInv, GtZones
  <2>4. gt'[p].pc \in {"cb_put", "cb_rmap"} /\ GcFrame(p)
    BY <2>1, <2>2, GcPcFx
  <2>5. CopyPending[p] = y /\ CopyPending'[p] = NULL
    BY <2>1, <2>2, <2>4 DEF CopyPending
  <2>6. \A q \in Pbid : q # p => CopyPending'[q] = CopyPending[q]
    BY <2>4 DEF CopyPending, GcFrame
  <2>7. PendCopies(z)' = PendCopies(z) + Turn(y, NULL, z)
    BY <2>5, <2>6, PendTurns
  <2>8. PendWrites(z)' = PendWrites(z)
    BY <2>2 DEF PendWrites, WritePending, WtWriting
  <2>9. zone'[z].pending_write_io = zone[z].pending_write_io + Turn(y, NULL, z)
    BY <1>2, <2>2, <2>3
  <2>10. Turn(y, NULL, z) \in Int
    BY DEF Turn
  <2> QED BY <1>1, <2>7, <2>8, <2>9, <2>10 DEF PendBalance
<1> QED BY <1>3, <1>4

\* zone_state_wk_fn and the choice of a victim count no write.
LEMMA WorkerPends ==
    ASSUME TypeOK, ZoneStateWork \/ GcSelect, NEW z \in Zone
    PROVE  /\ zone'[z].pending_write_io = zone[z].pending_write_io
           /\ zone'[z].in_put = zone[z].in_put
<1>1. zone \in [Zone -> ZoneRec] /\ zone[z] \in ZoneRec
  BY DEF TypeOK, ZmdTypeOK
<1>2. CASE ZoneStateWork
  <2>1. PICK i : i = zs.i
    OBVIOUS
  <2>2. \/ zone' = zone
        \/ zone' = [zone EXCEPT ![i].state = "CLOSED"]
        \/ zone' = [zone EXCEPT ![i].flags = {"FULL"}]
        \/ zone' = [zone EXCEPT ![i] = [@ EXCEPT !.wp_block = 0, !.state = "EMPTY", !.flags = {"INIT"}]]
    BY <1>2, <2>1 DEF ZoneStateWork, ZsStart, ZsScanToFull, ZsScanRefcount, ZsClose, ZsGcZone, ZsReset,
                ZsResetFails, ZsRelease
  <2>3. \/ zone'[z] = zone[z]
        \/ zone'[z] = [zone[z] EXCEPT !.state = "CLOSED"]
        \/ zone'[z] = [zone[z] EXCEPT !.flags = {"FULL"}]
        \/ zone'[z] = [zone[z] EXCEPT !.wp_block = 0, !.state = "EMPTY", !.flags = {"INIT"}]
    BY <1>1, <2>2
  <2> QED BY <1>1, <2>3 DEF ZoneRec
<1>3. CASE GcSelect
  <2>1. PICK y : zone' = [zone EXCEPT ![y] = SetFlag(lbz_get_zone(@), "GC")]
    BY <1>3 DEF GcSelect
  <2>2. zone'[z] = zone[z] \/ zone'[z] = SetFlag(lbz_get_zone(zone[z]), "GC")
    BY <1>1, <2>1
  <2>3. PICK g : g = lbz_get_zone(zone[z])
    OBVIOUS
  <2>4. g \in ZoneRec /\ g.pending_write_io = zone[z].pending_write_io /\ g.in_put = zone[z].in_put
    BY <1>1, <2>3 DEF lbz_get_zone, ZoneRec
  <2>5. SetFlag(g, "GC").pending_write_io = g.pending_write_io /\ SetFlag(g, "GC").in_put = g.in_put
    BY <2>4 DEF SetFlag, ZoneRec
  <2> QED BY <2>2, <2>3, <2>4, <2>5
<1> QED BY <1>2, <1>3

\* Every step moves pending_write_io as it moves the writes.
LEMMA NextPends ==
    ASSUME TypeOK, TypeOK', TaskInv, FactsInv, PlaceInv, PendingExact, [Next]_vars
    PROVE  PendingExact'
<1>1. ASSUME NEW z \in Zone PROVE PendBalance(z)
  <2>1. PendWrites(z) \in Int /\ PendCopies(z) \in Int /\ zone[z].pending_write_io \in Int
    BY PendTurns DEF TypeOK, ZmdTypeOK, ZoneRec
  <2>2. ASSUME PendSame, zone'[z].pending_write_io = zone[z].pending_write_io PROVE PendBalance(z)
    BY <2>1, <2>2, PendTurns DEF PendBalance
  <2>3. CASE Calm
    BY <2>2, <2>3 DEF Calm, ZonesRefer, Refers
  <2>4. CASE (ZoneStateWork \/ GcSelect) /\ PendSame
    BY <2>2, <2>4, WorkerPends
  <2> QED BY <2>3, <2>4, NextZones, TakeBalance, CompleteBalance DEF Calmer
<1>2. ASSUME NEW z \in Zone
      PROVE  zone'[z].pending_write_io = PendWrites(z)' + PendCopies(z)'
  <2>1. /\ PendWrites(z) \in Int /\ PendCopies(z) \in Int /\ zone[z].pending_write_io = PendWrites(z) + PendCopies(z)
    BY PendTurns DEF PendingExact, PendWrites, PendCopies
  <2>2. PendWrites(z)' \in Int /\ PendCopies(z)' \in Int
    <3>1. /\ DOMAIN WritePending' = UTasks /\ DOMAIN CopyPending' = Pbid
          /\ IsFiniteSet(UTasks) /\ IsFiniteSet(Pbid)
      BY IoAssumption, PbidFinite DEF WritePending, CopyPending
    <3> QED BY <3>1, CountOf DEF PendWrites, PendCopies
  <2> QED BY <1>1, <2>1, <2>2 DEF PendBalance
<1> QED BY <1>2 DEF PendingExact, PendWrites, PendCopies

\* zone->pending_write_io counts the writes between the allocation of their block
\* and lbz_zone_complete_write, errors or not: what lbz_put_zone and
\* lbz_find_victim_zone take for a quiet zone is one.
THEOREM PendingWritesExact == Spec => []PendingExact
<1>1. ASSUME Init PROVE PendingExact
  <2>1. /\ \A t \in UTasks : WritePending[t] = NULL
        /\ \A p \in Pbid : CopyPending[p] = NULL
    BY <1>1 DEF Init, IoInit, NoTask, NoGcTask, WritePending, WtWriting, CopyPending
  <2>2. ASSUME NEW z \in Zone
        PROVE  /\ Count(WritePending, z) = 0 /\ Count(CopyPending, z) = 0
               /\ zone[z].pending_write_io = 0
    <3>1. ASSUME NEW f, \A x \in DOMAIN f : f[x] = NULL PROVE Count(f, z) = 0
      <4>1. {x \in DOMAIN f : f[x] = z} = {}
        BY <3>1, DevAssumption
      <4> QED BY <4>1, FS_EmptySet DEF Count
    <3>2. DOMAIN WritePending = UTasks /\ DOMAIN CopyPending = Pbid
      BY DEF WritePending, CopyPending
    <3>3. Count(WritePending, z) = 0 /\ Count(CopyPending, z) = 0
      BY <2>1, <3>1, <3>2
    <3> QED BY <1>1, <3>3 DEF Init, ZmdInit, InitZone
  <2> QED BY <2>2 DEF PendingExact
<1>2. IInv => TypeOK /\ TaskInv
  BY DEF IInv
<1>3. ZoneInv => FactsInv /\ PlaceInv
  BY DEF ZoneInv
<1> QED BY <1>1, <1>2, <1>3, NextPends, Inductive, ZoneInductive, PTL DEF Spec

-----------------------------------------------------------------------------
(* A zone GC may choose is quiet.                                          *)

QuietZone(z) ==
    /\ FullZone(z) \/ Marked(z) \/ ("TO_FULL" \in zone[z].flags /\ zone[z].state # "OPEN")
          => zone[z].pending_write_io = 0
    /\ ActiveZone(z) => zone[z].state = "OPEN"
    /\ FullZone(z) \/ "TO_FULL" \in zone[z].flags => zone[z].state # "EMPTY"
    /\ FullZone(z) \/ Marked(z) \/ "TO_FULL" \in zone[z].flags => zone[z].wp_block = ZoneNrBlocks

\* pending_write_io is never negative, and zero means nobody writes.
LEMMA PendFacts ==
    ASSUME TypeOK, FactsInv, PendingExact, NEW z \in Zone
    PROVE  /\ zone[z].pending_write_io \in Nat
           /\ \A t \in UTasks : WritePending[t] = z => zone[z].pending_write_io > 0
           /\ \A p \in Pbid : CopyPending[p] = z => zone[z].pending_write_io > 0
<1>1. /\ DOMAIN WritePending = UTasks /\ DOMAIN CopyPending = Pbid
      /\ IsFiniteSet(UTasks) /\ IsFiniteSet(Pbid)
  BY IoAssumption, PbidFinite DEF WritePending, CopyPending
<1>2. PICK f, g : f = WritePending /\ g = CopyPending
  OBVIOUS
<1>3. Count(f, z) \in Nat /\ Count(g, z) \in Nat /\ zone[z].pending_write_io = Count(f, z) + Count(g, z)
  BY <1>1, <1>2, CountOf DEF PendingExact
<1>4. (\E t \in UTasks : f[t] = z) => Count(f, z) # 0
  BY <1>1, <1>2, CountZero
<1>5. (\E p \in Pbid : g[p] = z) => Count(g, z) # 0
  BY <1>1, <1>2, CountZero
<1> QED BY <1>2, <1>3, <1>4, <1>5

\* A block is allocated in zone y.
LEMMA TakeQuiet ==
    ASSUME TypeOK, PlaceInv, PlaceInv', FactsInv, PendingExact, QuietZones,
           NEW flag, NEW s \in Streams, lbz_zone_alloc_res(flag, s)
    PROVE  QuietZones'
<1>1. PICK y : y = TargetZone(s)
  OBVIOUS
<1>2. OnePlace /\ ZoneMarks /\ OnePlace' /\ ZoneMarks' /\ NULL \notin Zone
  BY DevAssumption DEF PlaceInv
<1>3. /\ y \in Zone /\ Listed(y) /\ Unmarked(y) /\ \A z \in Zone : z # y => zone'[z] = zone[z]
      /\ zone'[y].wp_block = zone[y].wp_block + 1 /\ zone[y].wp_block \in Nat
      /\ active_zone[s] = y \/ active_zone[s] = NULL
      /\ \/ /\ zone[y].wp_block + 1 = ZoneNrBlocks /\ active_zone' = [active_zone EXCEPT ![s] = NULL]
            /\ "TO_FULL" \in zone'[y].flags /\ "GC" \notin zone'[y].flags
         \/ /\ zone[y].wp_block + 1 < ZoneNrBlocks /\ active_zone' = [active_zone EXCEPT ![s] = y]
            /\ Unmarked(y)'
      /\ full_zone_list' = full_zone_list
  BY <1>1, <1>2, AllocFx
<1>4. /\ zone'[y].pending_write_io = zone[y].pending_write_io + 1
      /\ zone[y].pending_write_io >= 0 /\ (ActiveZone(y) => zone[y].state = "OPEN") => zone'[y].state = "OPEN"
  BY <1>1, <1>2, AllocPends
<1>5. zone'[y].state = "OPEN"
  <2>1. zone[y].pending_write_io \in Nat
    BY <1>3, PendFacts
  <2>2. ActiveZone(y) => zone[y].state = "OPEN"
    BY <1>3 DEF QuietZones
  <2> QED BY <1>4, <2>1, <2>2
<1>6. y \notin full_zone_list
  <2>1. EmptyZone(y) \/ ActiveZone(y)
    <3>1. active_zone[s] = y => ActiveZone(y)
      BY DEF ActiveZone
    <3>2. active_zone[s] = NULL => EmptyZone(y)
      <4>1. ASSUME active_zone[s] = NULL PROVE y = Head(empty_zone_list) /\ empty_zone_list # <<>>
        BY <1>1, <4>1 DEF TargetZone, NeedZone, lbz_zone_alloc_res, AllocSucceeds
      <4>2. empty_zone_list \in Seq(Zone)
        BY DEF TypeOK, ZmdTypeOK
      <4> QED BY <4>1, <4>2 DEF EmptyZone
    <3> QED BY <1>3, <3>1, <3>2
  <2> QED BY <1>2, <1>3, <2>1 DEF OnePlace, FullZone
<1>7. ASSUME NEW z \in Zone PROVE QuietZone(z)'
  <2>1. CASE z = y
    <3>1. ~FullZone(z)' /\ ~Marked(z)'
      BY <1>3, <1>6, <2>1 DEF FullZone, Marked, Unmarked
    <3>2. "TO_FULL" \in zone'[z].flags => zone'[z].wp_block = ZoneNrBlocks
      BY <1>3, <2>1 DEF Unmarked
    <3> QED BY <1>5, <2>1, <3>1, <3>2 DEF QuietZone
  <2>2. CASE z # y
    <3>1. zone'[z] = zone[z] /\ (FullZone(z)' <=> FullZone(z)) /\ (Marked(z)' <=> Marked(z))
      BY <1>3, <2>2 DEF FullZone, Marked
    <3>2. ActiveZone(z)' => ActiveZone(z)
      <4>1. active_zone \in [Streams -> Zone \cup {NULL}]
        BY DEF TypeOK, ZmdTypeOK
      <4> QED BY <1>2, <1>3, <2>2, <4>1 DEF ActiveZone
    <3> QED BY <3>1, <3>2 DEF QuietZones, QuietZone
  <2> QED BY <2>1, <2>2
<1> QED BY <1>7 DEF QuietZones, QuietZone

\* A step that only takes or drops references keeps a zone quiet.
LEMMA CalmQuiet ==
    ASSUME TypeOK, PlaceInv, PlaceInv', QuietZones, NEW z \in Zone,
           Refers(zone[z], zone'[z]), UNCHANGED <<listVars, zs>>
    PROVE  QuietZone(z)'
<1>1. ZoneMarks /\ ZoneMarks'
  BY DEF PlaceInv
<1>2. /\ (FullZone(z)' <=> FullZone(z)) /\ (ActiveZone(z)' <=> ActiveZone(z))
  BY DEF FullZone, ActiveZone, listVars
<1>3. /\ ("GC" \in zone'[z].flags <=> "GC" \in zone[z].flags)
      /\ ("TO_FULL" \in zone'[z].flags <=> "TO_FULL" \in zone[z].flags)
      /\ zone'[z].wp_block = zone[z].wp_block
  BY DEF Refers, MarksAlike
<1>4. Listed(z) => Unmarked(z)
  BY <1>1 DEF ZoneMarks
<1>5. ~("GC" \in zone[z].flags /\ "TO_FULL" \in zone[z].flags)
  BY <1>1 DEF ZoneMarks
<1> QED BY <1>2, <1>3, <1>4, <1>5 DEF QuietZones, QuietZone, Refers, Marked, Listed, Unmarked

\* lbz_zone_complete_write on zone y, which has a write in flight.
LEMMA CompleteQuiet ==
    ASSUME TypeOK, PlaceInv, PlaceInv', QuietZones, NEW y \in Zone, zone[y].pending_write_io > 0,
           zone' = [zone EXCEPT ![y] = lbz_zone_complete_write(@)], UNCHANGED listVars
    PROVE  QuietZones'
<1>1. ASSUME NEW z \in Zone PROVE QuietZone(z)'
  <2>1. /\ (FullZone(z)' <=> FullZone(z)) /\ (ActiveZone(z)' <=> ActiveZone(z))
    BY DEF FullZone, ActiveZone, listVars
  <2>2. /\ zone'[z].flags = zone[z].flags /\ zone'[z].wp_block = zone[z].wp_block
        /\ zone'[z].state = zone[z].state
        /\ z # y => zone'[z].pending_write_io = zone[z].pending_write_io
    BY DEF lbz_zone_complete_write, TypeOK, ZmdTypeOK, ZoneRec
  <2>3. zone[y].pending_write_io # 0
    BY DEF TypeOK, ZmdTypeOK, ZoneRec
  <2> QED BY <2>1, <2>2, <2>3 DEF QuietZones, QuietZone, Marked
<1> QED BY <1>1 DEF QuietZones, QuietZone

\* The zone worker, when it acts on approved states, and the choice of a victim.
LEMMA WorkerQuiet ==
    ASSUME TypeOK, PlaceInv, PlaceInv', QuietZones, ZoneMgmtApproved, ZoneStateWork \/ GcSelect
    PROVE  QuietZones'
<1>1. /\ zone \in [Zone -> ZoneRec] /\ zs.i \in Zone /\ OnePlace /\ ZoneMarks /\ ZoneMarks' /\ WorkerZone
      /\ zs.pc = "close" => zone[zs.i].state # "OPEN"
      /\ zs.pc = "reset" => zone[zs.i].state = "EMPTY"
  BY DEF TypeOK, ZmdTypeOK, ZsRec, PlaceInv, ZoneMgmtApproved
<1>2. SUFFICES ASSUME NEW z \in Zone PROVE QuietZone(z)'
  BY <1>2 DEF QuietZones, QuietZone
<1>3. QuietZone(z) /\ (Listed(z) => Unmarked(z))
  BY <1>1 DEF QuietZones, QuietZone, ZoneMarks
<1>4. ASSUME zone'[z] = zone[z], FullZone(z)' <=> FullZone(z), ActiveZone(z)' <=> ActiveZone(z)
      PROVE  QuietZone(z)'
  BY <1>3, <1>4 DEF QuietZone, Marked
<1>5. CASE ZsStart \/ ZsScanRefcount \/ ZsGcZone \/ ZsResetFails \/ ZsRelease
  <2>1. UNCHANGED <<zone, full_zone_list, active_zone>>
    BY <1>5 DEF ZsStart, ZsScanRefcount, ZsGcZone, ZsResetFails, ZsRelease, listVars
  <2> QED BY <1>4, <2>1 DEF FullZone, ActiveZone
<1>6. CASE ZsScanToFull
  <2>1. /\ UNCHANGED <<full_zone_list, active_zone>> /\ "TO_FULL" \in zone[zs.i].flags
        /\ \/ zone' = zone
           \/ zone[zs.i].state = "FULL" /\ zone' = [zone EXCEPT ![zs.i].state = "CLOSED"]
    BY <1>6 DEF ZsScanToFull, listVars
  <2>2. /\ zone'[z].flags = zone[z].flags /\ zone'[z].wp_block = zone[z].wp_block
        /\ zone'[z].pending_write_io = zone[z].pending_write_io
        /\ zone'[z].state = zone[z].state \/ (zone[z].state = "FULL" /\ zone'[z].state = "CLOSED")
    BY <1>1, <2>1 DEF ZoneRec
  <2>3. (FullZone(z)' <=> FullZone(z)) /\ (ActiveZone(z)' <=> ActiveZone(z))
    BY <2>1 DEF FullZone, ActiveZone
  <2> QED BY <1>3, <2>2, <2>3 DEF QuietZone, Marked
<1>7. CASE ZsClose
  <2>1. /\ zs.pc = "close" /\ zone' = [zone EXCEPT ![zs.i].flags = {"FULL"}]
        /\ full_zone_list' = full_zone_list \cup {zs.i} /\ active_zone' = active_zone
    BY <1>7 DEF ZsClose
  <2>2. CASE z = zs.i
    <3>1. /\ zone'[z].flags = {"FULL"} /\ zone'[z].wp_block = zone[z].wp_block
          /\ zone'[z].pending_write_io = zone[z].pending_write_io /\ zone'[z].state = zone[z].state
      BY <1>1, <2>1, <2>2 DEF ZoneRec
    <3>2. "TO_FULL" \in zone[z].flags /\ zone[z].state # "OPEN" /\ ~ActiveZone(z)
      BY <1>1, <1>3, <2>1, <2>2 DEF WorkerZone, Listed, Unmarked
    <3>3. ~ActiveZone(z)'
      BY <2>1, <3>2 DEF ActiveZone
    <3> QED BY <1>3, <3>1, <3>2, <3>3 DEF QuietZone, Marked
  <2>3. CASE z # zs.i
    BY <1>1, <1>4, <2>1, <2>3 DEF FullZone, ActiveZone
  <2> QED BY <2>2, <2>3
<1>8. CASE ZsReset
  <2>1. /\ zs.pc = "reset" /\ UNCHANGED <<full_zone_list, active_zone>>
        /\ \/ zone' = zone
           \/ zone' = [zone EXCEPT ![zs.i] = [@ EXCEPT !.wp_block = 0, !.state = "EMPTY", !.flags = {"INIT"}]]
    BY <1>8 DEF ZsReset, listVars
  <2>2. CASE z = zs.i /\ zone' # zone
    <3>1. zone'[z].flags = {"INIT"} /\ zone'[z].state = "EMPTY"
      <4>1. zone'[z] = [zone[z] EXCEPT !.wp_block = 0, !.state = "EMPTY", !.flags = {"INIT"}]
        BY <1>1, <2>1, <2>2
      <4>2. zone[z] \in ZoneRec
        BY <1>1
      <4> QED BY <4>1, <4>2 DEF ZoneRec
    <3>2. "GC" \in zone[z].flags /\ ~ActiveZone(z) /\ ~FullZone(z)
      BY <1>1, <1>3, <2>1, <2>2 DEF WorkerZone, Listed, Unmarked
    <3>3. ~ActiveZone(z)' /\ ~FullZone(z)'
      BY <2>1, <3>2 DEF ActiveZone, FullZone
    <3> QED BY <3>1, <3>3 DEF QuietZone, Marked
  <2>3. CASE z # zs.i \/ zone' = zone
    BY <1>1, <1>4, <2>1, <2>3 DEF FullZone, ActiveZone
  <2> QED BY <2>2, <2>3
<1>9. CASE GcSelect
  <2>1. PICK y \in full_zone_list :
           /\ full_zone_list' = full_zone_list \ {y} /\ active_zone' = active_zone
           /\ zone' = [zone EXCEPT ![y] = SetFlag(lbz_get_zone(@), "GC")]
    BY <1>9 DEF GcSelect, lbz_find_victim_zone, MinWeight
  <2>2. CASE z = y
    <3>1. zone'[z] = SetFlag(lbz_get_zone(zone[z]), "GC")
      BY <1>1, <2>1, <2>2
    <3>2. PICK g : g = lbz_get_zone(zone[z])
      OBVIOUS
    <3>3. /\ g \in ZoneRec /\ g.flags = zone[z].flags /\ g.wp_block = zone[z].wp_block
          /\ g.pending_write_io = zone[z].pending_write_io /\ g.state = zone[z].state
      BY <1>1, <3>2 DEF lbz_get_zone, ZoneRec
    <3>4. /\ zone'[z].flags = zone[z].flags \cup {"GC"} /\ zone'[z].wp_block = zone[z].wp_block
          /\ zone'[z].pending_write_io = zone[z].pending_write_io /\ zone'[z].state = zone[z].state
      BY <3>1, <3>2, <3>3 DEF SetFlag, ZoneRec
    <3>5. FullZone(z) /\ ~FullZone(z)' /\ ~ActiveZone(z)
      BY <1>1, <2>1, <2>2 DEF FullZone, OnePlace
    <3>6. ~ActiveZone(z)'
      BY <2>1, <3>5 DEF ActiveZone
    <3>7. "TO_FULL" \notin zone'[z].flags
      BY <1>3, <3>4, <3>5 DEF Listed, Unmarked
    <3> QED BY <1>3, <3>4, <3>5, <3>6, <3>7 DEF QuietZone, Marked
  <2>3. CASE z # y
    BY <1>1, <1>4, <2>1, <2>3 DEF FullZone, ActiveZone
  <2> QED BY <2>2, <2>3
<1> QED BY <1>5, <1>6, <1>7, <1>8, <1>9 DEF ZoneStateWork

\* Every approved step keeps the zones quiet.
LEMMA NextQuiet ==
    ASSUME TypeOK, TaskInv, FactsInv, PlaceInv, PlaceInv', PendingExact, QuietZones,
           ZoneMgmtApproved, [Next]_vars
    PROVE  QuietZones'
<1>1. CASE Calm
  BY <1>1, CalmQuiet DEF Calm, ZonesRefer, QuietZones, QuietZone
<1>2. ASSUME NEW t \in UTasks, WComplete(t) PROVE QuietZones'
  <2>1. /\ wt[t].pc = "complete" /\ UNCHANGED listVars
        /\ zone' = [zone EXCEPT ![wt[t].zone] = lbz_zone_complete_write(@)]
    BY <1>2 DEF WComplete
  <2>2. PICK y : y = wt[t].zone
    OBVIOUS
  <2>3. y \in Zone /\ WritePending[t] = y
    BY <2>1, <2>2 DEF FactsInv, WtZones, WritePending
  <2>4. zone[y].pending_write_io > 0
    BY <2>3, PendFacts
  <2> QED BY <2>1, <2>2, <2>3, <2>4, CompleteQuiet
<1>3. ASSUME NEW p \in Pbid, GEndio(p) PROVE QuietZones'
  <2>1. /\ gt[p].pc = "endio" /\ UNCHANGED listVars
        /\ zone' = [zone EXCEPT ![gt[p].zone] = lbz_zone_complete_write(@)]
    BY <1>3 DEF GEndio
  <2>2. PICK y : y = gt[p].zone
    OBVIOUS
  <2>3. y \in Zone /\ CopyPending[p] = y
    BY <2>1, <2>2 DEF FactsInv, GtZones, CopyPending
  <2>4. zone[y].pending_write_io > 0
    BY <2>3, PendFacts
  <2> QED BY <2>1, <2>2, <2>3, <2>4, CompleteQuiet
<1>4. ASSUME NEW t \in UTasks, NEW s \in Streams, WriteTakes(t, s) PROVE QuietZones'
  BY <1>4, TakeQuiet DEF WriteTakes, WGotZone
<1>5. ASSUME NEW p \in Pbid, NEW s \in Streams, CopyTakes(p, s) PROVE QuietZones'
  BY <1>5, TakeQuiet DEF CopyTakes, GGotZone
<1> QED BY <1>1, <1>2, <1>3, <1>4, <1>5, NextZones, WorkerQuiet DEF Calmer

\* All zones start quiet.
LEMMA InitQuiet ==
    ASSUME Init
    PROVE  QuietZones
<1>1. /\ zone = [z \in Zone |-> InitZone(z)] /\ full_zone_list = {z \in Zone : DiskWp[z] = ZoneNrBlocks}
      /\ active_zone = [s \in Streams |->
             IF \E z \in PartialZones : StreamTaken(z) = s
             THEN CHOOSE z \in PartialZones : StreamTaken(z) = s ELSE NULL]
  BY DEF Init, ZmdInit
<1>2. DiskWp \in [Zone -> 0 .. ZoneNrBlocks] /\ ZoneNrBlocks \in Nat \ {0} /\ NULL \notin Zone
  BY ZmdAssumption, DevAssumption
<1>3. ASSUME NEW z \in Zone PROVE QuietZone(z)
  <2>1. /\ zone[z].pending_write_io = 0 /\ zone[z].wp_block = DiskWp[z]
        /\ zone[z].flags \in {{"INIT"}, {"ACTIVE"}, {"FULL"}}
        /\ DiskWp[z] = ZoneNrBlocks => zone[z].state = "FULL"
        /\ 0 < DiskWp[z] /\ DiskWp[z] < ZoneNrBlocks => zone[z].state = "OPEN"
    BY <1>1, <1>2 DEF InitZone
  <2>2. ~Marked(z) /\ "TO_FULL" \notin zone[z].flags
    BY <2>1 DEF Marked
  <2>3. ActiveZone(z) => z \in PartialZones
    <3>1. ASSUME NEW s \in Streams, active_zone[s] = z PROVE z \in PartialZones
      <4>1. \E y \in PartialZones : StreamTaken(y) = s
        BY <1>1, <1>2, <3>1
      <4> QED BY <1>1, <3>1, <4>1
    <3> QED BY <3>1 DEF ActiveZone
  <2>4. ActiveZone(z) => zone[z].state = "OPEN"
    BY <2>1, <2>3 DEF PartialZones
  <2> QED BY <1>1, <2>1, <2>2, <2>4 DEF QuietZone, FullZone
<1> QED BY <1>3 DEF QuietZones, QuietZone

\* While zone_state_wk_fn acts on approved states only, the zones are quiet.
THEOREM ZonesQuiet == Spec /\ []ZoneMgmtApproved => []QuietZones
<1>1. IInv => TypeOK /\ TaskInv
  BY DEF IInv
<1>2. ZoneInv => FactsInv /\ PlaceInv
  BY DEF ZoneInv
<1> QED BY <1>1, <1>2, InitQuiet, NextQuiet, Inductive, ZoneInductive, PendingWritesExact, PTL DEF Spec

\* A quiet full zone is what FullZoneQuiet asks for.
LEMMA QuietFull ==
    ASSUME TypeOK, FactsInv, PendingExact, QuietZones
    PROVE  FullZoneQuiet
<1>1. full_zone_list \subseteq Zone
  BY DEF TypeOK, ZmdTypeOK
<1>2. ASSUME NEW z \in full_zone_list PROVE zone[z].pending_write_io = 0
  BY <1>1, <1>2 DEF QuietZones, FullZone
<1>3. ASSUME NEW z \in full_zone_list, NEW t \in UTasks, wt[t].zone = z PROVE ~WtInTree(t)
  <2>1. z \in Zone /\ zone[z].pending_write_io = 0 /\ NULL \notin Zone
    BY <1>1, <1>2, DevAssumption
  <2>2. WritePending[t] # z
    <3>1. WritePending[t] = z => zone[z].pending_write_io > 0
      BY <2>1, PendFacts
    <3> QED BY <2>1, <3>1
  <2>3. wt[t].pc \notin {"queued", "alloc", "alloc2"}
    BY <1>3, <2>1 DEF FactsInv, WtZones
  <2> QED BY <1>3, <2>2, <2>3 DEF WritePending, WtWriting, WtInTree
<1> QED BY <1>2, <1>3 DEF FullZoneQuiet

\* A zone GC may choose has no write in flight, for every number of zones, blocks
\* and tasks and whatever fails, as long as the worker's pass does not close or
\* reset a zone because an earlier zone of the pass was ready.
THEOREM FullZonesQuiet == Spec /\ []ZoneMgmtApproved => []FullZoneQuiet
<1>1. IInv => TypeOK /\ TaskInv
  BY DEF IInv
<1>2. ZoneInv => FactsInv /\ PlaceInv
  BY DEF ZoneInv
<1> QED BY <1>1, <1>2, QuietFull, ZonesQuiet, Inductive, ZoneInductive, PendingWritesExact, PTL

-----------------------------------------------------------------------------
(* Who knows whom: task references, tasks that met another, GC tasks       *)
(* handed to a user write.                                                 *)

Met == {"conflict", "agency"}

\* What task u is owed and owes, and whom GC task p has met, do not change.
LinkSame(u) ==
    /\ wt'[u].refcount = wt[u].refcount /\ wt'[u].pending_gc_node = wt[u].pending_gc_node
    /\ wt'[u].tk = wt[u].tk
CopyLinkSame(p) == gt'[p].tk = gt[p].tk /\ (gt[p].pc \in Met \/ gt'[p].pc \in Met => gt'[p] = gt[p])

\* Task u goes on, or is freed, with the references it had.
UserStill(u) ==
    /\ LinkSame(u) /\ OwnRefs(u)' = OwnRefs(u) /\ (wt'[u].pc = "conflict" <=> wt[u].pc = "conflict")
    /\ wt'[u].pc = "none" \/ (wt'[u].blkid = wt[u].blkid /\ wt[u].pc # "none")
CopiesStill == \A p \in Pbid : CopyLinkSame(p)
LinksStill  == (\A u \in UTasks : UserStill(u)) /\ CopiesStill

\* task_put, n times, on task u, and what is left of the others.
PutLinks(u, n) ==
    /\ wt'[u].refcount = wt[u].refcount - n
    /\ wt'[u].pending_gc_node = IF LastPut(u, n) THEN NULL ELSE wt[u].pending_gc_node
RunsCallback(ps) == ps \subseteq Pbid /\ gt' = CallbackTask(gt, ps)

\* task_put on a record.
LEMMA PutRecord ==
    ASSUME NEW u, NEW n \in Int, NEW task \in WtRec, task.refcount = wt[u].refcount, wt[u].refcount \in Int
    PROVE  /\ task_put(u, n, task) \in WtRec /\ SameTask(task_put(u, n, task), task)
           /\ task_put(u, n, task).refcount = wt[u].refcount - n
           /\ task_put(u, n, task).pending_gc_node = IF LastPut(u, n) THEN NULL ELSE task.pending_gc_node
           /\ task_put(u, n, task).tk = task.tk
<1>1. CASE LastPut(u, n)
  <2> DEFINE r1 == [task EXCEPT !.refcount = 0]
  <2>1. /\ r1 \in WtRec /\ SameTask(r1, task) /\ r1.tk = task.tk /\ r1.refcount = 0
    BY DEF WtRec, SameTask
  <2>2. task_put(u, n, task) = [r1 EXCEPT !.pending_gc_node = NULL]
    BY <1>1 DEF task_put
  <2> HIDE DEF r1
  <2>3. wt[u].refcount - n = 0
    BY <1>1 DEF LastPut
  <2> QED BY <1>1, <2>1, <2>2, <2>3 DEF WtRec, SameTask
<1>2. CASE ~LastPut(u, n)
  <2>1. task_put(u, n, task) = [task EXCEPT !.refcount = @ - n]
    BY <1>2 DEF task_put
  <2> QED BY <1>2, <2>1 DEF WtRec, SameTask
<1> QED BY <1>1, <1>2

\* insert_task_to_tree: t wins, or takes a reference on the owner.
LEMMA InsertLinks ==
    ASSUME TypeOK, TaskInv, NEW t \in UTasks, NEW task \in WtRec, InsertUser(t, task), ~WtInTree(t),
           task.blkid \in Blks, NEW own, own = tree[task.blkid]
    PROVE  /\ own # t /\ own \in Owner
           /\ wt'[t].blkid = task.blkid /\ wt'[t].pending_gc_node = task.pending_gc_node
           /\ \/ /\ own = NULL /\ wt'[t].pc = "alloc" /\ wt'[t].refcount = task.refcount + 1
                 /\ wt'[t].tk = task.tk
              \/ /\ own # NULL /\ wt'[t].pc = "conflict" /\ wt'[t].refcount = task.refcount
                 /\ wt'[t].tk = own
           /\ \A u \in UTasks : u # t =>
                 /\ SameTask(wt'[u], wt[u]) /\ wt'[u].pending_gc_node = wt[u].pending_gc_node
                 /\ wt'[u].tk = wt[u].tk
                 /\ wt'[u].refcount = wt[u].refcount + (IF u = own THEN 1 ELSE 0)
<1>1. wt \in [UTasks -> WtRec] /\ own \in Owner /\ NULL \notin UTasks /\ NULL \notin Pbid /\ UTasks \cap Pbid = {}
  BY IoAssumption, DevAssumption DEF TypeOK, IoTypeOK
<1>2. own # t
  BY DEF TaskInv, TaskTreeExact
<1> DEFINE won1 == [task EXCEPT !.pc = "alloc", !.status = "ALLOC_RES"]
           won  == [won1 EXCEPT !.refcount = @ + 1]
           fail == [task EXCEPT !.pc = "conflict", !.tk = own]
<1>3. /\ won1 \in WtRec /\ won1.pc = "alloc" /\ won1.blkid = task.blkid /\ won1.tk = task.tk
      /\ won1.refcount = task.refcount /\ won1.pending_gc_node = task.pending_gc_node
  BY DEF WtRec, WtPc
<1>4. /\ won.pc = "alloc" /\ won.blkid = task.blkid /\ won.tk = task.tk
      /\ won.refcount = task.refcount + 1 /\ won.pending_gc_node = task.pending_gc_node
  <2> HIDE DEF won1
  <2> QED BY <1>3 DEF WtRec
<1>5. /\ fail.pc = "conflict" /\ fail.blkid = task.blkid /\ fail.tk = own
      /\ fail.refcount = task.refcount /\ fail.pending_gc_node = task.pending_gc_node
  BY DEF WtRec
<1>6. \/ own = NULL /\ wt' = [wt EXCEPT ![t] = won]
      \/ own \in UTasks /\ wt' = [[wt EXCEPT ![t] = fail] EXCEPT ![own].refcount = @ + 1]
      \/ own \in Pbid /\ wt' = [wt EXCEPT ![t] = fail]
  <2>1. won = [task EXCEPT !.pc = "alloc", !.status = "ALLOC_RES", !.refcount = @ + 1]
    BY DEF WtRec
  <2> HIDE DEF won
  <2> QED BY <2>1 DEF InsertUser
<1> HIDE DEF won, fail
<1>7. CASE own = NULL /\ wt' = [wt EXCEPT ![t] = won]
  <2>1. wt'[t] = won /\ \A u \in UTasks : u # t => wt'[u] = wt[u] /\ u # own
    BY <1>1, <1>7
  <2>2. \A u \in UTasks : wt[u].refcount \in Int
    BY <1>1 DEF WtRec
  <2> QED BY <1>1, <1>2, <1>4, <1>7, <2>1, <2>2 DEF SameTask
<1>8. CASE own \in UTasks /\ wt' = [[wt EXCEPT ![t] = fail] EXCEPT ![own].refcount = @ + 1]
  <2>1. /\ wt'[t] = fail /\ wt'[own] = [wt[own] EXCEPT !.refcount = @ + 1]
        /\ \A u \in UTasks : u # t /\ u # own => wt'[u] = wt[u]
    BY <1>1, <1>2, <1>8
  <2>2. /\ SameTask(wt'[own], wt[own]) /\ wt'[own].pending_gc_node = wt[own].pending_gc_node
        /\ wt'[own].tk = wt[own].tk /\ wt'[own].refcount = wt[own].refcount + 1
    BY <1>1, <1>8, <2>1 DEF SameTask, WtRec
  <2>3. \A u \in UTasks : wt[u].refcount \in Int
    BY <1>1 DEF WtRec
  <2>4. own # NULL
    BY <1>1, <1>8
  <2>5. ASSUME NEW u \in UTasks, u # t
        PROVE  /\ SameTask(wt'[u], wt[u]) /\ wt'[u].pending_gc_node = wt[u].pending_gc_node
               /\ wt'[u].tk = wt[u].tk
               /\ wt'[u].refcount = wt[u].refcount + (IF u = own THEN 1 ELSE 0)
    <3>1. CASE u = own
      BY <2>2, <3>1
    <3>2. CASE u # own
      BY <2>1, <2>3, <2>5, <3>2 DEF SameTask
    <3> QED BY <3>1, <3>2
  <2> QED BY <1>1, <1>2, <1>5, <2>1, <2>4, <2>5
<1>9. CASE own \in Pbid /\ wt' = [wt EXCEPT ![t] = fail]
  <2>1. wt'[t] = fail /\ \A u \in UTasks : u # t => wt'[u] = wt[u] /\ u # own
    BY <1>1, <1>9
  <2>2. \A u \in UTasks : wt[u].refcount \in Int
    BY <1>1 DEF WtRec
  <2>3. own # NULL
    BY <1>1, <1>9
  <2> QED BY <1>1, <1>2, <1>5, <2>1, <2>2, <2>3 DEF SameTask
<1> QED BY <1>6, <1>7, <1>8, <1>9

\* WConflict: t lets go of the task it met.
LEMMA ConflictLinks ==
    ASSUME TypeOK, TaskInv, NEW t \in UTasks, WConflict(t), NEW o, o = wt[t].tk
    PROVE  /\ wt[t].pc = "conflict" /\ wt'[t].pc = "queued" /\ wt'[t].status = wt[t].status
           /\ wt'[t].tk = NULL /\ \A u \in UTasks : wt'[u].blkid = wt[u].blkid
           /\ \A u \in UTasks : u # t => SameTask(wt'[u], wt[u]) /\ wt'[u].tk = wt[u].tk
           /\ o \in UTasks => PutLinks(o, 1) /\ RunsCallback(Pending(o, 1))
           /\ o \notin UTasks => gt' = gt
           /\ \A u \in UTasks : u # o => /\ wt'[u].refcount = wt[u].refcount
                                         /\ wt'[u].pending_gc_node = wt[u].pending_gc_node
<1> DEFINE w == IF o \in UTasks THEN [wt EXCEPT ![o] = task_put(o, 1, @)] ELSE wt
<1>1. wt \in [UTasks -> WtRec] /\ \A u \in UTasks : wt[u].refcount \in Int
  BY DEF TypeOK, IoTypeOK, WtRec
<1>2. /\ w \in [UTasks -> WtRec]
      /\ \A x \in UTasks : SameTask(w[x], wt[x]) /\ w[x].tk = wt[x].tk
      /\ o \in UTasks => /\ w[o].refcount = wt[o].refcount - 1
                         /\ w[o].pending_gc_node = IF LastPut(o, 1) THEN NULL ELSE wt[o].pending_gc_node
      /\ \A x \in UTasks : x # o => w[x] = wt[x]
  <2>1. CASE o \in UTasks
    <3>1. w = [wt EXCEPT ![o] = task_put(o, 1, wt[o])]
      BY <2>1
    <3>2. PICK r : r = task_put(o, 1, wt[o])
      OBVIOUS
    <3>3. /\ r \in WtRec /\ SameTask(r, wt[o]) /\ r.refcount = wt[o].refcount - 1 /\ r.tk = wt[o].tk
          /\ r.pending_gc_node = IF LastPut(o, 1) THEN NULL ELSE wt[o].pending_gc_node
      BY <1>1, <2>1, <3>2, PutRecord
    <3> HIDE DEF w
    <3> QED BY <1>1, <2>1, <3>1, <3>2, <3>3 DEF SameTask
  <2>2. CASE o \notin UTasks
    BY <1>1, <2>2 DEF SameTask
  <2> QED BY <2>1, <2>2
<1>3. wt[t].pc = "conflict" /\ wt' = [w EXCEPT ![t].pc = "queued", ![t].tk = NULL]
  BY DEF WConflict
<1> HIDE DEF w
<1>4. PICK w1 : w1 = [w[t] EXCEPT !.pc = "queued"]
  OBVIOUS
<1>5. /\ w1 \in WtRec /\ w1.pc = "queued" /\ w1.status = w[t].status /\ w1.blkid = w[t].blkid
      /\ w1.refcount = w[t].refcount /\ w1.pending_gc_node = w[t].pending_gc_node
  BY <1>2, <1>4 DEF WtRec, WtPc
<1>6. wt'[t] = [w1 EXCEPT !.tk = NULL] /\ \A u \in UTasks : u # t => wt'[u] = w[u]
  BY <1>2, <1>3, <1>4
<1>7. /\ wt'[t].pc = "queued" /\ wt'[t].status = wt[t].status /\ wt'[t].blkid = wt[t].blkid /\ wt'[t].tk = NULL
      /\ wt'[t].refcount = w[t].refcount /\ wt'[t].pending_gc_node = w[t].pending_gc_node
  BY <1>2, <1>5, <1>6 DEF WtRec, SameTask
<1>8. \A u \in UTasks : wt'[u].refcount = w[u].refcount /\ wt'[u].pending_gc_node = w[u].pending_gc_node
  BY <1>6, <1>7
<1>9. o \in UTasks => PutLinks(o, 1)
  BY <1>2, <1>8 DEF PutLinks
<1>10. /\ o \in UTasks => RunsCallback(Pending(o, 1))
       /\ o \notin UTasks => gt' = gt
  <2>1. gt' = CallbackTask(gt, IF o \in UTasks THEN Pending(o, 1) ELSE {})
    BY DEF WConflict
  <2>2. o \in UTasks => Pending(o, 1) \subseteq Pbid
    BY <1>1 DEF Pending, WtRec
  <2>3. gt = [p \in Pbid |-> gt[p]]
    BY DEF TypeOK, IoTypeOK
  <2> QED BY <2>1, <2>2, <2>3 DEF RunsCallback, CallbackTask
<1>11. \A u \in UTasks : u # t => SameTask(wt'[u], wt[u]) /\ wt'[u].tk = wt[u].tk
  BY <1>2, <1>6
<1>12. \A u \in UTasks : wt'[u].blkid = wt[u].blkid
  BY <1>7, <1>11 DEF SameTask
<1>13. \A u \in UTasks : u # o => /\ wt'[u].refcount = wt[u].refcount
                                  /\ wt'[u].pending_gc_node = wt[u].pending_gc_node
  BY <1>2, <1>8
<1> QED BY <1>3, <1>7, <1>9, <1>10, <1>11, <1>12, <1>13

\* WDel and WAllocEio: t leaves the tree and drops both references.
LEMMA DropLinks ==
    ASSUME TypeOK, TaskInv, NEW t \in UTasks, WDel(t) \/ (wt[t].pc = "alloc2" /\ WAllocEio(t))
    PROVE  /\ WtInTree(t) /\ wt[t].pc # "conflict"
           /\ \/ wt'[t].pc = "complete" /\ wt'[t].tk = wt[t].tk /\ wt'[t].blkid = wt[t].blkid
              \/ wt'[t].pc = "none" /\ wt'[t].tk = NULL
           /\ PutLinks(t, 2) /\ RunsCallback(Pending(t, 2))
           /\ \A u \in UTasks : u # t => wt'[u] = wt[u]
<1>1. wt \in [UTasks -> WtRec] /\ \A u \in UTasks : wt[u].refcount \in Int
  BY DEF TypeOK, IoTypeOK, WtRec
<1>2. RunsCallback(Pending(t, 2))
  <2>1. gt' = CallbackTask(gt, Pending(t, 2))
    BY DEF WDel, WAllocEio
  <2>2. Pending(t, 2) \subseteq Pbid
    BY <1>1 DEF Pending, WtRec
  <2> QED BY <2>1, <2>2 DEF RunsCallback
<1>3. CASE WDel(t)
  <2>1. PICK n : n = [wt[t] EXCEPT !.pc = "complete"]
    OBVIOUS
  <2>2. /\ n \in WtRec /\ n.pc = "complete" /\ n.tk = wt[t].tk /\ n.refcount = wt[t].refcount
        /\ n.pending_gc_node = wt[t].pending_gc_node /\ n.blkid = wt[t].blkid
    BY <1>1, <2>1 DEF WtRec, WtPc
  <2>3. wt[t].pc = "del" /\ wt' = [wt EXCEPT ![t] = task_put(t, 2, n)]
    BY <1>1, <1>3, <2>1 DEF WDel
  <2>4. PICK r : r = task_put(t, 2, n)
    OBVIOUS
  <2>5. /\ SameTask(r, n) /\ r.refcount = wt[t].refcount - 2 /\ r.tk = n.tk
        /\ r.pending_gc_node = IF LastPut(t, 2) THEN NULL ELSE n.pending_gc_node
    BY <1>1, <2>2, <2>4, PutRecord
  <2>6. wt'[t] = r /\ \A u \in UTasks : u # t => wt'[u] = wt[u]
    BY <1>1, <2>3, <2>4
  <2>7. WtInTree(t)
    BY <2>3 DEF WtInTree
  <2> QED BY <1>2, <2>2, <2>3, <2>5, <2>6, <2>7 DEF PutLinks, SameTask
<1>4. CASE wt[t].pc = "alloc2" /\ WAllocEio(t)
  <2>1. PICK n : n = [NoTask EXCEPT !.refcount = wt[t].refcount, !.pending_gc_node = wt[t].pending_gc_node]
    OBVIOUS
  <2>2. /\ n \in WtRec /\ n.pc = "none" /\ n.tk = NULL /\ n.refcount = wt[t].refcount
        /\ n.pending_gc_node = wt[t].pending_gc_node
    <3>1. PICK n1 : n1 = [NoTask EXCEPT !.refcount = wt[t].refcount]
      OBVIOUS
    <3>2. n1 \in WtRec /\ n1.pc = "none" /\ n1.tk = NULL /\ n1.refcount = wt[t].refcount
      BY <1>1, <3>1 DEF NoTask, WtRec, WtPc, Owner
    <3>3. n = [n1 EXCEPT !.pending_gc_node = wt[t].pending_gc_node] /\ wt[t].pending_gc_node \in Pbid \cup {NULL}
      BY <1>1, <2>1, <3>1 DEF NoTask, WtRec
    <3> QED BY <3>2, <3>3 DEF WtRec
  <2>3. wt' = [wt EXCEPT ![t] = task_put(t, 2, n)]
    BY <1>1, <1>4, <2>1 DEF WAllocEio
  <2>4. PICK r : r = task_put(t, 2, n)
    OBVIOUS
  <2>5. /\ SameTask(r, n) /\ r.refcount = wt[t].refcount - 2 /\ r.tk = n.tk
        /\ r.pending_gc_node = IF LastPut(t, 2) THEN NULL ELSE n.pending_gc_node
    BY <1>1, <2>2, <2>4, PutRecord
  <2>6. wt'[t] = r /\ \A u \in UTasks : u # t => wt'[u] = wt[u]
    BY <1>1, <2>3, <2>4
  <2>7. WtInTree(t)
    BY <1>4 DEF WtInTree
  <2> QED BY <1>2, <1>4, <2>2, <2>5, <2>6, <2>7 DEF PutLinks, SameTask
<1> QED BY <1>3, <1>4

\* GAgency: p is handed to the task it met, and lets go of it.
LEMMA AgencyLinks ==
    ASSUME TypeOK, TaskInv, NEW p \in Pbid, GAgency(p), NEW o, o = gt[p].tk
    PROVE  /\ gt[p].pc = "conflict" /\ o \in UTasks /\ \A u \in UTasks : SameTask(wt'[u], wt[u]) /\ wt'[u].tk = wt[u].tk
           /\ \A u \in UTasks : u # o => wt'[u] = wt[u]
           /\ wt'[o].refcount = wt[o].refcount - 1
           /\ wt'[o].pending_gc_node = IF LastPut(o, 1) THEN NULL ELSE p
           /\ \A q \in Pbid : q # p => gt'[q] = gt[q]
           /\ LastPut(o, 1) => gt'[p] = NoGcTask
           /\ ~LastPut(o, 1) => gt'[p].pc = "agency" /\ gt'[p].tk = NULL /\ gt'[p].blkid = gt[p].blkid
<1>1. /\ wt \in [UTasks -> WtRec] /\ gt \in [Pbid -> GtRec] /\ \A u \in UTasks : wt[u].refcount \in Int
  BY DEF TypeOK, IoTypeOK, WtRec
<1>2. /\ o \in UTasks /\ gt[p].pc = "conflict"
      /\ wt' = [wt EXCEPT ![o] = task_put(o, 1, [@ EXCEPT !.pending_gc_node = p])]
      /\ gt' = [gt EXCEPT ![p] = IF LastPut(o, 1) THEN NoGcTask ELSE [@ EXCEPT !.pc = "agency", !.tk = NULL]]
  BY DEF GAgency
<1>3. PICK n : n = [wt[o] EXCEPT !.pending_gc_node = p]
  OBVIOUS
<1>4. n \in WtRec /\ SameTask(n, wt[o]) /\ n.tk = wt[o].tk /\ n.refcount = wt[o].refcount /\ n.pending_gc_node = p
  BY <1>1, <1>2, <1>3 DEF WtRec, SameTask
<1>5. PICK r : r = task_put(o, 1, n)
  OBVIOUS
<1>6. /\ SameTask(r, n) /\ r.refcount = wt[o].refcount - 1 /\ r.tk = n.tk
      /\ r.pending_gc_node = IF LastPut(o, 1) THEN NULL ELSE n.pending_gc_node
  BY <1>1, <1>2, <1>4, <1>5, PutRecord
<1>7. wt'[o] = r /\ \A u \in UTasks : u # o => wt'[u] = wt[u]
  BY <1>1, <1>2, <1>3, <1>5
<1>8. \A u \in UTasks : SameTask(wt'[u], wt[u]) /\ wt'[u].tk = wt[u].tk
  BY <1>4, <1>6, <1>7 DEF SameTask
<1>9. /\ \A q \in Pbid : q # p => gt'[q] = gt[q]
      /\ LastPut(o, 1) => gt'[p] = NoGcTask
      /\ ~LastPut(o, 1) => gt'[p].pc = "agency" /\ gt'[p].tk = NULL /\ gt'[p].blkid = gt[p].blkid
  BY <1>1, <1>2 DEF GtRec
<1> QED BY <1>2, <1>4, <1>6, <1>7, <1>8, <1>9

\* insert_task_to_tree for a GC task: p wins, or takes a reference on the owner.
LEMMA MeetLinks ==
    ASSUME TypeOK, TaskInv, WkGc
    PROVE  \E p \in Pbid : \E own \in Owner :
               /\ gt[p].pc = "queued" /\ gt[p].blkid \in Blks /\ own = tree[gt[p].blkid]
               /\ gt'[p].blkid = gt[p].blkid
               /\ \A q \in Pbid : q # p => gt'[q] = gt[q]
               /\ \A u \in UTasks :
                     /\ SameTask(wt'[u], wt[u]) /\ wt'[u].tk = wt[u].tk
                     /\ wt'[u].pending_gc_node = wt[u].pending_gc_node
                     /\ wt'[u].refcount = wt[u].refcount + (IF u = own THEN 1 ELSE 0)
               /\ own = NULL => gt'[p].pc = "lookup" /\ gt'[p].tk = gt[p].tk /\ oops' = oops
               /\ own # NULL => /\ gt'[p].pc = "conflict" /\ gt'[p].tk = own /\ tree' = tree
                                /\ oops' = IF own \in Pbid THEN "gc_conflict" ELSE oops
<1>1. /\ wt \in [UTasks -> WtRec] /\ gt \in [Pbid -> GtRec] /\ tree \in [Blks -> Owner]
      /\ NULL \notin UTasks /\ \A u \in UTasks : wt[u].refcount \in Int
  BY IoAssumption DEF TypeOK, IoTypeOK, WtRec
<1>2. wk.gcs \in Seq(Pbid) /\ wk.gcs # <<>> /\ GInsert(Head(wk.gcs))
  BY DEF WkGc, TypeOK, IoTypeOK, WkRec
<1>3. PICK p : p = Head(wk.gcs)
  OBVIOUS
<1>4. p \in Pbid /\ OnList(wk.gcs, p)
  BY <1>2, <1>3, TailList
<1>5. gt[p].pc = "queued" /\ gt[p].blkid \in Blks
  BY <1>4 DEF TaskInv, QueuedOnce, GtFacts
<1>6. PICK own \in Owner : own = tree[gt[p].blkid]
  BY <1>1, <1>5
<1>7. \/ /\ own = NULL /\ gt' = [gt EXCEPT ![p].pc = "lookup"] /\ UNCHANGED <<wt, oops>>
      \/ /\ own # NULL
         /\ wt' = IF own \in UTasks THEN [wt EXCEPT ![own].refcount = @ + 1] ELSE wt
         /\ gt' = [gt EXCEPT ![p].pc = "conflict", ![p].tk = own]
         /\ oops' = IF own \in Pbid THEN "gc_conflict" ELSE oops
         /\ tree' = tree
  BY <1>2, <1>3, <1>6 DEF GInsert
<1>8. /\ \A q \in Pbid : q # p => gt'[q] = gt[q]
      /\ gt'[p].blkid = gt[p].blkid
      /\ own = NULL => gt'[p].pc = "lookup" /\ gt'[p].tk = gt[p].tk
      /\ own # NULL => gt'[p].pc = "conflict" /\ gt'[p].tk = own
  BY <1>1, <1>4, <1>7 DEF GtRec
<1>9. ASSUME NEW u \in UTasks
      PROVE  /\ SameTask(wt'[u], wt[u]) /\ wt'[u].tk = wt[u].tk
             /\ wt'[u].pending_gc_node = wt[u].pending_gc_node
             /\ wt'[u].refcount = wt[u].refcount + (IF u = own THEN 1 ELSE 0)
  <2>1. CASE u = own
    <3>1. wt'[u] = [wt[u] EXCEPT !.refcount = @ + 1]
      BY <1>1, <1>7, <2>1
    <3> QED BY <1>1, <2>1, <3>1 DEF WtRec, SameTask
  <2>2. CASE u # own
    <3>1. wt'[u] = wt[u] /\ wt[u].refcount \in Int
      BY <1>1, <1>7, <2>2
    <3> QED BY <2>2, <3>1 DEF SameTask
  <2> QED BY <2>1, <2>2
<1> QED BY <1>4, <1>5, <1>6, <1>7, <1>8, <1>9

\* A step that only moves GC task p.
LEMMA PcLinks ==
    ASSUME TypeOK, NEW c, NEW p \in Pbid, gt' = [gt EXCEPT ![p].pc = c]
    PROVE  (\A q \in Pbid : q # p => gt'[q] = gt[q]) /\ gt'[p].tk = gt[p].tk /\ gt'[p].pc = c
  BY DEF TypeOK, IoTypeOK, GtRec

\* The steps of a user write that move no reference.
LEMMA WriteStill ==
    ASSUME TypeOK, TaskInv, WaitFacts, NEW t \in UTasks, WriteStep(t)
    PROVE  LinksStill \/ WConflict(t) \/ WDel(t) \/ (wt[t].pc = "alloc2" /\ WAllocEio(t))
<1>1. wt \in [UTasks -> WtRec]
  BY DEF TypeOK, IoTypeOK
<1>2. ASSUME NEW u \in UTasks, wt'[u] = wt[u] PROVE UserStill(u)
  BY <1>2 DEF UserStill, LinkSame, OwnRefs, WtInTree
<1>3. gt' = gt => CopiesStill
  BY DEF CopiesStill, CopyLinkSame
<1>4. ASSUME gt' = gt, \A u \in UTasks : u # t => wt'[u] = wt[u], LinkSame(t), wt'[t].blkid = wt[t].blkid,
             wt'[t].status = wt[t].status, wt[t].pc \notin {"none", "conflict"},
             wt'[t].pc \notin {"none", "conflict"},
             WtInTree(t) <=> WtInTree(t)', wt[t].pc = "queued" => WtInTree(t),
             wt'[t].pc = "queued" => WtInTree(t)'
      PROVE  LinksStill
  <2>1. OwnRefs(t)' = OwnRefs(t)
    BY <1>4 DEF OwnRefs
  <2>2. UserStill(t)
    BY <1>4, <2>1 DEF UserStill
  <2> QED BY <1>2, <1>3, <1>4, <2>2 DEF LinksStill
<1>5. ASSUME NEW s, WGotZone(t, s), wt[t].pc \in {"alloc", "alloc2"} PROVE LinksStill
  <2>1. gt' = gt /\ wt' = [wt EXCEPT ![t].zone = TargetZone(s), ![t].pc = "append"]
    BY <1>5 DEF WGotZone
  <2>2. /\ \A u \in UTasks : u # t => wt'[u] = wt[u]
        /\ LinkSame(t) /\ wt'[t].blkid = wt[t].blkid /\ wt'[t].status = wt[t].status /\ wt'[t].pc = "append"
    BY <1>1, <2>1 DEF WtRec, LinkSame
  <2> QED BY <1>4, <1>5, <2>1, <2>2 DEF WtInTree
<1>6. ASSUME NEW c, (\A u \in UTasks : u # t => wt'[u] = wt[u]), LinkSame(t), wt'[t].blkid = wt[t].blkid,
             wt'[t].status = wt[t].status, wt'[t].pc = c, gt' = gt,
             \/ /\ wt[t].pc \in {"alloc", "alloc2", "append", "endio", "oldrmap", "oldweight", "newrmap"}
                /\ c \in {"alloc", "alloc2", "append", "endio", "oldrmap", "oldweight", "newrmap", "del"}
             \/ wt[t].pc = "alloc2" /\ c = "queued" /\ wt[t].status = "ALLOC_RES"
             \/ wt[t].pc = "complete" /\ c = "put"
      PROVE  LinksStill
  BY <1>4, <1>6 DEF WtInTree
<1>7. CASE WAlloc(t)
  <2>1. CASE wt' = [wt EXCEPT ![t].pc = "alloc2"] /\ gt' = gt
    <3>1. wt[t].pc = "alloc"
      BY <1>7 DEF WAlloc
    <3>2. (\A u \in UTasks : u # t => wt'[u] = wt[u]) /\ LinkSame(t) /\ wt'[t].blkid = wt[t].blkid
          /\ wt'[t].status = wt[t].status /\ wt'[t].pc = "alloc2"
      BY <1>1, <2>1 DEF WtRec, LinkSame
    <3> QED BY <1>6, <2>1, <3>1, <3>2
  <2> QED BY <1>5, <1>7, <2>1 DEF WAlloc
<1>8. CASE WAlloc2(t)
  <2>1. wt[t].status = "ALLOC_RES"
    BY <1>8 DEF WAlloc2, TaskInv, WtFacts
  <2>2. CASE WAllocEagain(t)
    <3>1. wt[t].pc = "alloc2" /\ gt' = gt /\ wt' = [wt EXCEPT ![t].pc = "queued"]
      BY <1>8, <2>2 DEF WAlloc2, WAllocEagain
    <3>2. (\A u \in UTasks : u # t => wt'[u] = wt[u]) /\ LinkSame(t) /\ wt'[t].blkid = wt[t].blkid
          /\ wt'[t].status = wt[t].status /\ wt'[t].pc = "queued"
      BY <1>1, <3>1 DEF WtRec, LinkSame
    <3> QED BY <1>6, <2>1, <3>1, <3>2
  <2> QED BY <1>5, <1>8, <2>2 DEF WAlloc2
<1>9. CASE WAppend(t)
  <2>1. PICK q \in Pbid : wt' = [wt EXCEPT ![t].pbid = q, ![t].pc = "endio"]
    BY <1>9 DEF WAppend
  <2>2. /\ \A u \in UTasks : u # t => wt'[u] = wt[u]
        /\ LinkSame(t) /\ wt'[t].blkid = wt[t].blkid /\ wt'[t].status = wt[t].status /\ wt'[t].pc = "endio"
    BY <1>1, <2>1 DEF WtRec, LinkSame
  <2> QED BY <1>4, <1>9, <2>2 DEF WtInTree, WAppend
<1>10. CASE WAppendFails(t)
  <2>1. wt' = [wt EXCEPT ![t].error = TRUE, ![t].pc = "endio"]
    BY <1>10 DEF WAppendFails
  <2>2. /\ \A u \in UTasks : u # t => wt'[u] = wt[u]
        /\ LinkSame(t) /\ wt'[t].blkid = wt[t].blkid /\ wt'[t].status = wt[t].status /\ wt'[t].pc = "endio"
    BY <1>1, <2>1 DEF WtRec, LinkSame
  <2> QED BY <1>4, <1>10, <2>2 DEF WtInTree, WAppendFails
<1>11. CASE WEndio(t)
  <2>1. wt[t].pc = "endio" /\ gt' = gt
    BY <1>11 DEF WEndio
  <2>2. CASE wt' = [wt EXCEPT ![t].pc = "del"]
    <3>1. (\A u \in UTasks : u # t => wt'[u] = wt[u]) /\ LinkSame(t) /\ wt'[t].blkid = wt[t].blkid
          /\ wt'[t].status = wt[t].status /\ wt'[t].pc = "del"
      BY <1>1, <2>2 DEF WtRec, LinkSame
    <3> QED BY <1>6, <2>1, <3>1
  <2>3. ASSUME NEW o, NEW c \in {"newrmap", "oldrmap"}, wt' = [wt EXCEPT ![t].old = o, ![t].pc = c]
        PROVE  LinksStill
    <3>1. /\ \A u \in UTasks : u # t => wt'[u] = wt[u]
          /\ LinkSame(t) /\ wt'[t].blkid = wt[t].blkid /\ wt'[t].status = wt[t].status /\ wt'[t].pc = c
      BY <1>1, <2>3 DEF WtRec, LinkSame
    <3> QED BY <1>4, <2>1, <2>3, <3>1 DEF WtInTree
  <2> QED BY <1>11, <2>2, <2>3 DEF WEndio
<1>12. CASE WOldRmap(t)
  <2>1. wt[t].pc = "oldrmap" /\ gt' = gt /\ wt' = [wt EXCEPT ![t].pc = "oldweight"]
    BY <1>12 DEF WOldRmap
  <2>2. (\A u \in UTasks : u # t => wt'[u] = wt[u]) /\ LinkSame(t) /\ wt'[t].blkid = wt[t].blkid
        /\ wt'[t].status = wt[t].status /\ wt'[t].pc = "oldweight"
    BY <1>1, <2>1 DEF WtRec, LinkSame
  <2> QED BY <1>6, <2>1, <2>2
<1>13. CASE WOldWeight(t)
  <2>1. wt[t].pc = "oldweight" /\ gt' = gt /\ wt' = [wt EXCEPT ![t].pc = "newrmap"]
    BY <1>13 DEF WOldWeight
  <2>2. (\A u \in UTasks : u # t => wt'[u] = wt[u]) /\ LinkSame(t) /\ wt'[t].blkid = wt[t].blkid
        /\ wt'[t].status = wt[t].status /\ wt'[t].pc = "newrmap"
    BY <1>1, <2>1 DEF WtRec, LinkSame
  <2> QED BY <1>6, <2>1, <2>2
<1>14. CASE WNewRmap(t)
  <2>1. wt[t].pc = "newrmap" /\ gt' = gt /\ wt' = [wt EXCEPT ![t].pc = "del"]
    BY <1>14 DEF WNewRmap
  <2>2. (\A u \in UTasks : u # t => wt'[u] = wt[u]) /\ LinkSame(t) /\ wt'[t].blkid = wt[t].blkid
        /\ wt'[t].status = wt[t].status /\ wt'[t].pc = "del"
    BY <1>1, <2>1 DEF WtRec, LinkSame
  <2> QED BY <1>6, <2>1, <2>2
<1>15. CASE WComplete(t)
  <2>1. wt[t].pc = "complete" /\ gt' = gt /\ wt' = [wt EXCEPT ![t].pc = "put"]
    BY <1>15 DEF WComplete
  <2>2. (\A u \in UTasks : u # t => wt'[u] = wt[u]) /\ LinkSame(t) /\ wt'[t].blkid = wt[t].blkid
        /\ wt'[t].status = wt[t].status /\ wt'[t].pc = "put"
    BY <1>1, <2>1 DEF WtRec, LinkSame
  <2> QED BY <1>6, <2>1, <2>2
<1>16. CASE WPut(t)
  <2>1. /\ wt[t].pc = "put" /\ gt' = gt
        /\ wt' = [wt EXCEPT ![t] = [NoTask EXCEPT !.refcount = wt[t].refcount,
                                                  !.pending_gc_node = wt[t].pending_gc_node]]
    BY <1>16 DEF WPut
  <2>2. /\ \A u \in UTasks : u # t => wt'[u] = wt[u]
        /\ wt'[t].pc = "none" /\ wt'[t].tk = NULL /\ wt'[t].refcount = wt[t].refcount
        /\ wt'[t].pending_gc_node = wt[t].pending_gc_node
    BY <1>1, <2>1 DEF NoTask
  <2>3. wt[t].tk = NULL
    BY <2>1 DEF WaitFacts
  <2>4. UserStill(t)
    BY <2>1, <2>2, <2>3 DEF UserStill, LinkSame, OwnRefs, WtInTree
  <2> QED BY <1>2, <1>3, <2>1, <2>2, <2>4 DEF LinksStill
<1> QED BY <1>7, <1>8, <1>9, <1>10, <1>11, <1>12, <1>13, <1>14, <1>15, <1>16 DEF WriteStep

\* Those of a GC copy.
LEMMA CopyStill ==
    ASSUME TypeOK, TaskInv, WaitFacts, NEW p \in Pbid, GcCopy(p)
    PROVE  LinksStill \/ GAgency(p)
<1>1. gt \in [Pbid -> GtRec]
  BY DEF TypeOK, IoTypeOK
<1>2. wt' = wt => \A u \in UTasks : UserStill(u)
  BY DEF UserStill, LinkSame, OwnRefs, WtInTree
<1>3. ASSUME wt' = wt, \A q \in Pbid : q # p => gt'[q] = gt[q], gt'[p].tk = gt[p].tk,
             gt[p].pc \notin Met, gt'[p].pc \notin Met
      PROVE  LinksStill
  <2>1. \A q \in Pbid : CopyLinkSame(q)
    BY <1>3 DEF CopyLinkSame
  <2> QED BY <1>2, <1>3, <2>1 DEF LinksStill, CopiesStill
<1>4. ASSUME wt' = wt, gt' = [gt EXCEPT ![p] = NoGcTask], gt[p].pc # "conflict", gt[p].pc \notin Met
      PROVE  LinksStill
  <2>1. gt[p].tk = NULL
    BY <1>4 DEF WaitFacts
  <2>2. (\A q \in Pbid : q # p => gt'[q] = gt[q]) /\ gt'[p].tk = NULL /\ gt'[p].pc = "none"
    BY <1>1, <1>4 DEF NoGcTask
  <2> QED BY <1>3, <1>4, <2>1, <2>2 DEF Met
<1>6. CASE GRead(p)
  <2>1. PICK v : gt' = [gt EXCEPT ![p].data = v, ![p].pc = "queued"]
    BY <1>6 DEF GRead
  <2>2. (\A q \in Pbid : q # p => gt'[q] = gt[q]) /\ gt'[p].tk = gt[p].tk /\ gt'[p].pc = "queued"
    BY <1>1, <2>1 DEF GtRec
  <2> QED BY <1>3, <1>6, <2>2 DEF GRead, Met
<1>7. CASE GReadFails(p)
  <2>1. gt[p].pc = "reading" /\ wt' = wt /\ gt' = [gt EXCEPT ![p].pc = "fault"]
    BY <1>7 DEF GReadFails
  <2> QED BY <1>3, <2>1, PcLinks DEF Met
<1>8. CASE GFault(p)
  BY <1>4, <1>8 DEF GFault, Met
<1>9. CASE GLookup(p)
  <2>1. wt' = wt /\ gt[p].pc = "lookup" /\ (gt' = [gt EXCEPT ![p].pc = "alloc"] \/ gt' = [gt EXCEPT ![p] = NoGcTask])
    BY <1>9 DEF GLookup
  <2>2. ASSUME gt' = [gt EXCEPT ![p].pc = "alloc"] PROVE LinksStill
    BY <1>3, <2>1, <2>2, PcLinks DEF Met
  <2> QED BY <1>4, <2>1, <2>2 DEF Met
<1>10. ASSUME NEW s, GGotZone(p, s), gt[p].pc \in {"alloc", "alloc2"} PROVE LinksStill
  <2>1. wt' = wt /\ gt' = [gt EXCEPT ![p].zone = TargetZone(s), ![p].pc = "append"]
    BY <1>10 DEF GGotZone
  <2>2. (\A q \in Pbid : q # p => gt'[q] = gt[q]) /\ gt'[p].tk = gt[p].tk /\ gt'[p].pc = "append"
    BY <1>1, <2>1 DEF GtRec
  <2> QED BY <1>3, <1>10, <2>1, <2>2 DEF Met
<1>11. CASE GAlloc(p)
  <2>1. CASE wt' = wt /\ gt' = [gt EXCEPT ![p].pc = "alloc2"]
    <3>1. gt[p].pc = "alloc"
      BY <1>11 DEF GAlloc
    <3> QED BY <1>3, <2>1, <3>1, PcLinks DEF Met
  <2> QED BY <1>10, <1>11, <2>1 DEF GAlloc
<1>12. CASE GAlloc2(p)
  <2>1. CASE UNCHANGED <<wt, gt>>
    BY <1>2, <2>1 DEF LinksStill, CopiesStill, CopyLinkSame
  <2> QED BY <1>10, <1>12, <2>1 DEF GAlloc2, ioVars
<1>13. CASE GAppend(p)
  <2>1. PICK q \in Pbid : gt' = [gt EXCEPT ![p].pbid = q, ![p].pc = "endio"]
    BY <1>13 DEF GAppend
  <2>2. (\A q2 \in Pbid : q2 # p => gt'[q2] = gt[q2]) /\ gt'[p].tk = gt[p].tk /\ gt'[p].pc = "endio"
    BY <1>1, <2>1 DEF GtRec
  <2> QED BY <1>3, <1>13, <2>2 DEF GAppend, Met
<1>14. CASE GAppendFails(p)
  <2>1. gt' = [gt EXCEPT ![p].error = TRUE, ![p].pc = "endio"]
    BY <1>14 DEF GAppendFails
  <2>2. (\A q2 \in Pbid : q2 # p => gt'[q2] = gt[q2]) /\ gt'[p].tk = gt[p].tk /\ gt'[p].pc = "endio"
    BY <1>1, <2>1 DEF GtRec
  <2> QED BY <1>3, <1>14, <2>2 DEF GAppendFails, Met
<1>15. CASE GEndio(p)
  <2>1. PICK c \in {"cb_put", "cb_rmap"} : gt[p].pc = "endio" /\ wt' = wt /\ gt' = [gt EXCEPT ![p].pc = c]
    BY <1>15 DEF GEndio
  <2> QED BY <1>3, <2>1, PcLinks DEF Met
<1>16. CASE GCbRmap(p)
  <2>1. gt[p].pc = "cb_rmap" /\ wt' = wt /\ gt' = [gt EXCEPT ![p].pc = "cb_map"]
    BY <1>16 DEF GCbRmap
  <2> QED BY <1>3, <2>1, PcLinks DEF Met
<1>17. CASE GCbMap(p)
  <2>1. PICK c \in {"cb_put", "cb_old"} : gt[p].pc = "cb_map" /\ wt' = wt /\ gt' = [gt EXCEPT ![p].pc = c]
    BY <1>17 DEF GCbMap
  <2> QED BY <1>3, <2>1, PcLinks DEF Met
<1>18. CASE GCbOld(p)
  <2>1. gt[p].pc = "cb_old" /\ wt' = wt /\ gt' = [gt EXCEPT ![p].pc = "cb_put"]
    BY <1>18 DEF GCbOld
  <2> QED BY <1>3, <2>1, PcLinks DEF Met
<1>19. CASE GCbPut(p)
  <2>1. PICK c \in {"fault", "none"} : gt' = [gt EXCEPT ![p] = [NoGcTask EXCEPT !.pc = c]]
    BY <1>19 DEF GCbPut
  <2>2. (\A q \in Pbid : q # p => gt'[q] = gt[q]) /\ gt'[p].tk = NULL /\ gt'[p].pc = c
    BY <1>1, <2>1 DEF NoGcTask
  <2>3. gt[p].tk = NULL /\ gt[p].pc = "cb_put" /\ wt' = wt
    BY <1>19 DEF GCbPut, WaitFacts
  <2> QED BY <1>3, <2>1, <2>2, <2>3 DEF Met
<1> QED BY <1>6, <1>7, <1>8, <1>9, <1>11, <1>12, <1>13, <1>14, <1>15, <1>16, <1>17, <1>18, <1>19 DEF GcCopy

\* The retry worker submits a queued task that is not in the tree yet.
Resubmits(t) == wt[t].pc = "queued" /\ wt[t].status = "INIT" /\ InsertUser(t, wt[t]) /\ gt' = gt

\* Every step, as the links see it.
LEMMA NextLinks ==
    ASSUME TypeOK, TaskInv, WaitFacts, FactsInv, PlaceInv, [Next]_vars
    PROVE  \/ LinksStill
           \/ \E t \in UTasks : \/ SubmitWrite(t) \/ Resubmits(t) \/ WConflict(t) \/ WDel(t)
                                \/ wt[t].pc = "alloc2" /\ WAllocEio(t)
           \/ \E p \in Pbid : GAgency(p)
           \/ WkGc
<1>1. UNCHANGED <<wt, gt>> => LinksStill
  BY DEF LinksStill, CopiesStill, CopyLinkSame, UserStill, LinkSame, OwnRefs, WtInTree
<1>2. CASE UNCHANGED vars
  BY <1>1, <1>2 DEF vars, ioVars
<1>3. CASE Running
  <2>1. CASE ZoneStateWork /\ UNCHANGED ioVars
    BY <1>1, <2>1 DEF ioVars
  <2>2. ASSUME NEW z \in Zone, PutZoneEnd(z), UNCHANGED ioVars PROVE LinksStill
    BY <1>1, <2>2 DEF ioVars
  <2>3. ASSUME NEW r \in Readers, SubmitRead(r) \/ lbz_read_io_endio(r) PROVE LinksStill
    BY <1>1, <2>3 DEF SubmitRead, lbz_submit_read, lbz_read_io_endio
  <2>4. CASE WkStart \/ WkSpliceGc \/ WkEnd
    BY <1>1, <2>4 DEF WkStart, WkSpliceGc, WkEnd
  <2>5. CASE WkUser
    <3>1. PICK t : t = Head(wk.users)
      OBVIOUS
    <3>2. wk.users \in Seq(UTasks) /\ wk.users # <<>> /\ wt \in [UTasks -> WtRec]
      BY <2>5 DEF WkUser, TypeOK, IoTypeOK, WkRec
    <3>3. t \in UTasks /\ OnList(wk.users, t)
      BY <3>1, <3>2, TailList
    <3>4. wt[t].pc = "queued"
      BY <3>3 DEF TaskInv, QueuedOnce
    <3>5. \/ wt[t].status = "INIT" /\ InsertUser(t, wt[t]) /\ gt' = gt
          \/ wt[t].status = "ALLOC_RES" /\ wt' = [wt EXCEPT ![t].pc = "alloc"] /\ gt' = gt
      BY <2>5, <3>1 DEF WkUser
    <3>6. CASE wt[t].status = "ALLOC_RES" /\ wt' = [wt EXCEPT ![t].pc = "alloc"] /\ gt' = gt
      <4>1. /\ \A u \in UTasks : u # t => wt'[u] = wt[u]
            /\ LinkSame(t) /\ wt'[t].blkid = wt[t].blkid /\ wt'[t].pc = "alloc"
        BY <3>2, <3>3, <3>6 DEF WtRec, LinkSame
      <4>2. UserStill(t)
        BY <3>4, <3>6, <4>1 DEF UserStill, OwnRefs, WtInTree
      <4>3. \A u \in UTasks : u # t => UserStill(u)
        BY <4>1 DEF UserStill, LinkSame, OwnRefs, WtInTree
      <4> QED BY <3>6, <4>2, <4>3 DEF LinksStill, CopiesStill, CopyLinkSame
    <3> QED BY <3>3, <3>4, <3>5, <3>6 DEF Resubmits
  <2>6. CASE GcCheck \/ GcSelect \/ GcNoVictim \/ GcFinish
    BY <1>1, <2>6 DEF GcCheck, GcSelect, GcNoVictim, GcFinish, ioVars
  <2>7. CASE GcIter
    <3>1. PICK q : q = <<gc.gc_zone, gc.iter>>
      OBVIOUS
    <3>2. wt' = wt /\ gc.pc = "iter" /\ gc.iter < zone[gc.gc_zone].wp_block
      BY <2>7 DEF GcIter
    <3>3. q \in Pbid
      <4>1. gc.gc_zone \in Zone /\ gc.iter \in Nat /\ zone[gc.gc_zone].wp_block \in 0 .. ZoneNrBlocks
        BY <3>2 DEF FactsInv, GcFacts, PlaceInv, ZoneMarks, TypeOK, GcTypeOK, GcRec
      <4>2. gc.iter \in Offset
        BY <3>2, <4>1, DevAssumption DEF Offset
      <4> QED BY <3>1, <4>1, <4>2 DEF Pbid
    <3>4. CASE gt' = gt
      BY <1>1, <3>2, <3>4
    <3>5. ASSUME NEW x, gt[q].pc = "none", gt' = [gt EXCEPT ![q] = [NoGcTask EXCEPT !.pc = "reading", !.blkid = x]]
          PROVE  LinksStill
      <4>1. gt \in [Pbid -> GtRec] /\ gt[q].tk = NULL
        BY <3>3, <3>5 DEF TypeOK, IoTypeOK, WaitFacts
      <4>2. (\A q2 \in Pbid : q2 # q => gt'[q2] = gt[q2]) /\ gt'[q].tk = NULL /\ gt'[q].pc = "reading"
        BY <3>3, <3>5, <4>1 DEF NoGcTask
      <4>3. CopiesStill
        BY <3>5, <4>1, <4>2 DEF CopiesStill, CopyLinkSame, Met
      <4> QED BY <3>2, <4>3 DEF LinksStill, UserStill, LinkSame, OwnRefs, WtInTree
    <3> QED BY <2>7, <3>1, <3>4, <3>5 DEF GcIter
  <2> QED BY <1>3, <2>1, <2>2, <2>3, <2>4, <2>5, <2>6, <2>7, WriteStill, CopyStill DEF Running, RetryWork, GcThread
<1> QED BY <1>2, <1>3 DEF Next, Halted

\* Who waits for task v, among the writes and among the copies.
WriteWaits(v) == Count(UserWaits, v)
GcWaits(v)    == Count(CopyWaits, v)

\* These are natural numbers, and move with the one that starts or stops waiting.
LEMMA WaitTurns ==
    ASSUME NEW v
    PROVE  /\ WriteWaits(v) \in Nat /\ GcWaits(v) \in Nat
           /\ WriteWaits(v)' \in Nat /\ GcWaits(v)' \in Nat
           /\ (\A u \in UTasks : wt'[u].tk = wt[u].tk) => WriteWaits(v)' = WriteWaits(v)
           /\ (\A q \in Pbid : gt'[q].tk = gt[q].tk) => GcWaits(v)' = GcWaits(v)
           /\ \A t \in UTasks : (\A u \in UTasks : u # t => wt'[u].tk = wt[u].tk) =>
                 WriteWaits(v)' = WriteWaits(v) + Turn(wt[t].tk, wt'[t].tk, v)
           /\ \A p \in Pbid : (\A q \in Pbid : q # p => gt'[q].tk = gt[q].tk) =>
                 GcWaits(v)' = GcWaits(v) + Turn(gt[p].tk, gt'[p].tk, v)
<1>1. /\ DOMAIN UserWaits = UTasks /\ DOMAIN CopyWaits = Pbid
      /\ DOMAIN UserWaits' = UTasks /\ DOMAIN CopyWaits' = Pbid
      /\ IsFiniteSet(UTasks) /\ IsFiniteSet(Pbid)
      /\ \A u \in UTasks : UserWaits[u] = wt[u].tk /\ UserWaits'[u] = wt'[u].tk
      /\ \A q \in Pbid : CopyWaits[q] = gt[q].tk /\ CopyWaits'[q] = gt'[q].tk
  BY IoAssumption, PbidFinite DEF UserWaits, CopyWaits
<1>2. PICK f, g, h, k : f = UserWaits /\ g = UserWaits' /\ h = CopyWaits /\ k = CopyWaits'
  OBVIOUS
<1>3. /\ Count(f, v) \in Nat /\ Count(g, v) \in Nat /\ Count(h, v) \in Nat /\ Count(k, v) \in Nat
  BY <1>1, <1>2, CountOf
<1>4. (\A u \in UTasks : wt'[u].tk = wt[u].tk) => g = f
  BY <1>2 DEF UserWaits
<1>5. (\A q \in Pbid : gt'[q].tk = gt[q].tk) => k = h
  BY <1>2 DEF CopyWaits
<1>6. ASSUME NEW t \in UTasks, \A u \in UTasks : u # t => wt'[u].tk = wt[u].tk
      PROVE  Count(g, v) = Count(f, v) + Turn(f[t], g[t], v)
  BY <1>1, <1>2, <1>6, CountTurn
<1>7. ASSUME NEW p \in Pbid, \A q \in Pbid : q # p => gt'[q].tk = gt[q].tk
      PROVE  Count(k, v) = Count(h, v) + Turn(h[p], k[p], v)
  BY <1>1, <1>2, <1>7, CountTurn
<1>8. /\ WriteWaits(v) = Count(f, v) /\ WriteWaits(v)' = Count(g, v)
      /\ GcWaits(v) = Count(h, v) /\ GcWaits(v)' = Count(k, v)
  BY <1>2 DEF WriteWaits, GcWaits
<1> QED BY <1>1, <1>2, <1>3, <1>4, <1>5, <1>6, <1>7, <1>8

\* The references of v move as those who hold them do.
LinkBalance(v) ==
    wt'[v].refcount - wt[v].refcount =
        (OwnRefs(v)' - OwnRefs(v)) + (WriteWaits(v)' - WriteWaits(v)) + (GcWaits(v)' - GcWaits(v))

\* A new write has one reference, and so has one that is submitted again.
LEMMA EnterTask ==
    ASSUME TypeOK, TaskInv, WaitFacts, NEW t \in UTasks, SubmitWrite(t) \/ Resubmits(t)
    PROVE  \E task \in WtRec :
              /\ InsertUser(t, task) /\ ~WtInTree(t) /\ task.blkid \in Blks /\ task.tk = NULL /\ gt' = gt
              /\ wt[t].tk = NULL /\ wt[t].pc \in {"none", "queued"}
              /\ \/ wt[t].pc = "none" /\ wt[t].refcount = 0 /\ task.refcount = 1 /\ task.pending_gc_node = NULL
                 \/ wt[t].pc = "queued" /\ wt[t].status = "INIT" /\ task = wt[t]
<1>1. CASE SubmitWrite(t)
  <2>1. PICK b \in Blks, d \in Values : lbz_submit_write(t, b, d)
    BY <1>1 DEF SubmitWrite
  <2> DEFINE n1 == [NoTask EXCEPT !.blkid = b]
             n2 == [n1 EXCEPT !.data = d]
             task == [NoTask EXCEPT !.blkid = b, !.data = d, !.refcount = 1]
  <2>2. n1 \in WtRec
    BY NoTaskType DEF WtRec
  <2>3. n2 \in WtRec
    <3> HIDE DEF n1
    <3> QED BY <2>2 DEF WtRec
  <2>4. [n2 EXCEPT !.refcount = 1] \in WtRec
    <3> HIDE DEF n2
    <3> QED BY <2>3 DEF WtRec
  <2>5. /\ task \in WtRec /\ task.blkid = b /\ task.tk = NULL /\ task.refcount = 1
        /\ task.pending_gc_node = NULL
    BY <2>4 DEF NoTask
  <2>6. wt[t].pc = "none" /\ wt[t].refcount = 0 /\ InsertUser(t, task) /\ gt' = gt
    BY <2>1 DEF lbz_submit_write
  <2>7. wt[t].tk = NULL /\ ~WtInTree(t)
    BY <2>6 DEF WaitFacts, WtInTree
  <2> HIDE DEF task
  <2> QED BY <2>5, <2>6, <2>7
<1>2. CASE Resubmits(t)
  BY <1>2 DEF Resubmits, WtInTree, TypeOK, IoTypeOK, TaskInv, WtFacts, WaitFacts
<1> QED BY <1>1, <1>2

\* A user task enters the tree, or meets the owner of its block.
LEMMA EnterBalance ==
    ASSUME TypeOK, TypeOK', TaskInv, WaitFacts, TaskRefExact, NEW t \in UTasks, SubmitWrite(t) \/ Resubmits(t),
           NEW v \in UTasks
    PROVE  LinkBalance(v)
<1>1. PICK task \in WtRec :
         /\ InsertUser(t, task) /\ ~WtInTree(t) /\ task.blkid \in Blks /\ task.tk = NULL /\ gt' = gt
         /\ task.refcount - wt[t].refcount = 1 - OwnRefs(t) /\ OwnRefs(t) \in {0, 1}
         /\ task.refcount \in Int
  <2>1. PICK task \in WtRec :
              /\ InsertUser(t, task) /\ ~WtInTree(t) /\ task.blkid \in Blks /\ task.tk = NULL /\ gt' = gt
              /\ \/ wt[t].pc = "none" /\ wt[t].refcount = 0 /\ task.refcount = 1
                 \/ wt[t].pc = "queued" /\ task = wt[t]
    BY EnterTask
  <2>2. task.refcount \in Int /\ wt[t].refcount \in Int
    BY DEF TypeOK, IoTypeOK, WtRec
  <2>3. /\ wt[t].pc = "none" => OwnRefs(t) = 0
        /\ wt[t].pc = "queued" => OwnRefs(t) = 1
    BY <2>1 DEF OwnRefs, WtInTree
  <2> QED BY <2>1, <2>2, <2>3
<1>2. PICK own : own = tree[task.blkid]
  OBVIOUS
<1>3. /\ own # t /\ own \in Owner
      /\ \/ /\ own = NULL /\ wt'[t].pc = "alloc" /\ wt'[t].refcount = task.refcount + 1 /\ wt'[t].tk = NULL
         \/ /\ own # NULL /\ wt'[t].pc = "conflict" /\ wt'[t].refcount = task.refcount /\ wt'[t].tk = own
      /\ \A u \in UTasks : u # t =>
            /\ SameTask(wt'[u], wt[u]) /\ wt'[u].tk = wt[u].tk
            /\ wt'[u].refcount = wt[u].refcount + (IF u = own THEN 1 ELSE 0)
  BY <1>1, <1>2, InsertLinks
<1>4. wt[t].tk = NULL
  BY DEF WaitFacts, SubmitWrite, lbz_submit_write, Resubmits
<1>5. /\ WriteWaits(v)' = WriteWaits(v) + Turn(NULL, own, v) /\ GcWaits(v)' = GcWaits(v)
      /\ WriteWaits(v) \in Nat /\ GcWaits(v) \in Nat
  <2>1. wt'[t].tk = own
    BY <1>3
  <2>2. \A u \in UTasks : u # t => wt'[u].tk = wt[u].tk
    BY <1>3
  <2> QED BY <1>1, <1>4, <2>1, <2>2, WaitTurns
<1>6. wt[v].refcount \in Int /\ wt'[v].refcount \in Int /\ v # NULL
  BY IoAssumption DEF TypeOK, IoTypeOK, WtRec
<1>7. CASE v = t
  <2>1. OwnRefs(t)' = IF own = NULL THEN 2 ELSE 1
    BY <1>3 DEF OwnRefs, WtInTree
  <2>2. Turn(NULL, own, v) = 0
    BY <1>3, <1>6, <1>7 DEF Turn
  <2> QED BY <1>1, <1>3, <1>5, <1>6, <1>7, <2>1, <2>2 DEF LinkBalance
<1>8. CASE v # t
  <2>1. OwnRefs(v)' = OwnRefs(v)
    BY <1>3, <1>8 DEF OwnRefs, WtInTree, SameTask
  <2>2. Turn(NULL, own, v) = IF v = own THEN 1 ELSE 0
    BY <1>6 DEF Turn
  <2>3. OwnRefs(v) \in Int
    BY DEF OwnRefs
  <2> QED BY <1>3, <1>5, <1>6, <1>8, <2>1, <2>2, <2>3 DEF LinkBalance
<1> QED BY <1>7, <1>8

\* A callback frees GC tasks that have met nobody.
LEMMA CallbackTk ==
    ASSUME TypeOK, TaskInv, WaitFacts, NEW u \in UTasks, NEW n, RunsCallback(Pending(u, n))
    PROVE  \A q \in Pbid : gt'[q].tk = gt[q].tk
<1>1. ASSUME NEW q \in Pbid, q \in Pending(u, n) PROVE gt[q].tk = NULL
  <2>1. wt[u].pending_gc_node = q /\ q # NULL
    BY <1>1, DevAssumption DEF Pending
  <2>2. gt[q].pc = "agency"
    BY <2>1 DEF TaskInv, PendingAgency
  <2> QED BY <2>2 DEF WaitFacts
<1> QED BY <1>1 DEF RunsCallback, CallbackTask, NoGcTask

\* A user task lets go of another, or of itself.
LEMMA LeaveBalance ==
    ASSUME TypeOK, TypeOK', TaskInv, WaitFacts, NEW t \in UTasks,
           WConflict(t) \/ WDel(t) \/ (wt[t].pc = "alloc2" /\ WAllocEio(t)), NEW v \in UTasks
    PROVE  LinkBalance(v)
<1>1. wt[v].refcount \in Int /\ wt'[v].refcount \in Int /\ v # NULL /\ OwnRefs(v) \in Int
  BY IoAssumption DEF TypeOK, IoTypeOK, WtRec, OwnRefs
<1>2. WriteWaits(v) \in Nat /\ GcWaits(v) \in Nat
  BY WaitTurns
<1>3. CASE WConflict(t)
  <2>1. PICK o : o = wt[t].tk
    OBVIOUS
  <2>2. /\ wt[t].pc = "conflict" /\ wt'[t].pc = "queued" /\ wt'[t].status = wt[t].status /\ wt'[t].tk = NULL
        /\ \A u \in UTasks : u # t => SameTask(wt'[u], wt[u]) /\ wt'[u].tk = wt[u].tk
        /\ o \in UTasks => PutLinks(o, 1) /\ RunsCallback(Pending(o, 1))
        /\ o \notin UTasks => gt' = gt
        /\ \A u \in UTasks : u # o => wt'[u].refcount = wt[u].refcount
    BY <1>3, <2>1, ConflictLinks
  <2>3. \A q \in Pbid : gt'[q].tk = gt[q].tk
    BY <2>2, CallbackTk
  <2>4. WriteWaits(v)' = WriteWaits(v) + Turn(o, NULL, v) /\ GcWaits(v)' = GcWaits(v)
    <3>1. \A u \in UTasks : u # t => wt'[u].tk = wt[u].tk
      BY <2>2
    <3> QED BY <2>1, <2>2, <2>3, <3>1, WaitTurns
  <2>5. OwnRefs(v)' = OwnRefs(v)
    <3>1. CASE v = t
      <4>1. wt[t].status = "INIT"
        BY <2>2 DEF TaskInv, WtFacts
      <4> QED BY <2>2, <3>1, <4>1 DEF OwnRefs, WtInTree
    <3>2. CASE v # t
      BY <2>2, <3>2 DEF OwnRefs, WtInTree, SameTask
    <3> QED BY <3>1, <3>2
  <2>6. wt'[v].refcount = wt[v].refcount + Turn(o, NULL, v)
    BY <1>1, <2>2 DEF PutLinks, Turn
  <2>7. Turn(o, NULL, v) \in Int
    BY DEF Turn
  <2> QED BY <1>1, <1>2, <2>4, <2>5, <2>6, <2>7 DEF LinkBalance
<1>4. CASE WDel(t) \/ (wt[t].pc = "alloc2" /\ WAllocEio(t))
  <2>1. /\ WtInTree(t) /\ wt[t].pc # "conflict" /\ wt'[t].pc \in {"complete", "none"}
        /\ wt'[t].tk = wt[t].tk \/ wt'[t].tk = NULL
        /\ PutLinks(t, 2) /\ RunsCallback(Pending(t, 2))
        /\ \A u \in UTasks : u # t => wt'[u] = wt[u]
    BY <1>4, DropLinks
  <2>2. wt[t].tk = NULL
    BY <2>1 DEF WaitFacts
  <2>3. (\A u \in UTasks : wt'[u].tk = wt[u].tk) /\ \A q \in Pbid : gt'[q].tk = gt[q].tk
    BY <2>1, <2>2, CallbackTk
  <2>4. WriteWaits(v)' = WriteWaits(v) /\ GcWaits(v)' = GcWaits(v)
    BY <2>3, WaitTurns
  <2>5. CASE v = t
    <3>1. OwnRefs(t) = 2 /\ OwnRefs(t)' = 0
      BY <2>1 DEF OwnRefs, WtInTree
    <3>2. wt'[t].refcount = wt[t].refcount - 2
      BY <2>1 DEF PutLinks
    <3> QED BY <1>1, <1>2, <2>4, <2>5, <3>1, <3>2 DEF LinkBalance
  <2>6. CASE v # t
    <3>1. OwnRefs(v)' = OwnRefs(v) /\ wt'[v].refcount = wt[v].refcount
      BY <2>1, <2>6 DEF OwnRefs, WtInTree
    <3> QED BY <1>1, <1>2, <2>4, <3>1 DEF LinkBalance
  <2> QED BY <2>5, <2>6
<1> QED BY <1>3, <1>4

\* A GC task meets the owner of its block, or lets go of it.
LEMMA GcLinkBalance ==
    ASSUME TypeOK, TypeOK', TaskInv, WaitFacts, WkGc \/ \E p \in Pbid : GAgency(p), NEW v \in UTasks
    PROVE  LinkBalance(v)
<1>1. wt[v].refcount \in Int /\ wt'[v].refcount \in Int /\ v # NULL /\ OwnRefs(v) \in Int
  BY IoAssumption DEF TypeOK, IoTypeOK, WtRec, OwnRefs
<1>2. WriteWaits(v) \in Nat /\ GcWaits(v) \in Nat
  BY WaitTurns
<1>3. ASSUME NEW p \in Pbid, NEW a, NEW b, gt[p].tk = a, gt'[p].tk = b, \A q \in Pbid : q # p => gt'[q] = gt[q],
             \A u \in UTasks : SameTask(wt'[u], wt[u]) /\ wt'[u].tk = wt[u].tk,
             wt'[v].refcount = wt[v].refcount + Turn(a, b, v)
      PROVE  LinkBalance(v)
  <2>1. WriteWaits(v)' = WriteWaits(v) /\ GcWaits(v)' = GcWaits(v) + Turn(a, b, v)
    BY <1>3, WaitTurns
  <2>2. OwnRefs(v)' = OwnRefs(v)
    BY <1>3 DEF OwnRefs, WtInTree, SameTask
  <2>3. Turn(a, b, v) \in Int
    BY DEF Turn
  <2> QED BY <1>1, <1>2, <1>3, <2>1, <2>2, <2>3 DEF LinkBalance
<1>4. ASSUME NEW p \in Pbid, GAgency(p) PROVE LinkBalance(v)
  <2>1. PICK o : o = gt[p].tk
    OBVIOUS
  <2>2. /\ \A u \in UTasks : SameTask(wt'[u], wt[u]) /\ wt'[u].tk = wt[u].tk
        /\ \A u \in UTasks : u # o => wt'[u] = wt[u]
        /\ wt'[o].refcount = wt[o].refcount - 1 /\ \A q \in Pbid : q # p => gt'[q] = gt[q]
        /\ LastPut(o, 1) => gt'[p] = NoGcTask
        /\ ~LastPut(o, 1) => gt'[p].tk = NULL
    BY <1>4, <2>1, AgencyLinks
  <2>3. gt'[p].tk = NULL
    BY <2>2 DEF NoGcTask
  <2>4. wt'[v].refcount = wt[v].refcount + Turn(o, NULL, v)
    BY <1>1, <2>2 DEF Turn
  <2> QED BY <1>3, <2>1, <2>2, <2>3, <2>4
<1>5. CASE WkGc
  <2>1. PICK p \in Pbid, own \in Owner :
               /\ gt[p].pc = "queued"
               /\ \A q \in Pbid : q # p => gt'[q] = gt[q]
               /\ \A u \in UTasks :
                     /\ SameTask(wt'[u], wt[u]) /\ wt'[u].tk = wt[u].tk
                     /\ wt'[u].refcount = wt[u].refcount + (IF u = own THEN 1 ELSE 0)
               /\ own = NULL => gt'[p].tk = gt[p].tk
               /\ own # NULL => gt'[p].tk = own
    BY <1>5, MeetLinks
  <2>2. gt[p].tk = NULL
    BY <2>1 DEF WaitFacts
  <2>3. gt'[p].tk = own
    BY <2>1, <2>2
  <2>4. wt'[v].refcount = wt[v].refcount + Turn(NULL, own, v)
    BY <1>1, <2>1 DEF Turn
  <2> QED BY <1>3, <2>1, <2>2, <2>3, <2>4
<1> QED BY <1>4, <1>5

\* Every step moves the references of every task as it moves their holders.
LEMMA NextTaskRefs ==
    ASSUME TypeOK, TypeOK', TaskInv, FactsInv, PlaceInv, WaitFacts, TaskRefExact, [Next]_vars
    PROVE  TaskRefExact'
<1>1. ASSUME NEW v \in UTasks PROVE LinkBalance(v)
  <2>1. CASE LinksStill
    <3>1. /\ wt'[v].refcount = wt[v].refcount /\ OwnRefs(v)' = OwnRefs(v)
          /\ \A u \in UTasks : wt'[u].tk = wt[u].tk
          /\ \A q \in Pbid : gt'[q].tk = gt[q].tk
      BY <2>1 DEF LinksStill, UserStill, LinkSame, CopiesStill, CopyLinkSame
    <3>2. /\ WriteWaits(v)' = WriteWaits(v) /\ GcWaits(v)' = GcWaits(v)
          /\ WriteWaits(v) \in Nat /\ GcWaits(v) \in Nat
      BY <3>1, WaitTurns
    <3>3. wt[v].refcount \in Int /\ OwnRefs(v) \in Int
      BY DEF TypeOK, IoTypeOK, WtRec, OwnRefs
    <3> QED BY <3>1, <3>2, <3>3 DEF LinkBalance
  <2> QED BY <2>1, NextLinks, EnterBalance, LeaveBalance, GcLinkBalance
<1>2. ASSUME NEW v \in UTasks PROVE wt'[v].refcount = OwnRefs(v)' + WriteWaits(v)' + GcWaits(v)'
  <2>1. /\ WriteWaits(v) \in Int /\ GcWaits(v) \in Int /\ WriteWaits(v)' \in Int /\ GcWaits(v)' \in Int
        /\ OwnRefs(v) \in Int /\ OwnRefs(v)' \in Int
    BY WaitTurns DEF OwnRefs
  <2>2. wt[v].refcount \in Int /\ wt'[v].refcount \in Int
    BY DEF TypeOK, IoTypeOK, WtRec
  <2>3. wt[v].refcount = OwnRefs(v) + WriteWaits(v) + GcWaits(v)
    BY DEF TaskRefExact, WriteWaits, GcWaits
  <2>4. wt'[v].refcount - wt[v].refcount =
            (OwnRefs(v)' - OwnRefs(v)) + (WriteWaits(v)' - WriteWaits(v)) + (GcWaits(v)' - GcWaits(v))
    BY <1>1 DEF LinkBalance
  <2>5. PICK r \in Int, r2 \in Int, o \in Int, o2 \in Int :
           r = wt[v].refcount /\ r2 = wt'[v].refcount /\ o = OwnRefs(v) /\ o2 = OwnRefs(v)'
    BY <2>1, <2>2
  <2>6. PICK w \in Int, w2 \in Int, g \in Int, g2 \in Int :
           w = WriteWaits(v) /\ w2 = WriteWaits(v)' /\ g = GcWaits(v) /\ g2 = GcWaits(v)'
    BY <2>1
  <2>7. r = o + w + g /\ r2 - r = (o2 - o) + (w2 - w) + (g2 - g)
    BY <2>3, <2>4, <2>5, <2>6
  <2>8. r2 = o2 + w2 + g2
    BY <2>7
  <2> QED BY <2>5, <2>6, <2>8
<1> QED BY <1>2 DEF TaskRefExact, WriteWaits, GcWaits

\* Every step leaves only tasks that met another one knowing it.
LEMMA NextWaits ==
    ASSUME TypeOK, TypeOK', TaskInv, FactsInv, PlaceInv, WaitFacts, [Next]_vars
    PROVE  WaitFacts'
<1>1. CASE LinksStill
  BY <1>1 DEF LinksStill, UserStill, LinkSame, CopiesStill, CopyLinkSame, WaitFacts, Met
<1>2. ASSUME NEW t \in UTasks, SubmitWrite(t) \/ Resubmits(t) PROVE WaitFacts'
  <2>1. PICK task \in WtRec :
           InsertUser(t, task) /\ ~WtInTree(t) /\ task.blkid \in Blks /\ task.tk = NULL /\ gt' = gt
    BY <1>2, EnterTask
  <2>2. PICK own : own = tree[task.blkid]
    OBVIOUS
  <2>3. /\ (wt'[t].pc = "alloc" /\ wt'[t].tk = NULL) \/ wt'[t].pc = "conflict"
        /\ \A u \in UTasks : u # t => SameTask(wt'[u], wt[u]) /\ wt'[u].tk = wt[u].tk
    BY <2>1, <2>2, InsertLinks
  <2> QED BY <2>1, <2>3 DEF WaitFacts, SameTask
<1>3. ASSUME NEW t \in UTasks, WConflict(t) PROVE WaitFacts'
  <2>1. PICK o : o = wt[t].tk
    OBVIOUS
  <2>2. /\ wt'[t].tk = NULL
        /\ \A u \in UTasks : u # t => SameTask(wt'[u], wt[u]) /\ wt'[u].tk = wt[u].tk
        /\ gt' = gt \/ (o \in UTasks /\ RunsCallback(Pending(o, 1)))
    BY <1>3, <2>1, ConflictLinks
  <2>3. \A q \in Pbid : gt'[q] = gt[q] \/ gt'[q].tk = NULL
    BY <2>2 DEF RunsCallback, CallbackTask, NoGcTask
  <2> QED BY <2>2, <2>3 DEF WaitFacts, SameTask
<1>4. ASSUME NEW t \in UTasks, WDel(t) \/ (wt[t].pc = "alloc2" /\ WAllocEio(t)) PROVE WaitFacts'
  <2>1. /\ wt[t].pc # "conflict" /\ (wt'[t].tk = wt[t].tk \/ wt'[t].tk = NULL)
        /\ RunsCallback(Pending(t, 2)) /\ \A u \in UTasks : u # t => wt'[u] = wt[u]
    BY <1>4, DropLinks
  <2>2. \A q \in Pbid : gt'[q] = gt[q] \/ gt'[q].tk = NULL
    BY <2>1 DEF RunsCallback, CallbackTask, NoGcTask
  <2> QED BY <2>1, <2>2 DEF WaitFacts
<1>5. ASSUME NEW p \in Pbid, GAgency(p) PROVE WaitFacts'
  <2>1. PICK o : o = gt[p].tk
    OBVIOUS
  <2>2. /\ \A u \in UTasks : SameTask(wt'[u], wt[u]) /\ wt'[u].tk = wt[u].tk
        /\ \A q \in Pbid : q # p => gt'[q] = gt[q]
        /\ gt'[p] = NoGcTask \/ gt'[p].tk = NULL
    BY <1>5, <2>1, AgencyLinks
  <2> QED BY <2>2 DEF WaitFacts, SameTask, NoGcTask
<1>6. CASE WkGc
  <2>1. PICK p \in Pbid, own \in Owner :
               /\ gt[p].pc = "queued" /\ \A q \in Pbid : q # p => gt'[q] = gt[q]
               /\ \A u \in UTasks : SameTask(wt'[u], wt[u]) /\ wt'[u].tk = wt[u].tk
               /\ gt'[p].tk = gt[p].tk \/ gt'[p].pc = "conflict"
    BY <1>6, MeetLinks
  <2> QED BY <2>1 DEF WaitFacts, SameTask
<1> QED BY <1>1, <1>2, <1>3, <1>4, <1>5, <1>6, NextLinks

\* task->refcount counts the tree, the task itself and those who met it, also when
\* commands fail: insert_task_to_tree and task_put are always paired, and a task
\* is freed when, and only when, nobody can reach it any more.
THEOREM TaskRefsExact == Spec => [](TaskRefExact /\ WaitFacts)
<1>1. ASSUME Init PROVE TaskRefExact /\ WaitFacts
  <2>1. /\ \A t \in UTasks : wt[t].tk = NULL /\ wt[t].refcount = 0 /\ wt[t].pc = "none"
        /\ \A p \in Pbid : gt[p].tk = NULL
    BY <1>1 DEF Init, IoInit, NoTask, NoGcTask
  <2>2. ASSUME NEW v \in UTasks PROVE Count(UserWaits, v) = 0 /\ Count(CopyWaits, v) = 0 /\ OwnRefs(v) = 0
    <3>1. ASSUME NEW f, \A x \in DOMAIN f : f[x] = NULL PROVE Count(f, v) = 0
      <4>1. {x \in DOMAIN f : f[x] = v} = {}
        BY <3>1, IoAssumption
      <4> QED BY <4>1, FS_EmptySet DEF Count
    <3>2. /\ DOMAIN UserWaits = UTasks /\ DOMAIN CopyWaits = Pbid
          /\ \A x \in UTasks : UserWaits[x] = NULL
          /\ \A x \in Pbid : CopyWaits[x] = NULL
      BY <2>1 DEF UserWaits, CopyWaits
    <3>3. Count(UserWaits, v) = 0 /\ Count(CopyWaits, v) = 0
      BY <3>1, <3>2
    <3> QED BY <2>1, <3>3 DEF OwnRefs, WtInTree
  <2> QED BY <2>1, <2>2 DEF TaskRefExact, WaitFacts
<1>2. IInv => TypeOK /\ TaskInv
  BY DEF IInv
<1>3. ZoneInv => FactsInv /\ PlaceInv
  BY DEF ZoneInv
<1> QED BY <1>1, <1>2, <1>3, NextTaskRefs, NextWaits, Inductive, ZoneInductive, PTL DEF Spec

-----------------------------------------------------------------------------
(* The marks: which zone is under GC.                                      *)

MarksSame == \A z \in Zone : Marked(z)' <=> Marked(z)

\* GC takes zone y from the full ones.
Chooses(y) ==
    /\ gc.pc = "victim" /\ FullZone(y) /\ gc'.pc = "iter" /\ gc'.gc_zone = y /\ gc'.iter = 0
    /\ Marked(y)' /\ zone'[y].state = zone[y].state /\ zone'[y].in_put = zone[y].in_put
    /\ \A z \in Zone : z # y => zone'[z] = zone[z]
    /\ UNCHANGED <<media, oops, zrms, pbids, ioVars>>

\* Zone y, ready for reset, is blank again.
Resets(y) ==
    /\ Marked(y) /\ zone[y].state = "EMPTY" /\ ~Marked(y)' /\ zone'[y].in_put = zone[y].in_put
    /\ \A z \in Zone : z # y => zone'[z] = zone[z]
    /\ zrms' = [p \in Pbid |-> IF p[1] = y THEN INVALID ELSE zrms[p]]
    /\ UNCHANGED <<oops, pbids, ioVars, gc>>

\* The zone worker marks no zone.
LEMMA WorkerMarks ==
    ASSUME TypeOK, PlaceInv, ZoneMgmtApproved, ZoneStateWork, UNCHANGED <<pbids, ioVars, gc>>
    PROVE  \/ MarksSame /\ ZonesSettle /\ (oops' = oops \/ oops' = "reset_valid")
           \/ \E y \in Zone : Resets(y)
<1>1. /\ zone \in [Zone -> ZoneRec] /\ zs.i \in Zone /\ ZoneMarks /\ WorkerZone
      /\ zs.pc = "reset" => zone[zs.i].state = "EMPTY"
  BY DEF TypeOK, ZmdTypeOK, ZsRec, PlaceInv, ZoneMgmtApproved
<1>2. zone' = zone => MarksSame /\ ZonesSettle
  BY <1>1, OneRefers DEF MarksSame, Marked
<1>3. CASE ZsStart \/ ZsScanRefcount \/ ZsGcZone \/ ZsResetFails \/ ZsRelease
  <2>1. UNCHANGED <<zone, oops>>
    BY <1>3 DEF ZsStart, ZsScanRefcount, ZsGcZone, ZsResetFails, ZsRelease, devVars
  <2> QED BY <1>2, <2>1
<1>4. CASE ZsScanToFull
  <2>1. /\ oops' = oops /\ "TO_FULL" \in zone[zs.i].flags
        /\ zone' = zone \/ zone' = [zone EXCEPT ![zs.i].state = "CLOSED"]
    BY <1>4 DEF ZsScanToFull, devVars
  <2>2. CASE zone' = [zone EXCEPT ![zs.i].state = "CLOSED"]
    <3>1. ASSUME NEW z \in Zone PROVE (Marked(z)' <=> Marked(z)) /\ Settles(zone[z], zone'[z])
      <4>1. /\ zone'[z].flags = zone[z].flags /\ zone'[z].in_put = zone[z].in_put
            /\ zone'[z].refcount = zone[z].refcount
            /\ zone'[z].state = zone[z].state \/ zone'[z].state = "CLOSED"
        BY <1>1, <2>2 DEF ZoneRec
      <4> QED BY <4>1 DEF Marked, Settles, Settled
    <3> QED BY <2>1, <3>1 DEF MarksSame, ZonesSettle
  <2> QED BY <1>2, <2>1, <2>2
<1>5. CASE ZsClose
  <2>1. /\ oops' = oops /\ zs.pc = "close" /\ zone' = [zone EXCEPT ![zs.i].flags = {"FULL"}]
    BY <1>5 DEF ZsClose, devVars
  <2>2. "TO_FULL" \in zone[zs.i].flags /\ "GC" \notin zone[zs.i].flags
    BY <1>1, <2>1 DEF WorkerZone, ZoneMarks
  <2>3. ASSUME NEW z \in Zone PROVE (Marked(z)' <=> Marked(z)) /\ Settles(zone[z], zone'[z])
    <3>1. /\ zone'[z].in_put = zone[z].in_put /\ zone'[z].refcount = zone[z].refcount
          /\ zone'[z].state = zone[z].state
          /\ zone'[z].flags = zone[z].flags \/ (z = zs.i /\ zone'[z].flags = {"FULL"})
      BY <1>1, <2>1 DEF ZoneRec
    <3> QED BY <2>2, <3>1 DEF Marked, Settles, Settled
  <2> QED BY <2>1, <2>3 DEF MarksSame, ZonesSettle
<1>6. CASE ZsReset
  <2>1. CASE zone' = zone /\ oops' = "reset_valid"
    BY <1>2, <2>1
  <2>2. CASE ~(zone' = zone /\ oops' = "reset_valid")
    <3>1. /\ zs.pc = "reset" /\ oops' = oops
          /\ zone' = [zone EXCEPT ![zs.i] = [@ EXCEPT !.wp_block = 0, !.state = "EMPTY", !.flags = {"INIT"}]]
          /\ zrms' = [p \in Pbid |-> IF p[1] = zs.i THEN INVALID ELSE zrms[p]]
      BY <1>6, <2>2 DEF ZsReset
    <3>2. zone'[zs.i].flags = {"INIT"} /\ zone'[zs.i].in_put = zone[zs.i].in_put
      <4>1. zone'[zs.i] = [zone[zs.i] EXCEPT !.wp_block = 0, !.state = "EMPTY", !.flags = {"INIT"}]
        BY <1>1, <3>1
      <4>2. zone[zs.i] \in ZoneRec
        BY <1>1
      <4> QED BY <4>1, <4>2 DEF ZoneRec
    <3>3. \A z \in Zone : z # zs.i => zone'[z] = zone[z]
      BY <1>1, <3>1
    <3>4. Marked(zs.i) /\ zone[zs.i].state = "EMPTY"
      BY <1>1, <3>1 DEF Marked, WorkerZone
    <3>5. PICK y \in Zone : y = zs.i
      BY <1>1
    <3>6. Marked(y) /\ ~Marked(y)'
      BY <3>2, <3>4, <3>5 DEF Marked
    <3>7. Resets(y)
      BY <3>1, <3>2, <3>3, <3>4, <3>5, <3>6 DEF Resets
    <3> QED BY <3>7
  <2> QED BY <2>1, <2>2
<1> QED BY <1>3, <1>4, <1>5, <1>6 DEF ZoneStateWork

\* GC marks the zone it chooses.
LEMMA SelectMarks ==
    ASSUME TypeOK, GcSelect
    PROVE  \E y \in Zone : Chooses(y)
<1>1. zone \in [Zone -> ZoneRec] /\ full_zone_list \subseteq Zone
  BY DEF TypeOK, ZmdTypeOK
<1>2. PICK y \in full_zone_list :
         /\ zone' = [zone EXCEPT ![y] = SetFlag(lbz_get_zone(@), "GC")]
         /\ gc' = [pc |-> "iter", mod |-> "DEFAULT", gc_zone |-> y, iter |-> 0]
  BY DEF GcSelect, lbz_find_victim_zone, MinWeight
<1>3. y \in Zone
  BY <1>1
<1>4. PICK g : g = lbz_get_zone(zone[y])
  OBVIOUS
<1>5. g \in ZoneRec /\ g.state = zone[y].state /\ g.in_put = zone[y].in_put
  BY <1>1, <1>3, <1>4 DEF lbz_get_zone, ZoneRec
<1>6. zone'[y] = SetFlag(g, "GC") /\ \A z \in Zone : z # y => zone'[z] = zone[z]
  BY <1>1, <1>2, <1>3, <1>4
<1>7. "GC" \in zone'[y].flags /\ zone'[y].state = zone[y].state /\ zone'[y].in_put = zone[y].in_put
  BY <1>5, <1>6 DEF SetFlag, ZoneRec
<1>8. gc.pc = "victim" /\ UNCHANGED <<media, oops, zrms, pbids, ioVars>>
  BY DEF GcSelect, devVars
<1> QED BY <1>2, <1>3, <1>6, <1>7, <1>8 DEF Chooses, FullZone, Marked

\* Every step keeps the marks, chooses a zone or resets one.
LEMMA NextMarks ==
    ASSUME TypeOK, TaskInv, FactsInv, PlaceInv, ZoneMgmtApproved, [Next]_vars
    PROVE  MarksSame \/ \E y \in Zone : Chooses(y) \/ Resets(y)
<1>1. zone \in [Zone -> ZoneRec] /\ OnePlace /\ ZoneMarks
  BY DEF TypeOK, ZmdTypeOK, PlaceInv
<1>2. Calm => MarksSame
  BY DEF Calm, ZonesRefer, Refers, MarksAlike, MarksSame, Marked
<1>3. ASSUME NEW y, zone' = [zone EXCEPT ![y] = lbz_zone_complete_write(@)] PROVE MarksSame
  <2>1. \A z \in Zone : zone'[z] = zone[z] \/ zone'[z] = lbz_zone_complete_write(zone[z])
    BY <1>1, <1>3
  <2> QED BY <1>1, <2>1 DEF lbz_zone_complete_write, ZoneRec, MarksSame, Marked
<1>4. ASSUME NEW flag, NEW s \in Streams, lbz_zone_alloc_res(flag, s) PROVE MarksSame
  <2>1. PICK y : y = TargetZone(s)
    OBVIOUS
  <2>2. /\ y \in Zone /\ Unmarked(y) /\ \A z \in Zone : z # y => zone'[z] = zone[z]
        /\ "GC" \notin zone'[y].flags
    BY <1>1, <1>4, <2>1, AllocFx DEF Unmarked
  <2> QED BY <2>2 DEF MarksSame, Marked, Unmarked
<1>5. CASE \E t \in UTasks : SubmitWrite(t) \/ WriteStep(t)
  <2>1. PICK t \in UTasks : Calmer \/ WComplete(t) \/ \E s \in Streams : WriteTakes(t, s)
    BY <1>5, WriteZones
  <2> QED BY <1>2, <1>3, <1>4, <2>1 DEF Calmer, WComplete, WriteTakes, WGotZone
<1>6. CASE \E p \in Pbid : GcCopy(p)
  <2>1. PICK p \in Pbid : Calmer \/ GEndio(p) \/ \E s \in Streams : CopyTakes(p, s)
    BY <1>6, CopyZones
  <2> QED BY <1>2, <1>3, <1>4, <2>1 DEF Calmer, GEndio, CopyTakes, GGotZone
<1>7. CASE UNCHANGED vars
  <2>1. zone' = zone
    BY <1>7 DEF vars, zmdVars
  <2> QED BY <2>1 DEF MarksSame, Marked
<1>8. ASSUME NEW z \in Zone, PutZoneEnd(z) PROVE MarksSame
  BY <1>8, OneRefers DEF PutZoneEnd, ZonesRefer, Refers, MarksAlike, MarksSame, Marked
<1> QED BY <1>2, <1>5, <1>6, <1>7, <1>8, OtherZones, WorkerMarks, SelectMarks DEF Next, Running, Halted, Calmer

-----------------------------------------------------------------------------
(* A zone ready for reset.                                                 *)

\* Whoever refers to a zone is counted.
LEMMA RefFacts ==
    ASSUME TypeOK, RefcountExact, NEW z \in Zone
    PROVE  /\ zone[z].refcount \in Nat
           /\ \A p \in Pbid : SourceRef[p] = z => zone[z].refcount > 0
           /\ \A r \in Readers : ReadRef[r] = z => zone[z].refcount > 0
           /\ GcRef = z => zone[z].refcount > 0
<1>1. /\ DOMAIN WriteRef = UTasks /\ DOMAIN CopyRef = Pbid /\ DOMAIN SourceRef = Pbid
      /\ DOMAIN ReadRef = Readers /\ DOMAIN active_zone = Streams
      /\ IsFiniteSet(UTasks) /\ IsFiniteSet(Pbid) /\ IsFiniteSet(Readers) /\ IsFiniteSet(Streams)
  BY IoAssumption, PbidFinite, StreamsFinite DEF WriteRef, CopyRef, SourceRef, ReadRef, TypeOK, ZmdTypeOK
<1>2. PICK a, w, c, s, r : a = active_zone /\ w = WriteRef /\ c = CopyRef /\ s = SourceRef /\ r = ReadRef
  OBVIOUS
<1>3. /\ Count(a, z) \in Nat /\ Count(w, z) \in Nat /\ Count(c, z) \in Nat /\ Count(s, z) \in Nat
      /\ Count(r, z) \in Nat
  BY <1>1, <1>2, CountOf
<1>4. zone[z].refcount = Count(a, z) + Count(w, z) + Count(c, z) + Count(s, z) + Count(r, z)
                             + (IF GcRef = z THEN 1 ELSE 0)
  BY <1>2 DEF RefcountExact
<1>5. (\E p \in Pbid : s[p] = z) => Count(s, z) # 0
  BY <1>1, <1>2, CountZero
<1>6. (\E x \in Readers : r[x] = z) => Count(r, z) # 0
  BY <1>1, <1>2, CountZero
<1> QED BY <1>2, <1>3, <1>4, <1>5, <1>6

\* A zone under GC that is ready for reset is dead: nobody refers to it, nobody
\* copies out of it, no block lives in it.
LEMMA ReadyDead ==
    ASSUME TypeOK, RefcountExact, ZonesSettled, GcZoneOnly, GcMapped,
           NEW z \in Zone, Marked(z), zone[z].state = "EMPTY"
    PROVE  /\ zone[z].refcount = 0
           /\ \A p \in Pbid : p[1] = z => gt[p].pc \in {"none", "fault"}
           /\ \A r \in Readers : rd[r].pc # "none" => rd[r].pbid[1] # z
           /\ gc.pc = "iter" => gc.gc_zone # z
           /\ \A x \in Blks : pbids[x] \in Pbid => pbids[x][1] # z
<1>1. zone[z].refcount <= 0
  BY DEF ZonesSettled, Settled, Marked
<1>2. zone[z].refcount = 0
  BY <1>1, RefFacts
<1>3. ASSUME NEW p \in Pbid, p[1] = z PROVE gt[p].pc \in {"none", "fault"}
  <2>1. gt[p].pc \notin {"none", "fault"} => SourceRef[p] = z
    BY <1>3, SourceOf
  <2> QED BY <1>2, <2>1, RefFacts
<1>4. ASSUME NEW r \in Readers, rd[r].pc # "none" PROVE rd[r].pbid[1] # z
  <2>1. ReadRef[r] = rd[r].pbid[1]
    BY <1>4 DEF ReadRef
  <2> QED BY <1>2, <2>1, RefFacts
<1>5. gc.pc = "iter" => gc.gc_zone # z
  BY <1>2, RefFacts DEF GcRef
<1>6. ASSUME NEW x \in Blks, pbids[x] \in Pbid, pbids[x][1] = z PROVE FALSE
  <2>1. PICK p \in Pbid : p = pbids[x]
    BY <1>6
  <2>2. Mapped(x) /\ Marked(p[1])
    BY <1>6, <2>1, DevAssumption DEF Mapped
  <2>3. (gc.pc = "iter" /\ gc.iter <= p[2]) \/ MovesAway(p, x)
    BY <2>1, <2>2 DEF GcMapped
  <2>4. ~MovesAway(p, x)
    BY <1>3, <1>6, <2>1 DEF MovesAway, GtCopying
  <2> QED BY <1>5, <2>3, <2>4 DEF GcZoneOnly
<1> QED BY <1>2, <1>3, <1>4, <1>5, <1>6

\* The GC thread keeps its zone but when it chooses another.
LEMMA NextGc ==
    ASSUME TypeOK, [Next]_vars
    PROVE  \/ gc' = gc
           \/ GcSelect
           \/ /\ gc'.gc_zone = gc.gc_zone /\ (gc'.pc = "iter" => gc.pc = "iter")
              /\ gc'.pc = "victim" => PreviousZoneDone
<1>1. CASE UNCHANGED vars
  BY <1>1 DEF vars
<1>2. gc \in GcRec
  BY DEF TypeOK, GcTypeOK
<1>3. CASE GcCheck \/ GcNoVictim \/ GcIter \/ GcFinish
  BY <1>2, <1>3 DEF GcCheck, GcNoVictim, GcIter, GcFinish, GcRec
<1> QED BY <1>1, <1>3 DEF Next, Running, Halted, GcThread

\* No zone is under GC when the thread looks for a victim.
LEMMA NoneMarked ==
    ASSUME GcZoneOnly, gc.pc = "victim", NEW z \in Zone
    PROVE  ~Marked(z)
  BY DevAssumption DEF GcZoneOnly, PreviousZoneDone, Marked

\* Every step leaves at most one zone under GC.
LEMMA NextGcZone ==
    ASSUME TypeOK, TaskInv, FactsInv, PlaceInv, RefcountExact, ZonesSettled, GcZoneOnly, GcMapped,
           ZoneMgmtApproved, [Next]_vars
    PROVE  GcZoneOnly'
<1>1. gc.gc_zone \in Zone \cup {NULL} /\ NULL \notin Zone /\ (gc.pc = "iter" => gc.gc_zone \in Zone)
  BY DevAssumption DEF TypeOK, GcTypeOK, GcRec, FactsInv, GcFacts
<1>2. ASSUME NEW y \in Zone, Chooses(y) PROVE GcZoneOnly'
  <2>1. \A z \in Zone : z # y => ~Marked(z)'
    BY <1>2, NoneMarked DEF Chooses, Marked
  <2> QED BY <1>2, <2>1 DEF Chooses, GcZoneOnly
<1>3. ASSUME NEW y \in Zone, Resets(y) PROVE GcZoneOnly'
  <2>1. gc.pc = "iter" => gc.gc_zone # y
    BY <1>3, ReadyDead DEF Resets
  <2>2. \A z \in Zone : (Marked(z)' => Marked(z)) /\ (z # y => (Marked(z)' <=> Marked(z)))
    BY <1>3 DEF Resets, Marked
  <2>3. gc' = gc
    BY <1>3 DEF Resets
  <2> QED BY <1>1, <2>1, <2>2, <2>3 DEF GcZoneOnly, PreviousZoneDone, Marked
<1>4. CASE MarksSame
  <2>1. ASSUME gc'.gc_zone = gc.gc_zone, gc'.pc = "iter" => gc.pc = "iter",
               gc'.pc = "victim" => PreviousZoneDone
        PROVE  GcZoneOnly'
    <3>1. \A z \in Zone : Marked(z)' => gc'.gc_zone = z
      BY <1>4, <2>1 DEF MarksSame, GcZoneOnly
    <3>2. gc'.pc = "iter" => Marked(gc.gc_zone)
      BY <2>1 DEF GcZoneOnly
    <3>3. gc'.pc = "iter" => "GC" \in zone'[gc'.gc_zone].flags
      BY <1>1, <1>4, <2>1, <3>2 DEF MarksSame, Marked
    <3>4. gc'.pc = "victim" => PreviousZoneDone'
      BY <1>1, <1>4, <2>1 DEF MarksSame, Marked, PreviousZoneDone
    <3> QED BY <3>1, <3>3, <3>4 DEF GcZoneOnly, Marked
  <2>2. CASE gc' = gc
    <3>1. gc.pc = "victim" => PreviousZoneDone
      BY DEF GcZoneOnly
    <3> QED BY <2>1, <2>2, <3>1
  <2>3. CASE GcSelect
    BY <1>2, <2>3, SelectMarks
  <2> QED BY <2>1, <2>2, <2>3, NextGc
<1> QED BY <1>2, <1>3, <1>4, NextMarks

\* Every step leaves the zones settled.
LEMMA NextSettled ==
    ASSUME TypeOK, TaskInv, FactsInv, PlaceInv, RefcountExact, QuietZones, ZonesSettled, GcZoneOnly, GcMapped,
           ~SplitPut, ZoneMgmtApproved, [Next]_vars
    PROVE  ZonesSettled'
<1>1. zone \in [Zone -> ZoneRec] /\ OnePlace /\ ZoneMarks
  BY DEF TypeOK, ZmdTypeOK, PlaceInv
<1>2. ZonesSettle => ZonesSettled'
  BY DEF ZonesSettle, Settles, ZonesSettled
<1>3. ASSUME NEW y \in Zone, zone' = [zone EXCEPT ![y] = lbz_get_zone(@)], ~(Marked(y) /\ zone[y].state = "EMPTY")
      PROVE  ZonesSettled'
  <2>1. ASSUME NEW z \in Zone PROVE Settled(zone'[z])
    <3>1. /\ zone'[z].flags = zone[z].flags /\ zone'[z].in_put = zone[z].in_put
          /\ zone'[z].state = zone[z].state /\ (z # y => zone'[z] = zone[z])
      BY <1>1, <1>3 DEF lbz_get_zone, ZoneRec
    <3> QED BY <1>3, <3>1 DEF ZonesSettled, Settled, Marked
  <2> QED BY <2>1 DEF ZonesSettled
<1>4. ASSUME NEW y, zone' = [zone EXCEPT ![y] = lbz_zone_complete_write(@)] PROVE ZonesSettled'
  <2>1. ASSUME NEW z \in Zone PROVE Settled(zone'[z])
    <3>1. /\ zone'[z].flags = zone[z].flags /\ zone'[z].in_put = zone[z].in_put
          /\ zone'[z].state = zone[z].state /\ zone'[z].refcount = zone[z].refcount
      BY <1>1, <1>4 DEF lbz_zone_complete_write, ZoneRec
    <3> QED BY <3>1 DEF ZonesSettled, Settled
  <2> QED BY <2>1 DEF ZonesSettled
<1>5. ASSUME NEW flag, NEW s \in Streams, lbz_zone_alloc_res(flag, s) PROVE ZonesSettled'
  <2>1. PICK y : y = TargetZone(s)
    OBVIOUS
  <2>2. /\ y \in Zone /\ \A z \in Zone : z # y => zone'[z] = zone[z]
        /\ "GC" \notin zone'[y].flags
    BY <1>1, <1>5, <2>1, AllocFx DEF Unmarked
  <2>3. zone[y].in_put = FALSE => zone'[y].in_put = FALSE
    BY <1>1, <1>5, <2>1, AllocPends
  <2> QED BY <2>2, <2>3 DEF ZonesSettled, Settled
<1>6. CASE \E t \in UTasks : SubmitWrite(t) \/ WriteStep(t)
  <2>1. PICK t \in UTasks : Calmer \/ WComplete(t) \/ \E s \in Streams : WriteTakes(t, s)
    BY <1>6, WriteZones
  <2> QED BY <1>2, <1>4, <1>5, <2>1 DEF Calmer, WComplete, WriteTakes, WGotZone
<1>7. CASE \E p \in Pbid : GcCopy(p)
  <2>1. PICK p \in Pbid : Calmer \/ GEndio(p) \/ \E s \in Streams : CopyTakes(p, s)
    BY <1>7, CopyZones
  <2> QED BY <1>2, <1>4, <1>5, <2>1 DEF Calmer, GEndio, CopyTakes, GGotZone
<1>8. ASSUME NEW r \in Readers, SubmitRead(r) PROVE ZonesSettled'
  <2>1. PICK b \in Blks : Mapped(b) /\ zone' = [zone EXCEPT ![pbids[b][1]] = lbz_get_zone(@)]
    BY <1>8 DEF SubmitRead, lbz_submit_read, lbz_mapping_lookup, get_zone_by_pbid
  <2>2. pbids[b] \in Pbid /\ pbids[b][1] \in Zone
    BY <2>1 DEF TypeOK, MappingTypeOK, Mapped, Pbid
  <2>3. PICK y \in Zone : y = pbids[b][1]
    BY <2>2
  <2>4. ~(Marked(y) /\ zone[y].state = "EMPTY")
    BY <2>2, <2>3, ReadyDead
  <2> QED BY <1>3, <2>1, <2>3, <2>4
<1>9. CASE GcIter
  <2>1. gc.pc = "iter" /\ gc.gc_zone \in Zone
    BY <1>9 DEF GcIter, FactsInv, GcFacts
  <2>2. PICK y \in Zone : y = gc.gc_zone
    BY <2>1
  <2>3. ~(Marked(y) /\ zone[y].state = "EMPTY")
    BY <2>1, <2>2, ReadyDead
  <2>4. zone' = zone \/ zone' = [zone EXCEPT ![y] = lbz_get_zone(@)]
    BY <1>9, <2>2 DEF GcIter
  <2> QED BY <1>2, <1>3, <2>3, <2>4, OneRefers
<1>10. ASSUME NEW z \in Zone, PutZoneEnd(z) PROVE FALSE
  BY <1>10 DEF PutZoneEnd, ZonesSettled, Settled
<1>11. ASSUME NEW y \in Zone, Chooses(y) PROVE ZonesSettled'
  <2>1. zone[y].state # "EMPTY"
    BY <1>11 DEF Chooses, QuietZones
  <2> QED BY <1>11, <2>1 DEF Chooses, ZonesSettled, Settled
<1>12. ASSUME NEW y \in Zone, Resets(y) PROVE ZonesSettled'
  BY <1>12 DEF Resets, ZonesSettled, Settled, Marked
<1>13. CASE UNCHANGED vars
  <2>1. zone' = zone
    BY <1>13 DEF vars, zmdVars
  <2> QED BY <1>2, <2>1, OneRefers
<1> QED BY <1>2, <1>6, <1>7, <1>8, <1>9, <1>10, <1>11, <1>12, <1>13, OtherZones, WorkerMarks, SelectMarks
        DEF Next, Running, Halted, Calmer, Takes

-----------------------------------------------------------------------------
(* How the copies move while no command fails.                             *)

MovePcs == {"reading", "queued", "lookup", "alloc", "alloc2", "append", "endio", "cb_rmap", "cb_map"}
Needing == {"reading", "queued", "lookup", "alloc", "alloc2"}
Active(p) == gt[p].pc \notin {"none", "fault"}

\* The GC thread starts the copy of p.
CopyStarts(p) ==
    /\ GcIter /\ gc.pc = "iter" /\ p[1] = gc.gc_zone /\ p[2] = gc.iter /\ zrms[p] # INVALID
    /\ gt[p].pc = "none" /\ gt'[p].pc = "reading" /\ gt'[p].blkid = zrms[p] /\ gt'[p].zone = NULL

\* The copy of p takes another step.
CopyGoesOn(p) ==
    /\ Active(p) /\ Active(p)' /\ gt'[p].blkid = gt[p].blkid
    /\ gt'[p].zone = gt[p].zone \/ (gt'[p].zone \in Zone /\ Unmarked(gt'[p].zone))
    /\ GRead(p) \/ (gt[p].pc # "reading" /\ gt'[p].data = gt[p].data)
    /\ gt'[p].pc \in Needing => gt[p].pc \in Needing
    /\ \/ gt'[p].pc \in MovePcs
       \/ GCbMap(p) /\ gt'[p].pc \in {"cb_put", "cb_old"}
       \/ gt[p].pc = "cb_old" /\ gt'[p].pc = "cb_put"
       \/ GAgency(p) /\ gt'[p].pc = "agency"
       \/ WkGc /\ gt[p].pc = "queued" /\ gt'[p].pc = "conflict"

\* The copy of p ends: nothing to copy, done, or finished by a user write.
PutEnds(p) ==
    \E u \in UTasks : /\ wt[u].pending_gc_node = p
                      /\ \/ WDel(u) /\ LastPut(u, 2)
                         \/ LastPut(u, 1) /\ \E t \in UTasks : WConflict(t) /\ wt[t].tk = u
CopyEnds(p) ==
    /\ gt'[p].pc = "none" /\ gt'[p].blkid = NULL /\ gt'[p].zone = NULL
    /\ \/ gt[p].pc = "lookup" /\ pbids[gt[p].blkid] # p
       \/ gt[p].pc = "cb_put"
       \/ GAgency(p)
       \/ gt[p].pc = "agency" /\ PutEnds(p)

\* The steps of the copy itself.
LEMMA OwnCopy ==
    ASSUME TypeOK, TaskInv, FactsInv, PlaceInv, errors = 0, errors' = 0, NEW p \in Pbid, GcCopy(p)
    PROVE  gt'[p] = gt[p] \/ CopyGoesOn(p) \/ CopyEnds(p)
<1>1. /\ ~faulty /\ ~gt[p].error /\ gt[p].pc # "fault" /\ OnePlace /\ ZoneMarks /\ gt \in [Pbid -> GtRec]
  BY DEF FactsInv, ErrorsSeen, PlaceInv, TypeOK, IoTypeOK
<1>2. ASSUME gt'[p].pc \in MovePcs, GcKeeps(p), gt[p].pc \notin {"none", "reading"},
             gt'[p].pc \in Needing => gt[p].pc \in Needing
      PROVE  CopyGoesOn(p)
  BY <1>1, <1>2 DEF CopyGoesOn, Active, MovePcs, GcKeeps
<1>3. ASSUME NEW c \in MovePcs, gt' = [gt EXCEPT ![p].pc = c], gt[p].pc \notin {"none", "reading"},
             c \in Needing => gt[p].pc \in Needing
      PROVE  CopyGoesOn(p)
  BY <1>2, <1>3, GcPcFx
<1>4. CASE GRead(p)
  <2>1. /\ gt[p].pc = "reading" /\ gt'[p].pc = "queued" /\ gt'[p].blkid = gt[p].blkid /\ gt'[p].zone = gt[p].zone
    BY <1>4, GReadFx
  <2> QED BY <1>4, <2>1 DEF CopyGoesOn, Active, MovePcs, Needing
<1>5. CASE GReadFails(p) \/ GFault(p) \/ GAppendFails(p)
  <2>1. errors' = errors + 1
    BY <1>1, <1>5 DEF GReadFails, GFault, GAppendFails, CommandFails
  <2> QED BY <2>1
<1>6. CASE GAgency(p)
  <2>1. CASE gt' = [gt EXCEPT ![p] = NoGcTask]
    BY <1>1, <1>6, <2>1 DEF CopyEnds, NoGcTask
  <2>2. CASE gt'[p].pc = "agency" /\ GcKeeps(p)
    BY <1>6, <2>2, GAgencyFx DEF CopyGoesOn, Active, GcKeeps, Needing
  <2> QED BY <1>6, <2>1, <2>2, GAgencyFx
<1>7. CASE GLookup(p)
  <2>1. gt[p].pc = "lookup"
    BY <1>7 DEF GLookup
  <2>2. \/ pbids[gt[p].blkid] # p /\ gt' = [gt EXCEPT ![p] = NoGcTask]
        \/ gt' = [gt EXCEPT ![p].pc = "alloc"]
    BY <1>7 DEF GLookup
  <2>3. CASE gt' = [gt EXCEPT ![p].pc = "alloc"]
    BY <1>3, <2>1, <2>3 DEF MovePcs, Needing
  <2>4. CASE pbids[gt[p].blkid] # p /\ gt' = [gt EXCEPT ![p] = NoGcTask]
    BY <1>1, <2>1, <2>4 DEF CopyEnds, NoGcTask
  <2> QED BY <2>2, <2>3, <2>4
<1>8. ASSUME gt[p].pc \in {"alloc", "alloc2"}, NEW s \in Streams, GGotZone(p, s) PROVE CopyGoesOn(p)
  <2>1. PICK y : y = TargetZone(s)
    OBVIOUS
  <2>2. /\ gt'[p].pc = "append" /\ gt'[p].blkid = gt[p].blkid /\ gt'[p].zone = y
        /\ gt'[p].data = gt[p].data /\ lbz_zone_alloc_res("GC", s)
    BY <1>8, <2>1, GGotZoneFx
  <2>3. y \in Zone /\ Unmarked(y)
    BY <1>1, <2>1, <2>2, AllocFx
  <2> QED BY <1>8, <2>2, <2>3 DEF CopyGoesOn, Active, MovePcs, Needing
<1>9. CASE GAlloc(p) \/ GAlloc2(p)
  <2>1. gt[p].pc \in {"alloc", "alloc2"} /\ gt[p].blkid \in Blks
    BY <1>9 DEF GAlloc, GAlloc2, TaskInv, GtFacts
  <2>2. StreamId[gt[p].blkid] \in Streams /\ OtherStream(StreamId[gt[p].blkid]) \in Streams
    BY <2>1, IoAssumption DEF OtherStream, Streams, LBZ_ZONE_MAX_STREAM
  <2>3. CASE gt' = [gt EXCEPT ![p].pc = "alloc2"]
    BY <1>3, <2>1, <2>3 DEF MovePcs, Needing
  <2> QED BY <1>8, <1>9, <2>1, <2>2, <2>3 DEF GAlloc, GAlloc2, ioVars
<1>10. CASE GAppend(p)
  <2>1. /\ gt[p].pc = "append" /\ gt'[p].pc = "endio" /\ gt'[p].blkid = gt[p].blkid
        /\ gt'[p].zone = gt[p].zone /\ gt'[p].data = gt[p].data
    BY <1>10, GAppendFx
  <2> QED BY <2>1 DEF CopyGoesOn, Active, MovePcs, Needing
<1>11. CASE GEndio(p)
  <2>1. gt[p].pc = "endio" /\ gt' = [gt EXCEPT ![p].pc = "cb_rmap"]
    BY <1>1, <1>11 DEF GEndio
  <2> QED BY <1>3, <2>1 DEF MovePcs, Needing
<1>12. CASE GCbRmap(p)
  <2>1. gt[p].pc = "cb_rmap" /\ gt' = [gt EXCEPT ![p].pc = "cb_map"]
    BY <1>12 DEF GCbRmap
  <2> QED BY <1>3, <2>1 DEF MovePcs, Needing
<1>13. CASE GCbMap(p) \/ GCbOld(p)
  <2>1. PICK c \in {"cb_put", "cb_old"} :
            gt' = [gt EXCEPT ![p].pc = c] /\ (GCbMap(p) \/ (gt[p].pc = "cb_old" /\ c = "cb_put"))
    BY <1>13 DEF GCbMap, GCbOld
  <2>2. gt[p].pc \in {"cb_map", "cb_old"}
    BY <1>13 DEF GCbMap, GCbOld
  <2>3. gt'[p].pc = c /\ GcKeeps(p)
    BY <2>1, GcPcFx
  <2> QED BY <2>1, <2>2, <2>3 DEF CopyGoesOn, Active, GcKeeps, Needing
<1>14. CASE GCbPut(p)
  <2>1. gt[p].pc = "cb_put" /\ gt' = [gt EXCEPT ![p] = [NoGcTask EXCEPT !.pc = "none"]]
    BY <1>1, <1>14 DEF GCbPut
  <2> QED BY <1>1, <2>1 DEF CopyEnds, NoGcTask
<1> QED BY <1>4, <1>5, <1>6, <1>7, <1>9, <1>10, <1>11, <1>12, <1>13, <1>14 DEF GcCopy

\* The callback a user write runs.
LEMMA PutCopy ==
    ASSUME TypeOK, TaskInv, FactsInv, NEW p \in Pbid, NEW u \in UTasks, NEW n, RunsCallback(Pending(u, n))
    PROVE  \/ gt'[p] = gt[p]
           \/ /\ gt'[p].pc = "none" /\ gt'[p].blkid = NULL /\ gt'[p].zone = NULL
              /\ gt[p].pc = "agency" /\ wt[u].pending_gc_node = p /\ LastPut(u, n)
<1>1. CASE p \in Pending(u, n)
  <2>1. wt[u].pending_gc_node = p /\ LastPut(u, n)
    BY <1>1 DEF Pending
  <2>2. p # NULL
    BY DevAssumption
  <2>3. gt[p].pc = "agency"
    BY <2>1, <2>2 DEF TaskInv, PendingAgency
  <2> QED BY <1>1, <2>1, <2>3 DEF RunsCallback, CallbackTask, NoGcTask
<1>2. CASE p \notin Pending(u, n)
  BY <1>2 DEF RunsCallback, CallbackTask
<1> QED BY <1>1, <1>2

\* Every step, as the copy of p sees it.
LEMMA NextCopies ==
    ASSUME TypeOK, TaskInv, FactsInv, PlaceInv, errors = 0, errors' = 0, [Next]_vars, NEW p \in Pbid
    PROVE  gt'[p] = gt[p] \/ CopyStarts(p) \/ CopyGoesOn(p) \/ CopyEnds(p)
<1>1. ~faulty /\ NULL \notin UTasks
  BY IoAssumption DEF FactsInv, ErrorsSeen
<1>2. CASE gt' = gt
  BY <1>2
<1>3. ASSUME NEW q \in Pbid, GcCopy(q), q # p PROVE gt'[p] = gt[p]
  <2>1. gt' = gt \/ GcFrame(q)
    <3>1. gt \in [Pbid -> GtRec]
      BY DEF TypeOK, IoTypeOK
    <3>2. CASE GAlloc2(q) /\ gt' = gt
      BY <3>2
    <3>3. CASE GRead(q) \/ GAgency(q) \/ GLookup(q) \/ GAppend(q) \/ GAppendFails(q) \/ GCbPut(q)
      BY <3>3, GReadFx, GAgencyFx, GLookupFx, GAppendFx, GCbPutFx
    <3>4. ASSUME NEW c, gt' = [gt EXCEPT ![q].pc = c] \/ gt' = [gt EXCEPT ![q] = c] PROVE GcFrame(q)
      BY <3>1, <3>4 DEF GcFrame
    <3>5. CASE GReadFails(q) \/ GFault(q) \/ GEndio(q) \/ GCbRmap(q) \/ GCbMap(q) \/ GCbOld(q)
      BY <3>4, <3>5 DEF GReadFails, GFault, GEndio, GCbRmap, GCbMap, GCbOld
    <3>6. CASE GAlloc(q) \/ GAlloc2(q)
      <4>1. ASSUME NEW s, GGotZone(q, s) PROVE GcFrame(q)
        BY <4>1, GGotZoneFx
      <4> QED BY <3>4, <3>6, <4>1 DEF GAlloc, GAlloc2, ioVars
    <3> QED BY <1>3, <3>2, <3>3, <3>5, <3>6 DEF GcCopy
  <2> QED BY <1>3, <2>1 DEF GcFrame
<1>4. ASSUME NEW t \in UTasks, SubmitWrite(t) \/ WriteStep(t) PROVE gt'[p] = gt[p] \/ CopyEnds(p)
  <2>1. CASE WConflict(t)
    <3>1. PICK o : o = wt[t].tk
      OBVIOUS
    <3>2. (o \in UTasks => RunsCallback(Pending(o, 1))) /\ (o \notin UTasks => gt' = gt)
      BY <2>1, <3>1, ConflictLinks
    <3>3. CASE o \in UTasks
      BY <2>1, <3>1, <3>2, <3>3, PutCopy DEF CopyEnds, PutEnds
    <3> QED BY <3>2, <3>3
  <2>2. CASE WDel(t)
    <3>1. RunsCallback(Pending(t, 2))
      BY <2>2, DropLinks
    <3> QED BY <2>2, <3>1, PutCopy DEF CopyEnds, PutEnds
  <2>3. CASE ~WConflict(t) /\ ~WDel(t)
    <3>1. ASSUME WAlloc2(t) PROVE gt' = gt
      BY <1>1, <3>1 DEF WAlloc2, WGotZone, WAllocEagain, WAllocEio
    <3>2. ASSUME WAlloc(t) PROVE gt' = gt
      BY <3>2 DEF WAlloc, WGotZone
    <3>3. CASE WAppend(t) \/ WAppendFails(t) \/ WEndio(t) \/ WOldRmap(t) \/ WOldWeight(t) \/ WNewRmap(t)
                  \/ WComplete(t) \/ WPut(t)
      BY <3>3 DEF WAppend, WAppendFails, WEndio, WOldRmap, WOldWeight, WNewRmap, WComplete, WPut
    <3> QED BY <1>4, <2>3, <3>1, <3>2, <3>3 DEF WriteStep, SubmitWrite, lbz_submit_write
  <2> QED BY <2>1, <2>2, <2>3
<1>5. CASE WkGc
  <2>1. PICK q \in Pbid : /\ gt[q].pc = "queued" /\ gt'[q].pc \in {"lookup", "conflict"}
                          /\ GcKeeps(q) /\ GcFrame(q)
    BY <1>5, WkGcFx
  <2>2. q # p => gt'[p] = gt[p]
    BY <2>1 DEF GcFrame
  <2>3. q = p => CopyGoesOn(p)
    BY <1>5, <2>1 DEF CopyGoesOn, Active, MovePcs, Needing, GcKeeps
  <2> QED BY <2>2, <2>3
<1>6. CASE GcIter
  <2>1. PICK q : q = <<gc.gc_zone, gc.iter>>
    OBVIOUS
  <2>2. gt \in [Pbid -> GtRec] /\ gc.pc = "iter"
    BY <1>6 DEF TypeOK, IoTypeOK, GcIter
  <2>3. \/ gt' = gt
        \/ /\ zrms[q] # INVALID /\ gt[q].pc = "none"
           /\ gt' = [gt EXCEPT ![q] = [NoGcTask EXCEPT !.pc = "reading", !.blkid = zrms[q]]]
    BY <1>6, <2>1 DEF GcIter
  <2>4. CASE p = q /\ gt' # gt
    <3>1. gt'[p].pc = "reading" /\ gt'[p].blkid = zrms[p] /\ gt'[p].zone = NULL
      BY <2>2, <2>3, <2>4 DEF NoGcTask
    <3> QED BY <1>6, <2>1, <2>2, <2>3, <2>4, <3>1 DEF CopyStarts
  <2> QED BY <2>2, <2>3, <2>4
<1>7. CASE UNCHANGED vars
  BY <1>2, <1>7 DEF vars, ioVars
<1>8. CASE WkStart \/ WkUser \/ WkSpliceGc \/ WkEnd
  BY <1>2, <1>8 DEF WkStart, WkUser, WkSpliceGc, WkEnd
<1>9. CASE GcCheck \/ GcSelect \/ GcNoVictim \/ GcFinish
  BY <1>2, <1>9 DEF GcCheck, GcSelect, GcNoVictim, GcFinish, ioVars
<1>10. ASSUME NEW r \in Readers, SubmitRead(r) \/ lbz_read_io_endio(r) PROVE gt' = gt
  BY <1>10 DEF SubmitRead, lbz_submit_read, lbz_read_io_endio
<1>11. UNCHANGED ioVars => gt' = gt
  BY DEF ioVars
<1> QED BY <1>2, <1>3, <1>4, <1>5, <1>6, <1>7, <1>8, <1>9, <1>10, <1>11, OwnCopy
        DEF Next, Running, Halted, RetryWork, GcThread

\* Only a choice marks a zone, only a reset takes the mark.
LEMMA MarkTurns ==
    ASSUME TypeOK, TaskInv, FactsInv, PlaceInv, ZoneMgmtApproved, [Next]_vars, NEW z \in Zone
    PROVE  /\ Marked(z) /\ ~Marked(z)' => Resets(z)
           /\ ~Marked(z) /\ Marked(z)' => Chooses(z)
<1>1. CASE MarksSame
  BY <1>1 DEF MarksSame
<1>2. ASSUME NEW y \in Zone, Chooses(y) \/ Resets(y), y # z PROVE Marked(z)' <=> Marked(z)
  BY <1>2 DEF Chooses, Resets, Marked
<1>3. Chooses(z) => Marked(z)'
  BY DEF Chooses
<1>4. Resets(z) => Marked(z) /\ ~Marked(z)'
  BY DEF Resets
<1> QED BY <1>1, <1>2, <1>3, <1>4, NextMarks

\* Every step leaves the copies going from the zone under GC to others.
LEMMA NextCopiesMarked ==
    ASSUME TypeOK, TaskInv, FactsInv, PlaceInv, RefcountExact, ZonesSettled, GcZoneOnly, GcMapped,
           CopiesMarked, ZoneMgmtApproved, errors = 0, errors' = 0, [Next]_vars
    PROVE  CopiesMarked'
<1>1. ASSUME NEW p \in Pbid, gt'[p].pc \notin {"none", "fault"} PROVE Marked(p[1])'
  <2>1. PICK y \in Zone : y = p[1]
    BY DEF Pbid
  <2>2. Marked(y) /\ (Active(p) \/ (gc.pc = "iter" /\ gc.gc_zone = y))
    <3>1. CASE CopyStarts(p)
      BY <2>1, <3>1 DEF CopyStarts, GcZoneOnly
    <3>2. CASE Active(p)
      BY <2>1, <3>2 DEF Active, CopiesMarked
    <3> QED BY <1>1, <3>1, <3>2, NextCopies DEF Active, CopyGoesOn, CopyEnds
  <2>3. ~Resets(y)
    <3>1. ASSUME Resets(y) PROVE FALSE
      <4>1. zone[y].state = "EMPTY"
        BY <3>1 DEF Resets
      <4> QED BY <2>1, <2>2, <4>1, ReadyDead DEF Active
    <3> QED BY <3>1
  <2>4. Marked(y)'
    BY <2>2, <2>3, MarkTurns
  <2> QED BY <2>1, <2>4
<1>2. ASSUME NEW p \in Pbid, NEW y, y = gt'[p].zone, y # NULL PROVE ~Marked(y)'
  <2>1. y \in Zone /\ ~Marked(y)
    <3>1. CASE y = gt[p].zone
      <4>1. gt[p].zone \in Zone \cup {NULL}
        BY DEF TypeOK, IoTypeOK, GtRec
      <4> QED BY <1>2, <3>1, <4>1 DEF CopiesMarked
    <3>2. CASE y \in Zone /\ Unmarked(y)
      BY <3>2 DEF Unmarked, Marked
    <3> QED BY <1>2, <3>1, <3>2, NextCopies DEF CopyStarts, CopyGoesOn, CopyEnds
  <2>2. ~Chooses(y)
    <3>1. ASSUME Chooses(y) PROVE FALSE
      <4>1. gc.pc = "victim" /\ gt' = gt
        BY <3>1 DEF Chooses, ioVars
      <4>2. gt[p].pc \in {"none", "fault"}
        <5>1. PICK z \in Zone : z = p[1]
          BY DEF Pbid
        <5> QED BY <4>1, <5>1, NoneMarked DEF CopiesMarked
      <4> QED BY <1>2, <4>1, <4>2 DEF FactsInv, GtZones
    <3> QED BY <3>1
  <2> QED BY <2>1, <2>2, MarkTurns
<1>3. ASSUME NEW p \in Pbid, gt'[p].pc = "none" PROVE gt'[p].blkid = NULL
  BY <1>3, NextCopies DEF CopiesMarked, CopyStarts, CopyGoesOn, CopyEnds, Active
<1>4. ASSUME NEW p \in Pbid, gt'[p].zone # NULL PROVE "GC" \notin zone'[gt'[p].zone].flags
  <2>1. PICK y : y = gt'[p].zone
    OBVIOUS
  <2>2. ~Marked(y)'
    BY <1>2, <1>4, <2>1
  <2> QED BY <2>1, <2>2 DEF Marked
<1> QED BY <1>1, <1>3, <1>4 DEF CopiesMarked, Marked

-----------------------------------------------------------------------------
(* How the user writes and the maps move while no command fails.           *)

\* Every step, as user task u sees it.
LEMMA NextUser ==
    ASSUME TypeOK, TaskInv, FactsInv, errors = 0, errors' = 0, [Next]_vars, NEW u \in UTasks
    PROVE  \/ SameTask(wt'[u], wt[u])
           \/ WEndio(u)
           \/ WNewRmap(u)
           \/ wt'[u].pc # "del" /\ \A x : NotYet(u, x) => NotYet(u, x)'
<1> DEFINE Goes == wt'[u].pc # "del" /\ \A x : NotYet(u, x) => NotYet(u, x)'
<1>1. ~faulty /\ wt \in [UTasks -> WtRec] /\ WtFacts /\ ~wt[u].error
  BY DEF FactsInv, ErrorsSeen, TypeOK, IoTypeOK, TaskInv
<1>2. wt' = wt => SameTask(wt'[u], wt[u])
  BY DEF SameTask
<1>3. ASSUME NEW t \in UTasks, OthersKept(t), t # u PROVE SameTask(wt'[u], wt[u])
  BY <1>3 DEF OthersKept
<1>4. ASSUME wt[u].pc \notin {"alloc", "alloc2", "append", "endio"},
             wt[u].pc # "queued" \/ wt[u].status = "INIT", wt'[u].pc # "del" PROVE Goes
  BY <1>4 DEF NotYet
<1>5. ASSUME wt'[u].blkid = wt[u].blkid, wt'[u].pc \in {"alloc", "alloc2", "append", "endio"} PROVE Goes
  BY <1>5 DEF NotYet
<1>6. ASSUME NEW t \in UTasks, SubmitWrite(t) PROVE SameTask(wt'[u], wt[u]) \/ Goes
  BY <1>3, <1>4, <1>6, SubmitFx
<1>7. ASSUME NEW t \in UTasks, WConflict(t) PROVE SameTask(wt'[u], wt[u]) \/ Goes
  BY <1>3, <1>4, <1>7, WConflictFx
<1>8. ASSUME NEW t \in UTasks, NEW s, WGotZone(t, s) PROVE SameTask(wt'[u], wt[u]) \/ Goes
  BY <1>3, <1>5, <1>8, WGotZoneFx
<1>9. ASSUME NEW t \in UTasks, WAlloc(t) \/ WAlloc2(t) PROVE SameTask(wt'[u], wt[u]) \/ Goes
  <2>1. \/ \E s : WGotZone(t, s)
        \/ wt' = [wt EXCEPT ![t].pc = "alloc2"]
        \/ wt[t].pc = "alloc2" /\ wt' = [wt EXCEPT ![t].pc = "queued"]
    BY <1>1, <1>9 DEF WAlloc, WAlloc2, WAllocEagain, WAllocEio
  <2>2. CASE wt' = [wt EXCEPT ![t].pc = "alloc2"]
    <3>1. wt'[t].pc = "alloc2" /\ wt'[t].blkid = wt[t].blkid /\ OthersKept(t)
      BY <2>2, PcFx DEF KeepsFields
    <3> QED BY <1>3, <1>5, <3>1
  <2>3. CASE wt[t].pc = "alloc2" /\ wt' = [wt EXCEPT ![t].pc = "queued"]
    <3>1. CASE t = u
      <4>1. wt'[u].pc = "queued" /\ wt'[u].blkid = wt[u].blkid /\ wt'[u].status = wt[u].status
        BY <1>1, <2>3, <3>1 DEF WtRec
      <4>2. wt[u].status = "ALLOC_RES"
        BY <1>1, <2>3, <3>1 DEF WtFacts
      <4> QED BY <4>1, <4>2 DEF NotYet
    <3> QED BY <1>3, <2>3, <3>1, PcFx
  <2> QED BY <1>8, <2>1, <2>2, <2>3
<1>10. ASSUME NEW t \in UTasks, WAppend(t) \/ WAppendFails(t) PROVE SameTask(wt'[u], wt[u]) \/ Goes
  BY <1>3, <1>5, <1>10, WAppendFx
<1>11. ASSUME NEW t \in UTasks, WEndio(t) PROVE SameTask(wt'[u], wt[u]) \/ WEndio(u)
  BY <1>3, <1>11, WEndioFx
<1>12. ASSUME NEW t \in UTasks, WNewRmap(t) PROVE SameTask(wt'[u], wt[u]) \/ WNewRmap(u)
  <2>1. OthersKept(t)
    BY <1>12, PcFx DEF WNewRmap
  <2> QED BY <1>3, <1>12, <2>1
<1>13. ASSUME NEW t \in UTasks, WOldRmap(t) \/ WOldWeight(t) \/ WComplete(t) PROVE SameTask(wt'[u], wt[u]) \/ Goes
  <2>1. PICK c \in {"oldweight", "newrmap", "put"} : wt' = [wt EXCEPT ![t].pc = c]
    BY <1>13 DEF WOldRmap, WOldWeight, WComplete
  <2>2. wt[t].pc \in {"oldrmap", "oldweight", "complete"}
    BY <1>13 DEF WOldRmap, WOldWeight, WComplete
  <2> QED BY <1>3, <1>4, <2>1, <2>2, PcFx
<1>14. ASSUME NEW t \in UTasks, WDel(t) \/ WPut(t) PROVE SameTask(wt'[u], wt[u]) \/ Goes
  BY <1>3, <1>4, <1>14, WDelFx, WPutFx
<1>15. CASE WkUser
  <2>1. PICK t : t = Head(wk.users)
    OBVIOUS
  <2>2. wk.users \in Seq(UTasks) /\ wk.users # <<>>
    BY <1>15 DEF WkUser, TypeOK, IoTypeOK, WkRec
  <2>3. t \in UTasks /\ OnList(wk.users, t)
    BY <2>1, <2>2, TailList
  <2>4. wt[t].pc = "queued" /\ wt[t].blkid \in Blks /\ wt[t] \in WtRec
    BY <1>1, <2>3 DEF TaskInv, QueuedOnce, WtFacts
  <2>5. \/ wt[t].status = "INIT" /\ InsertUser(t, wt[t])
        \/ wt' = [wt EXCEPT ![t].pc = "alloc"]
    BY <1>15, <2>1 DEF WkUser
  <2>6. CASE wt[t].status = "INIT" /\ InsertUser(t, wt[t])
    <3>1. wt'[t].pc \in {"alloc", "conflict"} /\ OthersKept(t)
      BY <2>3, <2>4, <2>6, InsertFx DEF WtInTree
    <3> QED BY <1>3, <1>4, <2>3, <2>4, <2>6, <3>1
  <2>7. CASE wt' = [wt EXCEPT ![t].pc = "alloc"]
    BY <1>3, <1>5, <2>3, <2>7, PcFx DEF KeepsFields
  <2> QED BY <2>5, <2>6, <2>7
<1>16. ASSUME AllUsersKept PROVE SameTask(wt'[u], wt[u])
  BY <1>16 DEF AllUsersKept
<1>17. CASE WkGc
  BY <1>16, <1>17, WkGcFx
<1>18. ASSUME NEW p \in Pbid, GcCopy(p) PROVE SameTask(wt'[u], wt[u])
  <2>1. CASE GAgency(p)
    BY <1>16, <2>1, GAgencyFx
  <2>2. CASE ~GAgency(p)
    <3>1. wt' = wt
      BY <1>18, <2>2 DEF GcCopy, GRead, GReadFails, GFault, GLookup, GAlloc, GAlloc2, GGotZone, GAppend,
             GAppendFails, GEndio, GCbRmap, GCbMap, GCbOld, GCbPut, ioVars
    <3> QED BY <1>2, <3>1
  <2> QED BY <2>1, <2>2
<1>19. CASE UNCHANGED ioVars
  BY <1>2, <1>19 DEF ioVars
<1>20. CASE WkStart \/ WkSpliceGc \/ WkEnd \/ GcIter
  BY <1>2, <1>20 DEF WkStart, WkSpliceGc, WkEnd, GcIter
<1>21. ASSUME NEW r \in Readers, SubmitRead(r) \/ lbz_read_io_endio(r) PROVE SameTask(wt'[u], wt[u])
  BY <1>2, <1>21 DEF SubmitRead, lbz_submit_read, lbz_read_io_endio
<1>22. CASE GcCheck \/ GcSelect \/ GcNoVictim \/ GcFinish
  BY <1>19, <1>22 DEF GcCheck, GcSelect, GcNoVictim, GcFinish
<1>23. CASE UNCHANGED vars
  BY <1>19, <1>23 DEF vars
<1> QED BY <1>6, <1>7, <1>9, <1>10, <1>11, <1>12, <1>13, <1>14, <1>15, <1>17, <1>18, <1>19, <1>20, <1>21,
           <1>22, <1>23 DEF Next, Running, Halted, WriteStep, RetryWork, GcThread

\* Few steps change a map.
LEMMA NextMapping ==
    ASSUME TypeOK, TaskInv, FactsInv, PlaceInv, DataKnown, ZoneMgmtApproved, errors = 0, [Next]_vars
    PROVE  /\ \/ pbids' = pbids
              \/ \E t \in UTasks : WEndio(t) /\ pbids' = [pbids EXCEPT ![wt[t].blkid] = wt[t].pbid]
              \/ \E p \in Pbid : GCbMap(p)
           /\ \/ \A q \in Pbid : zrms'[q] = zrms[q] \/ zrms'[q] = INVALID
              \/ \E t \in UTasks : WNewRmap(t)
              \/ \E p \in Pbid : GCbRmap(p)
<1>1. zrms \in [Pbid -> Blks \cup {INVALID}] /\ \A t \in UTasks : ~wt[t].error
  BY DEF TypeOK, ZmdTypeOK, FactsInv, ErrorsSeen
<1>2. CASE Quiet
  BY <1>2 DEF Quiet
<1>3. ASSUME NEW t \in UTasks, WriteWorks(t) PROVE
              /\ pbids' = pbids \/ (WEndio(t) /\ pbids' = [pbids EXCEPT ![wt[t].blkid] = wt[t].pbid])
              /\ (\A q \in Pbid : zrms'[q] = zrms[q] \/ zrms'[q] = INVALID) \/ WNewRmap(t)
  <2>1. CASE WEndio(t)
    BY <1>1, <2>1, WEndioFx DEF zmdVars
  <2>2. CASE WOldRmap(t)
    BY <1>1, <2>2 DEF WOldRmap, lbz_zone_update_reverse_map
  <2>3. CASE WNewRmap(t)
    BY <2>3 DEF WNewRmap
  <2>4. ASSUME NEW s, WGotZone(t, s) PROVE UNCHANGED <<pbids, zrms>>
    BY <2>4, WGotZoneFx
  <2>5. CASE WAppend(t) \/ WAppendFails(t) \/ WOldWeight(t)
    BY <2>5 DEF WAppend, WAppendFails, WOldWeight, zmdVars
  <2> QED BY <1>3, <2>1, <2>2, <2>3, <2>4, <2>5 DEF WriteWorks, WriteTakes
<1>4. ASSUME NEW p \in Pbid, CopyWorks(p) PROVE
              /\ pbids' = pbids \/ GCbMap(p)
              /\ (\A q \in Pbid : zrms'[q] = zrms[q] \/ zrms'[q] = INVALID) \/ GCbRmap(p)
  <2>1. CASE GCbMap(p)
    BY <2>1 DEF GCbMap, zmdVars
  <2>2. CASE GCbOld(p)
    BY <1>1, <2>2 DEF GCbOld, lbz_zone_update_reverse_map
  <2>3. CASE GCbRmap(p)
    BY <2>3 DEF GCbRmap
  <2>4. ASSUME NEW s, GGotZone(p, s) PROVE UNCHANGED <<pbids, zrms>>
    BY <2>4, GGotZoneFx
  <2>5. CASE GAppend(p) \/ GAppendFails(p) \/ GEndio(p)
    BY <2>5 DEF GAppend, GAppendFails, GEndio, zmdVars
  <2> QED BY <1>4, <2>1, <2>2, <2>3, <2>4, <2>5 DEF CopyWorks, CopyTakes
<1>5. CASE ZsReset /\ pbids' = pbids
  <2>1. zrms' = zrms \/ zrms' = [p \in Pbid |-> IF p[1] = zs.i THEN INVALID ELSE zrms[p]]
    BY <1>5 DEF ZsReset
  <2> QED BY <1>1, <1>5, <2>1
<1> QED BY <1>2, <1>3, <1>4, <1>5, NextKinds

\* A zone with a write in flight is not under GC and will not be chosen.
LEMMA PendingUnmarked ==
    ASSUME TypeOK, FactsInv, PendingExact, QuietZones, NEW t \in UTasks, wt[t].zone \in Zone,
           wt[t].pc \in {"append", "endio", "oldrmap", "oldweight", "newrmap", "del"}
    PROVE  ~Marked(wt[t].zone) /\ ~FullZone(wt[t].zone)
<1>1. PICK z \in Zone : z = wt[t].zone
  OBVIOUS
<1>2. WritePending[t] = z
  BY <1>1 DEF WritePending, WtWriting
<1>3. zone[z].pending_write_io \in Nat /\ zone[z].pending_write_io > 0
  BY <1>2, PendFacts
<1> QED BY <1>1, <1>3 DEF QuietZones

\* A block on its way into a map goes to a zone that GC does not collect.
LEMMA MapsApart ==
    ASSUME TypeOK, TaskInv, FactsInv, PendingExact, QuietZones, CopiesMarked
    PROVE  /\ \A t \in UTasks : (wt[t].pc = "endio" /\ ~wt[t].error) \/ wt[t].pc \in MapPcs =>
                 wt[t].pbid \in Pbid /\ ~Marked(wt[t].pbid[1]) /\ ~FullZone(wt[t].pbid[1])
           /\ \A p \in Pbid : gt[p].pc \in {"cb_rmap", "cb_map"} =>
                 gt[p].pbid \in Pbid /\ ~Marked(gt[p].pbid[1])
<1>1. ASSUME NEW t \in UTasks, (wt[t].pc = "endio" /\ ~wt[t].error) \/ wt[t].pc \in MapPcs
      PROVE  wt[t].pbid \in Pbid /\ ~Marked(wt[t].pbid[1]) /\ ~FullZone(wt[t].pbid[1])
  <2>1. wt[t].pbid \in Pbid /\ wt[t].pbid[1] = wt[t].zone /\ wt[t].zone \in Zone
    BY <1>1 DEF FactsInv, WtZones, MapPcs
  <2> QED BY <1>1, <2>1, PendingUnmarked DEF MapPcs
<1>2. ASSUME NEW p \in Pbid, gt[p].pc \in {"cb_rmap", "cb_map"}
      PROVE  gt[p].pbid \in Pbid /\ ~Marked(gt[p].pbid[1])
  <2>1. gt[p].pbid \in Pbid /\ gt[p].pbid[1] = gt[p].zone /\ gt[p].zone \in Zone
    BY <1>2 DEF FactsInv, GtZones
  <2>2. gt[p].zone # NULL
    BY <2>1, DevAssumption
  <2> QED BY <2>1, <2>2 DEF CopiesMarked
<1> QED BY <1>1, <1>2

\* Every step leaves a finished write where the map says.
LEMMA NextDel ==
    ASSUME TypeOK, TaskInv, FactsInv, PlaceInv, DataKnown, TaskMapped, DelMapped, ZoneMgmtApproved,
           errors = 0, errors' = 0, [Next]_vars
    PROVE  DelMapped'
<1> SUFFICES ASSUME NEW t \in UTasks, wt'[t].pc = "del", ~wt'[t].error
             PROVE  /\ wt'[t].pbid \in Pbid /\ wt'[t].pbid[1] = wt'[t].zone
                    /\ pbids'[wt'[t].blkid] = wt'[t].pbid
  BY DEF DelMapped
<1>1. ~wt[t].error /\ wt \in [UTasks -> WtRec]
  BY DEF FactsInv, ErrorsSeen, TypeOK, IoTypeOK
<1>2. CASE WEndio(t)
  BY <1>1, <1>2, WEndioFx
<1>3. CASE WNewRmap(t)
  <2>1. /\ wt[t].pc = "newrmap" /\ KeepsFields(t) /\ pbids' = pbids
    BY <1>3, PcFx DEF WNewRmap
  <2> QED BY <2>1 DEF KeepsFields, TaskMapped, FactsInv, WtZones
<1>4. CASE SameTask(wt'[t], wt[t])
  <2>1. /\ wt[t].pc = "del" /\ wt'[t].blkid = wt[t].blkid /\ wt'[t].pbid = wt[t].pbid
        /\ wt'[t].zone = wt[t].zone
    BY <1>4 DEF SameTask
  <2>2. wt[t].pbid \in Pbid /\ wt[t].pbid[1] = wt[t].zone /\ pbids[wt[t].blkid] = wt[t].pbid
    BY <1>1, <2>1 DEF DelMapped
  <2>3. WtInTree(t) /\ wt[t].blkid \in Blks
    BY <2>1 DEF WtInTree, TaskInv, WtFacts
  <2>4. tree[wt[t].blkid] = t /\ t \notin Pbid
    BY <2>3, IoAssumption DEF TaskInv, TaskTreeExact
  <2>5. pbids'[wt[t].blkid] = pbids[wt[t].blkid]
    <3>1. ASSUME NEW u \in UTasks, WEndio(u), pbids' = [pbids EXCEPT ![wt[u].blkid] = wt[u].pbid]
          PROVE  pbids'[wt[t].blkid] = pbids[wt[t].blkid]
      <4>1. WtInTree(u) /\ u # t
        BY <2>1, <3>1 DEF WEndio, WtInTree
      <4>2. wt[u].blkid # wt[t].blkid
        BY <2>4, <4>1 DEF TaskInv, TaskTreeExact
      <4> QED BY <3>1, <4>2
    <3>2. ASSUME NEW p \in Pbid, GCbMap(p) PROVE pbids'[wt[t].blkid] = pbids[wt[t].blkid]
      <4>1. GtInTree(p) /\ pbids' = [pbids EXCEPT ![gt[p].blkid] = gt[p].pbid]
        BY <3>2 DEF GCbMap, GtInTree, lbz_mapping_add
      <4>2. gt[p].blkid # wt[t].blkid
        BY <2>4, <4>1 DEF TaskInv, TaskTreeExact
      <4> QED BY <4>1, <4>2
    <3> QED BY <3>1, <3>2, NextMapping
  <2> QED BY <2>1, <2>2, <2>5
<1> QED BY <1>2, <1>3, <1>4, NextUser

-----------------------------------------------------------------------------
(* What GC finds under the physical blocks of its zone.                    *)

\* Where no write is in flight, the reverse map knows what lives there.
LEMMA LivesThere ==
    ASSUME TypeOK, TaskInv, FactsInv, PendingExact, QuietZones, CopiesMarked, BlockInv,
           NEW x \in Blks, NEW p \in Pbid, pbids[x] = p, Marked(p[1]) \/ FullZone(p[1])
    PROVE  /\ zrms[p] = x
           /\ \A t \in UTasks : wt[t].blkid = x => wt[t].pc \notin MapPcs
<1>1. ASSUME NEW t \in UTasks, wt[t].blkid = x PROVE wt[t].pc \notin MapPcs
  <2>1. wt[t].pc \in MapPcs => wt[t].pbid = p
    BY <1>1 DEF BlockInv, TaskMapped, MapPcs
  <2> QED BY <2>1, MapsApart
<1>2. Mapped(x)
  BY DevAssumption DEF Mapped
<1>3. zrms[pbids[x]] = x
  BY <1>1, <1>2 DEF BlockInv, ForwardReverse, MapPcs
<1> QED BY <1>1, <1>3

\* In the zone under GC the claims only shrink.
LEMMA ClaimShrinks ==
    ASSUME TypeOK, TaskInv, FactsInv, PlaceInv, DataKnown, PendingExact, QuietZones, CopiesMarked,
           ZoneMgmtApproved, errors = 0, errors' = 0, [Next]_vars, NEW p \in Pbid, Marked(p[1])
    PROVE  Claim(p)' \subseteq Claim(p)
<1>1. zrms \in [Pbid -> Blks \cup {INVALID}]
  BY DEF TypeOK, ZmdTypeOK
<1>2. zrms'[p] = zrms[p] \/ zrms'[p] = INVALID
  <2>1. ASSUME NEW t \in UTasks, WNewRmap(t) PROVE zrms'[p] = zrms[p]
    <3>1. wt[t].pc = "newrmap" /\ zrms' = [zrms EXCEPT ![wt[t].pbid] = wt[t].blkid]
      BY <2>1 DEF WNewRmap, lbz_zone_update_reverse_map
    <3>2. wt[t].pbid # p
      BY <3>1, MapsApart DEF MapPcs
    <3> QED BY <1>1, <3>1, <3>2
  <2>2. ASSUME NEW q \in Pbid, GCbRmap(q) PROVE zrms'[p] = zrms[p]
    <3>1. gt[q].pc = "cb_rmap" /\ zrms' = [zrms EXCEPT ![gt[q].pbid] = gt[q].blkid]
      BY <2>2 DEF GCbRmap, lbz_zone_update_reverse_map
    <3>2. gt[q].pbid # p
      BY <3>1, MapsApart
    <3> QED BY <1>1, <3>1, <3>2
  <2> QED BY <2>1, <2>2, NextMapping
<1>3. gt'[p].blkid \in {gt[p].blkid, zrms[p], NULL}
  BY NextCopies DEF CopyStarts, CopyGoesOn, CopyEnds
<1> QED BY <1>2, <1>3 DEF Claim

\* When GC chooses a zone, each block is found there once.
LEMMA ChooseOnce ==
    ASSUME TypeOK, TaskInv, FactsInv, PendingExact, QuietZones, CopiesMarked, GcZoneOnly, BlockInv, errors = 0,
           NEW y \in Zone, Chooses(y), NEW p \in Pbid, NEW q \in Pbid, p[1] = y, q[1] = y, p # q
    PROVE  Claim(p)' \cap Claim(q)' = {}
<1>1. /\ gc.pc = "victim" /\ FullZone(y) /\ UNCHANGED <<zrms, gt>>
  BY DEF Chooses, ioVars
<1>2. ASSUME NEW r \in Pbid PROVE gt[r].pc = "none" /\ gt[r].blkid = NULL
  <2>1. PICK z \in Zone : z = r[1]
    BY DEF Pbid
  <2>2. gt[r].pc \in {"none", "fault"} /\ gt[r].pc # "fault"
    BY <1>1, <2>1, NoneMarked DEF CopiesMarked, FactsInv, ErrorsSeen
  <2> QED BY <2>2 DEF CopiesMarked
<1>3. ASSUME zrms[p] = zrms[q], zrms[p] # INVALID PROVE FALSE
  <2>1. PICK x : x = zrms[p]
    OBVIOUS
  <2>2. x \in Blks /\ x # INVALID
    BY <1>3, <2>1 DEF TypeOK, ZmdTypeOK
  <2>3. ASSUME NEW r \in Pbid, zrms[r] = x
        PROVE  pbids[x] = r \/ \E t \in UTasks : wt[t].pc = "oldrmap" /\ wt[t].blkid = x /\ wt[t].old = r
    BY <1>2, <2>2, <2>3 DEF BlockInv, ReverseForward
  <2>4. ASSUME NEW t \in UTasks, NEW u \in UTasks, wt[t].pc = "oldrmap", wt[u].pc = "oldrmap",
               wt[t].blkid = x, wt[u].blkid = x
        PROVE  t = u
    BY <2>4 DEF TaskInv, TaskTreeExact, WtInTree
  <2>5. ASSUME NEW r \in Pbid, r[1] = y, pbids[x] = r, NEW t \in UTasks, wt[t].pc = "oldrmap", wt[t].blkid = x
        PROVE  FALSE
    BY <1>1, <2>2, <2>5, LivesThere DEF MapPcs
  <2> QED BY <1>3, <2>1, <2>3, <2>4, <2>5
<1>4. Claim(p)' = {zrms[p]} \ {INVALID, NULL} /\ Claim(q)' = {zrms[q]} \ {INVALID, NULL}
  BY <1>1, <1>2 DEF Claim
<1> QED BY <1>3, <1>4

\* Every step leaves each block found once in the zone under GC.
LEMMA NextClaims ==
    ASSUME TypeOK, TaskInv, FactsInv, PlaceInv, PendingExact, QuietZones, CopiesMarked, GcZoneOnly, BlockInv,
           ClaimOnce, ZoneMgmtApproved, errors = 0, errors' = 0, [Next]_vars
    PROVE  ClaimOnce'
<1> SUFFICES ASSUME NEW p \in Pbid, NEW q \in Pbid, p[1] = q[1], Marked(p[1])', p # q
             PROVE  Claim(p)' \cap Claim(q)' = {}
  BY DEF ClaimOnce
<1>1. PICK y \in Zone : y = p[1]
  BY DEF Pbid
<1>2. CASE Marked(y)
  <2>1. Claim(p) \cap Claim(q) = {}
    BY <1>1, <1>2 DEF ClaimOnce
  <2>2. Claim(p)' \subseteq Claim(p) /\ Claim(q)' \subseteq Claim(q)
    BY <1>1, <1>2, ClaimShrinks DEF BlockInv
  <2> QED BY <2>1, <2>2
<1>3. CASE ~Marked(y)
  <2>1. Chooses(y)
    BY <1>1, <1>3, MarkTurns
  <2> QED BY <1>1, <2>1, ChooseOnce
<1> QED BY <1>2, <1>3

\* No two copies are of the same block.
LEMMA OneCopy ==
    ASSUME TypeOK, TaskInv, CopiesMarked, GcZoneOnly, ClaimOnce, NEW p \in Pbid, NEW q \in Pbid,
           Active(p), Active(q), gt[p].blkid = gt[q].blkid
    PROVE  p = q
<1>1. gt[p].blkid \in Blks /\ Marked(p[1]) /\ Marked(q[1])
  BY DEF TaskInv, GtFacts, Active, CopiesMarked
<1>2. PICK y \in Zone, z \in Zone : y = p[1] /\ z = q[1]
  BY DEF Pbid
<1>3. p[1] = q[1]
  BY <1>1, <1>2 DEF GcZoneOnly
<1>4. p # q => Claim(p) \cap Claim(q) = {}
  BY <1>1, <1>3 DEF ClaimOnce
<1> QED BY <1>1, <1>4, DevAssumption DEF Claim

\* A copy that is about to enter the tree finds no other copy of its block there.
LEMMA NoCopyMet ==
    ASSUME TypeOK, TaskInv, CopiesMarked, GcZoneOnly, ClaimOnce,
           NEW p \in Pbid, gt[p].pc = "queued", NEW q \in Pbid, GtInTree(q)
    PROVE  gt[q].blkid # gt[p].blkid
  BY OneCopy DEF Active, GtInTree

\* Every step: two GC tasks do not meet.
LEMMA NextDisjoint ==
    ASSUME TypeOK, TaskInv, CopiesMarked, GcZoneOnly, ClaimOnce, GcTasksDisjoint, [Next]_vars
    PROVE  GcTasksDisjoint'
<1>1. CASE WkGc
  <2>1. PICK p \in Pbid, own \in Owner :
           /\ gt[p].pc = "queued" /\ gt[p].blkid \in Blks /\ own = tree[gt[p].blkid]
           /\ own = NULL => oops' = oops
           /\ own # NULL => oops' = IF own \in Pbid THEN "gc_conflict" ELSE oops
    BY <1>1, MeetLinks
  <2>2. own \notin Pbid
    <3>1. own \in Pbid => GtInTree(own) /\ gt[own].blkid = gt[p].blkid
      BY <2>1 DEF TaskInv, TaskTreeExact
    <3> QED BY <2>1, <3>1, NoCopyMet
  <2> QED BY <2>1, <2>2 DEF GcTasksDisjoint
<1>2. CASE UNCHANGED vars
  BY <1>2 DEF vars, devVars, GcTasksDisjoint
<1>3. CASE ZoneStateWork
  BY <1>3 DEF ZoneStateWork, ZsStart, ZsScanRefcount, ZsGcZone, ZsResetFails, ZsRelease, ZsScanToFull, ZsClose,
         ZsReset, devVars, GcTasksDisjoint
<1>4. ASSUME NEW z \in Zone, PutZoneEnd(z) PROVE oops' = oops
  BY <1>4 DEF PutZoneEnd, devVars
<1>5. ASSUME NEW t \in UTasks, SubmitWrite(t) \/ WriteStep(t) PROVE oops' = oops
  BY <1>5 DEF SubmitWrite, lbz_submit_write, WriteStep, WConflict, WAlloc, WAlloc2, WGotZone, WAppend,
         WAppendFails, WEndio, WOldRmap, WOldWeight, WNewRmap, WDel, WComplete, WPut, devVars, lowVars
<1>6. ASSUME NEW r \in Readers, SubmitRead(r) \/ lbz_read_io_endio(r) PROVE oops' = oops
  BY <1>6 DEF SubmitRead, lbz_submit_read, lbz_read_io_endio, devVars
<1>7. ASSUME NEW p \in Pbid, GcCopy(p) PROVE oops' = oops \/ oops' \in {"gc_eio", "gc_eagain", "gc_oldpbid"}
  BY <1>7 DEF GcCopy, GRead, GReadFails, GFault, GAgency, GLookup, GAlloc, GAlloc2, GGotZone, GAppend,
         GAppendFails, GEndio, GCbRmap, GCbMap, GCbOld, GCbPut, devVars, lowVars
<1>8. CASE WkStart \/ WkUser \/ WkSpliceGc \/ WkEnd
  BY <1>8 DEF WkStart, WkUser, WkSpliceGc, WkEnd, lowVars, devVars, GcTasksDisjoint
<1>9. CASE GcThread
  BY <1>9 DEF GcThread, GcCheck, GcSelect, GcNoVictim, GcIter, GcFinish, devVars, GcTasksDisjoint
<1> QED BY <1>1, <1>2, <1>3, <1>4, <1>5, <1>6, <1>7, <1>8, <1>9 DEF Next, Running, Halted, RetryWork, GcTasksDisjoint

-----------------------------------------------------------------------------
(* Blocks of the zone under GC move away from it.                          *)

\* Who has met task u is counted.
LEMMA TaskRefFacts ==
    ASSUME TypeOK, TaskRefExact, NEW u \in UTasks
    PROVE  /\ wt[u].refcount \in Nat
           /\ WtInTree(u) => wt[u].refcount >= 2
           /\ \A p \in Pbid : gt[p].tk = u => wt[u].refcount >= 1 /\ (WtInTree(u) => wt[u].refcount >= 3)
           /\ \A t \in UTasks : wt[t].tk = u => wt[u].refcount >= 1
<1>1. PICK a, b : a = WriteWaits(u) /\ b = GcWaits(u)
  OBVIOUS
<1>2. a \in Nat /\ b \in Nat
  BY <1>1, WaitTurns
<1>3. wt[u].refcount = OwnRefs(u) + a + b
  BY <1>1 DEF TaskRefExact, WriteWaits, GcWaits
<1>4. (WtInTree(u) => OwnRefs(u) = 2) /\ OwnRefs(u) \in Nat
  BY DEF OwnRefs
<1>5. ASSUME NEW p \in Pbid, gt[p].tk = u PROVE b # 0
  <2>1. DOMAIN CopyWaits = Pbid /\ CopyWaits[p] = u
    BY <1>5 DEF CopyWaits
  <2>2. Count(CopyWaits, u) # 0
    BY <2>1, CountZero, PbidFinite
  <2> QED BY <1>1, <2>2 DEF GcWaits
<1>6. ASSUME NEW t \in UTasks, wt[t].tk = u PROVE a # 0
  <2>1. DOMAIN UserWaits = UTasks /\ UserWaits[t] = u
    BY <1>6 DEF UserWaits
  <2>2. Count(UserWaits, u) # 0
    BY <2>1, CountZero, IoAssumption
  <2> QED BY <1>1, <2>2 DEF WriteWaits
<1> QED BY <1>2, <1>3, <1>4, <1>5, <1>6

\* A task that has not replaced the mapping is in the tree and is not freed.
LEMMA NotYetFacts ==
    ASSUME TypeOK, TaskRefExact, NEW u, NEW x, NotYet(u, x)
    PROVE  /\ u \in UTasks /\ WtInTree(u) /\ wt[u].pc \notin {"none", "del"} /\ ~LastPut(u, 1)
           /\ \A p \in Pbid : gt[p].tk = u => wt[u].refcount >= 3
<1>1. u \in UTasks /\ WtInTree(u) /\ wt[u].pc \notin {"none", "del"}
  BY DEF NotYet, WtInTree
<1> QED BY <1>1, TaskRefFacts DEF LastPut

\* It stays so until the block lives in a zone that GC does not collect.
LEMMA NotYetStep ==
    ASSUME TypeOK, TaskInv, FactsInv, PendingExact, QuietZones, CopiesMarked,
           errors = 0, errors' = 0, [Next]_vars,
           NEW u, NEW x \in Blks, NotYet(u, x), NEW p \in Pbid, Marked(p[1]), pbids'[x] = p
    PROVE  NotYet(u, x)'
<1>1. u \in UTasks /\ ~wt[u].error /\ pbids \in [Blks -> Pbid \cup {INVALID}] /\ wt[u].blkid = x
  BY DEF NotYet, FactsInv, ErrorsSeen, TypeOK, MappingTypeOK
<1>2. CASE WEndio(u)
  <2>1. wt[u].pc = "endio" /\ pbids' = [pbids EXCEPT ![wt[u].blkid] = wt[u].pbid]
    BY <1>1, <1>2, WEndioFx
  <2>2. ~Marked(wt[u].pbid[1])
    BY <1>1, <2>1, MapsApart
  <2> QED BY <1>1, <2>1, <2>2
<1>3. CASE WNewRmap(u)
  BY <1>3 DEF WNewRmap, NotYet
<1>4. CASE SameTask(wt'[u], wt[u])
  BY <1>4 DEF SameTask, NotYet
<1> QED BY <1>1, <1>2, <1>3, <1>4, NextUser

\* What task u was handed stays with it until it finishes.
LEMMA PendingStays ==
    ASSUME TypeOK, TaskInv, FactsInv, PlaceInv, WaitFacts, TaskRefExact, Attached, errors = 0, errors' = 0,
           [Next]_vars, NEW u, NEW x, NotYet(u, x), NEW p \in Pbid, wt[u].pending_gc_node = p
    PROVE  wt'[u].pending_gc_node = p
<1>1. u \in UTasks /\ WtInTree(u) /\ wt[u].pc \notin {"none", "del"} /\ ~LastPut(u, 1)
  BY NotYetFacts
<1>2. CASE LinksStill
  BY <1>1, <1>2 DEF LinksStill, UserStill, LinkSame
<1>3. ASSUME NEW t \in UTasks, SubmitWrite(t) \/ Resubmits(t) PROVE wt'[u].pending_gc_node = p
  <2>1. PICK task \in WtRec : InsertUser(t, task) /\ ~WtInTree(t) /\ task.blkid \in Blks
    BY <1>3, EnterTask
  <2>2. PICK own : own = tree[task.blkid]
    OBVIOUS
  <2> QED BY <1>1, <2>1, <2>2, InsertLinks
<1>4. ASSUME NEW t \in UTasks, WConflict(t) PROVE wt'[u].pending_gc_node = p
  <2>1. PICK o : o = wt[t].tk
    OBVIOUS
  <2>2. /\ o \in UTasks => PutLinks(o, 1)
        /\ \A v \in UTasks : v # o => wt'[v].pending_gc_node = wt[v].pending_gc_node
    BY <1>4, <2>1, ConflictLinks
  <2> QED BY <1>1, <2>2 DEF PutLinks
<1>5. ASSUME NEW t \in UTasks, WDel(t) \/ (wt[t].pc = "alloc2" /\ WAllocEio(t)) PROVE wt'[u].pending_gc_node = p
  <2>1. t # u
    BY <1>1, <1>5 DEF WDel, WAllocEio, FactsInv, ErrorsSeen
  <2> QED BY <1>1, <1>5, <2>1, DropLinks
<1>6. ASSUME NEW q \in Pbid, GAgency(q) PROVE wt'[u].pending_gc_node = p
  <2>1. PICK o : o = gt[q].tk
    OBVIOUS
  <2>2. gt[q].pc = "conflict" /\ o \in UTasks /\ \A v \in UTasks : v # o => wt'[v] = wt[v]
    BY <1>6, <2>1, AgencyLinks
  <2>3. CASE o = u
    <3>1. At(p, u) /\ At(q, u)
      BY <2>1, <2>3 DEF At
    <3>2. p = q
      BY <1>1, <3>1 DEF Attached
    <3>3. p # NULL /\ gt[p].pc = "agency"
      BY <1>1, DevAssumption DEF TaskInv, PendingAgency
    <3> QED BY <2>2, <3>2, <3>3
  <2> QED BY <1>1, <2>2, <2>3
<1>7. CASE WkGc
  BY <1>1, <1>7, MeetLinks
<1> QED BY <1>2, <1>3, <1>4, <1>5, <1>6, <1>7, NextLinks

\* A block that moves away goes on doing so until it has left.
LEMMA MovesOn ==
    ASSUME TypeOK, TaskInv, FactsInv, PlaceInv, PendingExact, QuietZones, CopiesMarked, GcZoneOnly, BlockInv,
           DelMapped, ClaimOnce, WaitFacts, TaskRefExact, Attached, errors = 0, errors' = 0, [Next]_vars,
           NEW x \in Blks, NEW p \in Pbid, Marked(p[1]), MovesAway(p, x), pbids[x] = p, pbids'[x] = p
    PROVE  MovesAway(p, x)'
<1>1. gt[p].blkid = x /\ gt[p].pc \notin {"none", "cb_old", "cb_put"}
  BY DEF MovesAway, GtCopying
<1>2. CASE gt'[p] = gt[p]
  <2>1. CASE gt[p].pc = "conflict" /\ NotYet(gt[p].tk, x)
    <3>1. PICK u \in UTasks : u = gt[p].tk
      BY <2>1 DEF NotYet
    <3>2. NotYet(u, x)'
      BY <2>1, <3>1, NotYetStep
    <3>3. u = gt'[p].tk /\ gt'[p].pc = "conflict" /\ gt'[p].blkid = x
      BY <1>1, <1>2, <2>1, <3>1
    <3> QED BY <3>2, <3>3 DEF MovesAway, NotYet
  <2>2. CASE gt[p].pc = "agency" /\ \E u \in UTasks : wt[u].pending_gc_node = p /\ NotYet(u, x)
    <3>1. PICK u \in UTasks : wt[u].pending_gc_node = p /\ NotYet(u, x)
      BY <2>2
    <3>2. NotYet(u, x)' /\ wt'[u].pending_gc_node = p
      BY <3>1, NotYetStep, PendingStays
    <3> QED BY <1>1, <1>2, <2>2, <3>2 DEF MovesAway
  <2> QED BY <1>1, <1>2, <2>1, <2>2 DEF MovesAway, GtCopying
<1>3. CASE CopyStarts(p)
  BY <1>1, <1>3 DEF CopyStarts
<1>4. CASE CopyGoesOn(p)
  <2>1. CASE gt'[p].pc \in MovePcs
    BY <1>1, <1>4, <2>1 DEF CopyGoesOn, MovePcs, MovesAway, GtCopying
  <2>2. CASE GCbMap(p)
    <3>1. gt[p].pc = "cb_map" /\ pbids' = [pbids EXCEPT ![gt[p].blkid] = gt[p].pbid]
      BY <2>2 DEF GCbMap, lbz_mapping_add
    <3>2. pbids'[x] = gt[p].pbid
      BY <1>1, <3>1 DEF TypeOK, MappingTypeOK
    <3> QED BY <3>1, <3>2, MapsApart
  <2>3. CASE GAgency(p) /\ gt'[p].pc = "agency"
    <3>1. PICK u : u = gt[p].tk
      OBVIOUS
    <3>2. /\ gt[p].pc = "conflict" /\ u \in UTasks /\ SameTask(wt'[u], wt[u])
          /\ wt'[u].pending_gc_node = IF LastPut(u, 1) THEN NULL ELSE p
      BY <2>3, <3>1, AgencyLinks
    <3>3. NotYet(u, x)
      BY <3>1, <3>2 DEF MovesAway, GtCopying
    <3>4. NotYet(u, x)' /\ ~LastPut(u, 1)
      BY <3>3, NotYetStep, NotYetFacts
    <3> QED BY <1>1, <1>4, <2>3, <3>2, <3>4 DEF CopyGoesOn, MovesAway
  <2>4. CASE WkGc /\ gt[p].pc = "queued" /\ gt'[p].pc = "conflict"
    <3>1. PICK q \in Pbid, own \in Owner :
             /\ own = tree[gt[q].blkid] /\ \A r \in Pbid : r # q => gt'[r] = gt[r]
             /\ own = NULL => gt'[q].pc = "lookup"
             /\ own # NULL => gt'[q].tk = own
             /\ \A u \in UTasks : SameTask(wt'[u], wt[u])
      BY <2>4, MeetLinks
    <3>2. q = p
      BY <2>4, <3>1
    <3>3. own # NULL /\ gt'[p].tk = own /\ own = tree[x]
      BY <1>1, <2>4, <3>1, <3>2
    <3>4. own \notin Pbid
      <4>1. own \in Pbid => GtInTree(own) /\ gt[own].blkid = x
        BY <3>3 DEF TaskInv, TaskTreeExact
      <4> QED BY <1>1, <2>4, <4>1, NoCopyMet
    <3>5. own \in UTasks /\ WtInTree(own) /\ wt[own].blkid = x
      BY <3>3, <3>4 DEF TaskInv, TaskTreeExact, Owner
    <3>6. wt[own].pc \notin MapPcs
      BY <3>5, LivesThere
    <3>7. wt[own].pc # "del"
      <4>1. ASSUME wt[own].pc = "del" PROVE FALSE
        <5>1. wt[own].pbid = p /\ p[1] = wt[own].zone /\ wt[own].zone \in Zone
          BY <3>5, <4>1 DEF DelMapped, FactsInv, ErrorsSeen, WtZones
        <5> QED BY <3>5, <4>1, <5>1, PendingUnmarked
      <4> QED BY <4>1
    <3>8. NotYet(own, x)
      BY <3>5, <3>6, <3>7 DEF NotYet, WtInTree, MapPcs
    <3>9. NotYet(own, x)'
      BY <3>8, NotYetStep
    <3> QED BY <1>1, <1>4, <2>4, <3>3, <3>9 DEF CopyGoesOn, MovesAway, NotYet
  <2> QED BY <1>1, <1>4, <2>1, <2>2, <2>3, <2>4 DEF CopyGoesOn
<1>5. CASE CopyEnds(p)
  <2>1. CASE GAgency(p)
    <3>1. PICK u : u = gt[p].tk
      OBVIOUS
    <3>2. /\ gt[p].pc = "conflict" /\ u \in UTasks
          /\ ~LastPut(u, 1) => gt'[p].pc = "agency"
      BY <2>1, <3>1, AgencyLinks
    <3>3. NotYet(u, x)
      BY <3>1, <3>2 DEF MovesAway, GtCopying
    <3> QED BY <1>5, <3>2, <3>3, NotYetFacts DEF CopyEnds
  <2>2. CASE gt[p].pc = "agency" /\ PutEnds(p)
    <3>1. PICK u \in UTasks : wt[u].pending_gc_node = p /\ NotYet(u, x)
      BY <2>2 DEF MovesAway, GtCopying
    <3>2. PICK v \in UTasks : wt[v].pending_gc_node = p /\ (WDel(v) \/ LastPut(v, 1))
      BY <2>2 DEF PutEnds
    <3>3. u = v
      BY <3>1, <3>2, DevAssumption DEF TaskInv, PendingAgency
    <3> QED BY <3>1, <3>2, <3>3, NotYetFacts DEF WDel
  <2> QED BY <1>1, <1>5, <2>1, <2>2 DEF CopyEnds
<1> QED BY <1>2, <1>3, <1>4, <1>5, NextCopies

\* The thread that works on a zone goes on, or finishes it.
LEMMA NextIter ==
    ASSUME [Next]_vars, gc.pc = "iter"
    PROVE  gc' = gc \/ GcIter \/ GcFinish
  BY DEF Next, Running, Halted, GcThread, GcCheck, GcSelect, GcNoVictim, vars

\* A block the thread has not come to yet will be found, or moves away.
LEMMA IterOn ==
    ASSUME TypeOK, TaskInv, FactsInv, PlaceInv, PendingExact, QuietZones, CopiesMarked, GcZoneOnly, BlockInv,
           [Next]_vars, errors = 0, NEW x \in Blks, NEW p \in Pbid, Marked(p[1]), pbids[x] = p,
           gc.pc = "iter", gc.iter <= p[2]
    PROVE  (gc'.pc = "iter" /\ gc'.iter <= p[2]) \/ MovesAway(p, x)'
<1>1. PICK z \in Zone : z = p[1]
  BY DEF Pbid
<1>2. gc.gc_zone = z /\ zone[z].wp_block = ZoneNrBlocks
  BY <1>1 DEF GcZoneOnly, QuietZones
<1>3. p = <<z, p[2]>> /\ p[2] \in Int /\ p[2] < ZoneNrBlocks /\ gc.iter \in Nat /\ gc \in GcRec
  BY <1>1, DevAssumption DEF Pbid, Offset, TypeOK, GcTypeOK, GcRec
<1>4. CASE GcFinish
  BY <1>2, <1>3, <1>4, DevAssumption DEF GcFinish
<1>5. CASE GcIter
  <2>1. gc'.pc = "iter" /\ gc'.iter = gc.iter + 1
    BY <1>3, <1>5 DEF GcIter, GcRec
  <2>2. CASE gc.iter = p[2]
    <3>1. p = <<gc.gc_zone, gc.iter>>
      BY <1>2, <1>3, <2>2
    <3>2. zrms[p] = x /\ x # INVALID
      BY LivesThere, DevAssumption
    <3>3. gt' = [gt EXCEPT ![p] = [NoGcTask EXCEPT !.pc = "reading", !.blkid = zrms[p]]]
      BY <1>5, <3>1, <3>2 DEF GcIter
    <3>4. gt'[p].pc = "reading" /\ gt'[p].blkid = x
      BY <3>2, <3>3 DEF NoGcTask, TypeOK, IoTypeOK
    <3> QED BY <3>4 DEF MovesAway
  <2>3. CASE gc.iter # p[2]
    BY <1>3, <2>1, <2>3
  <2> QED BY <2>2, <2>3
<1> QED BY <1>4, <1>5, NextIter

\* Every step: what lives in the zone under GC is still to be visited or moves away.
LEMMA NextGcMapped ==
    ASSUME TypeOK, TaskInv, FactsInv, PlaceInv, PendingExact, QuietZones, CopiesMarked, GcZoneOnly, BlockInv,
           DelMapped, ClaimOnce, WaitFacts, TaskRefExact, Attached, GcMapped, ZoneMgmtApproved,
           errors = 0, errors' = 0, [Next]_vars
    PROVE  GcMapped'
<1> SUFFICES ASSUME NEW x \in Blks, NEW p, p = pbids'[x], p # INVALID, Marked(p[1])'
             PROVE  (gc'.pc = "iter" /\ gc'.iter <= p[2]) \/ MovesAway(p, x)'
  BY DEF GcMapped, Mapped, Marked, MovesAway, GtCopying
<1>1. pbids \in [Blks -> Pbid \cup {INVALID}]
  BY DEF TypeOK, MappingTypeOK
<1>4. pbids'[x] = pbids[x]
  <2>1. ASSUME NEW t \in UTasks, WEndio(t), pbids' = [pbids EXCEPT ![wt[t].blkid] = wt[t].pbid], wt[t].blkid = x
        PROVE  FALSE
    <3>1. wt[t].pc = "endio" /\ ~wt[t].error /\ zone' = zone
      BY <2>1, WEndioFx DEF FactsInv, ErrorsSeen, zmdVars
    <3>2. ~Marked(wt[t].pbid[1])
      BY <3>1, MapsApart
    <3>3. p = wt[t].pbid
      BY <1>1, <2>1
    <3> QED BY <3>1, <3>2, <3>3 DEF Marked
  <2>2. ASSUME NEW q \in Pbid, GCbMap(q), gt[q].blkid = x PROVE FALSE
    <3>1. gt[q].pc = "cb_map" /\ zone' = zone /\ pbids' = [pbids EXCEPT ![gt[q].blkid] = gt[q].pbid]
      BY <2>2 DEF GCbMap, lbz_mapping_add, zmdVars
    <3>2. ~Marked(gt[q].pbid[1])
      BY <3>1, MapsApart
    <3>3. p = gt[q].pbid
      BY <1>1, <2>2, <3>1
    <3> QED BY <3>1, <3>2, <3>3 DEF Marked
  <2>3. ASSUME NEW q \in Pbid, GCbMap(q), gt[q].blkid # x PROVE pbids'[x] = pbids[x]
    BY <1>1, <2>3 DEF GCbMap, lbz_mapping_add
  <2> QED BY <1>1, <2>1, <2>2, <2>3, NextMapping DEF BlockInv
<1>5. p \in Pbid /\ pbids[x] = p /\ Mapped(x)
  BY <1>1, <1>4 DEF Mapped
<1>6. PICK y \in Zone : y = p[1]
  BY <1>5 DEF Pbid
<1>7. (gc'.pc = "iter" /\ gc'.iter <= p[2]) \/ MovesAway(p, x)'
  <2>1. CASE ~Marked(y)
    <3>1. Chooses(y)
      BY <1>6, <2>1, MarkTurns
    <3>2. p[2] \in Nat
      BY <1>5, DevAssumption DEF Pbid, Offset
    <3> QED BY <3>1, <3>2 DEF Chooses
  <2>2. CASE Marked(y)
    <3>1. (gc.pc = "iter" /\ gc.iter <= p[2]) \/ MovesAway(p, x)
      BY <1>5, <1>6, <2>2 DEF GcMapped
    <3>2. CASE gc.pc = "iter" /\ gc.iter <= p[2]
      BY <1>5, <1>6, <2>2, <3>2, IterOn
    <3>3. CASE MovesAway(p, x)
      BY <1>5, <1>6, <2>2, <3>3, MovesOn
    <3> QED BY <3>1, <3>2, <3>3
  <2> QED BY <2>1, <2>2
<1> QED BY <1>7

-----------------------------------------------------------------------------
(* A copy waits for the one write it met.                                  *)

\* A task_put leaves every other copy where it waits.
LEMMA PutAttached ==
    ASSUME TypeOK, TaskInv, WaitFacts, Attached, NEW o \in UTasks, NEW n \in {1, 2},
           wt[o].refcount \in Int, PutLinks(o, n), RunsCallback(Pending(o, n)),
           \A u \in UTasks : u # o => /\ wt'[u].refcount = wt[u].refcount
                                      /\ wt'[u].pending_gc_node = wt[u].pending_gc_node,
           \A u \in UTasks : wt'[u].pc # "none" => wt[u].pc # "none" /\ wt'[u].blkid = wt[u].blkid
    PROVE  Attached'
<1>1. NULL \notin Pbid /\ NULL \notin UTasks
  BY DevAssumption, IoAssumption
<1>2. ASSUME NEW p \in Pbid, gt'[p] # gt[p]
      PROVE  /\ wt[o].pending_gc_node = p /\ LastPut(o, n) /\ gt[p].pc = "agency" /\ gt[p].tk = NULL
             /\ gt'[p].pc = "none" /\ gt'[p].tk = NULL
  <2>1. p \in Pending(o, n) /\ gt'[p] = NoGcTask
    BY <1>2 DEF RunsCallback, CallbackTask
  <2>2. wt[o].pending_gc_node = p /\ LastPut(o, n)
    BY <2>1 DEF Pending
  <2>3. gt[p].pc = "agency"
    BY <1>1, <2>2 DEF TaskInv, PendingAgency
  <2> QED BY <2>1, <2>2, <2>3 DEF WaitFacts, NoGcTask
<1>3. ASSUME NEW p \in Pbid, NEW u \in UTasks, gt'[p].tk = u \/ wt'[u].pending_gc_node = p
      PROVE  At(p, u) /\ gt'[p] = gt[p]
  <2>1. At(p, u)
    BY <1>1, <1>2, <1>3 DEF At, PutLinks
  <2>2. gt'[p] = gt[p]
    <3>1. ASSUME gt'[p] # gt[p] PROVE FALSE
      <4>1. wt'[u].pending_gc_node = p
        BY <1>1, <1>2, <1>3, <3>1
      <4>2. u = o
        BY <1>1, <1>2, <3>1, <4>1 DEF TaskInv, PendingAgency
      <4> QED BY <1>1, <1>2, <3>1, <4>1, <4>2 DEF PutLinks
    <3> QED BY <3>1
  <2> QED BY <2>1, <2>2
<1>4. ASSUME NEW u \in UTasks, wt'[u].pending_gc_node # NULL PROVE wt'[u].refcount # 0
  <2>1. CASE u = o
    BY <1>4, <2>1 DEF PutLinks, LastPut
  <2>2. CASE u # o
    BY <1>4, <2>2 DEF Attached
  <2> QED BY <2>1, <2>2
<1>5. ASSUME NEW p \in Pbid, gt'[p].pc = "agency" PROVE \E u \in UTasks : wt'[u].pending_gc_node = p
  <2>1. gt'[p] = gt[p]
    BY <1>2, <1>5
  <2>2. PICK u \in UTasks : wt[u].pending_gc_node = p
    BY <1>5, <2>1 DEF Attached
  <2>3. wt'[u].pending_gc_node = p
    <3>1. CASE u = o /\ LastPut(o, n)
      <4>1. p \in Pending(o, n)
        BY <1>1, <2>2, <3>1 DEF Pending
      <4> QED BY <1>5, <4>1 DEF RunsCallback, CallbackTask, NoGcTask
    <3> QED BY <2>2, <3>1 DEF PutLinks
  <2> QED BY <2>3
<1>6. ASSUME NEW p \in Pbid, NEW u \in UTasks, gt'[p].tk = u \/ wt'[u].pending_gc_node = p
      PROVE  /\ gt'[p].pc \in {"conflict", "agency"}
             /\ wt'[u].pc # "none" => wt'[u].blkid = gt'[p].blkid
             /\ \A q \in Pbid : gt'[q].tk = u \/ wt'[u].pending_gc_node = q => p = q
  BY <1>3, <1>6 DEF Attached
<1> QED BY <1>4, <1>5, <1>6 DEF Attached, At

\* A write that enters the tree, or meets somebody there, leaves the copies waiting.
LEMMA EnterAttached ==
    ASSUME TypeOK, TaskInv, WaitFacts, TaskRefExact, Attached, NEW t \in UTasks, SubmitWrite(t) \/ Resubmits(t)
    PROVE  Attached'
<1>1. PICK task \in WtRec :
         /\ InsertUser(t, task) /\ ~WtInTree(t) /\ task.blkid \in Blks /\ gt' = gt
         /\ wt[t].pc \in {"none", "queued"}
         /\ \/ wt[t].pc = "none" /\ wt[t].refcount = 0 /\ task.refcount = 1 /\ task.pending_gc_node = NULL
            \/ wt[t].pc = "queued" /\ wt[t].status = "INIT" /\ task = wt[t]
  BY EnterTask
<1>2. PICK own : own = tree[task.blkid]
  OBVIOUS
<1>3. /\ wt'[t].blkid = task.blkid /\ wt'[t].pending_gc_node = task.pending_gc_node
      /\ wt'[t].refcount = task.refcount + 1 \/ wt'[t].refcount = task.refcount
      /\ \A u \in UTasks : u # t =>
            /\ SameTask(wt'[u], wt[u]) /\ wt'[u].pending_gc_node = wt[u].pending_gc_node
            /\ wt'[u].refcount = wt[u].refcount + (IF u = own THEN 1 ELSE 0)
  BY <1>1, <1>2, InsertLinks
<1>4. NULL \notin Pbid /\ \A u \in UTasks : wt[u].refcount \in Nat
  BY DevAssumption, TaskRefFacts
<1>5. ASSUME NEW p \in Pbid, NEW u \in UTasks, gt'[p].tk = u \/ wt'[u].pending_gc_node = p
      PROVE  At(p, u) /\ (wt'[u].pc # "none" => wt[u].pc # "none" /\ wt'[u].blkid = wt[u].blkid)
  <2>1. CASE u # t
    BY <1>1, <1>3, <1>5, <2>1 DEF At, SameTask
  <2>2. CASE u = t
    <3>1. gt[p].tk = t => wt[t].refcount >= 1
      BY TaskRefFacts
    <3>2. wt[t].pc = "queued" /\ task = wt[t]
      BY <1>1, <1>3, <1>4, <1>5, <2>2, <3>1
    <3> QED BY <1>1, <1>3, <1>5, <2>2, <3>2 DEF At
  <2> QED BY <2>1, <2>2
<1>6. ASSUME NEW u \in UTasks, wt'[u].pending_gc_node # NULL PROVE wt'[u].refcount # 0
  <2>1. CASE u # t
    BY <1>3, <1>4, <1>6, <2>1 DEF Attached
  <2>2. CASE u = t
    BY <1>1, <1>3, <1>4, <1>6, <2>2 DEF Attached
  <2> QED BY <2>1, <2>2
<1>7. ASSUME NEW p \in Pbid, gt'[p].pc = "agency" PROVE \E u \in UTasks : wt'[u].pending_gc_node = p
  <2>1. PICK u \in UTasks : wt[u].pending_gc_node = p
    BY <1>1, <1>7 DEF Attached
  <2>2. wt[u].refcount # 0
    BY <1>4, <2>1 DEF Attached
  <2>3. wt'[u].pending_gc_node = p
    BY <1>1, <1>3, <2>1, <2>2
  <2> QED BY <2>3
<1>8. ASSUME NEW p \in Pbid, NEW u \in UTasks, gt'[p].tk = u \/ wt'[u].pending_gc_node = p
      PROVE  /\ gt'[p].pc \in {"conflict", "agency"}
             /\ wt'[u].pc # "none" => wt'[u].blkid = gt'[p].blkid
             /\ \A q \in Pbid : gt'[q].tk = u \/ wt'[u].pending_gc_node = q => p = q
  BY <1>1, <1>5, <1>8 DEF Attached
<1> QED BY <1>6, <1>7, <1>8 DEF Attached, At

\* A copy that is handed over waits for the write it met.
LEMMA AgencyAttached ==
    ASSUME TypeOK, TaskInv, WaitFacts, TaskRefExact, Attached, NEW p \in Pbid, GAgency(p)
    PROVE  Attached'
<1>1. PICK o : o = gt[p].tk
  OBVIOUS
<1>2. /\ gt[p].pc = "conflict" /\ o \in UTasks
      /\ \A u \in UTasks : SameTask(wt'[u], wt[u])
      /\ \A u \in UTasks : u # o => wt'[u] = wt[u]
      /\ wt'[o].refcount = wt[o].refcount - 1
      /\ wt'[o].pending_gc_node = IF LastPut(o, 1) THEN NULL ELSE p
      /\ \A q \in Pbid : q # p => gt'[q] = gt[q]
      /\ LastPut(o, 1) => gt'[p] = NoGcTask
      /\ ~LastPut(o, 1) => gt'[p].pc = "agency" /\ gt'[p].tk = NULL /\ gt'[p].blkid = gt[p].blkid
  BY <1>1, AgencyLinks
<1>3. NULL \notin Pbid /\ NULL \notin UTasks /\ wt[o].refcount \in Nat
  BY <1>2, DevAssumption, IoAssumption, TaskRefFacts
<1>4. gt'[p].tk = NULL /\ (gt'[p].pc = "agency" <=> ~LastPut(o, 1))
  BY <1>2 DEF NoGcTask
<1>5. At(p, o) /\ \A q \in Pbid : At(q, o) => q = p
  BY <1>1, <1>2 DEF At, Attached
<1>6. \A u \in UTasks : wt[u].pending_gc_node # p
  BY <1>2, <1>3 DEF TaskInv, PendingAgency
<1>7. ASSUME NEW q \in Pbid, NEW u \in UTasks, gt'[q].tk = u \/ wt'[u].pending_gc_node = q
      PROVE  (q = p /\ u = o /\ ~LastPut(o, 1)) \/ (q # p /\ u # o /\ At(q, u))
  <2>1. CASE q = p
    BY <1>2, <1>3, <1>4, <1>6, <1>7, <2>1
  <2>2. CASE q # p
    BY <1>2, <1>3, <1>5, <1>7, <2>2 DEF At
  <2> QED BY <2>1, <2>2
<1>8. ASSUME NEW q \in Pbid, NEW u \in UTasks, gt'[q].tk = u \/ wt'[u].pending_gc_node = q
      PROVE  /\ gt'[q].pc \in {"conflict", "agency"}
             /\ wt'[u].pc # "none" => wt'[u].blkid = gt'[q].blkid
             /\ \A r \in Pbid : gt'[r].tk = u \/ wt'[u].pending_gc_node = r => q = r
  <2>1. CASE q = p
    <3>1. u = o /\ ~LastPut(o, 1)
      BY <1>7, <1>8, <2>1
    <3>2. wt[o].pc # "none" => wt[o].blkid = gt[p].blkid
      BY <1>2, <1>5 DEF Attached
    <3>3. wt'[o].pc = wt[o].pc /\ wt'[o].blkid = wt[o].blkid
      BY <1>2 DEF SameTask
    <3>4. \A r \in Pbid : gt'[r].tk = u \/ wt'[u].pending_gc_node = r => r = p
      BY <1>7, <3>1
    <3> QED BY <1>2, <2>1, <3>1, <3>2, <3>3, <3>4
  <2>2. CASE q # p
    <3>1. u # o /\ At(q, u) /\ gt'[q] = gt[q] /\ wt'[u] = wt[u]
      BY <1>2, <1>7, <1>8, <2>2
    <3>2. \A r \in Pbid : gt'[r].tk = u \/ wt'[u].pending_gc_node = r => At(r, u)
      BY <1>7, <3>1
    <3> QED BY <3>1, <3>2 DEF Attached
  <2> QED BY <2>1, <2>2
<1>9. ASSUME NEW u \in UTasks, wt'[u].pending_gc_node # NULL PROVE wt'[u].refcount # 0
  <2>1. CASE u = o
    BY <1>2, <1>3, <1>9, <2>1 DEF LastPut
  <2>2. CASE u # o
    BY <1>2, <1>9, <2>2 DEF Attached
  <2> QED BY <2>1, <2>2
<1>10. ASSUME NEW q \in Pbid, gt'[q].pc = "agency" PROVE \E u \in UTasks : wt'[u].pending_gc_node = q
  <2>1. CASE q = p
    BY <1>2, <1>4, <1>10, <2>1
  <2>2. CASE q # p
    <3>1. PICK u \in UTasks : wt[u].pending_gc_node = q
      BY <1>2, <1>10, <2>2 DEF Attached
    <3>2. u # o
      BY <1>5, <2>2, <3>1 DEF At
    <3> QED BY <1>2, <3>1, <3>2
  <2> QED BY <2>1, <2>2
<1> QED BY <1>8, <1>9, <1>10 DEF Attached, At

\* A copy that enters the tree meets nobody, or a write no other copy has met.
LEMMA MeetAttached ==
    ASSUME TypeOK, TaskInv, WaitFacts, TaskRefExact, CopiesMarked, GcZoneOnly, ClaimOnce, Attached, WkGc
    PROVE  Attached'
<1>1. PICK p \in Pbid, own \in Owner :
         /\ gt[p].pc = "queued" /\ gt[p].blkid \in Blks /\ own = tree[gt[p].blkid]
         /\ gt'[p].blkid = gt[p].blkid
         /\ \A q \in Pbid : q # p => gt'[q] = gt[q]
         /\ \A u \in UTasks :
               /\ SameTask(wt'[u], wt[u])
               /\ wt'[u].pending_gc_node = wt[u].pending_gc_node
               /\ wt'[u].refcount = wt[u].refcount + (IF u = own THEN 1 ELSE 0)
         /\ own = NULL => gt'[p].pc = "lookup" /\ gt'[p].tk = gt[p].tk
         /\ own # NULL => gt'[p].pc = "conflict" /\ gt'[p].tk = own
  BY MeetLinks
<1>2. NULL \notin Pbid /\ NULL \notin UTasks /\ \A u \in UTasks : wt[u].refcount \in Nat
  BY DevAssumption, IoAssumption, TaskRefFacts
<1>3. gt[p].tk = NULL /\ \A u \in UTasks : wt[u].pending_gc_node # p
  BY <1>1, <1>2 DEF WaitFacts, TaskInv, PendingAgency
<1>4. own \notin Pbid
  <2>1. own \in Pbid => GtInTree(own) /\ gt[own].blkid = gt[p].blkid
    BY <1>1 DEF TaskInv, TaskTreeExact
  <2> QED BY <1>1, <2>1, NoCopyMet
<1>5. own \in UTasks => WtInTree(own) /\ wt[own].blkid = gt[p].blkid /\ wt[own].pc # "none"
  BY <1>1 DEF TaskInv, TaskTreeExact, WtInTree
<1>6. ASSUME own \in UTasks, NEW q \in Pbid, At(q, own) PROVE q = p
  <2>1. gt[q].pc \in {"conflict", "agency"} /\ gt[q].blkid = gt[p].blkid
    BY <1>5, <1>6 DEF Attached
  <2> QED BY <1>1, <2>1, OneCopy DEF Active
<1>7. ASSUME NEW q \in Pbid, NEW u \in UTasks, gt'[q].tk = u \/ wt'[u].pending_gc_node = q
      PROVE  (q = p /\ u = own) \/ (q # p /\ u # own /\ At(q, u))
  <2>1. CASE q = p
    BY <1>1, <1>2, <1>3, <1>7, <2>1
  <2>2. CASE q # p
    BY <1>1, <1>6, <1>7, <2>2 DEF At
  <2> QED BY <2>1, <2>2
<1>8. ASSUME NEW q \in Pbid, NEW u \in UTasks, gt'[q].tk = u \/ wt'[u].pending_gc_node = q
      PROVE  /\ gt'[q].pc \in {"conflict", "agency"}
             /\ wt'[u].pc # "none" => wt'[u].blkid = gt'[q].blkid
             /\ \A r \in Pbid : gt'[r].tk = u \/ wt'[u].pending_gc_node = r => q = r
  <2>1. CASE q = p
    <3>1. u = own /\ gt'[p].pc = "conflict" /\ wt'[own].blkid = gt[p].blkid
      BY <1>1, <1>2, <1>5, <1>7, <1>8, <2>1 DEF SameTask
    <3>2. \A r \in Pbid : gt'[r].tk = u \/ wt'[u].pending_gc_node = r => r = p
      BY <1>7, <3>1
    <3> QED BY <1>1, <2>1, <3>1, <3>2
  <2>2. CASE q # p
    <3>1. u # own /\ At(q, u) /\ gt'[q] = gt[q] /\ wt'[u].pc = wt[u].pc /\ wt'[u].blkid = wt[u].blkid
      BY <1>1, <1>7, <1>8, <2>2 DEF SameTask
    <3>2. \A r \in Pbid : gt'[r].tk = u \/ wt'[u].pending_gc_node = r => At(r, u)
      BY <1>7, <3>1
    <3> QED BY <3>1, <3>2 DEF Attached
  <2> QED BY <2>1, <2>2
<1>9. ASSUME NEW u \in UTasks, wt'[u].pending_gc_node # NULL PROVE wt'[u].refcount # 0
  BY <1>1, <1>2, <1>9 DEF Attached
<1>10. ASSUME NEW q \in Pbid, gt'[q].pc = "agency" PROVE \E u \in UTasks : wt'[u].pending_gc_node = q
  BY <1>1, <1>10 DEF Attached
<1> QED BY <1>8, <1>9, <1>10 DEF Attached, At

\* Every step leaves each waiting copy with one write.
LEMMA NextAttached ==
    ASSUME TypeOK, TaskInv, FactsInv, PlaceInv, WaitFacts, TaskRefExact, CopiesMarked, GcZoneOnly, ClaimOnce,
           Attached, errors = 0, [Next]_vars
    PROVE  Attached'
<1>1. CASE LinksStill
  <2>1. ASSUME NEW p \in Pbid, NEW u \in UTasks, gt'[p].tk = u \/ wt'[u].pending_gc_node = p
        PROVE  /\ gt'[p].pc \in {"conflict", "agency"}
               /\ wt'[u].pc # "none" => wt'[u].blkid = gt'[p].blkid
               /\ \A q \in Pbid : gt'[q].tk = u \/ wt'[u].pending_gc_node = q => p = q
    <3>1. \A q \in Pbid : gt'[q].tk = u \/ wt'[u].pending_gc_node = q => At(q, u)
      BY <1>1 DEF LinksStill, UserStill, LinkSame, CopiesStill, CopyLinkSame, At
    <3>2. At(p, u) /\ gt[p].pc \in {"conflict", "agency"}
      BY <2>1, <3>1 DEF Attached
    <3>3. gt'[p] = gt[p]
      BY <1>1, <3>2 DEF LinksStill, CopiesStill, CopyLinkSame, Met
    <3>4. wt'[u].pc # "none" => wt[u].pc # "none" /\ wt'[u].blkid = wt[u].blkid
      BY <1>1 DEF LinksStill, UserStill
    <3> QED BY <3>1, <3>2, <3>3, <3>4 DEF Attached
  <2>2. ASSUME NEW u \in UTasks, wt'[u].pending_gc_node # NULL PROVE wt'[u].refcount # 0
    BY <1>1, <2>2 DEF LinksStill, UserStill, LinkSame, Attached
  <2>3. ASSUME NEW q \in Pbid, gt'[q].pc = "agency" PROVE \E u \in UTasks : wt'[u].pending_gc_node = q
    <3>1. gt'[q] = gt[q]
      BY <1>1, <2>3 DEF LinksStill, CopiesStill, CopyLinkSame, Met
    <3>2. PICK u \in UTasks : wt[u].pending_gc_node = q
      BY <2>3, <3>1 DEF Attached
    <3> QED BY <1>1, <3>2 DEF LinksStill, UserStill, LinkSame
  <2> QED BY <2>1, <2>2, <2>3 DEF Attached, At
<1>2. ASSUME NEW t \in UTasks, WConflict(t) PROVE Attached'
  <2>1. PICK o : o = wt[t].tk
    OBVIOUS
  <2>2. /\ wt[t].pc = "conflict" /\ \A u \in UTasks : wt'[u].blkid = wt[u].blkid
        /\ \A u \in UTasks : u # t => SameTask(wt'[u], wt[u])
        /\ o \in UTasks => PutLinks(o, 1) /\ RunsCallback(Pending(o, 1))
        /\ o \notin UTasks => gt' = gt
        /\ \A u \in UTasks : u # o => /\ wt'[u].refcount = wt[u].refcount
                                      /\ wt'[u].pending_gc_node = wt[u].pending_gc_node
    BY <1>2, <2>1, ConflictLinks
  <2>3. \A u \in UTasks : wt'[u].pc # "none" => wt[u].pc # "none" /\ wt'[u].blkid = wt[u].blkid
    BY <2>2 DEF SameTask
  <2>4. CASE o \in UTasks
    BY <2>2, <2>3, <2>4, PutAttached, TaskRefFacts
  <2>5. CASE o \notin UTasks
    BY <2>2, <2>3, <2>5 DEF Attached, At
  <2> QED BY <2>4, <2>5
<1>3. ASSUME NEW t \in UTasks, WDel(t) PROVE Attached'
  <2>1. /\ WtInTree(t) /\ PutLinks(t, 2) /\ RunsCallback(Pending(t, 2)) /\ \A u \in UTasks : u # t => wt'[u] = wt[u]
        /\ wt'[t].pc = "none" \/ wt'[t].blkid = wt[t].blkid
    BY <1>3, DropLinks
  <2>2. \A u \in UTasks : wt'[u].pc # "none" => wt[u].pc # "none" /\ wt'[u].blkid = wt[u].blkid
    BY <2>1 DEF WtInTree
  <2> QED BY <2>1, <2>2, PutAttached, TaskRefFacts
<1>4. ASSUME NEW t \in UTasks, WAllocEio(t) PROVE FALSE
  BY <1>4 DEF WAllocEio, FactsInv, ErrorsSeen
<1> QED BY <1>1, <1>2, <1>3, <1>4, EnterAttached, AgencyAttached, MeetAttached, NextLinks

-----------------------------------------------------------------------------
(* The theorems.                                                           *)

\* What holds of every behaviour, and of every approved one, as GcInv needs it.
Surroundings ==
    /\ TypeOK /\ TaskInv /\ FactsInv /\ PlaceInv /\ RefcountExact /\ BlockInv
    /\ PendingExact /\ QuietZones /\ TaskRefExact /\ WaitFacts

\* One step keeps GcInv while nothing disturbs it.
LEMMA NextGcInv ==
    ASSUME Surroundings, GcInv, Undisturbed, Undisturbed', [Next]_vars
    PROVE  GcInv'
<1>1. /\ TypeOK /\ TaskInv /\ FactsInv /\ PlaceInv /\ RefcountExact /\ BlockInv /\ DataKnown /\ TaskMapped
      /\ PendingExact /\ QuietZones /\ TaskRefExact /\ WaitFacts
  BY DEF Surroundings, BlockInv
<1>2. ~SplitPut /\ errors = 0 /\ errors' = 0 /\ ZoneMgmtApproved
  BY DEF Undisturbed
<1>3. /\ ZonesSettled /\ GcZoneOnly /\ CopiesMarked /\ DelMapped /\ GcMapped /\ ClaimOnce /\ Attached
      /\ GcTasksDisjoint
  BY DEF GcInv
<1>4. ZonesSettled' /\ GcZoneOnly'
  BY <1>1, <1>2, <1>3, NextSettled, NextGcZone
<1>5. CopiesMarked' /\ DelMapped'
  BY <1>1, <1>2, <1>3, NextCopiesMarked, NextDel
<1>6. GcMapped' /\ ClaimOnce'
  BY <1>1, <1>2, <1>3, NextGcMapped, NextClaims
<1>7. Attached' /\ GcTasksDisjoint'
  BY <1>1, <1>2, <1>3, NextAttached, NextDisjoint
<1> QED BY <1>4, <1>5, <1>6, <1>7 DEF GcInv

\* Nothing is collected at the start.
LEMMA InitGcInv == Init => GcInv
<1> SUFFICES ASSUME Init PROVE GcInv
  OBVIOUS
<1>1. /\ \A t \in UTasks : wt[t] = NoTask
      /\ \A p \in Pbid : gt[p] = NoGcTask
      /\ \A x \in Blks : ~Mapped(x)
      /\ gc.pc = "idle" /\ oops = "none"
  BY DEF Init, IoInit, MappingInit, Mapped, GcInit
<1>2. ASSUME NEW z \in Zone PROVE ~Marked(z) /\ zone[z].in_put = FALSE
  <2>1. zone[z] = InitZone(z)
    BY DEF Init, ZmdInit
  <2> QED BY <2>1 DEF InitZone, Marked
<1>3. ZonesSettled /\ GcZoneOnly
  BY <1>1, <1>2 DEF ZonesSettled, Settled, GcZoneOnly, Marked
<1>4. CopiesMarked /\ DelMapped /\ GcMapped /\ GcTasksDisjoint
  BY <1>1 DEF CopiesMarked, DelMapped, GcMapped, GcTasksDisjoint, NoTask, NoGcTask
<1>5. ClaimOnce
  <2>1. \A p \in Pbid : p[1] \in Zone
    BY DEF Pbid
  <2> QED BY <1>2, <2>1 DEF ClaimOnce
<1>6. Attached
  BY <1>1, DevAssumption, IoAssumption DEF Attached, At, NoTask, NoGcTask
<1> QED BY <1>3, <1>4, <1>5, <1>6 DEF GcInv

\* GcInv holds while no command fails, lbz_put_zone is atomic and the zone worker
\* acts on approved states.
THEOREM GcInductive == Spec /\ []Undisturbed => [](Surroundings /\ GcInv)
<1>1. IInv => TypeOK /\ TaskInv
  BY DEF IInv
<1>2. ZoneInv => FactsInv /\ PlaceInv /\ RefcountExact
  BY DEF ZoneInv
<1>3. Undisturbed => ZoneMgmtApproved
  BY DEF Undisturbed
<1>4. Spec /\ []Undisturbed => []Surroundings
  <2>1. (TypeOK /\ TaskInv /\ FactsInv /\ PlaceInv /\ RefcountExact /\ BlockInv
            /\ PendingExact /\ QuietZones /\ TaskRefExact /\ WaitFacts) => Surroundings
    BY DEF Surroundings
  <2> QED BY <1>1, <1>2, <1>3, <2>1, Inductive, ZoneInductive, MapInductive, PendingWritesExact, ZonesQuiet,
             TaskRefsExact, PTL
<1> QED BY <1>4, InitGcInv, NextGcInv, PTL DEF Spec

\* Two GC tasks never meet on one logical block: no block is valid at two places of
\* the zone __gc_one_zone walks through, and one zone is collected at a time.
THEOREM CopiesNeverMeet == Spec /\ []Undisturbed => []GcTasksDisjoint
<1>1. GcInv => GcTasksDisjoint
  BY DEF GcInv
<1> QED BY <1>1, GcInductive, PTL

\* zone_state_wk_fn resets a zone only when nobody refers to it and no logical block
\* is mapped to it: GC moves every block away, or a user write it met does.
THEOREM ResetsDead == Spec /\ []Undisturbed => []ResetOnlyDead
<1>1. ASSUME Surroundings, GcInv, Undisturbed PROVE ResetOnlyDead
  <2> SUFFICES ASSUME zs.pc = "reset"
               PROVE  zone[zs.i].refcount = 0 /\ \A x \in Blks : Mapped(x) => pbids[x][1] # zs.i
    BY DEF ResetOnlyDead
  <2>1. zs.i \in Zone /\ pbids \in [Blks -> Pbid \cup {INVALID}] /\ TypeOK /\ RefcountExact
    BY <1>1 DEF Surroundings, TypeOK, ZmdTypeOK, ZsRec, MappingTypeOK
  <2>2. Marked(zs.i) /\ zone[zs.i].state = "EMPTY"
    BY <1>1 DEF Surroundings, PlaceInv, WorkerZone, Undisturbed, ZoneMgmtApproved, Marked
  <2>3. zone[zs.i].refcount = 0 /\ \A x \in Blks : pbids[x] \in Pbid => pbids[x][1] # zs.i
    BY <1>1, <2>1, <2>2, ReadyDead DEF GcInv
  <2> QED BY <2>1, <2>3 DEF Mapped
<1> QED BY <1>1, GcInductive, PTL

\* A GC task handed to a user write is finished by exactly that write: no task is
\* handed over twice, and no pointer to a GC task is overwritten or outlives it.
THEOREM AgencyHandedOnce == Spec /\ []Undisturbed => []AgencyOwned
<1>1. ASSUME Surroundings, GcInv PROVE AgencyOwned
  <2> SUFFICES ASSUME NEW p \in Pbid
               PROVE  Cardinality({t \in UTasks : wt[t].pending_gc_node = p}) = IF gt[p].pc = "agency" THEN 1 ELSE 0
    BY DEF AgencyOwned
  <2>1. PendingAgency /\ Attached /\ p # NULL
    BY <1>1, DevAssumption DEF Surroundings, TaskInv, GcInv
  <2>2. CASE gt[p].pc = "agency"
    <3>1. PICK u \in UTasks : wt[u].pending_gc_node = p
      BY <2>1, <2>2 DEF Attached
    <3>2. {t \in UTasks : wt[t].pending_gc_node = p} = {u}
      BY <2>1, <3>1 DEF PendingAgency
    <3> QED BY <2>2, <3>2, FS_Singleton
  <2>3. CASE gt[p].pc # "agency"
    <3>1. {t \in UTasks : wt[t].pending_gc_node = p} = {}
      BY <2>1, <2>3 DEF PendingAgency
    <3> QED BY <2>3, <3>1, FS_EmptySet
  <2> QED BY <2>2, <2>3
<1> QED BY <1>1, GcInductive, PTL

-----------------------------------------------------------------------------
(* The data: what copies carry and what reads will return.                 *)

\* What a step may do to a physical block: write a blank one outside the zone under
\* GC, or blank one of a zone that is ready for reset.
LEMMA NextBlock ==
    ASSUME TypeOK, TaskInv, FactsInv, PlaceInv, DataKnown, PendingExact, QuietZones, CopiesMarked,
           ZoneMgmtApproved, [Next]_vars, NEW p \in Pbid
    PROVE  \/ media'[p] = media[p]
           \/ media[p] = NULL /\ ~Marked(p[1])
           \/ Marked(p[1]) /\ zone[p[1]].state = "EMPTY"
<1>1. media \in [Pbid -> Values \cup {NULL}]
  BY DEF TypeOK, DevTypeOK
<1>2. CASE media' = media
  BY <1>2
<1>3. ASSUME NEW q \in Pbid, NEW v, ZoneAppend(q, v), ~Marked(q[1])
      PROVE  media'[p] = media[p] \/ (media[p] = NULL /\ ~Marked(p[1]))
  BY <1>1, <1>3 DEF ZoneAppend, WritePointer
<1>4. ASSUME NEW t \in UTasks, WriteWorks(t)
      PROVE  media' = media \/ \E q \in Pbid : ZoneAppend(q, wt[t].data) /\ ~Marked(q[1])
  <2>1. CASE WAppend(t) \/ WAppendFails(t)
    <3>1. CASE media' = media
      BY <3>1
    <3>2. CASE wt'[t].pbid \in Pbid /\ wt'[t].pbid[1] = wt[t].zone /\ ZoneAppend(wt'[t].pbid, wt[t].data)
      <4>1. wt[t].pc = "append" /\ wt[t].zone \in Zone
        BY <2>1 DEF WAppend, WAppendFails, FactsInv, WtZones
      <4>2. ~Marked(wt[t].zone)
        BY <4>1, PendingUnmarked
      <4> QED BY <3>2, <4>2
    <3> QED BY <2>1, <3>1, <3>2, WAppendFx
  <2>2. CASE WEndio(t) \/ WOldRmap(t) \/ WOldWeight(t) \/ WNewRmap(t)
    BY <2>2 DEF WEndio, WOldRmap, WOldWeight, WNewRmap, devVars
  <2>3. ASSUME NEW s, WGotZone(t, s) PROVE media' = media
    BY <2>3, WGotZoneFx
  <2> QED BY <1>4, <2>1, <2>2, <2>3 DEF WriteWorks, WriteTakes
<1>5. ASSUME NEW c \in Pbid, CopyWorks(c)
      PROVE  media' = media \/ \E q \in Pbid : ZoneAppend(q, gt[c].data) /\ ~Marked(q[1])
  <2>1. CASE GAppend(c) \/ GAppendFails(c)
    <3>1. CASE media' = media
      BY <3>1
    <3>2. CASE gt'[c].pbid \in Pbid /\ gt'[c].pbid[1] = gt[c].zone /\ ZoneAppend(gt'[c].pbid, gt[c].data)
      <4>1. gt[c].zone \in Zone
        BY <2>1 DEF GAppend, GAppendFails, FactsInv, GtZones
      <4>2. ~Marked(gt[c].zone)
        BY <4>1, DevAssumption DEF CopiesMarked
      <4> QED BY <3>2, <4>2
    <3> QED BY <2>1, <3>1, <3>2, GAppendFx
  <2>2. CASE GEndio(c) \/ GCbRmap(c) \/ GCbMap(c) \/ GCbOld(c)
    BY <2>2 DEF GEndio, GCbRmap, GCbMap, GCbOld, devVars
  <2>3. ASSUME NEW s, GGotZone(c, s) PROVE media' = media
    BY <2>3, GGotZoneFx
  <2> QED BY <1>5, <2>1, <2>2, <2>3 DEF CopyWorks, CopyTakes
<1>6. CASE ZsReset
  <2>1. PICK y : y = zs.i
    OBVIOUS
  <2>2. Marked(y) /\ zone[y].state = "EMPTY"
    BY <1>6, <2>1 DEF ZsReset, PlaceInv, WorkerZone, ZoneMgmtApproved, Marked
  <2>3. p[1] # y => media'[p] = media[p]
    BY <1>6, <2>1 DEF ZsReset, ZoneReset, get_zone_by_pbid
  <2> QED BY <2>2, <2>3
<1>7. Quiet => media' = media
  BY DEF Quiet
<1> QED BY <1>2, <1>3, <1>4, <1>5, <1>6, <1>7, NextKinds

\* Nothing happens to a block GC copies, nor to a written one that is mapped, read or
\* outside the zone under GC.
LEMMA BlockStays ==
    ASSUME Surroundings, GcInv, Undisturbed, [Next]_vars, NEW p \in Pbid,
           \/ Active(p)
           \/ media[p] # NULL /\ \/ ~Marked(p[1])
                                 \/ \E r \in Readers : rd[r].pc # "none" /\ rd[r].pbid = p
                                 \/ \E x \in Blks : pbids[x] = p
    PROVE  media'[p] = media[p]
<1>1. /\ TypeOK /\ TaskInv /\ FactsInv /\ PlaceInv /\ RefcountExact /\ DataKnown /\ PendingExact /\ QuietZones
      /\ ZonesSettled /\ GcZoneOnly /\ CopiesMarked /\ GcMapped /\ ZoneMgmtApproved /\ errors = 0
  BY DEF Surroundings, BlockInv, GcInv, Undisturbed
<1>2. PICK y \in Zone : y = p[1]
  BY DEF Pbid
<1>3. gt[p].pc # "fault"
  BY <1>1 DEF FactsInv, ErrorsSeen
<1>4. Active(p) => Marked(y)
  BY <1>1, <1>2 DEF CopiesMarked, Active
<1>5. CASE Marked(y) /\ zone[y].state = "EMPTY"
  BY <1>1, <1>2, <1>3, <1>5, ReadyDead DEF Active
<1> QED BY <1>1, <1>2, <1>4, <1>5, NextBlock

\* A completed append, as the next step leaves it.
LEMMA NextWritten ==
    ASSUME TypeOK, TaskInv, FactsInv, PlaceInv, DataKnown, errors' = 0, [Next]_vars
    PROVE  /\ \A u \in UTasks : wt'[u].pc = "endio" =>
                 SameTask(wt'[u], wt[u]) \/ media'[wt'[u].pbid] = wt'[u].data
           /\ \A p \in Pbid : gt'[p].pc \in {"endio", "cb_rmap", "cb_map"} =>
                 \/ /\ gt[p].pc \in {"endio", "cb_rmap", "cb_map"} /\ gt'[p].pbid = gt[p].pbid
                    /\ gt'[p].data = gt[p].data /\ gt'[p].error = gt[p].error
                 \/ media'[gt'[p].pbid] = gt'[p].data
<1>1. /\ media \in [Pbid -> Values \cup {NULL}] /\ errors \in Int /\ gt \in [Pbid -> GtRec]
  BY DevAssumption DEF TypeOK, DevTypeOK, IoTypeOK
<1>2. errors = 0
  BY <1>1, ErrorsGrow DEF TypeOK, DevTypeOK
<1>3. ASSUME NEW q \in Pbid, NEW v, ZoneAppend(q, v) PROVE media'[q] = v
  BY <1>1, <1>3 DEF ZoneAppend
<1>4. AllUsersKept => \A u \in UTasks : SameTask(wt'[u], wt[u])
  BY DEF AllUsersKept
<1>5. wt' = wt => \A u \in UTasks : SameTask(wt'[u], wt[u])
  BY DEF SameTask
<1>6. gt' = gt => \A p \in Pbid : gt'[p] = gt[p]
  OBVIOUS
<1>7. CASE Quiet
  <2>1. ASSUME NEW u \in UTasks, wt'[u].pc = "endio" PROVE SameTask(wt'[u], wt[u])
    BY <1>4, <1>7, <2>1 DEF Quiet, WritesQuiet, WriteQuiet, WritePcs, OthersKept
  <2>2. ASSUME NEW p \in Pbid, gt'[p].pc \in {"endio", "cb_rmap", "cb_map"} PROVE gt'[p] = gt[p]
    BY <1>7, <2>2 DEF Quiet, CopiesQuiet, CopyQuiet, CopyPcs, GcFrame
  <2> QED BY <2>1, <2>2
<1>8. ASSUME NEW t \in UTasks, WriteWorks(t) PROVE
          /\ gt' = gt
          /\ \A u \in UTasks : wt'[u].pc = "endio" => SameTask(wt'[u], wt[u]) \/ media'[wt'[u].pbid] = wt'[u].data
  <2>1. gt' = gt /\ OthersKept(t)
    BY <1>8, WriteData
  <2>2. ASSUME wt'[t].pc = "endio" PROVE media'[wt'[t].pbid] = wt'[t].data
    <3>1. CASE WAppend(t) \/ WAppendFails(t)
      <4>1. wt'[t].pbid \in Pbid /\ ZoneAppend(wt'[t].pbid, wt[t].data) /\ wt'[t].data = wt[t].data
        BY <1>2, <3>1, WAppendFx
      <4> QED BY <1>3, <4>1
    <3>2. ASSUME NEW s, WGotZone(t, s) PROVE FALSE
      BY <2>2, <3>2, WGotZoneFx
    <3>3. CASE WEndio(t)
      BY <2>2, <3>3, WEndioFx
    <3>4. CASE WOldRmap(t) \/ WOldWeight(t) \/ WNewRmap(t)
      <4>1. PICK c \in {"oldweight", "newrmap", "del"} : wt' = [wt EXCEPT ![t].pc = c]
        BY <3>4 DEF WOldRmap, WOldWeight, WNewRmap
      <4> QED BY <2>2, <4>1, PcFx
    <3> QED BY <1>8, <3>1, <3>2, <3>3, <3>4 DEF WriteWorks, WriteTakes
  <2> QED BY <2>1, <2>2 DEF OthersKept
<1>9. ASSUME NEW c \in Pbid, CopyWorks(c) PROVE
          /\ wt' = wt
          /\ \A p \in Pbid : gt'[p].pc \in {"endio", "cb_rmap", "cb_map"} =>
                 \/ /\ gt[p].pc \in {"endio", "cb_rmap", "cb_map"} /\ gt'[p].pbid = gt[p].pbid
                    /\ gt'[p].data = gt[p].data /\ gt'[p].error = gt[p].error
                 \/ media'[gt'[p].pbid] = gt'[p].data
  <2>1. wt' = wt /\ GcFrame(c)
    BY <1>9, CopyData
  <2>2. ASSUME gt'[c].pc \in {"endio", "cb_rmap", "cb_map"}
        PROVE  (gt[c].pc \in {"endio", "cb_rmap", "cb_map"} /\ GcKeeps(c)) \/ media'[gt'[c].pbid] = gt'[c].data
    <3>1. CASE GAppend(c) \/ GAppendFails(c)
      <4>1. gt'[c].pbid \in Pbid /\ ZoneAppend(gt'[c].pbid, gt[c].data) /\ gt'[c].data = gt[c].data
        BY <1>2, <3>1, GAppendFx
      <4> QED BY <1>3, <4>1
    <3>2. ASSUME NEW s, GGotZone(c, s) PROVE FALSE
      BY <2>2, <3>2, GGotZoneFx
    <3>3. CASE GEndio(c) \/ GCbRmap(c) \/ GCbMap(c)
      <4>1. gt[c].pc \in {"endio", "cb_rmap", "cb_map"} /\ \E i : gt' = [gt EXCEPT ![c].pc = i]
        BY <3>3 DEF GEndio, GCbRmap, GCbMap
      <4> QED BY <4>1, GcPcFx
    <3>4. CASE GCbOld(c)
      <4>1. gt' = [gt EXCEPT ![c].pc = "cb_put"]
        BY <3>4 DEF GCbOld
      <4> QED BY <2>2, <4>1, GcPcFx
    <3> QED BY <1>9, <3>1, <3>2, <3>3, <3>4 DEF CopyWorks, CopyTakes
  <2> QED BY <2>1, <2>2 DEF GcFrame, GcKeeps
<1>10. CASE ZsReset /\ UNCHANGED <<pbids, wt, gt>>
  BY <1>5, <1>6, <1>10
<1> QED BY <1>5, <1>6, <1>7, <1>8, <1>9, <1>10, NextKinds

\* Reads come and go with their own steps.
LEMMA NextRead ==
    ASSUME TypeOK, [Next]_vars, NEW r \in Readers
    PROVE  rd'[r] = rd[r] \/ SubmitRead(r) \/ lbz_read_io_endio(r)
<1>1. CASE rd' = rd
  BY <1>1
<1>2. UNCHANGED ioVars => rd' = rd
  BY DEF ioVars
<1>3. ASSUME NEW q \in Readers, SubmitRead(q) \/ lbz_read_io_endio(q), q # r PROVE rd'[r] = rd[r]
  BY <1>3 DEF SubmitRead, lbz_submit_read, lbz_read_io_endio, TypeOK, IoTypeOK
<1>4. ASSUME NEW t \in UTasks, SubmitWrite(t) \/ WriteStep(t) PROVE rd' = rd
  BY <1>4 DEF SubmitWrite, lbz_submit_write, WriteStep, WConflict, WAlloc, WAlloc2, WGotZone, WAppend,
         WAppendFails, WEndio, WOldRmap, WOldWeight, WNewRmap, WDel, WComplete, WPut
<1>5. ASSUME NEW p \in Pbid, GcCopy(p) PROVE rd' = rd
  BY <1>2, <1>5 DEF GcCopy, GRead, GReadFails, GFault, GAgency, GLookup, GAlloc, GAlloc2, GGotZone, GAppend,
         GAppendFails, GEndio, GCbRmap, GCbMap, GCbOld, GCbPut
<1>6. CASE RetryWork
  BY <1>1, <1>6 DEF RetryWork, WkStart, WkUser, WkSpliceGc, WkGc, WkEnd
<1>7. CASE GcThread
  BY <1>1, <1>2, <1>7 DEF GcThread, GcCheck, GcSelect, GcNoVictim, GcIter, GcFinish
<1>8. CASE UNCHANGED vars
  BY <1>1, <1>2, <1>8 DEF vars
<1> QED BY <1>1, <1>2, <1>3, <1>4, <1>5, <1>6, <1>7, <1>8 DEF Next, Running, Halted

\* One step keeps MediaInv while nothing disturbs GC.
LEMMA NextMedia ==
    ASSUME Surroundings, GcInv, MediaInv, Undisturbed, Undisturbed', [Next]_vars
    PROVE  MediaInv'
<1>1. /\ TypeOK /\ TaskInv /\ FactsInv /\ PlaceInv /\ DataKnown /\ PendingExact /\ QuietZones /\ CopiesMarked
      /\ HolderWritten /\ errors = 0 /\ errors' = 0
  BY DEF Surroundings, BlockInv, GcInv, Undisturbed
<1> SUFFICES ASSUME oops' = "none"
             PROVE  /\ \A t \in UTasks : wt'[t].pc = "endio" /\ ~wt'[t].error => media'[wt'[t].pbid] = wt'[t].data
                    /\ \A p \in Pbid :
                          /\ gt'[p].pc \notin {"none", "reading", "fault"} /\ media'[p] # NULL =>
                                gt'[p].data = media'[p]
                          /\ (gt'[p].pc = "endio" /\ ~gt'[p].error) \/ gt'[p].pc \in {"cb_rmap", "cb_map"} =>
                                media'[gt'[p].pbid] = gt'[p].data
                    /\ \A r \in Readers : rd'[r].pc # "none" => media'[rd'[r].pbid] # NULL
  BY DEF MediaInv
<1>2. oops = "none"
  BY <1>1, NextKinds
<1>3. \A p \in Pbid : ~gt[p].error /\ gt[p].pc # "fault"
  BY <1>1 DEF FactsInv, ErrorsSeen
<1>4. NULL \notin Values
  BY DevAssumption
<1>5. ASSUME NEW t \in UTasks, wt'[t].pc = "endio", ~wt'[t].error PROVE media'[wt'[t].pbid] = wt'[t].data
  <2>1. CASE SameTask(wt'[t], wt[t])
    <3>1. wt[t].pc = "endio" /\ ~wt[t].error /\ wt'[t].pbid = wt[t].pbid /\ wt'[t].data = wt[t].data
      BY <1>5, <2>1 DEF SameTask
    <3>2. media[wt[t].pbid] = wt[t].data /\ wt[t].data \in Values
      BY <1>1, <1>2, <3>1 DEF MediaInv, DataKnown
    <3>3. wt[t].pbid \in Pbid /\ ~Marked(wt[t].pbid[1])
      BY <1>1, <3>1, MapsApart
    <3>4. media'[wt[t].pbid] = media[wt[t].pbid]
      BY <1>4, <3>2, <3>3, BlockStays
    <3> QED BY <3>1, <3>2, <3>4
  <2> QED BY <1>1, <1>5, <2>1, NextWritten
<1>6. ASSUME NEW p \in Pbid, gt'[p].pc \notin {"none", "reading", "fault"}, media'[p] # NULL
      PROVE  gt'[p].data = media'[p]
  <2>1. gt'[p] = gt[p] \/ CopyGoesOn(p)
    BY <1>1, <1>6, NextCopies DEF CopyStarts, CopyEnds
  <2>2. Active(p)
    BY <1>6, <2>1 DEF Active, CopyGoesOn
  <2>3. media'[p] = media[p]
    BY <2>2, BlockStays
  <2>4. CASE GRead(p)
    <3>1. gt \in [Pbid -> GtRec]
      BY <1>1 DEF TypeOK, IoTypeOK
    <3>2. PICK v \in Values : (media[p] # NULL => v = media[p]) /\ gt' = [gt EXCEPT ![p].data = v, ![p].pc = "queued"]
      BY <2>4 DEF GRead
    <3>3. gt'[p].data = v
      BY <3>1, <3>2 DEF GtRec
    <3> QED BY <1>6, <2>3, <3>2, <3>3
  <2>5. CASE gt[p].pc # "reading" /\ gt'[p].data = gt[p].data
    BY <1>2, <1>6, <2>2, <2>3, <2>5 DEF MediaInv, Active
  <2> QED BY <1>6, <2>1, <2>4, <2>5 DEF CopyGoesOn
<1>7. ASSUME NEW p \in Pbid, (gt'[p].pc = "endio" /\ ~gt'[p].error) \/ gt'[p].pc \in {"cb_rmap", "cb_map"}
      PROVE  media'[gt'[p].pbid] = gt'[p].data
  <2>1. CASE gt[p].pc \in {"endio", "cb_rmap", "cb_map"} /\ gt'[p].pbid = gt[p].pbid /\ gt'[p].data = gt[p].data
    <3>1. media[gt[p].pbid] = gt[p].data /\ gt[p].data \in Values
      BY <1>1, <1>2, <1>3, <2>1 DEF MediaInv, DataKnown
    <3>2. gt[p].pbid \in Pbid /\ gt[p].pbid[1] = gt[p].zone /\ gt[p].zone \in Zone
      BY <1>1, <1>3, <2>1 DEF FactsInv, GtZones
    <3>3. ~Marked(gt[p].pbid[1])
      BY <1>1, <3>2, DevAssumption DEF CopiesMarked
    <3>4. media'[gt[p].pbid] = media[gt[p].pbid]
      BY <1>4, <3>1, <3>2, <3>3, BlockStays
    <3> QED BY <2>1, <3>1, <3>4
  <2> QED BY <1>1, <1>7, <2>1, NextWritten
<1>8. ASSUME NEW r \in Readers, rd'[r].pc # "none" PROVE media'[rd'[r].pbid] # NULL
  <2>1. rd \in [Readers -> RdRec]
    BY <1>1 DEF TypeOK, IoTypeOK
  <2>2. CASE rd'[r] = rd[r]
    <3>1. rd[r].pc = "reading" /\ rd[r].pbid \in Pbid /\ media[rd[r].pbid] # NULL
      BY <1>1, <1>2, <1>8, <2>1, <2>2 DEF RdRec, FactsInv, ReadFacts, MediaInv
    <3>2. media'[rd[r].pbid] = media[rd[r].pbid]
      BY <1>8, <2>2, <3>1, BlockStays
    <3> QED BY <2>2, <3>1, <3>2
  <2>3. CASE SubmitRead(r)
    <3>1. PICK b \in Blks : Mapped(b) /\ rd' = [rd EXCEPT ![r] = [pc |-> "reading", blkid |-> b, pbid |-> pbids[b]]]
      BY <2>3 DEF SubmitRead, lbz_submit_read, lbz_mapping_lookup
    <3>2. rd'[r].pbid = pbids[b] /\ media' = media
      BY <2>1, <2>3, <3>1 DEF SubmitRead, lbz_submit_read, devVars
    <3>3. pbids[b] \in Pbid /\ Held["map"][b] = pbids[b]
      BY <1>1, <3>1, HeldAt DEF TypeOK, MappingTypeOK, Mapped
    <3>4. media[pbids[b]] # NULL
      BY <1>1, <1>2, <3>3, HoldersAt, DevAssumption DEF HolderWritten
    <3> QED BY <3>2, <3>4
  <2>4. CASE lbz_read_io_endio(r)
    BY <1>8, <2>1, <2>4 DEF lbz_read_io_endio, NoRead
  <2> QED BY <1>1, <2>2, <2>3, <2>4, NextRead
<1> QED BY <1>5, <1>6, <1>7, <1>8

\* Nothing is in flight at the start.
LEMMA InitMedia == Init => MediaInv
<1> SUFFICES ASSUME Init PROVE MediaInv
  OBVIOUS
<1>1. /\ \A t \in UTasks : wt[t].pc = "none"
      /\ \A p \in Pbid : gt[p].pc = "none"
      /\ \A r \in Readers : rd[r].pc = "none"
  BY DEF Init, IoInit, NoTask, NoGcTask, NoRead
<1> QED BY <1>1 DEF MediaInv

\* What a read or a copy will see is the data of its block.
THEOREM MediaInductive == Spec /\ []Undisturbed => []MediaInv
<1> QED BY InitMedia, NextMedia, GcInductive, PTL DEF Spec

-----------------------------------------------------------------------------
(* The device as its user sees it.                                         *)

\* Where a write is for its user: not there, not yet in effect, in effect.
IdlePcs == {"none", "del", "complete", "put"}
ViewKept(u) ==
    \/ wt[u].pc \in IdlePcs /\ wt'[u].pc \in IdlePcs
    \/ /\ wt[u].pc \notin IdlePcs /\ wt'[u].pc \notin IdlePcs
       /\ wt[u].pc \in MapPcs <=> wt'[u].pc \in MapPcs
       /\ wt'[u].blkid = wt[u].blkid /\ wt'[u].data = wt[u].data
       /\ wt'[u].zone = NULL => wt[u].zone = NULL

\* A step that keeps the task, or its view, keeps what the user sees of the write.
LEMMA KeepsView ==
    ASSUME NEW u \in UTasks
    PROVE  /\ SameTask(wt'[u], wt[u]) => ViewKept(u)
           /\ oops = "none" /\ oops' = "none" /\ ViewKept(u) => BdWrite'[u] = BdWrite[u]
  BY DEF SameTask, ViewKept, IdlePcs, MapPcs, BdWrite, BdIdle

\* A user sees three steps of a write.
LEMMA NextView ==
    ASSUME TypeOK, TaskInv, FactsInv, errors = 0, errors' = 0, [Next]_vars, NEW u \in UTasks
    PROVE  ViewKept(u) \/ SubmitWrite(u) \/ WEndio(u) \/ WNewRmap(u)
<1>1. ~faulty /\ wt \in [UTasks -> WtRec] /\ ~wt[u].error
  BY DEF FactsInv, ErrorsSeen, TypeOK, IoTypeOK
<1>2. wt' = wt \/ AllUsersKept => ViewKept(u)
  BY KeepsView DEF AllUsersKept, SameTask
<1>3. ASSUME NEW t \in UTasks, OthersKept(t), t # u PROVE ViewKept(u)
  BY <1>3, KeepsView DEF OthersKept
<1>4. ASSUME NEW t \in UTasks, SubmitWrite(t) PROVE ViewKept(u) \/ SubmitWrite(u)
  BY <1>3, <1>4, SubmitFx
<1>5. ASSUME NEW t \in UTasks, WConflict(t) PROVE ViewKept(u)
  BY <1>3, <1>5, WConflictFx DEF ViewKept, IdlePcs, MapPcs, KeepsFields
<1>6. ASSUME NEW t \in UTasks, WAlloc(t) \/ WAlloc2(t) PROVE ViewKept(u)
  <2>1. wt[t].pc \in {"alloc", "alloc2"}
    BY <1>6 DEF WAlloc, WAlloc2
  <2>2. \/ \E s : WGotZone(t, s)
        \/ \E c \in {"alloc2", "queued"} : wt' = [wt EXCEPT ![t].pc = c]
    BY <1>1, <1>6 DEF WAlloc, WAlloc2, WAllocEagain, WAllocEio
  <2>3. ASSUME NEW s, WGotZone(t, s) PROVE ViewKept(u)
    BY <1>3, <2>1, <2>3, WGotZoneFx DEF ViewKept, IdlePcs, MapPcs, FactsInv, WtZones
  <2>4. ASSUME NEW c \in {"alloc2", "queued"}, wt' = [wt EXCEPT ![t].pc = c] PROVE ViewKept(u)
    BY <1>3, <2>1, <2>4, PcFx DEF ViewKept, IdlePcs, MapPcs, KeepsFields
  <2> QED BY <2>2, <2>3, <2>4
<1>7. ASSUME NEW t \in UTasks, WAppend(t) \/ WAppendFails(t) PROVE ViewKept(u)
  BY <1>3, <1>7, WAppendFx DEF ViewKept, IdlePcs, MapPcs
<1>8. ASSUME NEW t \in UTasks, WEndio(t) PROVE ViewKept(u) \/ WEndio(u)
  BY <1>3, <1>8, WEndioFx
<1>9. ASSUME NEW t \in UTasks, WNewRmap(t) PROVE ViewKept(u) \/ WNewRmap(u)
  <2>1. OthersKept(t)
    BY <1>9, PcFx DEF WNewRmap
  <2> QED BY <1>3, <1>9, <2>1
<1>10. ASSUME NEW t \in UTasks, WOldRmap(t) \/ WOldWeight(t) \/ WComplete(t) PROVE ViewKept(u)
  <2>1. \/ wt[t].pc = "complete" /\ wt' = [wt EXCEPT ![t].pc = "put"]
        \/ wt[t].pc \in MapPcs /\ \E c \in {"oldweight", "newrmap"} : wt' = [wt EXCEPT ![t].pc = c]
    BY <1>10 DEF WOldRmap, WOldWeight, WComplete, MapPcs
  <2> QED BY <1>3, <2>1, PcFx DEF ViewKept, IdlePcs, MapPcs, KeepsFields
<1>11. ASSUME NEW t \in UTasks, WDel(t) \/ WPut(t) PROVE ViewKept(u)
  BY <1>3, <1>11, WDelFx, WPutFx DEF ViewKept, IdlePcs
<1>12. CASE WkUser
  BY <1>3, <1>12, WkUserFx DEF ViewKept, IdlePcs, MapPcs, KeepsFields
<1>13. CASE WkGc
  BY <1>2, <1>13, WkGcFx
<1>14. ASSUME NEW p \in Pbid, GcCopy(p) PROVE ViewKept(u)
  <2>1. CASE GAgency(p)
    BY <1>2, <2>1, GAgencyFx
  <2>2. CASE ~GAgency(p)
    <3>1. wt' = wt
      BY <1>14, <2>2 DEF GcCopy, GRead, GReadFails, GFault, GLookup, GAlloc, GAlloc2, GGotZone, GAppend,
             GAppendFails, GEndio, GCbRmap, GCbMap, GCbOld, GCbPut, ioVars
    <3> QED BY <1>2, <3>1
  <2> QED BY <2>1, <2>2
<1>15. UNCHANGED ioVars => wt' = wt
  BY DEF ioVars
<1>16. CASE WkStart \/ WkSpliceGc \/ WkEnd \/ GcIter
  BY <1>2, <1>16 DEF WkStart, WkSpliceGc, WkEnd, GcIter
<1>17. ASSUME NEW r \in Readers, SubmitRead(r) \/ lbz_read_io_endio(r) PROVE wt' = wt
  BY <1>17 DEF SubmitRead, lbz_submit_read, lbz_read_io_endio
<1>18. CASE GcCheck \/ GcSelect \/ GcNoVictim \/ GcFinish
  BY <1>2, <1>15, <1>18 DEF GcCheck, GcSelect, GcNoVictim, GcFinish
<1>19. CASE UNCHANGED vars
  BY <1>2, <1>15, <1>19 DEF vars
<1> QED BY <1>2, <1>4, <1>5, <1>6, <1>7, <1>8, <1>9, <1>10, <1>11, <1>12, <1>13, <1>14, <1>15, <1>16, <1>17,
           <1>18, <1>19 DEF Next, Running, Halted, WriteStep, RetryWork, GcThread

\* A mapped block has been written.
LEMMA MappedWritten ==
    ASSUME TypeOK, HolderWritten, oops = "none", NEW x \in Blks, Mapped(x)
    PROVE  pbids[x] \in Pbid /\ media[pbids[x]] # NULL
<1>1. pbids[x] \in Pbid
  BY DEF TypeOK, MappingTypeOK, Mapped
<1>2. Held["map"][x] = pbids[x] /\ pbids[x] # NULL
  BY <1>1, HeldAt, DevAssumption
<1> QED BY <1>1, <1>2, HoldersAt DEF HolderWritten

\* One write changes, for its user.
LEMMA OneView ==
    ASSUME oops = "none", oops' = "none", NEW t \in UTasks, OthersKept(t)
    PROVE  BdWrite' = [BdWrite EXCEPT ![t] = BdWrite'[t]]
<1>1. \A u \in UTasks : u # t => BdWrite'[u] = BdWrite[u]
  BY KeepsView DEF OthersKept
<1>2. BdWrite = [u \in UTasks |-> BdWrite[u]] /\ BdWrite' = [u \in UTasks |-> BdWrite'[u]]
  BY DEF BdWrite
<1> QED BY <1>1, <1>2

\* A block or a read whose data stays shows the same.
LEMMA SameBlocks ==
    ASSUME oops = "none", oops' = "none", UNCHANGED <<media, pbids>>
    PROVE  BdContent' = BdContent /\ (rd' = rd => BdRead' = BdRead)
  BY DEF BdContent, BdRead, BdIdle, Mapped

\* The submission of a write.
LEMMA SubmitsWrite ==
    ASSUME TypeOK, TaskInv, oops = "none", oops' = "none", NEW t \in UTasks, SubmitWrite(t)
    PROVE  BD!SubmitWrite(t)
<1>1. /\ wt[t].pc = "none" /\ wt'[t].pc \in {"alloc", "conflict"} /\ OthersKept(t)
      /\ wt'[t].blkid \in Blks /\ wt'[t].data \in Values /\ UNCHANGED <<media, pbids, rd>>
  BY SubmitFx DEF lowVars, devVars
<1>2. PICK b \in Blks, v \in Values : b = wt'[t].blkid /\ v = wt'[t].data
  BY <1>1
<1>3. BdWrite[t] = BD!Idle /\ BdWrite'[t] = [st |-> "pending", blkid |-> b, data |-> v]
  BY <1>1, <1>2 DEF BdWrite, BdIdle, BD!Idle
<1>4. BdWrite' = [BdWrite EXCEPT ![t] = [st |-> "pending", blkid |-> b, data |-> v]]
  BY <1>1, <1>3, OneView
<1>5. BdContent' = BdContent /\ BdRead' = BdRead
  BY <1>1, SameBlocks
<1> QED BY <1>3, <1>4, <1>5 DEF BD!SubmitWrite

\* lbz_mapping_add of a write: the block gets its data, no other changes.
LEMMA AppliesWrite ==
    ASSUME TypeOK, TaskInv, FactsInv, MediaInv, errors = 0, oops = "none", oops' = "none", NEW t \in UTasks, WEndio(t)
    PROVE  BD!Apply(t)
<1>1. PICK b, p : b = wt[t].blkid /\ p = wt[t].pbid
  OBVIOUS
<1>2. ~wt[t].error /\ wt[t].pc = "endio"
  BY DEF FactsInv, ErrorsSeen, WEndio
<1>3. b \in Blks /\ p \in Pbid /\ p # INVALID /\ media[p] = wt[t].data
  BY <1>1, <1>2, DevAssumption DEF TaskInv, WtFacts, MediaInv
<1>4. /\ OthersKept(t) /\ wt'[t].pc \in {"oldrmap", "newrmap"} /\ wt'[t].blkid = b /\ wt'[t].data = wt[t].data
      /\ pbids' = [pbids EXCEPT ![b] = p] /\ media' = media /\ rd' = rd
  BY <1>1, <1>2, WEndioFx
<1>5. BdWrite[t] = [st |-> "pending", blkid |-> b, data |-> wt[t].data]
  BY <1>1, <1>2 DEF BdWrite
<1>6. BdWrite'[t] = [st |-> "applied", blkid |-> b, data |-> wt[t].data]
  BY <1>4 DEF BdWrite
<1>7. BdWrite' = [BdWrite EXCEPT ![t] = BdWrite'[t]]
  BY <1>4, OneView
<1>8. BdWrite' = [BdWrite EXCEPT ![t].st = "applied"]
  BY <1>5, <1>6, <1>7
<1>9. BdContent' = [BdContent EXCEPT ![b] = wt[t].data]
  <2>1. pbids \in [Blks -> Pbid \cup {INVALID}]
    BY DEF TypeOK, MappingTypeOK
  <2> QED BY <1>3, <1>4, <2>1 DEF BdContent, Mapped
<1>10. BdRead' = BdRead
  BY <1>4 DEF BdRead, BdIdle
<1> QED BY <1>5, <1>8, <1>9, <1>10 DEF BD!Apply

\* __unhook_io completes the bio of a write.
LEMMA CompletesWrite ==
    ASSUME TypeOK, oops = "none", oops' = "none", NEW t \in UTasks, WNewRmap(t)
    PROVE  BD!CompleteWrite(t)
<1>1. /\ wt[t].pc = "newrmap" /\ wt' = [wt EXCEPT ![t].pc = "del"]
      /\ UNCHANGED <<media, pbids, rd>>
  BY DEF WNewRmap, devVars
<1>2. OthersKept(t) /\ wt'[t].pc = "del"
  BY <1>1, PcFx
<1>3. BdWrite[t].st = "applied" /\ BdWrite'[t] = BD!Idle
  BY <1>1, <1>2 DEF BdWrite, BdIdle, BD!Idle
<1>4. BdWrite' = [BdWrite EXCEPT ![t] = BD!Idle]
  BY <1>2, <1>3, OneView
<1> QED BY <1>1, <1>3, <1>4, SameBlocks DEF BD!CompleteWrite

\* The submission of a read.
LEMMA SubmitsRead ==
    ASSUME TypeOK, HolderWritten, oops = "none", oops' = "none", NEW r \in Readers, SubmitRead(r)
    PROVE  BD!SubmitRead(r)
<1>1. PICK b \in Blks :
          /\ Mapped(b) /\ rd[r].pc = "none"
          /\ rd' = [rd EXCEPT ![r] = [pc |-> "reading", blkid |-> b, pbid |-> pbids[b]]]
          /\ UNCHANGED <<media, pbids, wt>>
  BY DEF SubmitRead, lbz_submit_read, lbz_mapping_lookup, devVars
<1>2. rd \in [Readers -> RdRec]
  BY DEF TypeOK, IoTypeOK
<1>3. BdContent[b] = media[pbids[b]] /\ BdContent[b] # NULL
  BY <1>1, MappedWritten DEF BdContent
<1>4. BdRead[r] = BD!Idle
  BY <1>1 DEF BdRead, BdIdle, BD!Idle
<1>5. BdRead' = [BdRead EXCEPT ![r] = [st |-> "waiting", blkid |-> b, data |-> BdContent[b]]]
  BY <1>1, <1>2, <1>3 DEF BdRead, BdIdle
<1>6. BdContent' = BdContent /\ BdWrite' = BdWrite
  BY <1>1, SameBlocks DEF BdWrite, BdIdle
<1> QED BY <1>3, <1>4, <1>5, <1>6 DEF BD!SubmitRead

\* lbz_read_io_endio.
LEMMA CompletesRead ==
    ASSUME TypeOK, oops = "none", oops' = "none", NEW r \in Readers, lbz_read_io_endio(r)
    PROVE  BD!CompleteRead(r)
<1>1. rd[r].pc = "reading" /\ rd' = [rd EXCEPT ![r] = NoRead] /\ UNCHANGED <<media, pbids, wt>>
  BY DEF lbz_read_io_endio
<1>2. rd \in [Readers -> RdRec]
  BY DEF TypeOK, IoTypeOK
<1>3. BdRead[r].st = "waiting"
  BY <1>1 DEF BdRead
<1>4. BdRead' = [BdRead EXCEPT ![r] = BD!Idle]
  BY <1>1, <1>2 DEF BdRead, BdIdle, BD!Idle, NoRead
<1>5. BdContent' = BdContent /\ BdWrite' = BdWrite
  BY <1>1, SameBlocks DEF BdWrite, BdIdle
<1> QED BY <1>3, <1>4, <1>5 DEF BD!CompleteRead

\* Nothing is written at the start.
LEMMA InitRefines == Init => BD!Init
<1> SUFFICES ASSUME Init PROVE BD!Init
  OBVIOUS
<1>1. /\ \A t \in UTasks : wt[t].pc = "none"
      /\ \A r \in Readers : rd[r].pc = "none"
      /\ \A x \in Blks : ~Mapped(x)
      /\ oops = "none"
  BY DEF Init, IoInit, NoTask, NoRead, MappingInit, Mapped
<1>2. BdContent = [x \in Blks |-> NULL]
  BY <1>1 DEF BdContent
<1>3. BdWrite = [t \in UTasks |-> BD!Idle]
  BY <1>1 DEF BdWrite, BdIdle, BD!Idle
<1>4. BdRead = [r \in Readers |-> BD!Idle]
  BY <1>1 DEF BdRead, BdIdle, BD!Idle
<1>5. (oops # "none") = FALSE
  BY <1>1
<1> QED BY <1>2, <1>3, <1>4, <1>5 DEF BD!Init

\* A kernel that stops is a step of BlockDevice.
LEMMA Crashes ==
    ASSUME oops' # "none" PROVE BD!Crash
<1>2. BdContent' = [x \in Blks |-> NULL]
  BY DEF BdContent
<1>3. BdWrite' = [t \in UTasks |-> BD!Idle]
  BY DEF BdWrite, BdIdle, BD!Idle
<1>4. BdRead' = [r \in Readers |-> BD!Idle]
  BY DEF BdRead, BdIdle, BD!Idle
<1>5. (oops' # "none") = TRUE
  OBVIOUS
<1> QED BY <1>2, <1>3, <1>4, <1>5 DEF BD!Crash


\* Every other step is invisible: a copy holds the data of its source when GCbMap puts
\* it in the map, and no other step touches a block that is mapped or read.
LEMMA Stutters ==
    ASSUME Surroundings, GcInv, MediaInv, Undisturbed, Undisturbed', oops = "none", oops' = "none", [Next]_vars,
           \A t \in UTasks : ~SubmitWrite(t) /\ ~WEndio(t) /\ ~WNewRmap(t),
           \A r \in Readers : ~SubmitRead(r) /\ ~lbz_read_io_endio(r)
    PROVE  UNCHANGED BD!bdVars
<1>1. /\ TypeOK /\ TaskInv /\ FactsInv /\ PlaceInv /\ DataKnown /\ HolderWritten
      /\ errors = 0 /\ errors' = 0 /\ ZoneMgmtApproved
  BY DEF Surroundings, BlockInv, Undisturbed
<1>2. BdWrite' = BdWrite
  <2>1. \A u \in UTasks : BdWrite'[u] = BdWrite[u]
    BY <1>1, NextView, KeepsView
  <2>2. BdWrite = [u \in UTasks |-> BdWrite[u]] /\ BdWrite' = [u \in UTasks |-> BdWrite'[u]]
    BY DEF BdWrite
  <2> QED BY <2>1, <2>2
<1>3. BdRead' = BdRead
  <2>1. ASSUME NEW r \in Readers
        PROVE  rd'[r] = rd[r] /\ (rd[r].pc # "none" => media'[rd[r].pbid] = media[rd[r].pbid])
    <3>1. rd \in [Readers -> RdRec]
      BY <1>1 DEF TypeOK, IoTypeOK
    <3>2. rd[r].pc # "none" => rd[r].pbid \in Pbid /\ media[rd[r].pbid] # NULL
      BY <1>1, <3>1 DEF RdRec, FactsInv, ReadFacts, MediaInv
    <3> QED BY <1>1, <3>2, NextRead, BlockStays
  <2> QED BY <2>1 DEF BdRead, BdIdle
<1>4. BdContent' = BdContent
  <2>1. pbids \in [Blks -> Pbid \cup {INVALID}]
    BY <1>1 DEF TypeOK, MappingTypeOK
  <2>2. CASE pbids' = pbids
    <3>1. ASSUME NEW x \in Blks, Mapped(x) PROVE media'[pbids[x]] = media[pbids[x]]
      BY <1>1, <3>1, MappedWritten, BlockStays
    <3> QED BY <2>2, <3>1 DEF BdContent, Mapped
  <2>3. ASSUME NEW p \in Pbid, GCbMap(p) PROVE BdContent' = BdContent
    <3>1. PICK b, q : b = gt[p].blkid /\ q = gt[p].pbid
      OBVIOUS
    <3>2. gt[p].pc = "cb_map" /\ pbids' = [pbids EXCEPT ![b] = q] /\ media' = media
      BY <2>3, <3>1 DEF GCbMap, lbz_mapping_add
    <3>3. b \in Blks /\ q \in Pbid /\ pbids[b] = p
      BY <1>1, <3>1, <3>2 DEF TaskInv, GtFacts, GcSourceMapped, GtCopying
    <3>4. p # INVALID /\ q # INVALID
      BY <3>3, DevAssumption
    <3>5. media[p] # NULL
      BY <1>1, <3>3, <3>4, MappedWritten DEF Mapped
    <3>6. media[q] = media[p]
      BY <3>1, <3>2, <3>5 DEF MediaInv
    <3> QED BY <2>1, <3>2, <3>3, <3>4, <3>6 DEF BdContent, Mapped
  <2> QED BY <1>1, <2>2, <2>3, NextMapping
<1> QED BY <1>2, <1>3, <1>4 DEF BD!bdVars

\* Every step is a step of the block device or none.
LEMMA NextRefines ==
    ASSUME Surroundings, GcInv, MediaInv, Undisturbed, Undisturbed', [Next]_vars
    PROVE  [BD!Next]_(BD!bdVars)
<1>1. /\ TypeOK /\ TaskInv /\ FactsInv /\ PlaceInv /\ DataKnown /\ HolderWritten /\ errors = 0
  BY DEF Surroundings, BlockInv, Undisturbed
<1>2. CASE oops' # "none"
  BY <1>2, Crashes DEF BD!Next
<1>3. CASE oops' = "none"
  <2>1. oops = "none"
    BY <1>1, <1>3, NextKinds
  <2>2. ASSUME NEW t \in UTasks, SubmitWrite(t) \/ WEndio(t) \/ WNewRmap(t) PROVE BD!Next
    BY <1>1, <1>3, <2>1, <2>2, SubmitsWrite, AppliesWrite, CompletesWrite DEF BD!Next
  <2>3. ASSUME NEW r \in Readers, SubmitRead(r) \/ lbz_read_io_endio(r) PROVE BD!Next
    BY <1>1, <1>3, <2>1, <2>3, SubmitsRead, CompletesRead DEF BD!Next
  <2> QED BY <1>3, <2>1, <2>2, <2>3, Stutters
<1> QED BY <1>2, <1>3

\* lbz is a block device while no command fails and the zone worker is not ahead of
\* itself: a write takes effect once, at lbz_mapping_add; a read returns what its
\* block held when it was submitted; GC and zone resets are invisible.
THEOREM BlockDeviceImplemented == Spec /\ []Undisturbed => ImplementsBlockDevice
<1> QED BY InitRefines, NextRefines, GcInductive, MediaInductive, PTL DEF Spec, ImplementsBlockDevice, BD!Spec

-----------------------------------------------------------------------------
(* The reserve: what GC still has to copy, and what is left for it.        *)

\* A write without a zone had none before, or is new.
LEMMA NextUnserved ==
    ASSUME TypeOK, TaskInv, FactsInv, FactsInv', errors = 0, errors' = 0, [Next]_vars,
           NEW u \in UTasks, Unserved(u)'
    PROVE  Unserved(u) \/ SubmitWrite(u)
<1>1. wt'[u].pc \notin IdlePcs /\ wt'[u].zone = NULL
  BY DevAssumption DEF Unserved, IdlePcs, FactsInv, WtZones
<1>2. CASE ViewKept(u)
  BY <1>1, <1>2 DEF ViewKept, Unserved, IdlePcs
<1>3. CASE WEndio(u)
  BY <1>1, <1>3, WEndioFx DEF Unserved
<1>4. CASE WNewRmap(u)
  <2>1. wt[u].pc = "newrmap" /\ wt' = [wt EXCEPT ![u].pc = "del"]
    BY <1>4 DEF WNewRmap
  <2> QED BY <1>1, <2>1, PcFx DEF KeepsFields, Unserved
<1> QED BY <1>2, <1>3, <1>4, NextView

\* A GC task a write is to finish was its own before, or is handed to it now.
LEMMA NextPending ==
    ASSUME TypeOK, TaskInv, FactsInv, PlaceInv, WaitFacts, [Next]_vars,
           NEW u \in UTasks, NEW p \in Pbid, wt'[u].pending_gc_node = p
    PROVE  wt[u].pending_gc_node = p \/ (GAgency(p) /\ gt[p].tk = u)
<1>1. p # NULL
  BY DevAssumption
<1>2. CASE LinksStill
  BY <1>2 DEF LinksStill, UserStill, LinkSame
<1>3. ASSUME NEW t \in UTasks, SubmitWrite(t) \/ Resubmits(t) PROVE wt[u].pending_gc_node = p
  <2>1. PICK task \in WtRec : /\ InsertUser(t, task) /\ ~WtInTree(t) /\ task.blkid \in Blks
                              /\ task.pending_gc_node = NULL \/ task = wt[t]
    BY <1>3, EnterTask
  <2>2. PICK own : own = tree[task.blkid]
    OBVIOUS
  <2>3. /\ wt'[t].pending_gc_node = task.pending_gc_node
        /\ \A v \in UTasks : v # t => wt'[v].pending_gc_node = wt[v].pending_gc_node
    BY <2>1, <2>2, InsertLinks
  <2> QED BY <1>1, <2>1, <2>3
<1>4. ASSUME NEW t \in UTasks, WConflict(t) PROVE wt[u].pending_gc_node = p
  <2>1. PICK o : o = wt[t].tk
    OBVIOUS
  <2>2. /\ o \in UTasks => PutLinks(o, 1)
        /\ \A v \in UTasks : v # o => wt'[v].pending_gc_node = wt[v].pending_gc_node
    BY <1>4, <2>1, ConflictLinks
  <2> QED BY <1>1, <2>2 DEF PutLinks
<1>5. ASSUME NEW t \in UTasks, WDel(t) \/ (wt[t].pc = "alloc2" /\ WAllocEio(t)) PROVE wt[u].pending_gc_node = p
  <2>1. PutLinks(t, 2) /\ \A v \in UTasks : v # t => wt'[v] = wt[v]
    BY <1>5, DropLinks
  <2> QED BY <1>1, <2>1 DEF PutLinks
<1>6. ASSUME NEW q \in Pbid, GAgency(q) PROVE wt[u].pending_gc_node = p \/ (q = p /\ gt[p].tk = u)
  <2>1. PICK o : o = gt[q].tk
    OBVIOUS
  <2>2. /\ \A v \in UTasks : v # o => wt'[v] = wt[v]
        /\ o \in UTasks /\ wt'[o].pending_gc_node = IF LastPut(o, 1) THEN NULL ELSE q
    BY <1>6, <2>1, AgencyLinks
  <2> QED BY <1>1, <2>1, <2>2
<1>7. CASE WkGc
  BY <1>7, MeetLinks
<1> QED BY <1>2, <1>3, <1>4, <1>5, <1>6, <1>7, NextLinks

\* A copy that met a task met it before, or meets a user write now.
LEMMA NextMet ==
    ASSUME TypeOK, TaskInv, FactsInv, PlaceInv, CopiesBehind, GcTasksDisjoint', errors = 0, errors' = 0,
           [Next]_vars, NEW p \in Pbid, gt'[p].pc = "conflict"
    PROVE  /\ gt'[p].tk \in UTasks
           /\ gt[p].pc = "queued" \/ (gt[p].pc = "conflict" /\ gt'[p].tk = gt[p].tk)
<1>1. CASE gt'[p] = gt[p]
  BY <1>1 DEF CopiesBehind
<1>2. CASE gt'[p] # gt[p]
  <2>1. WkGc /\ gt[p].pc = "queued"
    BY <1>2, NextCopies DEF CopyStarts, CopyGoesOn, CopyEnds, MovePcs
  <2>2. PICK q \in Pbid, own \in Owner :
            /\ own = NULL => gt'[q].pc = "lookup"
            /\ own # NULL => gt'[q].tk = own /\ oops' = IF own \in Pbid THEN "gc_conflict" ELSE oops
            /\ \A r \in Pbid : r # q => gt'[r] = gt[r]
    BY <2>1, MeetLinks
  <2>3. q = p /\ own # NULL
    BY <1>2, <2>2
  <2>4. own \notin Pbid
    BY <2>2, <2>3 DEF GcTasksDisjoint
  <2> QED BY <2>1, <2>2, <2>3, <2>4 DEF Owner
<1> QED BY <1>1, <1>2

\* Copies start behind the GC thread and stay there.
LEMMA NextBehind ==
    ASSUME TypeOK, TaskInv, FactsInv, PlaceInv, CopiesMarked, GcZoneOnly, CopiesBehind, GcTasksDisjoint',
           errors = 0, errors' = 0, [Next]_vars
    PROVE  CopiesBehind'
<1> SUFFICES ASSUME NEW p \in Pbid, gt'[p].pc \notin {"none", "fault"}, gc'.pc = "iter"
             PROVE  p[2] < gc'.iter
  BY NextMet DEF CopiesBehind
<1>1. /\ gc.iter \in Nat /\ p[2] \in Nat /\ gc.gc_zone \in Zone \cup {NULL}
      /\ \A q \in Pbid : q[1] \in Zone
  BY DevAssumption DEF TypeOK, GcTypeOK, GcRec, Pbid, Offset
<1>2. CASE GcSelect
  <2>1. gc.pc = "victim" /\ gt' = gt
    BY <1>2 DEF GcSelect, ioVars
  <2> QED BY <1>1, <2>1, NoneMarked DEF CopiesMarked
<1>3. CASE ~GcSelect
  <2>1. gc.pc = "iter"
    BY <1>3, NextGc
  <2>2. gc' = gc \/ (GcIter /\ gc'.iter = gc.iter + 1)
    BY <2>1, NextIter DEF GcIter, GcFinish, TypeOK, GcTypeOK, GcRec
  <2>3. CASE Active(p)
    BY <1>1, <2>1, <2>2, <2>3 DEF CopiesBehind, Active
  <2>4. CASE ~Active(p)
    <3>1. CopyStarts(p)
      BY <2>4, NextCopies DEF CopyGoesOn, CopyEnds, Active
    <3>2. gc'.iter = gc.iter + 1
      BY <3>1 DEF CopyStarts, GcIter, TypeOK, GcTypeOK, GcRec
    <3> QED BY <1>1, <3>1, <3>2 DEF CopyStarts
  <2> QED BY <2>3, <2>4
<1> QED BY <1>2, <1>3

\* Only choosing a zone gives GC more to copy.
LEMMA NextDemand ==
    ASSUME TypeOK, TaskInv, FactsInv, FactsInv', PlaceInv, PendingExact, QuietZones, WaitFacts, TaskRefExact,
           DataKnown, CopiesMarked, GcZoneOnly, Attached, CopiesBehind, GcTasksDisjoint', ZoneMgmtApproved,
           errors = 0, errors' = 0, [Next]_vars, ~GcSelect
    PROVE  GcDemand' \in SUBSET GcDemand
<1> SUFFICES ASSUME NEW p \in Pbid, p \in GcDemand' PROVE p \in GcDemand
  BY DEF GcDemand
<1>1. ASSUME gc'.pc = "iter", p[1] = gc'.gc_zone, p[2] >= gc'.iter, zrms'[p] # INVALID PROVE p \in GcDemand
  <2>1. gc.pc = "iter" /\ gc'.gc_zone = gc.gc_zone
    BY <1>1, NextGc
  <2>2. gc.iter \in Nat /\ p[2] \in Nat /\ gc'.iter \in {gc.iter, gc.iter + 1}
    <3>1. gc' = gc \/ gc' = [gc EXCEPT !.iter = @ + 1]
      BY <1>1, <2>1, NextIter DEF GcIter, GcFinish, TypeOK, GcTypeOK, GcRec
    <3> QED BY <3>1, DevAssumption DEF TypeOK, GcTypeOK, GcRec, Pbid, Offset
  <2>3. Marked(p[1])
    BY <1>1, <2>1 DEF GcZoneOnly
  <2>4. zrms[p] # INVALID
    <3>1. CASE \A q \in Pbid : zrms'[q] = zrms[q] \/ zrms'[q] = INVALID
      BY <1>1, <3>1
    <3>2. ASSUME NEW t \in UTasks, WNewRmap(t) PROVE zrms'[p] = zrms[p]
      <4>1. wt[t].pc \in MapPcs /\ zrms' = [zrms EXCEPT ![wt[t].pbid] = wt[t].blkid]
        BY <3>2 DEF WNewRmap, MapPcs, lbz_zone_update_reverse_map
      <4> QED BY <2>3, <4>1, MapsApart DEF TypeOK, ZmdTypeOK
    <3>3. ASSUME NEW q \in Pbid, GCbRmap(q) PROVE zrms'[p] = zrms[p]
      <4>1. gt[q].pc = "cb_rmap" /\ zrms' = [zrms EXCEPT ![gt[q].pbid] = gt[q].blkid]
        BY <3>3 DEF GCbRmap, lbz_zone_update_reverse_map
      <4> QED BY <2>3, <4>1, MapsApart DEF TypeOK, ZmdTypeOK
    <3> QED BY <1>1, <3>1, <3>2, <3>3, NextMapping
  <2> QED BY <1>1, <2>1, <2>2, <2>4 DEF GcDemand
<1>2. ASSUME gt'[p].pc \in Needing PROVE p \in GcDemand
  <2>1. CASE gt'[p] = gt[p]
    BY <1>2, <2>1 DEF GcDemand, Needing
  <2>2. CASE CopyStarts(p)
    <3>1. gc.iter \in Nat
      BY DEF TypeOK, GcTypeOK, GcRec
    <3> QED BY <2>2, <3>1 DEF CopyStarts, GcDemand
  <2>3. CASE CopyGoesOn(p)
    BY <1>2, <2>3 DEF CopyGoesOn, GcDemand, Needing
  <2> QED BY <1>2, <2>1, <2>2, <2>3, NextCopies DEF CopyEnds, Needing
<1>3. ASSUME gt'[p].pc = "conflict", NEW u, u = gt'[p].tk, Unserved(u)' PROVE p \in GcDemand
  <2>1. u \in UTasks
    BY <1>3, NextMet
  <2>2. CASE gt[p].pc = "queued"
    BY <2>2 DEF GcDemand
  <2>3. CASE gt[p].pc = "conflict" /\ gt[p].tk = u
    <3>1. ~SubmitWrite(u)
      <4>1. wt[u].refcount # 0
        BY <2>1, <2>3, TaskRefFacts
      <4> QED BY <4>1 DEF SubmitWrite, lbz_submit_write
    <3> QED BY <1>3, <2>1, <2>3, <3>1, NextUnserved DEF GcDemand
  <2> QED BY <1>3, <2>1, <2>2, <2>3, NextMet
<1>4. ASSUME gt'[p].pc = "agency", NEW u \in UTasks, wt'[u].pending_gc_node = p, Unserved(u)' PROVE p \in GcDemand
  <2>1. wt[u].refcount = 0 => wt[u].pending_gc_node = NULL /\ gt[p].tk # u
    <3>1. wt[u].pending_gc_node # NULL => wt[u].refcount # 0
      BY DEF Attached
    <3>2. gt[p].tk = u => wt[u].refcount >= 1
      BY TaskRefFacts
    <3> QED BY <3>1, <3>2
  <2>2. p # NULL /\ (wt[u].pending_gc_node = p \/ (GAgency(p) /\ gt[p].tk = u))
    BY <1>4, NextPending, DevAssumption
  <2>3. ~SubmitWrite(u)
    BY <2>1, <2>2 DEF SubmitWrite, lbz_submit_write
  <2>4. Unserved(u)
    BY <1>4, <2>3, NextUnserved
  <2>5. CASE wt[u].pending_gc_node = p
    <3>1. gt[p].pc = "agency"
      BY <2>2, <2>5 DEF TaskInv, PendingAgency
    <3> QED BY <2>4, <2>5, <3>1 DEF GcDemand
  <2>6. CASE GAgency(p) /\ gt[p].tk = u
    BY <2>4, <2>6 DEF GcDemand, GAgency
  <2> QED BY <2>2, <2>5, <2>6
<1>5. \/ gc'.pc = "iter" /\ p[1] = gc'.gc_zone /\ p[2] >= gc'.iter /\ zrms'[p] # INVALID
      \/ gt'[p].pc \in Needing
      \/ gt'[p].pc = "conflict" /\ \E u : u = gt'[p].tk /\ Unserved(u)'
      \/ gt'[p].pc = "agency" /\ \E u \in UTasks : wt'[u].pending_gc_node = p /\ Unserved(u)'
  BY DEF GcDemand, Needing, Unserved
<1> QED BY <1>1, <1>2, <1>3, <1>4, <1>5

\* The allocator never owes blocks.
LEMMA RoomNat ==
    ASSUME TypeOK, PlaceInv
    PROVE  nr_allocable_blks \in Nat
<1>1. /\ ZoneNrBlocks \in Nat /\ empty_zone_list \in Seq(Zone) /\ ZoneMarks /\ RoomExact
      /\ active_zone \in [Streams -> Zone \cup {NULL}]
  BY DevAssumption DEF TypeOK, ZmdTypeOK, PlaceInv
<1>2. ASSUME NEW s \in Streams PROVE StreamRoom(s) \in Nat
  <2>1. CASE active_zone[s] = NULL
    BY <2>1 DEF StreamRoom
  <2>2. CASE active_zone[s] # NULL
    <3>1. PICK z \in Zone : z = active_zone[s]
      BY <1>1, <2>2
    <3>2. zone[z].wp_block \in 0 .. ZoneNrBlocks
      BY <1>1 DEF ZoneMarks
    <3>3. StreamRoom(s) = ZoneNrBlocks - zone[z].wp_block
      BY <2>2, <3>1 DEF StreamRoom
    <3> QED BY <1>1, <3>2, <3>3
  <2> QED BY <2>1, <2>2
<1>3. \A a, b \in Nat : a * b \in Nat
  OBVIOUS
<1>4. Len(empty_zone_list) \in Nat
  BY <1>1
<1>5. ZoneNrBlocks * Len(empty_zone_list) \in Nat /\ StreamRoom(0) \in Nat /\ StreamRoom(1) \in Nat
  BY <1>1, <1>2, <1>3, <1>4 DEF Streams, LBZ_ZONE_MAX_STREAM
<1> QED BY <1>1, <1>5 DEF RoomExact

\* The zone worker gives a whole zone back, or changes nothing that matters here.
LEMMA WorkerReserve ==
    ASSUME TypeOK, PlaceInv, ZoneStateWork
    PROVE  \/ /\ Allocable' = Allocable
              /\ \A z \in Zone : zone'[z].wp_block = zone[z].wp_block /\ (Marked(z) => Marked(z)')
           \/ Allocable' >= Allocable /\ Allocable' >= ZoneNrBlocks
<1>1. /\ nr_allocable_blks \in Nat /\ ZoneNrBlocks \in Nat /\ zone \in [Zone -> ZoneRec] /\ zs \in ZsRec
      /\ zs.i \in Zone
  BY RoomNat, DevAssumption DEF TypeOK, ZmdTypeOK, ZsRec
<1>2. NextZone.pc # "release" /\ ZsIdle.pc # "release"
  BY <1>1 DEF NextZone, ZsIdle, ZsRec
<1>3. ASSUME zs.pc # "release", zs'.pc # "release", nr_allocable_blks' = nr_allocable_blks
      PROVE  Allocable' = Allocable
  BY <1>3 DEF Allocable
<1>4. zone' = zone => \A z \in Zone : zone'[z].wp_block = zone[z].wp_block /\ (Marked(z) => Marked(z)')
  BY DEF Marked
<1> HIDE DEF NextZone, ZsIdle
<1>5. CASE ZsStart \/ ZsScanRefcount \/ ZsGcZone \/ ZsResetFails
  <2>1. zone' = zone /\ nr_allocable_blks' = nr_allocable_blks /\ zs.pc # "release"
    BY <1>5 DEF ZsStart, ZsScanRefcount, ZsGcZone, ZsResetFails, listVars
  <2>2. \/ zs' = NextZone \/ zs' = ZsIdle
        \/ zs' = [pc |-> "scan", i |-> 0, send |-> FALSE]
        \/ zs' = [zs EXCEPT !.pc = "gc"]
        \/ zs' = [zs EXCEPT !.pc = "reset", !.send = TRUE]
    BY <1>5 DEF ZsStart, ZsScanRefcount, ZsGcZone, ZsResetFails
  <2>3. zs'.pc # "release"
    <3>1. [zs EXCEPT !.pc = "gc"].pc = "gc" /\ [zs EXCEPT !.pc = "reset", !.send = TRUE].pc = "reset"
      BY <1>1 DEF ZsRec
    <3>2. CASE zs' = NextZone \/ zs' = ZsIdle
      BY <1>2, <3>2
    <3>3. CASE zs' = [pc |-> "scan", i |-> 0, send |-> FALSE]
      BY <3>3
    <3> QED BY <2>2, <3>1, <3>2, <3>3
  <2> QED BY <1>3, <1>4, <2>1, <2>3
<1>6. CASE ZsScanToFull
  <2>1. /\ zs.pc = "scan" /\ nr_allocable_blks' = nr_allocable_blks
        /\ zone' = zone \/ zone' = [zone EXCEPT ![zs.i].state = "CLOSED"]
    BY <1>6 DEF ZsScanToFull, listVars
  <2>2. zs'.pc # "release"
    BY <1>1, <1>2, <1>6 DEF ZsScanToFull, ZsRec
  <2>3. \A z \in Zone : zone'[z].wp_block = zone[z].wp_block /\ (Marked(z) => Marked(z)')
    BY <1>1, <1>4, <2>1 DEF Marked, ZoneRec
  <2> QED BY <1>3, <2>1, <2>2, <2>3
<1>7. CASE ZsClose
  <2>1. zs.pc = "close" /\ nr_allocable_blks' = nr_allocable_blks /\ zone' = [zone EXCEPT ![zs.i].flags = {"FULL"}]
        /\ zs' = NextZone
    BY <1>7 DEF ZsClose
  <2>2. ~Marked(zs.i)
    BY <1>1, <2>1 DEF PlaceInv, WorkerZone, ZoneMarks, Marked
  <2>3. \A z \in Zone : zone'[z].wp_block = zone[z].wp_block /\ (Marked(z) => Marked(z)')
    BY <1>1, <2>1, <2>2 DEF Marked, ZoneRec
  <2> QED BY <1>2, <1>3, <2>1, <2>3
<1>8. CASE ZsReset
  <2>1. zs.pc = "reset" /\ nr_allocable_blks' = nr_allocable_blks
    BY <1>8 DEF ZsReset, listVars
  <2>2. CASE zone' = zone /\ zs' = zs
    BY <1>3, <1>4, <2>1, <2>2
  <2>3. CASE zs' = [zs EXCEPT !.pc = "release"]
    <3>1. zs'.pc = "release"
      BY <1>1, <2>3 DEF ZsRec
    <3> QED BY <1>1, <2>1, <3>1 DEF Allocable
  <2> QED BY <1>8, <2>2, <2>3 DEF ZsReset
<1>9. CASE ZsRelease
  <2>1. /\ zs.pc = "release" /\ zs' = NextZone /\ nr_allocable_blks' = nr_allocable_blks + ZoneNrBlocks
        /\ zone' = zone
    BY <1>9 DEF ZsRelease
  <2>2. Allocable = nr_allocable_blks + ZoneNrBlocks /\ Allocable' = nr_allocable_blks'
    BY <1>1, <1>2, <2>1 DEF Allocable
  <2> QED BY <1>4, <2>1, <2>2
<1> QED BY <1>5, <1>6, <1>7, <1>8, <1>9 DEF ZoneStateWork

\* Without copies on their way, the valid blocks of a zone all have weight, beside
\* those written before lbz_create_device.
LEMMA ValidWeighed ==
    ASSUME TypeOK, FactsInv, WeightAtLeast, ReverseForward, NEW y \in Zone, NEW V,
           V = {p \in Pbid : p[1] = y /\ zrms[p] # INVALID},
           \A p \in Pbid : gt[p].pc \in {"none", "fault"}
    PROVE  Cardinality(V) \in Nat /\ DiskWp[y] + Cardinality(V) <= zone[y].weight
<1> DEFINE V1 == {p \in V : pbids[zrms[p]] = p}
           V2 == {p \in V : \E t \in UTasks : wt[t].pc = "oldrmap" /\ wt[t].old = p}
           S1 == {x \in Blks : MapWeight[x] = y}
           S2 == {t \in UTasks : OldWeight[t] = y}
<1>1. /\ zrms \in [Pbid -> Blks \cup {INVALID}] /\ pbids \in [Blks -> Pbid \cup {INVALID}]
      /\ wt \in [UTasks -> WtRec] /\ INVALID \notin Pbid /\ zone[y].weight \in Int /\ DiskWp[y] \in Int
  BY DevAssumption, ZmdAssumption DEF TypeOK, ZmdTypeOK, MappingTypeOK, IoTypeOK, ZoneRec
<1>2. V \in SUBSET Pbid /\ V = V1 \cup V2
  <2>1. ASSUME NEW p \in V PROVE p \in V1 \cup V2
    <3>1. p \in Pbid /\ zrms[p] # INVALID
      OBVIOUS
    <3> QED BY <3>1, <2>1 DEF ReverseForward
  <2> QED BY <2>1
<1>3. IsFiniteSet(S1) /\ IsFiniteSet(S2) /\ Cardinality(S1) = LiveMap(y) /\ Cardinality(S2) = LiveOld(y)
  <2>1. IsFiniteSet(S1) /\ IsFiniteSet(S2)
    BY IoAssumption, FS_Subset
  <2>2. DOMAIN MapWeight = Blks /\ DOMAIN OldWeight = UTasks
    BY DEF MapWeight, OldWeight
  <2> QED BY <2>1, <2>2 DEF LiveMap, LiveOld, Count
<1>4. IsFiniteSet(V1) /\ Cardinality(V1) <= Cardinality(S1)
  <2>1. \A p \in V1 : zrms[p] \in S1
    BY <1>1, <1>2 DEF MapWeight, Mapped
  <2>2. \A p, q \in V1 : zrms[p] = zrms[q] => p = q
    OBVIOUS
  <2> HIDE DEF V1, S1
  <2> QED BY <1>3, <2>1, <2>2, CountInto
<1>5. IsFiniteSet(V2) /\ Cardinality(V2) <= Cardinality(S2)
  <2> DEFINE f == [p \in V2 |-> CHOOSE t \in UTasks : wt[t].pc = "oldrmap" /\ wt[t].old = p]
  <2>1. \A p \in V2 : f[p] \in UTasks /\ wt[f[p]].pc = "oldrmap" /\ wt[f[p]].old = p
    OBVIOUS
  <2>2. \A p \in V2 : p[1] = y
    OBVIOUS
  <2> HIDE DEF f, V2
  <2>3. \A p \in V2 : f[p] \in S2
    BY <2>1, <2>2 DEF OldWeight
  <2>4. \A p, q \in V2 : f[p] = f[q] => p = q
    BY <2>1
  <2> HIDE DEF S2
  <2> QED BY <1>3, <2>3, <2>4, CountInto
<1> HIDE DEF V1, V2, S1, S2
<1>6. /\ Cardinality(V1) \in Nat /\ Cardinality(V2) \in Nat /\ Cardinality(V1 \cap V2) \in Nat
      /\ Cardinality(V) = Cardinality(V1) + Cardinality(V2) - Cardinality(V1 \cap V2)
  <2>1. IsFiniteSet(V1 \cap V2)
    BY <1>4, FS_Subset
  <2>2. Cardinality(V1 \cup V2) = Cardinality(V1) + Cardinality(V2) - Cardinality(V1 \cap V2)
    BY <1>4, <1>5, FS_Union, Zenon
  <2> QED BY <1>2, <1>4, <1>5, <2>1, <2>2, FS_CardinalityType
<1>7. Cardinality(V) \in Nat
  <2>1. IsFiniteSet(V)
    BY <1>2, PbidFinite, FS_Subset
  <2> QED BY <2>1, FS_CardinalityType
<1>8. /\ zone[y].weight >= DiskWp[y] + LiveBlocks(y)
      /\ LiveMap(y) \in Nat /\ LiveWrite(y) \in Nat /\ LiveOld(y) \in Nat /\ LiveCopy(y) \in Nat /\ LiveSource(y) \in Nat
      /\ LiveBlocks(y) = LiveMap(y) + LiveWrite(y) + LiveOld(y) + LiveCopy(y) + LiveSource(y)
  BY LiveNat DEF WeightAtLeast
<1> QED BY <1>1, <1>3, <1>4, <1>5, <1>6, <1>7, <1>8

\* What a step does to the blocks GC may take, to the write pointers and to the marks.
LEMMA RoomSteps ==
    ASSUME TypeOK, TaskInv, FactsInv, PlaceInv, [Next]_vars, ~GcSelect
    PROVE  \/ /\ Allocable' = Allocable
              /\ \A z \in Zone : zone'[z].wp_block = zone[z].wp_block /\ (Marked(z) => Marked(z)')
           \/ Allocable' >= Allocable /\ Allocable' >= ZoneNrBlocks
           \/ \E t \in UTasks, s \in Streams : WriteTakes(t, s)
           \/ \E p \in Pbid, s \in Streams : CopyTakes(p, s)
<1>1. zone \in [Zone -> ZoneRec]
  BY DEF TypeOK, ZmdTypeOK
<1>2. ASSUME UNCHANGED <<nr_allocable_blks, zs>> PROVE Allocable' = Allocable
  BY <1>2 DEF Allocable
<1>3. CASE Calm
  <2>1. UNCHANGED <<nr_allocable_blks, zs>>
    BY <1>3 DEF Calm, listVars
  <2>2. \A z \in Zone : zone'[z].wp_block = zone[z].wp_block /\ (Marked(z) => Marked(z)')
    BY <1>3 DEF Calm, ZonesRefer, Refers, MarksAlike, Marked
  <2> QED BY <1>2, <2>1, <2>2
<1>4. CASE (\E t \in UTasks : WComplete(t)) \/ (\E p \in Pbid : GEndio(p))
  <2>1. UNCHANGED <<nr_allocable_blks, zs>>
    BY <1>4 DEF WComplete, GEndio, listVars
  <2>2. PICK y : zone' = [zone EXCEPT ![y] = lbz_zone_complete_write(@)]
    BY <1>4 DEF WComplete, GEndio
  <2>3. ASSUME NEW z \in Zone PROVE SameZone(zone'[z], zone[z])
    <3>1. zone'[z] = zone[z] \/ zone'[z] = lbz_zone_complete_write(zone[z])
      BY <1>1, <2>2
    <3>2. SameZone(lbz_zone_complete_write(zone[z]), zone[z])
      BY <1>1, GetFields
    <3> QED BY <3>1, <3>2 DEF SameZone
  <2>4. \A z \in Zone : zone'[z].wp_block = zone[z].wp_block /\ (Marked(z) => Marked(z)')
    BY <2>3 DEF SameZone, Marked
  <2> QED BY <1>2, <2>1, <2>4
<1>5. CASE ZoneStateWork
  BY <1>5, WorkerReserve
<1> QED BY <1>3, <1>4, <1>5, NextZones DEF Calmer

\* A block taken is one block less; a user write leaves the reserve to GC.
LEMMA TakesRoom ==
    ASSUME TypeOK, PlaceInv, NEW flag, NEW s \in Streams, lbz_zone_alloc_res(flag, s)
    PROVE  /\ Allocable \in Nat /\ Allocable' = Allocable - 1
           /\ flag = "USER" => Allocable' >= ZoneNrBlocks - 1
           /\ \A z \in Zone : Marked(z) => Marked(z)'
<1>1. PICK z : z = TargetZone(s)
  OBVIOUS
<1>2. /\ z \in Zone /\ Listed(z) /\ Unmarked(z) /\ \A y \in Zone : y # z => zone'[y] = zone[y]
      /\ nr_allocable_blks' = nr_allocable_blks - 1 /\ zs' = zs
  BY <1>1, AllocFx DEF PlaceInv
<1>3. nr_allocable_blks \in Nat /\ ZoneNrBlocks \in Nat
  BY RoomNat, DevAssumption
<1>4. \A y \in Zone : Marked(y) => Marked(y)'
  BY <1>2 DEF Marked, Unmarked
<1>5. flag = "USER" => nr_allocable_blks >= ZoneNrBlocks
  BY <1>3 DEF lbz_zone_alloc_res, AllocSucceeds, AllocDenied, reserved_blks_gc
<1> QED BY <1>2, <1>3, <1>4, <1>5 DEF Allocable

\* A write that was handed a GC task moves the block of that task.
LEMMA WriteServes ==
    ASSUME TypeOK, TaskInv, FactsInv, WaitFacts, PlaceInv, CopiesMarked, GcZoneOnly, CopiesBehind, CopiesBehind',
           TypeOK', [Next]_vars,
           NEW t \in UTasks, NEW s \in Streams, WriteTakes(t, s), NEW p \in Pbid, wt[t].pending_gc_node = p
    PROVE  p \in GcDemand /\ p \notin GcDemand' /\ Marked(p[1])
<1>1. gt[p].pc = "agency" /\ p # NULL
  BY DevAssumption DEF TaskInv, PendingAgency
<1>2. p \in GcDemand /\ Marked(p[1])
  <2>1. Unserved(t)
    BY DEF WriteTakes, FactsInv, WtZones, Unserved
  <2> QED BY <1>1, <2>1 DEF GcDemand, CopiesMarked
<1>3. gt' = gt /\ wt'[t].zone = TargetZone(s) /\ lbz_zone_alloc_res(AllocFlag(t), s)
  BY WGotZoneFx DEF WriteTakes
<1>4. ~Unserved(t)'
  <2>1. PICK z : z = TargetZone(s)
    OBVIOUS
  <2>2. z \in Zone
    BY <1>3, <2>1, AllocFx DEF PlaceInv
  <2> QED BY <1>3, <2>1, <2>2, DevAssumption DEF Unserved
<1>5. ASSUME NEW u \in UTasks, wt'[u].pending_gc_node = p PROVE u = t
  <2>1. wt[u].pending_gc_node = p
    <3>1. ~GAgency(p)
      BY <1>1 DEF GAgency
    <3> QED BY <1>5, <3>1, NextPending
  <2> QED BY <1>1, <2>1 DEF TaskInv, PendingAgency
<1>6. ~(gc'.pc = "iter" /\ p[1] = gc'.gc_zone /\ p[2] >= gc'.iter)
  <2>1. gc'.pc = "iter" => p[2] < gc'.iter
    BY <1>1, <1>3 DEF CopiesBehind
  <2>2. p[2] \in Int /\ gc'.iter \in Int
    BY DevAssumption DEF TypeOK, GcTypeOK, GcRec, Pbid, Offset
  <2> QED BY <2>1, <2>2
<1> QED BY <1>1, <1>2, <1>3, <1>4, <1>5, <1>6 DEF GcDemand, Needing

\* A copy that is given a block needs none any more.
LEMMA CopyServes ==
    ASSUME TypeOK, TypeOK', CopiesMarked, CopiesBehind',
           NEW p \in Pbid, NEW s \in Streams, CopyTakes(p, s)
    PROVE  p \in GcDemand /\ p \notin GcDemand' /\ Marked(p[1])
<1>1. gt[p].pc \in Needing /\ gt'[p].pc = "append"
  BY GGotZoneFx DEF CopyTakes, Needing
<1>2. p \in GcDemand /\ Marked(p[1])
  BY <1>1 DEF GcDemand, Needing, CopiesMarked
<1>3. ~(gc'.pc = "iter" /\ p[2] >= gc'.iter)
  <2>1. gc'.pc = "iter" => p[2] < gc'.iter
    BY <1>1 DEF CopiesBehind
  <2>2. p[2] \in Int /\ gc'.iter \in Int
    BY DevAssumption DEF TypeOK, GcTypeOK, GcRec, Pbid, Offset
  <2> QED BY <2>1, <2>2
<1> QED BY <1>1, <1>2, <1>3 DEF GcDemand

\* The zone lbz_find_victim_zone takes has fewer valid blocks than the reserve.
LEMMA SelectReserve ==
    ASSUME TypeOK, FactsInv, PlaceInv, QuietZones, WeightAtLeast, ReverseForward, CopiesMarked, GcZoneOnly,
           errors = 0, ReserveInv, CopiesBehind', GcSelect
    PROVE  ReserveInv'
<1>1. PICK y \in Zone : Chooses(y)
  BY SelectMarks
<1>2. zone[y].weight < ZoneNrBlocks /\ UNCHANGED <<nr_allocable_blks, zs>>
  <2>1. PICK z \in lbz_find_victim_zone(gc.mod) : gc' = [pc |-> "iter", mod |-> "DEFAULT", gc_zone |-> z, iter |-> 0]
    BY DEF GcSelect
  <2>2. z = y
    BY <1>1, <2>1 DEF Chooses
  <2> QED BY <2>1, <2>2 DEF GcSelect, lbz_find_victim_zone
<1>3. /\ \A z \in Zone : ~Marked(z)
      /\ \A p \in Pbid : gt[p].pc \in {"none", "fault"}
  <2>1. \A z \in Zone : ~Marked(z)
    BY <1>1, NoneMarked DEF Chooses
  <2>2. \A p \in Pbid : p[1] \in Zone
    BY DEF Pbid
  <2> QED BY <2>1, <2>2 DEF CopiesMarked
<1>4. PICK V : V = {p \in Pbid : p[1] = y /\ zrms[p] # INVALID}
  OBVIOUS
<1>5. /\ Cardinality(V) \in Nat /\ DiskWp[y] + Cardinality(V) <= zone[y].weight
      /\ zone[y].weight \in Int /\ DiskWp[y] \in Nat /\ ZoneNrBlocks \in Nat
  <2>1. zone[y].weight \in Int /\ DiskWp[y] \in Nat /\ ZoneNrBlocks \in Nat
    BY ZmdAssumption, DevAssumption DEF TypeOK, ZmdTypeOK, ZoneRec
  <2> QED BY <1>3, <1>4, <2>1, ValidWeighed
<1>6. PICK E : E = GcDemand'
  OBVIOUS
<1>7. Cardinality(E) \in Nat /\ Cardinality(E) <= Cardinality(V)
  <2>1. E \in SUBSET V
    BY <1>1, <1>3, <1>4, <1>6 DEF Chooses, ioVars, GcDemand
  <2>2. V \in SUBSET Pbid
    BY <1>4
  <2> QED BY <2>1, <2>2, PbidFinite, CountLess
<1>8. ~Untouched
  <2>1. zone[y].wp_block = ZoneNrBlocks
    BY <1>1 DEF Chooses, QuietZones
  <2> QED BY <1>2, <1>5, <2>1 DEF Untouched
<1>9. Allocable >= ZoneNrBlocks - 1 /\ Allocable' = Allocable /\ Allocable \in Nat
  <2>1. Allocable >= ZoneNrBlocks - 1 /\ Allocable' = Allocable
    BY <1>2, <1>3, <1>8 DEF ReserveInv, Allocable
  <2> QED BY <2>1, <1>5, RoomNat DEF Allocable
<1>10. Cardinality(E) < ZoneNrBlocks /\ Allocable' >= Cardinality(E)
  BY <1>2, <1>5, <1>7, <1>9
<1>11. Marked(y)'
  BY <1>1 DEF Chooses
<1> QED BY <1>6, <1>10, <1>11 DEF ReserveInv, GcReserve, Allocable

\* What GC needs after a step other than its choice.
LEMMA FewerNeeded ==
    ASSUME Surroundings, Surroundings', GcInv, GcInv', ReserveInv, Undisturbed, Undisturbed', [Next]_vars, ~GcSelect,
           NEW n, n = Cardinality(GcDemand), NEW m, m = Cardinality(GcDemand')
    PROVE  /\ CopiesBehind' /\ n \in Nat /\ m \in Nat /\ m <= n
           /\ \A p \in Pbid : p \in GcDemand /\ p \notin GcDemand' => m + 1 <= n
<1>1. /\ TypeOK /\ TaskInv /\ FactsInv /\ FactsInv' /\ PlaceInv /\ PendingExact /\ QuietZones /\ WaitFacts
      /\ TaskRefExact /\ DataKnown
  BY DEF Surroundings, BlockInv
<1>2. CopiesMarked /\ GcZoneOnly /\ Attached /\ GcTasksDisjoint' /\ CopiesBehind
  BY DEF GcInv, ReserveInv
<1>3. ZoneMgmtApproved /\ errors = 0 /\ errors' = 0
  BY DEF Undisturbed
<1>4. CopiesBehind'
  BY <1>1, <1>2, <1>3, NextBehind
<1>5. PICK D, E : D = GcDemand /\ E = GcDemand'
  OBVIOUS
<1>6. E \in SUBSET D /\ D \in SUBSET Pbid
  <2>1. D \in SUBSET Pbid
    BY <1>5 DEF GcDemand
  <2> QED BY <1>1, <1>2, <1>3, <1>5, <2>1, NextDemand
<1>7. /\ Cardinality(D) \in Nat /\ Cardinality(E) \in Nat /\ Cardinality(E) <= Cardinality(D)
      /\ \A c \in D : c \notin E => Cardinality(E) + 1 <= Cardinality(D)
  BY <1>6, PbidFinite, CountLess
<1> QED BY <1>4, <1>5, <1>7

\* One step keeps the reserve while nothing disturbs it.
LEMMA NextReserve ==
    ASSUME Surroundings, Surroundings', WeightAtLeast, GcInv, GcInv', ReserveInv, Undisturbed, Undisturbed',
           [Next]_vars
    PROVE  ReserveInv'
<1>1. /\ TypeOK /\ TypeOK' /\ TaskInv /\ FactsInv /\ PlaceInv /\ PlaceInv' /\ QuietZones /\ WaitFacts /\ ReverseForward
      /\ CopiesMarked /\ GcZoneOnly /\ CopiesBehind /\ errors = 0
  BY DEF Surroundings, BlockInv, GcInv, ReserveInv, Undisturbed
<1>2. CASE GcSelect
  <2>1. CopiesBehind'
    <3>1. /\ PendingExact /\ GcTasksDisjoint' /\ errors' = 0
      BY DEF Surroundings, GcInv, Undisturbed
    <3> QED BY <1>1, <3>1, NextBehind
  <2> QED BY <1>1, <1>2, <2>1, SelectReserve
<1>3. CASE ~GcSelect
  <2>1. PICK n, m : n = Cardinality(GcDemand) /\ m = Cardinality(GcDemand')
    OBVIOUS
  <2>2. /\ CopiesBehind' /\ n \in Nat /\ m \in Nat /\ m <= n
        /\ \A p \in Pbid : p \in GcDemand /\ p \notin GcDemand' => m + 1 <= n
    BY <1>3, <2>1, FewerNeeded
  <2>3. Allocable \in Nat /\ Allocable' \in Int /\ ZoneNrBlocks \in Nat
    <3>1. nr_allocable_blks \in Nat /\ nr_allocable_blks' \in Int
      BY <1>1, RoomNat DEF TypeOK, ZmdTypeOK
    <3> QED BY <3>1, DevAssumption DEF Allocable
  <2>4. /\ Allocable >= n /\ n < ZoneNrBlocks
        /\ (\A z \in Zone : ~Marked(z)) => Allocable >= ZoneNrBlocks - 1 \/ Untouched
    BY <2>1 DEF ReserveInv, GcReserve, Allocable
  <2>5. ASSUME Allocable' >= m,
               (\A z \in Zone : ~Marked(z)') => Allocable' >= ZoneNrBlocks - 1 \/ Untouched'
        PROVE  ReserveInv'
    <3>1. m < ZoneNrBlocks
      BY <2>2, <2>3, <2>4
    <3> QED BY <2>1, <2>2, <2>5, <3>1 DEF ReserveInv, GcReserve, Allocable
  <2>6. CASE /\ Allocable' = Allocable
             /\ \A z \in Zone : zone'[z].wp_block = zone[z].wp_block /\ (Marked(z) => Marked(z)')
    BY <2>2, <2>3, <2>4, <2>5, <2>6 DEF Untouched
  <2>7. CASE Allocable' >= Allocable /\ Allocable' >= ZoneNrBlocks
    BY <2>2, <2>3, <2>4, <2>5, <2>7
  <2>8. ASSUME NEW t \in UTasks, NEW s \in Streams, WriteTakes(t, s) PROVE ReserveInv'
    <3>1. lbz_zone_alloc_res(AllocFlag(t), s)
      BY <1>1, <2>8, WGotZoneFx DEF WriteTakes
    <3>2. /\ Allocable' = Allocable - 1 /\ (AllocFlag(t) = "USER" => Allocable' >= ZoneNrBlocks - 1)
          /\ \A z \in Zone : Marked(z) => Marked(z)'
      BY <1>1, <3>1, TakesRoom
    <3>3. CASE wt[t].pending_gc_node = NULL
      <4>1. Allocable' >= ZoneNrBlocks - 1
        BY <3>2, <3>3 DEF AllocFlag
      <4> QED BY <2>2, <2>3, <2>4, <2>5, <4>1
    <3>4. CASE wt[t].pending_gc_node # NULL
      <4>1. PICK p \in Pbid : wt[t].pending_gc_node = p
        BY <1>1, <3>4 DEF TypeOK, IoTypeOK, WtRec
      <4>2. p \in GcDemand /\ p \notin GcDemand' /\ Marked(p[1])
        BY <1>1, <2>2, <2>8, <4>1, WriteServes
      <4>3. Allocable' >= m
        BY <2>2, <2>3, <2>4, <3>2, <4>2
      <4>4. p[1] \in Zone /\ Marked(p[1])'
        BY <3>2, <4>2 DEF Pbid
      <4> QED BY <2>5, <4>3, <4>4
    <3> QED BY <3>3, <3>4
  <2>9. ASSUME NEW p \in Pbid, NEW s \in Streams, CopyTakes(p, s) PROVE ReserveInv'
    <3>1. lbz_zone_alloc_res("GC", s)
      BY <1>1, <2>9, GGotZoneFx DEF CopyTakes
    <3>2. Allocable' = Allocable - 1 /\ \A z \in Zone : Marked(z) => Marked(z)'
      BY <1>1, <3>1, TakesRoom
    <3>3. p \in GcDemand /\ p \notin GcDemand' /\ Marked(p[1])
      BY <1>1, <2>2, <2>9, CopyServes
    <3>4. Allocable' >= m
      BY <2>2, <2>3, <2>4, <3>2, <3>3
    <3>5. p[1] \in Zone /\ Marked(p[1])'
      BY <3>2, <3>3 DEF Pbid
    <3> QED BY <2>5, <3>4, <3>5
  <2> QED BY <1>1, <1>3, <2>6, <2>7, <2>8, <2>9, RoomSteps
<1> QED BY <1>2, <1>3

\* Nothing is collected at the start.
LEMMA InitReserve ==
    ASSUME Init
    PROVE  ReserveInv
<1>1. /\ \A p \in Pbid : gt[p].pc = "none"
      /\ gc.pc = "idle" /\ zs.pc = "idle" /\ zone = [z \in Zone |-> InitZone(z)]
  BY DEF Init, IoInit, GcInit, ZmdInit, NoGcTask
<1>2. GcDemand = {} /\ CopiesBehind
  BY <1>1 DEF GcDemand, CopiesBehind
<1>3. Untouched
  BY <1>1 DEF Untouched, InitZone
<1>4. nr_allocable_blks \in Nat /\ ZoneNrBlocks \in Nat \ {0}
  BY InitType, InitPlace, RoomNat, DevAssumption
<1>5. Cardinality(GcDemand) = 0
  BY <1>2, FS_EmptySet
<1> QED BY <1>1, <1>2, <1>3, <1>4, <1>5 DEF ReserveInv, GcReserve

\* GC always finds a block for every copy it has still to make: user writes leave it
\* one zone, and the zone it chose has fewer valid blocks than that.
THEOREM ReserveSuffices == Spec /\ []Undisturbed => []GcReserve
<1>1. /\ WeightInv => WeightAtLeast
      /\ ReserveInv => GcReserve
  BY DEF WeightInv, ReserveInv
<1>2. Surroundings /\ Surroundings' /\ WeightAtLeast /\ GcInv /\ GcInv' /\ ReserveInv /\ Undisturbed /\ Undisturbed'
      /\ [Next]_vars => ReserveInv'
  BY NextReserve
<1> QED BY <1>1, <1>2, InitReserve, GcInductive, MapInductive, PTL DEF Spec
=============================================================================
