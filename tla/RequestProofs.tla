---------------------------- MODULE RequestProofs ----------------------------
(***************************************************************************)
(* Proofs about LbzRequest: a user's bio is completed once, by the last of *)
(* its parts to end, with the status its parts deserve, and the in-flight  *)
(* counters say when nothing is left.                                      *)
(***************************************************************************)
EXTENDS LbzRequest, NumberLemmas, TLAPS

-----------------------------------------------------------------------------
(* The inductive invariant.                                                *)

\* How far lbz_dev_submit_bio is with bio b.
BioAt(b) ==
    /\ bio[b].pc = "new" => bio[b].parts = 0
    /\ bio[b].pc = "split" => bio[b].next <= bio[b].parts
    /\ bio[b].pc # "split" => bio[b].next = bio[b].parts + 1
    /\ bio[b].pc = "wait" => bio[b].parts > 0
    /\ \A i \in 1 .. bio[b].parts : bio[b].start + i - 1 \in Blks
BioFacts == \A b \in Bios : BioAt(b)

\* A part exists once it is submitted; only writes have tasks to retry.
PartAt(p) ==
    /\ part[p].pc = "none" <=> p[2] >= bio[p[1]].next
    /\ part[p].pc = "none" => part[p] = NoPart
    /\ part[p].pc \in {"insert", "alloc", "queued"} => IsWrite(p)
    /\ ~IsWrite(p) => part[p].by # "retry"
    /\ ~IsWrite(p) /\ part[p].pc = "finish" => part[p].by = "device"
    /\ part[p].pc = "dec" => bio[p[1]].parts > 1
PartFacts == \A p \in Part : PartAt(p)

\* The parts of bio b that have not ended, as far as its context knows: those
\* submitted, and the one that is next or last.
Open(b) == {i \in 1 .. bio[b].parts : i <= bio[b].next /\ ~Ended(<<b, i>>)}

\* remaining counts them, and the bio is completed when there are none.
CtxAt(b) ==
    /\ ctx[b].live <=> bio[b].parts > 1 /\ bio[b].pc \in {"split", "wait"}
    /\ bio[b].parts > 1 => ctx[b].remaining = Cardinality(Open(b))
    /\ bio[b].pc = "done" => Open(b) = {}
    /\ bio[b].pc \in {"split", "wait"} => Open(b) # {}
CtxFacts == \A b \in Bios : CtxAt(b)

\* Where the error of a part is kept until the bio is completed.
ErrAt(p) ==
    /\ part[p].err => p[2] # bio[p[1]].parts /\ dev.faulty
    /\ part[p].err /\ part[p].pc # "error" => bio[p[1]].status = "ERR"
    /\ IsWrite(p) /\ part[p].pc \in {"error", "dec", "finish", "done"} =>
          part[p].mapped \/ part[p].err \/ (IsUserBio(p) /\ bio[p[1]].status = "ERR")
ErrFacts == \A p \in Part : ErrAt(p)
StatusFacts == \A b \in Bios : bio[b].status = "ERR" => dev.faulty

\* A part in the tree is a write that is not over.
TreeFacts ==
    \A x \in Blks : tree[x] # NULL =>
        /\ IsWrite(tree[x])
        /\ part[tree[x]].pc \notin {"none", "done"}

\* A part on a list is queued, and on it once.
ListFacts ==
    /\ \A k \in 1 .. Len(pending) : part[pending[k]].pc = "queued"
    /\ \A k \in 1 .. Len(wk) : part[wk[k]].pc = "queued"
    /\ \A j, k \in 1 .. Len(pending) : pending[j] = pending[k] => j = k
    /\ \A j, k \in 1 .. Len(wk) : wk[j] = wk[k] => j = k
    /\ \A j \in 1 .. Len(pending), k \in 1 .. Len(wk) : pending[j] # wk[k]

\* What the two counters count.
Writing(p) == IsWrite(p) /\ part[p].pc \notin {"none", "done"}
Reading(p) ==
    /\ ~IsWrite(p)
    /\ part[p].pc = "device" \/ (part[p].pc \in {"error", "dec", "finish"} /\ part[p].by = "device")
CountFacts ==
    /\ inflight.write = Cardinality({p \in Part : Writing(p)})
    /\ inflight.read = Cardinality({p \in Part : Reading(p)})

ReqInv ==
    /\ TypeOK /\ BioFacts /\ PartFacts /\ CtxFacts /\ ErrFacts /\ StatusFacts
    /\ TreeFacts /\ ListFacts /\ CountFacts

-----------------------------------------------------------------------------
(* What the steps do to the parts and the bios.                            *)

\* A part is a bio and a number.
LEMMA PartPair ==
    /\ \A p \in Part : p[1] \in Bios /\ p[2] \in 1 .. MaxParts /\ p = <<p[1], p[2]>>
    /\ \A b \in Bios, i \in 1 .. MaxParts : <<b, i>> \in Part /\ <<b, i>>[1] = b /\ <<b, i>>[2] = i
    /\ NULL \notin Part /\ MaxParts \in Nat \ {0}
  BY RequestAssumption DEF Part

PartFrame(p)  == \A q \in Part : q # p => part'[q] = part[q]
BioFrame(b)   == \A c \in Bios : c # b => bio'[c] = bio[c]
BioShape(b)   == /\ bio'[b].op = bio[b].op /\ bio'[b].start = bio[b].start /\ bio'[b].parts = bio[b].parts
                 /\ bio'[b].next = bio[b].next /\ bio'[b].admitted = bio[b].admitted
SameFields(p) == part'[p].by = part[p].by /\ part'[p].err = part[p].err /\ part'[p].mapped = part[p].mapped
                 /\ part'[p].status = part[p].status

\* A write moves inside __submit_write_task, or to the device.
Moves(p) ==
    /\ part[p].pc \in {"insert", "alloc", "queued"} /\ part'[p].pc \in {"insert", "alloc", "queued", "device"}
    /\ part'[p].err = part[p].err
    /\ PartFrame(p) /\ UNCHANGED <<bio, ctx, inflight, dev>>

\* A part ends, and its bi_status says how.
Ends(p, failed) ==
    /\ part[p].pc \in {"alloc", "device"} /\ part'[p].pc = "error"
    /\ part'[p].err <=> failed /\ ~IsUserBio(p)
    /\ IsWrite(p) /\ ~failed => part'[p].mapped
    /\ part'[p].by = IF part[p].pc = "device" THEN "device" ELSE part[p].by
    /\ bio'[p[1]].pc = bio[p[1]].pc
    /\ bio'[p[1]].status = IF failed /\ IsUserBio(p) THEN "ERR" ELSE bio[p[1]].status
    /\ failed => dev'.faulty
    /\ dev.faulty => dev'.faulty
    /\ PartFrame(p) /\ BioFrame(p[1]) /\ BioShape(p[1]) /\ UNCHANGED <<ctx, pending, wk, inflight>>

\* A part that ended has told its bio, and the bio of one part is completed.
Told(p) ==
    /\ part[p].pc = "error" /\ SameFields(p)
    /\ \/ /\ bio[p[1]].parts > 1 /\ part'[p].pc = "dec" /\ bio'[p[1]].pc = bio[p[1]].pc
          /\ bio'[p[1]].status = IF BiStatus(p) THEN "ERR" ELSE bio[p[1]].status
       \/ /\ bio[p[1]].parts = 1 /\ part'[p].pc = AfterEnd(p) /\ bio'[p[1]].pc = "done"
          /\ bio'[p[1]].status = bio[p[1]].status
    /\ PartFrame(p) /\ BioFrame(p[1]) /\ BioShape(p[1])
    /\ UNCHANGED <<ctx, tree, pending, wk, inflight, dev>>

\* A part is taken off the count of its bio.
Counted(p) ==
    /\ part[p].pc = "dec" /\ SameFields(p) /\ part'[p].pc = AfterEnd(p)
    /\ ctx'[p[1]].remaining = ctx[p[1]].remaining - 1
    /\ ctx'[p[1]].live <=> ctx[p[1]].live /\ ctx[p[1]].remaining - 1 # 0
    /\ \A c \in Bios : c # p[1] => ctx'[c] = ctx[c]
    /\ bio'[p[1]].pc = IF ctx[p[1]].remaining - 1 = 0 THEN "done" ELSE bio[p[1]].pc
    /\ bio'[p[1]].status = bio[p[1]].status
    /\ PartFrame(p) /\ BioFrame(p[1]) /\ BioShape(p[1]) /\ UNCHANGED <<tree, pending, wk, inflight, dev>>

\* EndsWith, whatever failed.
LEMMA EndsWithFx ==
    ASSUME TypeOK, NEW p \in Part, NEW failed, NEW rec \in PartRec, EndsWith(p, failed, rec)
    PROVE  /\ part'[p].pc = "error" /\ (part'[p].err <=> failed /\ ~IsUserBio(p))
           /\ part'[p].by = rec.by /\ part'[p].mapped = rec.mapped
           /\ bio'[p[1]].pc = bio[p[1]].pc
           /\ bio'[p[1]].status = IF failed /\ IsUserBio(p) THEN "ERR" ELSE bio[p[1]].status
           /\ PartFrame(p) /\ BioFrame(p[1]) /\ BioShape(p[1])
           /\ part' \in [Part -> PartRec] /\ bio' \in [Bios -> BioRec]
<1>1. part \in [Part -> PartRec] /\ bio \in [Bios -> BioRec] /\ p[1] \in Bios
  BY PartPair DEF TypeOK
<1>2. PICK e \in BOOLEAN : e <=> failed /\ ~IsUserBio(p)
  OBVIOUS
<1>3. part' = [part EXCEPT ![p] = [rec EXCEPT !.pc = "error", !.err = failed /\ ~IsUserBio(p)]]
  BY DEF EndsWith
<1>4. (failed /\ ~IsUserBio(p)) = e
  BY <1>2
<1>5. part' = [part EXCEPT ![p] = [rec EXCEPT !.pc = "error", !.err = e]]
  BY <1>3, <1>4, Zenon
<1>6. [rec EXCEPT !.pc = "error", !.err = e] \in PartRec
  BY DEF PartRec, PartPc
<1>7. /\ part'[p].pc = "error" /\ part'[p].err = e /\ part'[p].by = rec.by /\ part'[p].mapped = rec.mapped
      /\ PartFrame(p) /\ part' \in [Part -> PartRec]
  BY <1>1, <1>5, <1>6 DEF PartFrame, PartRec
<1>8. CASE failed /\ IsUserBio(p)
  <2>1. bio' = [bio EXCEPT ![p[1]].status = "ERR"]
    BY <1>8 DEF EndsWith
  <2>2. /\ bio'[p[1]].pc = bio[p[1]].pc /\ bio'[p[1]].status = "ERR" /\ BioFrame(p[1]) /\ BioShape(p[1])
        /\ bio' \in [Bios -> BioRec]
    BY <1>1, <2>1 DEF BioFrame, BioShape, BioRec
  <2> QED BY <1>2, <1>7, <1>8, <2>2
<1>9. CASE ~(failed /\ IsUserBio(p))
  <2>1. bio' = bio
    BY <1>9 DEF EndsWith
  <2> QED BY <1>1, <1>2, <1>7, <1>9, <2>1 DEF BioFrame, BioShape
<1> QED BY <1>8, <1>9

\* The block of a part that exists is a block of the device.
LEMMA BlkType ==
    ASSUME TypeOK, BioFacts, PartFacts, NEW p \in Part, part[p].pc # "none"
    PROVE  BlkOf(p) \in Blks /\ p[2] \in 1 .. bio[p[1]].parts
<1>1. p[1] \in Bios /\ p[2] \in 1 .. MaxParts /\ bio[p[1]] \in BioRec
  BY PartPair DEF TypeOK
<1>2. p[2] < bio[p[1]].next
  BY <1>1 DEF PartFacts, PartAt, BioRec
<1>3. bio[p[1]].next <= bio[p[1]].parts + 1
  BY <1>1 DEF BioFacts, BioAt, BioRec
<1>4. p[2] \in 1 .. bio[p[1]].parts
  BY <1>1, <1>2, <1>3 DEF BioRec
<1> QED BY <1>1, <1>4 DEF BioFacts, BioAt, BlkOf

\* Insert: the part owns its block, or it waits.
LEMMA InsertFx ==
    ASSUME TypeOK, NEW p \in Part, Insert(p)
    PROVE  /\ Moves(p) /\ TypeOK' /\ UNCHANGED wk
           /\ \/ /\ part'[p].pc = "alloc" /\ tree' = [tree EXCEPT ![BlkOf(p)] = p] /\ UNCHANGED pending
              \/ part'[p].pc = "queued" /\ pending' = Append(pending, p) /\ UNCHANGED tree
<1>1. part \in [Part -> PartRec] /\ part[p].pc = "insert" /\ UNCHANGED <<bio, ctx, wk, inflight, mapped, room, dev>>
  BY DEF TypeOK, Insert
<1>2. CASE tree[BlkOf(p)] = NULL
  <2>1. part' = [part EXCEPT ![p].pc = "alloc", ![p].status = "ALLOC_RES"]
        /\ tree' = [tree EXCEPT ![BlkOf(p)] = p] /\ UNCHANGED pending
    BY <1>2 DEF Insert
  <2>2. part'[p].pc = "alloc" /\ part'[p].err = part[p].err /\ PartFrame(p) /\ part' \in [Part -> PartRec]
    <3>1. PICK d : d = [part[p] EXCEPT !.pc = "alloc", !.status = "ALLOC_RES"]
      OBVIOUS
    <3>2. d \in PartRec /\ d.pc = "alloc" /\ d.err = part[p].err
      BY <1>1, <3>1 DEF PartRec, PartPc
    <3>3. part' = [part EXCEPT ![p] = d]
      BY <1>1, <2>1, <3>1
    <3> QED BY <1>1, <3>2, <3>3 DEF PartFrame
  <2>3. tree' \in [Blks -> Part \cup {NULL}]
    BY <2>1 DEF TypeOK
  <2> QED BY <1>1, <2>1, <2>2, <2>3 DEF TypeOK, Moves
<1>3. CASE tree[BlkOf(p)] # NULL
  <2>1. part' = [part EXCEPT ![p].pc = "queued"] /\ pending' = Append(pending, p) /\ UNCHANGED tree
    BY <1>3 DEF Insert, Requeue
  <2>2. part'[p].pc = "queued" /\ part'[p].err = part[p].err /\ PartFrame(p) /\ part' \in [Part -> PartRec]
    BY <1>1, <2>1 DEF PartFrame, PartRec, PartPc
  <2>3. pending' \in Seq(Part)
    BY <2>1 DEF TypeOK
  <2> QED BY <1>1, <2>1, <2>2, <2>3 DEF TypeOK, Moves
<1> QED BY <1>2, <1>3

\* Alloc without a failure: the part waits, or goes to the device.
LEMMA AllocFx ==
    ASSUME TypeOK, NEW p \in Part, part[p].pc = "alloc", AllocEagain(p) \/ AllocDispatch(p),
           UNCHANGED <<ctx, wk, inflight>>
    PROVE  /\ Moves(p) /\ TypeOK' /\ UNCHANGED <<tree, wk>>
           /\ \/ part'[p].pc = "device" /\ UNCHANGED pending
              \/ part'[p].pc = "queued" /\ pending' = Append(pending, p)
<1>1. part \in [Part -> PartRec]
  BY DEF TypeOK
<1>2. CASE AllocEagain(p)
  <2>1. part' = [part EXCEPT ![p].pc = "queued"] /\ pending' = Append(pending, p)
        /\ UNCHANGED <<bio, tree, mapped, room, dev>>
    BY <1>2 DEF AllocEagain, Requeue
  <2>2. part'[p].pc = "queued" /\ part'[p].err = part[p].err /\ PartFrame(p) /\ part' \in [Part -> PartRec]
    BY <1>1, <2>1 DEF PartFrame, PartRec, PartPc
  <2>3. pending' \in Seq(Part)
    BY <2>1 DEF TypeOK
  <2> QED BY <2>1, <2>2, <2>3 DEF TypeOK, Moves
<1>3. CASE AllocDispatch(p)
  <2>1. part' = [part EXCEPT ![p].pc = "device", ![p].status = "DISPATCH"] /\ room > 0 /\ room' = room - 1
        /\ UNCHANGED <<bio, tree, pending, mapped, dev>>
    BY <1>3 DEF AllocDispatch
  <2>2. PICK d : d = [part[p] EXCEPT !.pc = "device", !.status = "DISPATCH"]
    OBVIOUS
  <2>4. d \in PartRec /\ d.pc = "device" /\ d.err = part[p].err
    BY <1>1, <2>2 DEF PartRec, PartPc
  <2>5. part' = [part EXCEPT ![p] = d]
    BY <1>1, <2>1, <2>2
  <2>6. part'[p].pc = "device" /\ part'[p].err = part[p].err /\ PartFrame(p) /\ part' \in [Part -> PartRec]
    BY <1>1, <2>4, <2>5 DEF PartFrame
  <2>3. room' \in 0 .. Room
    BY <2>1, RequestAssumption DEF TypeOK
  <2> QED BY <2>1, <2>3, <2>6 DEF TypeOK, Moves
<1> QED BY <1>2, <1>3

\* The three ways a part ends.
LEMMA EndFx ==
    ASSUME TypeOK, BioFacts, PartFacts, NEW p \in Part,
           \/ part[p].pc = "alloc" /\ (AllocEio(p) \/ AllocMetaFails(p)) /\ UNCHANGED <<ctx, wk, inflight>>
           \/ DeviceEnds(p, FALSE)
           \/ DeviceFails(p)
    PROVE  /\ \E failed \in BOOLEAN : Ends(p, failed)
           /\ TypeOK' /\ (tree' = tree \/ tree' = [tree EXCEPT ![BlkOf(p)] = NULL])
<1>1. part \in [Part -> PartRec] /\ part[p] \in PartRec /\ tree \in [Blks -> Part \cup {NULL}]
  BY DEF TypeOK
<1>2. CASE part[p].pc = "alloc" /\ AllocEio(p) /\ UNCHANGED <<ctx, wk, inflight>>
  <2>1. /\ EndsWith(p, TRUE, part[p]) /\ dev.faulty /\ tree' = [tree EXCEPT ![BlkOf(p)] = NULL]
        /\ UNCHANGED <<ctx, wk, inflight, pending, mapped, room, dev>>
    BY <1>2 DEF AllocEio
  <2>2. Ends(p, TRUE) /\ part' \in [Part -> PartRec] /\ bio' \in [Bios -> BioRec]
    BY <1>1, <1>2, <2>1, EndsWithFx DEF Ends
  <2>3. tree' \in [Blks -> Part \cup {NULL}]
    BY <1>1, <2>1
  <2> QED BY <2>1, <2>2, <2>3 DEF TypeOK
<1>3. CASE part[p].pc = "alloc" /\ AllocMetaFails(p) /\ UNCHANGED <<ctx, wk, inflight>>
  <2>1. PICK r : r = [[part[p] EXCEPT !.status = "IO_WRITING"] EXCEPT !.mapped = IsWrite(p) /\ ~TRUE]
    OBVIOUS
  <2>2. EndsWith(p, TRUE, r) /\ mapped' = mapped
    BY <1>3, <2>1 DEF AllocMetaFails, Unhook
  <2>3. r \in PartRec /\ r.by = part[p].by
    BY <1>1, <2>1 DEF PartRec
  <2>4. dev' = [dev EXCEPT !.faulty = TRUE, !.meta = @ + 1] /\ dev.meta < MaxMetaErrors /\ room > 0
        /\ room' = room - 1 /\ UNCHANGED <<ctx, wk, inflight, tree, pending>>
    BY <1>3 DEF AllocMetaFails
  <2>5. dev' \in [faulty : BOOLEAN, errors : 0 .. MaxErrors, meta : 0 .. MaxMetaErrors, oops : BOOLEAN]
        /\ dev'.faulty /\ room' \in 0 .. Room
    <3>1. dev \in [faulty : BOOLEAN, errors : 0 .. MaxErrors, meta : 0 .. MaxMetaErrors, oops : BOOLEAN]
          /\ room \in 0 .. Room
      BY DEF TypeOK
    <3>2. PICK n \in 0 .. MaxMetaErrors : n = dev.meta + 1
      <4>1. dev.meta \in 0 .. MaxMetaErrors /\ dev.meta < MaxMetaErrors
        BY <2>4, <3>1
      <4> QED BY <4>1, RequestAssumption
    <3>3. dev' = [dev EXCEPT !.faulty = TRUE, !.meta = n]
      BY <2>4, <3>2
    <3>4. room' \in 0 .. Room
      BY <2>4, <3>1, RequestAssumption
    <3> QED BY <3>1, <3>3, <3>4
  <2>6. Ends(p, TRUE) /\ part' \in [Part -> PartRec] /\ bio' \in [Bios -> BioRec]
    BY <1>3, <2>2, <2>3, <2>4, <2>5, EndsWithFx DEF Ends
  <2> QED BY <2>2, <2>4, <2>5, <2>6 DEF TypeOK
<1>4. ASSUME NEW f \in BOOLEAN, DeviceEnds(p, f), f => dev.errors < MaxErrors
      PROVE  (\E failed \in BOOLEAN : Ends(p, failed)) /\ TypeOK' /\ tree' = tree
  <2>1. PICK g \in BOOLEAN : g <=> f \/ BiStatus(p)
    OBVIOUS
  <2>2. (f \/ BiStatus(p)) = g
    BY <2>1
  <2>3. Unhook(p, g, [part[p] EXCEPT !.by = "device"])
    BY <1>4, <2>2, Zenon DEF DeviceEnds
  <2>4. PICK m \in BOOLEAN : m <=> IsWrite(p) /\ ~g
    OBVIOUS
  <2>5. (IsWrite(p) /\ ~g) = m
    BY <2>4
  <2>6. PICK r : r = [[part[p] EXCEPT !.by = "device"] EXCEPT !.mapped = m]
    OBVIOUS
  <2>7. EndsWith(p, g, r)
    BY <2>3, <2>5, <2>6, Zenon DEF Unhook
  <2>8. r \in PartRec /\ r.by = "device" /\ r.mapped = m
    BY <1>1, <2>6 DEF PartRec
  <2>9. part[p].pc = "device" /\ UNCHANGED <<ctx, tree, pending, wk, inflight, room>>
        /\ dev' = [dev EXCEPT !.errors = IF f THEN @ + 1 ELSE @, !.faulty = @ \/ f \/ BiStatus(p)]
    BY <1>4 DEF DeviceEnds
  <2>10. mapped' \subseteq Blks
    <3>1. BlkOf(p) \in Blks
      BY <2>9, BlkType
    <3> QED BY <2>3, <3>1 DEF Unhook, TypeOK
  <2>11. /\ dev' \in [faulty : BOOLEAN, errors : 0 .. MaxErrors, meta : 0 .. MaxMetaErrors, oops : BOOLEAN]
         /\ dev'.faulty <=> dev.faulty \/ g
    <3>1. PICK e \in BOOLEAN : e <=> dev.faulty \/ f \/ BiStatus(p)
      OBVIOUS
    <3>2. (dev.faulty \/ f \/ BiStatus(p)) = e
      BY <3>1
    <3>3. PICK n : n = IF f THEN dev.errors + 1 ELSE dev.errors
      OBVIOUS
    <3>4. n \in 0 .. MaxErrors
      BY <1>4, <3>3, RequestAssumption DEF TypeOK
    <3>5. dev' = [dev EXCEPT !.errors = n, !.faulty = e]
      BY <2>9, <3>2, <3>3, Zenon
    <3> QED BY <2>1, <3>1, <3>4, <3>5 DEF TypeOK
  <2>12. Ends(p, g) /\ part' \in [Part -> PartRec] /\ bio' \in [Bios -> BioRec]
    BY <2>4, <2>7, <2>8, <2>9, <2>11, EndsWithFx DEF Ends
  <2> QED BY <2>9, <2>10, <2>11, <2>12 DEF TypeOK
<1> QED BY <1>2, <1>3, <1>4 DEF DeviceFails

\* CopyError: the bio knows of the error.
LEMMA TellFx ==
    ASSUME TypeOK, BioFacts, PartFacts, NEW p \in Part, CopyError(p)
    PROVE  Told(p) /\ TypeOK'
<1>1. part \in [Part -> PartRec] /\ bio \in [Bios -> BioRec] /\ p[1] \in Bios
  BY PartPair DEF TypeOK
<1>2. part[p].pc = "error" /\ UNCHANGED <<ctx, tree, pending, wk, inflight, mapped, room, dev>>
  BY DEF CopyError
<1>3. PICK c \in {"dec", "finish", "done"} :
          /\ part' = [part EXCEPT ![p].pc = c]
          /\ \/ /\ bio[p[1]].parts > 1 /\ c = "dec"
                /\ bio' = IF BiStatus(p) THEN [bio EXCEPT ![p[1]].status = "ERR"] ELSE bio
             \/ bio[p[1]].parts = 1 /\ c = AfterEnd(p) /\ bio' = [bio EXCEPT ![p[1]].pc = "done"]
  BY DEF CopyError, AfterEnd
<1>4. part'[p].pc = c /\ SameFields(p) /\ PartFrame(p) /\ part' \in [Part -> PartRec]
  BY <1>1, <1>3 DEF SameFields, PartFrame, PartRec, PartPc
<1>5. \/ bio' = bio
      \/ bio' = [bio EXCEPT ![p[1]].status = "ERR"]
      \/ bio' = [bio EXCEPT ![p[1]].pc = "done"]
  BY <1>3
<1>6. BioFrame(p[1]) /\ BioShape(p[1]) /\ bio' \in [Bios -> BioRec]
  BY <1>1, <1>5 DEF BioFrame, BioShape, BioRec
<1>7. \/ /\ bio[p[1]].parts > 1 /\ c = "dec" /\ bio'[p[1]].pc = bio[p[1]].pc
         /\ bio'[p[1]].status = IF BiStatus(p) THEN "ERR" ELSE bio[p[1]].status
      \/ /\ bio[p[1]].parts = 1 /\ c = AfterEnd(p) /\ bio'[p[1]].pc = "done"
         /\ bio'[p[1]].status = bio[p[1]].status
  BY <1>1, <1>3 DEF BioRec
<1>8. Told(p)
  BY <1>2, <1>4, <1>6, <1>7 DEF Told
<1> QED BY <1>2, <1>4, <1>6, <1>8 DEF TypeOK

\* DecRemaining: the count of the bio.
LEMMA DecFx ==
    ASSUME TypeOK, NEW p \in Part, DecRemaining(p)
    PROVE  Counted(p) /\ TypeOK'
<1>1. part \in [Part -> PartRec] /\ bio \in [Bios -> BioRec] /\ p[1] \in Bios
      /\ ctx \in [Bios -> [live : BOOLEAN, remaining : Int]]
  BY PartPair DEF TypeOK
<1>2. PICK n \in Int : n = ctx[p[1]].remaining - 1
  BY <1>1
<1>3. PICK l \in BOOLEAN : l <=> ctx[p[1]].live /\ n # 0
  OBVIOUS
<1>4. (ctx[p[1]].live /\ n # 0) = l
  BY <1>3
<1>5. /\ part[p].pc = "dec" /\ UNCHANGED <<tree, pending, wk, inflight, mapped, room, dev>>
      /\ bio' = IF n = 0 THEN [bio EXCEPT ![p[1]].pc = "done"] ELSE bio
  BY <1>2 DEF DecRemaining
<1>6. ctx' = [ctx EXCEPT ![p[1]] = [live |-> l, remaining |-> n]]
  BY <1>1, <1>2, <1>4 DEF DecRemaining
<1>7. PICK c \in {"finish", "done"} : c = AfterEnd(p) /\ part' = [part EXCEPT ![p].pc = c]
  BY DEF DecRemaining, AfterEnd
<1>8. part'[p].pc = c /\ SameFields(p) /\ PartFrame(p) /\ part' \in [Part -> PartRec]
  <2>1. PICK d : d = [part[p] EXCEPT !.pc = c]
    OBVIOUS
  <2>2. /\ d \in PartRec /\ d.pc = c /\ d.by = part[p].by /\ d.err = part[p].err
        /\ d.mapped = part[p].mapped /\ d.status = part[p].status
    BY <1>1, <2>1 DEF PartRec, PartPc
  <2>3. part' = [part EXCEPT ![p] = d]
    BY <1>1, <1>7, <2>1
  <2> QED BY <1>1, <2>2, <2>3 DEF SameFields, PartFrame
<1>9. /\ BioFrame(p[1]) /\ BioShape(p[1]) /\ bio' \in [Bios -> BioRec]
      /\ bio'[p[1]].pc = (IF n = 0 THEN "done" ELSE bio[p[1]].pc) /\ bio'[p[1]].status = bio[p[1]].status
  <2>1. PICK d : d = IF n = 0 THEN [bio[p[1]] EXCEPT !.pc = "done"] ELSE bio[p[1]]
    OBVIOUS
  <2>2. /\ d \in BioRec /\ d.pc = (IF n = 0 THEN "done" ELSE bio[p[1]].pc) /\ d.status = bio[p[1]].status
        /\ d.op = bio[p[1]].op /\ d.start = bio[p[1]].start /\ d.parts = bio[p[1]].parts /\ d.next = bio[p[1]].next
        /\ d.admitted = bio[p[1]].admitted
    BY <1>1, <2>1 DEF BioRec
  <2>3. bio' = [bio EXCEPT ![p[1]] = d]
    BY <1>1, <1>5, <2>1
  <2> QED BY <1>1, <2>2, <2>3 DEF BioFrame, BioShape
<1>10. /\ ctx' \in [Bios -> [live : BOOLEAN, remaining : Int]] /\ ctx'[p[1]].remaining = n
       /\ ctx'[p[1]].live = l /\ \A c2 \in Bios : c2 # p[1] => ctx'[c2] = ctx[c2]
  BY <1>1, <1>6
<1>11. Counted(p)
  BY <1>2, <1>3, <1>5, <1>7, <1>8, <1>9, <1>10 DEF Counted
<1> QED BY <1>5, <1>8, <1>9, <1>10, <1>11 DEF TypeOK

\* Finish: the task is gone.
Finished(p) ==
    /\ part[p].pc = "finish" /\ part'[p].pc = "done" /\ SameFields(p) /\ PartFrame(p)
    /\ tree' = [x \in Blks |-> IF tree[x] = p THEN NULL ELSE tree[x]]
    /\ inflight' = Uncounted(p) /\ dev'.faulty = dev.faulty /\ UNCHANGED <<bio, ctx, pending, wk>>

\* Finish, as it changes the state.
LEMMA FinishFx ==
    ASSUME TypeOK, NEW p \in Part, Finish(p)
    PROVE  Finished(p) /\ TypeOK'
<1>1. part \in [Part -> PartRec] /\ part' = [part EXCEPT ![p].pc = "done"]
  BY DEF TypeOK, Finish
<1>2. part'[p].pc = "done" /\ SameFields(p) /\ PartFrame(p) /\ part' \in [Part -> PartRec]
  BY <1>1 DEF SameFields, PartFrame, PartRec, PartPc
<1>3. PICK o \in BOOLEAN : o <=> part[p].status = "IO_WRITING"
  OBVIOUS
<1>4. dev' = [dev EXCEPT !.oops = o]
  <2>1. (part[p].status = "IO_WRITING") = o
    BY <1>3
  <2> QED BY <2>1 DEF Finish
<1>5. dev' \in [faulty : BOOLEAN, errors : 0 .. MaxErrors, meta : 0 .. MaxMetaErrors, oops : BOOLEAN]
      /\ dev'.faulty = dev.faulty
  BY <1>4 DEF TypeOK
<1>6. tree' \in [Blks -> Part \cup {NULL}] /\ inflight' \in [write : Int, read : Int]
  BY DEF Finish, Uncounted, TypeOK
<1>7. Finished(p)
  BY <1>2, <1>5 DEF Finish, Finished
<1> QED BY <1>2, <1>5, <1>6, <1>7 DEF Finish, TypeOK

\* The retry worker takes the first part of its list.
LEMMA RetryFx ==
    ASSUME TypeOK, ListFacts, RetryNext
    PROVE  /\ TypeOK' /\ wk # <<>> /\ wk' = Tail(wk) /\ UNCHANGED <<pending, tree>>
           /\ \E p \in Part : /\ p = Head(wk) /\ part[p].pc = "queued" /\ Moves(p)
                              /\ part'[p].pc \in {"insert", "alloc"}
<1>1. wk \in Seq(Part) /\ wk # <<>> /\ part \in [Part -> PartRec]
  BY DEF RetryNext, TypeOK
<1>2. PICK p \in Part : p = Head(wk) /\ p = wk[1] /\ 1 \in 1 .. Len(wk)
  BY <1>1
<1>3. part[p].pc = "queued"
  BY <1>2 DEF ListFacts
<1>4. PICK c \in {"insert", "alloc"} : part' = [part EXCEPT ![p].by = "retry", ![p].pc = c]
  BY <1>2 DEF RetryNext
<1>5. PICK d : d = [part[p] EXCEPT !.by = "retry", !.pc = c]
  OBVIOUS
<1>6. d \in PartRec /\ d.pc = c /\ d.err = part[p].err
  BY <1>1, <1>5 DEF PartRec, PartPc
<1>7. part' = [part EXCEPT ![p] = d]
  BY <1>1, <1>4, <1>5
<1>8. part'[p].pc = c /\ part'[p].err = part[p].err /\ PartFrame(p) /\ part' \in [Part -> PartRec]
  BY <1>1, <1>6, <1>7 DEF PartFrame
<1>9. wk' \in Seq(Part)
  BY <1>1 DEF RetryNext
<1>10. Moves(p)
  BY <1>3, <1>8 DEF Moves, RetryNext
<1> QED BY <1>1, <1>2, <1>3, <1>8, <1>9, <1>10 DEF RetryNext, TypeOK

\* SubmitPart: the next part of bio b exists.
Submits(b, p) ==
    /\ p = <<b, bio[b].next>> /\ part[p] = NoPart /\ bio[b].pc = "split" /\ bio[b].next \in 1 .. bio[b].parts
    /\ part'[p].pc \in {"insert", "device", "error"} /\ SameFields(p) /\ PartFrame(p)
    /\ part'[p].pc = "insert" <=> IsWrite(p)
    /\ bio'[b].next = bio[b].next + 1 /\ BioFrame(b)
    /\ bio'[b].pc = IF bio[b].next = bio[b].parts THEN "wait" ELSE "split"
    /\ bio'[b].op = bio[b].op /\ bio'[b].start = bio[b].start /\ bio'[b].parts = bio[b].parts
    /\ bio'[b].status = bio[b].status
    /\ \A c \in Bios : ctx'[c].live = ctx[c].live /\ (c # b => ctx'[c] = ctx[c])
    /\ ctx'[b].remaining = IF bio[b].next = bio[b].parts THEN ctx[b].remaining ELSE ctx[b].remaining + 1
    /\ inflight'.write = IF part'[p].pc = "insert" THEN inflight.write + 1 ELSE inflight.write
    /\ inflight'.read = IF part'[p].pc = "device" THEN inflight.read + 1 ELSE inflight.read
    /\ UNCHANGED <<tree, pending, wk, dev>>

\* SubmitPart, as it changes the state.
LEMMA SubmitPartFx ==
    ASSUME TypeOK, BioFacts, PartFacts, NEW b \in Bios, SubmitPart(b)
    PROVE  TypeOK' /\ \E p \in Part : Submits(b, p)
<1>1. /\ part \in [Part -> PartRec] /\ bio \in [Bios -> BioRec] /\ bio[b] \in BioRec
      /\ ctx \in [Bios -> [live : BOOLEAN, remaining : Int]] /\ bio[b].pc = "split"
  BY DEF TypeOK, SubmitPart
<1>2. PICK i \in 1 .. MaxParts : i = bio[b].next /\ i \in 1 .. bio[b].parts
  <2>1. MaxParts \in Nat /\ bio[b].parts \in 0 .. MaxParts /\ bio[b].next \in 1 .. MaxParts + 1
    BY <1>1, PartPair DEF BioRec
  <2>2. bio[b].next <= bio[b].parts
    BY <1>1 DEF BioFacts, BioAt
  <2> QED BY <2>1, <2>2
<1>3. PICK p \in Part : p = <<b, i>>
  BY PartPair
<1>4. p[1] = b /\ p[2] = i
  BY <1>3
<1>5. part[p] = NoPart
  BY <1>2, <1>4 DEF PartFacts, PartAt
<1>6. PICK c \in {"insert", "device", "error"} :
          c = IF bio[b].op = "write" THEN "insert"
              ELSE IF bio[b].start + bio[b].next - 1 \in mapped THEN "device" ELSE "error"
  OBVIOUS
<1>7. PICK d \in {"wait", "split"} : d = IF bio[b].next = bio[b].parts THEN "wait" ELSE "split"
  OBVIOUS
<1>8. /\ part' = [part EXCEPT ![p].pc = c]
      /\ bio' = [bio EXCEPT ![b].next = i + 1, ![b].pc = d]
      /\ ctx' = IF i = bio[b].parts THEN ctx ELSE [ctx EXCEPT ![b].remaining = @ + 1]
      /\ inflight' = IF c = "insert" THEN [inflight EXCEPT !.write = @ + 1]
                     ELSE IF c = "device" THEN [inflight EXCEPT !.read = @ + 1] ELSE inflight
      /\ UNCHANGED <<tree, pending, wk, mapped, room, dev>>
  BY <1>2, <1>3, <1>6, <1>7 DEF SubmitPart
<1>9. part'[p].pc = c /\ SameFields(p) /\ PartFrame(p) /\ part' \in [Part -> PartRec]
  <2>1. PICK r : r = [part[p] EXCEPT !.pc = c]
    OBVIOUS
  <2>2. /\ r \in PartRec /\ r.pc = c /\ r.by = part[p].by /\ r.err = part[p].err /\ r.mapped = part[p].mapped
        /\ r.status = part[p].status
    BY <1>1, <2>1 DEF PartRec, PartPc
  <2>3. part' = [part EXCEPT ![p] = r]
    BY <1>1, <1>8, <2>1
  <2> QED BY <1>1, <2>2, <2>3 DEF SameFields, PartFrame
<1>10. i + 1 \in 1 .. MaxParts + 1
  BY PartPair
<1>11. /\ bio'[b].next = i + 1 /\ bio'[b].pc = d /\ BioFrame(b) /\ bio' \in [Bios -> BioRec]
       /\ bio'[b].op = bio[b].op /\ bio'[b].start = bio[b].start /\ bio'[b].parts = bio[b].parts
       /\ bio'[b].status = bio[b].status
  <2>1. PICK r : r = [bio[b] EXCEPT !.next = i + 1, !.pc = d]
    OBVIOUS
  <2>2. /\ r \in BioRec /\ r.next = i + 1 /\ r.pc = d /\ r.op = bio[b].op /\ r.start = bio[b].start
        /\ r.parts = bio[b].parts /\ r.status = bio[b].status
    BY <1>1, <1>10, <2>1 DEF BioRec
  <2>3. bio' = [bio EXCEPT ![b] = r]
    BY <1>1, <1>8, <2>1
  <2> QED BY <1>1, <2>2, <2>3 DEF BioFrame
<1>12. /\ ctx' \in [Bios -> [live : BOOLEAN, remaining : Int]]
       /\ \A e \in Bios : ctx'[e].live = ctx[e].live /\ (e # b => ctx'[e] = ctx[e])
       /\ ctx'[b].remaining = IF i = bio[b].parts THEN ctx[b].remaining ELSE ctx[b].remaining + 1
  BY <1>1, <1>8
<1>13. /\ inflight' \in [write : Int, read : Int]
       /\ inflight'.write = IF c = "insert" THEN inflight.write + 1 ELSE inflight.write
       /\ inflight'.read = IF c = "device" THEN inflight.read + 1 ELSE inflight.read
  BY <1>8 DEF TypeOK
<1>14. c = "insert" <=> IsWrite(p)
  BY <1>4, <1>6 DEF IsWrite
<1>15. Submits(b, p)
  BY <1>1, <1>2, <1>3, <1>5, <1>7, <1>8, <1>9, <1>11, <1>12, <1>13, <1>14 DEF Submits
<1> QED BY <1>8, <1>9, <1>11, <1>12, <1>13, <1>15 DEF TypeOK

\* lbz_dev_submit_bio: bio b is completed at once, or has n parts to come.
Enters(b) ==
    /\ bio[b].pc = "new" /\ BioFrame(b)
    /\ bio'[b].pc = IF bio'[b].parts = 0 THEN "done" ELSE "split"
    /\ bio'[b].next = 1 /\ bio'[b].status = "OK" /\ bio'[b].parts \in 0 .. MaxParts
    /\ \A i \in 1 .. bio'[b].parts : bio'[b].start + i - 1 \in Blks
    /\ \A c \in Bios : c # b => ctx'[c] = ctx[c]
    /\ bio'[b].parts = 0 => ctx' = ctx
    /\ bio'[b].parts > 0 => (ctx'[b].live <=> bio'[b].parts > 1)
    /\ bio'[b].parts > 1 => ctx'[b].remaining = 1
    /\ UNCHANGED <<part, tree, pending, wk, inflight, dev>>

\* lbz_dev_submit_bio, as it changes the state.
LEMMA EnterFx ==
    ASSUME TypeOK, NEW b \in Bios, NEW s \in Shapes, lbz_dev_submit_bio(b, s)
    PROVE  TypeOK' /\ Enters(b)
<1>1. bio \in [Bios -> BioRec] /\ ctx \in [Bios -> [live : BOOLEAN, remaining : Int]]
  BY DEF TypeOK
<1>2. s \in Shape /\ (\A k \in 1 .. s.blocks : s.start + k - 1 \in Blks) /\ MaxParts \in Nat \ {0}
  BY RequestAssumption
<1>3. bio[b].pc = "new" /\ UNCHANGED <<part, tree, pending, wk, inflight, mapped, room, dev>>
  BY DEF lbz_dev_submit_bio
<1>4. CASE CompleteAtOnce(b, s)
  <2>1. PICK r : r = [NoBio EXCEPT !.pc = "done", !.op = s.op, !.start = s.start]
    OBVIOUS
  <2>2. r \in BioRec /\ r.pc = "done" /\ r.parts = 0 /\ r.next = 1 /\ r.status = "OK"
    <3>1. r = [pc |-> "done", op |-> s.op, start |-> s.start, parts |-> 0, next |-> 1, status |-> "OK",
               admitted |-> FALSE]
      BY <2>1 DEF NoBio
    <3>2. 0 \in 0 .. MaxParts /\ 1 \in 1 .. MaxParts + 1 /\ s.op \in {"write", "read"} /\ s.start \in Blks \cup {NULL}
      BY <1>2 DEF Shape
    <3> QED BY <3>1, <3>2 DEF BioRec
  <2>3. bio' = [bio EXCEPT ![b] = r] /\ ctx' = ctx
    BY <1>4, <2>1 DEF CompleteAtOnce
  <2>4. bio'[b] = r /\ BioFrame(b) /\ bio' \in [Bios -> BioRec]
    BY <1>1, <2>2, <2>3 DEF BioFrame
  <2> QED BY <1>1, <1>2, <1>3, <2>2, <2>3, <2>4 DEF Enters, TypeOK
<1>5. CASE Admit(b, s)
  <2>1. PICK n : n = IF s.flush /\ s.cp THEN 1 ELSE s.blocks
    OBVIOUS
  <2>2. n \in 1 .. MaxParts /\ \A i \in 1 .. n : s.start + i - 1 \in Blks
    BY <1>2, <1>5, <2>1 DEF Admit, Shape
  <2>3. PICK r : r = [NoBio EXCEPT !.pc = "split", !.op = s.op, !.start = s.start, !.parts = n, !.admitted = TRUE]
    OBVIOUS
  <2>4. r \in BioRec /\ r.pc = "split" /\ r.parts = n /\ r.next = 1 /\ r.status = "OK" /\ r.start = s.start
    <3>1. r = [pc |-> "split", op |-> s.op, start |-> s.start, parts |-> n, next |-> 1, status |-> "OK",
               admitted |-> TRUE]
      BY <2>3 DEF NoBio
    <3>2. n \in 0 .. MaxParts /\ 1 \in 1 .. MaxParts + 1 /\ s.op \in {"write", "read"} /\ s.start \in Blks \cup {NULL}
      BY <1>2, <2>2 DEF Shape
    <3> QED BY <3>1, <3>2 DEF BioRec
  <2>5. bio' = [bio EXCEPT ![b] = r]
    BY <1>5, <2>1, <2>3 DEF Admit
  <2>6. PICK l \in BOOLEAN : l <=> n > 1
    OBVIOUS
  <2>7. ctx' = [ctx EXCEPT ![b] = [live |-> l, remaining |-> IF n > 1 THEN 1 ELSE 0]]
    <3>1. (n > 1) = l
      BY <2>6
    <3> QED BY <1>5, <2>1, <3>1 DEF Admit
  <2>8. bio'[b] = r /\ BioFrame(b) /\ bio' \in [Bios -> BioRec]
    BY <1>1, <2>4, <2>5 DEF BioFrame
  <2>9. /\ ctx' \in [Bios -> [live : BOOLEAN, remaining : Int]] /\ \A c \in Bios : c # b => ctx'[c] = ctx[c]
        /\ ctx'[b].live = l /\ ctx'[b].remaining = IF n > 1 THEN 1 ELSE 0
    BY <1>1, <2>7
  <2>10. Enters(b)
    BY <1>3, <2>2, <2>4, <2>6, <2>8, <2>9 DEF Enters
  <2> QED BY <1>3, <2>8, <2>9, <2>10 DEF TypeOK
<1> QED BY <1>4, <1>5 DEF lbz_dev_submit_bio

\* Where a moving write goes: into the tree, to the end of the list, to the
\* device, or back to __submit_write_task.
Inserted(p) ==
    /\ Moves(p) /\ part[p].pc # "queued" /\ part'[p].pc = "alloc"
    /\ tree' = [tree EXCEPT ![BlkOf(p)] = p] /\ UNCHANGED <<pending, wk>>
Queued(p) ==
    /\ Moves(p) /\ part[p].pc # "queued" /\ part'[p].pc = "queued"
    /\ pending' = Append(pending, p) /\ UNCHANGED <<tree, wk>>
Dispatched(p) ==
    Moves(p) /\ part[p].pc # "queued" /\ part'[p].pc = "device" /\ UNCHANGED <<tree, pending, wk>>
Retried(p) ==
    /\ Moves(p) /\ part[p].pc = "queued" /\ part'[p].pc \in {"insert", "alloc"}
    /\ wk # <<>> /\ p = Head(wk) /\ wk' = Tail(wk) /\ UNCHANGED <<tree, pending>>
\* A part ends, in the tree or out of it.
EndsSomehow(p) ==
    /\ \E failed \in BOOLEAN : Ends(p, failed)
    /\ tree' = tree \/ tree' = [tree EXCEPT ![BlkOf(p)] = NULL]
\* The retry worker takes the list, or nothing of interest happens.
Idles ==
    /\ UNCHANGED <<bio, ctx, part, tree, inflight, dev>>
    /\ UNCHANGED <<pending, wk>> \/ (wk = <<>> /\ wk' = pending /\ pending' = <<>>)

\* Every step of the module is one of these.
ReqStep ==
    \/ \E b \in Bios : Enters(b) \/ \E p \in Part : Submits(b, p)
    \/ \E p \in Part : \/ Inserted(p) \/ Queued(p) \/ Dispatched(p) \/ Retried(p)
                       \/ EndsSomehow(p) \/ Told(p) \/ Counted(p) \/ Finished(p)
    \/ Idles

\* Every step is one of them, and keeps the types.
LEMMA NextReqKinds ==
    ASSUME TypeOK, BioFacts, PartFacts, ListFacts, [Next]_vars
    PROVE  TypeOK' /\ ReqStep
<1> USE DEF ReqStep
<1>1. CASE UNCHANGED vars
  BY <1>1 DEF vars, TypeOK, Idles
<1>2. CASE RetryStart
  BY <1>2 DEF RetryStart, TypeOK, Idles
<1>3. CASE Reclaim
  BY <1>3, RequestAssumption DEF Reclaim, TypeOK, Idles
<1>4. CASE RetryNext
  BY <1>4, RetryFx DEF Retried
<1>5. ASSUME NEW b \in Bios, NEW s \in Shapes, lbz_dev_submit_bio(b, s) PROVE TypeOK' /\ Enters(b)
  BY <1>5, EnterFx
<1>6. ASSUME NEW b \in Bios, SubmitPart(b) PROVE TypeOK' /\ \E p \in Part : Submits(b, p)
  BY <1>6, SubmitPartFx
<1>7. ASSUME NEW p \in Part, Alloc(p)
      PROVE  TypeOK' /\ (Queued(p) \/ Dispatched(p) \/ EndsSomehow(p))
  <2>1. part[p].pc = "alloc" /\ UNCHANGED <<ctx, wk, inflight>>
    BY <1>7 DEF Alloc
  <2>2. CASE AllocEagain(p) \/ AllocDispatch(p)
    BY <1>7, <2>1, <2>2, AllocFx DEF Queued, Dispatched
  <2>3. CASE AllocEio(p) \/ AllocMetaFails(p)
    BY <2>1, <2>3, EndFx DEF EndsSomehow
  <2> QED BY <1>7, <2>2, <2>3 DEF Alloc
<1>8. ASSUME NEW p \in Part, DeviceEnds(p, FALSE) \/ DeviceFails(p) PROVE TypeOK' /\ EndsSomehow(p)
  BY <1>8, EndFx DEF EndsSomehow
<1>9. ASSUME NEW p \in Part, Insert(p) PROVE TypeOK' /\ (Inserted(p) \/ Queued(p))
  <2>1. part[p].pc = "insert"
    BY <1>9 DEF Insert
  <2> QED BY <1>9, <2>1, InsertFx DEF Inserted, Queued
<1>10. ASSUME NEW p \in Part, CopyError(p) \/ DecRemaining(p) \/ Finish(p)
       PROVE  TypeOK' /\ (Told(p) \/ Counted(p) \/ Finished(p))
  BY <1>10, TellFx, DecFx, FinishFx
<1>11. CASE \E b \in Bios, s \in Shapes : lbz_dev_submit_bio(b, s)
  BY <1>5, <1>11
<1>12. CASE \E b \in Bios : SubmitPart(b)
  BY <1>6, <1>12
<1>13. CASE \E p \in Part : PartStep(p) \/ DeviceFails(p)
  <2>1. PICK p \in Part : PartStep(p) \/ DeviceFails(p)
    BY <1>13
  <2> QED BY <1>7, <1>8, <1>9, <1>10, <2>1 DEF PartStep
<1>14. CASE Stopped
  BY <1>1, <1>14 DEF Stopped
<1> QED BY <1>1, <1>2, <1>3, <1>4, <1>11, <1>12, <1>13, <1>14 DEF Next, Running

-----------------------------------------------------------------------------
(* The bios and their parts.                                               *)

\* What is known of the bios and of their parts.
BioInv == TypeOK /\ BioFacts /\ PartFacts /\ CtxFacts /\ ErrFacts /\ StatusFacts

\* The numbers of a bio, and its parts.
LEMMA BioNumbers ==
    ASSUME TypeOK, NEW b \in Bios
    PROVE  /\ bio[b].parts \in Nat /\ bio[b].next \in Nat \ {0} /\ bio[b].parts <= MaxParts
           /\ bio[b].pc \in {"new", "split", "wait", "done"} /\ bio[b].status \in {"OK", "ERR"}
           /\ \A i \in 1 .. bio[b].parts : <<b, i>> \in Part /\ i \in Nat \ {0}
<1>1. bio[b] \in BioRec /\ MaxParts \in Nat
  BY PartPair DEF TypeOK
<1>2. /\ bio[b].parts \in 0 .. MaxParts /\ bio[b].next \in 1 .. MaxParts + 1
      /\ bio[b].pc \in {"new", "split", "wait", "done"} /\ bio[b].status \in {"OK", "ERR"}
  BY <1>1 DEF BioRec
<1>3. \A i \in 1 .. bio[b].parts : i \in 1 .. MaxParts /\ i \in Nat \ {0}
  BY <1>1, <1>2
<1> QED BY <1>1, <1>2, <1>3, PartPair

\* Open is a finite set of numbers.
LEMMA OpenFinite ==
    ASSUME TypeOK, NEW b \in Bios
    PROVE  IsFiniteSet(1 .. bio[b].parts) /\ Open(b) \subseteq 1 .. bio[b].parts
<1>1. bio[b].parts \in Int /\ 1 \in Int
  BY BioNumbers
<1>2. IsFiniteSet(1 .. bio[b].parts)
  BY <1>1, FS_Interval
<1> QED BY <1>2 DEF Open

\* A bio that the step does not touch, and whose parts end no sooner.
LEMMA SameBio ==
    ASSUME TypeOK, NEW b \in Bios, BioShape(b), bio'[b].pc = bio[b].pc, ctx'[b] = ctx[b],
           \A p \in Part : p[1] = b => (Ended(p)' <=> Ended(p)), BioAt(b), CtxAt(b)
    PROVE  BioAt(b)' /\ CtxAt(b)'
<1>1. BioAt(b)'
  BY DEF BioShape, BioAt
<1>2. \A i \in 1 .. bio[b].parts : Ended(<<b, i>>)' <=> Ended(<<b, i>>)
  BY BioNumbers
<1>3. Open(b)' = Open(b)
  BY <1>2 DEF BioShape, Open
<1> QED BY <1>1, <1>3 DEF CtxAt, BioShape

\* A part that the step does not touch.
LEMMA SamePart ==
    ASSUME NEW p \in Part, part'[p] = part[p], bio'[p[1]].op = bio[p[1]].op,
           bio'[p[1]].parts = bio[p[1]].parts
    PROVE  /\ bio'[p[1]].next = bio[p[1]].next /\ PartAt(p) => PartAt(p)'
           /\ (bio[p[1]].status = "ERR" => bio'[p[1]].status = "ERR") /\ (dev.faulty => dev'.faulty)
              /\ ErrAt(p) => ErrAt(p)'
  BY DEF PartAt, ErrAt, IsWrite, IsUserBio

\* lbz_dev_submit_bio.
LEMMA EnterKeeps ==
    ASSUME BioInv, TypeOK', NEW b \in Bios, Enters(b)
    PROVE  BioInv'
<1>1. bio[b].pc = "new" /\ bio[b].parts = 0 /\ bio[b].next = 1 /\ BioFrame(b)
  BY BioNumbers DEF BioInv, BioFacts, BioAt, Enters
<1>2. \A p \in Part : part'[p] = part[p] /\ (p[1] = b => part[p] = NoPart)
  <2>1. part' = part
    BY DEF Enters
  <2>2. \A p \in Part : p[1] = b => p[2] >= 1
    BY PartPair
  <2> QED BY <1>1, <2>1, <2>2 DEF BioInv, PartFacts, PartAt
<1>3. dev' = dev
  BY DEF Enters
<1>4. ASSUME NEW p \in Part PROVE PartAt(p)' /\ ErrAt(p)'
  <2>1. CASE p[1] = b
    <3>1. part'[p] = NoPart /\ bio'[b].next = 1 /\ p[2] >= 1
      BY <1>2, <2>1, PartPair DEF Enters
    <3> QED BY <2>1, <3>1 DEF PartAt, ErrAt, NoPart, IsWrite
  <2>2. CASE p[1] # b
    <3>1. bio'[p[1]] = bio[p[1]]
      BY <1>1, <2>2, PartPair DEF BioFrame
    <3> QED BY <1>2, <1>3, <3>1, SamePart DEF BioInv, PartFacts, ErrFacts
  <2> QED BY <2>1, <2>2
<1>5. ASSUME NEW c \in Bios PROVE BioAt(c)' /\ CtxAt(c)' /\ (bio'[c].status = "ERR" => dev'.faulty)
  <2>1. CASE c # b
    <3>1. bio'[c] = bio[c] /\ ctx'[c] = ctx[c]
      BY <1>1, <2>1 DEF BioFrame, Enters
    <3>2. BioShape(c) /\ BioAt(c) /\ CtxAt(c)
      BY <3>1 DEF BioShape, BioInv, BioFacts, CtxFacts
    <3>3. \A p \in Part : Ended(p)' <=> Ended(p)
      BY <1>2 DEF Ended
    <3> QED BY <1>3, <3>1, <3>2, <3>3, SameBio DEF BioInv, StatusFacts
  <2>2. CASE c = b
    <3>1. /\ bio'[b].parts \in Nat /\ bio'[b].next = 1 /\ bio'[b].status = "OK"
          /\ \A i \in 1 .. bio'[b].parts : bio'[b].start + i - 1 \in Blks
          /\ bio'[b].pc = IF bio'[b].parts = 0 THEN "done" ELSE "split"
      BY PartPair DEF Enters
    <3>2. BioAt(b)'
      BY <3>1 DEF BioAt
    <3>3. CASE bio'[b].parts = 0
      <4>1. Open(b)' = {} /\ bio'[b].pc = "done"
        BY <3>1, <3>3 DEF Open
      <4>2. ~ctx[b].live /\ ctx' = ctx
        BY <1>1, <3>3 DEF BioInv, CtxFacts, CtxAt, Enters
      <4> QED BY <2>2, <3>1, <3>2, <3>3, <4>1, <4>2 DEF CtxAt
    <3>4. CASE bio'[b].parts > 0
      <4>1. <<b, 1>> \in Part /\ <<b, 1>>[1] = b
        BY PartPair
      <4>2. part'[<<b, 1>>].pc = "none"
        BY <1>2, <4>1 DEF NoPart
      <4>3. Open(b)' = {1}
        BY <3>1, <3>4, <4>2 DEF Open, Ended
      <4>4. Cardinality({1}) = 1
        BY FS_Singleton
      <4> QED BY <2>2, <3>1, <3>2, <3>4, <4>3, <4>4 DEF CtxAt, Enters
    <3> QED BY <3>1, <3>3, <3>4
  <2> QED BY <2>1, <2>2
<1> QED BY <1>4, <1>5 DEF BioInv, BioFacts, PartFacts, CtxFacts, ErrFacts, StatusFacts

\* SubmitPart.
LEMMA SubmitKeeps ==
    ASSUME BioInv, TypeOK', NEW b \in Bios, NEW p \in Part, Submits(b, p)
    PROVE  BioInv'
<1>1. /\ p[1] = b /\ p[2] = bio[b].next /\ part[p] = NoPart /\ bio[b].pc = "split" /\ p[2] \in 1 .. bio[b].parts
      /\ PartFrame(p) /\ BioFrame(b) /\ dev' = dev
  BY DEF Submits
<1>2. /\ bio'[b].op = bio[b].op /\ bio'[b].start = bio[b].start /\ bio'[b].parts = bio[b].parts
      /\ bio'[b].status = bio[b].status /\ bio'[b].next = bio[b].next + 1
      /\ bio'[b].pc = IF bio[b].next = bio[b].parts THEN "wait" ELSE "split"
  BY DEF Submits
<1>3. bio[b].parts \in Nat /\ bio[b].next \in Nat \ {0} /\ bio[b].next <= bio[b].parts
  BY <1>1, BioNumbers DEF BioInv, BioFacts, BioAt
<1>4. \A q \in Part : Ended(q)' <=> Ended(q)
  <2>1. ~Ended(p) /\ ~Ended(p)'
    BY <1>1 DEF Submits, Ended, NoPart
  <2> QED BY <1>1, <2>1 DEF PartFrame, Ended
<1>5. ASSUME NEW q \in Part PROVE PartAt(q)' /\ ErrAt(q)'
  <2>1. CASE q = p
    <3>1. /\ part'[p].pc \in {"insert", "device", "error"} /\ ~part'[p].err /\ part'[p].by = "user"
          /\ part'[p].pc = "insert" <=> IsWrite(p)
      BY <1>1 DEF Submits, SameFields, NoPart
    <3>2. IsWrite(p)' <=> IsWrite(p)
      BY <1>1, <1>2 DEF IsWrite
    <3>3. ~(p[2] >= bio'[b].next)
      BY <1>1, <1>2, <1>3
    <3> QED BY <1>1, <2>1, <3>1, <3>2, <3>3 DEF PartAt, ErrAt
  <2>2. CASE q # p /\ q[1] = b
    <3>1. q[2] # bio[b].next /\ q[2] \in Nat
      BY <1>1, <2>2, PartPair
    <3>2. q[2] >= bio'[b].next <=> q[2] >= bio[b].next
      BY <1>2, <1>3, <3>1
    <3>3. part'[q] = part[q] /\ PartAt(q) /\ ErrAt(q)
      BY <1>1, <2>2 DEF PartFrame, BioInv, PartFacts, ErrFacts
    <3>4. PartAt(q)'
      BY <1>2, <2>2, <3>2, <3>3 DEF PartAt, IsWrite
    <3> QED BY <1>1, <1>2, <2>2, <3>3, <3>4, SamePart
  <2>3. CASE q[1] # b
    <3>1. bio'[q[1]] = bio[q[1]] /\ part'[q] = part[q]
      BY <1>1, <2>3, PartPair DEF BioFrame, PartFrame
    <3> QED BY <1>1, <3>1, SamePart DEF BioInv, PartFacts, ErrFacts
  <2> QED BY <2>1, <2>2, <2>3
<1>6. ASSUME NEW c \in Bios PROVE BioAt(c)' /\ CtxAt(c)' /\ (bio'[c].status = "ERR" => dev'.faulty)
  <2>1. CASE c # b
    <3>1. bio'[c] = bio[c] /\ ctx'[c] = ctx[c]
      BY <1>1, <2>1 DEF BioFrame, Submits
    <3>2. BioShape(c) /\ BioAt(c) /\ CtxAt(c)
      BY <3>1 DEF BioShape, BioInv, BioFacts, CtxFacts
    <3> QED BY <1>1, <1>4, <3>1, <3>2, SameBio DEF BioInv, StatusFacts
  <2>2. CASE c = b
    <3>1. BioAt(b)'
      BY <1>1, <1>2, <1>3 DEF BioAt, BioInv, BioFacts
    <3>2. ctx'[b].live = ctx[b].live /\ CtxAt(b)
      BY DEF Submits, BioInv, CtxFacts
    <3>3. \A i \in 1 .. bio[b].parts : (Ended(<<b, i>>)' <=> Ended(<<b, i>>)) /\ i \in Nat
      BY <1>4, BioNumbers DEF BioInv
    <3>4. CASE bio[b].next = bio[b].parts
      <4>1. Open(b)' = Open(b)
        BY <1>2, <1>3, <3>3, <3>4 DEF Open
      <4>2. ctx'[b].remaining = ctx[b].remaining
        BY <3>4 DEF Submits
      <4> QED BY <1>1, <1>2, <2>2, <3>1, <3>2, <3>4, <4>1, <4>2 DEF CtxAt, BioInv, StatusFacts
    <3>5. CASE bio[b].next # bio[b].parts
      <4>1. PICK n \in 1 .. bio[b].parts : n = bio[b].next + 1
        BY <1>3, <3>5
      <4>2. ~Ended(<<b, n>>)
        <5>1. <<b, n>> \in Part /\ <<b, n>>[1] = b /\ <<b, n>>[2] = n
          BY BioNumbers DEF BioInv
        <5>2. part[<<b, n>>].pc = "none"
          BY <1>3, <4>1, <5>1 DEF BioInv, PartFacts, PartAt
        <5> QED BY <5>2 DEF Ended
      <4>3. n \in Open(b)' /\ n \notin Open(b)
        BY <1>2, <1>3, <3>3, <4>1, <4>2 DEF Open
      <4>4. \A i \in 1 .. bio[b].parts : i # n => (i \in Open(b) <=> i \in Open(b)')
        BY <1>2, <1>3, <3>3, <4>1 DEF Open
      <4>5. IsFiniteSet(1 .. bio[b].parts) /\ Open(b) \in SUBSET (1 .. bio[b].parts) /\ Open(b)' \in SUBSET (1 .. bio[b].parts)
        BY <1>2, OpenFinite DEF BioInv, Open
      <4>6. Cardinality(Open(b)') = Cardinality(Open(b)) + 1
        <5>1. PICK S : S = 1 .. bio[b].parts
          OBVIOUS
        <5>2. PICK A, B, k : A = Open(b) /\ B = Open(b)' /\ k = n
          OBVIOUS
        <5>3. /\ IsFiniteSet(S) /\ A \in SUBSET S /\ B \in SUBSET S /\ k \in B /\ k \notin A
              /\ \A i \in S : i # k => (i \in A <=> i \in B)
          BY <4>3, <4>4, <4>5, <5>1, <5>2
        <5>4. Cardinality(B) = Cardinality(A) + 1
          BY <5>3, CountMore
        <5> QED BY <5>2, <5>4
      <4>7. ctx'[b].remaining = ctx[b].remaining + 1
        BY <3>5 DEF Submits
      <4> QED BY <1>1, <1>2, <2>2, <3>1, <3>2, <3>5, <4>3, <4>6, <4>7 DEF CtxAt, BioInv, StatusFacts
    <3> QED BY <3>4, <3>5
  <2> QED BY <2>1, <2>2
<1> QED BY <1>5, <1>6 DEF BioInv, BioFacts, PartFacts, CtxFacts, ErrFacts, StatusFacts

\* A step that moves one part, ends nothing and leaves the shape of the bios.
LEMMA QuietKeeps ==
    ASSUME BioInv, TypeOK', NEW p \in Part, PartFrame(p), BioFrame(p[1]), BioShape(p[1]),
           bio'[p[1]].pc = bio[p[1]].pc, ctx' = ctx, Ended(p)' <=> Ended(p),
           dev.faulty => dev'.faulty, bio[p[1]].status = "ERR" => bio'[p[1]].status = "ERR",
           bio'[p[1]].status = "ERR" => dev'.faulty, PartAt(p)', ErrAt(p)'
    PROVE  BioInv'
<1>1. \A q \in Part : Ended(q)' <=> Ended(q)
  BY DEF PartFrame, Ended
<1>2. ASSUME NEW c \in Bios
      PROVE  BioShape(c) /\ bio'[c].pc = bio[c].pc /\ (bio[c].status = "ERR" => bio'[c].status = "ERR")
             /\ (bio'[c].status = "ERR" => dev'.faulty)
  BY DEF BioFrame, BioShape, BioInv, StatusFacts
<1>3. ASSUME NEW c \in Bios PROVE BioAt(c)' /\ CtxAt(c)'
  BY <1>1, <1>2, SameBio DEF BioInv, BioFacts, CtxFacts
<1>4. ASSUME NEW q \in Part PROVE PartAt(q)' /\ ErrAt(q)'
  <2>1. CASE q # p
    <3>1. BioShape(q[1]) /\ (bio[q[1]].status = "ERR" => bio'[q[1]].status = "ERR") /\ part'[q] = part[q]
      BY <1>2, <2>1, PartPair DEF PartFrame
    <3> QED BY <3>1, SamePart DEF BioShape, BioInv, PartFacts, ErrFacts
  <2> QED BY <2>1
<1> QED BY <1>2, <1>3, <1>4 DEF BioInv, BioFacts, PartFacts, CtxFacts, ErrFacts, StatusFacts

\* Inside __submit_write_task.
LEMMA MoveKeeps ==
    ASSUME BioInv, TypeOK', NEW p \in Part, Moves(p)
    PROVE  BioInv'
<1>1. bio' = bio /\ ctx' = ctx /\ dev' = dev /\ PartFrame(p) /\ PartAt(p) /\ ErrAt(p)
  BY DEF Moves, BioInv, PartFacts, ErrFacts
<1>2. /\ part[p].pc \in {"insert", "alloc", "queued"} /\ part'[p].pc \in {"insert", "alloc", "queued", "device"}
      /\ part'[p].err = part[p].err
  BY DEF Moves
<1>3. BioFrame(p[1]) /\ BioShape(p[1]) /\ IsWrite(p) /\ IsWrite(p)' /\ Ended(p)' = Ended(p)
  BY <1>1, <1>2 DEF BioFrame, BioShape, PartAt, IsWrite, Ended
<1>4. PartAt(p)' /\ ErrAt(p)'
  BY <1>1, <1>2, <1>3 DEF PartAt, ErrAt
<1> QED BY <1>1, <1>3, <1>4, QuietKeeps, PartPair DEF BioInv, StatusFacts

\* A part ends.
LEMMA EndKeeps ==
    ASSUME BioInv, TypeOK', NEW p \in Part, NEW failed \in BOOLEAN, Ends(p, failed)
    PROVE  BioInv'
<1>1. /\ PartFrame(p) /\ BioFrame(p[1]) /\ BioShape(p[1]) /\ bio'[p[1]].pc = bio[p[1]].pc /\ ctx' = ctx
      /\ part[p].pc \in {"alloc", "device"} /\ part'[p].pc = "error" /\ (dev.faulty => dev'.faulty)
      /\ (failed => dev'.faulty) /\ p[1] \in Bios
      /\ (part'[p].err <=> failed /\ ~IsUserBio(p)) /\ (IsWrite(p) /\ ~failed => part'[p].mapped)
  BY PartPair DEF Ends
<1>2. bio'[p[1]].status = IF failed /\ IsUserBio(p) THEN "ERR" ELSE bio[p[1]].status
  BY DEF Ends
<1>3. /\ bio'[p[1]].status = "ERR" => dev'.faulty
      /\ bio[p[1]].status = "ERR" => bio'[p[1]].status = "ERR"
  BY <1>1, <1>2 DEF BioInv, StatusFacts
<1>4. Ended(p)' <=> Ended(p)
  BY <1>1 DEF Ended
<1>5. (IsWrite(p)' <=> IsWrite(p)) /\ (IsUserBio(p)' <=> IsUserBio(p)) /\ PartAt(p)
  BY <1>1 DEF IsWrite, IsUserBio, BioShape, BioInv, PartFacts
<1>6. ~IsWrite(p) => part'[p].by = "device"
  BY <1>1, <1>5 DEF Ends, PartAt
<1>7. PartAt(p)'
  BY <1>1, <1>5, <1>6 DEF PartAt, BioShape
<1>8. ErrAt(p)'
  <2>1. part'[p].err => p[2] # bio'[p[1]].parts /\ dev'.faulty
    BY <1>1 DEF IsUserBio, BioShape
  <2>2. IsWrite(p) => part'[p].mapped \/ part'[p].err \/ (IsUserBio(p) /\ bio'[p[1]].status = "ERR")
    BY <1>1, <1>2
  <2> QED BY <1>1, <1>5, <2>1, <2>2 DEF ErrAt
<1> QED BY <1>1, <1>3, <1>4, <1>7, <1>8, QuietKeeps

\* A step that takes the last hold of part p on bio b.
LEMMA CloseOpen ==
    ASSUME BioInv, NEW p \in Part, PartFrame(p), BioShape(p[1]), ~Ended(p), Ended(p)', part[p].pc # "none"
    PROVE  /\ p[2] \in Open(p[1]) /\ Open(p[1])' = Open(p[1]) \ {p[2]}
           /\ Cardinality(Open(p[1])) = Cardinality(Open(p[1])') + 1 /\ Cardinality(Open(p[1])') \in Nat
           /\ Cardinality(Open(p[1])') = 0 <=> Open(p[1])' = {}
           /\ bio[p[1]].pc \in {"split", "wait"}
           /\ bio[p[1]].pc = "split" => Open(p[1])' # {}
<1>1. p[1] \in Bios /\ p = <<p[1], p[2]>> /\ p[2] \in 1 .. bio[p[1]].parts
  BY PartPair, BlkType DEF BioInv
<1> PICK b \in Bios : b = p[1]
  BY <1>1
<1>2. PICK i \in 1 .. bio[b].parts : b = p[1] /\ i = p[2] /\ p = <<b, i>>
  BY <1>1
<1>3. bio[b].parts \in Nat /\ bio[b].next \in Nat /\ \A j \in 1 .. bio[b].parts : <<b, j>> \in Part /\ j \in Nat
  BY BioNumbers DEF BioInv
<1>4. i < bio[b].next
  <2>1. PartAt(p)
    BY DEF BioInv, PartFacts
  <2> QED BY <1>2, <1>3, <2>1 DEF PartAt
<1>5. i \in Open(b)
  BY <1>2, <1>3, <1>4 DEF Open
<1>6. \A j \in 1 .. bio[b].parts : j # i => <<b, j>> # p /\ <<b, j>> \in Part
  BY <1>2, <1>3
<1>7. \A j \in 1 .. bio[b].parts : j # i => (Ended(<<b, j>>)' <=> Ended(<<b, j>>))
  BY <1>6 DEF PartFrame, Ended
<1>8. Ended(<<b, i>>)'
  BY <1>2
<1>9. Open(b)' = Open(b) \ {i}
  BY <1>2, <1>7, <1>8 DEF Open, BioShape
<1>10. PICK S : S = 1 .. bio[b].parts
  OBVIOUS
<1>11. PICK A, B : A = Open(b) /\ B = Open(b)'
  OBVIOUS
<1>12. IsFiniteSet(S) /\ A \in SUBSET S /\ B \in SUBSET S /\ i \in A /\ i \notin B /\ \A j \in S : j # i => (j \in B <=> j \in A)
  BY <1>5, <1>9, <1>10, <1>11, OpenFinite DEF BioInv
<1>13. Cardinality(A) = Cardinality(B) + 1
  BY <1>12, CountMore
<1>14. Cardinality(B) \in Nat /\ (Cardinality(B) = 0 <=> B = {})
  BY <1>12, CountNat
<1>15. bio[b].pc \in {"split", "wait"}
  <2>1. BioAt(b) /\ CtxAt(b)
    BY DEF BioInv, BioFacts, CtxFacts
  <2>2. bio[b].pc \in {"new", "split", "wait", "done"}
    BY BioNumbers DEF BioInv
  <2> QED BY <1>2, <1>3, <1>5, <2>1, <2>2 DEF BioAt, CtxAt
<1>16. ASSUME bio[b].pc = "split" PROVE Open(b)' # {}
  <2>1. PICK n : n = bio[b].next
    OBVIOUS
  <2>2. n \in 1 .. bio[b].parts /\ n # i
    BY <1>3, <1>4, <1>16, <2>1 DEF BioInv, BioFacts, BioAt
  <2>3. <<b, n>> \in Part /\ <<b, n>>[1] = b /\ <<b, n>>[2] = n
    BY <1>3, <2>2
  <2>4. part[<<b, n>>].pc = "none"
    BY <1>3, <2>1, <2>3 DEF BioInv, PartFacts, PartAt
  <2>5. n \in Open(b)
    BY <1>3, <2>1, <2>2, <2>4 DEF Open, Ended
  <2> QED BY <1>9, <2>2, <2>5
<1> QED BY <1>2, <1>5, <1>9, <1>11, <1>13, <1>14, <1>15, <1>16

\* CopyError and DecRemaining on the bio that part p belongs to, and the others.
LEMMA CloseKeeps ==
    ASSUME BioInv, TypeOK', NEW p \in Part, PartFrame(p), BioFrame(p[1]), BioShape(p[1]),
           ~Ended(p), Ended(p)', part[p].pc # "none", dev' = dev, SameFields(p),
           bio'[p[1]].status = bio[p[1]].status, part'[p].pc = AfterEnd(p),
           part[p].err => bio[p[1]].status = "ERR", part[p].pc \in {"error", "dec"},
           bio'[p[1]].pc = IF Open(p[1])' = {} THEN "done" ELSE bio[p[1]].pc,
           \A c \in Bios : c # p[1] => ctx'[c] = ctx[c],
           ctx'[p[1]].live <=> ctx[p[1]].live /\ Open(p[1])' # {},
           bio[p[1]].parts > 1 => ctx'[p[1]].remaining = ctx[p[1]].remaining - 1
    PROVE  BioInv'
<1>1. p[1] \in Bios /\ BioAt(p[1]) /\ CtxAt(p[1]) /\ PartAt(p) /\ ErrAt(p)
  BY PartPair DEF BioInv, BioFacts, CtxFacts, PartFacts, ErrFacts
<1>2. /\ Cardinality(Open(p[1])) = Cardinality(Open(p[1])') + 1 /\ Cardinality(Open(p[1])') \in Nat
      /\ bio[p[1]].pc \in {"split", "wait"}
      /\ bio[p[1]].pc = "split" => Open(p[1])' # {}
  BY CloseOpen
<1>3. BioAt(p[1])'
  BY <1>1, <1>2 DEF BioAt, BioShape
<1>4. CtxAt(p[1])'
  <2>1. bio[p[1]].parts > 1 => ctx'[p[1]].remaining = Cardinality(Open(p[1])')
    BY <1>1, <1>2 DEF CtxAt
  <2> QED BY <1>1, <1>2, <2>1 DEF CtxAt, BioShape
<1>5. ASSUME NEW c \in Bios PROVE BioAt(c)' /\ CtxAt(c)' /\ (bio'[c].status = "ERR" => dev'.faulty)
  <2>1. CASE c # p[1]
    <3>1. bio'[c] = bio[c] /\ ctx'[c] = ctx[c] /\ BioShape(c)
      BY <2>1 DEF BioFrame, BioShape
    <3>2. \A q \in Part : q[1] = c => (Ended(q)' <=> Ended(q))
      BY <2>1 DEF PartFrame, Ended
    <3> QED BY <3>1, <3>2, SameBio DEF BioInv, BioFacts, CtxFacts, StatusFacts
  <2> QED BY <1>3, <1>4, <2>1 DEF BioInv, StatusFacts
<1>6. PartAt(p)' /\ ErrAt(p)'
  <2>1. (IsWrite(p)' <=> IsWrite(p)) /\ (IsUserBio(p)' <=> IsUserBio(p)) /\ part'[p].pc \in {"finish", "done"}
    BY DEF IsWrite, IsUserBio, BioShape, AfterEnd
  <2>2. PartAt(p)'
    BY <1>1, <2>1 DEF PartAt, SameFields, BioShape, AfterEnd
  <2> QED BY <1>1, <2>1, <2>2 DEF ErrAt, SameFields, BioShape
<1>7. ASSUME NEW q \in Part PROVE PartAt(q)' /\ ErrAt(q)'
  <2>1. CASE q # p
    <3>1. /\ part'[q] = part[q] /\ bio'[q[1]].op = bio[q[1]].op /\ bio'[q[1]].parts = bio[q[1]].parts
          /\ bio'[q[1]].next = bio[q[1]].next /\ bio'[q[1]].status = bio[q[1]].status
      BY <2>1, PartPair DEF PartFrame, BioFrame, BioShape
    <3> QED BY <3>1, SamePart DEF BioInv, PartFacts, ErrFacts
  <2> QED BY <1>6, <2>1
<1> QED BY <1>5, <1>7 DEF BioInv, BioFacts, PartFacts, CtxFacts, ErrFacts, StatusFacts

\* CopyError.
LEMMA TellKeeps ==
    ASSUME BioInv, TypeOK', NEW p \in Part, Told(p)
    PROVE  BioInv'
<1>1. /\ part[p].pc = "error" /\ SameFields(p) /\ PartFrame(p) /\ BioFrame(p[1]) /\ BioShape(p[1])
      /\ ctx' = ctx /\ dev' = dev /\ p[1] \in Bios /\ PartAt(p) /\ ErrAt(p) /\ BioAt(p[1]) /\ CtxAt(p[1])
  BY PartPair DEF Told, BioInv, PartFacts, ErrFacts, BioFacts, CtxFacts
<1>2. (IsWrite(p)' <=> IsWrite(p)) /\ (IsUserBio(p)' <=> IsUserBio(p))
  BY <1>1 DEF IsWrite, IsUserBio, BioShape
<1>3. CASE bio[p[1]].parts > 1
  <2>1. /\ part'[p].pc = "dec" /\ bio'[p[1]].pc = bio[p[1]].pc
        /\ bio'[p[1]].status = IF BiStatus(p) THEN "ERR" ELSE bio[p[1]].status
    BY <1>3 DEF Told
  <2>2. /\ bio[p[1]].status = "ERR" => bio'[p[1]].status = "ERR"
        /\ part[p].err => bio'[p[1]].status = "ERR"
        /\ bio'[p[1]].status = "ERR" => dev'.faulty
    BY <1>1, <2>1 DEF BiStatus, ErrAt, IsUserBio, BioInv, StatusFacts
  <2>3. PartAt(p)'
    BY <1>1, <1>2, <1>3, <2>1 DEF PartAt, SameFields, BioShape
  <2>4. ErrAt(p)'
    BY <1>1, <1>2, <2>1, <2>2 DEF ErrAt, SameFields, BioShape
  <2>5. Ended(p)' <=> Ended(p)
    BY <1>1, <2>1 DEF Ended
  <2> QED BY <1>1, <2>1, <2>2, <2>3, <2>4, <2>5, QuietKeeps
<1>4. CASE bio[p[1]].parts = 1
  <2>1. part'[p].pc = AfterEnd(p) /\ bio'[p[1]].pc = "done" /\ bio'[p[1]].status = bio[p[1]].status
    BY <1>4 DEF Told
  <2>2. ~Ended(p) /\ Ended(p)'
    BY <1>1, <2>1 DEF Ended, AfterEnd
  <2>3. p[2] = 1 /\ ~part[p].err
    <3>1. p[2] \in 1 .. bio[p[1]].parts
      BY <1>1, BlkType DEF BioInv
    <3>2. p[2] = 1
      BY <1>4, <3>1
    <3> QED BY <1>1, <1>4, <3>2 DEF ErrAt
  <2>4. Open(p[1])' = {}
    <3>1. Open(p[1])' = Open(p[1]) \ {p[2]}
      BY <1>1, <2>2, CloseOpen
    <3>2. Open(p[1]) \subseteq 1 .. 1
      BY <1>4 DEF Open
    <3>3. Open(p[1]) \subseteq {1}
      BY <3>2
    <3> QED BY <2>3, <3>1, <3>3
  <2>5. ~ctx[p[1]].live /\ ctx'[p[1]].live = ctx[p[1]].live
    BY <1>1, <1>4 DEF CtxAt
  <2> QED BY <1>1, <1>4, <2>1, <2>2, <2>3, <2>4, <2>5, CloseKeeps
<1> QED BY <1>3, <1>4 DEF Told

\* DecRemaining.
LEMMA DecKeeps ==
    ASSUME BioInv, TypeOK', NEW p \in Part, Counted(p)
    PROVE  BioInv'
<1>1. /\ part[p].pc = "dec" /\ SameFields(p) /\ PartFrame(p) /\ BioFrame(p[1]) /\ BioShape(p[1])
      /\ part'[p].pc = AfterEnd(p) /\ dev' = dev /\ bio'[p[1]].status = bio[p[1]].status
      /\ \A c \in Bios : c # p[1] => ctx'[c] = ctx[c]
      /\ ctx'[p[1]].remaining = ctx[p[1]].remaining - 1
      /\ p[1] \in Bios /\ PartAt(p) /\ ErrAt(p) /\ BioAt(p[1]) /\ CtxAt(p[1])
  BY PartPair DEF Counted, BioInv, PartFacts, ErrFacts, BioFacts, CtxFacts
<1>2. ~Ended(p) /\ Ended(p)'
  BY <1>1 DEF Ended, AfterEnd
<1>3. bio[p[1]].parts > 1 /\ (part[p].err => bio[p[1]].status = "ERR")
  BY <1>1 DEF PartAt, ErrAt
<1>4. ctx[p[1]].remaining - 1 = 0 <=> Open(p[1])' = {}
  <2>1. /\ Cardinality(Open(p[1])) = Cardinality(Open(p[1])') + 1 /\ Cardinality(Open(p[1])') \in Nat
        /\ Cardinality(Open(p[1])') = 0 <=> Open(p[1])' = {}
    BY <1>1, <1>2, CloseOpen
  <2>2. ctx[p[1]].remaining = Cardinality(Open(p[1]))
    BY <1>1, <1>3 DEF CtxAt
  <2> QED BY <2>1, <2>2
<1>5. /\ ctx'[p[1]].live <=> ctx[p[1]].live /\ Open(p[1])' # {}
      /\ bio'[p[1]].pc = IF Open(p[1])' = {} THEN "done" ELSE bio[p[1]].pc
  BY <1>4 DEF Counted
<1> QED BY <1>1, <1>2, <1>3, <1>5, CloseKeeps

\* Finish.
LEMMA FinishKeeps ==
    ASSUME BioInv, TypeOK', NEW p \in Part, Finished(p)
    PROVE  BioInv'
<1>1. /\ part[p].pc = "finish" /\ part'[p].pc = "done" /\ SameFields(p) /\ PartFrame(p)
      /\ bio' = bio /\ ctx' = ctx /\ dev'.faulty = dev.faulty /\ PartAt(p) /\ ErrAt(p) /\ p[1] \in Bios
  BY PartPair DEF Finished, BioInv, PartFacts, ErrFacts
<1>2. BioFrame(p[1]) /\ BioShape(p[1]) /\ (Ended(p)' <=> Ended(p))
  BY <1>1 DEF BioFrame, BioShape, Ended
<1>3. (IsWrite(p)' <=> IsWrite(p)) /\ (IsUserBio(p)' <=> IsUserBio(p))
  BY <1>1 DEF IsWrite, IsUserBio
<1>4. PartAt(p)'
  BY <1>1, <1>3 DEF PartAt, SameFields
<1>5. ErrAt(p)'
  BY <1>1, <1>3 DEF ErrAt, SameFields
<1> QED BY <1>1, <1>2, <1>4, <1>5, QuietKeeps DEF BioInv, StatusFacts

\* Every step keeps what is known of the bios.
LEMMA NextBioInv ==
    ASSUME BioInv, TypeOK', ReqStep
    PROVE  BioInv'
<1>1. ASSUME NEW p \in Part, Inserted(p) \/ Queued(p) \/ Dispatched(p) \/ Retried(p) PROVE BioInv'
  BY <1>1, MoveKeeps DEF Inserted, Queued, Dispatched, Retried
<1>2. ASSUME NEW p \in Part, EndsSomehow(p) PROVE BioInv'
  BY <1>2, EndKeeps DEF EndsSomehow
<1>3. CASE Idles
  <2>1. bio' = bio /\ ctx' = ctx /\ part' = part /\ dev' = dev
    BY <1>3 DEF Idles
  <2>2. BioFacts' /\ StatusFacts'
    BY <2>1 DEF BioInv, BioFacts, BioAt, StatusFacts
  <2>3. PartFacts' /\ ErrFacts'
    BY <2>1 DEF BioInv, PartFacts, PartAt, ErrFacts, ErrAt, IsWrite, IsUserBio
  <2>4. \A b \in Bios : Open(b)' = Open(b)
    BY <2>1 DEF Open, Ended
  <2>5. CtxFacts'
    BY <2>1, <2>4 DEF BioInv, CtxFacts, CtxAt
  <2> QED BY <2>2, <2>3, <2>5 DEF BioInv
<1> QED BY <1>1, <1>2, <1>3, EnterKeeps, SubmitKeeps, TellKeeps, DecKeeps, FinishKeeps DEF ReqStep

-----------------------------------------------------------------------------
(* The task tree, the lists and the counters.                              *)

\* The tree holds writes that are not over.
LEMMA NextTree ==
    ASSUME BioInv, TypeOK', TreeFacts, ReqStep
    PROVE  TreeFacts'
<1>1. SUFFICES ASSUME NEW x \in Blks, tree'[x] # NULL
               PROVE  bio'[tree'[x][1]].op = "write" /\ part'[tree'[x]].pc \notin {"none", "done"}
  BY DEF TreeFacts, IsWrite
<1>2. PICK q \in Part : q = tree'[x]
  BY <1>1 DEF TypeOK
<1>3. SUFFICES IsWrite(q)' /\ part'[q].pc \notin {"none", "done"}
  BY <1>2 DEF IsWrite
<1>4. tree \in [Blks -> Part \cup {NULL}]
  BY DEF BioInv, TypeOK
<1>5. q = tree[x] => IsWrite(q) /\ part[q].pc \notin {"none", "done"}
  BY <1>1, <1>2, PartPair DEF TreeFacts
<1>6. CASE \E b \in Bios : Enters(b)
  <2>1. PICK b \in Bios : Enters(b)
    BY <1>6
  <2>2. part' = part /\ q = tree[x] /\ BioFrame(b) /\ bio[b].pc = "new"
    BY <1>2, <2>1 DEF Enters
  <2>3. q[1] # b
    <3>1. q[2] \in 1 .. bio[q[1]].parts /\ q[1] \in Bios
      BY <1>5, <2>2, BlkType, PartPair DEF BioInv
    <3> QED BY <2>2, <3>1 DEF BioInv, BioFacts, BioAt
  <2>4. bio'[q[1]] = bio[q[1]]
    BY <2>2, <2>3, PartPair DEF BioFrame
  <2> QED BY <1>5, <2>2, <2>4 DEF IsWrite
<1>7. CASE \E b \in Bios, p \in Part : Submits(b, p)
  <2>1. PICK b \in Bios, p \in Part : Submits(b, p)
    BY <1>7
  <2>2. q = tree[x] /\ PartFrame(p) /\ BioFrame(b) /\ part'[p].pc \in {"insert", "device", "error"} /\ bio'[b].op = bio[b].op
    BY <1>2, <2>1 DEF Submits
  <2>3. bio'[q[1]].op = bio[q[1]].op
    BY <2>2, PartPair DEF BioFrame
  <2> QED BY <1>5, <2>2, <2>3 DEF IsWrite, PartFrame
<1>8. ASSUME NEW p \in Part, Inserted(p) \/ Queued(p) \/ Dispatched(p) \/ Retried(p)
      PROVE  IsWrite(q)' /\ part'[q].pc \notin {"none", "done"}
  <2>1. /\ bio' = bio /\ PartFrame(p) /\ part'[p].pc \in {"insert", "alloc", "queued", "device"}
        /\ part[p].pc \in {"insert", "alloc", "queued"}
    BY <1>8 DEF Inserted, Queued, Dispatched, Retried, Moves
  <2>2. IsWrite(p)
    BY <2>1 DEF BioInv, PartFacts, PartAt
  <2>3. q = tree[x] \/ q = p
    BY <1>2, <1>4, <1>8 DEF Inserted, Queued, Dispatched, Retried
  <2> QED BY <1>5, <2>1, <2>2, <2>3 DEF PartFrame, IsWrite
<1>9. ASSUME NEW p \in Part, EndsSomehow(p) \/ Told(p) \/ Counted(p)
      PROVE  IsWrite(q)' /\ part'[q].pc \notin {"none", "done"}
  <2>1. q = tree[x]
    BY <1>1, <1>2, <1>4, <1>9 DEF EndsSomehow, Told, Counted
  <2>2. PartFrame(p) /\ BioFrame(p[1]) /\ BioShape(p[1])
    BY <1>9 DEF EndsSomehow, Ends, Told, Counted
  <2>3. IsWrite(q)' /\ IsWrite(q)
    BY <1>5, <2>1, <2>2, PartPair DEF BioFrame, BioShape, IsWrite
  <2>4. q = p => part'[p].pc \in {"error", "dec", "finish"}
    BY <1>9, <2>3 DEF EndsSomehow, Ends, Told, Counted, AfterEnd
  <2> QED BY <1>5, <2>1, <2>2, <2>3, <2>4 DEF PartFrame
<1>10. ASSUME NEW p \in Part, Finished(p)
       PROVE  IsWrite(q)' /\ part'[q].pc \notin {"none", "done"}
  <2>1. q = tree[x] /\ q # p
    BY <1>1, <1>2, <1>10 DEF Finished
  <2>2. bio' = bio /\ PartFrame(p)
    BY <1>10 DEF Finished
  <2> QED BY <1>5, <2>1, <2>2 DEF PartFrame, IsWrite
<1>11. CASE Idles
  BY <1>2, <1>5, <1>11 DEF Idles, IsWrite
<1> QED BY <1>6, <1>7, <1>8, <1>9, <1>10, <1>11 DEF ReqStep

\* The entries of a longer list.
LEMMA AppendEntries ==
    ASSUME NEW S, NEW l \in Seq(S), NEW p \in S, NEW m \in Seq(S), m = Append(l, p)
    PROVE  /\ Len(l) \in Nat /\ Len(m) = Len(l) + 1 /\ m[Len(l) + 1] = p
           /\ \A k \in 1 .. Len(l) : m[k] = l[k] /\ l[k] \in S
           /\ \A k \in 1 .. Len(m) : k \in 1 .. Len(l) \/ k = Len(l) + 1
  OBVIOUS

\* The entries of a list without its first.
LEMMA TailEntries ==
    ASSUME NEW S, NEW l \in Seq(S), l # <<>>, NEW m \in Seq(S), m = Tail(l)
    PROVE  /\ Len(l) \in Nat /\ Len(l) > 0 /\ Len(m) = Len(l) - 1 /\ Head(l) = l[1]
           /\ \A k \in 1 .. Len(l) : l[k] \in S
           /\ \A k \in 1 .. Len(m) : m[k] = l[k + 1] /\ k + 1 \in 1 .. Len(l) /\ k + 1 # 1
  OBVIOUS

\* The lists hold queued parts, each once.
LEMMA NextLists ==
    ASSUME BioInv, TypeOK', ListFacts, ReqStep
    PROVE  ListFacts'
<1>1. /\ pending \in Seq(Part) /\ wk \in Seq(Part) /\ pending' \in Seq(Part) /\ wk' \in Seq(Part)
      /\ \A k \in 1 .. Len(pending) : pending[k] \in Part
      /\ \A k \in 1 .. Len(wk) : wk[k] \in Part
  <2>1. pending \in Seq(Part) /\ wk \in Seq(Part) /\ pending' \in Seq(Part) /\ wk' \in Seq(Part)
    BY DEF BioInv, TypeOK
  <2> QED BY <2>1
<1>2. ASSUME UNCHANGED <<pending, wk>>, \A q \in Part : part[q].pc = "queued" => part'[q].pc = "queued"
      PROVE  ListFacts'
  BY <1>1, <1>2 DEF ListFacts
<1>3. ASSUME NEW p \in Part, PartFrame(p), part[p].pc # "queued", UNCHANGED <<pending, wk>> PROVE ListFacts'
  BY <1>2, <1>3 DEF PartFrame
<1>4. CASE \E b \in Bios : Enters(b)
  BY <1>2, <1>4 DEF Enters
<1>5. ASSUME NEW b \in Bios, NEW p \in Part, Submits(b, p) PROVE ListFacts'
  BY <1>3, <1>5 DEF Submits, NoPart
<1>6. ASSUME NEW p \in Part, \/ Inserted(p) \/ Dispatched(p) \/ EndsSomehow(p) \/ Told(p) \/ Counted(p) \/ Finished(p)
      PROVE  ListFacts'
  <2>1. PartFrame(p) /\ part[p].pc # "queued" /\ UNCHANGED <<pending, wk>>
    BY <1>6 DEF Inserted, Dispatched, Moves, EndsSomehow, Ends, Told, Counted, Finished
  <2> QED BY <1>3, <2>1
<1>7. ASSUME NEW p \in Part, Queued(p) PROVE ListFacts'
  <2>1. /\ PartFrame(p) /\ part[p].pc # "queued" /\ part'[p].pc = "queued" /\ pending' = Append(pending, p) /\ wk' = wk
    BY <1>7 DEF Queued, Moves
  <2>2. \A k \in 1 .. Len(pending) : pending[k] # p /\ part'[pending[k]].pc = "queued"
    BY <1>1, <2>1 DEF ListFacts, PartFrame
  <2>3. \A k \in 1 .. Len(wk) : wk[k] # p /\ part'[wk[k]].pc = "queued"
    BY <1>1, <2>1 DEF ListFacts, PartFrame
  <2>4. PICK n \in Nat : n = Len(pending)
    BY <1>1
  <2>5. /\ Len(pending') = n + 1 /\ pending'[n + 1] = p /\ \A k \in 1 .. n : pending'[k] = pending[k]
        /\ \A k \in 1 .. n + 1 : k \in 1 .. n \/ k = n + 1
    BY <1>1, <2>1, <2>4, AppendEntries
  <2>6. \A k \in 1 .. n + 1 : part'[pending'[k]].pc = "queued"
    BY <2>1, <2>2, <2>4, <2>5
  <2>7. \A j, k \in 1 .. n + 1 : pending'[j] = pending'[k] => j = k
    BY <2>2, <2>4, <2>5 DEF ListFacts
  <2>8. \A j \in 1 .. n + 1, k \in 1 .. Len(wk) : pending'[j] # wk[k]
    BY <2>3, <2>4, <2>5 DEF ListFacts
  <2> QED BY <2>1, <2>3, <2>5, <2>6, <2>7, <2>8 DEF ListFacts
<1>8. ASSUME NEW p \in Part, Retried(p) PROVE ListFacts'
  <2>1. PartFrame(p) /\ wk # <<>> /\ p = Head(wk) /\ wk' = Tail(wk) /\ pending' = pending
    BY <1>8 DEF Retried, Moves
  <2>2. PICK n \in Nat : n = Len(wk)
    BY <1>1
  <2>3. /\ n > 0 /\ Len(wk') = n - 1 /\ p = wk[1]
        /\ \A k \in 1 .. n - 1 : wk'[k] = wk[k + 1] /\ k + 1 \in 1 .. n /\ k + 1 # 1
    BY <1>1, <2>1, <2>2, TailEntries
  <2>4. \A k \in 1 .. Len(pending) : pending[k] # p /\ pending[k] \in Part
    BY <1>1, <2>2, <2>3 DEF ListFacts
  <2>5. \A k \in 1 .. n - 1 : wk'[k] # p /\ wk'[k] \in Part
    BY <1>1, <2>2, <2>3 DEF ListFacts
  <2>6. \A k \in 1 .. Len(pending) : part'[pending[k]].pc = "queued"
    BY <2>1, <2>4 DEF ListFacts, PartFrame
  <2>7. \A k \in 1 .. n - 1 : part'[wk'[k]].pc = "queued"
    BY <2>1, <2>2, <2>3, <2>5 DEF ListFacts, PartFrame
  <2>8. \A j, k \in 1 .. n - 1 : wk'[j] = wk'[k] => j = k
    BY <2>2, <2>3 DEF ListFacts
  <2>9. \A j \in 1 .. Len(pending), k \in 1 .. n - 1 : pending[j] # wk'[k]
    BY <2>2, <2>3 DEF ListFacts
  <2> QED BY <2>1, <2>3, <2>6, <2>7, <2>8, <2>9 DEF ListFacts
<1>9. CASE Idles
  <2>1. CASE UNCHANGED <<pending, wk>>
    BY <1>2, <1>9, <2>1 DEF Idles
  <2>2. CASE wk = <<>> /\ wk' = pending /\ pending' = <<>>
    BY <1>9, <2>2 DEF Idles, ListFacts
  <2> QED BY <1>9, <2>1, <2>2 DEF Idles
<1> QED BY <1>4, <1>5, <1>6, <1>7, <1>8, <1>9 DEF ReqStep

\* There are finitely many parts.
LEMMA PartsFinite == IsFiniteSet(Part)
<1>1. IsFiniteSet(Bios) /\ MaxParts \in Int /\ 1 \in Int
  BY RequestAssumption
<1>2. IsFiniteSet(1 .. MaxParts)
  BY <1>1, FS_Interval
<1> QED BY <1>1, <1>2, FS_Product DEF Part

\* Two sets that differ in one element at most.
LEMMA CountOne ==
    ASSUME NEW S, IsFiniteSet(S), NEW A \in SUBSET S, NEW B \in SUBSET S, NEW p \in S,
           \A q \in S : q # p => (q \in A <=> q \in B)
    PROVE  /\ (p \in A <=> p \in B) => Cardinality(B) = Cardinality(A)
           /\ p \notin A /\ p \in B => Cardinality(B) = Cardinality(A) + 1
           /\ p \in A /\ p \notin B => Cardinality(B) = Cardinality(A) - 1
<1>1. ASSUME p \in A <=> p \in B PROVE A = B
  BY <1>1
<1>2. ASSUME p \notin A, p \in B PROVE Cardinality(B) = Cardinality(A) + 1
  BY <1>2, CountMore
<1>3. ASSUME p \in A, p \notin B PROVE Cardinality(A) = Cardinality(B) + 1
  BY <1>3, CountMore
<1>4. Cardinality(A) \in Nat /\ Cardinality(B) \in Nat
  BY CountNat
<1> QED BY <1>1, <1>2, <1>3, <1>4

\* A step on one part, and the counters.
LEMMA CountStep ==
    ASSUME CountFacts, NEW p \in Part,
           \A q \in Part : q # p => (Writing(q)' <=> Writing(q)) /\ (Reading(q)' <=> Reading(q)),
           \/ (Writing(p)' <=> Writing(p)) /\ inflight'.write = inflight.write
           \/ ~Writing(p) /\ Writing(p)' /\ inflight'.write = inflight.write + 1
           \/ Writing(p) /\ ~Writing(p)' /\ inflight'.write = inflight.write - 1,
           \/ (Reading(p)' <=> Reading(p)) /\ inflight'.read = inflight.read
           \/ ~Reading(p) /\ Reading(p)' /\ inflight'.read = inflight.read + 1
           \/ Reading(p) /\ ~Reading(p)' /\ inflight'.read = inflight.read - 1
    PROVE  CountFacts'
<1>1. PICK A, B : A = {q \in Part : Writing(q)} /\ B = {q \in Part : Writing(q)'}
  OBVIOUS
<1>2. PICK C, D : C = {q \in Part : Reading(q)} /\ D = {q \in Part : Reading(q)'}
  OBVIOUS
<1>3. /\ A \in SUBSET Part /\ B \in SUBSET Part /\ (\A q \in Part : q # p => (q \in A <=> q \in B))
      /\ (p \in A <=> Writing(p)) /\ (p \in B <=> Writing(p)')
  BY <1>1
<1>4. /\ C \in SUBSET Part /\ D \in SUBSET Part /\ (\A q \in Part : q # p => (q \in C <=> q \in D))
      /\ (p \in C <=> Reading(p)) /\ (p \in D <=> Reading(p)')
  BY <1>2
<1>5. /\ (p \in A <=> p \in B) => Cardinality(B) = Cardinality(A)
      /\ p \notin A /\ p \in B => Cardinality(B) = Cardinality(A) + 1
      /\ p \in A /\ p \notin B => Cardinality(B) = Cardinality(A) - 1
  BY <1>3, PartsFinite, CountOne
<1>6. /\ (p \in C <=> p \in D) => Cardinality(D) = Cardinality(C)
      /\ p \notin C /\ p \in D => Cardinality(D) = Cardinality(C) + 1
      /\ p \in C /\ p \notin D => Cardinality(D) = Cardinality(C) - 1
  BY <1>4, PartsFinite, CountOne
<1>7. inflight.write = Cardinality(A) /\ inflight.read = Cardinality(C)
  BY <1>1, <1>2 DEF CountFacts
<1>8. inflight'.write = Cardinality(B) /\ inflight'.read = Cardinality(D)
  BY <1>3, <1>4, <1>5, <1>6, <1>7
<1> QED BY <1>1, <1>2, <1>8 DEF CountFacts

\* The counters count the writes with a task and the reads at the device.
LEMMA NextCounts ==
    ASSUME BioInv, TypeOK', CountFacts, ReqStep
    PROVE  CountFacts'
<1>1. ASSUME NEW q \in Part, part'[q] = part[q], bio'[q[1]].op = bio[q[1]].op
      PROVE  (Writing(q)' <=> Writing(q)) /\ (Reading(q)' <=> Reading(q))
  BY <1>1 DEF Writing, Reading, IsWrite
<1>2. ASSUME NEW p \in Part, PartFrame(p), \A q \in Part : bio'[q[1]].op = bio[q[1]].op
      PROVE  \A q \in Part : q # p => (Writing(q)' <=> Writing(q)) /\ (Reading(q)' <=> Reading(q))
  BY <1>1, <1>2 DEF PartFrame
<1>3. ASSUME inflight' = inflight,
             \A q \in Part : (Writing(q)' <=> Writing(q)) /\ (Reading(q)' <=> Reading(q))
      PROVE  CountFacts'
  <2>1. /\ {q \in Part : Writing(q)'} = {q \in Part : Writing(q)}
        /\ {q \in Part : Reading(q)'} = {q \in Part : Reading(q)}
    BY <1>3
  <2> QED BY <1>3, <2>1 DEF CountFacts
<1>4. ASSUME NEW b \in Bios, Enters(b) PROVE CountFacts'
  <2>1. part' = part /\ inflight' = inflight /\ BioFrame(b) /\ bio[b].pc = "new"
    BY <1>4 DEF Enters
  <2>2. ASSUME NEW q \in Part PROVE (Writing(q)' <=> Writing(q)) /\ (Reading(q)' <=> Reading(q))
    <3>1. CASE q[1] = b
      <4>1. part[q].pc = "none"
        <5>1. ASSUME part[q].pc # "none" PROVE q[2] \in 1 .. bio[b].parts
          BY <3>1, <5>1, BlkType DEF BioInv
        <5>2. bio[b].parts = 0
          BY <2>1 DEF BioInv, BioFacts, BioAt
        <5> QED BY <5>1, <5>2
      <4> QED BY <2>1, <4>1 DEF Writing, Reading
    <3>2. CASE q[1] # b
      BY <1>1, <2>1, <3>2, PartPair DEF BioFrame
    <3> QED BY <3>1, <3>2
  <2> QED BY <1>3, <2>1, <2>2
<1>5. ASSUME NEW b \in Bios, NEW p \in Part, Submits(b, p) PROVE CountFacts'
  <2>1. /\ p[1] = b /\ part[p] = NoPart /\ PartFrame(p) /\ BioFrame(b) /\ bio'[b].op = bio[b].op
        /\ part'[p].pc \in {"insert", "device", "error"} /\ (part'[p].pc = "insert" <=> IsWrite(p))
        /\ part'[p].by = "user"
    BY <1>5 DEF Submits, SameFields, NoPart
  <2>2. \A q \in Part : bio'[q[1]].op = bio[q[1]].op
    BY <2>1, PartPair DEF BioFrame
  <2>3. ~Writing(p) /\ ~Reading(p)
    BY <2>1 DEF Writing, Reading, NoPart
  <2>4. (Writing(p)' <=> part'[p].pc = "insert") /\ (Reading(p)' <=> part'[p].pc = "device")
    BY <2>1, <2>2 DEF Writing, Reading, IsWrite
  <2>5. /\ inflight'.write = IF part'[p].pc = "insert" THEN inflight.write + 1 ELSE inflight.write
        /\ inflight'.read = IF part'[p].pc = "device" THEN inflight.read + 1 ELSE inflight.read
    BY <1>5 DEF Submits
  <2>6. \A q \in Part : q # p => (Writing(q)' <=> Writing(q)) /\ (Reading(q)' <=> Reading(q))
    BY <1>2, <2>1, <2>2
  <2> QED BY <2>3, <2>4, <2>5, <2>6, CountStep
<1>6. ASSUME NEW p \in Part, \/ Inserted(p) \/ Queued(p) \/ Dispatched(p) \/ Retried(p)
                             \/ EndsSomehow(p) \/ Told(p) \/ Counted(p)
      PROVE  CountFacts'
  <2>1. PartFrame(p) /\ inflight' = inflight /\ \A q \in Part : bio'[q[1]].op = bio[q[1]].op
    <3>1. CASE Inserted(p) \/ Queued(p) \/ Dispatched(p) \/ Retried(p)
      BY <3>1 DEF Inserted, Queued, Dispatched, Retried, Moves
    <3>2. CASE EndsSomehow(p) \/ Told(p) \/ Counted(p)
      <4>1. PartFrame(p) /\ inflight' = inflight /\ BioFrame(p[1]) /\ BioShape(p[1])
        BY <3>2 DEF EndsSomehow, Ends, Told, Counted
      <4> QED BY <4>1, PartPair DEF BioFrame, BioShape
    <3> QED BY <1>6, <3>1, <3>2
  <2>2. (IsWrite(p)' <=> IsWrite(p)) /\ PartAt(p)
    BY <2>1 DEF IsWrite, BioInv, PartFacts
  <2>3. (Writing(p)' <=> Writing(p)) /\ (Reading(p)' <=> Reading(p))
    <3>1. CASE Inserted(p) \/ Queued(p) \/ Dispatched(p) \/ Retried(p)
      <4>1. part[p].pc \in {"insert", "alloc", "queued"} /\ part'[p].pc \in {"insert", "alloc", "queued", "device"}
        BY <3>1 DEF Inserted, Queued, Dispatched, Retried, Moves
      <4> QED BY <2>2, <4>1 DEF PartAt, Writing, Reading
    <3>2. CASE EndsSomehow(p)
      <4>1. /\ part[p].pc \in {"alloc", "device"} /\ part'[p].pc = "error"
            /\ part'[p].by = IF part[p].pc = "device" THEN "device" ELSE part[p].by
        BY <3>2 DEF EndsSomehow, Ends
      <4> QED BY <2>2, <4>1 DEF PartAt, Writing, Reading
    <3>3. CASE Told(p) \/ Counted(p)
      <4>1. part[p].pc \in {"error", "dec"} /\ part'[p].by = part[p].by /\ (part'[p].pc = "dec" \/ part'[p].pc = AfterEnd(p))
        BY <3>3 DEF Told, Counted, SameFields
      <4> QED BY <2>2, <4>1 DEF AfterEnd, Writing, Reading
    <3> QED BY <1>6, <3>1, <3>2, <3>3
  <2>4. \A q \in Part : q # p => (Writing(q)' <=> Writing(q)) /\ (Reading(q)' <=> Reading(q))
    BY <1>2, <2>1
  <2> QED BY <1>3, <2>1, <2>3, <2>4
<1>7. ASSUME NEW p \in Part, Finished(p) PROVE CountFacts'
  <2>1. part[p].pc = "finish" /\ part'[p].pc = "done" /\ PartFrame(p) /\ bio' = bio /\ inflight' = Uncounted(p)
    BY <1>7 DEF Finished
  <2>2. inflight \in [write : Int, read : Int] /\ PartAt(p)
    BY DEF BioInv, TypeOK, PartFacts
  <2>3. ~Writing(p)' /\ ~Reading(p)' /\ (Writing(p) <=> IsWrite(p)) /\ (Reading(p) <=> ~IsWrite(p))
    BY <2>1, <2>2 DEF Writing, Reading, PartAt
  <2>4. \A q \in Part : q # p => (Writing(q)' <=> Writing(q)) /\ (Reading(q)' <=> Reading(q))
    BY <1>2, <2>1
  <2>5. /\ inflight'.write = IF IsWrite(p) THEN inflight.write - 1 ELSE inflight.write
        /\ inflight'.read = IF IsWrite(p) THEN inflight.read ELSE inflight.read - 1
    BY <2>1, <2>2 DEF Uncounted
  <2> QED BY <2>3, <2>4, <2>5, CountStep
<1>8. CASE Idles
  <2>1. part' = part /\ bio' = bio /\ inflight' = inflight
    BY <1>8 DEF Idles
  <2> QED BY <1>1, <1>3, <2>1
<1> QED BY <1>4, <1>5, <1>6, <1>7, <1>8 DEF ReqStep

-----------------------------------------------------------------------------
(* The theorems.                                                           *)

\* Before the first bio.
LEMMA InitReq == Init => ReqInv
<1> SUFFICES ASSUME Init PROVE ReqInv
  OBVIOUS
<1>1. /\ bio = [b \in Bios |-> NoBio] /\ ctx = [b \in Bios |-> NoCtx] /\ part = [p \in Part |-> NoPart]
      /\ tree = [x \in Blks |-> NULL] /\ pending = <<>> /\ wk = <<>>
      /\ inflight = [write |-> 0, read |-> 0] /\ mapped = Mapped0 /\ room = Room
      /\ dev = [faulty |-> FALSE, errors |-> 0, meta |-> 0, oops |-> FALSE]
  BY DEF Init
<1>2. TypeOK
  <2>1. NoBio \in BioRec
    <3>1. 0 \in 0 .. MaxParts /\ 1 \in 1 .. MaxParts + 1
      BY RequestAssumption
    <3> QED BY <3>1 DEF NoBio, BioRec
  <2>2. NoPart \in PartRec /\ NoCtx \in [live : BOOLEAN, remaining : Int]
    BY DEF NoPart, PartRec, PartPc, NoCtx
  <2>3. dev \in [faulty : BOOLEAN, errors : 0 .. MaxErrors, meta : 0 .. MaxMetaErrors, oops : BOOLEAN]
    BY <1>1, RequestAssumption
  <2>4. room \in 0 .. Room /\ mapped \subseteq Blks /\ inflight \in [write : Int, read : Int]
    BY <1>1, RequestAssumption
  <2> QED BY <1>1, <2>1, <2>2, <2>3, <2>4 DEF TypeOK
<1>3. BioFacts /\ CtxFacts /\ StatusFacts
  BY <1>1 DEF BioFacts, BioAt, CtxFacts, CtxAt, StatusFacts, NoBio, NoCtx
<1>4. PartFacts /\ ErrFacts
  <2>1. \A p \in Part : part[p] = NoPart /\ bio[p[1]] = NoBio /\ p[2] >= 1
    BY <1>1, PartPair
  <2> QED BY <2>1 DEF PartFacts, PartAt, ErrFacts, ErrAt, NoPart, NoBio, IsWrite
<1>5. TreeFacts /\ ListFacts
  BY <1>1 DEF TreeFacts, ListFacts
<1>6. CountFacts
  <2>1. {p \in Part : Writing(p)} = {} /\ {p \in Part : Reading(p)} = {}
    BY <1>1 DEF Writing, Reading, NoPart
  <2> QED BY <1>1, <2>1, FS_EmptySet DEF CountFacts
<1> QED BY <1>2, <1>3, <1>4, <1>5, <1>6 DEF ReqInv

\* ReqInv is inductive.
LEMMA NextReq == ReqInv /\ [Next]_vars => ReqInv'
<1> SUFFICES ASSUME ReqInv, [Next]_vars PROVE ReqInv'
  OBVIOUS
<1>1. TypeOK' /\ ReqStep /\ BioInv
  BY NextReqKinds DEF ReqInv, BioInv
<1>2. BioInv'
  BY <1>1, NextBioInv
<1>3. TreeFacts' /\ ListFacts' /\ CountFacts'
  BY <1>1, NextTree, NextLists, NextCounts DEF ReqInv
<1> QED BY <1>2, <1>3 DEF ReqInv, BioInv

\* In every state of every run of lbz-request.c: how far a bio is, which of its
\* parts exist, what its context counts, where errors are kept, and what the
\* tree, the lists and the in-flight counters hold.
THEOREM RequestInductive == Spec => []ReqInv
  BY InitReq, NextReq, PTL DEF Spec

\* The variables of the request path keep their types.
THEOREM RequestTypeCorrect == Spec => []TypeOK
<1>1. ReqInv => TypeOK
  BY DEF ReqInv
<1> QED BY <1>1, RequestInductive, PTL

\* lbz_long_bio_endio: the last part to end completes the user's bio, no other
\* does, and nobody uses the context after it is freed.
THEOREM CompletionByLast == Spec => []CompletedByLast
<1>1. ASSUME ReqInv PROVE CompletedByLast
  <2>1. SUFFICES ASSUME NEW b \in Bios
                 PROVE  /\ bio[b].pc = "done" => \A i \in 1 .. bio[b].parts : Ended(<<b, i>>)
                        /\ bio[b].pc # "done" /\ bio[b].parts > 0 => \E i \in 1 .. bio[b].parts : ~Ended(<<b, i>>)
                        /\ \A i \in 1 .. bio[b].parts :
                               bio[b].parts > 1 /\ part[<<b, i>>].pc \in {"error", "dec"} => ctx[b].live
    BY DEF CompletedByLast
  <2>2. /\ bio[b].parts \in Nat /\ bio[b].next \in Nat /\ bio[b].pc \in {"new", "split", "wait", "done"}
        /\ BioAt(b) /\ CtxAt(b) /\ \A i \in 1 .. bio[b].parts : i \in Nat
    BY <1>1, BioNumbers DEF ReqInv, BioFacts, CtxFacts
  <2>3. bio[b].pc = "done" => \A i \in 1 .. bio[b].parts : Ended(<<b, i>>)
    BY <2>2 DEF BioAt, CtxAt, Open
  <2>4. ASSUME bio[b].pc # "done", bio[b].parts > 0 PROVE \E i \in 1 .. bio[b].parts : ~Ended(<<b, i>>)
    <3>1. bio[b].pc \in {"split", "wait"}
      BY <2>2, <2>4 DEF BioAt
    <3>2. Open(b) # {}
      BY <2>2, <3>1 DEF CtxAt
    <3> QED BY <3>2 DEF Open
  <2>5. bio[b].parts > 1 /\ bio[b].pc # "done" => ctx[b].live
    BY <2>2 DEF BioAt, CtxAt
  <2>6. \A i \in 1 .. bio[b].parts : part[<<b, i>>].pc \in {"error", "dec"} => ~Ended(<<b, i>>)
    BY DEF Ended
  <2> QED BY <2>3, <2>4, <2>5, <2>6
<1> QED BY <1>1, RequestInductive, PTL

\* A bio that lbz reports as successful had no failed part, and a write that it
\* reports as successful is in the map with all its parts.
THEOREM OkIsComplete == Spec => []OkMeansAllParts
<1>1. ASSUME ReqInv PROVE OkMeansAllParts
  <2>1. SUFFICES ASSUME NEW b \in Bios, bio[b].pc = "done", bio[b].status = "OK", NEW i \in 1 .. bio[b].parts
                 PROVE  ~part[<<b, i>>].err /\ (bio[b].op = "write" => part[<<b, i>>].mapped)
    BY DEF OkMeansAllParts
  <2>2. PICK p \in Part : p = <<b, i>> /\ p[1] = b /\ p[2] = i
    BY <1>1, BioNumbers DEF ReqInv
  <2>3. Ended(p)
    <3>1. bio[b].parts \in Nat /\ bio[b].next = bio[b].parts + 1 /\ Open(b) = {}
      BY <1>1, <2>1, BioNumbers DEF ReqInv, BioFacts, BioAt, CtxFacts, CtxAt
    <3>2. i <= bio[b].next
      BY <3>1
    <3> QED BY <2>2, <3>1, <3>2 DEF Open
  <2>4. ErrAt(p)
    BY <1>1 DEF ReqInv, ErrFacts
  <2> QED BY <2>1, <2>2, <2>3, <2>4 DEF ErrAt, Ended, IsWrite
<1> QED BY <1>1, RequestInductive, PTL

\* No user sees an error from a device that is not faulty.
THEOREM ErrorsAreFaults == Spec => []ErrorMeansFaulty
<1>1. ASSUME ReqInv PROVE ErrorMeansFaulty
  BY <1>1 DEF ReqInv, StatusFacts, ErrorMeansFaulty
<1> QED BY <1>1, RequestInductive, PTL

\* The counters that lbz_remove_device and release_dev wait for are zero only
\* when no task is left and every bio is completed or still being submitted.
THEOREM DrainedIsIdle == Spec => []DrainedMeansIdle
<1>1. ASSUME ReqInv, inflight.write = 0, inflight.read = 0
      PROVE  /\ \A b \in Bios : bio[b].pc = "wait" => ~SubmitterFree(b)
             /\ \A x \in Blks : tree[x] = NULL
             /\ pending = <<>> /\ wk = <<>>
  <2>1. \A p \in Part : ~Writing(p) /\ ~Reading(p)
    <3>1. PICK A, C : A = {p \in Part : Writing(p)} /\ C = {p \in Part : Reading(p)}
      OBVIOUS
    <3>2. A \in SUBSET Part /\ C \in SUBSET Part /\ Cardinality(A) = 0 /\ Cardinality(C) = 0
      BY <1>1, <3>1 DEF ReqInv, CountFacts
    <3>3. A = {}
      BY <3>2, PartsFinite, CountNat
    <3>4. C = {}
      BY <3>2, PartsFinite, CountNat
    <3> QED BY <3>1, <3>3, <3>4
  <2>2. TypeOK /\ PartFacts /\ ListFacts /\ TreeFacts /\ BioFacts /\ CtxFacts
    BY <1>1 DEF ReqInv
  <2>3. \A p \in Part : part[p].pc # "queued"
    BY <2>1, <2>2 DEF PartFacts, PartAt, Writing
  <2>4. pending = <<>>
    <3>1. pending \in Seq(Part) /\ \A k \in 1 .. Len(pending) : part[pending[k]].pc = "queued" /\ pending[k] \in Part
      BY <2>2 DEF TypeOK, ListFacts
    <3> QED BY <2>3, <3>1
  <2>5. wk = <<>>
    <3>1. wk \in Seq(Part) /\ \A k \in 1 .. Len(wk) : part[wk[k]].pc = "queued" /\ wk[k] \in Part
      BY <2>2 DEF TypeOK, ListFacts
    <3> QED BY <2>3, <3>1
  <2>6. \A x \in Blks : tree[x] = NULL
    BY <2>1, <2>2 DEF TypeOK, TreeFacts, Writing
  <2>7. ASSUME NEW b \in Bios, bio[b].pc = "wait" PROVE ~SubmitterFree(b)
    <3>1. Open(b) # {} /\ bio[b].next = bio[b].parts + 1
      BY <2>2, <2>7 DEF CtxFacts, CtxAt, BioFacts, BioAt
    <3>2. PICK i \in 1 .. bio[b].parts : ~Ended(<<b, i>>)
      BY <3>1 DEF Open
    <3>3. i \in 1 .. MaxParts /\ i < bio[b].next /\ i \in Nat /\ bio[b].next \in Nat
      BY <2>2, <3>1, BioNumbers, PartPair
    <3>4. PICK p \in Part : p = <<b, i>> /\ p[1] = b /\ p[2] = i
      BY <3>3, PartPair
    <3>5. part[p].pc \notin {"none", "finish", "done"} /\ part[p] \in PartRec /\ PartAt(p)
      BY <2>2, <3>2, <3>3, <3>4 DEF PartFacts, PartAt, Ended, TypeOK
    <3>6. part[p].by = "user" /\ part[p].pc \in Active
      BY <2>1, <3>5 DEF PartAt, PartRec, PartPc, Active, Writing, Reading
    <3> QED BY <3>3, <3>4, <3>6 DEF SubmitterFree
  <2> QED BY <2>4, <2>5, <2>6, <2>7
<1>2. ReqInv => DrainedMeansIdle
  BY <1>1 DEF DrainedMeansIdle
<1> QED BY <1>2, RequestInductive, PTL
=============================================================================
