-------------------------- MODULE LifecycleProofs --------------------------
(***************************************************************************)
(* The index arithmetic of lbz-mapping.c for devices of any size; that the *)
(* map of a device that exists is complete whatever happens to it; and the *)
(* life cycle: the components fit what the control thread has left to do,  *)
(* nothing is left when no device exists, and nobody uses what was freed.  *)
(***************************************************************************)
EXTENDS LbzLifecycle, NumberLemmas, TLAPS

L == LBZ_LEAF_NODE_ENTIRES
I == LBZ_INT_NODE_ENTRIES

\* The three indices determine the block.
LEMMA IndexDetermines ==
    ASSUME NEW b \in Nat
    PROVE  /\ root_index(b) \in Nat /\ int_index(b) \in 0 .. I - 1
           /\ leaf_index(b) \in 0 .. L - 1
           /\ b \div L = I * root_index(b) + int_index(b)
           /\ b = L * (b \div L) + leaf_index(b)
  <1>1. L \in Nat \ {0} /\ I \in Nat \ {0}
    BY IndexAssumption DEF L, I
  <1>2. b \div L \in Nat /\ b % L \in 0 .. L - 1 /\ b = L * (b \div L) + (b % L)
    BY <1>1, DivMod
  <1>3. /\ (b \div L) \div I \in Nat /\ (b \div L) % I \in 0 .. I - 1
        /\ b \div L = I * ((b \div L) \div I) + ((b \div L) % I)
    BY <1>1, <1>2, DivMod
  <1>4. root_index(b) = (b \div L) \div I
    BY <1>1, DivDiv DEF root_index, LBZ_INT_NODE_INDEXED_BLKS, L, I
  <1>5. int_index(b) = (b \div L) % I /\ leaf_index(b) = b % L
    BY DEF int_index, leaf_index, L, I
  <1> QED
    BY <1>2, <1>3, <1>4, <1>5

\* For every size, what lbz_mapping_init allocates gives each block below
\* max_blkid an entry of its own that __find_specific_node finds.
THEOREM MapComplete ==
    ASSUME NEW m \in Nat
    PROVE  OwnEntry(lbz_mapping_init(m).root, lbz_mapping_init(m).leaves, m)
  <1> DEFINE root == 0 .. nr_internal_node(m) - 1
             leaves == Leaves(m)
  <1>1. L \in Nat \ {0} /\ I \in Nat \ {0} /\ L * I \in Nat \ {0}
    BY IndexAssumption DEF L, I
  <1>2. nr_internal_node(m) = (m + L * I - 1) \div (L * I) /\ nr_leaf_node(m) = (m + L - 1) \div L
    BY DEF nr_internal_node, nr_leaf_node, LBZ_INT_NODE_INDEXED_BLKS, L, I
  <1>3. nr_internal_node(m) \in Nat /\ nr_leaf_node(m) \in Nat
    <2>1. m + L * I - 1 \in Nat /\ m + L - 1 \in Nat
      BY <1>1
    <2>2. PICK a, c, d, e : a = m + L * I - 1 /\ c = L * I /\ d = m + L - 1 /\ e = L
      OBVIOUS
    <2>3. a \in Nat /\ c \in Nat \ {0} /\ d \in Nat /\ e \in Nat \ {0}
      BY <1>1, <2>1, <2>2
    <2>4. a \div c \in Nat /\ d \div e \in Nat
      BY ONLY <2>3, DivMod
    <2> QED BY <1>2, <2>2, <2>4
  <1>4. ASSUME NEW b \in 0 .. m - 1
        PROVE  /\ root_index(b) \in root /\ Leaf(b) \in leaves
               /\ leaf_index(b) \in 0 .. LBZ_LEAF_NODE_ENTIRES - 1
    <2>1. b \in Nat /\ b < m
      BY <1>4
    <2>2. root_index(b) = b \div (L * I)
      BY DEF root_index, LBZ_INT_NODE_INDEXED_BLKS, L, I
    <2>3. root_index(b) < nr_internal_node(m)
      BY <1>1, <1>2, <2>1, <2>2, BelowRoundedUp
    <2>4. b \div L < nr_leaf_node(m)
      BY <1>1, <1>2, <2>1, BelowRoundedUp
    <2>5. /\ root_index(b) \in Nat /\ int_index(b) \in 0 .. I - 1
          /\ leaf_index(b) \in 0 .. L - 1
          /\ b \div L = I * root_index(b) + int_index(b)
      BY <2>1, IndexDetermines
    <2>6. root_index(b) \in root
      BY <1>3, <2>3, <2>5
    <2>7. root_index(b) * I + int_index(b) < nr_leaf_node(m)
      BY <1>1, <1>3, <2>4, <2>5
    <2>8. Leaf(b) \in leaves
      BY <2>5, <2>6, <2>7 DEF Leaf, Leaves, I
    <2> QED
      BY <2>5, <2>6, <2>8 DEF L
  <1>5. ASSUME NEW b \in 0 .. m - 1, NEW c \in 0 .. m - 1, Entry(b) = Entry(c)
        PROVE  b = c
    <2>1. b \in Nat /\ c \in Nat
      BY <1>5
    <2>2. /\ root_index(b) = root_index(c) /\ int_index(b) = int_index(c)
          /\ leaf_index(b) = leaf_index(c)
      BY <1>5 DEF Entry, Leaf
    <2>3. b \div L = c \div L
      BY <2>1, <2>2, IndexDetermines
    <2> QED
      BY <2>1, <2>2, <2>3, IndexDetermines
  <1> QED
    BY <1>4, <1>5 DEF OwnEntry, lbz_mapping_init

-----------------------------------------------------------------------------

\* A map that exists is the one lbz_mapping_init built for its size.
MapInv ==
    "nodes" \in held => /\ map.max \in Nat
                        /\ map.root = lbz_mapping_init(map.max).root
                        /\ map.leaves = lbz_mapping_init(map.max).leaves

\* A step that leaves the map alone and adds no nodes preserves it.
LEMMA MapUntouched ==
    ASSUME MapInv, map' = map, "nodes" \in held' => "nodes" \in held
    PROVE  MapInv'
  BY DEF MapInv

\* A step of lbz_create_device: the map is complete when the nodes appear.
LEMMA AcquireMap ==
    ASSUME MapInv, Acquire
    PROVE  MapInv'
  <1>1. CASE Now = "nodes"
    <2>1. PICK m \in Sizes : map' = [max |-> m, root |-> lbz_mapping_init(m).root,
                                     leaves |-> lbz_mapping_init(m).leaves]
      BY <1>1 DEF Acquire
    <2>2. m \in Nat
      BY LifecycleAssumption
    <2> QED
      BY <2>1, <2>2 DEF MapInv
  <1>2. CASE Now # "nodes"
    <2>1. map' = map /\ held' = held \cup ({Now} \ {"ready"})
      BY <1>2 DEF Acquire
    <2> QED
      BY <1>2, <2>1, MapUntouched
  <1> QED
    BY <1>1, <1>2

\* A step of lbz_remove_device or of an error label.
LEMMA ReleaseMap ==
    ASSUME MapInv, Release
    PROVE  MapInv'
  <1>1. CASE Now = "nodes"
    BY <1>1 DEF Release, MapInv
  <1>2. CASE Now # "nodes"
    <2>1. map' = map /\ held' = held \ {Now}
      BY <1>2 DEF Release
    <2> QED
      BY <2>1, MapUntouched
  <1> QED
    BY <1>1, <1>2

\* Every step preserves it.
LEMMA MapNext == MapInv /\ [Next]_vars => MapInv'
  <1> SUFFICES ASSUME MapInv, [Next]_vars PROVE MapInv'
    OBVIOUS
  <1>1. CASE UNCHANGED vars
    BY <1>1, MapUntouched DEF vars
  <1>2. CASE Acquire
    BY <1>2, AcquireMap
  <1>3. CASE Release
    BY <1>3, ReleaseMap
  <1>4. CASE lbz_create_device \/ CreateFails \/ ReportFails \/ lbz_dev_exit \/ WaitIoComplete \/ StopGc
    BY <1>4, MapUntouched
       DEF lbz_create_device, CreateFails, ReportFails, lbz_dev_exit, WaitIoComplete, StopGc
  <1>5. CASE JoinGc
    BY <1>5, MapUntouched DEF JoinGc
  <1>6. CASE open_dev \/ release_dev \/ UserIo \/ UserIoEnds \/ read_lbz_dev_proc \/ ReadEnds
    BY <1>6, MapUntouched
       DEF open_dev, release_dev, UserIo, UserIoEnds, read_lbz_dev_proc, ReadEnds
  <1>7. CASE GcThread
    <2>1. map' = map
      BY <1>7 DEF GcThread
    <2>2. held' \subseteq held
      BY <1>7 DEF GcThread, GcBorn, GcLoop, GcSleeps, GcVictim, GcCopy, GcZoneEnd, GcExit
    <2> QED
      BY <2>1, <2>2, MapUntouched
  <1>8. CASE GcReadEnds \/ GcWriteEnds \/ RetryTimer \/ RetryWork
    BY <1>8, MapUntouched
       DEF GcReadEnds, GcWriteEnds, RetryTimer, RetryWork, RetryStart, RetryCopy, RetryEnd
  <1>9. CASE ZsTimer \/ ZoneStateWork
    BY <1>9, MapUntouched DEF ZsTimer, ZoneStateWork, ZsStart, ZsEnd
  <1> QED
    BY <1>1, <1>2, <1>3, <1>4, <1>5, <1>6, <1>7, <1>8, <1>9 DEF Next, Running, Control

\* In every state of every behaviour of the driver, creation, unwinding and
\* removal included, a map that exists has one entry for each block.
THEOREM EveryBlockIndexed == Spec => []EveryBlockHasEntry
  <1>1. Init => MapInv
    BY DEF Init, MapInv
  <1>2. MapInv => EveryBlockHasEntry
    BY MapComplete DEF MapInv, EveryBlockHasEntry
  <1> QED
    BY <1>1, <1>2, MapNext, PTL DEF Spec

-----------------------------------------------------------------------------
(* Where the control thread is, and what the device consists of.           *)

\* What is left to do is the end of a plan.
Left == Len(ctl.todo)
EndOf(plan) ==
    /\ Left \in 1 .. Len(plan)
    /\ \A i \in 1 .. Left : ctl.todo[i] = plan[Len(plan) - Left + i]

OnPlan ==
    /\ ctl.mode = "create" => EndOf(CreatePlan)
    /\ ctl.mode = "unwind" => EndOf(bs_err)
    /\ ctl.mode = "remove" => EndOf(RemovePlan)

\* The types of the parts.
Ctls  == [mode : {"idle", "create", "unwind", "remove", "unloaded", "oops"}, todo : Seq(Step),
          calls : 0 .. MaxCreates]
Maps  == [max : Sizes \cup {0}, root : SUBSET Nat, leaves : SUBSET (Nat \X Nat)]
Flags == [ready : BOOLEAN, remove : BOOLEAN, faulty : BOOLEAN, refcnt : 0 .. 1, reader : BOOLEAN]
Gcs   == [pc : {"none", "unborn", "loop", "test", "zone", "sleep", "exiting", "gone"},
          stop : BOOLEAN, exit : BOOLEAN]
Rts   == [pend : {"no", "delayed", "queued"}, run : BOOLEAN, left : 0 .. MaxCopies]
Ios   == [read : 0 .. MaxCopies, list : 0 .. MaxCopies, write : 0 .. MaxCopies,
          user : {"none", "device", "list"}]

\* The GC copies under way, and those of them the worker has taken.
Copies ==
    /\ io.read + io.list + rt.left + io.write <= MaxCopies
    /\ ~rt.run => rt.left = 0

Steady == TypeOK /\ Copies /\ (ctl.mode # "oops" => OnPlan)

\* How many steps are left of creation once a thing exists, and of an unwinding
\* and of removal while it still does.
Lifespan == {
    <<"dev", 19, 1, 1>>, <<"idx", 18, 2, 4>>, <<"disk", 17, 3, 5>>, <<"zmd", 16, 4, 6>>,
    <<"zones", 15, 5, 7>>, <<"zs_wq", 14, 6, 8>>, <<"zs_timer", 13, 7, 9>>, <<"mapping", 12, 8, 10>>,
    <<"nodes", 11, 9, 11>>, <<"iosched", 10, 10, 12>>, <<"retry_wq", 9, 11, 13>>,
    <<"retry_timer", 8, 12, 14>>, <<"gc_ctx", 7, 13, 15>>, <<"gc_thread", 6, 14, 16>>,
    <<"proc", 4, 16, 19>>, <<"nat_sit", 2, 17, 18>>, <<"listed", 1, 17, 3>>}

Between(created, unwound, removed) ==
    \/ ctl.mode = "create" /\ Left <= created
    \/ ctl.mode = "unwind" /\ Left >= unwound
    \/ ctl.mode = "remove" /\ Left >= removed
    \/ ctl.mode = "idle" /\ "listed" \in held

\* The step that releases it; kthread_stop releases the thread.
Ends(thing) == Now = thing \/ (Now = "join_gc" /\ thing = "gc_thread")

HeldInv == \A s \in Lifespan : s[1] \in held <=> Between(s[2], s[3], s[4])

\* The GC thread between its creation and the end of kthread_stop, and its timer.
ThreadInv ==
    /\ gc.pc \notin {"none", "gone"} => "gc_thread" \in held
    /\ gc.pc \in {"exiting", "gone"} => gc.stop
    /\ gc.stop /\ gc.pc # "gone" => gc.exit
    /\ "gc_thread" \in held /\ gc.stop =>
           (ctl.mode = "unwind" /\ Left <= 14) \/ (ctl.mode = "remove" /\ Left <= 16)
    /\ "gc_timer" \in held => "gc_thread" \in held /\ (gc.pc = "gone" => gc.exit)

\* There are no nodes without the map.
NoNodes == "nodes" \notin held => map.root = {} /\ map.leaves = {}

Life == MapInv /\ NoNodes /\ (ctl.mode # "oops" => HeldInv /\ ThreadInv)

\* No copy and no I/O of the user is under way, and GC works on no zone.
NoIo ==
    /\ io.read = 0 /\ io.list = 0 /\ io.write = 0 /\ io.user = "none"
    /\ rt.left = 0 /\ rt.pend # "delayed" /\ gc.pc # "zone" /\ flags.refcnt = 0

\* Before the device is ready, and after "wait io complete".
Before == ctl.mode \in {"create", "unwind"} \/ (ctl.mode = "idle" /\ "listed" \notin held)
After  == ctl.mode = "unloaded" \/ (ctl.mode = "remove" /\ Left <= 20)

BeforeInv ==
    NoIo /\ ~flags.ready /\ ~flags.reader /\ zone.state = "none" /\ zs # "run" /\ ~rt.run

AfterInv ==
    /\ NoIo
    /\ zone.state = "none" \/ (flags.faulty /\ zs # "run")
    /\ flags.ready => ctl.mode = "remove" /\ Left = 20
    /\ flags.reader => ctl.mode = "remove" /\ Left >= 19

\* A work item runs on its queue.
QueueInv ==
    /\ zs # "idle" => "zs_wq" \in held
    /\ rt.pend # "no" \/ rt.run => "retry_wq" \in held

PhaseInv ==
    /\ Before => BeforeInv
    /\ After => AfterInv
    /\ ctl.mode = "remove" => flags.remove
    /\ QueueInv

\* On a calm device, up to the moment it stops.
CalmInv == Calm => IF ctl.mode = "oops" THEN NoUseAfterFree ELSE PhaseInv

-----------------------------------------------------------------------------
(* The plans.                                                              *)

\* The steps of each plan, counted from its end.
LEMMA CreateSteps ==
    /\ CreatePlan \in Seq(Step) /\ Len(CreatePlan) = 21
    /\ CreatePlan[1] = "bdev" /\ CreatePlan[2] = "dev" /\ CreatePlan[3] = "idx" /\ CreatePlan[4] = "disk"
    /\ CreatePlan[5] = "zmd" /\ CreatePlan[6] = "zones" /\ CreatePlan[7] = "zs_wq" /\ CreatePlan[8] = "zs_timer"
    /\ CreatePlan[9] = "mapping" /\ CreatePlan[10] = "nodes" /\ CreatePlan[11] = "iosched"
    /\ CreatePlan[12] = "retry_wq" /\ CreatePlan[13] = "retry_timer" /\ CreatePlan[14] = "gc_ctx"
    /\ CreatePlan[15] = "gc_thread" /\ CreatePlan[16] = "gc_timer" /\ CreatePlan[17] = "proc"
    /\ CreatePlan[18] = "bioset" /\ CreatePlan[19] = "nat_sit" /\ CreatePlan[20] = "listed"
    /\ CreatePlan[21] = "ready"
  BY DEF CreatePlan, Step, Thing, Memory

\* The same for the error labels, each of which falls through to the next.
LEMMA LabelSteps ==
    /\ zone_err \in Seq(Step) /\ Len(zone_err) = 4 /\ iosched_err \in Seq(Step) /\ Len(iosched_err) = 10
    /\ gc_err \in Seq(Step) /\ Len(gc_err) = 13 /\ proc_err \in Seq(Step) /\ Len(proc_err) = 15
    /\ \A i \in 1 .. 4 : iosched_err[6 + i] = zone_err[i]
    /\ \A i \in 1 .. 10 : gc_err[3 + i] = iosched_err[i]
    /\ \A i \in 1 .. 13 : proc_err[2 + i] = gc_err[i]
    /\ \A i \in 1 .. 15 : bs_err[1 + i] = proc_err[i]
    /\ bs_err \in Seq(Step) /\ Len(bs_err) = 16 /\ bs_err[1] = "proc"
    /\ proc_err[1] = "stop_gc" /\ proc_err[2] = "join_gc"
    /\ gc_err[1] = "gc_ctx" /\ gc_err[2] = "retry_timer" /\ gc_err[3] = "retry_wq"
    /\ iosched_err[1] = "iosched" /\ iosched_err[2] = "nodes" /\ iosched_err[3] = "mapping"
    /\ iosched_err[4] = "zs_timer" /\ iosched_err[5] = "zs_wq" /\ iosched_err[6] = "zones"
    /\ zone_err[1] = "zmd" /\ zone_err[2] = "disk" /\ zone_err[3] = "idx" /\ zone_err[4] = "dev"
  <1>1. /\ zone_err \in Seq(Step) /\ Len(zone_err) = 4
        /\ zone_err[1] = "zmd" /\ zone_err[2] = "disk" /\ zone_err[3] = "idx" /\ zone_err[4] = "dev"
    BY DEF zone_err, Step, Thing, Memory
  <1>2. /\ iosched_err \in Seq(Step) /\ Len(iosched_err) = 10 /\ \A i \in 1 .. 4 : iosched_err[6 + i] = zone_err[i]
        /\ iosched_err[1] = "iosched" /\ iosched_err[2] = "nodes" /\ iosched_err[3] = "mapping"
        /\ iosched_err[4] = "zs_timer" /\ iosched_err[5] = "zs_wq" /\ iosched_err[6] = "zones"
    <2>1. PICK s : s = <<"iosched", "nodes", "mapping", "zs_timer", "zs_wq", "zones">>
      OBVIOUS
    <2>2. /\ s \in Seq(Step) /\ Len(s) = 6 /\ s[1] = "iosched" /\ s[2] = "nodes" /\ s[3] = "mapping"
          /\ s[4] = "zs_timer" /\ s[5] = "zs_wq" /\ s[6] = "zones" /\ iosched_err = s \o zone_err
      BY <2>1 DEF iosched_err, Step, Thing, Memory
    <2>3. PICK t, r : t = zone_err /\ r = iosched_err
      OBVIOUS
    <2>4. t \in Seq(Step) /\ r = s \o t
      BY <1>1, <2>2, <2>3
    <2>5. PICK m, n : m = Len(s) /\ n = Len(t)
      OBVIOUS
    <2>6. m \in Nat /\ n \in Nat /\ s \in Seq(Step)
      BY <2>2, <2>4, <2>5
    <2>7. /\ r \in Seq(Step) /\ Len(r) = m + n
          /\ \A i \in 1 .. m : r[i] = s[i]
          /\ \A i \in 1 .. n : r[m + i] = t[i]
      BY ONLY <2>4, <2>5, <2>6
    <2>8. m = 6 /\ n = 4
      BY <1>1, <2>2, <2>3, <2>5
    <2>9. r \in Seq(Step) /\ Len(r) = 10 /\ \A i \in 1 .. 4 : r[6 + i] = t[i]
      BY ONLY <2>7, <2>8
    <2>10. r[1] = s[1] /\ r[2] = s[2] /\ r[3] = s[3] /\ r[4] = s[4] /\ r[5] = s[5] /\ r[6] = s[6]
      BY ONLY <2>7, <2>8
    <2> QED
      BY ONLY <2>2, <2>3, <2>9, <2>10
  <1>3. /\ gc_err \in Seq(Step) /\ Len(gc_err) = 13 /\ \A i \in 1 .. 10 : gc_err[3 + i] = iosched_err[i]
        /\ gc_err[1] = "gc_ctx" /\ gc_err[2] = "retry_timer" /\ gc_err[3] = "retry_wq"
    <2>1. PICK s : s = <<"gc_ctx", "retry_timer", "retry_wq">>
      OBVIOUS
    <2>2. /\ s \in Seq(Step) /\ Len(s) = 3 /\ s[1] = "gc_ctx" /\ s[2] = "retry_timer" /\ s[3] = "retry_wq"
          /\ gc_err = s \o iosched_err
      BY <2>1 DEF gc_err, Step, Thing, Memory
    <2>3. PICK t, r : t = iosched_err /\ r = gc_err
      OBVIOUS
    <2>4. t \in Seq(Step) /\ r = s \o t
      BY <1>2, <2>2, <2>3
    <2>5. PICK m, n : m = Len(s) /\ n = Len(t)
      OBVIOUS
    <2>6. m \in Nat /\ n \in Nat /\ s \in Seq(Step)
      BY <2>2, <2>4, <2>5
    <2>7. /\ r \in Seq(Step) /\ Len(r) = m + n
          /\ \A i \in 1 .. m : r[i] = s[i]
          /\ \A i \in 1 .. n : r[m + i] = t[i]
      BY ONLY <2>4, <2>5, <2>6
    <2>8. m = 3 /\ n = 10
      BY <1>2, <2>2, <2>3, <2>5
    <2>9. r \in Seq(Step) /\ Len(r) = 13 /\ \A i \in 1 .. 10 : r[3 + i] = t[i]
      BY ONLY <2>7, <2>8
    <2>10. r[1] = s[1] /\ r[2] = s[2] /\ r[3] = s[3]
      BY ONLY <2>7, <2>8
    <2> QED
      BY ONLY <2>2, <2>3, <2>9, <2>10
  <1>4. /\ proc_err \in Seq(Step) /\ Len(proc_err) = 15 /\ \A i \in 1 .. 13 : proc_err[2 + i] = gc_err[i]
        /\ proc_err[1] = "stop_gc" /\ proc_err[2] = "join_gc"
    <2>1. PICK s : s = <<"stop_gc", "join_gc">>
      OBVIOUS
    <2>2. s \in Seq(Step) /\ Len(s) = 2 /\ s[1] = "stop_gc" /\ s[2] = "join_gc" /\ proc_err = s \o gc_err
      BY <2>1 DEF proc_err, Step
    <2>3. PICK t, r : t = gc_err /\ r = proc_err
      OBVIOUS
    <2>4. t \in Seq(Step) /\ r = s \o t
      BY <1>3, <2>2, <2>3
    <2>5. PICK m, n : m = Len(s) /\ n = Len(t)
      OBVIOUS
    <2>6. m \in Nat /\ n \in Nat /\ s \in Seq(Step)
      BY <2>2, <2>4, <2>5
    <2>7. /\ r \in Seq(Step) /\ Len(r) = m + n
          /\ \A i \in 1 .. m : r[i] = s[i]
          /\ \A i \in 1 .. n : r[m + i] = t[i]
      BY ONLY <2>4, <2>5, <2>6
    <2>8. m = 2 /\ n = 13
      BY <1>3, <2>2, <2>3, <2>5
    <2>9. r \in Seq(Step) /\ Len(r) = 15 /\ \A i \in 1 .. 13 : r[2 + i] = t[i]
      BY ONLY <2>7, <2>8
    <2>10. r[1] = s[1] /\ r[2] = s[2]
      BY ONLY <2>7, <2>8
    <2> QED
      BY ONLY <2>2, <2>3, <2>9, <2>10
  <1>5. /\ bs_err \in Seq(Step) /\ Len(bs_err) = 16 /\ \A i \in 1 .. 15 : bs_err[1 + i] = proc_err[i]
        /\ bs_err[1] = "proc"
    <2>1. PICK s : s = <<"proc">>
      OBVIOUS
    <2>2. s \in Seq(Step) /\ Len(s) = 1 /\ s[1] = "proc" /\ bs_err = s \o proc_err
      BY <2>1 DEF bs_err, Step, Thing
    <2>3. PICK t, r : t = proc_err /\ r = bs_err
      OBVIOUS
    <2>4. t \in Seq(Step) /\ r = s \o t
      BY <1>4, <2>2, <2>3
    <2>5. PICK m, n : m = Len(s) /\ n = Len(t)
      OBVIOUS
    <2>6. m \in Nat /\ n \in Nat /\ s \in Seq(Step)
      BY <2>2, <2>4, <2>5
    <2>7. /\ r \in Seq(Step) /\ Len(r) = m + n
          /\ \A i \in 1 .. m : r[i] = s[i]
          /\ \A i \in 1 .. n : r[m + i] = t[i]
      BY ONLY <2>4, <2>5, <2>6
    <2>8. m = 1 /\ n = 15
      BY <1>4, <2>2, <2>3, <2>5
    <2>9. r \in Seq(Step) /\ Len(r) = 16 /\ \A i \in 1 .. 15 : r[1 + i] = t[i]
      BY ONLY <2>7, <2>8
    <2>10. r[1] = s[1]
      BY ONLY <2>7, <2>8
    <2> QED
      BY ONLY <2>2, <2>3, <2>9, <2>10
  <1> QED
    BY <1>1, <1>2, <1>3, <1>4, <1>5

\* Where each label is in the longest unwinding.
LEMMA LabelEnds ==
    /\ \A i \in 1 .. 13 : bs_err[3 + i] = gc_err[i]
    /\ \A i \in 1 .. 10 : bs_err[6 + i] = iosched_err[i]
    /\ \A i \in 1 .. 4 : bs_err[12 + i] = zone_err[i]
  <1>1. \A i \in 1 .. 15 : bs_err[1 + i] = proc_err[i]
    BY LabelSteps
  <1>2. ASSUME NEW i \in 1 .. 13 PROVE bs_err[3 + i] = gc_err[i]
    <2>1. PICK j : j = 2 + i
      OBVIOUS
    <2>2. j \in 1 .. 15 /\ 1 + j = 3 + i
      BY <2>1
    <2>3. bs_err[1 + j] = proc_err[j] /\ proc_err[2 + i] = gc_err[i]
      BY <1>1, <2>2, LabelSteps
    <2> QED
      BY <2>1, <2>2, <2>3
  <1>3. ASSUME NEW i \in 1 .. 10 PROVE bs_err[6 + i] = iosched_err[i]
    <2>1. PICK j : j = 3 + i
      OBVIOUS
    <2>2. j \in 1 .. 13 /\ 3 + j = 6 + i
      BY <2>1
    <2>3. bs_err[3 + j] = gc_err[j] /\ gc_err[3 + i] = iosched_err[i]
      BY <1>2, <2>2, LabelSteps
    <2> QED
      BY <2>1, <2>2, <2>3
  <1>4. ASSUME NEW i \in 1 .. 4 PROVE bs_err[12 + i] = zone_err[i]
    <2>1. PICK j : j = 6 + i
      OBVIOUS
    <2>2. j \in 1 .. 10 /\ 6 + j = 12 + i
      BY <2>1
    <2>3. bs_err[6 + j] = iosched_err[j] /\ iosched_err[6 + i] = zone_err[i]
      BY <1>3, <2>2, LabelSteps
    <2> QED
      BY <2>1, <2>2, <2>3
  <1> QED
    BY <1>2, <1>3, <1>4

\* The longest unwinding in full.
LEMMA UnwindSteps ==
    /\ bs_err \in Seq(Step) /\ Len(bs_err) = 16
    /\ bs_err[1] = "proc" /\ bs_err[2] = "stop_gc" /\ bs_err[3] = "join_gc" /\ bs_err[4] = "gc_ctx"
    /\ bs_err[5] = "retry_timer" /\ bs_err[6] = "retry_wq" /\ bs_err[7] = "iosched" /\ bs_err[8] = "nodes"
    /\ bs_err[9] = "mapping" /\ bs_err[10] = "zs_timer" /\ bs_err[11] = "zs_wq" /\ bs_err[12] = "zones"
    /\ bs_err[13] = "zmd" /\ bs_err[14] = "disk" /\ bs_err[15] = "idx" /\ bs_err[16] = "dev"
  BY LabelSteps, LabelEnds

\* The same for removal.
LEMMA RemoveSteps ==
    /\ RemovePlan \in Seq(Step) /\ Len(RemovePlan) = 21
    /\ RemovePlan[1] = "wait" /\ RemovePlan[2] = "unready" /\ RemovePlan[3] = "proc" /\ RemovePlan[4] = "nat_sit"
    /\ RemovePlan[5] = "stop_gc" /\ RemovePlan[6] = "join_gc" /\ RemovePlan[7] = "gc_ctx"
    /\ RemovePlan[8] = "retry_timer" /\ RemovePlan[9] = "retry_wq" /\ RemovePlan[10] = "iosched"
    /\ RemovePlan[11] = "nodes" /\ RemovePlan[12] = "mapping" /\ RemovePlan[13] = "zs_timer"
    /\ RemovePlan[14] = "zs_wq" /\ RemovePlan[15] = "zones" /\ RemovePlan[16] = "zmd" /\ RemovePlan[17] = "disk"
    /\ RemovePlan[18] = "idx" /\ RemovePlan[19] = "listed" /\ RemovePlan[20] = "bdev" /\ RemovePlan[21] = "dev"
  BY DEF RemovePlan, Step, Thing, Memory

\* A step of the control thread takes the first entry off the list.
LEMMA AdvanceFx ==
    ASSUME ctl \in Ctls,
           NEW plan, plan \in Seq(Step), EndOf(plan),
           NEW mode \in {"idle", "unloaded"}, Advance(mode)
    PROVE  /\ ctl' \in Ctls
           /\ Left \in 1 .. Len(plan) /\ Left' = Left - 1 /\ Now = plan[Len(plan) - Left + 1] /\ Now \in Step
           /\ ctl'.mode = IF Left = 1 THEN mode ELSE ctl.mode
           /\ Left # 1 => EndOf(plan)'
  <1>1. PICK s, t, n, m : s = ctl.todo /\ t = Tail(s) /\ n = Len(s) /\ m = Len(plan)
    OBVIOUS
  <1>2. /\ s \in Seq(Step) /\ n \in 1 .. m /\ m \in Nat /\ \A i \in 1 .. n : s[i] = plan[m - n + i]
    BY <1>1 DEF EndOf, Left, Ctls
  <1>3. s # <<>> /\ t \in Seq(Step) /\ Len(t) = n - 1 /\ Head(s) = s[1] /\ \A i \in 1 .. n - 1 : t[i] = s[i + 1]
    BY <1>1, <1>2
  <1>4. s[1] = plan[m - n + 1] /\ s[1] \in Step
    <2>1. 1 \in 1 .. n /\ n = Len(s) /\ 1 \in DOMAIN s
      BY <1>1, <1>2
    <2> QED
      BY <1>2, <2>1
  <1>5. ctl' = [ctl EXCEPT !.todo = t, !.mode = IF n = 1 THEN mode ELSE @]
    BY <1>1 DEF Advance
  <1>6. ctl'.todo = t /\ ctl'.mode = (IF n = 1 THEN mode ELSE ctl.mode) /\ ctl'.calls = ctl.calls
    BY <1>5 DEF Ctls
  <1>7. ASSUME n # 1 PROVE EndOf(plan)'
    <2>1. \A i \in 1 .. n - 1 : t[i] = plan[m - (n - 1) + i]
      BY <1>2, <1>3
    <2>2. n - 1 \in 1 .. m
      BY <1>2, <1>7
    <2>3. Left' = n - 1 /\ ctl'.todo = t /\ Len(plan) = m
      BY <1>1, <1>3, <1>6 DEF Left
    <2> QED
      BY ONLY <2>1, <2>2, <2>3 DEF EndOf
  <1>8. ctl' \in Ctls
    BY <1>3, <1>5 DEF Ctls
  <1> QED
    BY <1>1, <1>2, <1>3, <1>4, <1>6, <1>7, <1>8 DEF Left, Now

\* What creation does next, by the number of steps left.
LEMMA CreateNow ==
    ASSUME TypeOK, ctl.mode = "create", EndOf(CreatePlan)
    PROVE  /\ Left \in 1 .. 21 /\ ctl.todo # <<>>
           /\ (Left = 21 <=> Now = "bdev") /\ (Left = 20 <=> Now = "dev") /\ (Left = 19 <=> Now = "idx")
           /\ (Left = 18 <=> Now = "disk") /\ (Left = 17 <=> Now = "zmd") /\ (Left = 16 <=> Now = "zones")
           /\ (Left = 15 <=> Now = "zs_wq") /\ (Left = 14 <=> Now = "zs_timer") /\ (Left = 13 <=> Now = "mapping")
           /\ (Left = 12 <=> Now = "nodes") /\ (Left = 11 <=> Now = "iosched") /\ (Left = 10 <=> Now = "retry_wq")
           /\ (Left = 9 <=> Now = "retry_timer") /\ (Left = 8 <=> Now = "gc_ctx") /\ (Left = 7 <=> Now = "gc_thread")
           /\ (Left = 6 <=> Now = "gc_timer") /\ (Left = 5 <=> Now = "proc") /\ (Left = 4 <=> Now = "bioset")
           /\ (Left = 3 <=> Now = "nat_sit") /\ (Left = 2 <=> Now = "listed") /\ (Left = 1 <=> Now = "ready")
           /\ Now \in Thing \cup {"ready"}
           /\ \A s \in Lifespan : s[1] = Now <=> Left = s[2] + 1
  <1>1. PICK n, x : n = Left /\ x = Now
    OBVIOUS
  <1>2. ctl.todo \in Seq(Step)
    BY DEF TypeOK
  <1>3. n \in 1 .. 21 /\ x = CreatePlan[21 - n + 1] /\ ctl.todo # <<>>
    <2>1. n \in 1 .. 21 /\ \A i \in 1 .. n : ctl.todo[i] = CreatePlan[21 - n + i]
      BY <1>1, CreateSteps DEF EndOf
    <2>2. ctl.todo # <<>> /\ x = ctl.todo[1]
      BY <1>1, <1>2, <2>1 DEF Left, Now
    <2> QED
      BY <2>1, <2>2
  <1>4./\ (n = 21 => x = "bdev") /\ (n = 20 => x = "dev") /\ (n = 19 => x = "idx")
       /\ (n = 18 => x = "disk") /\ (n = 17 => x = "zmd") /\ (n = 16 => x = "zones")
       /\ (n = 15 => x = "zs_wq") /\ (n = 14 => x = "zs_timer") /\ (n = 13 => x = "mapping")
       /\ (n = 12 => x = "nodes") /\ (n = 11 => x = "iosched") /\ (n = 10 => x = "retry_wq")
       /\ (n = 9 => x = "retry_timer") /\ (n = 8 => x = "gc_ctx") /\ (n = 7 => x = "gc_thread")
       /\ (n = 6 => x = "gc_timer") /\ (n = 5 => x = "proc") /\ (n = 4 => x = "bioset")
       /\ (n = 3 => x = "nat_sit") /\ (n = 2 => x = "listed") /\ (n = 1 => x = "ready")
    BY ONLY <1>3, CreateSteps
  <1>5./\ (n = 21 <=> x = "bdev") /\ (n = 20 <=> x = "dev") /\ (n = 19 <=> x = "idx")
       /\ (n = 18 <=> x = "disk") /\ (n = 17 <=> x = "zmd") /\ (n = 16 <=> x = "zones")
       /\ (n = 15 <=> x = "zs_wq") /\ (n = 14 <=> x = "zs_timer") /\ (n = 13 <=> x = "mapping")
       /\ (n = 12 <=> x = "nodes") /\ (n = 11 <=> x = "iosched") /\ (n = 10 <=> x = "retry_wq")
       /\ (n = 9 <=> x = "retry_timer") /\ (n = 8 <=> x = "gc_ctx") /\ (n = 7 <=> x = "gc_thread")
       /\ (n = 6 <=> x = "gc_timer") /\ (n = 5 <=> x = "proc") /\ (n = 4 <=> x = "bioset")
       /\ (n = 3 <=> x = "nat_sit") /\ (n = 2 <=> x = "listed") /\ (n = 1 <=> x = "ready")
    BY ONLY <1>3, <1>4
  <1>6. x \in Thing \cup {"ready"}
    BY ONLY <1>3, <1>5 DEF Thing, Memory
  <1>7. ASSUME NEW s \in Lifespan PROVE s[1] = x <=> n = s[2] + 1
    <2>1. PICK y, c : y = s[1] /\ c = s[2]
      OBVIOUS
    <2>2. \/ (y = "dev" /\ c = 19) \/ (y = "idx" /\ c = 18) \/ (y = "disk" /\ c = 17)
          \/ (y = "zmd" /\ c = 16) \/ (y = "zones" /\ c = 15) \/ (y = "zs_wq" /\ c = 14)
          \/ (y = "zs_timer" /\ c = 13) \/ (y = "mapping" /\ c = 12) \/ (y = "nodes" /\ c = 11)
          \/ (y = "iosched" /\ c = 10) \/ (y = "retry_wq" /\ c = 9) \/ (y = "retry_timer" /\ c = 8)
          \/ (y = "gc_ctx" /\ c = 7) \/ (y = "gc_thread" /\ c = 6) \/ (y = "proc" /\ c = 4)
          \/ (y = "nat_sit" /\ c = 2) \/ (y = "listed" /\ c = 1)
      BY ONLY <2>1, s \in Lifespan DEF Lifespan
    <2>3. y = x <=> n = c + 1
      BY ONLY <1>3, <1>5, <2>2
    <2> QED
      BY <2>1, <2>3
  <1> QED
    BY ONLY <1>1, <1>3, <1>5, <1>6, <1>7

\* What an unwinding does next.
LEMMA UnwindNow ==
    ASSUME TypeOK, ctl.mode = "unwind", EndOf(bs_err)
    PROVE  /\ Left \in 1 .. 16 /\ ctl.todo # <<>>
           /\ (Left = 16 <=> Now = "proc") /\ (Left = 15 <=> Now = "stop_gc") /\ (Left = 14 <=> Now = "join_gc")
           /\ (Left = 13 <=> Now = "gc_ctx") /\ (Left = 12 <=> Now = "retry_timer") /\ (Left = 11 <=> Now = "retry_wq")
           /\ (Left = 10 <=> Now = "iosched") /\ (Left = 9 <=> Now = "nodes") /\ (Left = 8 <=> Now = "mapping")
           /\ (Left = 7 <=> Now = "zs_timer") /\ (Left = 6 <=> Now = "zs_wq") /\ (Left = 5 <=> Now = "zones")
           /\ (Left = 4 <=> Now = "zmd") /\ (Left = 3 <=> Now = "disk") /\ (Left = 2 <=> Now = "idx")
           /\ (Left = 1 <=> Now = "dev")
           /\ Now \in Step /\ Now # "gc_thread"
           /\ \A s \in Lifespan : Ends(s[1]) <=> Left = s[3]
  <1>1. PICK n, x : n = Left /\ x = Now
    OBVIOUS
  <1>2. ctl.todo \in Seq(Step)
    BY DEF TypeOK
  <1>3. n \in 1 .. 16 /\ x = bs_err[16 - n + 1] /\ ctl.todo # <<>>
    <2>1. n \in 1 .. 16 /\ \A i \in 1 .. n : ctl.todo[i] = bs_err[16 - n + i]
      BY <1>1, UnwindSteps DEF EndOf
    <2>2. ctl.todo # <<>> /\ x = ctl.todo[1]
      BY <1>1, <1>2, <2>1 DEF Left, Now
    <2> QED
      BY <2>1, <2>2
  <1>4./\ (n = 16 => x = "proc") /\ (n = 15 => x = "stop_gc") /\ (n = 14 => x = "join_gc")
       /\ (n = 13 => x = "gc_ctx") /\ (n = 12 => x = "retry_timer") /\ (n = 11 => x = "retry_wq")
       /\ (n = 10 => x = "iosched") /\ (n = 9 => x = "nodes") /\ (n = 8 => x = "mapping")
       /\ (n = 7 => x = "zs_timer") /\ (n = 6 => x = "zs_wq") /\ (n = 5 => x = "zones")
       /\ (n = 4 => x = "zmd") /\ (n = 3 => x = "disk") /\ (n = 2 => x = "idx")
       /\ (n = 1 => x = "dev")
    BY ONLY <1>3, UnwindSteps
  <1>5./\ (n = 16 <=> x = "proc") /\ (n = 15 <=> x = "stop_gc") /\ (n = 14 <=> x = "join_gc")
       /\ (n = 13 <=> x = "gc_ctx") /\ (n = 12 <=> x = "retry_timer") /\ (n = 11 <=> x = "retry_wq")
       /\ (n = 10 <=> x = "iosched") /\ (n = 9 <=> x = "nodes") /\ (n = 8 <=> x = "mapping")
       /\ (n = 7 <=> x = "zs_timer") /\ (n = 6 <=> x = "zs_wq") /\ (n = 5 <=> x = "zones")
       /\ (n = 4 <=> x = "zmd") /\ (n = 3 <=> x = "disk") /\ (n = 2 <=> x = "idx")
       /\ (n = 1 <=> x = "dev")
    BY ONLY <1>3, <1>4
  <1>6. x \in Step /\ x # "gc_thread"
    BY ONLY <1>3, <1>5 DEF Step, Thing, Memory
  <1>7. ASSUME NEW s \in Lifespan PROVE (x = s[1] \/ (x = "join_gc" /\ s[1] = "gc_thread")) <=> n = s[3]
    <2>1. PICK y, c : y = s[1] /\ c = s[3]
      OBVIOUS
    <2>2. \/ (y = "dev" /\ c = 1) \/ (y = "idx" /\ c = 2) \/ (y = "disk" /\ c = 3)
          \/ (y = "zmd" /\ c = 4) \/ (y = "zones" /\ c = 5) \/ (y = "zs_wq" /\ c = 6)
          \/ (y = "zs_timer" /\ c = 7) \/ (y = "mapping" /\ c = 8) \/ (y = "nodes" /\ c = 9)
          \/ (y = "iosched" /\ c = 10) \/ (y = "retry_wq" /\ c = 11) \/ (y = "retry_timer" /\ c = 12)
          \/ (y = "gc_ctx" /\ c = 13) \/ (y = "gc_thread" /\ c = 14) \/ (y = "proc" /\ c = 16)
          \/ (y = "nat_sit" /\ c = 17) \/ (y = "listed" /\ c = 17)
      BY ONLY <2>1, s \in Lifespan DEF Lifespan
    <2>3. (x = y \/ (x = "join_gc" /\ y = "gc_thread")) <=> n = c
      BY ONLY <1>3, <1>5, <2>2
    <2> QED
      BY <2>1, <2>3
  <1>8. \A s \in Lifespan : Ends(s[1]) <=> n = s[3]
    BY ONLY <1>1, <1>7 DEF Ends
  <1> QED
    BY ONLY <1>1, <1>3, <1>5, <1>6, <1>8

\* What removal does next.
LEMMA RemoveNow ==
    ASSUME TypeOK, ctl.mode = "remove", EndOf(RemovePlan)
    PROVE  /\ Left \in 1 .. 21 /\ ctl.todo # <<>>
           /\ (Left = 21 <=> Now = "wait") /\ (Left = 20 <=> Now = "unready") /\ (Left = 19 <=> Now = "proc")
           /\ (Left = 18 <=> Now = "nat_sit") /\ (Left = 17 <=> Now = "stop_gc") /\ (Left = 16 <=> Now = "join_gc")
           /\ (Left = 15 <=> Now = "gc_ctx") /\ (Left = 14 <=> Now = "retry_timer") /\ (Left = 13 <=> Now = "retry_wq")
           /\ (Left = 12 <=> Now = "iosched") /\ (Left = 11 <=> Now = "nodes") /\ (Left = 10 <=> Now = "mapping")
           /\ (Left = 9 <=> Now = "zs_timer") /\ (Left = 8 <=> Now = "zs_wq") /\ (Left = 7 <=> Now = "zones")
           /\ (Left = 6 <=> Now = "zmd") /\ (Left = 5 <=> Now = "disk") /\ (Left = 4 <=> Now = "idx")
           /\ (Left = 3 <=> Now = "listed") /\ (Left = 2 <=> Now = "bdev") /\ (Left = 1 <=> Now = "dev")
           /\ Now \in Step /\ Now # "gc_thread"
           /\ \A s \in Lifespan : Ends(s[1]) <=> Left = s[4]
  <1>1. PICK n, x : n = Left /\ x = Now
    OBVIOUS
  <1>2. ctl.todo \in Seq(Step)
    BY DEF TypeOK
  <1>3. n \in 1 .. 21 /\ x = RemovePlan[21 - n + 1] /\ ctl.todo # <<>>
    <2>1. n \in 1 .. 21 /\ \A i \in 1 .. n : ctl.todo[i] = RemovePlan[21 - n + i]
      BY <1>1, RemoveSteps DEF EndOf
    <2>2. ctl.todo # <<>> /\ x = ctl.todo[1]
      BY <1>1, <1>2, <2>1 DEF Left, Now
    <2> QED
      BY <2>1, <2>2
  <1>4./\ (n = 21 => x = "wait") /\ (n = 20 => x = "unready") /\ (n = 19 => x = "proc")
       /\ (n = 18 => x = "nat_sit") /\ (n = 17 => x = "stop_gc") /\ (n = 16 => x = "join_gc")
       /\ (n = 15 => x = "gc_ctx") /\ (n = 14 => x = "retry_timer") /\ (n = 13 => x = "retry_wq")
       /\ (n = 12 => x = "iosched") /\ (n = 11 => x = "nodes") /\ (n = 10 => x = "mapping")
       /\ (n = 9 => x = "zs_timer") /\ (n = 8 => x = "zs_wq") /\ (n = 7 => x = "zones")
       /\ (n = 6 => x = "zmd") /\ (n = 5 => x = "disk") /\ (n = 4 => x = "idx")
       /\ (n = 3 => x = "listed") /\ (n = 2 => x = "bdev") /\ (n = 1 => x = "dev")
    BY ONLY <1>3, RemoveSteps
  <1>5./\ (n = 21 <=> x = "wait") /\ (n = 20 <=> x = "unready") /\ (n = 19 <=> x = "proc")
       /\ (n = 18 <=> x = "nat_sit") /\ (n = 17 <=> x = "stop_gc") /\ (n = 16 <=> x = "join_gc")
       /\ (n = 15 <=> x = "gc_ctx") /\ (n = 14 <=> x = "retry_timer") /\ (n = 13 <=> x = "retry_wq")
       /\ (n = 12 <=> x = "iosched") /\ (n = 11 <=> x = "nodes") /\ (n = 10 <=> x = "mapping")
       /\ (n = 9 <=> x = "zs_timer") /\ (n = 8 <=> x = "zs_wq") /\ (n = 7 <=> x = "zones")
       /\ (n = 6 <=> x = "zmd") /\ (n = 5 <=> x = "disk") /\ (n = 4 <=> x = "idx")
       /\ (n = 3 <=> x = "listed") /\ (n = 2 <=> x = "bdev") /\ (n = 1 <=> x = "dev")
    BY ONLY <1>3, <1>4
  <1>6. x \in Step /\ x # "gc_thread"
    BY ONLY <1>3, <1>5 DEF Step, Thing, Memory
  <1>7. ASSUME NEW s \in Lifespan PROVE (x = s[1] \/ (x = "join_gc" /\ s[1] = "gc_thread")) <=> n = s[4]
    <2>1. PICK y, c : y = s[1] /\ c = s[4]
      OBVIOUS
    <2>2. \/ (y = "dev" /\ c = 1) \/ (y = "idx" /\ c = 4) \/ (y = "disk" /\ c = 5)
          \/ (y = "zmd" /\ c = 6) \/ (y = "zones" /\ c = 7) \/ (y = "zs_wq" /\ c = 8)
          \/ (y = "zs_timer" /\ c = 9) \/ (y = "mapping" /\ c = 10) \/ (y = "nodes" /\ c = 11)
          \/ (y = "iosched" /\ c = 12) \/ (y = "retry_wq" /\ c = 13) \/ (y = "retry_timer" /\ c = 14)
          \/ (y = "gc_ctx" /\ c = 15) \/ (y = "gc_thread" /\ c = 16) \/ (y = "proc" /\ c = 19)
          \/ (y = "nat_sit" /\ c = 18) \/ (y = "listed" /\ c = 3)
      BY ONLY <2>1, s \in Lifespan DEF Lifespan
    <2>3. (x = y \/ (x = "join_gc" /\ y = "gc_thread")) <=> n = c
      BY ONLY <1>3, <1>5, <2>2
    <2> QED
      BY <2>1, <2>3
  <1>8. \A s \in Lifespan : Ends(s[1]) <=> n = s[4]
    BY ONLY <1>1, <1>7 DEF Ends
  <1> QED
    BY ONLY <1>1, <1>3, <1>5, <1>6, <1>8

\* An error label is the end of the longest one.
Suffix(undo, n) ==
    /\ undo \in Seq(Step) /\ Len(undo) = n
    /\ \A i \in 1 .. n : undo[i] = bs_err[16 - n + i]

\* Every label is one.
LEMMA Suffixes ==
    /\ Suffix(<<"dev">>, 1) /\ Suffix(<<"idx", "dev">>, 2) /\ Suffix(zone_err, 4)
    /\ Suffix(<<"zones">> \o zone_err, 5) /\ Suffix(iosched_err, 10) /\ Suffix(gc_err, 13)
    /\ Suffix(proc_err, 15) /\ Suffix(bs_err, 16)
  <1>1. Suffix(<<"dev">>, 1)
    BY UnwindSteps DEF Suffix, Step, Thing, Memory
  <1>2. Suffix(<<"idx", "dev">>, 2)
    <2>1. PICK s : s = <<"idx", "dev">>
      OBVIOUS
    <2>2. s \in Seq(Step) /\ Len(s) = 2 /\ s[1] = "idx" /\ s[2] = "dev"
      BY <2>1 DEF Step, Thing, Memory
    <2>3. bs_err[15] = "idx" /\ bs_err[16] = "dev"
      BY UnwindSteps
    <2>4. ASSUME NEW i \in 1 .. 2 PROVE s[i] = bs_err[16 - 2 + i]
      <3>1. i = 1 \/ i = 2
        OBVIOUS
      <3> QED
        BY ONLY <3>1, <2>2, <2>3
    <2> QED
      BY <2>1, <2>2, <2>4 DEF Suffix
  <1>3. Suffix(zone_err, 4)
    <2>1. ASSUME NEW i \in 1 .. 4 PROVE zone_err[i] = bs_err[16 - 4 + i]
      BY LabelEnds
    <2> QED
      BY <2>1, LabelSteps DEF Suffix
  <1>4. Suffix(<<"zones">> \o zone_err, 5)
    <2>1. PICK s, t, r : s = <<"zones">> /\ t = zone_err /\ r = s \o t
      OBVIOUS
    <2>2. PICK m, n : m = Len(s) /\ n = Len(t)
      OBVIOUS
    <2>3. s \in Seq(Step) /\ m = 1 /\ s[1] = "zones"
      BY <2>1, <2>2 DEF Step, Thing, Memory
    <2>4. t \in Seq(Step) /\ n = 4 /\ \A i \in 1 .. 4 : t[i] = bs_err[12 + i]
      BY <1>3, <2>1, <2>2 DEF Suffix
    <2>5. m \in Nat /\ n \in Nat
      BY <2>3, <2>4
    <2>6. /\ r \in Seq(Step) /\ Len(r) = m + n
          /\ \A i \in 1 .. m : r[i] = s[i]
          /\ \A i \in 1 .. n : r[m + i] = t[i]
      <3>1. s \in Seq(Step) /\ t \in Seq(Step) /\ r = s \o t
        BY <2>1, <2>3, <2>4
      <3> QED
        BY ONLY <3>1, <2>2, <2>5
    <2>7. r \in Seq(Step) /\ Len(r) = 5 /\ r[1] = "zones" /\ \A i \in 1 .. 4 : r[1 + i] = bs_err[12 + i]
      BY ONLY <2>3, <2>4, <2>6
    <2>8. ASSUME NEW i \in 1 .. 5 PROVE r[i] = bs_err[16 - 5 + i]
      <3>1. CASE i = 1
        BY <2>7, <3>1, UnwindSteps
      <3>2. CASE i # 1
        <4>1. PICK j : j = i - 1
          OBVIOUS
        <4>2. j \in 1 .. 4 /\ 1 + j = i /\ 12 + j = 16 - 5 + i
          BY <3>2, <4>1
        <4> QED
          BY <2>7, <4>2
      <3> QED
        BY <3>1, <3>2
    <2> QED
      BY <2>1, <2>7, <2>8 DEF Suffix
  <1>5. Suffix(iosched_err, 10)
    <2>1. ASSUME NEW i \in 1 .. 10 PROVE iosched_err[i] = bs_err[16 - 10 + i]
      BY LabelEnds
    <2> QED
      BY <2>1, LabelSteps DEF Suffix
  <1>6. Suffix(gc_err, 13)
    <2>1. ASSUME NEW i \in 1 .. 13 PROVE gc_err[i] = bs_err[16 - 13 + i]
      BY LabelEnds
    <2> QED
      BY <2>1, LabelSteps DEF Suffix
  <1>7. Suffix(proc_err, 15)
    <2>1. \A i \in 1 .. 15 : bs_err[1 + i] = proc_err[i]
      BY LabelSteps
    <2>2. ASSUME NEW i \in 1 .. 15 PROVE proc_err[i] = bs_err[16 - 15 + i]
      BY ONLY <2>1
    <2> QED
      BY <2>2, LabelSteps DEF Suffix
  <1>8. Suffix(bs_err, 16)
    BY UnwindSteps DEF Suffix
  <1> QED
    BY <1>1, <1>2, <1>3, <1>4, <1>5, <1>6, <1>7, <1>8

\* A step of creation fails with so many steps left, so many are left to undo.
Jump == {<<21, 0>>, <<20, 0>>, <<19, 1>>, <<18, 2>>, <<16, 4>>, <<15, 5>>, <<10, 10>>, <<7, 13>>,
         <<5, 15>>, <<4, 16>>}

\* What a failed step of creation leaves to do.
LEMMA FailsFx ==
    ASSUME TypeOK, EndOf(CreatePlan), CreateFails
    PROVE  /\ ctl.mode = "create" /\ <<Left, Left'>> \in Jump
           /\ ctl' \in Ctls
           /\ ctl'.mode = IF Left' = 0 THEN "idle" ELSE "unwind"
           /\ ctl'.mode = "unwind" => EndOf(bs_err)'
  <1>1. PICK undo, n : undo = ErrorLabel(Now) /\ n = Len(undo)
    OBVIOUS
  <1>2. /\ ctl.mode = "create" /\ Now \in Fallible
        /\ ctl' = [ctl EXCEPT !.todo = undo, !.mode = IF undo = <<>> THEN "idle" ELSE "unwind"]
    BY <1>1 DEF CreateFails
  <1>3. /\ undo \in Seq(Step) /\ n \in 0 .. 16 /\ <<Left, n>> \in Jump
        /\ n # 0 => Suffix(undo, n)
    <2>1. CASE Now = "bdev" \/ Now = "dev"
      <3>1. undo = <<>> /\ (Left = 21 \/ Left = 20)
        BY <1>1, <1>2, <2>1, CreateNow DEF ErrorLabel
      <3> QED
        BY <1>1, <3>1 DEF Jump
    <2>2. CASE Now = "idx"
      <3>1. undo = <<"dev">> /\ Left = 19
        BY <1>1, <1>2, <2>2, CreateNow DEF ErrorLabel
      <3>2. Suffix(undo, 1)
        BY <3>1, Suffixes
      <3> QED
        BY <1>1, <3>1, <3>2 DEF Suffix, Jump
    <2>3. CASE Now = "disk"
      <3>1. undo = <<"idx", "dev">> /\ Left = 18
        BY <1>1, <1>2, <2>3, CreateNow DEF ErrorLabel
      <3>2. Suffix(undo, 2)
        BY <3>1, Suffixes
      <3> QED
        BY <1>1, <3>1, <3>2 DEF Suffix, Jump
    <2>4. CASE Now = "zones"
      <3>1. undo = zone_err /\ Left = 16
        BY <1>1, <1>2, <2>4, CreateNow DEF ErrorLabel
      <3>2. Suffix(undo, 4)
        BY <3>1, Suffixes
      <3> QED
        BY <1>1, <3>1, <3>2 DEF Suffix, Jump
    <2>5. CASE Now = "zs_wq"
      <3>1. undo = <<"zones">> \o zone_err /\ Left = 15
        BY <1>1, <1>2, <2>5, CreateNow DEF ErrorLabel
      <3>2. Suffix(undo, 5)
        BY <3>1, Suffixes
      <3> QED
        BY <1>1, <3>1, <3>2 DEF Suffix, Jump
    <2>6. CASE Now = "retry_wq"
      <3>1. undo = iosched_err /\ Left = 10
        BY <1>1, <1>2, <2>6, CreateNow DEF ErrorLabel
      <3>2. Suffix(undo, 10)
        BY <3>1, Suffixes
      <3> QED
        BY <1>1, <3>1, <3>2 DEF Suffix, Jump
    <2>7. CASE Now = "gc_thread"
      <3>1. undo = gc_err /\ Left = 7
        BY <1>1, <1>2, <2>7, CreateNow DEF ErrorLabel
      <3>2. Suffix(undo, 13)
        BY <3>1, Suffixes
      <3> QED
        BY <1>1, <3>1, <3>2 DEF Suffix, Jump
    <2>8. CASE Now = "proc"
      <3>1. undo = proc_err /\ Left = 5
        BY <1>1, <1>2, <2>8, CreateNow DEF ErrorLabel
      <3>2. Suffix(undo, 15)
        BY <3>1, Suffixes
      <3> QED
        BY <1>1, <3>1, <3>2 DEF Suffix, Jump
    <2>9. CASE Now = "bioset"
      <3>1. undo = bs_err /\ Left = 4
        BY <1>1, <1>2, <2>9, CreateNow DEF ErrorLabel
      <3>2. Suffix(undo, 16)
        BY <3>1, Suffixes
      <3> QED
        BY <1>1, <3>1, <3>2 DEF Suffix, Jump
    <2> QED
      BY <1>2, <2>1, <2>2, <2>3, <2>4, <2>5, <2>6, <2>7, <2>8, <2>9 DEF Fallible
  <1>4. n = 0 <=> undo = <<>>
    BY <1>1, <1>3
  <1>5. ctl'.todo = undo /\ ctl'.mode = IF n = 0 THEN "idle" ELSE "unwind"
    BY <1>2, <1>4 DEF TypeOK
  <1>6. ASSUME n # 0 PROVE EndOf(bs_err)'
    <2>1. n \in 1 .. 16 /\ \A i \in 1 .. n : undo[i] = bs_err[16 - n + i]
      BY <1>3, <1>6 DEF Suffix
    <2>2. n \in 1 .. Len(bs_err) /\ \A i \in 1 .. n : undo[i] = bs_err[Len(bs_err) - n + i]
      BY <2>1, UnwindSteps
    <2>3. Left' = n /\ ctl'.todo = undo
      BY <1>1, <1>5 DEF Left
    <2> QED
      BY <2>2, <2>3 DEF EndOf
  <1>7. ctl' \in Ctls
    BY <1>2, <1>3 DEF TypeOK, Ctls
  <1>8. Left' = n
    BY <1>1, <1>5 DEF Left
  <1> QED
    BY <1>2, <1>3, <1>5, <1>6, <1>7, <1>8

-----------------------------------------------------------------------------
(* Types.                                                                  *)

\* The parts of the type invariant.
LEMMA TypeParts ==
    TypeOK <=> /\ ctl \in Ctls /\ held \subseteq Thing /\ map \in Maps /\ flags \in Flags /\ gc \in Gcs
               /\ zone \in [victims : 0 .. MaxVictims, state : {"none", "walk", "walked"}]
               /\ zs \in {"idle", "queued", "run"} /\ rt \in Rts /\ io \in Ios
  BY DEF TypeOK, Ctls, Maps, Flags, Gcs, Rts, Ios

\* The same after a step.
LEMMA TypePartsNext ==
    ASSUME ctl' \in Ctls, held' \subseteq Thing, map' \in Maps, flags' \in Flags, gc' \in Gcs,
           zone' \in [victims : 0 .. MaxVictims, state : {"none", "walk", "walked"}],
           zs' \in {"idle", "queued", "run"}, rt' \in Rts, io' \in Ios
    PROVE  TypeOK'
  BY DEF TypeOK, Ctls, Maps, Flags, Gcs, Rts, Ios

\* The plans depend on the control thread alone.
LEMMA SamePlan ==
    ASSUME OnPlan, ctl' = ctl
    PROVE  OnPlan'
  BY DEF OnPlan, EndOf, Left

\* A step that changes neither the copies nor the retry worker.
LEMMA SameCopies ==
    ASSUME Copies, io' = io, rt' = rt
    PROVE  Copies'
  BY DEF Copies

\* Readers, users and their I/O.
LEMMA UserSteady ==
    ASSUME Steady, ctl.mode # "oops",
           open_dev \/ release_dev \/ UserIo \/ UserIoEnds \/ read_lbz_dev_proc \/ ReadEnds
    PROVE  Steady'
  <1>1. ctl' = ctl /\ TypeOK /\ Copies /\ OnPlan
    BY DEF Steady, open_dev, release_dev, UserIo, UserIoEnds, read_lbz_dev_proc, ReadEnds
  <1>2. CASE open_dev \/ release_dev \/ read_lbz_dev_proc \/ ReadEnds
    <2>1. flags' \in Flags
      <3>1. flags \in Flags
        BY <1>1, TypeParts
      <3>2. CASE open_dev \/ release_dev
        <4>1. PICK e \in 0 .. 1 : flags' = [flags EXCEPT !.refcnt = e]
          BY <3>2 DEF open_dev, release_dev
        <4> QED
          BY <3>1, <4>1 DEF Flags
      <3>3. CASE read_lbz_dev_proc \/ ReadEnds
        <4>1. PICK e \in BOOLEAN : flags' = [flags EXCEPT !.reader = e]
          BY <3>3 DEF read_lbz_dev_proc, ReadEnds
        <4> QED
          BY <3>1, <4>1 DEF Flags
      <3> QED
        BY <1>2, <3>2, <3>3
    <2>2. TypeOK'
      BY <1>1, <1>2, <2>1, TypeParts, TypePartsNext DEF open_dev, release_dev, read_lbz_dev_proc, ReadEnds
    <2>3. Copies'
      BY <1>1, <1>2, SameCopies DEF open_dev, release_dev, read_lbz_dev_proc, ReadEnds
    <2> QED
      BY <1>1, <2>2, <2>3, SamePlan DEF Steady
  <1>3. CASE UserIo \/ UserIoEnds
    <2>1. TypeOK'
      <3>1. flags' \in Flags /\ rt' \in Rts
        BY <1>1, <1>3, TypeParts DEF Flags, Rts, UserIo, UserIoEnds
      <3>2. io' \in Ios
        BY <1>1, <1>3, TypeParts DEF Ios, UserIo, UserIoEnds
      <3> QED
        BY <1>1, <1>3, <3>1, <3>2, TypeParts, TypePartsNext DEF UserIo, UserIoEnds
    <2>2. /\ io'.read = io.read /\ io'.list = io.list /\ io'.write = io.write
          /\ rt'.left = rt.left /\ rt'.run = rt.run
      BY <1>1, <1>3 DEF TypeOK, UserIo, UserIoEnds
    <2>3. Copies'
      BY <1>1, <2>2 DEF Copies
    <2> QED
      BY <1>1, <2>1, <2>3, SamePlan DEF Steady
  <1> QED
    BY <1>2, <1>3

\* The GC thread.
LEMMA GcSteady ==
    ASSUME Steady, ctl.mode # "oops", GcThread
    PROVE  Steady'
  <1>1. ctl' = ctl /\ map' = map /\ flags' = flags /\ zs' = zs /\ rt' = rt /\ TypeOK /\ Copies /\ OnPlan
    BY DEF Steady, GcThread
  <1>2. CASE GcCopy
    <2>1. PICK d \in 0 .. MaxCopies : d = io.read
      BY <1>1 DEF TypeOK
    <2>2. d + io.list + rt.left + io.write < MaxCopies
      BY <1>2, <2>1 DEF GcCopy, gc_inflight_io_cnt
    <2>3. MaxCopies \in Nat /\ io.list \in Nat /\ rt.left \in Nat /\ io.write \in Nat
      BY <1>1, LifecycleAssumption DEF TypeOK
    <2>4. d + 1 \in 0 .. MaxCopies /\ d + 1 + io.list + rt.left + io.write <= MaxCopies
      BY <2>2, <2>3
    <2>5. io' = [io EXCEPT !.read = d + 1] /\ held' = held /\ gc' = gc /\ zone' = zone
      BY <1>2, <2>1 DEF GcCopy
    <2>6. TypeOK'
      <3>1. io' \in Ios
        BY <1>1, <2>4, <2>5, TypeParts DEF Ios
      <3> QED
        BY <1>1, <2>5, <3>1, TypeParts, TypePartsNext
    <2>7. io'.read = d + 1 /\ io'.list = io.list /\ io'.write = io.write
      BY <1>1, <2>5 DEF TypeOK
    <2>8. Copies'
      BY <1>1, <2>4, <2>7 DEF Copies
    <2> QED
      BY <1>1, <2>6, <2>8, SamePlan DEF Steady
  <1>3. CASE GcBorn \/ GcLoop \/ GcSleeps \/ GcVictim \/ GcZoneEnd \/ GcExit
    <2>1. io' = io /\ held' \subseteq held
      BY <1>3 DEF GcBorn, GcLoop, GcSleeps, GcVictim, GcZoneEnd, GcExit
    <2>2. gc' \in Gcs
      <3>1. gc \in Gcs
        BY <1>1, TypeParts
      <3>2. CASE GcBorn \/ GcLoop
        <4>1. PICK x \in {"exiting", "gone", "loop", "test"} : gc' = [gc EXCEPT !.pc = x]
          BY <3>2 DEF GcBorn, GcLoop
        <4> QED
          BY <3>1, <4>1 DEF Gcs
      <3>3. CASE GcSleeps \/ GcVictim \/ GcZoneEnd
        <4>1. PICK x \in {"sleep", "zone", "test"} : gc' = [gc EXCEPT !.pc = x]
          BY <3>3 DEF GcSleeps, GcVictim, GcZoneEnd
        <4> QED
          BY <3>1, <4>1 DEF Gcs
      <3>4. CASE GcExit
        BY <3>1, <3>4 DEF GcExit, Gcs
      <3> QED
        BY <1>3, <3>2, <3>3, <3>4
    <2>3. zone' \in [victims : 0 .. MaxVictims, state : {"none", "walk", "walked"}]
      <3>1. CASE GcVictim
        <4>1. zone.victims \in 0 .. MaxVictims /\ zone.victims > 0 /\ MaxVictims \in Nat
          BY <1>1, <3>1, LifecycleAssumption DEF TypeOK, GcVictim
        <4>2. zone.victims - 1 \in 0 .. MaxVictims
          BY <4>1
        <4> QED
          BY <3>1, <4>2 DEF GcVictim
      <3>2. CASE ~GcVictim
        BY <1>1, <1>3, <3>2 DEF TypeOK, GcBorn, GcLoop, GcSleeps, GcZoneEnd, GcExit
      <3> QED
        BY <3>1, <3>2
    <2>4. TypeOK'
      BY <1>1, <2>1, <2>2, <2>3, TypeParts, TypePartsNext
    <2> QED
      BY <1>1, <2>1, <2>4, SamePlan, SameCopies DEF Steady
  <1> QED
    BY <1>2, <1>3 DEF GcThread

\* The ends of GC's I/O.
LEMMA GcIoSteady ==
    ASSUME Steady, ctl.mode # "oops", GcReadEnds \/ GcWriteEnds
    PROVE  Steady'
  <1>1. TypeOK /\ Copies /\ OnPlan /\ ctl' = ctl /\ held' = held /\ map' = map /\ gc' = gc /\ zone' = zone /\ zs' = zs
    BY DEF Steady, GcReadEnds, GcWriteEnds
  <1>2. PICK a, b, c, d : a = io.read /\ b = io.list /\ c = rt.left /\ d = io.write
    OBVIOUS
  <1>3. /\ a \in 0 .. MaxCopies /\ b \in 0 .. MaxCopies /\ c \in 0 .. MaxCopies /\ d \in 0 .. MaxCopies
        /\ MaxCopies \in Nat /\ a + b + c + d <= MaxCopies
    BY <1>1, <1>2, LifecycleAssumption DEF TypeOK, Copies
  <1>4. flags' \in Flags
    <2>1. flags' = flags \/ flags' = [flags EXCEPT !.faulty = TRUE]
      BY DEF GcReadEnds, GcWriteEnds
    <2> QED
      BY <1>1, <2>1, TypeParts DEF Flags
  <1>5. /\ rt' \in Rts
        /\ rt'.left = c /\ rt'.run = rt.run
    <2>1. rt' = rt \/ rt' = [rt EXCEPT !.pend = IF @ = "no" THEN "delayed" ELSE @]
      BY DEF GcReadEnds, GcWriteEnds
    <2> QED
      BY <1>1, <1>2, <2>1, TypeParts DEF Rts
  <1>6. PICK p, q, r :
          /\ io' = [io EXCEPT !.read = p, !.list = q, !.write = r]
          /\ \/ a > 0 /\ p = a - 1 /\ q = b + 1 /\ r = d
             \/ a > 0 /\ p = a - 1 /\ q = b /\ r = d
             \/ d > 0 /\ p = a /\ q = b /\ r = d - 1
    <2>1. CASE GcWriteEnds
      <3>1. d > 0 /\ io' = [io EXCEPT !.read = a, !.list = b, !.write = d - 1]
        BY <1>1, <1>2, <2>1 DEF TypeOK, GcWriteEnds
      <3> QED
        BY <3>1
    <2>2. CASE GcReadEnds
      <3>1. a > 0 /\ (\/ io' = [io EXCEPT !.read = a - 1, !.list = b + 1]
                      \/ io' = [io EXCEPT !.read = a - 1])
        BY <1>2, <2>2 DEF GcReadEnds
      <3>2. \/ io' = [io EXCEPT !.read = a - 1, !.list = b + 1, !.write = d]
            \/ io' = [io EXCEPT !.read = a - 1, !.list = b, !.write = d]
        BY <1>1, <1>2, <3>1, TypeParts DEF Ios
      <3> QED
        BY <3>1, <3>2
    <2> QED
      BY <2>1, <2>2
  <1>7. p \in 0 .. MaxCopies /\ q \in 0 .. MaxCopies /\ r \in 0 .. MaxCopies /\ p + q + c + r <= MaxCopies
    BY ONLY <1>3, <1>6
  <1>8. io' \in Ios /\ io'.read = p /\ io'.list = q /\ io'.write = r
    BY <1>1, <1>6, <1>7, TypeParts DEF Ios
  <1>9. TypeOK'
    BY <1>1, <1>4, <1>5, <1>8, TypeParts, TypePartsNext
  <1>10. Copies'
    BY <1>1, <1>2, <1>5, <1>7, <1>8 DEF Copies
  <1> QED
    BY <1>1, <1>9, <1>10, SamePlan DEF Steady

\* The retry worker and its timer.
LEMMA RetrySteady ==
    ASSUME Steady, ctl.mode # "oops", RetryTimer \/ RetryWork
    PROVE  Steady'
  <1>1. /\ TypeOK /\ Copies /\ OnPlan /\ held' = held /\ map' = map /\ flags' = flags /\ gc' = gc
        /\ zone' = zone /\ zs' = zs
    BY DEF Steady, RetryTimer, RetryWork, RetryStart, RetryCopy, RetryEnd
  <1>2. PICK a, b, c, d : a = io.read /\ b = io.list /\ c = rt.left /\ d = io.write
    OBVIOUS
  <1>3. /\ a \in 0 .. MaxCopies /\ b \in 0 .. MaxCopies /\ c \in 0 .. MaxCopies /\ d \in 0 .. MaxCopies
        /\ MaxCopies \in Nat /\ a + b + c + d <= MaxCopies
    BY <1>1, <1>2, LifecycleAssumption DEF TypeOK, Copies
  <1>4. CASE RetryTimer \/ RetryEnd
    <2>1. ctl' = ctl /\ io' = io
      BY <1>4 DEF RetryTimer, RetryEnd
    <2>2. rt' \in Rts /\ rt'.left = rt.left /\ (~rt'.run => ~rt.run \/ rt.left = 0)
      BY <1>1, <1>4, TypeParts DEF Rts, RetryTimer, RetryEnd
    <2>3. Copies'
      BY <1>1, <2>1, <2>2 DEF Copies
    <2>4. TypeOK'
      BY <1>1, <2>1, <2>2, TypeParts, TypePartsNext
    <2> QED
      BY <1>1, <2>1, <2>3, <2>4, SamePlan DEF Steady
  <1>5. CASE RetryStart
    <2>1. ctl' = ctl /\ c = 0
      BY <1>1, <1>2, <1>5 DEF RetryStart, Copies
    <2>2. CASE Halted
      <3>1. io' = io /\ rt' = [pend |-> "no", run |-> FALSE, left |-> 0]
        BY <1>5, <2>2 DEF RetryStart
      <3>2. TypeOK'
        BY <1>1, <1>3, <2>1, <3>1 DEF TypeOK
      <3>3. Copies'
        BY <1>1, <1>2, <2>1, <3>1 DEF Copies
      <3> QED
        BY <1>1, <2>1, <3>2, <3>3, SamePlan DEF Steady
    <2>3. CASE ~Halted
      <3>1. PICK u : u = IF io.user = "list" THEN "device" ELSE io.user
        OBVIOUS
      <3>2. u \in {"none", "device", "list"}
        BY <1>1, <3>1 DEF TypeOK
      <3>3. io' = [io EXCEPT !.list = 0, !.user = u] /\ rt' = [pend |-> "no", run |-> TRUE, left |-> b]
        BY <1>2, <1>5, <2>3, <3>1 DEF RetryStart
      <3>4. TypeOK' /\ io'.read = a /\ io'.list = 0 /\ io'.write = d
        <4>0. 0 \in 0 .. MaxCopies /\ io \in Ios
          BY <1>1, <1>3, TypeParts
        <4>1. io' \in Ios /\ io'.read = a /\ io'.list = 0 /\ io'.write = d
          BY ONLY <1>2, <3>2, <3>3, <4>0 DEF Ios
        <4>2. rt' \in Rts
          BY <1>3, <3>3 DEF Rts
        <4> QED
          BY <1>1, <2>1, <4>1, <4>2, TypeParts, TypePartsNext
      <3>5. rt'.left = b /\ rt'.run
        BY <3>3
      <3>6. Copies'
        BY <1>3, <2>1, <3>4, <3>5 DEF Copies
      <3> QED
        BY <1>1, <2>1, <3>4, <3>6, SamePlan DEF Steady
    <2> QED
      BY <2>2, <2>3
  <1>6. CASE RetryCopy
    <2>1. CASE flags.faulty
      <3>1. ctl' = [ctl EXCEPT !.mode = "oops"] /\ rt' = rt /\ io' = io
        BY <1>6, <2>1 DEF RetryCopy
      <3>2. ctl' \in Ctls /\ ctl'.mode = "oops"
        BY <1>1, <3>1, TypeParts DEF Ctls
      <3>3. TypeOK'
        BY <1>1, <3>1, <3>2, TypeParts, TypePartsNext
      <3> QED
        BY <1>1, <3>1, <3>2, <3>3, SameCopies DEF Steady
    <2>2. CASE ~flags.faulty
      <3>1. /\ ctl' = ctl /\ rt.run /\ c > 0 /\ rt' = [rt EXCEPT !.left = c - 1]
            /\ \/ io' = [io EXCEPT !.write = d + 1]
               \/ io' = io
        BY <1>2, <1>6, <2>2 DEF RetryCopy
      <3>2. c - 1 \in 0 .. MaxCopies /\ d + 1 \in 0 .. MaxCopies
        BY <1>3, <3>1
      <3>3. TypeOK' /\ rt'.left = c - 1 /\ rt'.run = rt.run
        <4>1. rt' \in Rts /\ rt'.left = c - 1 /\ rt'.run = rt.run
          BY <1>1, <3>1, <3>2, TypeParts DEF Rts
        <4>2. io' \in Ios
          BY <1>1, <3>1, <3>2, TypeParts DEF Ios
        <4> QED
          BY <1>1, <3>1, <4>1, <4>2, TypeParts, TypePartsNext
      <3>4. io'.read = a /\ io'.list = b /\ (io'.write = d \/ io'.write = d + 1)
        BY <1>1, <1>2, <3>1 DEF TypeOK
      <3>5. Copies'
        BY <1>3, <3>1, <3>3, <3>4 DEF Copies
      <3> QED
        BY <1>1, <3>1, <3>3, <3>5, SamePlan DEF Steady
    <2> QED
      BY <2>1, <2>2
  <1> QED
    BY <1>4, <1>5, <1>6 DEF RetryWork

\* The zone state worker and its timer.
LEMMA ZsSteady ==
    ASSUME Steady, ctl.mode # "oops", ZsTimer \/ ZoneStateWork
    PROVE  Steady'
  <1>1. /\ TypeOK /\ Copies /\ OnPlan /\ ctl' = ctl /\ held' = held /\ map' = map /\ flags' = flags /\ gc' = gc
        /\ rt' = rt /\ io' = io
    BY DEF Steady, ZsTimer, ZoneStateWork, ZsStart, ZsEnd
  <1>2. TypeOK'
    BY <1>1 DEF TypeOK, ZsTimer, ZoneStateWork, ZsStart, ZsEnd
  <1> QED
    BY <1>1, <1>2, SamePlan, SameCopies DEF Steady

\* A step of creation, by what is left to do.
LEMMA AcquireFx ==
    ASSUME Steady, Acquire
    PROVE  /\ EndOf(CreatePlan) /\ ctl' \in Ctls /\ OnPlan' /\ Left \in 1 .. 21 /\ Left' = Left - 1
           /\ ctl'.mode = IF Left = 1 THEN "idle" ELSE "create"
  <1>1. TypeOK /\ ctl.mode = "create" /\ Advance("idle") /\ EndOf(CreatePlan) /\ ctl \in Ctls
    BY TypeParts DEF Steady, Acquire, OnPlan
  <1>2. CreatePlan \in Seq(Step) /\ Len(CreatePlan) = 21
    BY CreateSteps
  <1>3. PICK plan, mode : plan = CreatePlan /\ mode = "idle"
    OBVIOUS
  <1>4. plan \in Seq(Step) /\ EndOf(plan) /\ mode \in {"idle", "unloaded"} /\ Advance(mode)
    BY <1>1, <1>2, <1>3
  <1>5. /\ ctl' \in Ctls /\ Left \in 1 .. Len(plan) /\ Left' = Left - 1
        /\ ctl'.mode = IF Left = 1 THEN mode ELSE ctl.mode
        /\ Left # 1 => EndOf(plan)'
    BY ONLY <1>1, <1>4, AdvanceFx
  <1>6. OnPlan'
    BY <1>1, <1>3, <1>5 DEF OnPlan
  <1> QED
    BY <1>1, <1>2, <1>3, <1>5, <1>6

\* A step of an unwinding or of removal.
LEMMA ReleaseFx ==
    ASSUME Steady, Releasing, Advance(Done)
    PROVE  /\ ctl' \in Ctls /\ OnPlan' /\ Left' = Left - 1 /\ Now \in Step
           /\ ctl.mode = "unwind" => /\ EndOf(bs_err) /\ Left \in 1 .. 16
                                     /\ ctl'.mode = IF Left = 1 THEN "idle" ELSE "unwind"
           /\ ctl.mode = "remove" => /\ EndOf(RemovePlan) /\ Left \in 1 .. 21
                                     /\ ctl'.mode = IF Left = 1 THEN "unloaded" ELSE "remove"
  <1>1. TypeOK /\ ctl \in Ctls /\ (ctl.mode = "unwind" \/ ctl.mode = "remove") /\ OnPlan
    BY TypeParts DEF Steady, Releasing
  <1>2. PICK plan, mode : plan = (IF ctl.mode = "unwind" THEN bs_err ELSE RemovePlan) /\ mode = Done
    OBVIOUS
  <1>3. /\ plan \in Seq(Step) /\ EndOf(plan) /\ mode \in {"idle", "unloaded"} /\ Advance(mode)
        /\ Len(plan) = IF ctl.mode = "unwind" THEN 16 ELSE 21
        /\ mode = IF ctl.mode = "unwind" THEN "idle" ELSE "unloaded"
    <2>1. CASE ctl.mode = "unwind"
      BY <1>1, <1>2, <2>1, UnwindSteps DEF OnPlan, Done
    <2>2. CASE ctl.mode = "remove"
      BY <1>1, <1>2, <2>2, RemoveSteps DEF OnPlan, Done
    <2> QED
      BY <1>1, <2>1, <2>2
  <1>4. /\ ctl' \in Ctls /\ Left \in 1 .. Len(plan) /\ Left' = Left - 1 /\ Now \in Step
        /\ ctl'.mode = IF Left = 1 THEN mode ELSE ctl.mode
        /\ Left # 1 => EndOf(plan)'
    BY ONLY <1>1, <1>3, AdvanceFx
  <1>5. CASE ctl.mode = "unwind"
    <2>1. plan = bs_err /\ Len(plan) = 16 /\ mode = "idle"
      BY <1>2, <1>3, <1>5
    <2>2. OnPlan'
      BY <1>4, <1>5, <2>1 DEF OnPlan
    <2> QED
      BY <1>3, <1>4, <1>5, <2>1, <2>2
  <1>6. CASE ctl.mode = "remove"
    <2>1. plan = RemovePlan /\ Len(plan) = 21 /\ mode = "unloaded"
      BY <1>2, <1>3, <1>6
    <2>2. OnPlan'
      BY <1>4, <1>6, <2>1 DEF OnPlan
    <2> QED
      BY <1>3, <1>4, <1>6, <2>1, <2>2
  <1> QED
    BY <1>1, <1>5, <1>6

\* The nodes lbz_mapping_init allocates are numbered from zero.
LEMMA MapTyped ==
    ASSUME NEW m \in Sizes
    PROVE  [max |-> m, root |-> lbz_mapping_init(m).root, leaves |-> lbz_mapping_init(m).leaves] \in Maps
  <1>1. PICK root, leaves : root = lbz_mapping_init(m).root /\ leaves = lbz_mapping_init(m).leaves
    OBVIOUS
  <1>2. PICK n, e : n = nr_internal_node(m) - 1 /\ e = LBZ_INT_NODE_ENTRIES - 1
    OBVIOUS
  <1>3. root = 0 .. n /\ leaves \subseteq (0 .. n) \X (0 .. e)
    BY <1>1, <1>2 DEF lbz_mapping_init, Leaves
  <1>4. 0 .. n \subseteq Nat /\ 0 .. e \subseteq Nat
    OBVIOUS
  <1>5. root \subseteq Nat /\ leaves \subseteq Nat \X Nat
    BY <1>3, <1>4
  <1> QED
    BY <1>1, <1>5 DEF Maps

\* Creation.
LEMMA CreateSteady ==
    ASSUME Steady, ctl.mode # "oops", lbz_create_device \/ Acquire \/ CreateFails \/ ReportFails
    PROVE  Steady'
  <1>1. TypeOK /\ Copies /\ OnPlan /\ zone' = zone /\ zs' = zs /\ rt' = rt /\ io' = io
    BY DEF Steady, lbz_create_device, Acquire, CreateFails, ReportFails
  <1>2. Copies'
    BY <1>1, SameCopies
  <1>3. CASE lbz_create_device
    <2>1. PICK n : n = ctl.calls
      OBVIOUS
    <2>2. n \in 0 .. MaxCreates /\ n < MaxCreates /\ MaxCreates \in Nat
      BY <1>1, <1>3, <2>1, LifecycleAssumption DEF TypeOK, lbz_create_device
    <2>3. /\ ctl' = [mode |-> "create", todo |-> CreatePlan, calls |-> n + 1]
          /\ held' = held /\ map' = map /\ flags' = flags /\ gc' = gc
      BY <1>3, <2>1 DEF lbz_create_device
    <2>4. CreatePlan \in Seq(Step) /\ Len(CreatePlan) = 21
      BY CreateSteps
    <2>5. n + 1 \in 0 .. MaxCreates
      BY <2>2
    <2>6. ctl' \in Ctls
      BY <2>3, <2>4, <2>5 DEF Ctls
    <2>7. ctl'.todo = CreatePlan /\ ctl'.mode = "create"
      BY <2>3
    <2>8. EndOf(CreatePlan)'
      <3>1. Left' = 21
        BY <2>4, <2>7 DEF Left
      <3>2. \A i \in 1 .. 21 : CreatePlan[i] = CreatePlan[21 - 21 + i]
        OBVIOUS
      <3> QED
        BY <2>4, <2>7, <3>1, <3>2 DEF EndOf
    <2>9. OnPlan'
      BY <2>7, <2>8 DEF OnPlan
    <2>10. TypeOK'
      BY <1>1, <2>3, <2>6, TypeParts, TypePartsNext
    <2> QED
      BY <1>2, <2>9, <2>10 DEF Steady
  <1>4. CASE Acquire
    <2>1. ctl' \in Ctls /\ OnPlan' /\ EndOf(CreatePlan) /\ ctl.mode = "create"
      BY <1>4, AcquireFx DEF Acquire
    <2>2. held' \subseteq Thing
      <3>1. Now \in Thing \cup {"ready"}
        BY <1>1, <2>1, CreateNow
      <3>2. held' = held \cup ({Now} \ {"ready"}) /\ held \subseteq Thing
        BY <1>1, <1>4 DEF Acquire, TypeOK
      <3> QED
        BY <3>1, <3>2
    <2>3. map' \in Maps
      <3>1. CASE Now = "nodes"
        <4>1. PICK m \in Sizes : map' = [max |-> m, root |-> lbz_mapping_init(m).root,
                                         leaves |-> lbz_mapping_init(m).leaves]
          BY <1>4, <3>1 DEF Acquire
        <4> QED
          BY <4>1, MapTyped
      <3>2. CASE Now # "nodes"
        BY <1>1, <1>4, <3>2, TypeParts DEF Acquire
      <3> QED
        BY <3>1, <3>2
    <2>4. flags' \in Flags
      <3>1. CASE Now = "dev"
        BY <1>4, <3>1 DEF Acquire, NoFlags, Flags
      <3>2. CASE Now # "dev"
        <4>1. PICK e \in BOOLEAN : flags' = [flags EXCEPT !.ready = e]
          BY <1>4, <3>2 DEF Acquire
        <4> QED
          BY <1>1, <4>1, TypeParts DEF Flags
      <3> QED
        BY <3>1, <3>2
    <2>5. gc' \in Gcs
      BY <1>1, <1>4, TypeParts DEF Acquire, NoThread, Gcs
    <2>6. TypeOK'
      BY <1>1, <2>1, <2>2, <2>3, <2>4, <2>5, TypeParts, TypePartsNext
    <2> QED
      BY <1>2, <2>1, <2>6 DEF Steady
  <1>5. CASE CreateFails
    <2>1. EndOf(CreatePlan)
      BY <1>1, <1>5 DEF CreateFails, OnPlan
    <2>2. /\ ctl' \in Ctls /\ (ctl'.mode = "idle" \/ ctl'.mode = "unwind")
          /\ ctl'.mode = "unwind" => EndOf(bs_err)'
      BY <1>1, <1>5, <2>1, FailsFx
    <2>3. OnPlan'
      BY <2>2 DEF OnPlan
    <2>4. TypeOK'
      BY <1>1, <1>5, <2>2, TypeParts, TypePartsNext DEF CreateFails
    <2> QED
      BY <1>2, <2>3, <2>4 DEF Steady
  <1>6. CASE ReportFails
    <2>1. ctl' \in Ctls /\ ctl'.mode = "oops"
      BY <1>1, <1>6, TypeParts DEF ReportFails, Ctls
    <2>2. TypeOK'
      BY <1>1, <1>6, <2>1, TypeParts, TypePartsNext DEF ReportFails
    <2> QED
      BY <1>2, <2>1, <2>2 DEF Steady
  <1> QED
    BY <1>3, <1>4, <1>5, <1>6

\* Unwinding and removal.
LEMMA ReleaseSteady ==
    ASSUME Steady, ctl.mode # "oops",
           lbz_dev_exit \/ WaitIoComplete \/ StopGc \/ JoinGc \/ Release
    PROVE  Steady'
  <1>1. TypeOK /\ Copies /\ OnPlan /\ zone' = zone /\ zs' = zs /\ rt' = rt /\ io' = io
    BY DEF Steady, lbz_dev_exit, WaitIoComplete, StopGc, JoinGc, Release
  <1>2. Copies'
    BY <1>1, SameCopies
  <1>3. CASE lbz_dev_exit
    <2>1. held' = held /\ map' = map /\ gc' = gc /\ ctl \in Ctls /\ flags \in Flags
      BY <1>1, <1>3, TypeParts DEF lbz_dev_exit
    <2>2. flags' \in Flags
      <3>1. PICK e \in BOOLEAN : e <=> "listed" \in held
        OBVIOUS
      <3>2. flags' = [flags EXCEPT !.remove = e]
        BY <1>3, <3>1 DEF lbz_dev_exit
      <3> QED
        BY <2>1, <3>2 DEF Flags
    <2>3. ctl' \in Ctls /\ OnPlan'
      <3>1. CASE "listed" \in held
        <4>1. ctl' = [ctl EXCEPT !.mode = "remove", !.todo = RemovePlan]
          BY <1>3, <3>1 DEF lbz_dev_exit
        <4>2. RemovePlan \in Seq(Step) /\ Len(RemovePlan) = 21
          BY RemoveSteps
        <4>3. ctl' \in Ctls /\ ctl'.mode = "remove" /\ ctl'.todo = RemovePlan
          BY <2>1, <4>1, <4>2 DEF Ctls
        <4>4. Left' = 21
          BY <4>2, <4>3 DEF Left
        <4>5. \A i \in 1 .. 21 : RemovePlan[i] = RemovePlan[21 - 21 + i]
          OBVIOUS
        <4>6. EndOf(RemovePlan)'
          BY <4>2, <4>3, <4>4, <4>5 DEF EndOf
        <4> QED
          BY <4>3, <4>6 DEF OnPlan
      <3>2. CASE "listed" \notin held
        <4>1. ctl' = [ctl EXCEPT !.mode = "unloaded"]
          BY <1>3, <3>2 DEF lbz_dev_exit
        <4>2. ctl' \in Ctls /\ ctl'.mode = "unloaded"
          BY <2>1, <4>1 DEF Ctls
        <4> QED
          BY <4>2 DEF OnPlan
      <3> QED
        BY <3>1, <3>2
    <2>4. TypeOK'
      BY <1>1, <2>1, <2>2, <2>3, TypeParts, TypePartsNext
    <2> QED
      BY <1>2, <2>3, <2>4 DEF Steady
  <1>4. CASE WaitIoComplete \/ StopGc \/ JoinGc \/ Release
    <2>1. Releasing /\ Advance(Done)
      BY <1>4 DEF WaitIoComplete, StopGc, JoinGc, Release
    <2>2. ctl' \in Ctls /\ OnPlan'
      BY <2>1, ReleaseFx
    <2>3. held' \subseteq held
      BY <1>4 DEF WaitIoComplete, StopGc, JoinGc, Release
    <2>4. map' \in Maps
      <3>1. CASE Release /\ Now = "nodes"
        <4>1. PICK rest : rest = lbz_mapping_destroy(map.root, map.leaves, map.max)
          OBVIOUS
        <4>2. rest.root \subseteq map.root /\ rest.leaves \subseteq map.leaves
          BY <4>1 DEF lbz_mapping_destroy
        <4>3. map' = [map EXCEPT !.root = rest.root, !.leaves = rest.leaves]
          BY <3>1, <4>1 DEF Release
        <4> QED
          BY <1>1, <4>2, <4>3, TypeParts DEF Maps
      <3>2. CASE ~(Release /\ Now = "nodes")
        BY <1>1, <1>4, <3>2, TypeParts DEF WaitIoComplete, StopGc, JoinGc, Release
      <3> QED
        BY <3>1, <3>2
    <2>5. flags' \in Flags
      <3>1. CASE Release
        <4>1. PICK e \in BOOLEAN : flags' = [flags EXCEPT !.ready = e]
          BY <3>1 DEF Release
        <4> QED
          BY <1>1, <4>1, TypeParts DEF Flags
      <3>2. CASE ~Release
        BY <1>1, <1>4, <3>2, TypeParts DEF WaitIoComplete, StopGc, JoinGc
      <3> QED
        BY <3>1, <3>2
    <2>6. gc' \in Gcs
      <3>1. CASE StopGc
        BY <1>1, <3>1, TypeParts DEF StopGc, Gcs
      <3>2. CASE ~StopGc
        BY <1>1, <1>4, <3>2, TypeParts DEF WaitIoComplete, JoinGc, Release
      <3> QED
        BY <3>1, <3>2
    <2>7. TypeOK'
      BY <1>1, <2>2, <2>3, <2>4, <2>5, <2>6, TypeParts, TypePartsNext
    <2> QED
      BY <1>2, <2>2, <2>7 DEF Steady
  <1> QED
    BY <1>3, <1>4

\* The types, the copies and the plans of the control thread in the initial state.
LEMMA SteadyInit == Init => Steady
  <1> SUFFICES ASSUME Init PROVE Steady
    OBVIOUS
  <1>1. ctl \in Ctls /\ ctl.mode = "idle"
    BY LifecycleAssumption DEF Init, Ctls
  <1>2. /\ held \subseteq Thing /\ map \in Maps
        /\ zone \in [victims : 0 .. MaxVictims, state : {"none", "walk", "walked"}]
        /\ zs \in {"idle", "queued", "run"}
    BY LifecycleAssumption DEF Init, Maps
  <1>3. flags \in Flags
    BY DEF Init, NoFlags, Flags
  <1>4. gc \in Gcs
    BY DEF Init, NoThread, Gcs
  <1>5. rt \in Rts
    BY LifecycleAssumption DEF Init, Rts
  <1>6. io \in Ios
    BY LifecycleAssumption DEF Init, Ios
  <1>7. TypeOK
    BY <1>1, <1>2, <1>3, <1>4, <1>5, <1>6, TypeParts
  <1>8. Copies
    BY LifecycleAssumption DEF Init, Copies
  <1> QED
    BY <1>1, <1>7, <1>8 DEF Steady, OnPlan

\* Every step preserves them.
LEMMA SteadyNext == Steady /\ [Next]_vars => Steady'
  <1> SUFFICES ASSUME Steady, [Next]_vars PROVE Steady'
    OBVIOUS
  <1>1. CASE UNCHANGED vars
    <2>1. /\ ctl' = ctl /\ held' = held /\ map' = map /\ flags' = flags /\ gc' = gc /\ zone' = zone
          /\ zs' = zs /\ rt' = rt /\ io' = io
      BY <1>1 DEF vars
    <2>2. TypeOK'
      BY <2>1, TypeParts, TypePartsNext DEF Steady
    <2> QED
      BY <2>1, <2>2, SamePlan, SameCopies DEF Steady
  <1>2. CASE ~Ended /\ Running
    <2>1. ctl.mode # "oops"
      BY <1>2 DEF Ended
    <2> QED
      BY <1>2, <2>1, CreateSteady, ReleaseSteady, UserSteady, GcSteady, GcIoSteady, RetrySteady, ZsSteady
         DEF Running, Control
  <1> QED
    BY <1>1, <1>2 DEF Next

\* In every state of every behaviour, for any sizes, numbers of creations, of
\* victims and of copies, the state is well typed: the GC copies in flight stay
\* within their bound however reads, the worker and writes interleave, and the
\* control thread always follows one of the three plans of lbz-dev.c.
THEOREM LifecycleTypeCorrect == Spec => []TypeOK
  <1>1. Steady => TypeOK
    BY DEF Steady
  <1> QED
    BY <1>1, SteadyInit, SteadyNext, PTL DEF Spec

-----------------------------------------------------------------------------
(* What the device consists of.                                            *)

\* The steps that are not of the control thread.
Elsewhere ==
    \/ UNCHANGED vars
    \/ open_dev \/ release_dev \/ UserIo \/ UserIoEnds \/ read_lbz_dev_proc \/ ReadEnds
    \/ GcThread \/ GcReadEnds \/ GcWriteEnds
    \/ RetryTimer \/ RetryWork \/ ZsTimer \/ ZoneStateWork

\* They leave the control thread and the components alone, but for the end of the
\* GC thread, which takes its timer along, and the BUG() of the retry worker.
LEMMA ElsewhereFx ==
    ASSUME TypeOK, Elsewhere
    PROVE  /\ map' = map /\ (held' = held \/ (GcThread /\ GcExit /\ held' = held \ {"gc_timer"}))
           /\ ctl' = ctl \/ (ctl'.mode = "oops" /\ held' = held)
           /\ gc' = gc \/ GcThread
  <1>1. CASE UNCHANGED vars
    BY <1>1 DEF vars
  <1>2. CASE open_dev \/ release_dev \/ UserIo \/ UserIoEnds \/ read_lbz_dev_proc \/ ReadEnds
    BY <1>2 DEF open_dev, release_dev, UserIo, UserIoEnds, read_lbz_dev_proc, ReadEnds
  <1>3. CASE GcThread
    BY <1>3 DEF GcThread, GcBorn, GcLoop, GcSleeps, GcVictim, GcCopy, GcZoneEnd, GcExit
  <1>4. CASE GcReadEnds \/ GcWriteEnds \/ RetryTimer \/ RetryStart \/ RetryEnd
    BY <1>4 DEF GcReadEnds, GcWriteEnds, RetryTimer, RetryStart, RetryEnd
  <1>5. CASE RetryCopy
    BY <1>5 DEF RetryCopy, TypeOK
  <1>6. CASE ZsTimer \/ ZoneStateWork
    BY <1>6 DEF ZsTimer, ZoneStateWork, ZsStart, ZsEnd
  <1> QED
    BY <1>1, <1>2, <1>3, <1>4, <1>5, <1>6 DEF Elsewhere, RetryWork

\* Of these steps only the retry worker's stops the control thread.
LEMMA OnlyRetry ==
    ASSUME Elsewhere, ctl' # ctl
    PROVE  RetryCopy
  <1>1. ctl' = ctl \/ RetryCopy
    BY DEF Elsewhere, vars, open_dev, release_dev, UserIo, UserIoEnds, read_lbz_dev_proc, ReadEnds, GcThread,
           GcReadEnds, GcWriteEnds, RetryTimer, RetryWork, RetryStart, RetryEnd, ZsTimer, ZoneStateWork, ZsStart, ZsEnd
  <1> QED
    BY <1>1

\* No step leaves nodes behind.
LEMMA NodesNext ==
    ASSUME TypeOK, MapInv, NoNodes, [Next]_vars
    PROVE  NoNodes'
  <1>1. CASE Elsewhere
    <2>1. map' = map /\ ("nodes" \in held' <=> "nodes" \in held)
      BY <1>1, ElsewhereFx
    <2> QED
      BY <2>1 DEF NoNodes
  <1>2. CASE lbz_create_device \/ CreateFails \/ ReportFails \/ lbz_dev_exit \/ WaitIoComplete \/ StopGc \/ JoinGc
    <2>1. map' = map /\ ("nodes" \in held' <=> "nodes" \in held)
      BY <1>2 DEF lbz_create_device, CreateFails, ReportFails, lbz_dev_exit, WaitIoComplete, StopGc, JoinGc
    <2> QED
      BY <2>1 DEF NoNodes
  <1>3. CASE Acquire
    BY <1>3 DEF Acquire, NoNodes
  <1>4. CASE Release
    <2>1. CASE Now = "nodes"
      <3>1. PICK rest : rest = lbz_mapping_destroy(map.root, map.leaves, map.max)
        OBVIOUS
      <3>2. rest.root = {} /\ rest.leaves = {}
        BY <3>1 DEF lbz_mapping_destroy, lbz_mapping_init, MapInv, NoNodes
      <3>3. map' = [map EXCEPT !.root = rest.root, !.leaves = rest.leaves]
        BY <1>4, <2>1, <3>1 DEF Release
      <3> QED
        BY <3>2, <3>3 DEF TypeOK, NoNodes
    <2>2. CASE Now # "nodes"
      BY <1>4, <2>2 DEF Release, NoNodes
    <2> QED
      BY <2>1, <2>2
  <1> QED
    BY <1>1, <1>2, <1>3, <1>4 DEF Next, Running, Control, Elsewhere

\* Each of the components by name.
LEMMA HeldAt ==
    ASSUME HeldInv
    PROVE  /\ "dev" \in held <=> Between(19, 1, 1)
           /\ "idx" \in held <=> Between(18, 2, 4)
           /\ "disk" \in held <=> Between(17, 3, 5)
           /\ "zmd" \in held <=> Between(16, 4, 6)
           /\ "zones" \in held <=> Between(15, 5, 7)
           /\ "zs_wq" \in held <=> Between(14, 6, 8)
           /\ "zs_timer" \in held <=> Between(13, 7, 9)
           /\ "mapping" \in held <=> Between(12, 8, 10)
           /\ "nodes" \in held <=> Between(11, 9, 11)
           /\ "iosched" \in held <=> Between(10, 10, 12)
           /\ "retry_wq" \in held <=> Between(9, 11, 13)
           /\ "retry_timer" \in held <=> Between(8, 12, 14)
           /\ "gc_ctx" \in held <=> Between(7, 13, 15)
           /\ "gc_thread" \in held <=> Between(6, 14, 16)
           /\ "proc" \in held <=> Between(4, 16, 19)
           /\ "nat_sit" \in held <=> Between(2, 17, 18)
           /\ "listed" \in held <=> Between(1, 17, 3)
  BY DEF HeldInv, Lifespan

\* The spans are numbers, and a thing exists before the device is listed.
LEMMA Spans ==
    \A s \in Lifespan : /\ s[2] \in 1 .. 19 /\ s[3] \in 1 .. 17 /\ s[4] \in 1 .. 19
                        /\ s[1] # "gc_timer" /\ s[1] # "ready" /\ s[1] # "wait" /\ s[1] # "stop_gc"
                        /\ \A j \in Jump : j[1] <= s[2] <=> j[2] >= s[3]
  BY DEF Lifespan, Jump

\* A step that leaves the control thread alone.
LEMMA SameHeld ==
    ASSUME HeldInv, ctl' = ctl, held' = held \/ held' = held \ {"gc_timer"}
    PROVE  HeldInv'
  <1>1. \A s \in Lifespan : s[1] \in held' <=> s[1] \in held
    BY Spans
  <1>2. "listed" \in held' <=> "listed" \in held
    OBVIOUS
  <1>3. ASSUME NEW s \in Lifespan
        PROVE  Between(s[2], s[3], s[4])' <=> Between(s[2], s[3], s[4])
    BY <1>2 DEF Between, Left
  <1> QED
    BY <1>1, <1>3 DEF HeldInv

\* Creation begins when there is nothing.
LEMMA CreateHeld ==
    ASSUME HeldInv, lbz_create_device
    PROVE  HeldInv'
  <1>1. ctl.mode = "idle" /\ "dev" \notin held /\ held' = held
    BY DEF lbz_create_device
  <1>2. "listed" \notin held
    BY <1>1, HeldAt DEF Between
  <1>3. ctl'.mode = "create" /\ Left' = 21
    BY CreateSteps DEF lbz_create_device, Left
  <1>4. ASSUME NEW s \in Lifespan
        PROVE  s[1] \in held' <=> Between(s[2], s[3], s[4])'
    <2>1. s[1] \notin held
      BY <1>1, <1>2 DEF HeldInv, Between
    <2>2. s[2] \in 1 .. 19
      BY Spans
    <2>3. ~Between(s[2], s[3], s[4])'
      BY <1>3, <2>2 DEF Between
    <2> QED
      BY <1>1, <2>1, <2>3
  <1> QED
    BY <1>4 DEF HeldInv

\* Each step of creation makes the next thing.
LEMMA AcquireHeld ==
    ASSUME Steady, HeldInv, Acquire
    PROVE  HeldInv'
  <1>1. /\ EndOf(CreatePlan) /\ Left \in 1 .. 21 /\ Left' = Left - 1 /\ ctl.mode = "create" /\ TypeOK
        /\ ctl'.mode = IF Left = 1 THEN "idle" ELSE "create"
    BY AcquireFx DEF Acquire, Steady
  <1>2. held' = held \cup ({Now} \ {"ready"})
    BY DEF Acquire
  <1>3. \A s \in Lifespan : s[1] = Now <=> Left = s[2] + 1
    BY <1>1, CreateNow
  <1>4. Left = 1 => "listed" \in held'
    BY <1>1, <1>2, HeldAt DEF Between
  <1>5. ASSUME NEW s \in Lifespan
        PROVE  s[1] \in held' <=> Between(s[2], s[3], s[4])'
    <2>1. PICK x, c, n : x = s[1] /\ c = s[2] /\ n = Left
      OBVIOUS
    <2>2. c \in 1 .. 19 /\ x # "ready" /\ n \in 1 .. 21
      BY <1>1, <2>1, Spans
    <2>3. x \in held <=> n <= c
      BY <1>1, <2>1 DEF HeldInv, Between
    <2>4. x \in held' <=> n <= c \/ n = c + 1
      BY <1>2, <1>3, <2>1, <2>2, <2>3
    <2>5. Between(s[2], s[3], s[4])' <=> (IF n = 1 THEN TRUE ELSE n - 1 <= c)
      BY <1>1, <1>4, <2>1 DEF Between
    <2>6. (n <= c \/ n = c + 1) <=> (IF n = 1 THEN TRUE ELSE n - 1 <= c)
      BY ONLY <2>2
    <2> QED
      BY <2>1, <2>4, <2>5, <2>6
  <1> QED
    BY <1>5 DEF HeldInv

\* The error label fits what was made when creation fails.
LEMMA FailsHeld ==
    ASSUME Steady, HeldInv, CreateFails
    PROVE  HeldInv'
  <1>1. TypeOK /\ EndOf(CreatePlan) /\ ctl.mode = "create" /\ held' = held
    BY DEF CreateFails, Steady, OnPlan
  <1>2. /\ <<Left, Left'>> \in Jump /\ ctl'.mode = IF Left' = 0 THEN "idle" ELSE "unwind"
    BY <1>1, FailsFx
  <1>3. PICK m, n : m = Left /\ n = Left'
    OBVIOUS
  <1>4. m \in Nat /\ n \in Nat /\ (n = 0 => m > 19)
    BY <1>2, <1>3 DEF Jump
  <1>5. n = 0 => "listed" \notin held
    BY <1>1, <1>3, <1>4, HeldAt DEF Between
  <1>6. ASSUME NEW s \in Lifespan
        PROVE  s[1] \in held' <=> Between(s[2], s[3], s[4])'
    <2>1. PICK x, c, u : x = s[1] /\ c = s[2] /\ u = s[3]
      OBVIOUS
    <2>2. c \in 1 .. 19 /\ u \in 1 .. 17 /\ (m <= c <=> n >= u)
      BY <1>2, <1>3, <2>1, Spans
    <2>3. x \in held <=> m <= c
      BY <1>1, <1>3, <2>1 DEF HeldInv, Between
    <2>4. Between(s[2], s[3], s[4])' <=> n # 0 /\ n >= u
      BY <1>1, <1>2, <1>3, <1>5, <2>1 DEF Between
    <2>5. n >= u <=> n # 0 /\ n >= u
      BY ONLY <1>4, <2>2
    <2> QED
      BY <1>1, <2>1, <2>2, <2>3, <2>4, <2>5
  <1> QED
    BY <1>6 DEF HeldInv

\* Removal begins with all of a device, or there is none.
LEMMA ExitHeld ==
    ASSUME TypeOK, HeldInv, lbz_dev_exit
    PROVE  HeldInv'
  <1>1. ctl.mode = "idle" /\ held' = held
    BY DEF lbz_dev_exit
  <1>2. CASE "listed" \in held
    <2>1. ctl'.mode = "remove" /\ Left' = 21
      BY <1>2, RemoveSteps DEF lbz_dev_exit, TypeOK, Left
    <2>2. ASSUME NEW s \in Lifespan
          PROVE  s[1] \in held' <=> Between(s[2], s[3], s[4])'
      <3>1. s[1] \in held
        BY <1>1, <1>2 DEF HeldInv, Between
      <3>2. s[4] \in 1 .. 19
        BY Spans
      <3> QED
        BY <1>1, <2>1, <3>1, <3>2 DEF Between
    <2> QED
      BY <2>2 DEF HeldInv
  <1>3. CASE "listed" \notin held
    <2>1. ctl'.mode = "unloaded"
      BY <1>3 DEF lbz_dev_exit, TypeOK
    <2> QED
      BY <1>1, <1>3, <2>1 DEF HeldInv, Between
  <1> QED
    BY <1>2, <1>3

\* Each step of an unwinding and of removal ends the next thing.
LEMMA ReleaseHeld ==
    ASSUME Steady, HeldInv, WaitIoComplete \/ StopGc \/ JoinGc \/ Release
    PROVE  HeldInv'
  <1>1. Releasing /\ Advance(Done) /\ TypeOK
    BY DEF Steady, WaitIoComplete, StopGc, JoinGc, Release
  <1>2. /\ Left' = Left - 1
        /\ ctl.mode = "unwind" => /\ EndOf(bs_err) /\ Left \in 1 .. 16
                                  /\ ctl'.mode = IF Left = 1 THEN "idle" ELSE "unwind"
        /\ ctl.mode = "remove" => /\ EndOf(RemovePlan) /\ Left \in 1 .. 21
                                  /\ ctl'.mode = IF Left = 1 THEN "unloaded" ELSE "remove"
    BY <1>1, ReleaseFx
  <1>3. \A s \in Lifespan : s[1] \in held' <=> s[1] \in held /\ ~Ends(s[1])
    <2>1. CASE WaitIoComplete \/ StopGc
      <3>1. held' = held /\ (Now = "wait" \/ Now = "stop_gc")
        BY <2>1 DEF WaitIoComplete, StopGc
      <3> QED
        BY <3>1, Spans DEF Ends
    <2>2. CASE JoinGc
      <3>1. held' = held \ {"gc_thread"} /\ Now = "join_gc"
        BY <2>2 DEF JoinGc
      <3>2. \A s \in Lifespan : s[1] # "join_gc"
        BY DEF Lifespan
      <3> QED
        BY <3>1, <3>2 DEF Ends
    <2>3. CASE Release
      <3>1. held' = held \ {Now} /\ Now # "join_gc"
        BY <2>3 DEF Release
      <3> QED
        BY <3>1 DEF Ends
    <2> QED
      BY <2>1, <2>2, <2>3
  <1>4. CASE ctl.mode = "unwind"
    <2>1. \A s \in Lifespan : Ends(s[1]) <=> Left = s[3]
      BY <1>1, <1>2, <1>4, UnwindNow
    <2>2. Left = 1 => "listed" \notin held'
      BY <1>3, <1>4, HeldAt DEF Between, Lifespan
    <2>3. ASSUME NEW s \in Lifespan
          PROVE  s[1] \in held' <=> Between(s[2], s[3], s[4])'
      <3>1. PICK x, u, n : x = s[1] /\ u = s[3] /\ n = Left
        OBVIOUS
      <3>2. u \in 1 .. 17 /\ n \in 1 .. 16
        BY <1>2, <1>4, <3>1, Spans
      <3>3. x \in held' <=> n >= u /\ n # u
        BY <1>3, <1>4, <2>1, <3>1 DEF HeldInv, Between
      <3>4. Between(s[2], s[3], s[4])' <=> n # 1 /\ n - 1 >= u
        BY <1>2, <1>4, <2>2, <3>1 DEF Between
      <3>5. (n >= u /\ n # u) <=> (n # 1 /\ n - 1 >= u)
        BY ONLY <3>2
      <3> QED
        BY <3>1, <3>3, <3>4, <3>5
    <2> QED
      BY <2>3 DEF HeldInv
  <1>5. CASE ctl.mode = "remove"
    <2>1. \A s \in Lifespan : Ends(s[1]) <=> Left = s[4]
      BY <1>1, <1>2, <1>5, RemoveNow
    <2>2. ASSUME NEW s \in Lifespan
          PROVE  s[1] \in held' <=> Between(s[2], s[3], s[4])'
      <3>1. PICK x, r, n : x = s[1] /\ r = s[4] /\ n = Left
        OBVIOUS
      <3>2. r \in 1 .. 19 /\ n \in 1 .. 21
        BY <1>2, <1>5, <3>1, Spans
      <3>3. x \in held' <=> n >= r /\ n # r
        BY <1>3, <1>5, <2>1, <3>1 DEF HeldInv, Between
      <3>4. Between(s[2], s[3], s[4])' <=> n # 1 /\ n - 1 >= r
        BY <1>2, <1>5, <3>1 DEF Between
      <3>5. (n >= r /\ n # r) <=> (n # 1 /\ n - 1 >= r)
        BY ONLY <3>2
      <3> QED
        BY <3>1, <3>3, <3>4, <3>5
    <2> QED
      BY <2>2 DEF HeldInv
  <1> QED
    BY <1>1, <1>4, <1>5 DEF Releasing

\* The GC thread by itself.
LEMMA GcThreadInv ==
    ASSUME TypeOK, ThreadInv, GcThread
    PROVE  ThreadInv'
  <1>1. ctl' = ctl /\ Left' = Left /\ gc \in Gcs
    BY TypeParts DEF GcThread, Left
  <1>2. CASE GcBorn
    <2>1. /\ held' = held /\ gc.pc = "unborn" /\ gc'.stop = gc.stop /\ gc'.exit = gc.exit
          /\ gc'.pc = IF gc.stop THEN "gone" ELSE "loop"
      BY <1>1, <1>2 DEF GcBorn, Gcs
    <2> QED
      BY <1>1, <2>1 DEF ThreadInv
  <1>3. CASE GcLoop
    <2>1. /\ held' = held /\ gc.pc \in {"loop", "sleep"} /\ gc'.stop = gc.stop /\ gc'.exit = gc.exit
          /\ gc'.pc \in {"exiting", "test", "loop"} /\ (gc'.pc = "exiting" => gc.stop)
      BY <1>1, <1>3 DEF GcLoop, Gcs
    <2> QED
      BY <1>1, <2>1 DEF ThreadInv
  <1>4. CASE GcSleeps \/ GcVictim \/ GcCopy \/ GcZoneEnd
    <2>1. /\ held' = held /\ gc.pc \in {"test", "zone"} /\ gc'.stop = gc.stop /\ gc'.exit = gc.exit
          /\ gc'.pc \in {"sleep", "zone", "test"}
      BY <1>1, <1>4 DEF GcSleeps, GcVictim, GcCopy, GcZoneEnd, Gcs
    <2> QED
      BY <1>1, <2>1 DEF ThreadInv
  <1>5. CASE GcExit
    <2>1. /\ held' = held \ {"gc_timer"} /\ gc.pc = "exiting" /\ gc'.stop = gc.stop /\ gc'.pc = "gone"
      BY <1>1, <1>5 DEF GcExit, Gcs
    <2> QED
      BY <1>1, <2>1 DEF ThreadInv
  <1> QED
    BY <1>2, <1>3, <1>4, <1>5 DEF GcThread

\* The creation of the thread and of its timer.
LEMMA AcquireThread ==
    ASSUME Steady, HeldInv, ThreadInv, Acquire
    PROVE  ThreadInv'
  <1>1. TypeOK /\ ctl.mode = "create" /\ EndOf(CreatePlan) /\ Left \in 1 .. 21
    BY AcquireFx DEF Steady, Acquire
  <1>2. /\ Left = 7 <=> Now = "gc_thread"
        /\ Left = 6 <=> Now = "gc_timer"
    BY <1>1, CreateNow
  <1>3. "gc_thread" \in held <=> Left <= 6
    BY <1>1, HeldAt DEF Between
  <1>4. held' = held \cup ({Now} \ {"ready"})
    BY DEF Acquire
  <1>5. "gc_thread" \in held => ~gc.stop /\ gc.pc # "gone"
    BY <1>1 DEF ThreadInv
  <1>6. CASE Now = "gc_thread"
    <2>1. gc'.pc = "unborn" /\ ~gc'.stop
      BY <1>6 DEF Acquire, NoThread
    <2> QED
      BY <1>4, <1>6, <2>1 DEF ThreadInv
  <1>7. CASE Now # "gc_thread"
    <2>1. gc' = gc /\ ("gc_thread" \in held' <=> "gc_thread" \in held)
      BY <1>4, <1>7 DEF Acquire
    <2>2. "gc_timer" \in held' => "gc_thread" \in held
      BY <1>1, <1>2, <1>3, <1>4 DEF ThreadInv
    <2> QED
      BY <1>5, <2>1, <2>2 DEF ThreadInv
  <1> QED
    BY <1>6, <1>7

\* The begin of creation, its failure, and the begin of removal.
LEMMA TurnThread ==
    ASSUME HeldInv, ThreadInv, lbz_create_device \/ CreateFails \/ lbz_dev_exit
    PROVE  ThreadInv'
  <1>1. held' = held /\ gc' = gc
    BY DEF lbz_create_device, CreateFails, lbz_dev_exit
  <1>2. ctl.mode = "idle" \/ ctl.mode = "create"
    BY DEF lbz_create_device, CreateFails, lbz_dev_exit
  <1>3. "gc_thread" \in held => ~gc.stop
    BY <1>2 DEF ThreadInv
  <1> QED
    BY <1>1, <1>3 DEF ThreadInv

\* kthread_stop, and what comes before and after it.
LEMMA ReleaseThread ==
    ASSUME Steady, HeldInv, ThreadInv, WaitIoComplete \/ StopGc \/ JoinGc \/ Release
    PROVE  ThreadInv'
  <1>1. Releasing /\ Advance(Done) /\ TypeOK /\ gc \in Gcs
    BY TypeParts DEF Steady, WaitIoComplete, StopGc, JoinGc, Release
  <1>2. /\ Left' = Left - 1
        /\ ctl.mode = "unwind" => /\ EndOf(bs_err) /\ Left \in 1 .. 16
                                  /\ ctl'.mode = IF Left = 1 THEN "idle" ELSE "unwind"
        /\ ctl.mode = "remove" => /\ EndOf(RemovePlan) /\ Left \in 1 .. 21
                                  /\ ctl'.mode = IF Left = 1 THEN "unloaded" ELSE "remove"
    BY <1>1, ReleaseFx
  <1>3. /\ ctl.mode = "unwind" => Now # "gc_thread" /\ (Now = "stop_gc" <=> Left = 15)
        /\ ctl.mode = "remove" => Now # "gc_thread" /\ (Now = "stop_gc" <=> Left = 17)
    <2>1. CASE ctl.mode = "unwind"
      BY <1>1, <1>2, <2>1, UnwindNow
    <2>2. CASE ctl.mode = "remove"
      BY <1>1, <1>2, <2>2, RemoveNow
    <2> QED
      BY <2>1, <2>2
  <1>4. "gc_thread" \in held' => \/ ctl'.mode = "unwind" /\ ctl.mode = "unwind"
                                 \/ ctl'.mode = "remove" /\ ctl.mode = "remove"
    <2>1. "gc_thread" \in held => Left >= 14
      BY <1>1, <1>2, HeldAt DEF Between, Releasing
    <2>2. held' \subseteq held
      BY DEF WaitIoComplete, StopGc, JoinGc, Release
    <2> QED
      BY <1>1, <1>2, <2>1, <2>2 DEF Releasing
  <1>5. CASE StopGc
    <2>1. held' = held /\ gc'.stop /\ gc'.exit /\ gc'.pc = gc.pc /\ Now = "stop_gc"
      BY <1>1, <1>5 DEF StopGc, Gcs
    <2>2. "gc_thread" \in held' => (ctl'.mode = "unwind" /\ Left' <= 14) \/ (ctl'.mode = "remove" /\ Left' <= 16)
      BY <1>2, <1>3, <1>4, <2>1
    <2> QED
      BY <2>1, <2>2 DEF ThreadInv
  <1>6. CASE JoinGc
    <2>1. held' = held \ {"gc_thread"} /\ gc' = gc /\ gc.pc = "gone" /\ ~gc.exit
      BY <1>6 DEF JoinGc
    <2>2. "gc_timer" \notin held
      BY <2>1 DEF ThreadInv
    <2> QED
      BY <2>1, <2>2 DEF ThreadInv
  <1>7. CASE WaitIoComplete \/ Release
    <2>1. gc' = gc /\ held' \subseteq held /\ ("gc_thread" \in held' <=> "gc_thread" \in held)
      BY <1>1, <1>3, <1>7 DEF WaitIoComplete, Release, Releasing
    <2>2. ASSUME "gc_thread" \in held', gc.stop
          PROVE  (ctl'.mode = "unwind" /\ Left' <= 14) \/ (ctl'.mode = "remove" /\ Left' <= 16)
      <3>1. (ctl.mode = "unwind" /\ Left <= 14) \/ (ctl.mode = "remove" /\ Left <= 16)
        BY <2>1, <2>2 DEF ThreadInv
      <3>2. Left \in Int /\ Left' = Left - 1
        BY <1>1, <1>2 DEF Releasing
      <3> QED
        BY <1>4, <2>2, <3>1, <3>2
    <2> QED
      BY <2>1, <2>2 DEF ThreadInv
  <1> QED
    BY <1>5, <1>6, <1>7

\* A step that leaves the thread alone.
LEMMA SameThread ==
    ASSUME ThreadInv, ctl' = ctl, held' = held, gc' = gc
    PROVE  ThreadInv'
  BY DEF ThreadInv, Left

\* What exists and what is left to do agree, in every step.
LEMMA LifeNext == Steady /\ Life /\ [Next]_vars => Life'
  <1> SUFFICES ASSUME Steady, Life, [Next]_vars PROVE Life'
    OBVIOUS
  <1>1. TypeOK /\ MapInv /\ NoNodes
    BY DEF Steady, Life
  <1>2. MapInv' /\ NoNodes'
    BY <1>1, MapNext, NodesNext
  <1>3. CASE ctl.mode = "oops"
    <2>1. UNCHANGED vars
      BY <1>3 DEF Next, Ended
    <2>2. ctl'.mode = "oops"
      BY <1>3, <2>1 DEF vars
    <2> QED
      BY <1>2, <2>2 DEF Life
  <1>4. CASE ctl.mode # "oops"
    <2>1. HeldInv /\ ThreadInv
      BY <1>4 DEF Life
    <2>2. CASE Elsewhere
      <3>1. CASE ctl'.mode = "oops"
        BY <1>2, <3>1 DEF Life
      <3>2. CASE ctl'.mode # "oops"
        <4>1. HeldInv'
          BY <1>1, <2>1, <2>2, <3>2, ElsewhereFx, SameHeld
        <4>2. ThreadInv'
          <5>1. CASE GcThread
            BY <1>1, <2>1, <5>1, GcThreadInv
          <5>2. CASE ~GcThread
            BY <1>1, <2>1, <2>2, <3>2, <5>2, ElsewhereFx, SameThread
          <5> QED
            BY <5>1, <5>2
        <4> QED
          BY <1>2, <4>1, <4>2 DEF Life
      <3> QED
        BY <3>1, <3>2
    <2>3. CASE ReportFails
      BY <1>1, <1>2, <2>3 DEF ReportFails, TypeOK, Life
    <2>4. CASE Acquire
      BY <1>2, <2>1, <2>4, AcquireHeld, AcquireThread DEF Life
    <2>5. CASE lbz_create_device \/ CreateFails \/ lbz_dev_exit
      BY <1>1, <1>2, <2>1, <2>5, CreateHeld, FailsHeld, ExitHeld, TurnThread DEF Life
    <2>6. CASE WaitIoComplete \/ StopGc \/ JoinGc \/ Release
      BY <1>2, <2>1, <2>6, ReleaseHeld, ReleaseThread DEF Life
    <2> QED
      BY <2>2, <2>3, <2>4, <2>5, <2>6 DEF Next, Running, Control, Elsewhere
  <1> QED
    BY <1>3, <1>4

\* There is nothing at first.
LEMMA LifeInit == Init => Life
  <1> SUFFICES ASSUME Init PROVE Life
    OBVIOUS
  <1>1. ctl.mode = "idle" /\ held = {} /\ gc = NoThread /\ map.root = {} /\ map.leaves = {}
    BY DEF Init
  <1>2. HeldInv
    BY <1>1 DEF HeldInv, Between
  <1>3. ThreadInv
    BY <1>1 DEF ThreadInv, NoThread
  <1> QED
    BY <1>1, <1>2, <1>3 DEF Life, MapInv, NoNodes

\* The stack of components, the thread with its timer, and the map fit what the
\* control thread has left to do, in every state of every behaviour.
THEOREM LifecycleInductive == Spec => [](Steady /\ Life)
  BY SteadyInit, SteadyNext, LifeInit, LifeNext, PTL DEF Spec

\* Whatever step of lbz_create_device fails, and however removal interleaves with
\* the thread, the timers and the workers: when no device exists nothing is left
\* but the claim on the disk and bio_split.
THEOREM NothingIsLeft == Spec => []NothingLeft
  <1>1. Steady /\ Life => NothingLeft
    <2> SUFFICES ASSUME Steady, Life,
                        ctl.mode = "unloaded" \/ (ctl.mode = "idle" /\ "listed" \notin held)
                 PROVE  held \subseteq {"bdev", "bioset"} /\ map.root = {} /\ map.leaves = {}
      BY DEF NothingLeft
    <2>1. held \subseteq Thing /\ HeldInv /\ ThreadInv /\ NoNodes
      BY DEF Steady, TypeOK, Life
    <2>2. \A s \in Lifespan : s[1] \notin held
      BY <2>1 DEF HeldInv, Between
    <2>3. "gc_timer" \notin held
      BY <2>1, <2>2 DEF ThreadInv, Lifespan
    <2>4. "nodes" \notin held
      BY <2>2 DEF Lifespan
    <2>5. held \subseteq {"bdev", "bioset"}
      BY <2>1, <2>2, <2>3 DEF Lifespan, Thing, Memory
    <2> QED
      BY <2>1, <2>4, <2>5 DEF NoNodes
  <1> QED
    BY <1>1, LifecycleInductive, PTL

-----------------------------------------------------------------------------
(* Who touches what.                                                       *)

\* What is built on what.
LEMMA Foundations ==
    ASSUME TypeOK, HeldInv
    PROVE  /\ "gc_thread" \in held => {"dev", "zmd", "gc_ctx"} \subseteq held
           /\ "zs_wq" \in held => {"dev", "zmd", "zones"} \subseteq held
           /\ "retry_wq" \in held => {"dev", "iosched"} \subseteq held
           /\ "zs_timer" \in held => {"zmd", "zs_wq"} \subseteq held
           /\ "retry_timer" \in held => {"iosched", "retry_wq"} \subseteq held
  <1>1. PICK n : n = Left
    OBVIOUS
  <1>2. n \in Nat
    BY <1>1 DEF TypeOK, Left
  <1> QED
    BY <1>1, <1>2, HeldAt DEF Between

\* A device in use, and one whose removal has not got to its proc file, is complete.
LEMMA Complete ==
    ASSUME TypeOK, HeldInv, \/ ctl.mode = "idle" /\ "listed" \in held
                            \/ ctl.mode = "remove" /\ Left >= 19
    PROVE  {"dev", "zmd", "zones", "zs_wq", "mapping", "nodes", "iosched", "retry_wq", "gc_ctx", "gc_thread",
            "nat_sit"} \subseteq held
  <1>1. PICK n : n = Left
    OBVIOUS
  <1>2. n \in Nat
    BY <1>1 DEF TypeOK, Left
  <1> QED
    BY <1>1, <1>2, HeldAt DEF Between

\* The phases of a device.
LEMMA Phases ==
    ASSUME Steady, ctl.mode # "oops"
    PROVE  Before \/ After \/ (ctl.mode = "idle" /\ "listed" \in held) \/ (ctl.mode = "remove" /\ Left = 21)
  <1>1. TypeOK /\ OnPlan
    BY DEF Steady
  <1>2. ctl.mode = "remove" => Left \in 1 .. 21
    BY <1>1, RemoveSteps DEF OnPlan, EndOf
  <1>3. ctl.mode \in {"idle", "create", "unwind", "remove", "unloaded"}
    BY <1>1 DEF TypeOK
  <1> QED
    BY <1>2, <1>3 DEF Before, After

\* The parts that run, one by one.
LEMMA TouchedParts ==
    ASSUME gc.pc \in {"loop", "sleep", "exiting"} => {"dev", "gc_ctx", "gc_thread"} \subseteq held,
           gc.pc = "test" => {"dev", "gc_ctx", "zmd"} \subseteq held,
           gc.pc = "zone" => {"dev", "gc_ctx", "zmd", "zones", "nat_sit", "iosched"} \subseteq held,
           zs # "idle" => {"dev", "zmd", "zs_wq"} \subseteq held,
           zs = "run" => {"zones"} \subseteq held,
           zs = "run" /\ Emptied => {"gc_ctx", "gc_thread"} \subseteq held,
           rt.pend # "no" \/ rt.run => {"dev", "iosched", "retry_wq"} \subseteq held,
           rt.left > 0 \/ io.write > 0 =>
               {"dev", "iosched", "zmd", "zones", "mapping", "nodes", "gc_ctx", "nat_sit"} \subseteq held,
           io.read > 0 => {"dev", "iosched", "retry_wq", "zones"} \subseteq held,
           io.user # "none" => {"dev", "iosched", "zmd", "zones", "mapping", "nodes", "nat_sit"} \subseteq held,
           "gc_timer" \in held => {"gc_ctx", "gc_thread"} \subseteq held,
           "zs_timer" \in held => {"zmd", "zs_wq"} \subseteq held,
           "retry_timer" \in held => {"iosched", "retry_wq"} \subseteq held,
           flags.reader => {"dev", "iosched", "gc_ctx", "nat_sit", "zmd", "zones"} \subseteq held
    PROVE  NoUseAfterFree
  <1> DEFINE t1 == IF gc.pc \in {"loop", "sleep", "exiting"} THEN {"dev", "gc_ctx", "gc_thread"} ELSE {}
             t2 == IF gc.pc = "test" THEN {"dev", "gc_ctx", "zmd"} ELSE {}
             t3 == IF gc.pc = "zone" THEN {"dev", "gc_ctx", "zmd", "zones", "nat_sit", "iosched"} ELSE {}
             t4 == IF zs # "idle" THEN {"dev", "zmd", "zs_wq"} ELSE {}
             t5 == IF zs = "run" THEN {"zones"} ELSE {}
             t6 == IF zs = "run" /\ Emptied THEN {"gc_ctx", "gc_thread"} ELSE {}
             t7 == IF rt.pend # "no" \/ rt.run THEN {"dev", "iosched", "retry_wq"} ELSE {}
             t8 == IF rt.left > 0 \/ io.write > 0
                    THEN {"dev", "iosched", "zmd", "zones", "mapping", "nodes", "gc_ctx", "nat_sit"} ELSE {}
             t9 == IF io.read > 0 THEN {"dev", "iosched", "retry_wq", "zones"} ELSE {}
             t10 == IF io.user # "none" THEN {"dev", "iosched", "zmd", "zones", "mapping", "nodes", "nat_sit"}
                    ELSE {}
             t11 == IF "gc_timer" \in held THEN {"gc_ctx", "gc_thread"} ELSE {}
             t12 == IF "zs_timer" \in held THEN {"zmd", "zs_wq"} ELSE {}
             t13 == IF "retry_timer" \in held THEN {"iosched", "retry_wq"} ELSE {}
             t14 == IF flags.reader THEN {"dev", "iosched", "gc_ctx", "nat_sit", "zmd", "zones"} ELSE {}
  <1>1. /\ t1 \subseteq held /\ t2 \subseteq held /\ t3 \subseteq held /\ t4 \subseteq held /\ t5 \subseteq held
        /\ t6 \subseteq held /\ t7 \subseteq held /\ t8 \subseteq held /\ t9 \subseteq held /\ t10 \subseteq held
        /\ t11 \subseteq held /\ t12 \subseteq held /\ t13 \subseteq held /\ t14 \subseteq held
    OBVIOUS
  <1>2. Touched = UNION {t1, t2, t3, t4, t5, t6, t7, t8, t9, t10, t11, t12, t13, t14}
    BY DEF Touched
  <1> HIDE DEF t1, t2, t3, t4, t5, t6, t7, t8, t9, t10, t11, t12, t13, t14
  <1>3. UNION {t1, t2, t3, t4, t5, t6, t7, t8, t9, t10, t11, t12, t13, t14} \subseteq held
    BY ONLY <1>1
  <1> QED
    BY <1>2, <1>3 DEF NoUseAfterFree

\* In each phase nothing that runs touches what does not exist.
LEMMA Safe ==
    ASSUME Steady, Life, PhaseInv, ctl.mode # "oops"
    PROVE  NoUseAfterFree
  <1>1. TypeOK /\ HeldInv /\ ThreadInv
    BY DEF Steady, Life
  <1>2. /\ "gc_thread" \in held => {"dev", "zmd", "gc_ctx"} \subseteq held
        /\ "zs_wq" \in held => {"dev", "zmd", "zones"} \subseteq held
        /\ "retry_wq" \in held => {"dev", "iosched"} \subseteq held
        /\ "zs_timer" \in held => {"zmd", "zs_wq"} \subseteq held
        /\ "retry_timer" \in held => {"iosched", "retry_wq"} \subseteq held
    BY <1>1, Foundations
  <1>3. zs # "idle" => {"dev", "zmd", "zones", "zs_wq"} \subseteq held
    BY <1>2 DEF PhaseInv, QueueInv
  <1>4. rt.pend # "no" \/ rt.run => {"dev", "iosched", "retry_wq"} \subseteq held
    BY <1>2 DEF PhaseInv, QueueInv
  <1>5. gc.pc \notin {"none", "gone"} => {"dev", "zmd", "gc_ctx", "gc_thread"} \subseteq held
    BY <1>1, <1>2 DEF ThreadInv
  <1>6. "gc_timer" \in held => {"gc_ctx", "gc_thread"} \subseteq held
    BY <1>1, <1>2 DEF ThreadInv
  <1>7. CASE Before \/ After
    <2>1. NoIo /\ (zs = "run" => zone.state = "none")
      BY <1>7 DEF PhaseInv, BeforeInv, AfterInv
    <2>2. ~(zs = "run" /\ Emptied)
      BY <2>1 DEF Emptied
    <2>3. ~(rt.left > 0 \/ io.write > 0) /\ ~(io.read > 0) /\ io.user = "none" /\ gc.pc # "zone"
      BY <2>1 DEF NoIo
    <2>4. flags.reader => {"dev", "iosched", "gc_ctx", "nat_sit", "zmd", "zones"} \subseteq held
      <3> SUFFICES ASSUME flags.reader
                   PROVE  {"dev", "iosched", "gc_ctx", "nat_sit", "zmd", "zones"} \subseteq held
        OBVIOUS
      <3>1. ctl.mode = "remove" /\ Left >= 19
        BY <1>7 DEF PhaseInv, BeforeInv, AfterInv
      <3> QED
        BY <1>1, <3>1, Complete
    <2> QED
      BY <1>2, <1>3, <1>4, <1>5, <1>6, <2>2, <2>3, <2>4, TouchedParts
  <1>8. CASE ~(Before \/ After)
    <2>1. (ctl.mode = "idle" /\ "listed" \in held) \/ (ctl.mode = "remove" /\ Left >= 19)
      BY <1>8, Phases
    <2>2. {"dev", "zmd", "zones", "zs_wq", "mapping", "nodes", "iosched", "retry_wq", "gc_ctx", "gc_thread",
           "nat_sit"} \subseteq held
      BY <1>1, <2>1, Complete
    <2> QED
      BY <2>2, TouchedParts
  <1> QED
    BY <1>7, <1>8

\* In the middle of its life a device is in use, and complete.
LEMMA InUse ==
    ASSUME Steady, HeldInv, ctl.mode # "oops", ~Before, ~After
    PROVE  "zs_wq" \in held /\ "retry_wq" \in held
  <1>1. (ctl.mode = "idle" /\ "listed" \in held) \/ (ctl.mode = "remove" /\ Left >= 19)
    BY Phases
  <1> QED
    BY <1>1, Complete DEF Steady

\* A step outside the control thread stays in the phase.
LEMMA SamePhase ==
    ASSUME ctl' = ctl, "listed" \in held' <=> "listed" \in held
    PROVE  (Before' <=> Before) /\ (After' <=> After) /\ Left' = Left
  BY DEF Before, After, Left

\* Users come only while the device is in use; a reader may come a little later.
LEMMA UserPhase ==
    ASSUME Calm, Steady, HeldInv, PhaseInv, ctl.mode # "oops",
           open_dev \/ release_dev \/ UserIo \/ UserIoEnds \/ read_lbz_dev_proc \/ ReadEnds
    PROVE  PhaseInv'
  <1>1. ctl' = ctl /\ held' = held /\ gc' = gc /\ zone' = zone /\ zs' = zs
    BY DEF open_dev, release_dev, UserIo, UserIoEnds, read_lbz_dev_proc, ReadEnds
  <1>2. (Before' <=> Before) /\ (After' <=> After) /\ Left' = Left
    BY <1>1, SamePhase
  <1>3. flags \in Flags /\ rt \in Rts /\ io \in Ios
    BY TypeParts DEF Steady
  <1>4. CASE open_dev \/ release_dev \/ UserIo \/ UserIoEnds
    <2>1. ~Before /\ ~After
      <3>1. CASE open_dev
        <4>1. flags.ready /\ ~flags.remove
          BY <3>1 DEF open_dev
        <4> QED
          BY <4>1 DEF PhaseInv, BeforeInv, AfterInv
      <3>2. CASE release_dev \/ UserIo
        <4>1. flags.refcnt = 1
          BY <3>2 DEF release_dev, UserIo
        <4> QED
          BY <4>1 DEF PhaseInv, BeforeInv, AfterInv, NoIo
      <3>3. CASE UserIoEnds
        <4>1. io.user = "device"
          BY <3>3 DEF UserIoEnds
        <4> QED
          BY <4>1 DEF PhaseInv, BeforeInv, AfterInv, NoIo
      <3> QED
        BY <1>4, <3>1, <3>2, <3>3
    <2>2. flags'.remove = flags.remove
      BY <1>3, <1>4 DEF open_dev, release_dev, UserIo, UserIoEnds, Flags
    <2>3. QueueInv'
      BY <1>1, <2>1, InUse DEF QueueInv
    <2> QED
      BY <1>1, <1>2, <2>1, <2>2, <2>3 DEF PhaseInv
  <1>5. CASE read_lbz_dev_proc \/ ReadEnds
    <2>1. /\ rt' = rt /\ io' = io /\ flags'.ready = flags.ready /\ flags'.remove = flags.remove
          /\ flags'.faulty = flags.faulty /\ flags'.refcnt = flags.refcnt
      BY <1>3, <1>5 DEF read_lbz_dev_proc, ReadEnds, Flags
    <2>2. flags'.reader => flags.ready
      BY <1>3, <1>5 DEF read_lbz_dev_proc, ReadEnds, Flags
    <2>3. NoIo' <=> NoIo
      BY <1>1, <2>1 DEF NoIo
    <2>4. QueueInv'
      BY <1>1, <2>1 DEF QueueInv, PhaseInv
    <2>5. Before => BeforeInv'
      BY <1>1, <2>1, <2>2, <2>3 DEF PhaseInv, BeforeInv
    <2>6. After => AfterInv'
      <3> SUFFICES ASSUME After PROVE AfterInv'
        OBVIOUS
      <3>1. flags.ready => ctl.mode = "remove" /\ Left = 20
        BY DEF PhaseInv, AfterInv
      <3> QED
        BY <1>1, <1>2, <2>1, <2>2, <2>3, <3>1 DEF PhaseInv, AfterInv
    <2> QED
      BY <1>1, <1>2, <2>1, <2>4, <2>5, <2>6 DEF PhaseInv
  <1> QED
    BY <1>4, <1>5

\* The GC thread takes a zone only while the device is in use.
LEMMA GcPhase ==
    ASSUME Calm, Steady, HeldInv, PhaseInv, ctl.mode # "oops", GcThread
    PROVE  PhaseInv'
  <1>1. ctl' = ctl /\ flags' = flags /\ zs' = zs /\ rt' = rt
    BY DEF GcThread
  <1>2. \A x \in {"listed", "zs_wq", "retry_wq"} : x \in held' <=> x \in held
    BY DEF GcThread, GcBorn, GcLoop, GcSleeps, GcVictim, GcCopy, GcZoneEnd, GcExit
  <1>3. (Before' <=> Before) /\ (After' <=> After) /\ Left' = Left
    BY <1>1, <1>2, SamePhase
  <1>4. QueueInv'
    BY <1>1, <1>2 DEF QueueInv, PhaseInv
  <1>5. CASE GcVictim \/ GcCopy \/ GcZoneEnd
    <2>1. ~Before /\ ~After
      <3>1. CASE GcVictim
        <4>1. flags.ready /\ ~flags.remove
          BY <3>1 DEF GcVictim, Halted
        <4> QED
          BY <4>1 DEF PhaseInv, BeforeInv, AfterInv
      <3>2. CASE GcCopy \/ GcZoneEnd
        <4>1. gc.pc = "zone"
          BY <3>2 DEF GcCopy, GcZoneEnd
        <4> QED
          BY <4>1 DEF PhaseInv, BeforeInv, AfterInv, NoIo
      <3> QED
        BY <1>5, <3>1, <3>2
    <2> QED
      BY <1>1, <1>3, <1>4, <2>1 DEF PhaseInv
  <1>6. CASE GcBorn \/ GcLoop \/ GcSleeps \/ GcExit
    <2>1. zone' = zone /\ io' = io
      BY <1>6 DEF GcBorn, GcLoop, GcSleeps, GcExit
    <2>2. gc'.pc # "zone"
      <3>1. gc \in Gcs
        BY TypeParts DEF Steady
      <3> QED
        BY <1>6, <3>1 DEF GcBorn, GcLoop, GcSleeps, GcExit, Gcs
    <2>3. NoIo => NoIo'
      BY <1>1, <2>1, <2>2 DEF NoIo
    <2>4. Before => BeforeInv'
      BY <1>1, <2>1, <2>3 DEF PhaseInv, BeforeInv
    <2>5. After => AfterInv'
      BY <1>1, <1>3, <2>1, <2>3 DEF PhaseInv, AfterInv
    <2> QED
      BY <1>1, <1>3, <1>4, <2>4, <2>5 DEF PhaseInv
  <1> QED
    BY <1>5, <1>6 DEF GcThread

\* GC's I/O ends while the device is in use.
LEMMA GcIoPhase ==
    ASSUME Steady, HeldInv, PhaseInv, ctl.mode # "oops", GcReadEnds \/ GcWriteEnds
    PROVE  PhaseInv'
  <1>1. ctl' = ctl /\ held' = held /\ zs' = zs
    BY DEF GcReadEnds, GcWriteEnds
  <1>2. (Before' <=> Before) /\ (After' <=> After)
    BY <1>1, SamePhase
  <1>3. io.read > 0 \/ io.write > 0
    BY DEF GcReadEnds, GcWriteEnds
  <1>4. ~Before /\ ~After
    BY <1>3 DEF PhaseInv, BeforeInv, AfterInv, NoIo
  <1>5. flags'.remove = flags.remove
    BY TypeParts DEF Steady, Flags, GcReadEnds, GcWriteEnds
  <1>6. QueueInv'
    BY <1>1, <1>4, InUse DEF QueueInv
  <1> QED
    BY <1>1, <1>2, <1>4, <1>5, <1>6 DEF PhaseInv

\* The retry worker runs on a device that is ready, and finds no copies when all
\* I/O is complete.
LEMMA RetryPhase ==
    ASSUME Steady, HeldInv, PhaseInv, ctl.mode # "oops", ctl' = ctl, RetryTimer \/ RetryWork
    PROVE  PhaseInv'
  <1>1. held' = held /\ flags' = flags /\ gc' = gc /\ zone' = zone /\ zs' = zs /\ ctl' = ctl
    BY DEF RetryTimer, RetryWork, RetryStart, RetryCopy, RetryEnd
  <1>2. (Before' <=> Before) /\ (After' <=> After) /\ Left' = Left
    BY <1>1, SamePhase
  <1>3. TypeOK /\ rt \in Rts /\ io \in Ios
    BY TypeParts DEF Steady
  <1>4. QueueInv'
    <2>1. CASE RetryTimer
      <3>1. "retry_timer" \in held => "retry_wq" \in held
        BY <1>3, Foundations
      <3>2. "retry_wq" \in held
        BY <2>1, <3>1 DEF RetryTimer, PhaseInv, QueueInv
      <3> QED
        BY <1>1, <3>2 DEF PhaseInv, QueueInv
    <2>2. CASE RetryWork
      <3>1. rt.pend # "no" \/ rt.run
        BY <2>2 DEF RetryWork, RetryStart, RetryCopy, RetryEnd
      <3>2. "retry_wq" \in held
        BY <3>1 DEF PhaseInv, QueueInv
      <3> QED
        BY <1>1, <3>2 DEF PhaseInv, QueueInv
    <2> QED
      BY <2>1, <2>2
  <1>5. ASSUME NoIo PROVE NoIo'
    <2>1. io.list = 0 /\ io.user = "none" /\ rt.left = 0 /\ rt.pend # "delayed"
      BY <1>5 DEF NoIo
    <2>2. CASE RetryTimer \/ RetryEnd
      <3>1. io' = io /\ rt'.left = rt.left /\ (rt'.pend = "queued" \/ rt'.pend = rt.pend)
        BY <1>3, <2>2 DEF RetryTimer, RetryEnd, Rts
      <3> QED
        BY <1>1, <1>5, <3>1 DEF NoIo
    <2>3. CASE RetryStart
      <3>1. rt'.pend = "no" /\ rt'.left = 0
        BY <2>1, <2>3 DEF RetryStart
      <3>2. io'.read = io.read /\ io'.list = 0 /\ io'.write = io.write /\ io'.user = "none"
        BY <1>3, <2>1, <2>3 DEF RetryStart, Ios
      <3> QED
        BY <1>1, <1>5, <3>1, <3>2 DEF NoIo
    <2>4. CASE RetryCopy
      BY <2>1, <2>4 DEF RetryCopy
    <2> QED
      BY <2>2, <2>3, <2>4 DEF RetryWork
  <1>6. ASSUME Before PROVE BeforeInv'
    <2>1. BeforeInv /\ Halted
      BY <1>6 DEF PhaseInv, BeforeInv, Halted
    <2>2. ~rt'.run
      <3>1. ~rt.run
        BY <2>1 DEF BeforeInv
      <3> QED
        BY <1>3, <2>1, <3>1 DEF RetryTimer, RetryWork, RetryStart, RetryCopy, RetryEnd, Rts
    <2> QED
      BY <1>1, <1>5, <2>1, <2>2 DEF BeforeInv
  <1>7. After => AfterInv'
    BY <1>1, <1>2, <1>5 DEF PhaseInv, AfterInv
  <1> QED
    BY <1>1, <1>2, <1>4, <1>6, <1>7 DEF PhaseInv

\* The zone state worker runs on a device that is ready.
LEMMA ZsPhase ==
    ASSUME Steady, HeldInv, PhaseInv, ctl.mode # "oops", ZsTimer \/ ZoneStateWork
    PROVE  PhaseInv'
  <1>1. held' = held /\ flags' = flags /\ gc' = gc /\ ctl' = ctl /\ rt' = rt /\ io' = io
    BY DEF ZsTimer, ZoneStateWork, ZsStart, ZsEnd
  <1>2. (Before' <=> Before) /\ (After' <=> After) /\ Left' = Left /\ (NoIo' <=> NoIo)
    BY <1>1, SamePhase DEF NoIo
  <1>3. TypeOK
    BY DEF Steady
  <1>4. QueueInv'
    <2>1. "zs_timer" \in held => "zs_wq" \in held
      BY <1>3, Foundations
    <2>2. "zs_wq" \in held
      BY <2>1 DEF PhaseInv, QueueInv, ZsTimer, ZoneStateWork, ZsStart, ZsEnd
    <2> QED
      BY <1>1, <2>2 DEF PhaseInv, QueueInv
  <1>5. zone.state = "none" => zone'.state = "none"
    <2>1. zone' = zone \/ zone' = [zone EXCEPT !.state = "none"]
      BY DEF ZsTimer, ZoneStateWork, ZsStart, ZsEnd
    <2> QED
      BY <1>3, <2>1 DEF TypeOK
  <1>6. zs' = "run" => ~Halted
    BY <1>3 DEF ZsTimer, ZoneStateWork, ZsStart, ZsEnd
  <1>7. ASSUME Before PROVE BeforeInv'
    <2>1. BeforeInv /\ Halted
      BY <1>7 DEF PhaseInv, BeforeInv, Halted
    <2> QED
      BY <1>1, <1>2, <1>5, <1>6, <2>1 DEF BeforeInv
  <1>8. ASSUME After PROVE AfterInv'
    <2>1. AfterInv
      BY <1>8 DEF PhaseInv
    <2>2. zone'.state = "none" \/ (flags'.faulty /\ zs' # "run")
      BY <1>1, <1>5, <1>6, <2>1 DEF AfterInv, Halted
    <2> QED
      BY <1>1, <1>2, <2>1, <2>2 DEF AfterInv
  <1> QED
    BY <1>1, <1>2, <1>4, <1>7, <1>8 DEF PhaseInv

\* Where the turns of the control thread lead.
LEMMA TurnMode ==
    ASSUME Steady
    PROVE  /\ lbz_create_device => ctl'.mode = "create"
           /\ CreateFails => ctl'.mode \in {"unwind", "idle"}
           /\ lbz_dev_exit => ctl'.mode \in {"remove", "unloaded"}
  <1>1. TypeOK
    BY DEF Steady
  <1>2. lbz_create_device => ctl'.mode = "create"
    BY DEF lbz_create_device
  <1>3. ASSUME CreateFails PROVE ctl'.mode \in {"unwind", "idle"}
    <2>1. EndOf(CreatePlan)
      BY <1>3 DEF CreateFails, Steady, OnPlan
    <2> QED
      BY <1>1, <1>3, <2>1, FailsFx
  <1>4. lbz_dev_exit => ctl'.mode \in {"remove", "unloaded"}
    BY <1>1 DEF lbz_dev_exit, TypeOK
  <1> QED
    BY <1>2, <1>3, <1>4

\* The control thread up to the end of creation, and the begin of removal.
LEMMA CreatePhase ==
    ASSUME Steady, HeldInv, PhaseInv, lbz_create_device \/ Acquire \/ CreateFails \/ lbz_dev_exit
    PROVE  PhaseInv'
  <1>1. /\ zone' = zone /\ zs' = zs /\ rt' = rt /\ io' = io /\ held \subseteq held' /\ TypeOK
        /\ flags \in Flags
    BY TypeParts DEF Steady, lbz_create_device, Acquire, CreateFails, lbz_dev_exit
  <1>2. QueueInv'
    BY <1>1 DEF PhaseInv, QueueInv
  <1>3. CASE lbz_create_device \/ CreateFails
    <2>1. flags' = flags /\ gc' = gc
      BY <1>3 DEF lbz_create_device, CreateFails
    <2>2. Before
      <3>1. ctl.mode = "create" \/ (ctl.mode = "idle" /\ "dev" \notin held)
        BY <1>3 DEF lbz_create_device, CreateFails
      <3> QED
        BY <3>1, HeldAt DEF Before, Between
    <2>3. ctl'.mode \in {"create", "unwind", "idle"}
      BY <1>3, TurnMode
    <2>4. BeforeInv'
      BY <1>1, <2>1, <2>2 DEF PhaseInv, BeforeInv, NoIo
    <2> QED
      BY <1>2, <2>3, <2>4 DEF PhaseInv, After
  <1>4. CASE Acquire
    <2>1. /\ EndOf(CreatePlan) /\ Left \in 1 .. 21 /\ ctl.mode = "create"
          /\ ctl'.mode = IF Left = 1 THEN "idle" ELSE "create"
      BY <1>4, AcquireFx DEF Acquire
    <2>2. Left = 1 <=> Now = "ready"
      BY <1>1, <2>1, CreateNow
    <2>3. BeforeInv
      BY <2>1 DEF PhaseInv, Before
    <2>4. CASE Left = 1
      <3>1. "listed" \in held
        BY <2>1, <2>4, HeldAt DEF Between
      <3> QED
        BY <1>1, <1>2, <2>1, <2>4, <3>1 DEF PhaseInv, Before, After
    <2>5. CASE Left # 1
      <3>1. ~flags'.ready /\ ~flags'.reader /\ flags'.refcnt = 0
        <4>1. CASE Now = "dev"
          BY <1>4, <4>1 DEF Acquire, NoFlags
        <4>2. CASE Now # "dev"
          <5>1. flags' = [flags EXCEPT !.ready = @ \/ Now = "ready"]
            BY <1>4, <4>2 DEF Acquire
          <5> QED
            BY <1>1, <2>2, <2>3, <2>5, <5>1 DEF Flags, BeforeInv, NoIo
        <4> QED
          BY <4>1, <4>2
      <3>2. gc'.pc # "zone"
        BY <1>4, <2>3 DEF Acquire, NoThread, BeforeInv, NoIo
      <3>3. BeforeInv'
        BY <1>1, <2>3, <3>1, <3>2 DEF BeforeInv, NoIo
      <3> QED
        BY <1>2, <2>1, <2>5, <3>3 DEF PhaseInv, After
    <2> QED
      BY <2>4, <2>5
  <1>5. CASE lbz_dev_exit
    <2>1. gc' = gc /\ held' = held /\ ctl.mode = "idle"
      BY <1>5 DEF lbz_dev_exit
    <2>2. CASE "listed" \in held
      <3>1. ctl'.mode = "remove" /\ Left' = 21
        BY <1>1, <1>5, <2>2, RemoveSteps DEF lbz_dev_exit, TypeOK, Left
      <3>2. flags'.remove
        BY <1>1, <1>5, <2>2 DEF lbz_dev_exit, Flags
      <3> QED
        BY <1>2, <3>1, <3>2 DEF PhaseInv, Before, After
    <2>3. CASE "listed" \notin held
      <3>1. ctl'.mode = "unloaded"
        BY <1>1, <1>5, <2>3 DEF lbz_dev_exit, TypeOK
      <3>2. BeforeInv
        BY <2>1, <2>3 DEF PhaseInv, Before
      <3>3. flags'.ready = flags.ready /\ flags'.reader = flags.reader /\ flags'.refcnt = flags.refcnt
        BY <1>1, <1>5 DEF lbz_dev_exit, Flags
      <3>4. AfterInv'
        BY <1>1, <2>1, <3>2, <3>3 DEF BeforeInv, AfterInv, NoIo
      <3> QED
        BY <1>2, <3>1, <3>4 DEF PhaseInv, Before
    <2> QED
      BY <2>2, <2>3
  <1> QED
    BY <1>3, <1>4, <1>5

\* The control thread from there on.  Calm is needed for the wait alone: when it
\* ends, GC works on no zone and no copy will be started.
LEMMA ReleasePhase ==
    ASSUME Calm, Steady, HeldInv, PhaseInv, WaitIoComplete \/ StopGc \/ JoinGc \/ Release
    PROVE  PhaseInv'
  <1>1. Releasing /\ Advance(Done) /\ TypeOK /\ gc \in Gcs /\ flags \in Flags
    BY TypeParts DEF Steady, WaitIoComplete, StopGc, JoinGc, Release
  <1>2. /\ Left' = Left - 1
        /\ ctl.mode = "unwind" => /\ EndOf(bs_err) /\ Left \in 1 .. 16
                                  /\ ctl'.mode = IF Left = 1 THEN "idle" ELSE "unwind"
        /\ ctl.mode = "remove" => /\ EndOf(RemovePlan) /\ Left \in 1 .. 21
                                  /\ ctl'.mode = IF Left = 1 THEN "unloaded" ELSE "remove"
    BY <1>1, ReleaseFx
  <1>3. /\ zone' = zone /\ zs' = zs /\ rt' = rt /\ io' = io /\ gc'.pc = gc.pc
        /\ flags'.remove = flags.remove /\ flags'.faulty = flags.faulty /\ flags'.refcnt = flags.refcnt
        /\ flags'.reader = flags.reader /\ (flags'.ready => flags.ready)
    BY <1>1 DEF WaitIoComplete, StopGc, JoinGc, Release, Gcs, Flags
  <1>4. NoIo' <=> NoIo
    BY <1>3 DEF NoIo
  <1>5. ASSUME NoIo \/ Now = "wait" PROVE QueueInv'
    <2>1. CASE WaitIoComplete \/ StopGc
      <3>1. held' = held
        BY <2>1 DEF WaitIoComplete, StopGc
      <3> QED
        BY <1>3, <3>1 DEF PhaseInv, QueueInv
    <2>2. CASE JoinGc
      <3>1. held' = held \ {"gc_thread"}
        BY <2>2 DEF JoinGc
      <3> QED
        BY <1>3, <3>1 DEF PhaseInv, QueueInv
    <2>3. CASE Release
      <3>1. held' = held \ {Now} /\ Now # "wait" /\ MayRelease(Now)
        BY <2>3 DEF Release
      <3>2. rt.pend # "delayed"
        BY <1>5, <3>1 DEF NoIo
      <3>3. Now = "retry_wq" => rt.pend = "no" /\ ~rt.run
        BY <1>1, <3>1, <3>2 DEF MayRelease, TypeOK
      <3>4. Now = "zs_wq" => zs = "idle"
        BY <3>1 DEF MayRelease
      <3> QED
        BY <1>3, <3>1, <3>3, <3>4 DEF PhaseInv, QueueInv
    <2> QED
      BY <2>1, <2>2, <2>3
  <1>6. CASE ctl.mode = "unwind"
    <2>1. BeforeInv
      BY <1>6 DEF PhaseInv, Before
    <2>2. BeforeInv'
      BY <1>3, <1>4, <2>1 DEF BeforeInv
    <2>3. QueueInv'
      BY <1>5, <2>1 DEF BeforeInv
    <2>4. ctl'.mode = "idle" \/ ctl'.mode = "unwind"
      BY <1>2, <1>6
    <2> QED
      BY <2>2, <2>3, <2>4 DEF PhaseInv, After
  <1>7. CASE ctl.mode = "remove"
    <2>1. /\ Left = 21 <=> Now = "wait"
          /\ Left = 20 <=> Now = "unready"
          /\ Left = 19 <=> Now = "proc"
      BY <1>1, <1>2, <1>7, RemoveNow
    <2>2. flags'.remove /\ (ctl'.mode = "remove" \/ ctl'.mode = "unloaded")
      BY <1>2, <1>3, <1>7 DEF PhaseInv
    <2>3. CASE Left = 21
      <3>1. WaitIoComplete
        BY <2>1, <2>3 DEF StopGc, JoinGc, Release
      <3>2. NoIo /\ (zone.state = "none" \/ (flags.faulty /\ zs # "run"))
        <4>1. gc_inflight_io_cnt = 0 /\ io.user = "none" /\ flags.refcnt = 0 /\ AtRest
          BY <3>1 DEF WaitIoComplete
        <4>2. io.read \in Nat /\ io.list \in Nat /\ rt.left \in Nat /\ io.write \in Nat
          BY <1>1 DEF TypeOK
        <4>3. PICK a, b, c, d : a = io.read /\ b = io.list /\ c = rt.left /\ d = io.write
          OBVIOUS
        <4>4. a \in Nat /\ b \in Nat /\ c \in Nat /\ d \in Nat /\ a + b + c + d = 0
          BY <4>1, <4>2, <4>3 DEF gc_inflight_io_cnt
        <4>5. a = 0 /\ b = 0 /\ c = 0 /\ d = 0
          BY ONLY <4>4
        <4> QED
          BY <4>1, <4>3, <4>5 DEF NoIo, AtRest
      <3>3. Left' = 20 /\ ctl'.mode = "remove"
        BY <1>2, <1>7, <2>3
      <3>4. AfterInv'
        BY <1>3, <1>4, <3>2, <3>3 DEF AfterInv
      <3>5. QueueInv'
        BY <1>5, <3>2
      <3> QED
        BY <2>2, <3>3, <3>4, <3>5 DEF PhaseInv, Before
    <2>4. CASE Left # 21
      <3>1. PICK n : n = Left
        OBVIOUS
      <3>2. n \in 1 .. 20 /\ Left' = n - 1
        BY <1>2, <1>7, <2>4, <3>1
      <3>3. AfterInv
        BY <1>7, <3>1, <3>2 DEF PhaseInv, After
      <3>4. ~flags'.ready
        <4>1. CASE n = 20
          <5>1. Now = "unready"
            BY <2>1, <3>1, <4>1
          <5>2. Release
            BY <5>1 DEF WaitIoComplete, StopGc, JoinGc
          <5> QED
            BY <1>1, <5>1, <5>2 DEF Release, Flags
        <4>2. CASE n # 20
          BY <1>3, <3>1, <3>3, <4>2 DEF AfterInv
        <4> QED
          BY <4>1, <4>2
      <3>5. ASSUME flags'.reader PROVE n = 20
        <4>1. flags.reader /\ n >= 19
          BY <1>3, <3>1, <3>3, <3>5 DEF AfterInv
        <4>2. n # 19
          <5> SUFFICES ASSUME n = 19 PROVE FALSE
            OBVIOUS
          <5>1. Now = "proc"
            BY <2>1, <3>1
          <5>2. Release
            BY <5>1 DEF WaitIoComplete, StopGc, JoinGc
          <5> QED
            BY <4>1, <5>1, <5>2 DEF Release, MayRelease
        <4> QED
          BY <3>2, <4>1, <4>2
      <3>6. flags'.reader => ctl'.mode = "remove" /\ Left' >= 19
        BY <1>2, <1>7, <3>1, <3>2, <3>5
      <3>7. AfterInv'
        BY <1>3, <1>4, <3>3, <3>4, <3>6 DEF AfterInv
      <3>8. QueueInv'
        BY <1>5, <3>3 DEF AfterInv
      <3> QED
        BY <2>2, <3>7, <3>8 DEF PhaseInv, Before
    <2> QED
      BY <2>3, <2>4
  <1> QED
    BY <1>1, <1>6, <1>7 DEF Releasing

\* Every step of a calm device.
LEMMA CalmNext == Steady /\ Life /\ CalmInv /\ [Next]_vars => CalmInv'
  <1> SUFFICES ASSUME Steady, Life, CalmInv, [Next]_vars, Calm
               PROVE  IF ctl'.mode = "oops" THEN NoUseAfterFree' ELSE PhaseInv'
    BY DEF CalmInv
  <1>1. TypeOK
    BY DEF Steady
  <1>2. ASSUME NoUseAfterFree, UNCHANGED <<held, flags, gc, zone, zs, rt, io>> PROVE NoUseAfterFree'
    <2>1. Touched' = Touched
      BY <1>2 DEF Touched, Emptied, gc_inflight_io_cnt
    <2> QED
      BY <1>2, <2>1 DEF NoUseAfterFree
  <1>3. CASE UNCHANGED vars
    <2>1. ctl' = ctl /\ UNCHANGED <<held, flags, gc, zone, zs, rt, io>>
      BY <1>3 DEF vars
    <2>2. PhaseInv => PhaseInv'
      BY <2>1 DEF PhaseInv, Before, After, BeforeInv, AfterInv, NoIo, QueueInv, Left
    <2> QED
      BY <1>2, <2>1, <2>2 DEF CalmInv
  <1>4. CASE ~Ended /\ Running
    <2>1. ctl.mode # "oops" /\ HeldInv /\ PhaseInv
      BY <1>4 DEF Ended, Life, CalmInv
    <2>2. CASE ctl'.mode # "oops"
      <3>1. CASE RetryTimer \/ RetryWork
        <4>1. ctl' = ctl
          BY <1>1, <2>2, <3>1, ElsewhereFx DEF Elsewhere
        <4> QED
          BY <2>1, <2>2, <3>1, <4>1, RetryPhase
      <3>2. CASE ReportFails
        BY <1>1, <2>2, <3>2 DEF ReportFails, TypeOK
      <3> QED
        BY <1>4, <2>1, <2>2, <3>1, <3>2, CreatePhase, ReleasePhase, UserPhase, GcPhase, GcIoPhase, ZsPhase
           DEF Running, Control
    <2>3. CASE ctl'.mode = "oops"
      <3>1. RetryCopy \/ ReportFails
        <4>1. ctl' # ctl
          BY <2>1, <2>3
        <4>2. CASE Elsewhere
          BY <4>1, <4>2, OnlyRetry
        <4>3. CASE lbz_create_device \/ CreateFails \/ lbz_dev_exit
          BY <2>3, <4>3, TurnMode
        <4>4. CASE Acquire
          BY <2>3, <4>4, AcquireFx
        <4>5. CASE WaitIoComplete \/ StopGc \/ JoinGc \/ Release
          <5>1. Releasing /\ Advance(Done)
            BY <4>5 DEF WaitIoComplete, StopGc, JoinGc, Release
          <5> QED
            BY <2>1, <2>3, <5>1, ReleaseFx DEF Releasing
        <4> QED
          BY <1>4, <4>2, <4>3, <4>4, <4>5 DEF Running, Control, Elsewhere
      <3>2. UNCHANGED <<held, flags, gc, zone, zs, rt, io>>
        <4>1. CASE ReportFails
          BY <4>1 DEF ReportFails
        <4>2. CASE RetryCopy
          <5>1. flags.faulty
            BY <2>1, <2>3, <4>2 DEF RetryCopy
          <5> QED
            BY <4>2, <5>1 DEF RetryCopy
        <4> QED
          BY <3>1, <4>1, <4>2
      <3>3. NoUseAfterFree
        BY <2>1, Safe
      <3> QED
        BY <1>2, <2>3, <3>2, <3>3
    <2> QED
      BY <2>2, <2>3
  <1> QED
    BY <1>3, <1>4 DEF Next

\* Nothing runs at first.
LEMMA CalmInit == Init => CalmInv
  BY DEF Init, NoFlags, NoThread, CalmInv, PhaseInv, BeforeInv, After, NoIo, QueueInv

\* If nobody reads the proc file of a device that is not ready and GC is at rest
\* when removal stops waiting, no thread, timer, worker, I/O or reader ever uses a
\* component that does not exist yet or was freed, whatever fails and in whatever
\* order they run.
THEOREM NobodyUsesFreed == Spec => [](Calm => NoUseAfterFree)
  <1>1. Steady /\ Life /\ CalmInv => (Calm => NoUseAfterFree)
    BY Safe DEF CalmInv
  <1> QED
    BY <1>1, SteadyInit, SteadyNext, LifeInit, LifeNext, CalmInit, CalmNext, PTL DEF Spec
=============================================================================
