---------------------------- MODULE LbzLifecycle ----------------------------
(***************************************************************************)
(* lbz-dev.c, the control side of the driver: lbz_create_device with its   *)
(* error labels, open and release, and lbz_remove_device, which takes the  *)
(* components apart while the GC thread, the two work queues, their timers *)
(* and readers of the proc file still run.                                 *)
(*                                                                         *)
(* The control thread works through todo, a list of steps; held is what it *)
(* has acquired and not released.  The data path is reduced to where its   *)
(* I/O is: that decides who waits for whom and who touches what.           *)
(***************************************************************************)
EXTENDS MappingIndex, Sequences, FiniteSets

CONSTANTS
    MaxCreates,     \* bound: calls of lbz_create_device
    Sizes,          \* sizes of the device, in blocks
    MaxVictims,     \* bound: zones GC finds worth collecting
    MaxCopies,      \* bound: GC copies in flight
    Calm            \* TRUE: nobody reads the proc file of a device that is not ready,
                    \* and GC is at rest when removal stops waiting

ASSUME LifecycleAssumption ==
    /\ MaxCreates \in Nat \ {0} /\ MaxVictims \in Nat /\ MaxCopies \in Nat \ {0}
    /\ Sizes \subseteq Nat /\ Calm \in BOOLEAN

VARIABLES
    ctl,        \* the control thread: what it does, its steps, calls so far
    held,       \* what the device consists of at the moment
    map,        \* mapping: its size and the nodes allocated
    flags,      \* d->flags, refcnt, and a process reading the proc file
    gc,         \* the GC thread: where it is, kthread_stop called, LBZ_GC_STAT_EXIT
    zone,       \* victims left, and the zone GC works on
    zs,         \* zone_state_wk
    rt,         \* retry_wk: pending how, tasks it spliced off
    io          \* I/O in flight: GC reads, copies on lbz_gc_writes, GC writes, and the
                \* user's

vars == <<ctl, held, map, flags, gc, zone, zs, rt, io>>

Memory == {"dev", "zmd", "zones", "mapping", "iosched", "gc_ctx", "nat_sit"}
Thing  == Memory \cup {"bdev", "idx", "disk", "nodes", "zs_timer", "zs_wq", "retry_timer",
                       "retry_wq", "gc_thread", "gc_timer", "proc", "bioset", "listed"}
Step   == Thing \cup {"ready", "wait", "unready", "stop_gc", "join_gc"}

\* lbz_create_device, as module_input calls it.
CreatePlan == <<"bdev", "dev", "idx", "disk", "zmd", "zones", "zs_wq", "zs_timer", "mapping",
                "nodes", "iosched", "retry_wq", "retry_timer", "gc_ctx", "gc_thread", "gc_timer",
                "proc", "bioset", "nat_sit", "listed", "ready">>

\* The error labels of lbz_create_device, each with all that follows it.
zone_err    == <<"zmd", "disk", "idx", "dev">>
iosched_err == <<"iosched", "nodes", "mapping", "zs_timer", "zs_wq", "zones">> \o zone_err
gc_err      == <<"gc_ctx", "retry_timer", "retry_wq">> \o iosched_err
proc_err    == <<"stop_gc", "join_gc">> \o gc_err
bs_err      == <<"proc">> \o proc_err

\* Mutant: a failed lbz_dev_create_proc jumps to gc_err and leaves the thread.
ErrorLabel_SkipsThread(step) ==
    CASE step \in {"bdev", "dev"} -> <<>>
      [] step = "idx"             -> <<"dev">>
      [] step = "disk"            -> <<"idx", "dev">>
      [] step = "zones"           -> zone_err
      [] step = "zs_wq"           -> <<"zones">> \o zone_err
      [] step = "retry_wq"        -> iosched_err
      [] step \in {"gc_thread", "proc"} -> gc_err
      [] step = "bioset"          -> bs_err

\* What is undone after each step that can fail, by the goto of
\* lbz_create_device or in the function called.
ErrorLabel(step) ==
    CASE step \in {"bdev", "dev"} -> <<>>
      [] step = "idx"             -> <<"dev">>
      [] step = "disk"            -> <<"idx", "dev">>
      [] step = "zones"           -> zone_err
      [] step = "zs_wq"           -> <<"zones">> \o zone_err
      [] step = "retry_wq"        -> iosched_err
      [] step = "gc_thread"       -> gc_err
      [] step = "proc"            -> proc_err
      [] step = "bioset"          -> bs_err

Fallible == {"bdev", "dev", "idx", "disk", "zones", "zs_wq", "retry_wq", "gc_thread", "proc",
             "bioset"}

\* lbz_remove_device.
RemovePlan ==
    <<"wait", "unready", "proc", "nat_sit", "stop_gc", "join_gc", "gc_ctx", "retry_timer",
      "retry_wq", "iosched", "nodes", "mapping", "zs_timer", "zs_wq", "zones", "zmd", "disk",
      "idx", "listed", "bdev", "dev">>

-----------------------------------------------------------------------------

NoFlags == [ready |-> FALSE, remove |-> FALSE, faulty |-> FALSE, refcnt |-> 0, reader |-> FALSE]
NoThread == [pc |-> "none", stop |-> FALSE, exit |-> FALSE]

TypeOK ==
    /\ ctl \in [mode : {"idle", "create", "unwind", "remove", "unloaded", "oops"},
                todo : Seq(Step), calls : 0 .. MaxCreates]
    /\ held \subseteq Thing
    /\ map \in [max : Sizes \cup {0}, root : SUBSET Nat, leaves : SUBSET (Nat \X Nat)]
    /\ flags \in [ready : BOOLEAN, remove : BOOLEAN, faulty : BOOLEAN, refcnt : 0 .. 1,
                  reader : BOOLEAN]
    /\ gc \in [pc : {"none", "unborn", "loop", "test", "zone", "sleep", "exiting", "gone"},
               stop : BOOLEAN, exit : BOOLEAN]
    /\ zone \in [victims : 0 .. MaxVictims, state : {"none", "walk", "walked"}]
    /\ zs \in {"idle", "queued", "run"}
    /\ rt \in [pend : {"no", "delayed", "queued"}, run : BOOLEAN, left : 0 .. MaxCopies]
    /\ io \in [read : 0 .. MaxCopies, list : 0 .. MaxCopies, write : 0 .. MaxCopies,
               user : {"none", "device", "list"}]

Init ==
    /\ ctl = [mode |-> "idle", todo |-> <<>>, calls |-> 0]
    /\ held = {}
    /\ map = [max |-> 0, root |-> {}, leaves |-> {}]
    /\ flags = NoFlags
    /\ gc = NoThread
    /\ zone = [victims |-> MaxVictims, state |-> "none"]
    /\ zs = "idle"
    /\ rt = [pend |-> "no", run |-> FALSE, left |-> 0]
    /\ io = [read |-> 0, list |-> 0, write |-> 0, user |-> "none"]

\* gc_inflight_io_cnt, and is_dev_faulty || !is_dev_ready.
gc_inflight_io_cnt == io.read + io.list + rt.left + io.write
Halted == flags.faulty \/ ~flags.ready

-----------------------------------------------------------------------------
(* The control thread.                                                     *)

Now == Head(ctl.todo)
Advance(mode) == ctl' = [ctl EXCEPT !.todo = Tail(@), !.mode = IF Len(ctl.todo) = 1 THEN mode ELSE @]

\* echo c<size>,<path> > /proc/lbz
lbz_create_device ==
    /\ ctl.mode = "idle" /\ "dev" \notin held /\ ctl.calls < MaxCreates
    /\ ctl' = [mode |-> "create", todo |-> CreatePlan, calls |-> ctl.calls + 1]
    /\ UNCHANGED <<held, map, flags, gc, zone, zs, rt, io>>

Acquire ==
    /\ ctl.mode = "create" /\ Advance("idle")
    /\ held' = held \cup ({Now} \ {"ready"})
    /\ IF Now = "nodes"
       THEN \E m \in Sizes : LET new == lbz_mapping_init(m) IN
                map' = [max |-> m, root |-> new.root, leaves |-> new.leaves]
       ELSE UNCHANGED map
    /\ flags' = IF Now = "dev" THEN NoFlags ELSE [flags EXCEPT !.ready = @ \/ Now = "ready"]
    /\ gc' = IF Now = "gc_thread" THEN [NoThread EXCEPT !.pc = "unborn"] ELSE gc
    /\ UNCHANGED <<zone, zs, rt, io>>

\* A step fails.  The claim on phy_bdev is kept (module_input has no blkdev_put).
CreateFails ==
    LET undo == ErrorLabel(Now) IN
    /\ ctl.mode = "create" /\ Now \in Fallible
    /\ ctl' = [ctl EXCEPT !.todo = undo, !.mode = IF undo = <<>> THEN "idle" ELSE "unwind"]
    /\ UNCHANGED <<held, map, flags, gc, zone, zs, rt, io>>

\* blkdev_report_zones fails: lbz_drop_zones passes the zones not reported, which
\* are NULL, to lbz_zone_destroy.
ReportFails ==
    /\ ctl.mode = "create" /\ Now = "zones"
    /\ ctl' = [ctl EXCEPT !.mode = "oops"]
    /\ UNCHANGED <<held, map, flags, gc, zone, zs, rt, io>>

\* rmmod: the kernel lets it run only while nobody has the device open.
lbz_dev_exit ==
    /\ ctl.mode = "idle" /\ flags.refcnt = 0
    /\ ctl' = IF "listed" \in held THEN [ctl EXCEPT !.mode = "remove", !.todo = RemovePlan]
                                   ELSE [ctl EXCEPT !.mode = "unloaded"]
    /\ flags' = [flags EXCEPT !.remove = "listed" \in held]
    /\ UNCHANGED <<held, map, gc, zone, zs, rt, io>>

Releasing == ctl.mode \in {"unwind", "remove"}
Done == IF ctl.mode = "remove" THEN "unloaded" ELSE "idle"

\* GC has ended its zone, the worker has reset it (unless the device is faulty),
\* and no start of retry_wk is delayed.
AtRest ==
    /\ zone.state = "none" \/ (flags.faulty /\ zs # "run")
    /\ gc.pc # "zone" /\ rt.pend # "delayed"

\* Mutant: removal does not wait for the user's I/O.
WaitIoComplete_GcOnly ==
    /\ Releasing /\ Now = "wait"
    /\ gc_inflight_io_cnt = 0 /\ flags.refcnt = 0
    /\ Calm => AtRest
    /\ Advance(Done)
    /\ UNCHANGED <<held, map, flags, gc, zone, zs, rt, io>>

\* "wait io complete."
WaitIoComplete ==
    /\ Releasing /\ Now = "wait"
    /\ gc_inflight_io_cnt = 0 /\ io.user = "none" /\ flags.refcnt = 0
    /\ Calm => AtRest
    /\ Advance(Done)
    /\ UNCHANGED <<held, map, flags, gc, zone, zs, rt, io>>

\* lbz_destroy_gc_thread: set LBZ_GC_STAT_EXIT, kthread_stop, wait for the bit.
StopGc ==
    /\ Releasing /\ Now = "stop_gc" /\ Advance(Done)
    /\ gc' = [gc EXCEPT !.stop = TRUE, !.exit = TRUE]
    /\ UNCHANGED <<held, map, flags, zone, zs, rt, io>>

JoinGc ==
    /\ Releasing /\ Now = "join_gc" /\ gc.pc = "gone" /\ ~gc.exit /\ Advance(Done)
    /\ held' = held \ {"gc_thread"}
    /\ UNCHANGED <<map, flags, gc, zone, zs, rt, io>>

\* destroy_workqueue drains what is queued, remove_proc_entry waits for readers.
MayRelease(thing) ==
    /\ thing = "zs_wq" => zs = "idle"
    /\ thing = "retry_wq" => rt.pend # "queued" /\ ~rt.run
    /\ thing = "proc" => ~flags.reader

Release ==
    /\ Releasing /\ Now \notin {"wait", "stop_gc", "join_gc"} /\ MayRelease(Now)
    /\ Advance(Done)
    /\ held' = held \ {Now}
    /\ map' = IF Now = "nodes"
              THEN LET rest == lbz_mapping_destroy(map.root, map.leaves, map.max) IN
                   [map EXCEPT !.root = rest.root, !.leaves = rest.leaves]
              ELSE map
    /\ flags' = [flags EXCEPT !.ready = @ /\ Now # "unready"]
    /\ UNCHANGED <<gc, zone, zs, rt, io>>

Control == Acquire \/ WaitIoComplete \/ StopGc \/ JoinGc \/ Release

-----------------------------------------------------------------------------
(* Users and their I/O.                                                    *)

open_dev ==
    /\ flags.ready /\ ~flags.remove /\ ~flags.faulty /\ flags.refcnt = 0
    /\ flags' = [flags EXCEPT !.refcnt = 1]
    /\ UNCHANGED <<ctl, held, map, gc, zone, zs, rt, io>>

\* Waits for the user's I/O, unless the device is faulty.
release_dev ==
    /\ flags.refcnt = 1 /\ (io.user = "none" \/ flags.faulty)
    /\ flags' = [flags EXCEPT !.refcnt = 0]
    /\ UNCHANGED <<ctl, held, map, gc, zone, zs, rt, io>>

\* A write reaches the device or has to wait for the retry worker.
UserIo ==
    /\ flags.refcnt = 1 /\ ~Halted /\ io.user = "none"
    /\ \/ io' = [io EXCEPT !.user = "device"] /\ UNCHANGED rt
       \/ /\ io' = [io EXCEPT !.user = "list"]
          /\ rt' = [rt EXCEPT !.pend = IF @ = "no" THEN "queued" ELSE @]
    /\ UNCHANGED <<ctl, held, map, flags, gc, zone, zs>>

UserIoEnds ==
    /\ io.user = "device"
    /\ io' = [io EXCEPT !.user = "none"]
    /\ flags' \in {flags, [flags EXCEPT !.faulty = TRUE]}
    /\ UNCHANGED <<ctl, held, map, gc, zone, zs, rt>>

\* cat /proc/lbz-dev/lbz0
read_lbz_dev_proc ==
    /\ "proc" \in held /\ ~flags.reader /\ (Calm => flags.ready)
    /\ flags' = [flags EXCEPT !.reader = TRUE]
    /\ UNCHANGED <<ctl, held, map, gc, zone, zs, rt, io>>

ReadEnds ==
    /\ flags.reader
    /\ flags' = [flags EXCEPT !.reader = FALSE]
    /\ UNCHANGED <<ctl, held, map, gc, zone, zs, rt, io>>

-----------------------------------------------------------------------------
(* The GC thread.                                                          *)

\* kthread calls lbz_gc_thread only if kthread_stop did not come first.
GcBorn ==
    /\ gc.pc = "unborn"
    /\ gc' = [gc EXCEPT !.pc = IF gc.stop THEN "gone" ELSE "loop"]
    /\ UNCHANGED <<held, zone, io>>

\* Mutant: kthread_should_stop is not looked at after the sleep.
GcLoop_IgnoresStop ==
    /\ gc.pc \in {"loop", "sleep"}
    /\ gc' = [gc EXCEPT !.pc = IF @ = "loop" THEN "test" ELSE "loop"]
    /\ UNCHANGED <<held, zone, io>>

GcLoop ==
    /\ gc.pc \in {"loop", "sleep"}
    /\ gc' = [gc EXCEPT !.pc = IF gc.stop THEN "exiting" ELSE IF @ = "loop" THEN "test" ELSE "loop"]
    /\ UNCHANGED <<held, zone, io>>

\* Not ready, not needed, exiting, the previous zone not reset, or no victim.
GcSleeps ==
    /\ gc.pc = "test"
    /\ gc' = [gc EXCEPT !.pc = "sleep"]
    /\ UNCHANGED <<held, zone, io>>

GcVictim ==
    /\ gc.pc = "test" /\ ~Halted /\ ~gc.exit /\ (Calm => ~flags.remove)
    /\ zone.state = "none" /\ zone.victims > 0
    /\ zone' = [victims |-> zone.victims - 1, state |-> "walk"]
    /\ gc' = [gc EXCEPT !.pc = "zone"]
    /\ UNCHANGED <<held, io>>

GcCopy ==
    /\ gc.pc = "zone" /\ gc_inflight_io_cnt < MaxCopies
    /\ io' = [io EXCEPT !.read = @ + 1]
    /\ UNCHANGED <<held, gc, zone>>

GcZoneEnd ==
    /\ gc.pc = "zone"
    /\ zone' = [zone EXCEPT !.state = "walked"]
    /\ gc' = [gc EXCEPT !.pc = "test"]
    /\ UNCHANGED <<held, io>>

GcExit ==
    /\ gc.pc = "exiting"
    /\ held' = held \ {"gc_timer"}
    /\ gc' = [gc EXCEPT !.pc = "gone", !.exit = FALSE]
    /\ UNCHANGED <<zone, io>>

GcThread ==
    /\ GcBorn \/ GcLoop \/ GcSleeps \/ GcVictim \/ GcCopy \/ GcZoneEnd \/ GcExit
    /\ UNCHANGED <<ctl, map, flags, zs, rt>>

-----------------------------------------------------------------------------
(* GC I/O, the work queues and their timers.                               *)

\* lbz_gc_read_endio: list the copy and start the worker after LBZ_GC_WRITE_DELAY.
GcReadEnds ==
    /\ io.read > 0
    /\ \/ /\ io' = [io EXCEPT !.read = @ - 1, !.list = @ + 1]
          /\ rt' = [rt EXCEPT !.pend = IF @ = "no" THEN "delayed" ELSE @]
          /\ UNCHANGED flags
       \/ /\ io' = [io EXCEPT !.read = @ - 1]
          /\ flags' = [flags EXCEPT !.faulty = TRUE]
          /\ UNCHANGED rt
    /\ UNCHANGED <<ctl, held, map, gc, zone, zs>>

GcWriteEnds ==
    /\ io.write > 0
    /\ io' = [io EXCEPT !.write = @ - 1]
    /\ flags' \in {flags, [flags EXCEPT !.faulty = TRUE]}
    /\ UNCHANGED <<ctl, held, map, gc, zone, zs, rt>>

\* __retry_timer_fn, or the end of the delay.
RetryTimer ==
    /\ rt.pend = "delayed" \/ ("retry_timer" \in held /\ rt.pend = "no")
    /\ rt' = [rt EXCEPT !.pend = "queued"]
    /\ UNCHANGED <<ctl, held, map, flags, gc, zone, zs, io>>

\* retry_wk_fn: the user's write is submitted, GC's copies are spliced off.
RetryStart ==
    /\ rt.pend = "queued" /\ ~rt.run
    /\ rt' = [pend |-> "no", run |-> ~Halted, left |-> IF Halted THEN 0 ELSE io.list]
    /\ io' = IF Halted THEN io
             ELSE [io EXCEPT !.list = 0, !.user = IF @ = "list" THEN "device" ELSE @]
    /\ UNCHANGED <<ctl, held, map, flags, gc, zone, zs>>

\* Mutant: a copy is dispatched and kept on the list.
RetryCopy_KeepsTask ==
    /\ rt.run /\ rt.left > 0
    /\ IF flags.faulty
       THEN ctl' = [ctl EXCEPT !.mode = "oops"] /\ UNCHANGED <<rt, io>>
       ELSE /\ io' = [io EXCEPT !.write = @ + 1]
            /\ UNCHANGED <<ctl, rt>>
    /\ UNCHANGED <<held, map, flags, gc, zone, zs>>

\* A copy is dispatched, or found to be obsolete (-EEXIST).  On a device that
\* became faulty meanwhile it fails with -EIO: BUG().
RetryCopy ==
    /\ rt.run /\ rt.left > 0
    /\ IF flags.faulty
       THEN ctl' = [ctl EXCEPT !.mode = "oops"] /\ UNCHANGED <<rt, io>>
       ELSE /\ rt' = [rt EXCEPT !.left = @ - 1]
            /\ io' \in {[io EXCEPT !.write = @ + 1], io}
            /\ UNCHANGED ctl
    /\ UNCHANGED <<held, map, flags, gc, zone, zs>>

RetryEnd ==
    /\ rt.run /\ rt.left = 0
    /\ rt' = [rt EXCEPT !.run = FALSE]
    /\ UNCHANGED <<ctl, held, map, flags, gc, zone, zs, io>>

RetryWork == RetryStart \/ RetryCopy \/ RetryEnd

\* __zs_timer_fn.
ZsTimer ==
    /\ "zs_timer" \in held /\ zs = "idle"
    /\ zs' = "queued"
    /\ UNCHANGED <<ctl, held, map, flags, gc, zone, rt, io>>

ZsStart ==
    /\ zs = "queued"
    /\ zs' = IF Halted THEN "idle" ELSE "run"
    /\ UNCHANGED <<ctl, held, map, flags, gc, zone, rt, io>>

\* A zone GC has emptied is reset, and lbz_complete_one_zone called on gc_ctx.
Emptied == zone.state = "walked" /\ gc_inflight_io_cnt = 0

ZsEnd ==
    /\ zs = "run"
    /\ zs' = "idle"
    /\ zone' = IF Emptied THEN [zone EXCEPT !.state = "none"] ELSE zone
    /\ UNCHANGED <<ctl, held, map, flags, gc, rt, io>>

ZoneStateWork == ZsStart \/ ZsEnd

-----------------------------------------------------------------------------

Ended == ctl.mode \in {"unloaded", "oops"}

Running ==
    \/ lbz_create_device \/ Control \/ CreateFails \/ ReportFails \/ lbz_dev_exit
    \/ open_dev \/ release_dev \/ UserIo \/ UserIoEnds \/ read_lbz_dev_proc \/ ReadEnds
    \/ GcThread \/ GcReadEnds \/ GcWriteEnds
    \/ RetryTimer \/ RetryWork \/ ZsTimer \/ ZoneStateWork

Next == (~Ended /\ Running) \/ (Ended /\ UNCHANGED vars)

Spec == Init /\ [][Next]_vars

\* Threads, timers and work items run, readers leave, and I/O ends.  Nobody has
\* to create, open, close or remove a device.
Fairness ==
    /\ WF_vars(~Ended /\ Control)
    /\ WF_vars(~Ended /\ ReadEnds)
    /\ WF_vars(~Ended /\ GcThread)
    /\ WF_vars(~Ended /\ GcZoneEnd /\ UNCHANGED <<ctl, map, flags, zs, rt>>)
    /\ WF_vars(~Ended /\ UserIoEnds)
    /\ WF_vars(~Ended /\ GcReadEnds)
    /\ WF_vars(~Ended /\ GcWriteEnds)
    /\ WF_vars(~Ended /\ RetryTimer)
    /\ WF_vars(~Ended /\ RetryWork)
    /\ WF_vars(~Ended /\ ZsTimer)
    /\ WF_vars(~Ended /\ ZoneStateWork)

FairSpec == Spec /\ Fairness

-----------------------------------------------------------------------------
(* Properties.                                                             *)

\* What each part of the driver that is running may dereference in its next step.
Touched ==
    UNION {
        IF gc.pc \in {"loop", "sleep", "exiting"} THEN {"dev", "gc_ctx", "gc_thread"} ELSE {},
        IF gc.pc = "test" THEN {"dev", "gc_ctx", "zmd"} ELSE {},
        IF gc.pc = "zone" THEN {"dev", "gc_ctx", "zmd", "zones", "nat_sit", "iosched"} ELSE {},
        IF zs # "idle" THEN {"dev", "zmd", "zs_wq"} ELSE {},
        IF zs = "run" THEN {"zones"} ELSE {},
        IF zs = "run" /\ Emptied THEN {"gc_ctx", "gc_thread"} ELSE {},
        IF rt.pend # "no" \/ rt.run THEN {"dev", "iosched", "retry_wq"} ELSE {},
        IF rt.left > 0 \/ io.write > 0
        THEN {"dev", "iosched", "zmd", "zones", "mapping", "nodes", "gc_ctx", "nat_sit"} ELSE {},
        IF io.read > 0 THEN {"dev", "iosched", "retry_wq", "zones"} ELSE {},
        IF io.user # "none" THEN {"dev", "iosched", "zmd", "zones", "mapping", "nodes", "nat_sit"}
                            ELSE {},
        IF "gc_timer" \in held THEN {"gc_ctx", "gc_thread"} ELSE {},
        IF "zs_timer" \in held THEN {"zmd", "zs_wq"} ELSE {},
        IF "retry_timer" \in held THEN {"iosched", "retry_wq"} ELSE {},
        IF flags.reader THEN {"dev", "iosched", "gc_ctx", "nat_sit", "zmd", "zones"} ELSE {}}

\* Nothing that runs uses a component before it exists or after it was freed: the
\* order in which lbz_create_device and its error labels, and lbz_remove_device
\* acquire and release.
NoUseAfterFree == Touched \subseteq held

\* When no device exists - after a failed lbz_create_device, whatever step
\* failed, and when the module is unloaded - all memory is freed (the BUG_ON in
\* lbz_dev_exit) and no thread, timer, queue, disk or map node is left.  What the
\* code does leave is the claim on phy_bdev, after a failure, and bio_split.
NothingLeft ==
    ctl.mode = "unloaded" \/ (ctl.mode = "idle" /\ "listed" \notin held) =>
        held \subseteq {"bdev", "bioset"} /\ map.root = {} /\ map.leaves = {}

\* While the map exists every block below max_blkid has an entry of its own.
EveryBlockHasEntry == "nodes" \in held => OwnEntry(map.root, map.leaves, map.max)

\* When lbz_remove_device stops waiting, I/O is complete and stays so.
IoCompleteAfterWait ==
    ctl.mode = "remove" /\ ctl.todo # <<>> /\ Now # "wait" =>
        gc_inflight_io_cnt = 0 /\ io.user = "none"

\* I/O that nobody submits any more: the worker returns at once on a faulty device.
StuckIo == flags.faulty /\ (io.list > 0 \/ io.user = "list")

\* A GC thread that was stopped before it ran never clears LBZ_GC_STAT_EXIT.
StillBorn == gc.pc = "gone" /\ gc.exit

\* Creation, its unwinding and removal end, unless one of the two waits above
\* never does.
ControlEnds ==
    ctl.mode \in {"create", "unwind", "remove"} ~>
        (ctl.mode \in {"idle", "unloaded", "oops"} \/ StuckIo \/ StillBorn)
=============================================================================
