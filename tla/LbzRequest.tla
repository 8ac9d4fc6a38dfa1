----------------------------- MODULE LbzRequest -----------------------------
(***************************************************************************)
(* lbz-request.c and the part of lbz-io-scheduler.c that sees bios: how a  *)
(* user bio is admitted, split into parts of one block, how each part      *)
(* becomes a task, waits, fails or reaches the device, and how the last    *)
(* part to end completes the user's bio.                                   *)
(*                                                                         *)
(* Part p = <<b, i>> is the i-th block of bio b.  The last part is the     *)
(* user bio itself, so its bi_status is the status the user gets.  GC and  *)
(* the zones are module Lbz; here they are the number of blocks that can   *)
(* be allocated (room) and the promise that GC makes room again.           *)
(***************************************************************************)
EXTENDS Integers, Sequences, FiniteSets

CONSTANTS
    Bios,           \* user bios
    Blks,           \* logical blocks
    MaxParts,       \* bound: blocks of a bio
    Shapes,         \* the bios users submit: operation, first block, number of
                    \* blocks, flush flag, and whether the block is in the cp area
    Mapped0,        \* blocks written before
    Room,           \* bound: blocks GC frees at a time
    MaxErrors,      \* bound: commands the device fails
    MaxMetaErrors,  \* bound: failures of __add_integrity
    NULL

Shape == [op : {"write", "read"}, start : Blks, blocks : 0 .. MaxParts,
          flush : BOOLEAN, cp : BOOLEAN]

ASSUME RequestAssumption ==
    /\ Blks \subseteq Nat /\ Mapped0 \subseteq Blks
    /\ MaxParts \in Nat \ {0} /\ Room \in Nat \ {0}
    /\ MaxErrors \in Nat /\ MaxMetaErrors \in Nat
    /\ Shapes \subseteq Shape
    /\ \A s \in Shapes : \A k \in 1 .. s.blocks : s.start + k - 1 \in Blks
    /\ NULL \notin Bios \X (1 .. MaxParts)
    /\ IsFiniteSet(Bios)

VARIABLES
    bio,        \* user bios
    ctx,        \* struct lbz_long_context of each bio
    part,       \* the parts: bi_status of a split bio, its task, its next step
    tree,       \* task_tree: the part that owns each block
    pending,    \* lbz_user_pending
    wk,         \* retry_wk_fn: the list it spliced off
    inflight,   \* user_write / user_read _inflight_io_cnt
    mapped,     \* blocks the forward map holds
    room,       \* blocks that can be allocated
    dev         \* faulty flag, errors so far, and the oops the kernel ended in

vars == <<bio, ctx, part, tree, pending, wk, inflight, mapped, room, dev>>

Part == Bios \X (1 .. MaxParts)

BioRec == [pc : {"new", "split", "wait", "done"}, op : {"write", "read"}, start : Blks \cup {NULL},
           parts : 0 .. MaxParts, next : 1 .. MaxParts + 1, status : {"OK", "ERR"},
           admitted : BOOLEAN]

PartPc == {"none", "insert", "alloc", "queued", "device", "error", "dec", "finish", "done"}

PartRec == [pc : PartPc, by : {"user", "retry", "device"}, err : BOOLEAN,
            status : {"INIT", "ALLOC_RES", "IO_WRITING", "DISPATCH"}, mapped : BOOLEAN]

NoBio == [pc |-> "new", op |-> "read", start |-> NULL, parts |-> 0, next |-> 1,
          status |-> "OK", admitted |-> FALSE]
NoPart == [pc |-> "none", by |-> "user", err |-> FALSE, status |-> "INIT", mapped |-> FALSE]
NoCtx == [live |-> FALSE, remaining |-> 0]

TypeOK ==
    /\ bio \in [Bios -> BioRec]
    /\ ctx \in [Bios -> [live : BOOLEAN, remaining : Int]]
    /\ part \in [Part -> PartRec]
    /\ tree \in [Blks -> Part \cup {NULL}]
    /\ pending \in Seq(Part)
    /\ wk \in Seq(Part)
    /\ inflight \in [write : Int, read : Int]
    /\ mapped \subseteq Blks
    /\ room \in 0 .. Room
    /\ dev \in [faulty : BOOLEAN, errors : 0 .. MaxErrors, meta : 0 .. MaxMetaErrors,
                oops : BOOLEAN]

Init ==
    /\ bio = [b \in Bios |-> NoBio]
    /\ ctx = [b \in Bios |-> NoCtx]
    /\ part = [p \in Part |-> NoPart]
    /\ tree = [x \in Blks |-> NULL]
    /\ pending = <<>> /\ wk = <<>>
    /\ inflight = [write |-> 0, read |-> 0]
    /\ mapped = Mapped0
    /\ room = Room
    /\ dev = [faulty |-> FALSE, errors |-> 0, meta |-> 0, oops |-> FALSE]

-----------------------------------------------------------------------------
(* lbz_dev_submit_bio.                                                     *)

IsWrite(p) == bio[p[1]].op = "write"
BlkOf(p)   == bio[p[1]].start + p[2] - 1

\* The last part is the user bio: bi_status is shared with the whole.
IsUserBio(p) == p[2] = bio[p[1]].parts
BiStatus(p)  == IF IsUserBio(p) THEN bio[p[1]].status = "ERR" ELSE part[p].err

\* Parts being worked on by the submitter of b, or by the retry worker.
Active == PartPc \ {"none", "queued", "device", "done"}
SubmitterFree(b) == \A i \in 1 .. MaxParts :
                        part[<<b, i>>].by = "user" => part[<<b, i>>].pc \notin Active
WorkerFree == \A p \in Part : part[p].by = "retry" => part[p].pc \notin Active

\* A flush without data, any bio without data, and every bio on a faulty device
\* is completed at once, with success.
CompleteAtOnce(b, s) ==
    /\ s.blocks = 0 \/ (dev.faulty /\ ~(s.flush /\ s.cp))
    /\ bio' = [bio EXCEPT ![b] = [NoBio EXCEPT !.pc = "done", !.op = s.op, !.start = s.start]]
    /\ UNCHANGED ctx

\* Mutant: remaining starts at 0, as if the user bio were not a part of its own.
Admit_CountsSplitsOnly(b, s) ==
    LET n == IF s.flush /\ s.cp THEN 1 ELSE s.blocks IN
    /\ s.blocks > 0 /\ (dev.faulty => s.flush /\ s.cp)
    /\ bio' = [bio EXCEPT ![b] = [NoBio EXCEPT !.pc = "split", !.op = s.op, !.start = s.start,
                                               !.parts = n, !.admitted = TRUE]]
    /\ ctx' = [ctx EXCEPT ![b] = [live |-> n > 1, remaining |-> 0]]

\* A flush of a checkpoint block goes to the scheduler whole and unchecked;
\* another bio longer than a block gets a context with remaining = 1.
Admit(b, s) ==
    LET n == IF s.flush /\ s.cp THEN 1 ELSE s.blocks IN
    /\ s.blocks > 0 /\ (dev.faulty => s.flush /\ s.cp)
    /\ bio' = [bio EXCEPT ![b] = [NoBio EXCEPT !.pc = "split", !.op = s.op, !.start = s.start,
                                               !.parts = n, !.admitted = TRUE]]
    /\ ctx' = [ctx EXCEPT ![b] = [live |-> n > 1, remaining |-> IF n > 1 THEN 1 ELSE 0]]

lbz_dev_submit_bio(b, s) ==
    /\ bio[b].pc = "new"
    /\ CompleteAtOnce(b, s) \/ Admit(b, s)
    /\ UNCHANGED <<part, tree, pending, wk, inflight, mapped, room, dev>>

\* The next part goes to lbz_submit_io_to_iosched: a write gets a task; a read
\* of a mapped block is sent to the device, another one ends at once.
SubmitPart(b) ==
    LET i == bio[b].next
        p == <<b, i>>
        last == i = bio[b].parts
        pc == IF bio[b].op = "write" THEN "insert"
              ELSE IF bio[b].start + i - 1 \in mapped THEN "device" ELSE "error"
    IN /\ bio[b].pc = "split" /\ SubmitterFree(b)
       /\ bio' = [bio EXCEPT ![b].next = i + 1, ![b].pc = IF last THEN "wait" ELSE "split"]
       /\ ctx' = IF last THEN ctx ELSE [ctx EXCEPT ![b].remaining = @ + 1]
       /\ part' = [part EXCEPT ![p].pc = pc]
       /\ inflight' = IF pc = "insert" THEN [inflight EXCEPT !.write = @ + 1]
                      ELSE IF pc = "device" THEN [inflight EXCEPT !.read = @ + 1] ELSE inflight
       /\ UNCHANGED <<tree, pending, wk, mapped, room, dev>>

-----------------------------------------------------------------------------
(* __submit_write_task, run by the submitter or by the retry worker.       *)

\* -EAGAIN: wait for the retry worker.
Requeue(p) ==
    /\ part' = [part EXCEPT ![p].pc = "queued"]
    /\ pending' = Append(pending, p)

Insert(p) ==
    /\ part[p].pc = "insert"
    /\ \/ /\ tree[BlkOf(p)] = NULL
          /\ tree' = [tree EXCEPT ![BlkOf(p)] = p]
          /\ part' = [part EXCEPT ![p].pc = "alloc", ![p].status = "ALLOC_RES"]
          /\ UNCHANGED pending
       \/ tree[BlkOf(p)] # NULL /\ Requeue(p) /\ UNCHANGED tree
    /\ UNCHANGED <<bio, ctx, wk, inflight, mapped, room, dev>>

\* Part p ends with bi_status set if failed; its end_io is next.  An error on the
\* last part is an error on the user bio.
EndsWith(p, failed, rec) ==
    /\ part' = [part EXCEPT ![p] = [rec EXCEPT !.pc = "error", !.err = failed /\ ~IsUserBio(p)]]
    /\ bio' = IF failed /\ IsUserBio(p) THEN [bio EXCEPT ![p[1]].status = "ERR"] ELSE bio

\* lbz_write_io_endio / lbz_read_io_endio up to __unhook_io: the map, or the
\* faulty flag.
Unhook(p, failed, rec) ==
    /\ EndsWith(p, failed, [rec EXCEPT !.mapped = IsWrite(p) /\ ~failed])
    /\ mapped' = IF IsWrite(p) /\ ~failed THEN mapped \cup {BlkOf(p)} ELSE mapped

\* -EIO from lbz_zone_alloc_res: leave the tree; bio_endio runs the bio's own
\* end_io, then the task is put.
AllocEio(p) ==
    /\ dev.faulty
    /\ tree' = [tree EXCEPT ![BlkOf(p)] = NULL]
    /\ EndsWith(p, TRUE, part[p])
    /\ UNCHANGED <<pending, mapped, room, dev>>

\* No block: keep the tree entry, ask for GC, wait.
AllocEagain(p) ==
    /\ ~dev.faulty /\ room = 0
    /\ Requeue(p)
    /\ UNCHANGED <<bio, tree, mapped, room, dev>>

\* Mutant: lbz_zone_alloc_res hands out a block it does not have.
AllocDispatch_Overcommits(p) ==
    /\ ~dev.faulty
    /\ room' = room - 1
    /\ part' = [part EXCEPT ![p].pc = "device", ![p].status = "DISPATCH"]
    /\ UNCHANGED <<bio, tree, pending, mapped, dev>>

\* A block, the hook, and __add_integrity: the bio goes to the device.
AllocDispatch(p) ==
    /\ ~dev.faulty /\ room > 0
    /\ room' = room - 1
    /\ part' = [part EXCEPT ![p].pc = "device", ![p].status = "DISPATCH"]
    /\ UNCHANGED <<bio, tree, pending, mapped, dev>>

\* The same with __add_integrity failing: the device is faulty, integrity_buf
\* keeps the error pointer, and bio_endio runs lbz_write_io_endio in place.
AllocMetaFails(p) ==
    /\ ~dev.faulty /\ room > 0 /\ dev.meta < MaxMetaErrors
    /\ room' = room - 1
    /\ dev' = [dev EXCEPT !.faulty = TRUE, !.meta = @ + 1]
    /\ Unhook(p, TRUE, [part[p] EXCEPT !.status = "IO_WRITING"])
    /\ UNCHANGED <<tree, pending>>

Alloc(p) ==
    /\ part[p].pc = "alloc"
    /\ AllocEio(p) \/ AllocEagain(p) \/ AllocDispatch(p) \/ AllocMetaFails(p)
    /\ UNCHANGED <<ctx, wk, inflight>>

-----------------------------------------------------------------------------
(* The device and the completion handlers.                                 *)

\* Mutant: an I/O error does not make the device faulty.
DeviceEnds_NotFaulty(p, fails) ==
    /\ part[p].pc = "device"
    /\ Unhook(p, fails \/ BiStatus(p), [part[p] EXCEPT !.by = "device"])
    /\ dev' = [dev EXCEPT !.errors = IF fails THEN @ + 1 ELSE @]
    /\ UNCHANGED <<ctx, tree, pending, wk, inflight, room>>

\* The device ends a command, with an error or not, and calls the handler.  The
\* last part finds in bi_status what another part may have put there meanwhile.
DeviceEnds(p, fails) ==
    /\ part[p].pc = "device"
    /\ Unhook(p, fails \/ BiStatus(p), [part[p] EXCEPT !.by = "device"])
    /\ dev' = [dev EXCEPT !.errors = IF fails THEN @ + 1 ELSE @,
                          !.faulty = @ \/ fails \/ BiStatus(p)]
    /\ UNCHANGED <<ctx, tree, pending, wk, inflight, room>>

\* What follows the bio's own end_io: a task or a read in flight is taken down;
\* a read that needed no device is over.
AfterEnd(p) == IF IsWrite(p) \/ part[p].by = "device" THEN "finish" ELSE "done"

\* Mutant: the error of a part that is not the last is forgotten.
CopyError_Forgotten(p) ==
    LET b == p[1] IN
    /\ part[p].pc = "error"
    /\ \/ /\ bio[b].parts > 1
          /\ part' = [part EXCEPT ![p].pc = "dec"]
          /\ UNCHANGED bio
       \/ /\ bio[b].parts = 1
          /\ bio' = [bio EXCEPT ![b].pc = "done"]
          /\ part' = [part EXCEPT ![p].pc = AfterEnd(p)]
    /\ UNCHANGED <<ctx, tree, pending, wk, inflight, mapped, room, dev>>

\* lbz_long_bio_endio, first the status.  A bio of one part has no context: its
\* own end_io completes it.
CopyError(p) ==
    LET b == p[1] IN
    /\ part[p].pc = "error"
    /\ \/ /\ bio[b].parts > 1
          /\ part' = [part EXCEPT ![p].pc = "dec"]
          /\ bio' = IF BiStatus(p) THEN [bio EXCEPT ![b].status = "ERR"] ELSE bio
       \/ /\ bio[b].parts = 1
          /\ bio' = [bio EXCEPT ![b].pc = "done"]
          /\ part' = [part EXCEPT ![p].pc = AfterEnd(p)]
    /\ UNCHANGED <<ctx, tree, pending, wk, inflight, mapped, room, dev>>

Uncounted(p) == IF IsWrite(p) THEN [inflight EXCEPT !.write = @ - 1]
                              ELSE [inflight EXCEPT !.read = @ - 1]

\* Mutant: the in-flight count drops when the part ends, before the task has
\* left the tree.
DecRemaining_CountsToo(p) ==
    LET b == p[1]
        left == ctx[b].remaining - 1
    IN /\ part[p].pc = "dec"
       /\ ctx' = [ctx EXCEPT ![b] = [live |-> @.live /\ left # 0, remaining |-> left]]
       /\ bio' = IF left = 0 THEN [bio EXCEPT ![b].pc = "done"] ELSE bio
       /\ part' = [part EXCEPT ![p].pc = AfterEnd(p)]
       /\ inflight' = Uncounted(p)
       /\ UNCHANGED <<tree, pending, wk, mapped, room, dev>>

\* Then the count: whoever brings it to zero completes the user's bio and
\* frees the context.
DecRemaining(p) ==
    LET b == p[1]
        left == ctx[b].remaining - 1
    IN /\ part[p].pc = "dec"
       /\ ctx' = [ctx EXCEPT ![b] = [live |-> @.live /\ left # 0, remaining |-> left]]
       /\ bio' = IF left = 0 THEN [bio EXCEPT ![b].pc = "done"] ELSE bio
       /\ part' = [part EXCEPT ![p].pc = AfterEnd(p)]
       /\ UNCHANGED <<tree, pending, wk, inflight, mapped, room, dev>>

\* The task leaves the tree (unless it did when allocation failed) and is
\* destroyed, and the count drops.  task_destroy clears and frees whatever
\* integrity_buf holds: an error pointer if __add_integrity failed.
Finish(p) ==
    /\ part[p].pc = "finish"
    /\ tree' = [x \in Blks |-> IF tree[x] = p THEN NULL ELSE tree[x]]
    /\ dev' = [dev EXCEPT !.oops = part[p].status = "IO_WRITING"]
    /\ part' = [part EXCEPT ![p].pc = "done"]
    /\ inflight' = Uncounted(p)
    /\ UNCHANGED <<bio, ctx, pending, wk, mapped, room>>

-----------------------------------------------------------------------------
(* retry_wk_fn, and GC as seen from here.                                  *)

\* On a faulty device the worker returns at once.
RetryStart ==
    /\ wk = <<>> /\ WorkerFree /\ ~dev.faulty /\ pending # <<>>
    /\ wk' = pending /\ pending' = <<>>
    /\ UNCHANGED <<bio, ctx, part, tree, inflight, mapped, room, dev>>

\* Mutant: a retried task starts over, whatever it had reached.
RetryNext_StartsOver ==
    LET p == Head(wk) IN
    /\ wk # <<>> /\ WorkerFree
    /\ part' = [part EXCEPT ![p].by = "retry", ![p].pc = "insert"]
    /\ wk' = Tail(wk)
    /\ UNCHANGED <<bio, ctx, tree, pending, inflight, mapped, room, dev>>

RetryNext ==
    LET p == Head(wk) IN
    /\ wk # <<>> /\ WorkerFree
    /\ part' = [part EXCEPT ![p].by = "retry",
                            ![p].pc = IF part[p].status = "INIT" THEN "insert" ELSE "alloc"]
    /\ wk' = Tail(wk)
    /\ UNCHANGED <<bio, ctx, tree, pending, inflight, mapped, room, dev>>

\* External: emergency GC ends a shortage (WritesComplete of module Lbz).
Reclaim ==
    /\ room = 0 /\ ~dev.faulty
    /\ room' = Room
    /\ UNCHANGED <<bio, ctx, part, tree, pending, wk, inflight, mapped, dev>>

-----------------------------------------------------------------------------

DeviceFails(p) == dev.errors < MaxErrors /\ DeviceEnds(p, TRUE)

PartStep(p) ==
    \/ Insert(p) \/ Alloc(p) \/ DeviceEnds(p, FALSE) \/ CopyError(p) \/ DecRemaining(p)
    \/ Finish(p)

Running ==
    \/ \E b \in Bios, s \in Shapes : lbz_dev_submit_bio(b, s)
    \/ \E b \in Bios : SubmitPart(b)
    \/ \E p \in Part : PartStep(p) \/ DeviceFails(p)
    \/ RetryStart \/ RetryNext \/ Reclaim

\* A part queued on a faulty device: nobody submits it again.
Stuck(b) == dev.faulty /\ \E i \in 1 .. MaxParts : part[<<b, i>>].pc = "queued"

\* The only ways to stop: all bios are completed or stuck, or the kernel crashed.
Stopped ==
    /\ dev.oops \/ \A b \in Bios : bio[b].pc = "done" \/ Stuck(b)
    /\ UNCHANGED vars

Next == (~dev.oops /\ Running) \/ Stopped

Spec == Init /\ [][Next]_vars

\* The kernel runs every submitter, handler and work item that is ready; the
\* device ends every command; GC makes room.  Nobody has to submit a bio.
Fairness ==
    /\ \A b \in Bios : WF_vars(~dev.oops /\ SubmitPart(b))
    /\ \A p \in Part : WF_vars(~dev.oops /\ PartStep(p))
    /\ WF_vars(~dev.oops /\ (RetryStart \/ RetryNext))
    /\ WF_vars(~dev.oops /\ Reclaim)

FairSpec == Spec /\ Fairness

-----------------------------------------------------------------------------
(* Properties.                                                             *)

\* The part has run lbz_long_bio_endio.
Ended(p) == part[p].pc \in {"finish", "done"}

\* The user's bio is completed by its last part to end and not before, and a
\* handler that is about to use the context finds it alive.
CompletedByLast ==
    \A b \in Bios :
        /\ bio[b].pc = "done" => \A i \in 1 .. bio[b].parts : Ended(<<b, i>>)
        /\ bio[b].pc # "done" /\ bio[b].parts > 0 => \E i \in 1 .. bio[b].parts : ~Ended(<<b, i>>)
        /\ \A i \in 1 .. bio[b].parts :
               bio[b].parts > 1 /\ part[<<b, i>>].pc \in {"error", "dec"} => ctx[b].live

\* An admitted bio reported as successful had no failing part, and if it was a
\* write every part is in the map.
OkMeansAllParts ==
    \A b \in Bios : bio[b].pc = "done" /\ bio[b].admitted /\ bio[b].status = "OK" =>
        \A i \in 1 .. bio[b].parts : /\ ~part[<<b, i>>].err
                                     /\ bio[b].op = "write" => part[<<b, i>>].mapped

\* A user sees an error only from a device that is faulty by then, so that no
\* later request runs into what the failed one left behind.
ErrorMeansFaulty == \A b \in Bios : bio[b].pc = "done" /\ bio[b].status = "ERR" => dev.faulty

\* When both in-flight counters are zero, every bio is completed, unless its
\* submitter is still at work, and no task is in the tree or on a list: what
\* release_dev and lbz_remove_device rely on when they wait for the counters.
DrainedMeansIdle ==
    inflight.write = 0 /\ inflight.read = 0 =>
        /\ \A b \in Bios : bio[b].pc = "wait" => ~SubmitterFree(b)
        /\ \A x \in Blks : tree[x] = NULL
        /\ pending = <<>> /\ wk = <<>>

\* task_destroy frees buffers only, never an error pointer.
NoBadFree == ~dev.oops

\* Every bio is completed, however its parts conflict, wait and fail; the one
\* exception is a part that is queued when the device has become faulty.
EveryBioEnds == \A b \in Bios : bio[b].pc \in {"split", "wait"} ~>
                    (bio[b].pc = "done" \/ Stuck(b) \/ dev.oops)
=============================================================================
