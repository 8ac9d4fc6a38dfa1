------------------------------ MODULE LbzNatSit ------------------------------
(***************************************************************************)
(* lbz-nat-sit.c in the build that frees duplicate blocks                  *)
(* (CONFIG_LBZ_NAT_SIT_FREE_SUPPORT), with the file system it is made for. *)
(*                                                                         *)
(* F2FS keeps two copies of each NAT and SIT block, in neighbouring        *)
(* segments, and writes them in turn.  A checkpoint writes the other copy  *)
(* of each block that changed (transaction children), waits, and commits   *)
(* with a flush write to the checkpoint area (the father).  When the       *)
(* father is on the device lbz frees the copies that were replaced, while  *)
(* GC may be copying the very same blocks.                                 *)
(***************************************************************************)
EXTENDS Integers, Sequences, FiniteSets, Functions

CONSTANTS
    Slots,                  \* NAT and SIT blocks of F2FS, numbered from 0
    sit_blkaddr,            \* first block of the two areas
    blocks_per_segment,
    NAT_SIT_NODE_ENTRIES,   \* entries of a page of the list
    MaxCps,                 \* bound: checkpoints
    MaxCopies,              \* bound: blocks GC copies
    MaxRules                \* bound: rules installed at run time

ASSUME NatSitAssumption ==
    /\ Slots \subseteq Nat /\ IsFiniteSet(Slots)
    /\ sit_blkaddr \in Nat /\ blocks_per_segment \in Nat \ {0}
    /\ NAT_SIT_NODE_ENTRIES \in Nat \ {0} /\ MaxCps \in Nat
    /\ MaxCopies \in Nat /\ MaxRules \in Nat

\* The areas start at an even segment, as with the addresses the tests install.
ASSUME EvenLayout ==
    sit_blkaddr % blocks_per_segment = 0 /\ (sit_blkaddr \div blocks_per_segment) % 2 = 0

\* External: where F2FS keeps the two copies of slot n.
Copy(n, side) ==
    sit_blkaddr + (2 * (n \div blocks_per_segment) + side) * blocks_per_segment
                + (n % blocks_per_segment)

Blks == {Copy(n, side) : n \in Slots, side \in {0, 1}}

\* Mutant: the partner is always sought in the next segment.
lbz_nat_sit_to_free_NextSegment(block) == block + blocks_per_segment

\* The other copy, by the parity of the segment's number.
lbz_nat_sit_to_free(block) ==
    LET segment_no == block \div blocks_per_segment
        to_free_seg == IF segment_no % 2 = 1 THEN segment_no - 1 ELSE segment_no + 1
    IN to_free_seg * blocks_per_segment + (block % blocks_per_segment)

VARIABLES
    fs,         \* F2FS: its step, slots of this checkpoint, copies in use in memory and
                \* on the device, checkpoints so far
    child,      \* the write of each slot
    father,     \* the flush write
    tx,         \* lbz_nat_sit_tx_complete: its place in the list
    pages,      \* mgmt->head: pages of blocks to free
    inflight,   \* nat_sit_inflight_writes
    copy,       \* GC copies, by block
    mapped,     \* blocks the forward map holds
    valid,      \* reverse map entries (and weight) that name each block
    faulty,
    ghost       \* kept: blocks a GC copy mapped again or a new rule forgot to free;
                \* forgot: writes in flight at the last rule; copies and rules so far

vars == <<fs, child, father, tx, pages, inflight, copy, mapped, valid, faulty, ghost>>

TaskPc == {"none", "new", "submit", "queued", "device", "count", "done"}

TypeOK ==
    /\ fs \in [pc : {"idle", "write", "commit", "halt"}, dirty : SUBSET Slots,
               cur : [Slots -> {0, 1}], disk : [Slots -> {0, 1}], cps : 0 .. MaxCps]
    /\ child \in [Slots -> [pc : TaskPc, err : BOOLEAN]]
    /\ father \in [pc : TaskPc, err : BOOLEAN, woken : BOOLEAN]
    /\ tx \in [pc : {"idle", "walk", "release"}, page : Nat, i : Nat]
    /\ pages \in Seq(Seq(Blks))
    /\ inflight \in Int
    /\ copy \in [Blks -> {"none", "write", "map", "old"}]
    /\ mapped \subseteq Blks
    /\ valid \in [Blks -> 0 .. 3]
    /\ faulty \in BOOLEAN
    /\ ghost \in [kept : SUBSET Blks, forgot : Nat, copies : 0 .. MaxCopies,
                  rules : 0 .. MaxRules]

NoTask == [pc |-> "none", err |-> FALSE]
NoFather == [pc |-> "none", err |-> FALSE, woken |-> FALSE]

\* lbz_nat_sit_add_rule on a file system just made.
Init ==
    /\ fs = [pc |-> "idle", dirty |-> {}, cur |-> [n \in Slots |-> 0],
             disk |-> [n \in Slots |-> 0], cps |-> 0]
    /\ child = [n \in Slots |-> NoTask]
    /\ father = NoFather
    /\ tx = [pc |-> "idle", page |-> 1, i |-> 1]
    /\ pages = <<>>
    /\ inflight = 0
    /\ copy = [b \in Blks |-> "none"]
    /\ mapped = {Copy(n, 0) : n \in Slots}
    /\ valid = [b \in Blks |-> IF b \in mapped THEN 1 ELSE 0]
    /\ faulty = FALSE
    /\ ghost = [kept |-> {}, forgot |-> 0, copies |-> 0, rules |-> 0]

-----------------------------------------------------------------------------
(* F2FS (external), as lbz-request.c relies on it: "f2fs had waited".      *)

Target(n) == Copy(n, fs.cur[n])

\* A checkpoint switches to the other copy of each changed slot and writes it.
CheckpointStart ==
    /\ fs.pc = "idle" /\ fs.cps < MaxCps /\ ~faulty
    /\ \E dirty \in SUBSET Slots \ {{}} :
        /\ \A n \in Slots : child[n].pc \in {"none", "done"}
        /\ fs' = [fs EXCEPT !.pc = "write", !.dirty = dirty, !.cps = @ + 1,
                            !.cur = [n \in Slots |-> IF n \in dirty THEN 1 - @[n] ELSE @[n]]]
        /\ child' = [n \in Slots |-> IF n \in dirty THEN [NoTask EXCEPT !.pc = "new"]
                                                    ELSE NoTask]
    /\ UNCHANGED <<father, tx, pages, inflight, copy, mapped, valid, faulty, ghost>>

BioEnded(n) == child[n].pc \in {"count", "done"}

\* All children have ended: commit, or stop after an error.
Commit ==
    /\ fs.pc = "write" /\ \A n \in fs.dirty : BioEnded(n)
    /\ father.pc \in {"none", "done"}
    /\ IF \E n \in fs.dirty : child[n].err
       THEN fs' = [fs EXCEPT !.pc = "halt"] /\ UNCHANGED father
       ELSE /\ fs' = [fs EXCEPT !.pc = "commit"]
            /\ father' = [NoFather EXCEPT !.pc = "new"]
    /\ UNCHANGED <<child, tx, pages, inflight, copy, mapped, valid, faulty, ghost>>

-----------------------------------------------------------------------------
(* Children.                                                               *)

\* lbz_dev_submit_bio drops the write on a faulty device, with status success.
\* Else lbz_submit_io_to_iosched counts it.
ChildSubmit(n) ==
    /\ child[n].pc = "new"
    /\ child' = [child EXCEPT ![n].pc = IF faulty THEN "done" ELSE "submit"]
    /\ inflight' = IF faulty THEN inflight ELSE inflight + 1
    /\ UNCHANGED <<fs, father, tx, pages, copy, mapped, valid, faulty, ghost>>

\* Mutant: a new page is not linked to the full one.
lbz_nat_sit_add_blkid_NotLinked(blkid) ==
    LET last == Len(pages) IN
    pages' = IF last = 0 \/ Len(pages[last]) = NAT_SIT_NODE_ENTRIES
             THEN <<<<blkid>>>>
             ELSE [pages EXCEPT ![last] = Append(@, blkid)]

\* lbz_nat_sit_add_blkid: a new page when the list is empty or its last is full.
lbz_nat_sit_add_blkid(blkid) ==
    LET last == Len(pages) IN
    pages' = IF last = 0 \/ Len(pages[last]) = NAT_SIT_NODE_ENTRIES
             THEN Append(pages, <<blkid>>)
             ELSE [pages EXCEPT ![last] = Append(@, blkid)]

\* GC copies the same block: wait for the retry worker, which does nothing on a
\* faulty device.
ChildWaits(n) ==
    /\ child[n].pc = "submit" /\ copy[Target(n)] # "none"
    /\ child' = [child EXCEPT ![n].pc = "queued"]
    /\ UNCHANGED <<fs, father, tx, pages, inflight, copy, mapped, valid, faulty, ghost>>

\* The write gets its block, and __add_integrity notes the copy it replaces.
ChildDispatch(n) ==
    /\ child[n].pc \in {"submit", "queued"} /\ ~faulty /\ copy[Target(n)] = "none"
    /\ lbz_nat_sit_add_blkid(lbz_nat_sit_to_free(Target(n)))
    /\ child' = [child EXCEPT ![n].pc = "device"]
    /\ UNCHANGED <<fs, father, tx, inflight, copy, mapped, valid, faulty, ghost>>

\* -EIO from the allocation, for the submitter or for a retry worker that looked
\* at the device before it became faulty.
ChildRefused(n, pc) ==
    /\ child[n].pc = pc /\ faulty /\ copy[Target(n)] = "none"
    /\ child' = [child EXCEPT ![n] = [pc |-> "count", err |-> TRUE]]
    /\ UNCHANGED <<fs, father, tx, pages, inflight, copy, mapped, valid, faulty, ghost>>

\* lbz_write_io_endio up to __unhook_io.
ChildEnds(n, fails) ==
    LET b == Target(n) IN
    /\ child[n].pc = "device"
    /\ child' = [child EXCEPT ![n] = [pc |-> "count", err |-> fails]]
    /\ IF fails THEN faulty' = TRUE /\ UNCHANGED <<mapped, valid, ghost>>
       ELSE /\ mapped' = mapped \cup {b}
            /\ ghost' = [ghost EXCEPT !.kept = @ \ {b}]
            /\ valid' = [valid EXCEPT ![b] = IF b \in mapped THEN @ ELSE @ + 1]
            /\ UNCHANGED faulty
    /\ UNCHANGED <<fs, father, tx, pages, inflight, copy>>

\* Mutant: an error path does not count down.
ChildCounted_OkOnly(n) ==
    /\ child[n].pc = "count"
    /\ child' = [child EXCEPT ![n].pc = "done"]
    /\ inflight' = IF child[n].err THEN inflight ELSE inflight - 1
    /\ UNCHANGED <<fs, father, tx, pages, copy, mapped, valid, faulty, ghost>>

\* lbz_nat_sit_complete_write, after the bio was completed.
ChildCounted(n) ==
    /\ child[n].pc = "count"
    /\ child' = [child EXCEPT ![n].pc = "done"]
    /\ inflight' = inflight - 1
    /\ UNCHANGED <<fs, father, tx, pages, copy, mapped, valid, faulty, ghost>>

-----------------------------------------------------------------------------
(* The father: __lbz_submit_flush_bio_wait.                                *)

\* A checkpoint block skips the test for a faulty device.
FatherSubmit ==
    /\ father.pc = "new"
    /\ father' = [father EXCEPT !.pc = "submit"]
    /\ inflight' = inflight + 1
    /\ UNCHANGED <<fs, child, tx, pages, copy, mapped, valid, faulty, ghost>>

FatherDispatch ==
    /\ father.pc = "submit"
    /\ father' = IF faulty THEN [father EXCEPT !.pc = "count", !.err = TRUE, !.woken = TRUE]
                           ELSE [father EXCEPT !.pc = "device"]
    /\ UNCHANGED <<fs, child, tx, pages, inflight, copy, mapped, valid, faulty, ghost>>

\* The device ends the write, and lbz_flush_bio_endio wakes the submitter.  From
\* now on the checkpoint on the device is the new one.
FatherEnds(fails) ==
    /\ father.pc = "device"
    /\ father' = [pc |-> "count", err |-> fails, woken |-> TRUE]
    /\ faulty' = (faulty \/ fails)
    /\ fs' = IF fails THEN fs ELSE [fs EXCEPT !.disk = fs.cur]
    /\ UNCHANGED <<child, tx, pages, inflight, copy, mapped, valid, ghost>>

FatherCounted ==
    /\ father.pc = "count"
    /\ father' = [father EXCEPT !.pc = "done"]
    /\ inflight' = inflight - 1
    /\ UNCHANGED <<fs, child, tx, pages, copy, mapped, valid, faulty, ghost>>

\* Mutant: the file system is told before the blocks are freed.
FlushDone_Early ==
    /\ father.woken /\ tx.pc = "idle"
    /\ father' = [father EXCEPT !.woken = FALSE]
    /\ fs' = [fs EXCEPT !.pc = IF father.err THEN "halt" ELSE "idle"]
    /\ tx' = [pc |-> "walk", page |-> 1, i |-> 1]
    /\ UNCHANGED <<child, pages, inflight, copy, mapped, valid, faulty, ghost>>

\* The submitter goes on.  After an error nothing is freed.
FlushDone ==
    /\ father.woken /\ tx.pc = "idle"
    /\ IF father.err
       THEN /\ father' = [father EXCEPT !.woken = FALSE]
            /\ fs' = [fs EXCEPT !.pc = "halt"]
            /\ UNCHANGED tx
       ELSE tx' = [pc |-> "walk", page |-> 1, i |-> 1] /\ UNCHANGED <<fs, father>>
    /\ UNCHANGED <<child, pages, inflight, copy, mapped, valid, faulty, ghost>>

\* Transaction writes between lbz_nat_sit_add_write and lbz_nat_sit_complete_write.
TxWrites ==
    Cardinality({n \in Slots : child[n].pc \in {"submit", "queued", "device", "count"}})
    + (IF father.pc \in {"submit", "device", "count"} THEN 1 ELSE 0)

Entry == pages[tx.page][tx.i]

\* Mutant: the walk does not go on to the next page.
NextEntry_SamePage == [tx EXCEPT !.pc = "walk", !.i = 1]

NextEntry == IF tx.i < Len(pages[tx.page]) THEN [tx EXCEPT !.pc = "walk", !.i = @ + 1]
                                           ELSE [pc |-> "walk", page |-> tx.page + 1, i |-> 1]

\* lbz_nat_sit_tx_complete: unmap one block, outside the task tree.
TxRemove ==
    /\ tx.pc = "walk" /\ tx.page <= Len(pages)
    /\ mapped' = mapped \ {Entry}
    /\ ghost' = [ghost EXCEPT !.kept = @ \ {Entry}]
    /\ tx' = IF Entry \in mapped THEN [tx EXCEPT !.pc = "release"] ELSE NextEntry
    /\ UNCHANGED <<fs, child, father, pages, inflight, copy, valid, faulty>>

\* Mutant: the reverse map keeps the freed block.
TxRelease_Forgotten ==
    /\ tx.pc = "release"
    /\ tx' = NextEntry
    /\ UNCHANGED <<fs, child, father, pages, inflight, copy, mapped, valid, faulty, ghost>>

\* Then invalidate the reverse map entry and release the weight.
TxRelease ==
    /\ tx.pc = "release"
    /\ valid' = [valid EXCEPT ![Entry] = @ - 1]
    /\ tx' = NextEntry
    /\ UNCHANGED <<fs, child, father, pages, inflight, copy, mapped, faulty, ghost>>

\* The list is empty again; only now bio_endio tells the file system.
TxEnd ==
    /\ tx.pc = "walk" /\ tx.page > Len(pages)
    /\ pages' = <<>>
    /\ tx' = [pc |-> "idle", page |-> 1, i |-> 1]
    /\ father' = [father EXCEPT !.woken = FALSE]
    /\ fs' = [fs EXCEPT !.pc = "idle"]
    /\ UNCHANGED <<child, inflight, copy, mapped, valid, faulty, ghost>>

\* echo s... > /proc/lbz, but not during the walk: counter and list start afresh.
lbz_nat_sit_add_rule ==
    /\ tx.pc = "idle" /\ ghost.rules < MaxRules
    /\ inflight' = 0 /\ pages' = <<>>
    /\ ghost' = [ghost EXCEPT !.rules = @ + 1, !.forgot = TxWrites,
                              !.kept = @ \cup UNION {Range(pages[k]) : k \in DOMAIN pages}]
    /\ UNCHANGED <<fs, child, father, tx, copy, mapped, valid, faulty>>

-----------------------------------------------------------------------------
(* GC copies blocks of the two areas (modules IoScheduler and Lbz).        *)

\* __submit_gc_task finds the block mapped and nobody writing it.
GcCopies(b) ==
    /\ copy[b] = "none" /\ b \in mapped /\ ~faulty /\ ghost.copies < MaxCopies
    /\ \A n \in Slots : Target(n) = b => child[n].pc \notin {"device", "count"}
    /\ copy' = [copy EXCEPT ![b] = "write"]
    /\ ghost' = [ghost EXCEPT !.copies = @ + 1]
    /\ UNCHANGED <<fs, child, father, tx, pages, inflight, mapped, valid, faulty>>

\* __gc_task_callback: first the reverse map of the new place ...
GcRmap(b) ==
    /\ copy[b] = "write"
    /\ copy' = [copy EXCEPT ![b] = IF faulty THEN "none" ELSE "map"]
    /\ valid' = IF faulty THEN valid ELSE [valid EXCEPT ![b] = @ + 1]
    /\ UNCHANGED <<fs, child, father, tx, pages, inflight, mapped, faulty, ghost>>

\* ... then the map.  "discarded and freed": a block freed meanwhile is mapped again.
GcMap(b) ==
    /\ copy[b] = "map"
    /\ mapped' = mapped \cup {b}
    /\ copy' = [copy EXCEPT ![b] = IF b \in mapped THEN "old" ELSE "none"]
    /\ ghost' = IF b \in mapped THEN ghost ELSE [ghost EXCEPT !.kept = @ \cup {b}]
    /\ UNCHANGED <<fs, child, father, tx, pages, inflight, valid, faulty>>

\* ... then the old place, if the map still held it.
GcOld(b) ==
    /\ copy[b] = "old"
    /\ valid' = [valid EXCEPT ![b] = @ - 1]
    /\ copy' = [copy EXCEPT ![b] = "none"]
    /\ UNCHANGED <<fs, child, father, tx, pages, inflight, mapped, faulty, ghost>>

-----------------------------------------------------------------------------

ChildStep(n) == ChildSubmit(n) \/ ChildWaits(n) \/ ChildDispatch(n)
                \/ ChildRefused(n, "submit") \/ ChildEnds(n, FALSE) \/ ChildCounted(n)
FatherStep   == FatherSubmit \/ FatherDispatch \/ FatherEnds(FALSE) \/ FatherCounted
Submitter    == FlushDone \/ TxRemove \/ TxRelease \/ TxEnd
GcStep(b)    == GcRmap(b) \/ GcMap(b) \/ GcOld(b)

DeviceFails == ~faulty /\ (FatherEnds(TRUE) \/ \E n \in Slots : ChildEnds(n, TRUE))

Resting == fs.pc = "halt" \/ (fs.pc = "idle" /\ fs.cps = MaxCps)

Next ==
    \/ CheckpointStart \/ Commit \/ lbz_nat_sit_add_rule
    \/ \E n \in Slots : ChildStep(n) \/ ChildRefused(n, "queued")
    \/ FatherStep \/ Submitter \/ DeviceFails
    \/ \E b \in Blks : GcCopies(b) \/ GcStep(b)
    \/ Resting /\ UNCHANGED vars

Spec == Init /\ [][Next]_vars

\* F2FS goes on with a checkpoint it has begun, the device ends every command, the
\* retry worker runs, and GC finishes its copies.
Fairness ==
    /\ WF_vars(Commit) /\ WF_vars(FatherStep) /\ WF_vars(Submitter)
    /\ \A n \in Slots : WF_vars(ChildStep(n))
    /\ \A b \in Blks : WF_vars(GcStep(b))

FairSpec == Spec /\ Fairness

-----------------------------------------------------------------------------
(* Properties.                                                             *)

\* The copies the checkpoint on the device refers to are always mapped: freeing
\* duplicates never touches what F2FS would need after a crash, whatever fails.
CheckpointReadable == \A n \in Slots : Copy(n, fs.disk[n]) \in mapped

\* Reverse map and weight agree with the map, except while a GC callback or
\* lbz_nat_sit_tx_complete, which exclude each other nowhere, is between the two.
ValidExact ==
    \A b \in Blks : valid[b] = (IF b \in mapped THEN 1 ELSE 0)
                               + (IF copy[b] \in {"map", "old"} THEN 1 ELSE 0)
                               + (IF tx.pc = "release" /\ Entry = b THEN 1 ELSE 0)

\* After a checkpoint each slot has one copy left ("half of the NAT and SIT
\* area"), unless GC copied the other one when it was freed, or a rule
\* installed in the middle dropped the list.
HalfFreed ==
    fs.pc = "idle" /\ ~faulty =>
        \A n \in Slots : LET b == Copy(n, 1 - fs.cur[n]) IN
            b \in mapped => b \in ghost.kept

\* nat_sit_inflight_writes counts the transaction writes that are not yet
\* taken down, errors included, short by those in flight at the last rule.
NatSitInflightExact == inflight = TxWrites - ghost.forgot

\* A write that nobody submits any more: the worker returns at once.
Stuck == faulty /\ \E n \in Slots : child[n].pc = "queued"

\* A checkpoint that was begun ends, unless one of its writes waits for GC when
\* the device becomes faulty.
CheckpointEnds ==
    fs.pc \in {"write", "commit"} ~> (fs.pc \in {"idle", "halt"} \/ Stuck)
=============================================================================
