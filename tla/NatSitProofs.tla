---------------------------- MODULE NatSitProofs ----------------------------
(***************************************************************************)
(* Freeing duplicates never frees a block that the checkpoint on the       *)
(* device refers to, frees every other one once, and counts its writes:    *)
(* any number of slots, segments of any size, pages of any size, GC        *)
(* copies, errors and new rules at any time.                               *)
(***************************************************************************)
EXTENDS LbzNatSit, NumberLemmas, TLAPS

Open    == {"new", "submit", "queued", "device"}
Waiting == {"new", "submit", "device"}

CpType ==
    /\ fs \in [pc : {"idle", "write", "commit", "halt"}, dirty : SUBSET Slots,
               cur : [Slots -> {0, 1}], disk : [Slots -> {0, 1}], cps : Nat]
    /\ child \in [Slots -> [pc : TaskPc, err : BOOLEAN]]
    /\ father \in [pc : TaskPc, err : BOOLEAN, woken : BOOLEAN]
    /\ tx \in [pc : {"idle", "walk", "release"}, page : Nat, i : Nat]
    /\ pages \in Seq(Seq(Blks))
    /\ faulty \in BOOLEAN

\* Writes are under way only during a checkpoint's write phase, the flush only
\* during its commit, and blocks are freed only when that is on the device.
Phases ==
    /\ \A n \in Slots : child[n].pc \in Open => fs.pc = "write" /\ n \in fs.dirty
    /\ father.pc \in Waiting => fs.pc = "commit" /\ ~father.woken
    /\ father.woken => fs.pc = "commit" /\ (~father.err => fs.disk = fs.cur)
    /\ fs.pc = "commit" => father.woken \/ father.pc \in Waiting
    /\ tx.pc # "idle" => father.woken /\ ~father.err

\* Outside the transaction memory and device agree.
Sides ==
    /\ fs.pc = "idle" => fs.cur = fs.disk /\ pages = <<>>
    /\ fs.pc = "write" => \A n \in Slots \ fs.dirty : fs.cur[n] = fs.disk[n]

\* What the transaction has written is mapped, unless something failed.
Written ==
    /\ fs.pc = "write" /\ ~faulty =>
        \A n \in fs.dirty : BioEnded(n) /\ ~child[n].err => Target(n) \in mapped
    /\ father.pc \in {"new", "submit"} /\ ~faulty => \A n \in Slots : Target(n) \in mapped
    /\ father.pc = "device" => \A n \in Slots : Target(n) \in mapped

\* The list holds only copies that are out of use once the transaction commits.
Listed ==
    \A k \in DOMAIN pages :
        /\ pages[k] # <<>>
        /\ \A j \in DOMAIN pages[k] : \E n \in Slots : pages[k][j] = Copy(n, 1 - fs.cur[n])

\* The walk is at an entry of the list, or past its end.
Walk ==
    tx.pc # "idle" =>
        /\ tx.page \in 1 .. Len(pages) + 1
        /\ tx.page <= Len(pages) => tx.i \in DOMAIN pages[tx.page]
        /\ tx.pc = "release" => tx.page <= Len(pages)

CpInv == CpType /\ Phases /\ Sides /\ Written /\ Listed /\ Walk /\ CheckpointReadable

-----------------------------------------------------------------------------
(* Where the copies are.                                                   *)

\* Segment and place in it of a copy.
LEMMA CopyPlace ==
    ASSUME NEW n \in Slots, NEW side \in {0, 1}
    PROVE  /\ Copy(n, side) \in Nat
           /\ Copy(n, side) \div blocks_per_segment
                = (sit_blkaddr \div blocks_per_segment) + 2 * (n \div blocks_per_segment) + side
           /\ Copy(n, side) % blocks_per_segment = n % blocks_per_segment
  <1> DEFINE B == blocks_per_segment
             Q == sit_blkaddr \div B
             q == n \div B
             r == n % B
             g == Q + 2 * q + side
             c == Copy(n, side)
  <1>1. B \in Nat \ {0} /\ sit_blkaddr \in Nat /\ n \in Nat /\ side \in Nat
    BY NatSitAssumption
  <1>2. Q \in Nat /\ sit_blkaddr = B * Q
    <2>1. sit_blkaddr % B = 0
      BY EvenLayout
    <2>2. Q \in Nat /\ sit_blkaddr = B * Q + (sit_blkaddr % B)
      BY <1>1, DivMod
    <2> HIDE DEF Q
    <2> QED
      BY <1>1, <2>1, <2>2
  <1>3. q \in Nat /\ r \in 0 .. B - 1
    BY <1>1, DivMod
  <1>4. c = B * Q + (2 * q + side) * B + r
    BY <1>2 DEF Copy
  <1> HIDE DEF B, Q, q, r, c
  <1>5. g \in Nat
    BY <1>1, <1>2, <1>3
  <1>6. c = B * g + r
    <2>1. B * g = B * Q + B * (2 * q + side)
      BY <1>1, <1>2, <1>3
    <2>2. B * (2 * q + side) = (2 * q + side) * B
      BY <1>1, <1>3
    <2> QED
      BY <1>1, <1>2, <1>3, <1>4, <2>1, <2>2
  <1> HIDE DEF g
  <1>7. c \in Nat /\ B * g <= c /\ c < B * (g + 1)
    <2>1. B * g \in Nat /\ B * (g + 1) = B * g + B
      BY <1>1, <1>5
    <2> QED
      BY <1>1, <1>3, <1>6, <2>1
  <1>8. c \div B = g
    BY <1>1, <1>5, <1>7, DivUnique
  <1>9. c = B * (c \div B) + (c % B) /\ c % B \in 0 .. B - 1
    BY <1>1, <1>7, DivMod
  <1>10. c % B = r
    <2> DEFINE x == c % B
    <2>1. c = B * g + x /\ x \in Int
      BY <1>1, <1>8, <1>9
    <2> HIDE DEF x
    <2>2. B * g \in Int
      BY <1>1, <1>5
    <2>3. x = r
      BY <1>3, <1>6, <2>1, <2>2
    <2> QED
      BY <2>3 DEF x
  <1> QED
    BY <1>7, <1>8, <1>10 DEF B, Q, q, r, g, c

\* No two copies share a block.
LEMMA CopyInjective ==
    ASSUME NEW n \in Slots, NEW m \in Slots, NEW s \in {0, 1}, NEW t \in {0, 1},
           Copy(n, s) = Copy(m, t)
    PROVE  n = m /\ s = t
  <1> DEFINE B == blocks_per_segment
             Q == sit_blkaddr \div B
  <1>1. B \in Nat \ {0} /\ sit_blkaddr \in Nat /\ n \in Nat /\ m \in Nat
    BY NatSitAssumption
  <1>2. Q \in Nat
    BY <1>1, DivMod
  <1>3. n \div B \in Nat /\ n = B * (n \div B) + (n % B)
    BY <1>1, DivMod
  <1>4. m \div B \in Nat /\ m = B * (m \div B) + (m % B)
    BY <1>1, DivMod
  <1>5. Q + 2 * (n \div B) + s = Q + 2 * (m \div B) + t /\ n % B = m % B
    BY CopyPlace
  <1>6. s = t /\ n \div B = m \div B
    BY <1>2, <1>3, <1>4, <1>5
  <1> QED
    BY <1>3, <1>4, <1>5, <1>6

\* lbz_nat_sit_to_free finds the other copy of the slot.
LEMMA OtherCopy ==
    ASSUME NEW n \in Slots, NEW side \in {0, 1}
    PROVE  lbz_nat_sit_to_free(Copy(n, side)) = Copy(n, 1 - side)
  <1> DEFINE B == blocks_per_segment
             Q == sit_blkaddr \div B
             q == n \div B
             c == Copy(n, side)
  <1>1. B \in Nat \ {0} /\ sit_blkaddr \in Nat /\ n \in Nat /\ 1 - side \in {0, 1}
    BY NatSitAssumption
  <1>2. Q \in Nat /\ q \in Nat /\ Q % 2 = 0
    BY <1>1, DivMod, EvenLayout
  <1>3. c \div B = Q + 2 * q + side /\ c % B = n % B
    BY CopyPlace
  <1>4. (c \div B) % 2 = side
    BY <1>2, <1>3
  <1>5. lbz_nat_sit_to_free(c) = (Q + 2 * q + (1 - side)) * B + (n % B)
    BY <1>2, <1>3, <1>4 DEF lbz_nat_sit_to_free
  <1>6. sit_blkaddr = B * Q
    BY <1>1, DivMod, EvenLayout
  <1>7. Copy(n, 1 - side) = B * Q + (2 * q + (1 - side)) * B + (n % B)
    BY <1>6 DEF Copy
  <1>8. (Q + 2 * q + (1 - side)) * B = B * Q + (2 * q + (1 - side)) * B
    BY <1>1, <1>2
  <1> QED
    BY <1>5, <1>7, <1>8

-----------------------------------------------------------------------------
(* Every step keeps CpInv.                                                 *)

\* Steps that leave alone all that CpInv speaks of.
LEMMA Untouched ==
    ASSUME CpInv, UNCHANGED <<fs, child, father, tx, pages, faulty>>, mapped \subseteq mapped'
    PROVE  CpInv'
  BY DEF CpInv, CpType, Phases, Sides, Written, Listed, Walk, CheckpointReadable, Target,
         BioEnded

\* The list grows by copies that the transaction replaces.
LEMMA ListGrows ==
    ASSUME CpType, Listed, NEW n \in Slots,
           lbz_nat_sit_add_blkid(Copy(n, 1 - fs.cur[n])), fs' = fs
    PROVE  Listed' /\ pages' \in Seq(Seq(Blks))
  <1> DEFINE b == Copy(n, 1 - fs.cur[n])
             last == Len(pages)
  <1>1. b \in Blks
    BY DEF CpType, Blks
  <1>2. pages \in Seq(Seq(Blks)) /\ fs.cur' = fs.cur /\ b = Copy(n, 1 - fs.cur[n])
    BY DEF CpType
  <1> HIDE DEF b
  <1>3. CASE pages' = Append(pages, <<b>>)
    <2>1. <<b>> \in Seq(Blks)
      BY <1>1
    <2>2. pages' \in Seq(Seq(Blks)) /\ DOMAIN pages' = 1 .. last + 1
      BY <1>2, <1>3, <2>1
    <2>3. ASSUME NEW k \in DOMAIN pages'
          PROVE  /\ pages'[k] # <<>>
                 /\ \A j \in DOMAIN pages'[k] : \E m \in Slots :
                        pages'[k][j] = Copy(m, 1 - fs.cur[m])
      <3>1. CASE k = last + 1
        <4>1. pages'[k] = <<b>>
          BY <1>2, <1>3, <3>1
        <4> QED
          BY <1>2, <4>1
      <3>2. CASE k \in DOMAIN pages
        <4>1. pages'[k] = pages[k]
          BY <1>2, <1>3, <3>2
        <4> QED
          BY <3>2, <4>1 DEF Listed
      <3> QED
        BY <1>2, <2>2, <3>1, <3>2
    <2> QED
      BY <1>2, <2>2, <2>3 DEF Listed
  <1>4. CASE last # 0 /\ pages' = [pages EXCEPT ![last] = Append(@, b)]
    <2>1. last \in DOMAIN pages /\ pages[last] \in Seq(Blks)
      BY <1>2, <1>4
    <2>2. DOMAIN pages' = DOMAIN pages /\ Append(pages[last], b) \in Seq(Blks)
      BY <1>1, <1>2, <1>4, <2>1
    <2>3. pages' \in Seq(Seq(Blks))
      BY <1>2, <1>4, <2>1, <2>2
    <2>4. ASSUME NEW k \in DOMAIN pages'
          PROVE  /\ pages'[k] # <<>>
                 /\ \A j \in DOMAIN pages'[k] : \E m \in Slots :
                        pages'[k][j] = Copy(m, 1 - fs.cur[m])
      <3>1. CASE k = last
        <4>1. pages'[k] = Append(pages[last], b)
          BY <1>2, <1>4, <2>1, <3>1
        <4>2. pages'[k] # <<>>
          BY <1>1, <2>1, <4>1
        <4>3. ASSUME NEW j \in DOMAIN pages'[k]
              PROVE  \E m \in Slots : pages'[k][j] = Copy(m, 1 - fs.cur[m])
          <5>1. CASE j = Len(pages[last]) + 1
            <6>1. pages'[k][j] = b
              BY <1>1, <2>1, <4>1, <5>1
            <6> QED
              BY <1>2, <6>1
          <5>2. CASE j \in DOMAIN pages[last]
            <6>1. pages'[k][j] = pages[last][j]
              BY <1>1, <2>1, <4>1, <5>2
            <6> QED
              BY <2>1, <5>2, <6>1 DEF Listed
          <5> QED
            BY <1>1, <2>1, <4>1, <5>1, <5>2
        <4> QED
          BY <4>2, <4>3
      <3>2. CASE k # last
        <4>1. k \in DOMAIN pages /\ pages'[k] = pages[k]
          BY <1>4, <2>2, <3>2
        <4> QED
          BY <4>1 DEF Listed
      <3> QED
        BY <3>1, <3>2
    <2> QED
      BY <1>2, <2>3, <2>4 DEF Listed
  <1> QED
    BY <1>3, <1>4 DEF lbz_nat_sit_add_blkid, b

\* The file system starts a checkpoint: the other copy of each changed slot.
LEMMA CheckpointStartKeeps == CpInv /\ CheckpointStart => CpInv'
  <1> SUFFICES ASSUME CpInv, CheckpointStart PROVE CpInv'
    OBVIOUS
  <1>1. PICK dirty \in SUBSET Slots \ {{}} :
           /\ fs' = [fs EXCEPT !.pc = "write", !.dirty = dirty, !.cps = @ + 1,
                            !.cur = [n \in Slots |-> IF n \in dirty THEN 1 - @[n] ELSE @[n]]]
           /\ child' = [n \in Slots |-> IF n \in dirty THEN [NoTask EXCEPT !.pc = "new"]
                                                       ELSE NoTask]
    BY DEF CheckpointStart
  <1>2. fs.pc = "idle" /\ pages = <<>> /\ fs.cur = fs.disk /\ ~father.woken
        /\ father.pc \notin Waiting /\ tx.pc = "idle"
    BY DEF CheckpointStart, CpInv, Phases, Sides
  <1>3. UNCHANGED <<father, tx, pages, mapped, faulty>>
    BY DEF CheckpointStart
  <1>4. CpType'
    <2> DEFINE side == [n \in Slots |-> IF n \in dirty THEN 1 - fs.cur[n] ELSE fs.cur[n]]
    <2>1. side \in [Slots -> {0, 1}]
      BY DEF CpInv, CpType
    <2>2. fs' = [fs EXCEPT !.pc = "write", !.dirty = dirty, !.cps = @ + 1, !.cur = side]
      BY <1>1
    <2> HIDE DEF side
    <2>3. fs' \in [pc : {"idle", "write", "commit", "halt"}, dirty : SUBSET Slots,
                   cur : [Slots -> {0, 1}], disk : [Slots -> {0, 1}], cps : Nat]
      <3>1. fs' = [pc |-> "write", dirty |-> dirty, cur |-> side, disk |-> fs.disk,
                   cps |-> fs.cps + 1]
        BY <2>2 DEF CpInv, CpType
      <3>2. fs.cps + 1 \in Nat /\ fs.disk \in [Slots -> {0, 1}]
        BY DEF CpInv, CpType
      <3> QED
        BY <2>1, <3>1, <3>2
    <2>4. child' \in [Slots -> [pc : TaskPc, err : BOOLEAN]]
      BY <1>1 DEF NoTask, TaskPc
    <2> QED
      BY <1>3, <2>3, <2>4 DEF CpInv, CpType
  <1>5. \A n \in Slots : child'[n].pc = IF n \in dirty THEN "new" ELSE "none"
    BY <1>1 DEF NoTask
  <1>6. fs'.pc = "write" /\ fs'.dirty = dirty /\ fs'.disk = fs.disk
        /\ \A n \in Slots : fs'.cur[n] = IF n \in dirty THEN 1 - fs.cur[n] ELSE fs.cur[n]
    BY <1>1 DEF CpInv, CpType
  <1>7. Phases' /\ Sides'
    BY <1>2, <1>3, <1>5, <1>6 DEF Phases, Sides, Open, Waiting
  <1>8. Written'
    BY <1>2, <1>3, <1>5, <1>6 DEF Written, Waiting, BioEnded
  <1>9. Listed' /\ Walk'
    BY <1>2, <1>3 DEF Listed, Walk
  <1>10. CheckpointReadable'
    BY <1>3, <1>6 DEF CpInv, CheckpointReadable
  <1> QED
    BY <1>4, <1>7, <1>8, <1>9, <1>10 DEF CpInv

\* The file system commits: it has waited for every child.
LEMMA CommitKeeps == CpInv /\ Commit => CpInv'
  <1> SUFFICES ASSUME CpInv, Commit PROVE CpInv'
    OBVIOUS
  <1> USE DEF CpInv
  <1>1. fs.pc = "write" /\ (\A n \in fs.dirty : BioEnded(n)) /\ father.pc \in {"none", "done"}
        /\ UNCHANGED <<child, tx, pages, mapped, faulty>> /\ tx.pc = "idle" /\ ~father.woken
    BY DEF Commit, Phases
  <1>2. \A n \in Slots : child[n].pc \notin Open
    BY <1>1 DEF Phases, Open, BioEnded
  <1>3. CASE fs' = [fs EXCEPT !.pc = "halt"] /\ UNCHANGED father
    <2>1. CpType'
      BY <1>1, <1>3 DEF CpType
    <2>2. fs'.pc = "halt" /\ fs'.cur = fs.cur /\ fs'.disk = fs.disk
      BY <1>3 DEF CpType
    <2>3. Phases' /\ Sides' /\ Written'
      BY <1>1, <1>2, <1>3, <2>2 DEF Phases, Sides, Written, Waiting
    <2>4. Listed' /\ Walk' /\ CheckpointReadable'
      BY <1>1, <2>2 DEF Listed, Walk, CheckpointReadable
    <2> QED
      BY <2>1, <2>3, <2>4
  <1>4. CASE /\ \A n \in fs.dirty : ~child[n].err
             /\ fs' = [fs EXCEPT !.pc = "commit"]
             /\ father' = [NoFather EXCEPT !.pc = "new"]
    <2>1. CpType'
      BY <1>1, <1>4 DEF CpType, NoFather, TaskPc
    <2>2. fs'.pc = "commit" /\ fs'.cur = fs.cur /\ fs'.disk = fs.disk
      BY <1>4 DEF CpType
    <2>3. father'.pc = "new" /\ ~father'.woken
      BY <1>4 DEF NoFather
    <2>4. Phases' /\ Sides'
      BY <1>1, <1>2, <2>2, <2>3 DEF Phases, Sides, Waiting
    <2>5. ~faulty => \A n \in Slots : Target(n) \in mapped
      BY <1>1, <1>4 DEF Sides, Written, CheckpointReadable, Target
    <2>6. Written'
      BY <1>1, <2>2, <2>3, <2>5 DEF Written, Target
    <2>7. Listed' /\ Walk' /\ CheckpointReadable'
      BY <1>1, <2>2 DEF Listed, Walk, CheckpointReadable
    <2> QED
      BY <2>1, <2>4, <2>6, <2>7
  <1> QED
    BY <1>3, <1>4 DEF Commit

\* A step of one child that only moves it, with no effect on map or list.
LEMMA ChildMoves ==
    ASSUME CpInv, NEW n \in Slots, NEW t \in [pc : TaskPc, err : BOOLEAN],
           child' = [child EXCEPT ![n] = t],
           t.pc \in Open => child[n].pc \in Open,
           t.pc \in {"count", "done"} /\ ~t.err /\ ~faulty' =>
               \/ child[n].pc \in {"count", "done"} /\ ~child[n].err
               \/ Target(n) \in mapped',
           UNCHANGED <<fs, father, tx>>, Listed', pages' \in Seq(Seq(Blks)),
           pages' = pages \/ fs.pc = "write",
           mapped \subseteq mapped', faulty' \in BOOLEAN, faulty => faulty'
    PROVE  CpInv'
  <1> USE DEF CpInv
  <1>1. CpType'
    BY DEF CpType
  <1>2. \A m \in Slots : child'[m] = IF m = n THEN t ELSE child[m]
    BY DEF CpType
  <1>3. Phases'
    BY <1>2 DEF Phases
  <1>4. Sides'
    BY DEF Sides
  <1>5. Written'
    <2>1. ASSUME fs.pc = "write", ~faulty', NEW m \in fs.dirty, BioEnded(m)', ~child'[m].err
          PROVE  Target(m)' \in mapped'
      <3>1. m \in Slots /\ ~faulty
        BY <2>1 DEF CpType
      <3> QED
        BY <1>2, <2>1, <3>1 DEF Written, BioEnded, Target
    <2> QED
      BY <2>1 DEF Written, Target
  <1>6. Walk'
    BY DEF Walk, Phases
  <1>7. CheckpointReadable'
    BY DEF CheckpointReadable
  <1> QED
    BY <1>1, <1>3, <1>4, <1>5, <1>6, <1>7

\* A child from its submission to the end of its count.
LEMMA ChildKeeps ==
    ASSUME CpInv, NEW n \in Slots,
           \/ ChildStep(n) \/ ChildRefused(n, "queued") \/ ChildEnds(n, TRUE)
    PROVE  CpInv'
  <1> USE DEF CpInv
  <1>0. child[n] \in [pc : TaskPc, err : BOOLEAN] /\ faulty \in BOOLEAN
        /\ pages \in Seq(Seq(Blks)) /\ fs.cur[n] \in {0, 1}
        /\ child \in [Slots -> [pc : TaskPc, err : BOOLEAN]]
    BY DEF CpType
  <1>l. ASSUME UNCHANGED <<fs, pages>> PROVE Listed'
    BY <1>l DEF Listed
  <1>1. CASE ChildSubmit(n)
    <2> DEFINE t == [child[n] EXCEPT !.pc = IF faulty THEN "done" ELSE "submit"]
    <2>1. child' = [child EXCEPT ![n] = t] /\ t \in [pc : TaskPc, err : BOOLEAN]
          /\ t.pc = IF faulty THEN "done" ELSE "submit"
      BY <1>0, <1>1 DEF ChildSubmit, TaskPc
    <2>2. child[n].pc \in Open /\ UNCHANGED <<fs, father, tx, pages, mapped, faulty>>
      BY <1>1 DEF ChildSubmit, Open
    <2> HIDE DEF t
    <2> QED
      BY <1>0, <1>l, <2>1, <2>2, ChildMoves
  <1>2. CASE ChildWaits(n)
    <2> DEFINE t == [child[n] EXCEPT !.pc = "queued"]
    <2>1. child' = [child EXCEPT ![n] = t] /\ t \in [pc : TaskPc, err : BOOLEAN]
          /\ t.pc = "queued"
      BY <1>0, <1>2 DEF ChildWaits, TaskPc
    <2>2. child[n].pc \in Open /\ UNCHANGED <<fs, father, tx, pages, mapped, faulty>>
      BY <1>2 DEF ChildWaits, Open
    <2> HIDE DEF t
    <2> QED
      BY <1>0, <1>l, <2>1, <2>2, ChildMoves
  <1>3. CASE ChildDispatch(n)
    <2> DEFINE t == [child[n] EXCEPT !.pc = "device"]
    <2>1. child' = [child EXCEPT ![n] = t] /\ t \in [pc : TaskPc, err : BOOLEAN]
          /\ t.pc = "device"
      BY <1>0, <1>3 DEF ChildDispatch, TaskPc
    <2>2. child[n].pc \in Open /\ UNCHANGED <<fs, father, tx, mapped, faulty>>
      BY <1>3 DEF ChildDispatch, Open
    <2>3. lbz_nat_sit_add_blkid(Copy(n, 1 - fs.cur[n]))
      BY <1>0, <1>3, OtherCopy DEF ChildDispatch, Target
    <2>4. Listed' /\ pages' \in Seq(Seq(Blks))
      BY <2>2, <2>3, ListGrows
    <2>5. fs.pc = "write"
      BY <2>2 DEF Phases
    <2> HIDE DEF t
    <2> QED
      BY <1>0, <2>1, <2>2, <2>4, <2>5, ChildMoves
  <1>4. CASE ChildRefused(n, "submit") \/ ChildRefused(n, "queued")
    <2> DEFINE t == [pc |-> "count", err |-> TRUE]
    <2>1. child' = [child EXCEPT ![n] = t] /\ t \in [pc : TaskPc, err : BOOLEAN]
          /\ t.pc = "count" /\ t.err
      BY <1>0, <1>4 DEF ChildRefused, TaskPc
    <2>2. child[n].pc \in Open /\ UNCHANGED <<fs, father, tx, pages, mapped, faulty>>
      BY <1>4 DEF ChildRefused, Open
    <2> HIDE DEF t
    <2> QED
      BY <1>0, <1>l, <2>1, <2>2, ChildMoves DEF Open
  <1>5. ASSUME NEW fails \in BOOLEAN, ChildEnds(n, fails) PROVE CpInv'
    <2> DEFINE t == [pc |-> "count", err |-> fails]
    <2>1. child' = [child EXCEPT ![n] = t] /\ t \in [pc : TaskPc, err : BOOLEAN]
          /\ t.pc = "count" /\ t.err = fails
      BY <1>0, <1>5 DEF ChildEnds, TaskPc
    <2>2. child[n].pc \in Open /\ UNCHANGED <<fs, father, tx, pages>>
      BY <1>5 DEF ChildEnds, Open
    <2>3. faulty' \in BOOLEAN /\ (faulty => faulty') /\ mapped \subseteq mapped'
          /\ (~fails => Target(n) \in mapped')
      BY <1>0, <1>5 DEF ChildEnds
    <2> HIDE DEF t
    <2> QED
      BY <1>0, <1>l, <2>1, <2>2, <2>3, ChildMoves DEF Open
  <1>6. CASE ChildCounted(n)
    <2> DEFINE t == [child[n] EXCEPT !.pc = "done"]
    <2>1. child' = [child EXCEPT ![n] = t] /\ t \in [pc : TaskPc, err : BOOLEAN]
          /\ t.pc = "done" /\ t.err = child[n].err
      BY <1>0, <1>6 DEF ChildCounted, TaskPc
    <2>2. child[n].pc = "count" /\ UNCHANGED <<fs, father, tx, pages, mapped, faulty>>
      BY <1>6 DEF ChildCounted
    <2> HIDE DEF t
    <2> QED
      BY <1>0, <1>l, <2>1, <2>2, ChildMoves DEF Open
  <1> QED
    BY <1>1, <1>2, <1>3, <1>4, <1>5, <1>6 DEF ChildStep

\* The flush write, from its submission to the end of its count.
LEMMA FatherKeeps ==
    ASSUME CpInv, FatherStep \/ FatherEnds(TRUE)
    PROVE  CpInv'
  <1> USE DEF CpInv
  <1>0. father \in [pc : TaskPc, err : BOOLEAN, woken : BOOLEAN]
    BY DEF CpType
  <1>1. CASE FatherSubmit \/ FatherDispatch \/ FatherCounted
    <2>1. UNCHANGED <<fs, child, tx, pages, mapped, faulty>>
      BY <1>1 DEF FatherSubmit, FatherDispatch, FatherCounted
    <2>2. CpType'
      <3>1. father' \in [pc : TaskPc, err : BOOLEAN, woken : BOOLEAN]
        BY <1>0, <1>1 DEF FatherSubmit, FatherDispatch, FatherCounted, TaskPc
      <3> QED BY <2>1, <3>1 DEF CpType
    <2>3. Phases'
      BY <1>0, <1>1, <2>1 DEF Phases, FatherSubmit, FatherDispatch, FatherCounted, Waiting
    <2>4. Written'
      BY <1>0, <1>1, <2>1 DEF Written, FatherSubmit, FatherDispatch, FatherCounted, BioEnded,
                              Target
    <2>5. Sides' /\ Listed' /\ Walk' /\ CheckpointReadable'
      BY <2>1 DEF Sides, Listed, Walk, CheckpointReadable
    <2> QED
      BY <2>2, <2>3, <2>4, <2>5
  <1>2. ASSUME NEW fails \in BOOLEAN, FatherEnds(fails) PROVE CpInv'
    <2>1. father.pc = "device" /\ fs.pc = "commit" /\ tx.pc = "idle"
          /\ UNCHANGED <<child, tx, pages, mapped>>
          /\ \A n \in Slots : Target(n) \in mapped
      BY <1>2 DEF FatherEnds, Phases, Waiting, Written
    <2>2. father'.pc = "count" /\ father'.err = fails /\ father'.woken = TRUE
      BY <1>2 DEF FatherEnds
    <2>3. fs'.pc = fs.pc /\ fs'.dirty = fs.dirty /\ fs'.cur = fs.cur
          /\ fs'.disk = IF fails THEN fs.disk ELSE fs.cur
      BY <1>2 DEF FatherEnds, CpType
    <2>4. CpType'
      BY <1>2 DEF FatherEnds, CpType, TaskPc
    <2>5. Phases' /\ Sides' /\ Written'
      BY <2>1, <2>2, <2>3 DEF Phases, Sides, Written, Waiting
    <2>6. Listed' /\ Walk'
      BY <2>1, <2>3 DEF Listed, Walk
    <2>7. CheckpointReadable'
      BY <2>1, <2>3 DEF CheckpointReadable, Target
    <2> QED
      BY <2>4, <2>5, <2>6, <2>7
  <1> QED
    BY <1>1, <1>2 DEF FatherStep

\* The entry of the list that the walk is at.
LEMMA AtEntry ==
    ASSUME CpInv, tx.pc # "idle", tx.page <= Len(pages)
    PROVE  /\ \E n \in Slots : Entry = Copy(n, 1 - fs.cur[n])
           /\ NextEntry \in [pc : {"walk"}, page : Nat, i : Nat]
           /\ NextEntry.page \in 1 .. Len(pages) + 1
           /\ NextEntry.page <= Len(pages) => NextEntry.i \in DOMAIN pages[NextEntry.page]
  <1> USE DEF CpInv
  <1>1. tx.page \in DOMAIN pages /\ tx.i \in DOMAIN pages[tx.page]
        /\ pages[tx.page] \in Seq(Blks)
    BY DEF Walk, CpType
  <1>2. \E n \in Slots : Entry = Copy(n, 1 - fs.cur[n])
    BY <1>1 DEF Listed, Entry
  <1>3. CASE tx.i < Len(pages[tx.page])
    <2>1. NextEntry = [pc |-> "walk", page |-> tx.page, i |-> tx.i + 1]
      BY <1>3 DEF NextEntry, CpType
    <2>2. tx.i + 1 \in DOMAIN pages[tx.page] /\ tx.page \in Nat /\ tx.i + 1 \in Nat
      BY <1>1, <1>3 DEF CpType
    <2>3. tx.page \in 1 .. Len(pages) + 1
      BY DEF Walk
    <2> QED
      BY <1>2, <2>1, <2>2, <2>3
  <1>4. CASE ~(tx.i < Len(pages[tx.page]))
    <2>1. NextEntry = [pc |-> "walk", page |-> tx.page + 1, i |-> 1]
      BY <1>4 DEF NextEntry
    <2>2. ASSUME tx.page + 1 <= Len(pages) PROVE 1 \in DOMAIN pages[tx.page + 1]
      <3>1. tx.page + 1 \in DOMAIN pages
        BY <1>1, <2>2 DEF CpType
      <3> QED
        BY <3>1 DEF Listed, CpType
    <2> QED
      BY <1>1, <1>2, <2>1, <2>2 DEF CpType
  <1> QED
    BY <1>3, <1>4

\* The submitter of the flush: it frees only what the new checkpoint replaced.
LEMMA SubmitterKeeps == CpInv /\ Submitter => CpInv'
  <1> SUFFICES ASSUME CpInv, Submitter PROVE CpInv'
    OBVIOUS
  <1> USE DEF CpInv
  <1>1. CASE FlushDone
    <2>0. father.woken /\ tx.pc = "idle" /\ fs.pc = "commit" /\ father.pc \notin Waiting
          /\ UNCHANGED <<child, pages, mapped, faulty>>
      BY <1>1 DEF FlushDone, Phases
    <2>1. CASE father.err
      <3>1. UNCHANGED tx /\ fs' = [fs EXCEPT !.pc = "halt"]
            /\ father' = [father EXCEPT !.woken = FALSE]
        BY <1>1, <2>1 DEF FlushDone
      <3>2. CpType'
        BY <2>0, <3>1 DEF CpType
      <3>3. fs'.pc = "halt" /\ fs'.cur = fs.cur /\ fs'.disk = fs.disk
            /\ father'.pc = father.pc /\ ~father'.woken
        BY <3>1 DEF CpType
      <3>4. Phases' /\ Sides' /\ Written'
        BY <2>0, <3>1, <3>3 DEF Phases, Sides, Written, Waiting, Open
      <3> QED
        BY <2>0, <3>1, <3>2, <3>3, <3>4 DEF Listed, Walk, CheckpointReadable
    <2>2. CASE ~father.err
      <3>1. tx' = [pc |-> "walk", page |-> 1, i |-> 1] /\ UNCHANGED <<fs, father>>
        BY <1>1, <2>2 DEF FlushDone
      <3>2. CpType' /\ Phases' /\ Sides' /\ Listed' /\ CheckpointReadable'
        BY <2>0, <2>2, <3>1 DEF CpType, Phases, Sides, Listed, CheckpointReadable
      <3>3. Written'
        BY <2>0, <3>1 DEF Written, BioEnded, Target
      <3>4. Walk'
        <4>1. ASSUME 1 <= Len(pages) PROVE 1 \in DOMAIN pages[1]
          BY <4>1 DEF Listed, CpType
        <4> QED
          BY <2>0, <3>1, <4>1 DEF Walk, CpType
      <3> QED
        BY <3>2, <3>3, <3>4
    <2> QED
      BY <2>1, <2>2
  <1>2. CASE TxRemove
    <2>0. tx.pc = "walk" /\ tx.page <= Len(pages) /\ mapped' = mapped \ {Entry}
          /\ UNCHANGED <<fs, child, father, pages, faulty>>
      BY <1>2 DEF TxRemove
    <2>1. father.woken /\ ~father.err /\ fs.disk = fs.cur /\ fs.pc = "commit"
          /\ father.pc \notin Waiting
      BY <2>0 DEF Phases
    <2>2. PICK n \in Slots : Entry = Copy(n, 1 - fs.cur[n])
      BY <2>0, AtEntry
    <2>3. CheckpointReadable'
      <3>1. ASSUME NEW m \in Slots PROVE Copy(m, fs.disk[m]) # Entry
        <4>1. fs.cur[m] \in {0, 1} /\ fs.cur[n] \in {0, 1} /\ 1 - fs.cur[n] \in {0, 1}
          BY DEF CpType
        <4>2. ASSUME Copy(m, fs.cur[m]) = Copy(n, 1 - fs.cur[n]) PROVE FALSE
          <5>1. m = n /\ fs.cur[m] = 1 - fs.cur[n]
            BY <4>1, <4>2, CopyInjective
          <5> QED
            BY <4>1, <5>1
        <4> QED
          BY <2>1, <2>2, <4>2
      <3> QED
        BY <2>0, <3>1 DEF CheckpointReadable
    <2>4. tx' \in [pc : {"idle", "walk", "release"}, page : Nat, i : Nat] /\ Walk'
      <3>1. CASE tx' = [tx EXCEPT !.pc = "release"]
        BY <2>0, <3>1 DEF CpType, Walk
      <3>2. CASE tx' = NextEntry
        BY <2>0, <3>2, AtEntry DEF Walk
      <3> QED
        BY <1>2, <3>1, <3>2 DEF TxRemove
    <2>5. CpType' /\ Phases' /\ Sides' /\ Listed'
      BY <2>0, <2>1, <2>4 DEF CpType, Phases, Sides, Listed
    <2>6. Written'
      BY <2>0, <2>1 DEF Written, Waiting
    <2> QED
      BY <2>3, <2>4, <2>5, <2>6
  <1>3. CASE TxRelease
    <2>0. tx.pc = "release" /\ tx.page <= Len(pages) /\ tx' = NextEntry
          /\ UNCHANGED <<fs, child, father, pages, mapped, faulty>>
      BY <1>3 DEF TxRelease, Walk
    <2>1. tx' \in [pc : {"walk"}, page : Nat, i : Nat] /\ Walk'
      BY <2>0, AtEntry DEF Walk
    <2>2. CpType' /\ Phases' /\ Sides' /\ Listed' /\ CheckpointReadable'
      BY <2>0, <2>1 DEF CpType, Phases, Sides, Listed, CheckpointReadable
    <2>3. Written'
      BY <2>0 DEF Written, BioEnded, Target
    <2> QED
      BY <2>1, <2>2, <2>3
  <1>4. CASE TxEnd
    <2>0. tx.pc = "walk" /\ pages' = <<>> /\ tx' = [pc |-> "idle", page |-> 1, i |-> 1]
          /\ father' = [father EXCEPT !.woken = FALSE] /\ fs' = [fs EXCEPT !.pc = "idle"]
          /\ UNCHANGED <<child, mapped, faulty>>
      BY <1>4 DEF TxEnd
    <2>1. fs.disk = fs.cur /\ fs.pc = "commit" /\ father.pc \notin Waiting
      BY <2>0 DEF Phases
    <2>2. CpType'
      <3>1. <<>> \in Seq(Seq(Blks))
        OBVIOUS
      <3> QED
        BY <2>0, <3>1 DEF CpType
    <2>3. fs'.pc = "idle" /\ fs'.cur = fs.cur /\ fs'.disk = fs.disk
          /\ father'.pc = father.pc /\ ~father'.woken
      BY <2>0 DEF CpType
    <2>4. Phases' /\ Sides' /\ Written'
      BY <2>0, <2>1, <2>3 DEF Phases, Sides, Written, Waiting, Open
    <2> QED
      BY <2>0, <2>2, <2>3, <2>4 DEF Listed, Walk, CheckpointReadable
  <1> QED
    BY <1>1, <1>2, <1>3, <1>4 DEF Submitter

\* A rule installed at run time drops the list.
LEMMA RuleKeeps == CpInv /\ lbz_nat_sit_add_rule => CpInv'
  <1> SUFFICES ASSUME CpInv, lbz_nat_sit_add_rule PROVE CpInv'
    OBVIOUS
  <1> USE DEF CpInv
  <1>1. pages' = <<>> /\ tx.pc = "idle" /\ UNCHANGED <<fs, child, father, tx, mapped, faulty>>
    BY DEF lbz_nat_sit_add_rule
  <1>2. CpType' /\ Phases' /\ Sides' /\ Listed' /\ Walk' /\ CheckpointReadable'
    BY <1>1 DEF CpType, Phases, Sides, Listed, Walk, CheckpointReadable
  <1>3. Written'
    BY <1>1 DEF Written, BioEnded, Target
  <1> QED
    BY <1>2, <1>3

\* GC maps blocks and never unmaps one.
LEMMA GcKeeps ==
    ASSUME CpInv, NEW b \in Blks, GcCopies(b) \/ GcStep(b)
    PROVE  CpInv'
  BY Untouched DEF GcCopies, GcStep, GcRmap, GcMap, GcOld

\* The invariant holds of a file system just made.
LEMMA CpInit == Init => CpInv
  <1> SUFFICES ASSUME Init PROVE CpInv
    OBVIOUS
  <1>1. CpType
    <2>1. fs \in [pc : {"idle", "write", "commit", "halt"}, dirty : SUBSET Slots,
                  cur : [Slots -> {0, 1}], disk : [Slots -> {0, 1}], cps : Nat]
      BY DEF Init
    <2>2. child \in [Slots -> [pc : TaskPc, err : BOOLEAN]]
      BY DEF Init, NoTask, TaskPc
    <2>3. father \in [pc : TaskPc, err : BOOLEAN, woken : BOOLEAN]
      BY DEF Init, NoFather, TaskPc
    <2>4. pages \in Seq(Seq(Blks))
      BY DEF Init
    <2> QED
      BY <2>1, <2>2, <2>3, <2>4 DEF Init, CpType
  <1>2. CheckpointReadable
    BY DEF Init, CheckpointReadable
  <1> QED
    BY <1>1, <1>2 DEF Init, CpInv, Phases, Sides, Written, Listed, Walk, NoTask, NoFather,
                      Open, Waiting

\* Every step keeps it.
LEMMA CpNext == CpInv /\ [Next]_vars => CpInv'
  <1> SUFFICES ASSUME CpInv, [Next]_vars PROVE CpInv'
    OBVIOUS
  <1>1. CASE UNCHANGED vars
    BY <1>1, Untouched DEF vars
  <1>2. CASE DeviceFails
    BY <1>2, ChildKeeps, FatherKeeps DEF DeviceFails
  <1> QED
    BY <1>1, <1>2, CheckpointStartKeeps, CommitKeeps, ChildKeeps, FatherKeeps,
       SubmitterKeeps, RuleKeeps, GcKeeps DEF Next

\* The blocks that the checkpoint on the device refers to stay mapped, for all
\* layouts, sizes, interleavings with GC, errors and new rules: only the walk of
\* lbz_nat_sit_tx_complete unmaps, and at that time the list holds nothing else
\* than the copies the committed transaction replaced.
THEOREM CheckpointSafe == Spec => []CheckpointReadable
  <1>1. CpInv => CheckpointReadable
    BY DEF CpInv
  <1> QED
    BY <1>1, CpInit, CpNext, PTL DEF Spec

-----------------------------------------------------------------------------
(* What else the module keeps count of: types, the reverse map, the        *)
(* transaction writes in flight and the copies still to free.              *)

MoreTypes ==
    /\ fs.cps \in 0 .. MaxCps
    /\ inflight \in Int
    /\ copy \in [Blks -> {"none", "write", "map", "old"}]
    /\ mapped \subseteq Blks
    /\ valid \in [Blks -> Int]
    /\ ghost \in [kept : SUBSET Blks, forgot : Nat, copies : 0 .. MaxCopies,
                  rules : 0 .. MaxRules]

\* Slots whose replaced copy is accounted for.
Settled(n) ==
    \/ fs.pc \in {"idle", "commit"}
    \/ fs.pc = "write" /\ (n \notin fs.dirty \/ child[n].pc \in {"device", "count", "done"})

\* The walk has still to come to the entry at place j of page k.
Ahead(k, j) ==
    \/ tx.pc = "idle"
    \/ k > tx.page
    \/ k = tx.page /\ (j > tx.i \/ (j = tx.i /\ tx.pc = "walk"))

ToFree(b) == \E k \in DOMAIN pages : \E j \in DOMAIN pages[k] : pages[k][j] = b /\ Ahead(k, j)

Old(n) == Copy(n, 1 - fs.cur[n])

\* A replaced copy that is still mapped is on the list, or one of those that
\* GC or a new rule kept.
Freed == ~faulty => \A n \in Slots : Settled(n) /\ Old(n) \in mapped => Old(n) \in ghost.kept \/ ToFree(Old(n))

NatSitInv == CpInv /\ MoreTypes /\ ValidExact /\ NatSitInflightExact /\ Freed

\* The copy in use and the replaced ones are different blocks.
LEMMA TargetOld ==
    ASSUME CpType, NEW n \in Slots, NEW m \in Slots
    PROVE  Target(n) \in Blks /\ Old(m) \in Blks /\ Target(n) # Old(m)
  <1>1. fs.cur[n] \in {0, 1} /\ fs.cur[m] \in {0, 1} /\ 1 - fs.cur[m] \in {0, 1}
    BY DEF CpType
  <1>2. Target(n) \in Blks /\ Old(m) \in Blks
    BY <1>1 DEF Target, Old, Blks
  <1>3. ASSUME Copy(n, fs.cur[n]) = Copy(m, 1 - fs.cur[m]) PROVE FALSE
    <2>1. n = m /\ fs.cur[n] = 1 - fs.cur[m]
      BY <1>1, <1>3, CopyInjective
    <2> QED
      BY <1>1, <2>1
  <1> QED
    BY <1>2, <1>3 DEF Target, Old

\* The walk is at an entry that names a block.
LEMMA EntryBlk ==
    ASSUME CpInv, tx.pc # "idle", tx.page <= Len(pages)
    PROVE  Entry \in Blks /\ NextEntry.pc = "walk"
  <1>1. PICK n \in Slots : Entry = Copy(n, 1 - fs.cur[n])
    BY AtEntry
  <1>2. Entry = Old(n)
    BY <1>1 DEF Old
  <1>3. NextEntry.pc \in {"walk"}
    BY AtEntry
  <1> QED
    BY <1>2, <1>3, TargetOld DEF CpInv

-----------------------------------------------------------------------------
(* The transaction writes in flight.                                       *)

Busy == {n \in Slots : child[n].pc \in {"submit", "queued", "device", "count"}}

\* Their number is a number.
LEMMA TxWritesNat ==
    /\ TxWrites \in Nat /\ Cardinality(Busy) \in Nat /\ IsFiniteSet(Slots)
    /\ TxWrites = Cardinality(Busy) + (IF father.pc \in {"submit", "device", "count"} THEN 1 ELSE 0)
  <1>1. IsFiniteSet(Slots) /\ Busy \in SUBSET Slots
    BY NatSitAssumption DEF Busy
  <1>2. Cardinality(Busy) \in Nat
    BY <1>1, CountNat
  <1> QED
    BY <1>1, <1>2 DEF TxWrites, Busy

\* How many there are after a step of one child.
LEMMA ChildCounts ==
    ASSUME CpType, NEW n \in Slots, NEW t, child' = [child EXCEPT ![n] = t], father' = father
    PROVE  /\ (n \in Busy <=> t.pc \in {"submit", "queued", "device", "count"}) => TxWrites' = TxWrites
           /\ n \notin Busy /\ t.pc \in {"submit", "queued", "device", "count"} => TxWrites' = TxWrites + 1
           /\ n \in Busy /\ t.pc \notin {"submit", "queued", "device", "count"} => TxWrites' = TxWrites - 1
  <1>0. PICK S, A, B : S = Slots /\ A = Busy /\ B = Busy'
    OBVIOUS
  <1>1. \A m \in Slots : child'[m] = IF m = n THEN t ELSE child[m]
    BY DEF CpType
  <1>2. A \in SUBSET S /\ B \in SUBSET S /\ n \in S /\ \A m \in S : m # n => (m \in A <=> m \in B)
    BY <1>0, <1>1 DEF Busy
  <1>3. n \in B <=> t.pc \in {"submit", "queued", "device", "count"}
    BY <1>0, <1>1 DEF Busy
  <1>4. IsFiniteSet(S)
    BY <1>0, TxWritesNat
  <1>5. Cardinality(A) \in Nat /\ Cardinality(B) \in Nat
    BY ONLY <1>2, <1>4, CountNat
  <1>6. (n \in A <=> n \in B) => A = B
    BY <1>2
  <1>7. n \notin A /\ n \in B => Cardinality(B) = Cardinality(A) + 1
    BY ONLY <1>2, <1>4, CountMore
  <1>8. n \in A /\ n \notin B => Cardinality(A) = Cardinality(B) + 1
    BY ONLY <1>2, <1>4, CountMore
  <1>9. PICK f \in {0, 1} : f = IF father.pc \in {"submit", "device", "count"} THEN 1 ELSE 0
    OBVIOUS
  <1>10. TxWrites = Cardinality(A) + f /\ TxWrites' = Cardinality(B) + f
    BY <1>0, <1>9 DEF TxWrites, Busy
  <1> QED
    BY <1>0, <1>3, <1>5, <1>6, <1>7, <1>8, <1>10

\* How many there are after a step of the father.
LEMMA FatherCounts ==
    ASSUME child' = child
    PROVE  /\ (father.pc \in {"submit", "device", "count"} <=> father'.pc \in {"submit", "device", "count"})
                => TxWrites' = TxWrites
           /\ father.pc \notin {"submit", "device", "count"} /\ father'.pc \in {"submit", "device", "count"}
                => TxWrites' = TxWrites + 1
           /\ father.pc \in {"submit", "device", "count"} /\ father'.pc \notin {"submit", "device", "count"}
                => TxWrites' = TxWrites - 1
  <1>1. PICK c : c = Cardinality(Busy)
    OBVIOUS
  <1>2. c \in Nat
    BY <1>1, TxWritesNat
  <1>3. /\ TxWrites = c + (IF father.pc \in {"submit", "device", "count"} THEN 1 ELSE 0)
        /\ TxWrites' = c + (IF father'.pc \in {"submit", "device", "count"} THEN 1 ELSE 0)
    BY <1>1 DEF TxWrites, Busy
  <1> QED
    BY <1>2, <1>3

\* nat_sit_inflight_writes follows them.
LEMMA InflightNext ==
    ASSUME CpInv, MoreTypes, NatSitInflightExact, [Next]_vars
    PROVE  NatSitInflightExact'
  <1>1. /\ inflight \in Int /\ ghost.forgot \in Nat /\ TxWrites \in Nat /\ inflight = TxWrites - ghost.forgot
        /\ child \in [Slots -> [pc : TaskPc, err : BOOLEAN]] /\ CpType
        /\ father \in [pc : TaskPc, err : BOOLEAN, woken : BOOLEAN]
        /\ ghost \in [kept : SUBSET Blks, forgot : Nat, copies : 0 .. MaxCopies, rules : 0 .. MaxRules]
    BY TxWritesNat DEF MoreTypes, NatSitInflightExact, CpInv, CpType
  <1>2. ASSUME NEW d \in {-1, 0, 1}, TxWrites' = TxWrites + d, inflight' = inflight + d, ghost'.forgot = ghost.forgot
        PROVE  NatSitInflightExact'
    BY <1>1, <1>2 DEF NatSitInflightExact
  <1>3. ASSUME UNCHANGED <<child, father, inflight>>, ghost'.forgot = ghost.forgot PROVE NatSitInflightExact'
    <2>1. TxWrites' = TxWrites
      BY <1>3 DEF TxWrites
    <2> QED
      BY <1>1, <1>3, <2>1 DEF NatSitInflightExact
  <1>4. CASE CheckpointStart
    <2>1. Busy = {} /\ Busy' = {} /\ UNCHANGED <<father, inflight, ghost>>
      BY <1>4 DEF CheckpointStart, Busy, NoTask
    <2>2. TxWrites' = TxWrites
      BY <2>1 DEF TxWrites, Busy
    <2> QED
      BY <1>1, <2>1, <2>2 DEF NatSitInflightExact
  <1>5. CASE Commit
    <2>1. UNCHANGED <<child, inflight, ghost>> /\ father.pc \notin {"submit", "device", "count"}
          /\ father'.pc \notin {"submit", "device", "count"}
      BY <1>5 DEF Commit, NoFather
    <2>2. TxWrites' = TxWrites
      BY <2>1, FatherCounts
    <2> QED
      BY <1>1, <2>1, <2>2 DEF NatSitInflightExact
  <1>6. CASE lbz_nat_sit_add_rule
    <2>1. inflight' = 0 /\ UNCHANGED <<child, father>> /\ ghost'.forgot = TxWrites
      BY <1>1, <1>6 DEF lbz_nat_sit_add_rule
    <2>2. TxWrites' = TxWrites
      BY <2>1 DEF TxWrites
    <2> QED
      BY <1>1, <2>1, <2>2 DEF NatSitInflightExact
  <1>7. ASSUME NEW n \in Slots, ChildStep(n) \/ ChildRefused(n, "queued") \/ ChildEnds(n, TRUE)
        PROVE  NatSitInflightExact'
    <2>0. child[n] \in [pc : TaskPc, err : BOOLEAN]
          /\ (n \in Busy <=> child[n].pc \in {"submit", "queued", "device", "count"})
      BY <1>1 DEF Busy
    <2>1. PICK t : t = child'[n]
      OBVIOUS
    <2>2. /\ child' = [child EXCEPT ![n] = t] /\ father' = father /\ ghost'.forgot = ghost.forgot
          /\ \/ child[n].pc = "new" /\ t.pc = "done" /\ inflight' = inflight
             \/ child[n].pc = "new" /\ t.pc = "submit" /\ inflight' = inflight + 1
             \/ child[n].pc \in {"submit", "queued", "device"} /\ t.pc \in {"queued", "device", "count"}
                /\ inflight' = inflight
             \/ child[n].pc = "count" /\ t.pc = "done" /\ inflight' = inflight - 1
      <3>1. CASE ChildSubmit(n)
        BY <1>1, <2>0, <2>1, <3>1 DEF ChildSubmit
      <3>2. CASE ChildWaits(n)
        BY <1>1, <2>0, <2>1, <3>2 DEF ChildWaits
      <3>3. CASE ChildDispatch(n)
        BY <1>1, <2>0, <2>1, <3>3 DEF ChildDispatch
      <3>4. CASE ChildRefused(n, "submit") \/ ChildRefused(n, "queued")
        BY <1>1, <2>0, <2>1, <3>4 DEF ChildRefused
      <3>5. CASE ChildEnds(n, TRUE) \/ ChildEnds(n, FALSE)
        BY <1>1, <2>0, <2>1, <3>5 DEF ChildEnds
      <3>6. CASE ChildCounted(n)
        BY <1>1, <2>0, <2>1, <3>6 DEF ChildCounted
      <3> QED
        BY <1>7, <3>1, <3>2, <3>3, <3>4, <3>5, <3>6 DEF ChildStep
    <2>3. /\ (n \in Busy <=> t.pc \in {"submit", "queued", "device", "count"}) => TxWrites' = TxWrites
          /\ n \notin Busy /\ t.pc \in {"submit", "queued", "device", "count"} => TxWrites' = TxWrites + 1
          /\ n \in Busy /\ t.pc \notin {"submit", "queued", "device", "count"} => TxWrites' = TxWrites - 1
      BY <1>1, <2>2, ChildCounts
    <2>4. PICK d \in {-1, 0, 1} : TxWrites' = TxWrites + d /\ inflight' = inflight + d
      <3>1. inflight = inflight + 0 /\ TxWrites = TxWrites + 0 /\ inflight - 1 = inflight + (-1)
            /\ TxWrites - 1 = TxWrites + (-1)
        BY <1>1
      <3> QED
        BY <2>0, <2>2, <2>3, <3>1
    <2> QED
      BY <1>2, <2>2, <2>4
  <1>8. CASE FatherStep \/ FatherEnds(TRUE)
    <2>1. /\ child' = child /\ ghost' = ghost
          /\ \/ father.pc = "new" /\ father'.pc = "submit" /\ inflight' = inflight + 1
             \/ father.pc \in {"submit", "device"} /\ father'.pc \in {"count", "device"} /\ inflight' = inflight
             \/ father.pc = "count" /\ father'.pc = "done" /\ inflight' = inflight - 1
      <3>1. CASE FatherSubmit
        BY <1>1, <3>1 DEF FatherSubmit
      <3>2. CASE FatherDispatch
        BY <1>1, <3>2 DEF FatherDispatch
      <3>3. CASE FatherEnds(TRUE) \/ FatherEnds(FALSE)
        BY <3>3 DEF FatherEnds
      <3>4. CASE FatherCounted
        BY <1>1, <3>4 DEF FatherCounted
      <3> QED
        BY <1>8, <3>1, <3>2, <3>3, <3>4 DEF FatherStep
    <2>2. PICK d \in {-1, 0, 1} : TxWrites' = TxWrites + d /\ inflight' = inflight + d
      <3>1. inflight = inflight + 0 /\ TxWrites = TxWrites + 0 /\ inflight - 1 = inflight + (-1)
            /\ TxWrites - 1 = TxWrites + (-1)
        BY <1>1
      <3> QED
        BY <2>1, <3>1, FatherCounts
    <2> QED
      BY <1>2, <2>1, <2>2
  <1>9. CASE Submitter
    <2>1. father'.pc = father.pc /\ child' = child /\ inflight' = inflight /\ ghost'.forgot = ghost.forgot
      BY <1>1, <1>9 DEF Submitter, FlushDone, TxRemove, TxRelease, TxEnd
    <2>2. TxWrites' = TxWrites
      BY <2>1, FatherCounts
    <2> QED
      BY <1>1, <2>1, <2>2 DEF NatSitInflightExact
  <1>10. CASE \E b \in Blks : GcCopies(b) \/ GcStep(b)
    <2>1. UNCHANGED <<child, father, inflight>> /\ ghost'.forgot = ghost.forgot
      BY <1>1, <1>10 DEF GcCopies, GcStep, GcRmap, GcMap, GcOld
    <2> QED
      BY <1>3, <2>1
  <1>11. CASE UNCHANGED vars
    BY <1>3, <1>11 DEF vars
  <1> QED
    BY <1>4, <1>5, <1>6, <1>7, <1>8, <1>9, <1>10, <1>11 DEF Next, DeviceFails

-----------------------------------------------------------------------------
(* The reverse map.                                                        *)

InMap(b)  == IF b \in mapped THEN 1 ELSE 0
InCopy(b) == IF copy[b] \in {"map", "old"} THEN 1 ELSE 0
InWalk(b) == IF tx.pc = "release" /\ Entry = b THEN 1 ELSE 0

\* Valid entries are those of the map and of the two that are half way through.
LEMMA ValidNext ==
    ASSUME CpInv, CpInv', MoreTypes, ValidExact, [Next]_vars
    PROVE  ValidExact'
  <1>1. /\ valid \in [Blks -> Int] /\ copy \in [Blks -> {"none", "write", "map", "old"}]
        /\ \A b \in Blks : valid[b] = InMap(b) + InCopy(b) + InWalk(b)
    BY DEF MoreTypes, ValidExact, InMap, InCopy, InWalk
  <1>2. SUFFICES ASSUME NEW b \in Blks PROVE valid'[b] = InMap(b)' + InCopy(b)' + InWalk(b)'
    BY DEF ValidExact, InMap, InCopy, InWalk
  <1>3. InMap(b) \in {0, 1} /\ InCopy(b) \in {0, 1} /\ InWalk(b) \in {0, 1} /\ valid[b] \in Int
        /\ valid[b] = InMap(b) + InCopy(b) + InWalk(b)
    BY <1>1 DEF InMap, InCopy, InWalk
  <1>4. ASSUME UNCHANGED <<mapped, copy, valid>>, InWalk(b)' = InWalk(b)
        PROVE  valid'[b] = InMap(b)' + InCopy(b)' + InWalk(b)'
    BY <1>3, <1>4 DEF InMap, InCopy
  <1>5. ASSUME UNCHANGED <<tx, pages>> PROVE InWalk(b)' = InWalk(b)
    BY <1>5 DEF InWalk, Entry
  <1>6. ASSUME tx.pc # "release", tx'.pc # "release" PROVE InWalk(b) = 0 /\ InWalk(b)' = 0
    BY <1>6 DEF InWalk
  <1>7. CASE CheckpointStart \/ Commit \/ FatherStep \/ FatherEnds(TRUE)
    <2>1. UNCHANGED <<tx, pages, mapped, copy, valid>>
      BY <1>7 DEF CheckpointStart, Commit, FatherStep, FatherSubmit, FatherDispatch, FatherEnds, FatherCounted
    <2> QED
      BY <1>4, <1>5, <2>1
  <1>8. CASE lbz_nat_sit_add_rule
    <2>1. UNCHANGED <<tx, mapped, copy, valid>> /\ tx.pc = "idle"
      BY <1>8 DEF lbz_nat_sit_add_rule
    <2> QED
      BY <1>4, <1>6, <2>1
  <1>9. ASSUME NEW n \in Slots, ChildStep(n) \/ ChildRefused(n, "queued") \/ ChildEnds(n, TRUE)
        PROVE  valid'[b] = InMap(b)' + InCopy(b)' + InWalk(b)'
    <2>1. CASE ChildSubmit(n) \/ ChildWaits(n) \/ ChildRefused(n, "submit") \/ ChildRefused(n, "queued")
               \/ ChildCounted(n) \/ ChildEnds(n, TRUE)
      <3>1. UNCHANGED <<tx, pages, mapped, copy, valid>>
        BY <2>1 DEF ChildSubmit, ChildWaits, ChildRefused, ChildCounted, ChildEnds
      <3> QED
        BY <1>4, <1>5, <3>1
    <2>2. CASE ChildDispatch(n)
      <3>1. UNCHANGED <<tx, mapped, copy, valid>> /\ child[n].pc \in Open
        BY <2>2 DEF ChildDispatch, Open
      <3>2. tx.pc = "idle"
        BY <3>1 DEF CpInv, Phases
      <3> QED
        BY <1>4, <1>6, <3>1, <3>2
    <2>3. CASE ChildEnds(n, FALSE)
      <3>1. /\ mapped' = mapped \cup {Target(n)} /\ UNCHANGED <<tx, pages, copy>>
            /\ valid' = [valid EXCEPT ![Target(n)] = IF Target(n) \in mapped THEN @ ELSE @ + 1]
        BY <2>3 DEF ChildEnds
      <3>2. InWalk(b)' = InWalk(b) /\ InCopy(b)' = InCopy(b)
        BY <1>5, <3>1 DEF InCopy
      <3>3. valid'[b] = IF b = Target(n) /\ b \notin mapped THEN valid[b] + 1 ELSE valid[b]
        BY <1>1, <3>1
      <3>4. InMap(b)' = IF b = Target(n) /\ b \notin mapped THEN InMap(b) + 1 ELSE InMap(b)
        BY <3>1 DEF InMap
      <3> QED
        BY <1>3, <3>2, <3>3, <3>4
    <2> QED
      BY <1>9, <2>1, <2>2, <2>3 DEF ChildStep
  <1>10. CASE FlushDone \/ TxEnd
    <2>1. UNCHANGED <<mapped, copy, valid>> /\ tx.pc # "release" /\ tx'.pc # "release"
      BY <1>10 DEF FlushDone, TxEnd
    <2> QED
      BY <1>4, <1>6, <2>1
  <1>11. CASE TxRemove
    <2>1. /\ tx.pc = "walk" /\ tx.page <= Len(pages) /\ mapped' = mapped \ {Entry} /\ UNCHANGED <<pages, copy, valid>>
          /\ tx' = IF Entry \in mapped THEN [tx EXCEPT !.pc = "release"] ELSE NextEntry
      BY <1>11 DEF TxRemove
    <2>2. Entry \in Blks /\ NextEntry.pc = "walk" /\ InWalk(b) = 0
      BY <2>1, EntryBlk DEF InWalk
    <2>3. CASE Entry \in mapped
      <3>1. tx'.pc = "release" /\ Entry' = Entry
        BY <2>1, <2>3 DEF Entry, CpInv, CpType
      <3>2. InWalk(b)' = IF b = Entry THEN 1 ELSE 0
        BY <3>1 DEF InWalk
      <3>3. InMap(b)' = (IF b = Entry THEN InMap(b) - 1 ELSE InMap(b)) /\ InCopy(b)' = InCopy(b)
        BY <2>1, <2>3 DEF InMap, InCopy
      <3> QED
        BY <1>3, <2>1, <2>2, <3>2, <3>3
    <2>4. CASE Entry \notin mapped
      <3>1. tx'.pc = "walk" /\ mapped' = mapped
        BY <2>1, <2>2, <2>4
      <3> QED
        BY <1>4, <1>6, <2>1, <3>1
    <2> QED
      BY <2>3, <2>4
  <1>12. CASE TxRelease
    <2>1. /\ tx.pc = "release" /\ UNCHANGED <<mapped, copy>> /\ tx' = NextEntry
          /\ valid' = [valid EXCEPT ![Entry] = @ - 1]
      BY <1>12 DEF TxRelease
    <2>2. Entry \in Blks /\ NextEntry.pc = "walk"
      BY <2>1, EntryBlk DEF CpInv, Walk
    <2>3. InWalk(b)' = 0 /\ InWalk(b) = (IF b = Entry THEN 1 ELSE 0) /\ InMap(b)' = InMap(b) /\ InCopy(b)' = InCopy(b)
      BY <2>1, <2>2 DEF InWalk, InMap, InCopy
    <2>4. valid'[b] = IF b = Entry THEN valid[b] - 1 ELSE valid[b]
      BY <1>1, <2>1
    <2> QED
      BY <1>3, <2>3, <2>4
  <1>13. ASSUME NEW c \in Blks, GcCopies(c) \/ GcStep(c)
         PROVE  valid'[b] = InMap(b)' + InCopy(b)' + InWalk(b)'
    <2>1. InWalk(b)' = InWalk(b)
      BY <1>5, <1>13 DEF GcCopies, GcStep, GcRmap, GcMap, GcOld
    <2>2. CASE b # c
      <3>1. (b \in mapped' <=> b \in mapped) /\ copy'[b] = copy[b] /\ valid'[b] = valid[b]
        BY <1>1, <1>13, <2>2 DEF GcCopies, GcStep, GcRmap, GcMap, GcOld
      <3> QED
        BY <1>3, <2>1, <3>1 DEF InMap, InCopy
    <2>3. CASE b = c
      <3>1. CASE GcCopies(b)
        BY <1>1, <1>3, <2>1, <3>1 DEF GcCopies, InMap, InCopy
      <3>2. CASE GcRmap(b)
        BY <1>1, <1>3, <2>1, <3>2 DEF GcRmap, InMap, InCopy
      <3>3. CASE GcMap(b)
        BY <1>1, <1>3, <2>1, <3>3 DEF GcMap, InMap, InCopy
      <3>4. CASE GcOld(b)
        BY <1>1, <1>3, <2>1, <3>4 DEF GcOld, InMap, InCopy
      <3> QED
        BY <1>13, <2>3, <3>1, <3>2, <3>3, <3>4 DEF GcStep
    <2> QED
      BY <2>2, <2>3
  <1>14. CASE UNCHANGED vars
    BY <1>4, <1>5, <1>14 DEF vars
  <1> QED
    BY <1>7, <1>8, <1>9, <1>10, <1>11, <1>12, <1>13, <1>14 DEF Next, DeviceFails, Submitter

\* The types that CpInv leaves out.
LEMMA MoreTypesNext ==
    ASSUME CpInv, MoreTypes, [Next]_vars
    PROVE  MoreTypes'
  <1>1. /\ fs.cps \in 0 .. MaxCps /\ inflight \in Int /\ mapped \subseteq Blks /\ valid \in [Blks -> Int]
        /\ copy \in [Blks -> {"none", "write", "map", "old"}]
        /\ ghost \in [kept : SUBSET Blks, forgot : Nat, copies : 0 .. MaxCopies, rules : 0 .. MaxRules]
        /\ fs \in [pc : {"idle", "write", "commit", "halt"}, dirty : SUBSET Slots,
                   cur : [Slots -> {0, 1}], disk : [Slots -> {0, 1}], cps : Nat]
    BY DEF MoreTypes, CpInv, CpType
  <1>2. fs'.cps \in 0 .. MaxCps
    <2>1. CASE CheckpointStart
      <3>1. fs.cps < MaxCps /\ fs'.cps = fs.cps + 1
        BY <1>1, <2>1 DEF CheckpointStart
      <3> QED
        BY <1>1, <3>1, NatSitAssumption
    <2>2. CASE ~CheckpointStart
      <3>1. fs'.cps = fs.cps
        BY <1>1, <2>2 DEF Next, vars, Commit, lbz_nat_sit_add_rule, ChildStep, ChildSubmit, ChildWaits, ChildDispatch,
           ChildRefused, ChildEnds, ChildCounted, FatherStep, FatherSubmit, FatherDispatch, FatherEnds, FatherCounted,
           Submitter, FlushDone, TxRemove, TxRelease, TxEnd, DeviceFails, GcCopies, GcStep, GcRmap, GcMap, GcOld
      <3> QED
        BY <1>1, <3>1
    <2> QED
      BY <2>1, <2>2
  <1>3. ASSUME inflight' \in Int, UNCHANGED <<mapped, valid, copy, ghost>> PROVE MoreTypes'
    BY <1>1, <1>2, <1>3 DEF MoreTypes
  <1>4. CASE CheckpointStart \/ Commit \/ FatherStep \/ FatherEnds(TRUE)
    <2>1. UNCHANGED <<mapped, valid, copy, ghost>> /\ inflight' \in {inflight, inflight + 1, inflight - 1}
      BY <1>4 DEF CheckpointStart, Commit, FatherStep, FatherSubmit, FatherDispatch, FatherEnds, FatherCounted
    <2>2. inflight' \in Int
      BY <1>1, <2>1
    <2> QED
      BY <1>3, <2>1, <2>2
  <1>5. CASE lbz_nat_sit_add_rule
    <2>1. PICK K : K = UNION {Range(pages[k]) : k \in DOMAIN pages}
      OBVIOUS
    <2>2. K \subseteq Blks
      <3>1. \A k \in DOMAIN pages : \A j \in DOMAIN pages[k] : pages[k][j] \in Blks
        BY DEF CpInv, CpType
      <3> QED
        BY <2>1, <3>1 DEF Range
    <2>3. ghost.rules < MaxRules /\ inflight' = 0 /\ UNCHANGED <<copy, mapped, valid>>
          /\ ghost' = [ghost EXCEPT !.rules = @ + 1, !.forgot = TxWrites, !.kept = @ \cup K]
      BY <1>5, <2>1 DEF lbz_nat_sit_add_rule
    <2>4. PICK w \in Nat : w = TxWrites
      BY TxWritesNat
    <2>5. PICK r \in 0 .. MaxRules : r = ghost.rules + 1
      BY <1>1, <2>3, NatSitAssumption
    <2>6. ghost' = [kept |-> ghost.kept \cup K, forgot |-> w, copies |-> ghost.copies, rules |-> r]
      BY <1>1, <2>3, <2>4, <2>5
    <2> QED
      BY <1>1, <1>2, <2>2, <2>3, <2>6 DEF MoreTypes
  <1>6. ASSUME NEW n \in Slots, ChildStep(n) \/ ChildRefused(n, "queued") \/ ChildEnds(n, TRUE) PROVE MoreTypes'
    <2>1. CASE ChildSubmit(n) \/ ChildWaits(n) \/ ChildRefused(n, "submit") \/ ChildRefused(n, "queued")
               \/ ChildCounted(n) \/ ChildEnds(n, TRUE) \/ ChildDispatch(n)
      BY <1>1, <1>3, <2>1 DEF ChildSubmit, ChildWaits, ChildRefused, ChildCounted, ChildEnds, ChildDispatch
    <2>2. CASE ChildEnds(n, FALSE)
      <3>1. /\ mapped' = mapped \cup {Target(n)} /\ UNCHANGED <<inflight, copy>>
            /\ ghost' = [ghost EXCEPT !.kept = @ \ {Target(n)}]
            /\ valid' = [valid EXCEPT ![Target(n)] = IF Target(n) \in mapped THEN @ ELSE @ + 1]
        BY <2>2 DEF ChildEnds
      <3>2. Target(n) \in Blks
        BY TargetOld DEF CpInv
      <3> QED
        BY <1>1, <1>2, <3>1, <3>2 DEF MoreTypes
    <2> QED
      BY <1>6, <2>1, <2>2 DEF ChildStep
  <1>7. CASE FlushDone \/ TxEnd
    BY <1>1, <1>3, <1>7 DEF FlushDone, TxEnd
  <1>8. CASE TxRemove
    <2>1. mapped' = mapped \ {Entry} /\ ghost' = [ghost EXCEPT !.kept = @ \ {Entry}]
          /\ UNCHANGED <<inflight, copy, valid>>
      BY <1>8 DEF TxRemove
    <2>2. PICK K : K = ghost.kept \ {Entry}
      OBVIOUS
    <2>3. K \subseteq Blks /\ mapped' \subseteq Blks /\ ghost' = [ghost EXCEPT !.kept = K]
      BY <1>1, <2>1, <2>2
    <2> QED
      BY <1>1, <1>2, <2>1, <2>3 DEF MoreTypes
  <1>9. CASE TxRelease
    <2>1. valid' = [valid EXCEPT ![Entry] = @ - 1] /\ UNCHANGED <<inflight, copy, mapped, ghost>> /\ tx.pc = "release"
      BY <1>9 DEF TxRelease
    <2>2. PICK e, v : e = Entry /\ v = valid[e] - 1
      OBVIOUS
    <2>3. e \in Blks /\ v \in Int /\ valid' = [valid EXCEPT ![e] = v]
      BY <1>1, <2>1, <2>2, EntryBlk DEF CpInv, Walk
    <2>4. valid' \in [Blks -> Int]
      BY <1>1, <2>3
    <2> QED
      BY <1>1, <1>2, <2>1, <2>4 DEF MoreTypes
  <1>10. ASSUME NEW c \in Blks, GcCopies(c) PROVE MoreTypes'
    <2>1. ghost.copies < MaxCopies /\ copy' = [copy EXCEPT ![c] = "write"]
          /\ ghost' = [ghost EXCEPT !.copies = @ + 1] /\ UNCHANGED <<inflight, mapped, valid>>
      BY <1>10 DEF GcCopies
    <2>2. PICK k \in 0 .. MaxCopies : k = ghost.copies + 1
      BY <1>1, <2>1, NatSitAssumption
    <2>3. ghost' = [ghost EXCEPT !.copies = k]
      BY <2>1, <2>2
    <2>4. ghost' \in [kept : SUBSET Blks, forgot : Nat, copies : 0 .. MaxCopies, rules : 0 .. MaxRules]
      BY <1>1, <2>3
    <2> QED
      BY <1>1, <1>2, <2>1, <2>4 DEF MoreTypes
  <1>11. ASSUME NEW c \in Blks, GcStep(c) PROVE MoreTypes'
    BY <1>1, <1>2, <1>11 DEF MoreTypes, GcStep, GcRmap, GcMap, GcOld
  <1>12. CASE UNCHANGED vars
    BY <1>1, <1>3, <1>12 DEF vars
  <1> QED
    BY <1>4, <1>5, <1>6, <1>7, <1>8, <1>9, <1>10, <1>11, <1>12 DEF Next, DeviceFails, Submitter

-----------------------------------------------------------------------------
(* The copies still to free.                                               *)

\* An entry behind the current one is still ahead when the walk goes on.
LEMMA WalkGoesOn ==
    ASSUME CpInv, tx.pc # "idle", tx.page <= Len(pages), tx' = NextEntry, NEW k \in DOMAIN pages,
           NEW j \in DOMAIN pages[k], k > tx.page \/ (k = tx.page /\ j > tx.i)
    PROVE  Ahead(k, j)'
  <1>1. /\ tx.page \in Nat /\ tx.i \in Nat /\ tx.page \in DOMAIN pages /\ tx.i \in DOMAIN pages[tx.page]
        /\ pages[tx.page] \in Seq(Blks) /\ k \in Nat /\ pages[k] \in Seq(Blks) /\ j \in Nat \ {0}
        /\ tx \in [pc : {"idle", "walk", "release"}, page : Nat, i : Nat]
    <2>1. CpType /\ Walk
      BY DEF CpInv
    <2>2. pages \in Seq(Seq(Blks)) /\ tx \in [pc : {"idle", "walk", "release"}, page : Nat, i : Nat]
      BY <2>1 DEF CpType
    <2>3. tx.page \in DOMAIN pages /\ tx.i \in DOMAIN pages[tx.page]
      BY <2>1, <2>2 DEF Walk
    <2>4. k \in Nat /\ pages[k] \in Seq(Blks) /\ pages[tx.page] \in Seq(Blks)
      BY <2>2, <2>3
    <2>5. j \in Nat \ {0}
      BY <2>4
    <2> QED
      BY <2>2, <2>3, <2>4, <2>5
  <1>2. Len(pages[tx.page]) \in Nat /\ (k = tx.page => j <= Len(pages[tx.page]))
    BY <1>1
  <1>3. CASE tx.i < Len(pages[tx.page])
    <2>1. tx'.pc = "walk" /\ tx'.page = tx.page /\ tx'.i = tx.i + 1
      BY <1>1, <1>3 DEF NextEntry
    <2> QED
      BY <1>1, <2>1 DEF Ahead
  <1>4. CASE ~(tx.i < Len(pages[tx.page]))
    <2>1. tx'.pc = "walk" /\ tx'.page = tx.page + 1 /\ tx'.i = 1
      BY <1>4 DEF NextEntry
    <2>2. k > tx.page
      BY <1>1, <1>2, <1>4
    <2> QED
      BY <1>1, <2>1, <2>2 DEF Ahead
  <1> QED
    BY <1>3, <1>4

\* Adding a block to the list keeps those on it.
LEMMA ListKeeps ==
    ASSUME CpType, NEW b \in Blks, lbz_nat_sit_add_blkid(b), tx.pc = "idle", tx' = tx
    PROVE  ToFree(b)' /\ \A c : ToFree(c) => ToFree(c)'
  <1> DEFINE last == Len(pages)
  <1>1. pages \in Seq(Seq(Blks)) /\ \A k \in DOMAIN pages : pages[k] \in Seq(Blks)
    BY DEF CpType
  <1>2. \A c : /\ ToFree(c) <=> \E k \in DOMAIN pages : \E j \in DOMAIN pages[k] : pages[k][j] = c
               /\ ToFree(c)' <=> \E k \in DOMAIN pages' : \E j \in DOMAIN pages'[k] : pages'[k][j] = c
    BY DEF ToFree, Ahead
  <1>3. CASE pages' = Append(pages, <<b>>)
    <2>1. /\ last + 1 \in DOMAIN pages' /\ pages'[last + 1] = <<b>>
          /\ \A k \in DOMAIN pages : k \in DOMAIN pages' /\ pages'[k] = pages[k]
      BY <1>1, <1>3
    <2>2. 1 \in DOMAIN pages'[last + 1] /\ pages'[last + 1][1] = b
      BY <2>1
    <2> QED
      BY <1>2, <2>1, <2>2
  <1>4. CASE last # 0 /\ pages' = [pages EXCEPT ![last] = Append(@, b)]
    <2>1. last \in DOMAIN pages /\ pages[last] \in Seq(Blks)
      BY <1>1, <1>4
    <2>2. PICK s, r : s = pages[last] /\ r = Append(s, b)
      OBVIOUS
    <2>3. /\ Len(s) + 1 \in DOMAIN r /\ r[Len(s) + 1] = b
          /\ \A j \in DOMAIN s : j \in DOMAIN r /\ r[j] = s[j]
      BY <2>1, <2>2
    <2>4. DOMAIN pages' = DOMAIN pages /\ \A k \in DOMAIN pages : pages'[k] = IF k = last THEN r ELSE pages[k]
      BY <1>1, <1>4, <2>1, <2>2
    <2>5. ToFree(b)'
      BY <1>2, <2>1, <2>3, <2>4
    <2>6. ASSUME NEW c, ToFree(c) PROVE ToFree(c)'
      <3>1a. PICK k \in DOMAIN pages : \E j \in DOMAIN pages[k] : pages[k][j] = c
        BY <1>2, <2>6
      <3>1. PICK j \in DOMAIN pages[k] : pages[k][j] = c
        BY <3>1a
      <3>2. k \in DOMAIN pages' /\ j \in DOMAIN pages'[k] /\ pages'[k][j] = c
        BY <2>2, <2>3, <2>4, <3>1
      <3> QED
        BY <1>2, <3>2
    <2> QED
      BY <2>5, <2>6
  <1> QED
    BY <1>3, <1>4 DEF lbz_nat_sit_add_blkid

\* A replaced copy stays on the list until it is unmapped, or is kept.
LEMMA FreedNext ==
    ASSUME CpInv, CpInv', MoreTypes, Freed, [Next]_vars
    PROVE  Freed'
  <1>0. /\ CpType /\ ghost \in [kept : SUBSET Blks, forgot : Nat, copies : 0 .. MaxCopies, rules : 0 .. MaxRules]
        /\ fs \in [pc : {"idle", "write", "commit", "halt"}, dirty : SUBSET Slots,
                   cur : [Slots -> {0, 1}], disk : [Slots -> {0, 1}], cps : Nat]
        /\ child \in [Slots -> [pc : TaskPc, err : BOOLEAN]]
    BY DEF CpInv, CpType, MoreTypes
  <1>1. ASSUME NEW n \in Slots, ~faulty', Settled(n)', Old(n)' \in mapped'
        PROVE  Old(n)' \in ghost'.kept \/ ToFree(Old(n))'
    <2>g. ASSUME ~faulty, Settled(n), Old(n) \in mapped
          PROVE  Old(n) \in ghost.kept \/ ToFree(Old(n))
      BY <2>g DEF Freed
    <2>1. ASSUME ~faulty, Settled(n), fs'.cur = fs.cur, UNCHANGED <<tx, pages>>,
                 Old(n) \in mapped' => Old(n) \in mapped \/ Old(n) \in ghost'.kept,
                 Old(n) \in ghost.kept => Old(n) \in ghost'.kept
          PROVE  Old(n)' \in ghost'.kept \/ ToFree(Old(n))'
      <3>1. Old(n)' = Old(n) /\ (ToFree(Old(n))' <=> ToFree(Old(n)))
        BY <2>1 DEF Old, ToFree, Ahead
      <3> QED
        BY <1>1, <2>g, <2>1, <3>1
    <2>2. CASE CheckpointStart
      <3>1. PICK dirty \in SUBSET Slots \ {{}} :
               /\ fs' = [fs EXCEPT !.pc = "write", !.dirty = dirty, !.cps = @ + 1,
                                   !.cur = [m \in Slots |-> IF m \in dirty THEN 1 - @[m] ELSE @[m]]]
               /\ child' = [m \in Slots |-> IF m \in dirty THEN [NoTask EXCEPT !.pc = "new"] ELSE NoTask]
               /\ fs.pc = "idle" /\ ~faulty /\ UNCHANGED <<tx, pages, mapped, ghost>>
        BY <2>2 DEF CheckpointStart
      <3>2. /\ fs'.pc = "write" /\ fs'.dirty = dirty
            /\ fs'.cur = [m \in Slots |-> IF m \in dirty THEN 1 - fs.cur[m] ELSE fs.cur[m]]
        BY <1>0, <3>1
      <3>3. n \notin dirty
        BY <1>1, <3>1, <3>2 DEF Settled, NoTask
      <3>4. Old(n)' = Old(n)
        BY <3>2, <3>3 DEF Old
      <3>5. Settled(n) /\ (ToFree(Old(n))' <=> ToFree(Old(n)))
        BY <3>1, <3>4 DEF Settled, ToFree, Ahead
      <3> QED
        BY <1>1, <2>g, <3>1, <3>4, <3>5
    <2>3. CASE Commit
      <3>1. /\ fs.pc = "write" /\ UNCHANGED <<tx, pages, mapped, faulty, ghost>> /\ fs'.cur = fs.cur
            /\ \A m \in fs.dirty : BioEnded(m)
        BY <1>0, <2>3 DEF Commit
      <3>2. Settled(n)
        BY <3>1 DEF Settled, BioEnded
      <3> QED
        BY <1>1, <2>1, <3>1, <3>2
    <2>4. CASE lbz_nat_sit_add_rule
      <3>1. PICK K : K = UNION {Range(pages[k]) : k \in DOMAIN pages}
        OBVIOUS
      <3>2. /\ UNCHANGED <<fs, child, mapped, faulty>> /\ ghost'.kept = ghost.kept \cup K
        BY <1>0, <2>4, <3>1 DEF lbz_nat_sit_add_rule
      <3>3. Settled(n) /\ Old(n)' = Old(n)
        BY <1>1, <3>2 DEF Settled, Old
      <3>4. ToFree(Old(n)) => Old(n) \in K
        BY <3>1 DEF ToFree, Range
      <3> QED
        BY <1>1, <2>g, <3>2, <3>3, <3>4
    <2>5. ASSUME NEW m \in Slots, ChildStep(m) \/ ChildRefused(m, "queued") \/ ChildEnds(m, TRUE)
          PROVE  Old(n)' \in ghost'.kept \/ ToFree(Old(n))'
      <3>0. fs' = fs /\ tx' = tx /\ child' = [child EXCEPT ![m] = child'[m]] /\ ~faulty
        BY <1>0, <1>1, <2>5 DEF ChildStep, ChildSubmit, ChildWaits, ChildDispatch, ChildRefused, ChildEnds, ChildCounted
      <3>1. CASE ChildDispatch(m)
        <4>1. /\ UNCHANGED <<fs, tx, mapped, ghost, faulty>> /\ child[m].pc \in Open
              /\ lbz_nat_sit_add_blkid(lbz_nat_sit_to_free(Target(m)))
          BY <3>1 DEF ChildDispatch, Open
        <4>2. fs.cur[m] \in {0, 1} /\ tx.pc = "idle"
          BY <1>0, <4>1 DEF CpInv, Phases
        <4>3. lbz_nat_sit_to_free(Target(m)) = Old(m) /\ Old(m) \in Blks
          BY <1>0, <4>2, OtherCopy, TargetOld DEF Target, Old
        <4>c. PICK o : o = Old(m)
          OBVIOUS
        <4>4. ToFree(o)' /\ \A c : ToFree(c) => ToFree(c)'
          BY <1>0, <4>1, <4>2, <4>3, <4>c, ListKeeps
        <4>5. Old(n)' = Old(n)
          BY <4>1 DEF Old
        <4>6. CASE n = m
          <5>1. o = Old(n)'
            BY <4>5, <4>6, <4>c
          <5> QED
            BY <4>4, <5>1 DEF ToFree
        <4>7. CASE n # m
          <5>1. child'[n] = child[n]
            BY <1>0, <3>0, <4>7
          <5>2. Settled(n)
            BY <1>1, <4>1, <5>1 DEF Settled
          <5>3. PICK c : c = Old(n)
            OBVIOUS
          <5>4. c \in ghost.kept \/ ToFree(c)
            BY <1>1, <2>g, <4>1, <4>5, <5>2, <5>3
          <5>5. c \in ghost'.kept \/ ToFree(c)'
            BY <4>1, <4>4, <5>4
          <5>6. c = Old(n)'
            BY <4>5, <5>3
          <5> QED
            BY <5>5, <5>6 DEF ToFree
        <4> QED
          BY <4>6, <4>7
      <3>2. CASE ~ChildDispatch(m)
        <4>1. /\ pages' = pages
              /\ (child'[m].pc \in {"device", "count", "done"} => child[m].pc \in {"device", "count", "done"})
              /\ mapped' \in {mapped, mapped \cup {Target(m)}} /\ ghost'.kept \in {ghost.kept, ghost.kept \ {Target(m)}}
          <5>1. CASE ChildSubmit(m)
            BY <1>0, <3>0, <5>1 DEF ChildSubmit
          <5>2. CASE ChildWaits(m) \/ ChildCounted(m)
            BY <1>0, <3>0, <5>2 DEF ChildWaits, ChildCounted
          <5>3. CASE ChildRefused(m, "submit") \/ ChildRefused(m, "queued")
            BY <1>1, <5>3 DEF ChildRefused
          <5>4. CASE ChildEnds(m, TRUE) \/ ChildEnds(m, FALSE)
            BY <1>0, <1>1, <5>4 DEF ChildEnds
          <5> QED
            BY <2>5, <3>2, <5>1, <5>2, <5>3, <5>4 DEF ChildStep
        <4>2. Settled(n)
          <5>1. n # m => child'[n] = child[n]
            BY <1>0, <3>0
          <5> QED
            BY <1>1, <3>0, <4>1, <5>1 DEF Settled
        <4>3. Old(n) # Target(m)
          BY <1>0, TargetOld
        <4> QED
          BY <2>1, <3>0, <4>1, <4>2, <4>3
      <3> QED
        BY <3>1, <3>2
    <2>6. CASE FatherStep \/ FatherEnds(TRUE)
      <3>1. /\ UNCHANGED <<child, tx, pages, mapped, ghost>> /\ fs'.cur = fs.cur /\ fs'.pc = fs.pc
            /\ fs'.dirty = fs.dirty /\ ~faulty
        <4>1. CASE FatherSubmit \/ FatherDispatch \/ FatherCounted
          BY <1>1, <4>1 DEF FatherSubmit, FatherDispatch, FatherCounted
        <4>2. CASE FatherEnds(TRUE) \/ FatherEnds(FALSE)
          <5>1. /\ UNCHANGED <<child, tx, pages, mapped, ghost>> /\ (faulty => faulty')
                /\ fs' = fs \/ fs' = [fs EXCEPT !.disk = fs.cur]
            BY <4>2 DEF FatherEnds
          <5> QED
            BY <1>0, <1>1, <5>1
        <4> QED
          BY <2>6, <4>1, <4>2 DEF FatherStep
      <3>2. Settled(n)
        BY <1>1, <3>1 DEF Settled
      <3> QED
        BY <2>1, <3>1, <3>2
    <2>7. CASE FlushDone
      <3>1. UNCHANGED <<child, pages, mapped, faulty, ghost>> /\ father.woken /\ tx.pc = "idle"
        BY <2>7 DEF FlushDone
      <3>2. CASE father.err
        BY <1>0, <1>1, <2>7, <3>2 DEF FlushDone, Settled
      <3>3. CASE ~father.err
        <4>1. tx' = [pc |-> "walk", page |-> 1, i |-> 1] /\ fs' = fs
          BY <2>7, <3>3 DEF FlushDone
        <4>2. Settled(n) /\ Old(n)' = Old(n)
          BY <1>1, <3>1, <4>1 DEF Settled, Old
        <4>3. ASSUME ToFree(Old(n)) PROVE ToFree(Old(n))'
          <5>1a. PICK k \in DOMAIN pages : \E j \in DOMAIN pages[k] : pages[k][j] = Old(n)
            BY <4>3 DEF ToFree
          <5>1. PICK j \in DOMAIN pages[k] : pages[k][j] = Old(n)
            BY <5>1a
          <5>2. k \in Nat \ {0} /\ j \in Nat \ {0}
            BY <1>0, <5>1 DEF CpType
          <5>3. Ahead(k, j)'
            BY <4>1, <5>2 DEF Ahead
          <5> QED
            BY <3>1, <4>2, <5>1, <5>3 DEF ToFree
        <4> QED
          BY <1>1, <2>g, <3>1, <4>2, <4>3
      <3> QED
        BY <3>2, <3>3
    <2>8. CASE TxRemove
      <3>1. /\ tx.pc = "walk" /\ tx.page <= Len(pages) /\ mapped' = mapped \ {Entry}
            /\ UNCHANGED <<fs, child, pages, faulty>>
            /\ ghost'.kept = ghost.kept \ {Entry}
            /\ tx' = [tx EXCEPT !.pc = "release"] \/ tx' = NextEntry
        BY <1>0, <2>8 DEF TxRemove
      <3>2. Settled(n) /\ Old(n)' = Old(n)
        BY <1>1, <3>1 DEF Settled, Old
      <3>3. Old(n) # Entry /\ Old(n) \in mapped
        BY <1>1, <3>1, <3>2
      <3>4. ASSUME ToFree(Old(n)) PROVE ToFree(Old(n))'
        <4>1a. PICK k \in DOMAIN pages : \E j \in DOMAIN pages[k] : pages[k][j] = Old(n) /\ Ahead(k, j)
          BY <3>4 DEF ToFree
        <4>1. PICK j \in DOMAIN pages[k] : pages[k][j] = Old(n) /\ Ahead(k, j)
          BY <4>1a
        <4>2. k > tx.page \/ (k = tx.page /\ j > tx.i)
          BY <3>1, <3>3, <4>1 DEF Ahead, Entry
        <4>3. Ahead(k, j)'
          <5>1. CASE tx' = [tx EXCEPT !.pc = "release"]
            <6>1. tx'.page = tx.page /\ tx'.i = tx.i
              BY <1>0, <5>1 DEF CpType
            <6> QED
              BY <4>2, <6>1 DEF Ahead
          <5>2. CASE tx' = NextEntry
            BY <3>1, <4>2, <5>2, WalkGoesOn
          <5> QED
            BY <3>1, <5>1, <5>2
        <4> QED
          BY <3>1, <3>2, <4>1, <4>3 DEF ToFree
      <3> QED
        BY <1>1, <2>g, <3>1, <3>2, <3>3, <3>4
    <2>9. CASE TxRelease
      <3>1. tx.pc = "release" /\ tx.page <= Len(pages) /\ tx' = NextEntry
            /\ UNCHANGED <<fs, child, pages, mapped, faulty, ghost>>
        BY <2>9 DEF TxRelease, CpInv, Walk
      <3>2. Settled(n) /\ Old(n)' = Old(n)
        BY <1>1, <3>1 DEF Settled, Old
      <3>3. ASSUME ToFree(Old(n)) PROVE ToFree(Old(n))'
        <4>1a. PICK k \in DOMAIN pages : \E j \in DOMAIN pages[k] : pages[k][j] = Old(n) /\ Ahead(k, j)
          BY <3>3 DEF ToFree
        <4>1. PICK j \in DOMAIN pages[k] : pages[k][j] = Old(n) /\ Ahead(k, j)
          BY <4>1a
        <4>2. Ahead(k, j)'
          BY <3>1, <4>1, WalkGoesOn DEF Ahead
        <4> QED
          BY <3>1, <3>2, <4>1, <4>2 DEF ToFree
      <3> QED
        BY <1>1, <2>g, <3>1, <3>2, <3>3
    <2>10. CASE TxEnd
      <3>1. tx.pc = "walk" /\ tx.page > Len(pages) /\ UNCHANGED <<mapped, faulty, ghost>>
            /\ fs' = [fs EXCEPT !.pc = "idle"] /\ fs.pc = "commit"
        BY <2>10 DEF TxEnd, CpInv, Phases
      <3>2. Settled(n) /\ Old(n)' = Old(n)
        BY <1>0, <3>1 DEF Settled, Old
      <3>3. ~ToFree(Old(n))
        BY <1>0, <3>1 DEF ToFree, Ahead, CpType
      <3> QED
        BY <1>1, <2>g, <3>1, <3>2, <3>3
    <2>11. ASSUME NEW b \in Blks, GcCopies(b) \/ GcStep(b)
           PROVE  Old(n)' \in ghost'.kept \/ ToFree(Old(n))'
      <3>1. /\ UNCHANGED <<fs, child, tx, pages, faulty>> /\ ghost.kept \subseteq ghost'.kept
            /\ mapped' \subseteq mapped \cup ghost'.kept
        BY <1>0, <2>11 DEF GcCopies, GcStep, GcRmap, GcMap, GcOld
      <3>2. Settled(n)
        BY <1>1, <3>1 DEF Settled
      <3> QED
        BY <1>1, <2>1, <3>1, <3>2
    <2>12. CASE UNCHANGED vars
      <3>1. Settled(n)
        BY <1>1, <2>12 DEF Settled, vars
      <3> QED
        BY <1>1, <2>1, <2>12, <3>1 DEF vars
    <2> QED
      BY <2>2, <2>3, <2>4, <2>5, <2>6, <2>7, <2>8, <2>9, <2>10, <2>11, <2>12 DEF Next, DeviceFails, Submitter
  <1> QED
    BY <1>1 DEF Freed, ToFree

-----------------------------------------------------------------------------
(* Together.                                                               *)

\* The invariant holds of a file system just made.
LEMMA NatSitInit == Init => NatSitInv
  <1> SUFFICES ASSUME Init PROVE NatSitInv
    OBVIOUS
  <1>1. CpInv
    BY CpInit
  <1>2. MoreTypes
    <2>1. mapped \subseteq Blks
      BY DEF Init, Blks
    <2> QED
      BY <2>1, NatSitAssumption DEF Init, MoreTypes
  <1>3. ValidExact
    BY DEF Init, ValidExact
  <1>4. NatSitInflightExact
    <2>1. Busy = {} /\ father.pc = "none" /\ inflight = 0 /\ ghost.forgot = 0
      BY DEF Init, Busy, NoTask, NoFather
    <2>2. TxWrites = 0
      <3>1. Cardinality({}) = 0
        BY FS_EmptySet
      <3> QED
        BY <2>1, <3>1, TxWritesNat
    <2> QED
      BY <2>1, <2>2 DEF NatSitInflightExact
  <1>5. Freed
    <2>1. ASSUME NEW n \in Slots PROVE Old(n) \notin mapped
      <3>1. mapped = {Target(m) : m \in Slots}
        BY DEF Init, Target
      <3> QED
        BY <1>1, <3>1, TargetOld DEF CpInv
    <2> QED
      BY <2>1 DEF Freed
  <1> QED
    BY <1>1, <1>2, <1>3, <1>4, <1>5 DEF NatSitInv

\* Every step keeps it: lbz_nat_sit_add_write, the children, the father,
\* lbz_nat_sit_tx_complete, GC and a new rule, in any order.
THEOREM NatSitInductive == Spec => []NatSitInv
  <1>1. NatSitInv /\ [Next]_vars => NatSitInv'
    <2> SUFFICES ASSUME NatSitInv, [Next]_vars PROVE NatSitInv'
      OBVIOUS
    <2>1. CpInv /\ MoreTypes /\ ValidExact /\ NatSitInflightExact /\ Freed
      BY DEF NatSitInv
    <2>2. CpInv'
      BY <2>1, CpNext
    <2> QED
      BY <2>1, <2>2, MoreTypesNext, ValidNext, InflightNext, FreedNext DEF NatSitInv
  <1> QED
    BY <1>1, NatSitInit, PTL DEF Spec

\* The types; no block has more than three valid entries in the reverse map.
THEOREM NatSitTypeCorrect == Spec => []TypeOK
  <1>1. NatSitInv => TypeOK
    <2> SUFFICES ASSUME NatSitInv PROVE TypeOK
      OBVIOUS
    <2>1. CpType /\ MoreTypes /\ ValidExact
      BY DEF NatSitInv, CpInv
    <2>2. \A b \in Blks : valid[b] \in 0 .. 3
      BY <2>1 DEF ValidExact
    <2>3. valid \in [Blks -> 0 .. 3]
      BY <2>1, <2>2 DEF MoreTypes
    <2>4. fs \in [pc : {"idle", "write", "commit", "halt"}, dirty : SUBSET Slots,
                  cur : [Slots -> {0, 1}], disk : [Slots -> {0, 1}], cps : 0 .. MaxCps]
      BY <2>1 DEF CpType, MoreTypes
    <2> QED
      BY <2>1, <2>3, <2>4 DEF CpType, MoreTypes, TypeOK
  <1> QED
    BY <1>1, NatSitInductive, PTL

\* Reverse map and weights agree with the map although lbz_nat_sit_tx_complete
\* and the GC callbacks interleave freely: nothing is released twice or leaked.
THEOREM FreedOnce == Spec => []ValidExact
  <1>1. NatSitInv => ValidExact
    BY DEF NatSitInv
  <1> QED
    BY <1>1, NatSitInductive, PTL

\* nat_sit_inflight_writes counts each transaction write once on every path,
\* errors included; only a rule installed in the middle makes it fall short.
THEOREM TransactionsCounted == Spec => []NatSitInflightExact
  <1>1. NatSitInv => NatSitInflightExact
    BY DEF NatSitInv
  <1> QED
    BY <1>1, NatSitInductive, PTL

\* Between checkpoints each slot has one mapped copy, up to those that GC or a
\* new rule kept: the list and its walk lose no block.
THEOREM DuplicatesFreed == Spec => []HalfFreed
  <1>1. NatSitInv => HalfFreed
    <2> SUFFICES ASSUME NatSitInv, fs.pc = "idle", ~faulty, NEW n \in Slots, Copy(n, 1 - fs.cur[n]) \in mapped
                 PROVE  Copy(n, 1 - fs.cur[n]) \in ghost.kept
      BY DEF HalfFreed
    <2>1. Settled(n) /\ Old(n) = Copy(n, 1 - fs.cur[n])
      BY DEF Settled, Old
    <2>2. ~ToFree(Old(n))
      BY DEF ToFree, NatSitInv, CpInv, Sides
    <2> QED
      BY <2>1, <2>2 DEF NatSitInv, Freed
  <1> QED
    BY <1>1, NatSitInductive, PTL
=============================================================================
