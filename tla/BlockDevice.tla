----------------------------- MODULE BlockDevice ----------------------------
(***************************************************************************)
(* What lbz promises above: a block device with one register per logical   *)
(* block.  A write takes effect at one moment between its submission and   *)
(* its successful completion, or never if it fails; a read returns what    *)
(* the block held at one moment; nothing else changes a block.  The kernel *)
(* may crash, and then nothing is promised any more.                       *)
(***************************************************************************)
CONSTANTS Blks, Values, NULL, Writers, Readers

VARIABLES
    content,    \* the data of each block, NULL while never written
    write,      \* each writer: idle, pending (not yet in effect) or applied
    read,       \* each reader: idle or waiting for the data it will get
    crashed

bdVars == <<content, write, read, crashed>>

Idle == [st |-> "idle", blkid |-> NULL, data |-> NULL]

Init ==
    /\ content = [b \in Blks |-> NULL]
    /\ write = [t \in Writers |-> Idle]
    /\ read = [r \in Readers |-> Idle]
    /\ crashed = FALSE

SubmitWrite(t) ==
    /\ write[t] = Idle
    /\ \E b \in Blks, v \in Values :
          write' = [write EXCEPT ![t] = [st |-> "pending", blkid |-> b, data |-> v]]
    /\ UNCHANGED <<content, read, crashed>>

Apply(t) ==
    /\ write[t].st = "pending"
    /\ content' = [content EXCEPT ![write[t].blkid] = write[t].data]
    /\ write' = [write EXCEPT ![t].st = "applied"]
    /\ UNCHANGED <<read, crashed>>

\* Successful completion of an applied write, failure of one without effect.
CompleteWrite(t) ==
    /\ write[t].st \in {"applied", "pending"}
    /\ write' = [write EXCEPT ![t] = Idle]
    /\ UNCHANGED <<content, read, crashed>>

SubmitRead(r) ==
    /\ read[r] = Idle
    /\ \E b \in Blks : /\ content[b] # NULL
                       /\ read' = [read EXCEPT ![r] = [st |-> "waiting", blkid |-> b,
                                                       data |-> content[b]]]
    /\ UNCHANGED <<content, write, crashed>>

CompleteRead(r) ==
    /\ read[r].st = "waiting"
    /\ read' = [read EXCEPT ![r] = Idle]
    /\ UNCHANGED <<content, write, crashed>>

Crash ==
    /\ crashed' = TRUE
    /\ content' = [b \in Blks |-> NULL]
    /\ write' = [t \in Writers |-> Idle]
    /\ read' = [r \in Readers |-> Idle]

Next ==
    \/ \E t \in Writers : SubmitWrite(t) \/ Apply(t) \/ CompleteWrite(t)
    \/ \E r \in Readers : SubmitRead(r) \/ CompleteRead(r)
    \/ Crash

Spec == Init /\ [][Next]_bdVars
=============================================================================
