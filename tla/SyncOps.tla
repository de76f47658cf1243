------------------------------ MODULE SyncOps ------------------------------
(***************************************************************************)
(* The ops device sync is made of, the order every device merges them in,  *)
(* and what one op does to a log and to the rows beside it:                *)
(* kernel/src/sync/log.rs without its state.                               *)
(*                                                                         *)
(* A table, and the JSON of a key, are abstracted to a Row; a value to a    *)
(* member of Val.  Device ids are compared as strings by the code and as    *)
(* numbers here: all that is used of either is that they are ordered.       *)
(***************************************************************************)
EXTENDS Naturals, FiniteSets

CONSTANTS
    Device,     \* the devices, as numbers, for the order on their ids
    Row,        \* rows, each a table and a key in it
    Col,        \* the replicated columns
    Val,        \* what a cell may say
    Default,    \* what a column says on a row made without naming it
    Null,       \* what a tombstone carries
    Tomb,       \* the column name of a tombstone (the empty string)
    Absent      \* no row

ASSUME OpsAssumption ==
    /\ Device \subseteq Nat
    /\ Default \in Val
    /\ Null \notin Val
    /\ Tomb \notin Col
    /\ Absent \notin [Col -> Val]

Column == Col \union {Tomb}

(* One cell as it travels.  A backfilled op alone has hlc 0.                *)
Op == [origin : Device, seq : Nat \ {0}, hlc : Nat, row : Row,
       col : Column, val : Val \union {Null}]

(* x is after y in the order every device merges in.                        *)
After(x, y) ==
    \/ x.hlc > y.hlc
    \/ x.hlc = y.hlc /\ x.origin > y.origin

(* x speaks for the cell y is about: it is a word on that cell, or the      *)
(* tombstone of its row.                                                    *)
SpeaksFor(x, y) ==
    /\ x.row = y.row
    /\ x.col = y.col \/ x.col = Tomb

(* What retire drops from a log that x lands in.                            *)
Overtakes(x, y) == SpeaksFor(x, y) /\ After(x, y)

Retire(log, x) == {y \in log : ~Overtakes(x, y)}

(* A plausible mistake in File: the op lands and nothing is retired. *)
FileOnTop(log, x) == log \union {x}

(* The op is put in the log, and what it overtakes goes.                    *)
File(log, x) == Retire(log \union {x}, x)

(* The log holds something x cannot beat.                                   *)
Overtaken(log, x) == \E y \in log : SpeaksFor(y, x) /\ ~After(x, y)

Filed(log, x) == \E y \in log : y.origin = x.origin /\ y.seq = x.seq

(* A set of ops with everything overtaken taken out of it.                  *)
Compact(ops) == {x \in ops : \A y \in ops : ~Overtakes(y, x)}

(* The cells of a row that a log has a word on.                             *)
Cells(log, row) == {x \in log : x.row = row /\ x.col # Tomb}

(* The row a log describes: nothing without a cell, and otherwise what its  *)
(* cells say with the defaults beside them.                                 *)
Described(log, row) ==
    IF Cells(log, row) = {}
    THEN Absent
    ELSE [c \in Col |->
            IF \E x \in Cells(log, row) : x.col = c
            THEN (CHOOSE x \in Cells(log, row) : x.col = c).val
            ELSE Default]

(* The clock an op is issued: now << COUNTER, or one past the last.         *)
Issue(last, now, counter) ==
    IF now * counter > last THEN now * counter ELSE last + 1

----------------------------------------------------------------------------
(* What a peer is owed, and the cut of it that makes one frame.             *)

Before(x, y) ==
    \/ x.origin < y.origin
    \/ x.origin = y.origin /\ x.seq < y.seq

(* A run of the set that a read in (origin, seq) order meets first.         *)
LeadsOff(first, ops) ==
    /\ first \subseteq ops
    /\ \A x \in first, y \in ops \ first : Before(x, y)

(* Every op past what the peer is known to hold.                            *)
Owed(log, theirs) == {x \in log : x.seq > theirs[x.origin]}

Highest(seqs) == CHOOSE n \in seqs : \A m \in seqs : m <= n

(* A plausible mistake in Word: an origin counts as finished though the budget left some *)
(* of its ops out of the frame.                                             *)
WordOverUnsent(o, read, sent, mine, theirs, batch) ==
    LET finished == Cardinality(read) < batch \/ \E x \in read : x.origin > o
        seqs     == {x.seq : x \in {y \in sent : y.origin = o}}
        word     == IF finished THEN mine[o]
                    ELSE IF seqs = {} THEN 0
                    ELSE Highest(seqs)
    IN  IF word > theirs[o] THEN word ELSE 0

(* The word a frame gives for an origin; 0 is none.                         *)
Word(o, read, sent, mine, theirs, batch) ==
    LET finished == /\ \/ Cardinality(read) < batch
                       \/ \E x \in read : x.origin > o
                    /\ \A x \in read \ sent : x.origin # o
        seqs     == {x.seq : x \in {y \in sent : y.origin = o}}
        word     == IF finished THEN mine[o]
                    ELSE IF seqs = {} THEN 0
                    ELSE IF Highest(seqs) < mine[o] THEN Highest(seqs)
                    ELSE mine[o]
    IN  IF word > theirs[o] THEN word ELSE 0

(* The furthest of two clocks, per origin.                                  *)
Furthest(a, b) == [o \in Device |-> IF a[o] > b[o] THEN a[o] ELSE b[o]]

(* A clock that says nothing of any origin.                                 *)
NoWord == [o \in Device |-> 0]

(* How far along each origin some ops reach: the highest sequence of it     *)
(* among them.                                                              *)
Reach(ops) ==
    [o \in Device |->
        LET seqs == {x.seq : x \in {y \in ops : y.origin = o}}
        IN  IF seqs = {} THEN 0 ELSE Highest(seqs)]

(* advance: from where the clock stands, over the contiguous run the log    *)
(* now has of the origin.                                                   *)
Contiguous(log, o, from, to) ==
    /\ from <= to
    /\ \A n \in (from + 1)..to : \E x \in log : x.origin = o /\ x.seq = n
    /\ \A x \in log : ~(x.origin = o /\ x.seq = to + 1)

Advance(log, o, from) ==
    CHOOSE to \in {from} \union {x.seq : x \in log} : Contiguous(log, o, from, to)
----------------------------------------------------------------------------
(* What one apply does to a log, its vector clock and its hybrid clock, as  *)
(* SyncApply shows the loop of the code to come to.                         *)

(* As plausible mistakes in Merge: what comes is let in but retires nothing here; and what *)
(* comes last wins.                                                         *)
MergeWithoutRetire(log, ops) == log \union {x \in ops : ~Overtaken(log, x)}
MergeLastArrival(log, ops) ==
    {y \in log : \A x \in ops : ~SpeaksFor(x, y)} \union Compact(ops)

Merge(log, ops) == Compact(log \union ops)

(* The origins apply walks: those of the ops it did not find in the log at  *)
(* their turn, either new or retired by one taken before them.              *)
Walked(me, log, ops) ==
    {o \in Device \ {me} : \E x \in ops :
        /\ x.origin = o
        /\ \/ x \notin log
           \/ \E y \in ops : Before(y, x) /\ Overtakes(y, x)}

HaveAfter(me, log, have, ops, held) ==
    LET walked == [o \in Device |->
            IF o \in Walked(me, log, ops) THEN Advance(Merge(log, ops), o, have[o])
            ELSE have[o]]
    IN  [o \in Device |->
            IF o # me /\ held[o] > walked[o] THEN held[o] ELSE walked[o]]

(* The clock t an apply leaves: the latest of this device's own and those   *)
(* of the ops it saw; one already in the log is no news.                    *)
ClockAfter(log, clock, ops, t) ==
    LET seen == {clock} \union {x.hlc : x \in ops \ log}
    IN  t \in seen /\ \A u \in seen : u <= t
=============================================================================
