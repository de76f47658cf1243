----------------------------- MODULE SyncApply -----------------------------
(***************************************************************************)
(* Log::apply, op by op: what one device's store does with the frames its   *)
(* peers send.  The loop runs in one transaction on the writer thread, so   *)
(* `store` is what is committed and `work` is what the open transaction has *)
(* made of it; a failure of the log itself throws `work` away.              *)
(*                                                                         *)
(* Two kinds of op are kept without being applied: one for a column this    *)
(* build does not declare (outside Known), and one a constraint refuses     *)
(* (its value is in Refuses).                                               *)
(***************************************************************************)
EXTENDS SyncOps

CONSTANTS
    Me,         \* the device whose store this is
    Known,      \* the columns this build declares
    Refuses,    \* the values a constraint of the schema refuses
    Worlds,     \* the sets of ops there may be on other devices
    FrameCap    \* bound: the most ops in a frame

(* A device stamps its ops upward, but for those it backfilled, which are   *)
(* all at 0: never a tombstone, nor a cell it had already spoken of or one  *)
(* of a row it had buried.  x is an op it issued before y.                  *)
Issued(x, y) ==
    /\ x.hlc = 0 => x.col # Tomb
    /\ y.hlc = 0 => y.col # Tomb
    /\ x.origin = y.origin =>
         \/ x.hlc < y.hlc
         \/ y.hlc = 0 /\ ~SpeaksFor(x, y)

ASSUME ApplyAssumption ==
    /\ IsFiniteSet(Device) /\ Me \in Device
    /\ Known \subseteq Col
    /\ Refuses \subseteq Val \ {Default}
    /\ FrameCap \in Nat

ASSUME WorldsAssumption ==
    \A w \in Worlds :
        /\ w \subseteq Op /\ IsFiniteSet(w)
        /\ \A x \in w : x.col # Tomb => x.val \in Val
        /\ \A x, y \in w : x # y =>
                (Before(x, y) /\ Issued(x, y)) \/ (Before(y, x) /\ Issued(y, x))

VARIABLES
    world,      \* the ops of the other devices, chosen once
    store,      \* what is committed: log, rows, have, hlc
    work,       \* the open transaction's copy, or the committed store
    frame,      \* the frame being applied: ops and held
    todo,       \* the ops of the frame still to take
    origins,    \* the origins to walk when they are all taken
    kept,       \* ops this frame put in the log (Applied::kept)
    stage,      \* "idle", "ops", "clock"
    taken       \* history: every op of every frame committed

applyVars == <<world, store, work, frame, todo, origins, kept, stage, taken>>

NoFrame == [ops |-> {}, held |-> NoWord]

ApplyInit ==
    /\ world \in Worlds
    /\ store = [log |-> {}, rows |-> [r \in Row |-> Absent], have |-> NoWord, hlc |-> 0]
    /\ work = store
    /\ frame = NoFrame
    /\ todo = {}
    /\ origins = {}
    /\ kept = 0
    /\ stage = "idle"
    /\ taken = {}

----------------------------------------------------------------------------
(* Rows.                                                                    *)

Blank == [c \in Col |-> Default]

(* put: the cell is written where the key says, on a row made with its      *)
(* defaults if there is none; a refusal leaves the row as it was.           *)
Put(rows, x) ==
    IF x.val \in Refuses THEN rows
    ELSE [rows EXCEPT ![x.row] = [(IF @ = Absent THEN Blank ELSE @) EXCEPT ![x.col] = x.val]]

(* A plausible mistake in Bury: the cells newer than the deletion are forgotten. *)
BuryAll(rows, log, x) == [rows EXCEPT ![x.row] = Absent]

(* tombstone: the row goes, and the cells newer than the deletion are put   *)
(* back out of the log, those the schema refuses passed over.               *)
Bury(rows, log, x) ==
    LET newer == {y \in Cells(log, x.row) :
                    After(y, x) /\ y.col \in Known /\ y.val \notin Refuses}
    IN  [rows EXCEPT ![x.row] =
            IF newer = {} THEN Absent
            ELSE [c \in Col |-> IF \E y \in newer : y.col = c
                                THEN (CHOOSE y \in newer : y.col = c).val
                                ELSE Default]]

----------------------------------------------------------------------------
(* The transaction.                                                         *)

Begin(ops, held) ==
    /\ stage = "idle"
    /\ frame' = [ops |-> ops, held |-> held]
    /\ todo' = ops
    /\ origins' = {}
    /\ kept' = 0
    /\ stage' = "ops"
    /\ UNCHANGED <<world, store, work, taken>>

(* The ops are taken in (origin, seq) order.                                *)
IsNext(x) == x \in todo /\ \A y \in todo \ {x} : Before(x, y)

(* What every op not yet in the log does, whatever becomes of it.           *)
Seen(x) ==
    /\ stage = "ops"
    /\ IsNext(x)
    /\ ~Filed(work.log, x)
    /\ todo' = todo \ {x}
    /\ origins' = IF x.origin # Me THEN origins \union {x.origin} ELSE origins
    /\ UNCHANGED <<world, store, frame, stage, taken>>

(* A plausible mistake in ClockSeeing: the clock does not learn from what it merges. *)
ClockUnmoved(x) == work.hlc

ClockSeeing(x) == IF x.hlc > work.hlc THEN x.hlc ELSE work.hlc

PassOver(x) ==
    /\ stage = "ops"
    /\ IsNext(x)
    /\ Filed(work.log, x)
    /\ todo' = todo \ {x}
    /\ UNCHANGED <<world, store, work, frame, origins, kept, stage, taken>>

DropOvertaken(x) ==
    /\ Seen(x)
    /\ Overtaken(work.log, x)
    /\ work' = [work EXCEPT !.hlc = ClockSeeing(x)]
    /\ UNCHANGED kept

KeepUnknown(x) ==
    /\ Seen(x)
    /\ ~Overtaken(work.log, x)
    /\ x.col \notin Known \union {Tomb}
    /\ work' = [work EXCEPT !.hlc = ClockSeeing(x), !.log = File(@, x)]
    /\ kept' = kept + 1

(* The row is written first, refused or not, and the op filed after.        *)
Write(x) ==
    /\ Seen(x)
    /\ ~Overtaken(work.log, x)
    /\ x.col \in Known \union {Tomb}
    /\ work' = [work EXCEPT
                    !.hlc  = ClockSeeing(x),
                    !.rows = IF x.col = Tomb THEN Bury(@, work.log, x) ELSE Put(@, x),
                    !.log  = File(@, x)]
    /\ kept' = kept + 1

(* advance, for each origin the frame brought something of.                 *)
Walk ==
    /\ stage = "ops"
    /\ todo = {}
    /\ work' = [work EXCEPT !.have = [o \in Device |->
                    IF o \in origins THEN Advance(work.log, o, @[o]) ELSE @[o]]]
    /\ stage' = "clock"
    /\ UNCHANGED <<world, store, frame, todo, origins, kept, taken>>

(* A plausible mistake in Vouch: the word is taken whatever the clock said before. *)
VouchBlindly(have, held) ==
    [o \in Device |-> IF o # Me /\ held[o] # 0 THEN held[o] ELSE have[o]]

(* vouch, for each word of the frame, and the transaction commits.          *)
Vouch(have, held) ==
    [o \in Device |-> IF o # Me /\ held[o] > have[o] THEN held[o] ELSE have[o]]

Commit ==
    /\ stage = "clock"
    /\ work' = [work EXCEPT !.have = Vouch(@, frame.held)]
    /\ store' = work'
    /\ taken' = taken \union frame.ops
    /\ stage' = "idle"
    /\ frame' = NoFrame
    /\ origins' = {}
    /\ kept' = 0
    /\ UNCHANGED <<world, todo>>

(* The log could not be written: nothing of the frame is left.              *)
Rollback ==
    /\ stage # "idle"
    /\ work' = store
    /\ stage' = "idle"
    /\ frame' = NoFrame
    /\ todo' = {}
    /\ origins' = {}
    /\ kept' = 0
    /\ UNCHANGED <<world, store, taken>>

(* The words a sender may give: none, up to what it sends, or all there is. *)
Words(ops) == {NoWord, Reach(ops), Reach(world)}

ApplyNext ==
    \/ \E ops \in SUBSET world :
          /\ Cardinality(ops) <= FrameCap
          /\ \E held \in Words(ops) : Begin(ops, held)
    \/ \E x \in todo : PassOver(x) \/ DropOvertaken(x) \/ KeepUnknown(x) \/ Write(x)
    \/ Walk
    \/ Commit
    \/ Rollback

ApplySpec == ApplyInit /\ [][ApplyNext]_applyVars
----------------------------------------------------------------------------
(* Properties.                                                              *)

(* Every variable has its type: the two copies of the store, the frame and  *)
(* the loop's progress through it.                                          *)
Stores == [log : SUBSET Op, rows : [Row -> {Absent} \union [Col -> Val]],
           have : [Device -> Nat], hlc : Nat]
ApplyTypeOK ==
    /\ world \subseteq Op
    /\ store \in Stores
    /\ work \in Stores
    /\ frame \in [ops : SUBSET world, held : [Device -> Nat]]
    /\ todo \subseteq frame.ops
    /\ origins \subseteq Device \ {Me}
    /\ kept \in Nat
    /\ stage \in {"idle", "ops", "clock"}
    /\ taken \subseteq world

Done == taken \union (frame.ops \ todo)

(* Whatever frames came, in whatever order and however often, the log is    *)
(* the last words of everything taken: compaction op by op as they land     *)
(* loses nothing that a compaction of the whole history would keep, and     *)
(* keeps nothing it would drop.  Log::apply, overtaken, file, retire.       *)
LogIsLastWords == work.log = Compact(Done)

(* The rows are what the log says, after every op: a row is there exactly   *)
(* when a cell of it lives, and shows the value of each live cell that this *)
(* build could write, and the default where there is none.  put, tombstone, *)
(* newer.                                                                   *)
Writable(x) == x.col \in Known /\ x.val \notin Refuses
Shows(s) ==
    \A r \in Row :
        LET cells == Cells(s.log, r)
            shown == s.rows[r]
        IN  /\ cells = {} => shown = Absent
            /\ \A x \in cells : Writable(x) => shown # Absent /\ shown[x.col] = x.val
            /\ shown # Absent =>
                  \A c \in Col : (\A x \in cells : x.col # c) => shown[c] = Default
RowsFollowLog == Shows(work)

(* A commit takes the store to the join of its log and the frame, with the  *)
(* clocks that go with it: the loop of the code and the single step the     *)
(* exchange is modelled with are the same.  It counts something kept exactly *)
(* when it moved the log, so no session waiting on the count of landed ops  *)
(* sleeps through a change or is woken for none.  Log::apply; writer_loop   *)
(* reads Applied::kept.                                                     *)
CommitIsMerge ==
    [][stage = "clock" /\ stage' = "idle" =>
         /\ store' # store =>
              /\ store'.log = Merge(store.log, frame.ops)
              /\ store'.have = HaveAfter(Me, store.log, store.have, frame.ops, frame.held)
              /\ ClockAfter(store.log, store.hlc, frame.ops, store'.hlc)
         /\ store'.log # store.log => kept > 0
         /\ kept > 0 => work.log # store.log]_applyVars

(* The clocks: no entry of the vector clock goes back and this device's own *)
(* is never moved by what a peer says, the hybrid clock does not go back    *)
(* and stays at or above every op the log holds, so the next op issued here *)
(* is after all of them.  advance, vouch, and the max in apply.             *)
ClocksKeepUp ==
    [][/\ \A o \in Device : store'.have[o] >= store.have[o]
       /\ store'.have[Me] = store.have[Me]
       /\ store'.hlc >= store.hlc
       /\ \A x \in store'.log : x.hlc <= store'.hlc]_applyVars

----------------------------------------------------------------------------
(* What the loop keeps to on its way through a frame.                       *)

(* Between frames the two copies are one; the ops are taken in their order, *)
(* and the vector clock waits for the walk.                                 *)
InOrder ==
    /\ stage = "idle" => work = store /\ frame = NoFrame /\ todo = {}
    /\ stage = "ops" => work.have = store.have
    /\ stage = "clock" =>
         /\ todo = {}
         /\ work.have = [o \in Device |-> IF o \in origins THEN Advance(work.log, o, store.have[o])
                                         ELSE store.have[o]]
    /\ \A x \in frame.ops \ todo, y \in todo : Before(x, y)

(* What is counted, walked and learned of is what the ops taken so far, put *)
(* to the committed log at once, come to.                                   *)
AsAtOnce ==
    /\ origins = Walked(Me, store.log, frame.ops \ todo)
    /\ ClockAfter(store.log, store.hlc, frame.ops \ todo, work.hlc)
    /\ kept = 0 => work.log = store.log
    /\ kept > 0 => \E x \in work.log : x \notin store.log

ApplyInv ==
    /\ ApplyTypeOK /\ world \in Worlds
    /\ LogIsLastWords /\ store.log = Compact(taken)
    /\ Shows(work) /\ Shows(store)
    /\ \A x \in store.log : x.hlc <= store.hlc
    /\ InOrder /\ AsAtOnce
=============================================================================
