---------------------------- MODULE SyncExchange ----------------------------
(***************************************************************************)
(* Device sync: several stores, what each writes on its own, and the        *)
(* conversations that carry it between them (kernel/src/sync/protocol.rs    *)
(* over log.rs).  A device's log, clocks and sequence are on disk and       *)
(* survive a restart; everything about a conversation is in memory and dies *)
(* with it.                                                                 *)
(*                                                                         *)
(* One step is one transaction of a store or one turn of a session's loop.  *)
(* The roster has already let both ends of a link in (sync/service.rs), and *)
(* two devices hold at most one conversation at a time.                     *)
(***************************************************************************)
EXTENDS SyncOps, Sequences

CONSTANTS
    Links,      \* the pairs that may connect, a symmetric relation on Device
    Legacy,     \* per device, the rows a migration left in its store
    Batch,      \* the most ops in a frame (BATCH)
    Counter,    \* 2 ^ COUNTER, the room for a counter under one millisecond
    PipeCap,    \* bound: frames under way from one end to the other
    Now,        \* bound: the readings a device's clock may give
    MaxSeq,     \* bound: the ops each device may write
    MaxFaults   \* bound: the times a link end or a process may go

ASSUME ExchangeAssumption ==
    /\ IsFiniteSet(Device)
    /\ Links \subseteq Device \X Device
    /\ \A d \in Device : <<d, d>> \notin Links
    /\ \A l \in Links : <<l[2], l[1]>> \in Links
    /\ Legacy \in [Device -> SUBSET Row]
    /\ Batch \in Nat \ {0}
    /\ Counter \in Nat \ {0}
    /\ PipeCap \in Nat \ {0}
    /\ Now \subseteq Nat
    /\ MaxSeq \in [Device -> Nat]
    /\ MaxFaults \in Nat

VARIABLES
    log,        \* per device: sync_op
    have,       \* per device: sync_have, 0 where there is no entry
    hlc,        \* per device: sync_self.hlc
    nextSeq,    \* per device: sync_self.next_seq
    phase,      \* per link end: "down", "greeted", "asked", "live"
    cursor,     \* per link end: how far along the peer is known to be
    backlog,    \* per link end: more may be owed
    woken,      \* per link end: ops landed here since it last looked
    pipe,       \* per link end: frames sent and not yet heard
    said,       \* history: every op any device ever wrote
    faults      \* counts against MaxFaults

stores == <<log, have, hlc, nextSeq, said>>
sessions == <<phase, cursor, backlog, woken, pipe>>
vars == <<log, have, hlc, nextSeq, said, phase, cursor, backlog, woken, pipe, faults>>

HaveFrame(h) == [kind |-> "have", ops |-> {}, held |-> h]
OpsFrame(ops, held) == [kind |-> "ops", ops |-> ops, held |-> held]

Shown(d, r) == Described(log[d], r)

----------------------------------------------------------------------------
(* Writing.                                                                 *)

(* A transaction's ops take consecutive sequences in an order nothing says, *)
(* and clocks a tick apart from the first.                                  *)
Stamps(cells, from, next) ==
    {f \in [cells -> from..(next - 1)] :
        /\ \A n \in from..(next - 1) : \E c \in cells : f[c] = n
        /\ \A b, c \in cells : f[b] = f[c] => b = c}

(* The sessions of d hear that something landed in its log.                 *)
Wake(d) == woken' = [l \in Links |-> woken[l] \/ (l[1] = d /\ phase[l] # "down")]

(* emit: one op per cell, each retiring what the log had of the cell -- or, *)
(* for a tombstone, of the row.                                             *)
Emit(d, r, vals) ==
    \E now \in Now, next \in (nextSeq[d] + 1)..(MaxSeq[d] + 1) :
    \E seq \in Stamps(DOMAIN vals, nextSeq[d], next) :
        LET base == Issue(hlc[d], now, Counter)
            ops  == {[origin |-> d, seq |-> seq[c], hlc |-> base + (seq[c] - nextSeq[d]),
                      row |-> r, col |-> c, val |-> vals[c]] : c \in DOMAIN vals}
        IN  /\ log' = [log EXCEPT ![d] = ops \union
                            {y \in @ : \A x \in ops : ~Overtakes(x, y)}]
            /\ have' = [have EXCEPT ![d][d] = next - 1]
            /\ hlc' = [hlc EXCEPT ![d] = base + (next - 1 - nextSeq[d])]
            /\ nextSeq' = [nextSeq EXCEPT ![d] = next]
            /\ said' = said \union ops
            /\ Wake(d)
            /\ UNCHANGED <<phase, cursor, backlog, pipe, faults>>

(* An insert speaks of every replicated column, an update of those that     *)
(* moved, a delete of the row.                                              *)
Insert(d, r) ==
    /\ Shown(d, r) = Absent
    /\ \E vals \in [Col -> Val] : Emit(d, r, vals)

Update(d, r) ==
    /\ Shown(d, r) # Absent
    /\ \E cols \in SUBSET Col \ {{}} : \E vals \in [cols -> Val] :
          /\ \A c \in cols : vals[c] # Shown(d, r)[c]
          /\ Emit(d, r, vals)

Delete(d, r) ==
    /\ Shown(d, r) # Absent
    /\ Emit(d, r, [c \in {Tomb} |-> Null])

----------------------------------------------------------------------------
(* A session.                                                               *)

Back(l) == <<l[2], l[1]>>

(* Both ends have said hello and let the other in.                          *)
Connect(l) ==
    /\ phase[l] = "down" /\ phase[Back(l)] = "down"
    /\ phase' = [phase EXCEPT ![l] = "greeted", ![Back(l)] = "greeted"]
    /\ pipe' = [pipe EXCEPT ![l] = <<>>, ![Back(l)] = <<>>]
    /\ woken' = [woken EXCEPT ![l] = FALSE, ![Back(l)] = FALSE]
    /\ UNCHANGED <<stores, cursor, backlog, faults>>

SendHave(l) ==
    /\ phase[l] = "greeted"
    /\ phase' = [phase EXCEPT ![l] = "asked"]
    /\ pipe' = [pipe EXCEPT ![l] = Append(@, HaveFrame(have[l[1]]))]
    /\ UNCHANGED <<stores, cursor, backlog, woken, faults>>

(* A plausible mistake in HearHave: a have is answered with another. *)
HearHaveAnswering(l) ==
    /\ phase[l] = "asked"
    /\ pipe[Back(l)] # <<>>
    /\ Head(pipe[Back(l)]).kind = "have"
    /\ cursor' = [cursor EXCEPT ![l] = Head(pipe[Back(l)]).held]
    /\ phase' = [phase EXCEPT ![l] = "live"]
    /\ backlog' = [backlog EXCEPT ![l] = TRUE]
    /\ pipe' = [pipe EXCEPT ![Back(l)] = Tail(@), ![l] = Append(@, HaveFrame(have[l[1]]))]
    /\ UNCHANGED <<stores, woken, faults>>

(* Any other frame here ends the session as malformed.  The loop of a live  *)
(* session would take a second have and move the cursor with it; no end     *)
(* sends one, as InTurn says, so that arm is never reached.                 *)
HearHave(l) ==
    /\ phase[l] = "asked"
    /\ pipe[Back(l)] # <<>>
    /\ Head(pipe[Back(l)]).kind = "have"
    /\ cursor' = [cursor EXCEPT ![l] = Head(pipe[Back(l)]).held]
    /\ phase' = [phase EXCEPT ![l] = "live"]
    /\ backlog' = [backlog EXCEPT ![l] = TRUE]
    /\ pipe' = [pipe EXCEPT ![Back(l)] = Tail(@)]
    /\ UNCHANGED <<stores, woken, faults>>

(* next: the read stops at the batch, and the frame at the budget of bytes, *)
(* which may cut the read anywhere past its first op.                       *)
Reads(l) ==
    LET owed == Owed(log[l[1]], cursor[l])
    IN  {read \in SUBSET owed :
            /\ LeadsOff(read, owed)
            /\ \/ Cardinality(read) = Batch
               \/ Cardinality(read) < Batch /\ read = owed}

(* A plausible mistake in Cuts: an op larger than the budget is never put in a frame. *)
CutsAnywhere(read) == {sent \in SUBSET read : LeadsOff(sent, read)}

Cuts(read) ==
    {sent \in SUBSET read : LeadsOff(sent, read) /\ (read # {} => sent # {})}

Held(l, read, sent) ==
    [o \in Device |-> Word(o, read, sent, have[l[1]], cursor[l], Batch)]

Send(l, sent, held) ==
    /\ sent # {} \/ held # NoWord
    /\ pipe' = [pipe EXCEPT ![l] = Append(@, OpsFrame(sent, held))]
    /\ cursor' = [cursor EXCEPT ![l] = Furthest(Furthest(@, Reach(sent)), held)]
    /\ UNCHANGED backlog

CaughtUp(l, sent, held) ==
    /\ sent = {} /\ held = NoWord
    /\ backlog' = [backlog EXCEPT ![l] = FALSE]
    /\ UNCHANGED <<pipe, cursor>>

SendNext(l) ==
    /\ phase[l] = "live"
    /\ backlog[l]
    /\ Len(pipe[l]) < PipeCap
    /\ \E read \in Reads(l) : \E sent \in Cuts(read) :
          LET held == Held(l, read, sent)
          IN  Send(l, sent, held) \/ CaughtUp(l, sent, held)
    /\ UNCHANGED <<stores, phase, woken, faults>>

(* A frame of ops, applied in one transaction; the cursor learns of it too, *)
(* so that none of it is sent back.                                         *)
HearOps(l) ==
    /\ phase[l] = "live"
    /\ pipe[Back(l)] # <<>>
    /\ Head(pipe[Back(l)]).kind = "ops"
    /\ LET d     == l[1]
           frame == Head(pipe[Back(l)])
       IN  /\ cursor' = [cursor EXCEPT
                    ![l] = Furthest(Furthest(@, Reach(frame.ops)), frame.held)]
           /\ log' = [log EXCEPT ![d] = Merge(@, frame.ops)]
           /\ have' = [have EXCEPT ![d] = HaveAfter(d, log[d], @, frame.ops, frame.held)]
           /\ \E t \in {hlc[d]} \union {x.hlc : x \in frame.ops} :
                 ClockAfter(log[d], hlc[d], frame.ops, t) /\ hlc' = [hlc EXCEPT ![d] = t]
           /\ IF log[d] = Merge(log[d], frame.ops) THEN UNCHANGED woken ELSE Wake(d)
    /\ pipe' = [pipe EXCEPT ![Back(l)] = Tail(@)]
    /\ UNCHANGED <<nextSeq, said, phase, backlog, faults>>

(* A plausible mistake in TakeWake: the wake is used up and no pass over the log follows. *)
TakeWakeIdly(l) ==
    /\ phase[l] = "live"
    /\ ~backlog[l]
    /\ woken[l]
    /\ woken' = [woken EXCEPT ![l] = FALSE]
    /\ UNCHANGED <<stores, phase, cursor, backlog, pipe, faults>>

(* With no backlog the loop waits for the log to move.                      *)
TakeWake(l) ==
    /\ phase[l] = "live"
    /\ ~backlog[l]
    /\ woken[l]
    /\ woken' = [woken EXCEPT ![l] = FALSE]
    /\ backlog' = [backlog EXCEPT ![l] = TRUE]
    /\ UNCHANGED <<stores, phase, cursor, pipe, faults>>

----------------------------------------------------------------------------
(* Failure.                                                                 *)

Fault == faults < MaxFaults /\ faults' = faults + 1

(* One end goes: what it sent may arrive or not, up to any point, and what  *)
(* was on its way to it is lost.                                            *)
Gone(ends, kept) ==
    /\ phase' = [l \in Links |-> IF l \in ends THEN "down" ELSE phase[l]]
    /\ cursor' = [l \in Links |-> IF l \in ends THEN NoWord ELSE cursor[l]]
    /\ backlog' = [l \in Links |-> IF l \in ends THEN FALSE ELSE backlog[l]]
    /\ woken' = [l \in Links |-> IF l \in ends THEN FALSE ELSE woken[l]]
    /\ pipe' = [l \in Links |->
            IF Back(l) \in ends THEN <<>>
            ELSE IF l \in ends THEN SubSeq(pipe[l], 1, kept[l])
            ELSE pipe[l]]

Drop(l) ==
    /\ phase[l] # "down"
    /\ Fault
    /\ \E n \in 0..Len(pipe[l]) : Gone({l}, [m \in Links |-> n])
    /\ UNCHANGED stores

(* The other end finds the stream closed once it has read what is left.     *)
HearEnd(l) ==
    /\ phase[l] # "down"
    /\ phase[Back(l)] = "down"
    /\ pipe[Back(l)] = <<>>
    /\ Gone({l}, [m \in Links |-> 0])
    /\ UNCHANGED <<stores, faults>>

(* A plausible mistake in Unspoken: a cell its row's tombstone swept is spoken for again. *)
UnspokenOrBuried(d) ==
    {cell \in Row \X Col :
        /\ Shown(d, cell[1]) # Absent
        /\ \A x \in log[d] : x.row = cell[1] => x.col # cell[2]}

(* The rows the open finds with a cell the log has no word on, which it     *)
(* files one for: what the row shows, at clock 0.  A buried row is left.    *)
Unspoken(d) ==
    {cell \in Row \X Col :
        /\ Shown(d, cell[1]) # Absent
        /\ \A x \in log[d] : x.row = cell[1] => x.col \notin {cell[2], Tomb}}

(* The process ends, at any moment, and the store is opened again.          *)
Restart(d) ==
    /\ Fault
    /\ \E next \in nextSeq[d]..(MaxSeq[d] + 1) :
       \E seq \in Stamps(Unspoken(d), nextSeq[d], next) :
        LET ops  == {[origin |-> d, seq |-> seq[c], hlc |-> 0, row |-> c[1], col |-> c[2],
                      val |-> Shown(d, c[1])[c[2]]] : c \in Unspoken(d)}
            ends == {l \in Links : l[1] = d /\ phase[l] # "down"}
        IN  /\ log' = [log EXCEPT ![d] = @ \union ops]
            /\ have' = IF ops = {} THEN have ELSE [have EXCEPT ![d][d] = next - 1]
            /\ nextSeq' = [nextSeq EXCEPT ![d] = next]
            /\ said' = said \union ops
            /\ \E kept \in [Links -> 0..PipeCap] :
                  /\ \A l \in Links : kept[l] <= Len(pipe[l])
                  /\ \A l \in Links \ ends : kept[l] = 0
                  /\ Gone(ends, kept)
            /\ UNCHANGED hlc

----------------------------------------------------------------------------

(* A store that has just been opened for the first time by a build with a   *)
(* log: the rows a migration left are in it, the same wherever they are     *)
(* kept, and backfilled.  Which cell is which sequence is the table order.  *)
CONSTANTS LegacyVal, LegacySeq
ASSUME LegacyAssumption ==
    /\ LegacyVal \in [Row -> [Col -> Val]]
    /\ LegacySeq \in [Device -> [Row \X Col -> Nat \ {0}]]
    /\ \A d \in Device : \A b, c \in Legacy[d] \X Col :
          LegacySeq[d][b] = LegacySeq[d][c] => b = c
    /\ \A d \in Device : \A c \in Legacy[d] \X Col : LegacySeq[d][c] <= MaxSeq[d]
    /\ \A d \in Device : \A c \in Legacy[d] \X Col : \A n \in 1..LegacySeq[d][c] :
          \E b \in Legacy[d] \X Col : LegacySeq[d][b] = n

LegacyOps(d) ==
    {[origin |-> d, seq |-> LegacySeq[d][c], hlc |-> 0, row |-> c[1], col |-> c[2],
      val |-> LegacyVal[c[1]][c[2]]] : c \in Legacy[d] \X Col}

Init ==
    /\ log = [d \in Device |-> LegacyOps(d)]
    /\ have = [d \in Device |-> [o \in Device |-> IF o = d THEN Reach(LegacyOps(d))[d] ELSE 0]]
    /\ hlc = [d \in Device |-> 0]
    /\ nextSeq = [d \in Device |-> have[d][d] + 1]
    /\ said = UNION {LegacyOps(d) : d \in Device}
    /\ phase = [l \in Links |-> "down"]
    /\ cursor = [l \in Links |-> NoWord]
    /\ backlog = [l \in Links |-> FALSE]
    /\ woken = [l \in Links |-> FALSE]
    /\ pipe = [l \in Links |-> <<>>]
    /\ faults = 0

Next ==
    \/ \E d \in Device, r \in Row : Insert(d, r) \/ Update(d, r) \/ Delete(d, r)
    \/ \E l \in Links :
          \/ Connect(l) \/ SendHave(l) \/ HearHave(l)
          \/ SendNext(l) \/ HearOps(l) \/ TakeWake(l)
          \/ Drop(l) \/ HearEnd(l)
    \/ \E d \in Device : Restart(d)

Spec == Init /\ [][Next]_vars
----------------------------------------------------------------------------
(* Properties.                                                              *)

Frame ==
    [kind : {"have"}, ops : {{}}, held : [Device -> Nat]] \union
    [kind : {"ops"}, ops : SUBSET Op, held : [Device -> Nat]]

(* Every variable has its type.                                             *)
TypeOK ==
    /\ log \in [Device -> SUBSET Op]
    /\ have \in [Device -> [Device -> Nat]]
    /\ hlc \in [Device -> Nat]
    /\ nextSeq \in [Device -> Nat \ {0}]
    /\ phase \in [Links -> {"down", "greeted", "asked", "live"}]
    /\ cursor \in [Links -> [Device -> Nat]]
    /\ backlog \in [Links -> BOOLEAN]
    /\ woken \in [Links -> BOOLEAN]
    /\ pipe \in [Links -> Seq(Frame)]
    /\ said \subseteq Op
    /\ faults \in Nat

LastWords == Compact(said)

(* The clock over the holes: a device that stands at seq for an origin      *)
(* holds every op of it up to there that is still the last word on its      *)
(* cell, whatever cuts, restarts and detours brought it there.  next gives  *)
(* words, vouch takes them, retire makes the holes.                         *)
LastWordHeld ==
    \A d \in Device : \A w \in LastWords :
        have[d][w.origin] >= w.seq => w \in log[d]

(* No log holds two words on one cell, or a cell its row's tombstone swept, *)
(* and no two ops anywhere tie: a local write is after all its device has   *)
(* heard.  emit and issue against apply's clock, retire, backfill's hlc 0.  *)
OneWordPerCell ==
    /\ \A d \in Device : \A x, y \in log[d] : ~Overtakes(x, y)
    /\ \A x, y \in said : x # y /\ x.row = y.row /\ x.col = y.col =>
          After(x, y) \/ After(y, x)

(* No frame comes out of turn: an end that has not yet heard a have meets   *)
(* it first, and one that has meets nothing but ops, over every way a       *)
(* stream may be cut and opened again.  run's two matches on Malformed.     *)
InTurn ==
    \A l \in Links : phase[Back(l)] # "down" =>
        \A i \in 1..Len(pipe[l]) :
            pipe[l][i].kind = "have" <=> (i = 1 /\ phase[Back(l)] # "live")

(* A live end that is neither sending nor woken owes its peer nothing: no   *)
(* wake-up is lost between a commit and the loop's wait.  run's select.     *)
IdleOwesNothing ==
    \A l \in Links : phase[l] = "live" /\ ~backlog[l] /\ ~woken[l] =>
        Owed(log[l[1]], cursor[l]) = {}

(* When every link is up, idle and empty the devices show the same rows:    *)
(* the last words of everything said.                                       *)
Quiet ==
    \A l \in Links : phase[l] = "live" /\ ~backlog[l] /\ ~woken[l] /\ pipe[l] = <<>>
(* The links join every device to every other, if not directly.             *)
Connected ==
    \A S \in SUBSET Device : S # {} /\ S # Device => \E l \in Links : l[1] \in S /\ l[2] \notin S

QuietAgree == Quiet => \A d \in Device : log[d] = LastWords

(* What the book says of the vector clock: a device that stands at seq for  *)
(* an origin holds every op that origin wrote up to there, or holds an op   *)
(* that overtook it.                                                        *)
StandsForHeld ==
    \A d \in Device : \A x \in said :
        have[d][x.origin] >= x.seq => x \in log[d] \/ \E y \in log[d] : Overtakes(y, x)

(* What backfill says of its ties: two devices that backfill one cell tie   *)
(* by origin over values that are equal anyway.                             *)
BackfillsAgree ==
    \A x, y \in said :
        x.hlc = 0 /\ y.hlc = 0 /\ x.row = y.row /\ x.col = y.col => x.val = y.val

----------------------------------------------------------------------------
(* What LastWordHeld rests on, part by part.                                *)

(* A sequence is used once.                                                 *)
SaidOnce ==
    \A x, y \in said : x.origin = y.origin /\ x.seq = y.seq => x = y

(* Nothing is held, sent or vouched for that was not said.                  *)
NothingMadeUp ==
    /\ \A d \in Device : log[d] \subseteq said
    /\ \A l \in Links : \A i \in 1..Len(pipe[l]) : pipe[l][i].ops \subseteq said
    /\ \A x \in said : x.seq < nextSeq[x.origin]
    /\ \A d, o \in Device : have[d][o] < nextSeq[o]
    /\ \A l \in Links, o \in Device : cursor[l][o] < nextSeq[o]
    /\ \A l \in Links : \A i \in 1..Len(pipe[l]) : \A o \in Device :
          pipe[l][i].held[o] < nextSeq[o]

(* A clock stands at or past what is in its log; this device's own stands   *)
(* at its last op; and a frame gives a word for every op in it.             *)
ClockCoversLog ==
    /\ \A d \in Device : \A x \in log[d] : x.seq <= have[d][x.origin]
    /\ \A d \in Device : have[d][d] = nextSeq[d] - 1
    /\ \A l \in Links : \A i \in 1..Len(pipe[l]) : \A x \in pipe[l][i].ops :
          x.seq <= pipe[l][i].held[x.origin]

(* Whoever gives a word holds the last words it covers.                     *)
SenderHolds ==
    \A l \in Links : \A i \in 1..Len(pipe[l]) : \A w \in LastWords :
        pipe[l][i].held[w.origin] >= w.seq => w \in log[l[1]]

OnItsWay(l, w, i) == \E j \in 1..i : w \in pipe[l][j].ops

(* A word arrives behind the last words it covers.                          *)
WordsComeBehind ==
    \A l \in Links : phase[Back(l)] # "down" =>
        \A i \in 1..Len(pipe[l]) : \A w \in LastWords :
            pipe[l][i].kind = "ops" /\ pipe[l][i].held[w.origin] >= w.seq =>
                w \in log[l[2]] \/ OnItsWay(l, w, i)

(* What a cursor has passed, the peer has or is being sent.                 *)
CursorHolds ==
    \A l \in Links : phase[l] = "live" /\ phase[Back(l)] # "down" =>
        \A w \in LastWords : cursor[l][w.origin] >= w.seq =>
            w \in log[l[2]] \/ OnItsWay(l, w, Len(pipe[l]))

Inv ==
    /\ TypeOK
    /\ SaidOnce
    /\ NothingMadeUp
    /\ ClockCoversLog
    /\ LastWordHeld
    /\ SenderHolds
    /\ WordsComeBehind
    /\ CursorHolds

(* What OneWordPerCell and QuietAgree rest on besides.                      *)

(* A device's hybrid clock is past every op it holds and every op it wrote. *)
ClocksCoverWords ==
    /\ \A d \in Device : \A x \in log[d] : x.hlc <= hlc[d]
    /\ \A x \in said : x.hlc <= hlc[x.origin]

(* What a device wrote stands in its own log until an op that overtook it   *)
(* stands there: no cell it spoke of is ever without a word.                *)
OwnWordsStand ==
    \A x \in said : \E y \in log[x.origin] : y = x \/ Overtakes(y, x)

OrderInv == Inv /\ OneWordPerCell /\ ClocksCoverWords /\ OwnWordsStand

(* What InTurn rests on besides: an end that has not asked has sent         *)
(* nothing, and what one that has asked sent is on its way until heard.     *)
Handshakes ==
    \A l \in Links : phase[Back(l)] # "down" =>
        /\ phase[l] = "greeted" => pipe[l] = <<>> /\ phase[Back(l)] # "live"
        /\ phase[l] \in {"asked", "live"} /\ phase[Back(l)] \in {"greeted", "asked"} =>
              pipe[l] # <<>>

TurnInv == Inv /\ InTurn /\ Handshakes

----------------------------------------------------------------------------
(* The loops of a live session run, a greeted pair answer each other, an    *)
(* end whose peer is gone finds out, and the dial loop tries again.         *)
Fairness ==
    \A l \in Links :
        /\ WF_vars(Connect(l)) /\ WF_vars(SendHave(l)) /\ WF_vars(HearHave(l))
        /\ WF_vars(SendNext(l)) /\ WF_vars(HearOps(l)) /\ WF_vars(TakeWake(l))
        /\ WF_vars(HearEnd(l))
FairSpec == Spec /\ Fairness

(* Devices that go on meeting come to agree for good, once they stop        *)
(* writing and their links stop failing.                                    *)
Converges == <>[](\A d \in Device : log[d] = LastWords)

(* The exchange does no more to a view than last-writer-wins lets it: every *)
(* step of a store is a decision of its device or a joining of words that   *)
(* were said, and every step of a session alone is neither.                 *)
LWW == INSTANCE LastWriterWins WITH words <- said, view <- log
Refines == LWW!Spec
=============================================================================
