------------------------- MODULE SyncExchangeProofs -------------------------
(***************************************************************************)
(* Every device that stands past a last word holds it, no two words tie or  *)
(* stand together, no frame is out of turn, no wake is lost, quiet devices  *)
(* agree, and the whole is last-writer-wins: whatever the number of         *)
(* devices, rows, ops, frames and failures.                                 *)
(***************************************************************************)
EXTENDS SyncExchange, SyncApplyProofs

(* Links join different devices, both ways.                                 *)
LEMMA LinkEnds ==
    ASSUME NEW l \in Links
    PROVE  /\ l[1] \in Device /\ l[2] \in Device /\ l[1] # l[2]
           /\ Back(l) \in Links /\ Back(l) # l
           /\ Back(l)[1] = l[2] /\ Back(l)[2] = l[1] /\ Back(Back(l)) = l
<1>1. l \in Device \X Device /\ l = <<l[1], l[2]>>
  BY ExchangeAssumption
<1>2. l[1] # l[2]
  BY <1>1, ExchangeAssumption
<1> QED BY <1>1, <1>2, ExchangeAssumption DEF Back

(* A step that says nothing of what is held but adds to what was said, that *)
(* shortens or empties pipes, and that leaves alone every pipe and cursor   *)
(* between two live ends, keeps the promises of the frames under way.       *)
Shortened(l) ==
    /\ Len(pipe'[l]) <= Len(pipe[l])
    /\ \A i \in 1..Len(pipe'[l]) : pipe'[l][i] = pipe[l][i]

MoreSaid ==
    /\ said \subseteq said'
    /\ \A x \in said' \ said : nextSeq[x.origin] <= x.seq
    /\ \A o \in Device : nextSeq[o] <= nextSeq'[o]
    /\ \A d \in Device : \A w \in LastWords' : w \in said /\ w \in log[d] => w \in log'[d]

LEMMA LastWordsWere ==
    ASSUME TypeOK', MoreSaid, NEW w \in LastWords'
    PROVE  /\ w \in said' /\ w.origin \in Device /\ w.seq \in Nat
           /\ w \in said => w \in LastWords
           /\ w \notin said => nextSeq[w.origin] <= w.seq
<1>1. w \in said'
  BY DEF LastWords, Compact
<1>2. w \in Op
  BY <1>1 DEF TypeOK
<1>3. w \in said => w \in LastWords
  BY LastWordsOnlyLeave DEF LastWords, MoreSaid
<1> QED BY <1>1, <1>2, <1>3 DEF Op, MoreSaid

(* A last word that something passed before the step was said before it.    *)
LEMMA PassedWasSaid ==
    ASSUME Inv, TypeOK', MoreSaid, NEW w \in LastWords', NEW n \in Nat,
           n < nextSeq[w.origin], w.seq <= n
    PROVE  w \in said /\ w \in LastWords
<1>1. w.origin \in Device /\ w.seq \in Nat
  BY LastWordsWere
<1>2. nextSeq[w.origin] \in Nat
  BY <1>1 DEF Inv, TypeOK
<1>3. ~(nextSeq[w.origin] <= w.seq)
  BY <1>1, <1>2
<1> QED BY <1>3, LastWordsWere

(* What is in a pipe is a frame, and passes nothing that was not said.      *)
LEMMA FrameInPipe ==
    ASSUME Inv, NEW l \in Links, NEW i \in 1..Len(pipe[l])
    PROVE  /\ pipe[l][i] \in Frame
           /\ pipe[l][i].ops \subseteq said
           /\ pipe[l][i].held \in [Device -> Nat]
           /\ \A o \in Device : pipe[l][i].held[o] \in Nat /\ pipe[l][i].held[o] < nextSeq[o]
<1>1. pipe[l] \in Seq(Frame)
  BY DEF Inv, TypeOK
<1>2. pipe[l][i] \in Frame
  BY <1>1
<1>3. pipe[l][i].held \in [Device -> Nat]
  BY <1>2 DEF Frame
<1> QED BY <1>2, <1>3 DEF Inv, NothingMadeUp

LEMMA SessionsKeep ==
    ASSUME Inv, TypeOK', MoreSaid,
           \A l \in Links : Shortened(l),
           \A l \in Links : phase'[Back(l)] # "down" =>
               phase[Back(l)] # "down" \/ Len(pipe'[l]) = 0,
           \A l \in Links : phase'[l] = "live" /\ phase'[Back(l)] # "down" =>
               /\ phase[l] = "live" /\ phase[Back(l)] # "down"
               /\ pipe'[l] = pipe[l] /\ cursor'[l] = cursor[l]
    PROVE  SenderHolds' /\ WordsComeBehind' /\ CursorHolds'
<1>0. ASSUME NEW l \in Links, NEW i \in 1..Len(pipe'[l])
      PROVE  /\ i \in 1..Len(pipe[l]) /\ pipe'[l][i] = pipe[l][i]
             /\ \A j \in 1..i : j \in 1..Len(pipe'[l]) /\ pipe'[l][j] = pipe[l][j]
  <2>1. pipe[l] \in Seq(Frame) /\ pipe'[l] \in Seq(Frame)
    BY DEF Inv, TypeOK
  <2>2. Len(pipe[l]) \in Nat /\ Len(pipe'[l]) \in Nat
    BY <2>1
  <2>3. Shortened(l)
    OBVIOUS
  <2> QED BY <2>2, <2>3 DEF Shortened
<1>1. SenderHolds'
  <2> SUFFICES ASSUME NEW l \in Links, NEW i \in 1..Len(pipe'[l]), NEW w \in LastWords',
                      pipe'[l][i].held[w.origin] >= w.seq
               PROVE  w \in log'[l[1]]
    BY DEF SenderHolds
  <2>1. i \in 1..Len(pipe[l]) /\ pipe'[l][i] = pipe[l][i]
    BY <1>0
  <2>2. w \in said /\ w \in LastWords
    BY <2>1, LastWordsWere, FrameInPipe, PassedWasSaid
  <2>3. w \in log[l[1]]
    BY <2>1, <2>2 DEF Inv, SenderHolds
  <2> QED BY <2>2, <2>3, LinkEnds DEF MoreSaid
<1>2. WordsComeBehind'
  <2> SUFFICES ASSUME NEW l \in Links, phase'[Back(l)] # "down",
                      NEW i \in 1..Len(pipe'[l]), NEW w \in LastWords',
                      pipe'[l][i].kind = "ops", pipe'[l][i].held[w.origin] >= w.seq
               PROVE  w \in log'[l[2]] \/ \E j \in 1..i : w \in pipe'[l][j].ops
    BY DEF WordsComeBehind, OnItsWay
  <2>1. i \in 1..Len(pipe[l]) /\ \A j \in 1..i : pipe'[l][j] = pipe[l][j]
    BY <1>0
  <2>2. w \in said /\ w \in LastWords
    BY SMTT(40), <1>0, LastWordsWere, FrameInPipe, PassedWasSaid
  <2>3. phase[Back(l)] # "down"
    OBVIOUS
  <2>4. pipe[l][i].kind = "ops" /\ pipe[l][i].held[w.origin] >= w.seq
    BY <1>0
  <2>5. w \in log[l[2]] \/ \E j \in 1..i : w \in pipe[l][j].ops
    BY <2>1, <2>2, <2>3, <2>4 DEF Inv, WordsComeBehind, OnItsWay
  <2> QED BY <2>1, <2>2, <2>5, LinkEnds DEF MoreSaid
<1>3. CursorHolds'
  <2> SUFFICES ASSUME NEW l \in Links, phase'[l] = "live", phase'[Back(l)] # "down",
                      NEW w \in LastWords', cursor'[l][w.origin] >= w.seq
               PROVE  w \in log'[l[2]] \/ \E j \in 1..Len(pipe'[l]) : w \in pipe'[l][j].ops
    BY DEF CursorHolds, OnItsWay
  <2>1. /\ phase[l] = "live" /\ phase[Back(l)] # "down"
        /\ pipe'[l] = pipe[l] /\ cursor'[l] = cursor[l]
    OBVIOUS
  <2>2. w \in said /\ w \in LastWords
    <3>1. w.origin \in Device /\ cursor[l][w.origin] \in Nat
      BY LastWordsWere DEF Inv, TypeOK
    <3>2. cursor[l][w.origin] < nextSeq[w.origin]
      BY <3>1 DEF Inv, NothingMadeUp
    <3> QED BY <2>1, <3>1, <3>2, LastWordsWere, PassedWasSaid
  <2>3. w \in log[l[2]] \/ \E j \in 1..Len(pipe[l]) : w \in pipe[l][j].ops
    BY <2>1, <2>2 DEF Inv, CursorHolds, OnItsWay
  <2> QED BY <2>1, <2>2, <2>3, LinkEnds DEF MoreSaid
<1> QED BY <1>1, <1>2, <1>3

----------------------------------------------------------------------------
(* The parts of the invariant that are about the frames and the cursors.    *)
FramesSaid ==
    /\ \A l \in Links : \A i \in 1..Len(pipe[l]) : pipe[l][i].ops \subseteq said
    /\ \A l \in Links, o \in Device : cursor[l][o] < nextSeq[o]
    /\ \A l \in Links : \A i \in 1..Len(pipe[l]) : \A o \in Device :
          pipe[l][i].held[o] < nextSeq[o]
    /\ \A l \in Links : \A i \in 1..Len(pipe[l]) : \A x \in pipe[l][i].ops :
          x.seq <= pipe[l][i].held[x.origin]

(* And those that are about the stores.                                     *)
StoresSaid ==
    /\ \A d \in Device : log[d] \subseteq said
    /\ \A x \in said : x.seq < nextSeq[x.origin]
    /\ \A d, o \in Device : have[d][o] < nextSeq[o]
    /\ \A d \in Device : \A x \in log[d] : x.seq <= have[d][x.origin]
    /\ \A d \in Device : have[d][d] = nextSeq[d] - 1

LEMMA Parts ==
    NothingMadeUp /\ ClockCoversLog <=> FramesSaid /\ StoresSaid
BY DEF NothingMadeUp, ClockCoversLog, FramesSaid, StoresSaid

(* A step that shortens pipes and forgets cursors leaves the frames true.   *)
LEMMA FramesKeep ==
    ASSUME Inv, TypeOK', MoreSaid,
           \A l \in Links : Shortened(l),
           \A l \in Links : cursor'[l] = cursor[l] \/ cursor'[l] = NoWord
    PROVE  FramesSaid'
<1>1. FramesSaid
  BY Parts DEF Inv
<1>2. \A o \in Device : nextSeq[o] \in Nat \ {0} /\ nextSeq'[o] \in Nat \ {0}
                       /\ nextSeq[o] <= nextSeq'[o]
  BY DEF Inv, TypeOK, MoreSaid
<1>3. ASSUME NEW l \in Links, NEW i \in 1..Len(pipe'[l])
      PROVE  i \in 1..Len(pipe[l]) /\ pipe'[l][i] = pipe[l][i]
  <2>1. pipe[l] \in Seq(Frame) /\ pipe'[l] \in Seq(Frame)
    BY DEF Inv, TypeOK
  <2>2. Len(pipe[l]) \in Nat /\ Len(pipe'[l]) \in Nat
    BY <2>1
  <2> QED BY <2>2 DEF Shortened
<1>4. \A l \in Links : \A i \in 1..Len(pipe'[l]) : pipe'[l][i].ops \subseteq said'
  BY <1>1, <1>3 DEF FramesSaid, MoreSaid
<1>5. \A l \in Links, o \in Device : cursor'[l][o] < nextSeq'[o]
  <2> SUFFICES ASSUME NEW l \in Links, NEW o \in Device
               PROVE  cursor'[l][o] < nextSeq'[o]
    OBVIOUS
  <2>1. cursor[l][o] \in Nat /\ cursor[l][o] < nextSeq[o]
    BY <1>1 DEF FramesSaid, Inv, TypeOK
  <2>2. NoWord[o] = 0
    BY DEF NoWord
  <2> QED BY <2>1, <2>2, <1>2
<1>6. \A l \in Links : \A i \in 1..Len(pipe'[l]) : \A o \in Device :
          pipe'[l][i].held[o] < nextSeq'[o]
  <2> SUFFICES ASSUME NEW l \in Links, NEW i \in 1..Len(pipe'[l]), NEW o \in Device
               PROVE  pipe'[l][i].held[o] < nextSeq'[o]
    OBVIOUS
  <2>1. pipe'[l][i].held[o] \in Nat /\ pipe'[l][i].held[o] < nextSeq[o]
    BY <1>3, FrameInPipe
  <2> QED BY <2>1, <1>2
<1>7. \A l \in Links : \A i \in 1..Len(pipe'[l]) : \A x \in pipe'[l][i].ops :
          x.seq <= pipe'[l][i].held[x.origin]
  BY <1>1, <1>3 DEF FramesSaid
<1> QED BY <1>4, <1>5, <1>6, <1>7 DEF FramesSaid

(* What a store does when its device says something: some new ops with      *)
(* sequences never used take their place in its log, and the log loses only *)
(* what they overtake.                                                      *)
Says(d, ops, next) ==
    /\ ops \subseteq Op
    /\ next \in Nat /\ nextSeq[d] <= next
    /\ \A x \in ops : x.origin = d /\ nextSeq[d] <= x.seq /\ x.seq < next
    /\ \A x, y \in ops : x.seq = y.seq => x = y
    /\ ops \subseteq log'[d] /\ log'[d] \subseteq log[d] \union ops
    /\ \A y \in log[d] : y \in log'[d] \/ \E x \in ops : Overtakes(x, y)
    /\ \A e \in Device \ {d} : log'[e] = log[e] /\ have'[e] = have[e]
    /\ \A o \in Device \ {d} : have'[d][o] = have[d][o] /\ nextSeq'[o] = nextSeq[o]
    /\ have'[d][d] = next - 1 /\ nextSeq'[d] = next
    /\ said' = said \union ops

LEMMA SayingKeepsStores ==
    ASSUME Inv, TypeOK', NEW d \in Device, NEW ops, NEW next, Says(d, ops, next)
    PROVE  MoreSaid /\ SaidOnce' /\ StoresSaid' /\ LastWordHeld'
<1>1. StoresSaid /\ SaidOnce /\ said \subseteq Op
  BY Parts DEF Inv, TypeOK
<1>2. /\ \A o \in Device : nextSeq[o] \in Nat /\ nextSeq'[o] \in Nat
      /\ \A e, o \in Device : have[e][o] \in Nat /\ have'[e][o] \in Nat
      /\ \A x \in said' : x.origin \in Device /\ x.seq \in Nat
  <2>1. TypeOK
    BY DEF Inv
  <2>2. /\ \A o \in Device : nextSeq[o] \in Nat
        /\ \A e, o \in Device : have[e][o] \in Nat
    BY <2>1 DEF TypeOK
  <2>3. /\ \A o \in Device : nextSeq'[o] \in Nat
        /\ \A e, o \in Device : have'[e][o] \in Nat
    BY DEF TypeOK
  <2>4. said' \subseteq Op
    BY DEF TypeOK
  <2>5. \A x \in said' : x.origin \in Device /\ x.seq \in Nat
    BY <2>4 DEF Op
  <2> QED BY <2>2, <2>3, <2>5
<1>3. MoreSaid
  <2>1. \A x \in said' \ said : nextSeq[x.origin] <= x.seq
    BY DEF Says
  <2>2. \A o \in Device : nextSeq[o] <= nextSeq'[o]
    BY <1>2 DEF Says
  <2>3. ASSUME NEW e \in Device, NEW w \in LastWords', w \in said, w \in log[e]
        PROVE  w \in log'[e]
    <3>1. \A x \in said' : ~Overtakes(x, w)
      BY <2>3 DEF LastWords, Compact
    <3> QED BY <3>1, <2>3 DEF Says
  <2> QED BY <2>1, <2>2, <2>3 DEF MoreSaid, Says
<1>4. SaidOnce'
  <2> SUFFICES ASSUME NEW x \in said', NEW y \in said', x.origin = y.origin, x.seq = y.seq
               PROVE  x = y
    BY DEF SaidOnce
  <2>1. \A z \in said : z.seq < nextSeq[z.origin]
    BY <1>1 DEF StoresSaid
  <2>2. \A z \in ops : z.origin = d /\ nextSeq[d] <= z.seq
    BY DEF Says
  <2>3. CASE x \in said /\ y \in said
    BY <2>3, <1>1 DEF SaidOnce
  <2>4. CASE x \in ops /\ y \in ops
    BY <2>4 DEF Says
  <2>5. CASE x \in said /\ y \in ops
    BY <2>5, <2>1, <2>2, <1>2
  <2>6. CASE x \in ops /\ y \in said
    BY <2>6, <2>1, <2>2, <1>2
  <2> QED BY <2>3, <2>4, <2>5, <2>6 DEF Says
<1>5. StoresSaid'
  <2>1. \A e \in Device : log'[e] \subseteq said'
    BY <1>1 DEF StoresSaid, Says
  <2>2. \A x \in said' : x.seq < nextSeq'[x.origin]
    <3> SUFFICES ASSUME NEW x \in said' PROVE x.seq < nextSeq'[x.origin]
      OBVIOUS
    <3>1. CASE x \in said
      <4>1. x.seq < nextSeq[x.origin] /\ nextSeq[x.origin] <= nextSeq'[x.origin]
        BY <3>1, <1>1, <1>2, <1>3 DEF StoresSaid, MoreSaid
      <4> QED BY <4>1, <1>2
    <3>2. CASE x \in ops
      BY <3>2 DEF Says
    <3> QED BY <3>1, <3>2 DEF Says
  <2>3. \A e, o \in Device : have'[e][o] < nextSeq'[o]
    <3> SUFFICES ASSUME NEW e \in Device, NEW o \in Device PROVE have'[e][o] < nextSeq'[o]
      OBVIOUS
    <3>1. have[e][o] < nextSeq[o] /\ nextSeq[o] <= nextSeq'[o]
      BY <1>1, <1>3 DEF StoresSaid, MoreSaid
    <3>2. CASE e = d /\ o = d
      BY <3>2 DEF Says
    <3>3. CASE e # d \/ o # d
      <4>1. have'[e][o] = have[e][o]
        BY <3>3 DEF Says
      <4> QED BY <4>1, <3>1, <1>2
    <3> QED BY <3>2, <3>3
  <2>4. \A e \in Device : \A x \in log'[e] : x.seq <= have'[e][x.origin]
    <3> SUFFICES ASSUME NEW e \in Device, NEW x \in log'[e]
                 PROVE  x.seq <= have'[e][x.origin]
      OBVIOUS
    <3>1. x.origin \in Device /\ x.seq \in Nat
      BY <2>1, <1>2
    <3>2. CASE e # d
      BY <3>2, <1>1 DEF StoresSaid, Says
    <3>3. CASE e = d /\ x \in ops
      BY <3>1, <3>3 DEF Says
    <3>4. CASE e = d /\ x \in log[d]
      <4>1. x.seq <= have[d][x.origin]
        BY <3>4, <1>1 DEF StoresSaid
      <4>2. CASE x.origin # d
        BY <4>1, <4>2, <3>1, <3>4 DEF Says
      <4>3. CASE x.origin = d
        <5>1. have[d][d] < nextSeq[d]
          BY <1>1 DEF StoresSaid
        <5> QED BY <4>1, <4>3, <5>1, <3>1, <3>4, <1>2 DEF Says
      <4> QED BY <4>2, <4>3
    <3> QED BY <3>2, <3>3, <3>4 DEF Says
  <2>5. \A e \in Device : have'[e][e] = nextSeq'[e] - 1
    BY <1>1 DEF StoresSaid, Says
  <2> QED BY <2>1, <2>2, <2>3, <2>4, <2>5 DEF StoresSaid
<1>6. LastWordHeld'
  <2> SUFFICES ASSUME NEW e \in Device, NEW w \in LastWords', have'[e][w.origin] >= w.seq
               PROVE  w \in log'[e]
    BY DEF LastWordHeld
  <2>1. w \in said' /\ w.origin \in Device /\ w.seq \in Nat
    BY <1>3, LastWordsWere
  <2>2. CASE w \in ops
    <3>1. w.origin = d /\ nextSeq[d] <= w.seq
      BY <2>2 DEF Says
    <3>2. CASE e = d
      BY <2>2, <3>2 DEF Says
    <3>3. CASE e # d
      <4>1. have'[e][d] < nextSeq[d]
        BY <3>3, <1>1 DEF StoresSaid, Says
      <4> QED BY <4>1, <3>1, <2>1, <1>2
    <3> QED BY <3>2, <3>3
  <2>3. CASE w \in said
    <3>1. w \in LastWords /\ w.seq < nextSeq[w.origin]
      BY <2>3, <1>1, <1>3, LastWordsWere DEF StoresSaid
    <3>2. have[e][w.origin] >= w.seq
      <4>1. CASE e = d /\ w.origin = d
        <5>1. have[d][d] = nextSeq[d] - 1
          BY <1>1 DEF StoresSaid
        <5> QED BY <4>1, <5>1, <3>1, <2>1, <1>2
      <4>2. CASE e # d \/ w.origin # d
        <5>1. have'[e][w.origin] = have[e][w.origin]
          BY <2>1, <4>2 DEF Says
        <5> QED BY <5>1
      <4> QED BY <4>1, <4>2
    <3>3. w \in log[e]
      BY <3>1, <3>2 DEF Inv, LastWordHeld
    <3> QED BY <2>3, <3>3, <1>3 DEF MoreSaid
  <2> QED BY <2>1, <2>2, <2>3 DEF Says
<1> QED BY <1>3, <1>4, <1>5, <1>6

----------------------------------------------------------------------------
(* The steps, one by one.                                                   *)

LEMMA InitInv == Init => Inv
<1> SUFFICES ASSUME Init PROVE Inv
  OBVIOUS
<1>1. \A d \in Device : \A x \in LegacyOps(d) :
        x \in Op /\ x.origin = d /\ x.seq <= MaxSeq[d] /\ x.seq \in Nat \ {0}
  <2> SUFFICES ASSUME NEW d \in Device, NEW c \in Legacy[d] \X Col
               PROVE  /\ [origin |-> d, seq |-> LegacySeq[d][c], hlc |-> 0, row |-> c[1],
                           col |-> c[2], val |-> LegacyVal[c[1]][c[2]]] \in Op
                      /\ LegacySeq[d][c] <= MaxSeq[d]
                      /\ LegacySeq[d][c] \in Nat \ {0}
    BY DEF LegacyOps
  <2>1. c \in Row \X Col /\ c[1] \in Row /\ c[2] \in Col
    BY ExchangeAssumption
  <2>2. LegacySeq[d][c] \in Nat \ {0} /\ LegacySeq[d][c] <= MaxSeq[d]
    BY <2>1, LegacyAssumption
  <2>3. LegacyVal[c[1]][c[2]] \in Val
    BY <2>1, LegacyAssumption
  <2> QED BY <2>1, <2>2, <2>3 DEF Op, Column
<1>2. \A d \in Device : LegacyOps(d) \subseteq Op
  BY <1>1
<1>3. ASSUME NEW d \in Device
      PROVE  /\ Reach(LegacyOps(d))[d] \in Nat
             /\ \A x \in LegacyOps(d) : x.seq <= Reach(LegacyOps(d))[d]
  <2>1. MaxSeq \in [Device -> Nat]
    BY ExchangeAssumption
  <2>2. \A x \in LegacyOps(d) : x.origin = d /\ x.seq <= MaxSeq[x.origin]
    BY <1>1
  <2> QED BY <1>2, <2>1, <2>2, ReachOfOps
<1>4. \A d \in Device : \A x, y \in LegacyOps(d) : x.seq = y.seq => x = y
  BY LegacyAssumption DEF LegacyOps
<1>5. /\ \A d, o \in Device : have[d][o] = IF o = d THEN Reach(LegacyOps(d))[d] ELSE 0
      /\ \A d \in Device : nextSeq[d] = Reach(LegacyOps(d))[d] + 1 /\ log[d] = LegacyOps(d)
  BY DEF Init
<1>6. NoWord \in [Device -> Nat]
  BY DEF NoWord
<1>7. TypeOK
  <2>1. log \in [Device -> SUBSET Op] /\ said \subseteq Op
    BY <1>2 DEF Init
  <2>2. have \in [Device -> [Device -> Nat]]
    BY <1>3 DEF Init
  <2>3. nextSeq \in [Device -> Nat \ {0}]
    BY <1>3, <1>5 DEF Init
  <2>4. <<>> \in Seq(Frame)
    OBVIOUS
  <2> QED BY <1>6, <2>1, <2>2, <2>3, <2>4 DEF Init, TypeOK
<1>8. SaidOnce
  BY <1>1, <1>4 DEF Init, SaidOnce
<1>9. \A x \in said : x.origin \in Device /\ x \in LegacyOps(x.origin)
  BY <1>1 DEF Init
<1>10. StoresSaid
  <2>1. \A d \in Device : log[d] \subseteq said
    BY DEF Init
  <2>2. \A x \in said : x.seq < nextSeq[x.origin]
    BY <1>1, <1>3, <1>5, <1>9
  <2>3. \A d, o \in Device : have[d][o] < nextSeq[o]
    BY <1>3, <1>5
  <2>4. \A d \in Device : \A x \in log[d] : x.seq <= have[d][x.origin]
    BY <1>1, <1>3, <1>5
  <2>5. \A d \in Device : have[d][d] = nextSeq[d] - 1
    BY <1>3, <1>5
  <2> QED BY <2>1, <2>2, <2>3, <2>4, <2>5 DEF StoresSaid
<1>11. FramesSaid
  <2>1. \A l \in Links : Len(pipe[l]) = 0
    BY DEF Init
  <2>2. \A l \in Links, o \in Device : cursor[l][o] = 0
    BY DEF Init, NoWord
  <2>3. \A o \in Device : nextSeq[o] \in Nat \ {0}
    BY <1>7 DEF TypeOK
  <2> QED BY <2>1, <2>2, <2>3 DEF FramesSaid
<1>12. LastWordHeld
  <2> SUFFICES ASSUME NEW d \in Device, NEW w \in said, have[d][w.origin] >= w.seq
               PROVE  w \in log[d]
    BY DEF LastWordHeld, LastWords, Compact
  <2>1. w.origin = d
    BY <1>1, <1>5, <1>9
  <2> QED BY <2>1, <1>5, <1>9
<1>13. SenderHolds /\ WordsComeBehind /\ CursorHolds
  BY DEF Init, SenderHolds, WordsComeBehind, CursorHolds
<1> QED BY <1>7, <1>8, <1>10, <1>11, <1>12, <1>13, Parts DEF Inv

(* Saying something, with the sessions left alone or ended.                 *)
LEMMA SayingStep ==
    ASSUME Inv, TypeOK', NEW d \in Device, NEW ops, NEW next, Says(d, ops, next),
           \A l \in Links : Shortened(l),
           \A l \in Links : cursor'[l] = cursor[l] \/ cursor'[l] = NoWord,
           \A l \in Links : phase'[Back(l)] # "down" => phase[Back(l)] # "down",
           \A l \in Links : phase'[l] = "live" /\ phase'[Back(l)] # "down" =>
               /\ phase[l] = "live" /\ pipe'[l] = pipe[l] /\ cursor'[l] = cursor[l]
    PROVE  Inv'
<1>1. MoreSaid /\ SaidOnce' /\ StoresSaid' /\ LastWordHeld'
  BY SayingKeepsStores
<1>2. FramesSaid'
  BY <1>1, FramesKeep
<1>3. SenderHolds' /\ WordsComeBehind' /\ CursorHolds'
  BY <1>1, SessionsKeep
<1>4. (NothingMadeUp /\ ClockCoversLog)'
  BY <1>1, <1>2 DEF NothingMadeUp, ClockCoversLog, FramesSaid, StoresSaid
<1> QED BY <1>1, <1>3, <1>4 DEF Inv

(* A step that leaves the stores and what was said alone says nothing.      *)
LEMMA NothingSaid ==
    ASSUME Inv, UNCHANGED stores
    PROVE  /\ MoreSaid /\ SaidOnce' /\ StoresSaid' /\ LastWordHeld'
           /\ LastWords' = LastWords
<1>1. log' = log /\ have' = have /\ nextSeq' = nextSeq /\ said' = said
  BY DEF stores
<1>2. LastWords' = LastWords
  BY <1>1 DEF LastWords
<1>3. \A o \in Device : nextSeq[o] \in Nat
  BY DEF Inv, TypeOK
<1>4. MoreSaid
  BY <1>1, <1>3 DEF MoreSaid
<1>5. StoresSaid
  BY Parts DEF Inv
<1> QED BY <1>1, <1>2, <1>4, <1>5 DEF Inv, SaidOnce, StoresSaid, LastWordHeld

LEMMA SilentStep ==
    ASSUME Inv, TypeOK', UNCHANGED stores,
           \A l \in Links : Shortened(l),
           \A l \in Links : cursor'[l] = cursor[l] \/ cursor'[l] = NoWord,
           \A l \in Links : phase'[Back(l)] # "down" =>
               phase[Back(l)] # "down" \/ Len(pipe'[l]) = 0,
           \A l \in Links : phase'[l] = "live" /\ phase'[Back(l)] # "down" =>
               /\ phase[l] = "live" /\ phase[Back(l)] # "down"
               /\ pipe'[l] = pipe[l] /\ cursor'[l] = cursor[l]
    PROVE  Inv'
<1>1. MoreSaid /\ SaidOnce' /\ StoresSaid' /\ LastWordHeld'
  BY NothingSaid
<1>2. FramesSaid'
  BY <1>1, FramesKeep
<1>3. SenderHolds' /\ WordsComeBehind' /\ CursorHolds'
  BY <1>1, SessionsKeep
<1>4. (NothingMadeUp /\ ClockCoversLog)'
  BY <1>1, <1>2 DEF NothingMadeUp, ClockCoversLog, FramesSaid, StoresSaid
<1> QED BY <1>1, <1>3, <1>4 DEF Inv

LEMMA IssueIsClock ==
    ASSUME NEW last \in Nat, NEW now \in Nat
    PROVE  Issue(last, now, Counter) \in Nat
<1>1. now * Counter \in Nat
  BY ExchangeAssumption
<1> QED BY <1>1 DEF Issue

LEMMA EmitStep ==
    ASSUME Inv, NEW d \in Device, NEW r \in Row, NEW cells, cells \subseteq Column,
           NEW vals \in [cells -> Val \union {Null}], Emit(d, r, vals)
    PROVE  Inv'
<1>0. DOMAIN vals = cells
  OBVIOUS
<1>1. PICK now \in Now, next \in (nextSeq[d] + 1)..(MaxSeq[d] + 1) :
      \E seq \in Stamps(DOMAIN vals, nextSeq[d], next) :
        LET base == Issue(hlc[d], now, Counter)
            ops  == {[origin |-> d, seq |-> seq[c], hlc |-> base + (seq[c] - nextSeq[d]),
                      row |-> r, col |-> c, val |-> vals[c]] : c \in DOMAIN vals}
        IN  /\ log' = [log EXCEPT ![d] = ops \union
                            {y \in @ : \A x \in ops : ~Overtakes(x, y)}]
            /\ have' = [have EXCEPT ![d][d] = next - 1]
            /\ hlc' = [hlc EXCEPT ![d] = base + (next - 1 - nextSeq[d])]
            /\ nextSeq' = [nextSeq EXCEPT ![d] = next]
            /\ said' = said \union ops
            /\ Wake(d)
            /\ UNCHANGED <<phase, cursor, backlog, pipe, faults>>
  BY Zenon DEF Emit
<1>2. PICK seq \in Stamps(DOMAIN vals, nextSeq[d], next) :
        LET base == Issue(hlc[d], now, Counter)
            ops  == {[origin |-> d, seq |-> seq[c], hlc |-> base + (seq[c] - nextSeq[d]),
                      row |-> r, col |-> c, val |-> vals[c]] : c \in DOMAIN vals}
        IN  /\ log' = [log EXCEPT ![d] = ops \union
                            {y \in @ : \A x \in ops : ~Overtakes(x, y)}]
            /\ have' = [have EXCEPT ![d][d] = next - 1]
            /\ hlc' = [hlc EXCEPT ![d] = base + (next - 1 - nextSeq[d])]
            /\ nextSeq' = [nextSeq EXCEPT ![d] = next]
            /\ said' = said \union ops
            /\ Wake(d)
            /\ UNCHANGED <<phase, cursor, backlog, pipe, faults>>
  BY Zenon, <1>1
<1> DEFINE base == Issue(hlc[d], now, Counter)
           ops  == {[origin |-> d, seq |-> seq[c], hlc |-> base + (seq[c] - nextSeq[d]),
                     row |-> r, col |-> c, val |-> vals[c]] : c \in DOMAIN vals}
<1>3. /\ nextSeq[d] \in Nat \ {0} /\ hlc[d] \in Nat /\ now \in Nat
      /\ next \in Nat /\ nextSeq[d] < next /\ MaxSeq[d] \in Nat
  BY ExchangeAssumption DEF Inv, TypeOK
<1>4. base \in Nat
  BY <1>3, IssueIsClock
<1>5. /\ seq \in [cells -> nextSeq[d]..(next - 1)]
      /\ \A b, c \in cells : seq[b] = seq[c] => b = c
  BY <1>0 DEF Stamps
<1>6. \A c \in cells : seq[c] \in Nat /\ nextSeq[d] <= seq[c] /\ seq[c] < next
  BY <1>3, <1>5
<1> HIDE DEF base
<1>7. ops \subseteq Op
  <2> SUFFICES ASSUME NEW c \in cells
               PROVE  [origin |-> d, seq |-> seq[c], hlc |-> base + (seq[c] - nextSeq[d]),
                       row |-> r, col |-> c, val |-> vals[c]] \in Op
    BY <1>0
  <2>1. seq[c] \in Nat \ {0} /\ base + (seq[c] - nextSeq[d]) \in Nat
    BY <1>3, <1>4, <1>6
  <2> QED BY <2>1 DEF Op
<1>8. /\ \A x \in ops : x.origin = d /\ nextSeq[d] <= x.seq /\ x.seq < next
      /\ \A x, y \in ops : x.seq = y.seq => x = y
  BY <1>0, <1>5, <1>6
<1>9. /\ log' = [log EXCEPT ![d] = ops \union {y \in @ : \A x \in ops : ~Overtakes(x, y)}]
      /\ have' = [have EXCEPT ![d][d] = next - 1]
      /\ hlc' = [hlc EXCEPT ![d] = base + (next - 1 - nextSeq[d])]
      /\ nextSeq' = [nextSeq EXCEPT ![d] = next]
      /\ said' = said \union ops
      /\ Wake(d)
      /\ UNCHANGED <<phase, cursor, backlog, pipe, faults>>
  BY <1>2 DEF base
<1> HIDE DEF ops
<1>10. TypeOK'
  <2>1. base + (next - 1 - nextSeq[d]) \in Nat /\ next - 1 \in Nat
    BY <1>3, <1>4
  <2>2. log' \in [Device -> SUBSET Op] /\ said' \subseteq Op
    BY <1>7, <1>9 DEF Inv, TypeOK
  <2>3. have' \in [Device -> [Device -> Nat]] /\ hlc' \in [Device -> Nat]
    BY <1>9, <2>1 DEF Inv, TypeOK
  <2>4. nextSeq' \in [Device -> Nat \ {0}]
    BY <1>3, <1>9 DEF Inv, TypeOK
  <2>5. woken' \in [Links -> BOOLEAN]
    <3>1. \A l \in Links : woken[l] \in BOOLEAN
      BY DEF Inv, TypeOK
    <3> QED BY <3>1, <1>9 DEF Wake
  <2> QED BY <2>2, <2>3, <2>4, <2>5, <1>9 DEF Inv, TypeOK
<1>11. Says(d, ops, next)
  <2>1. /\ log \in [Device -> SUBSET Op] /\ have \in [Device -> [Device -> Nat]]
        /\ nextSeq \in [Device -> Nat \ {0}]
    BY DEF Inv, TypeOK
  <2>2. log'[d] = ops \union {y \in log[d] : \A x \in ops : ~Overtakes(x, y)}
    BY <2>1, <1>9
  <2>3. \A e \in Device \ {d} : log'[e] = log[e] /\ have'[e] = have[e]
    BY <2>1, <1>9
  <2>4. \A o \in Device \ {d} : have'[d][o] = have[d][o] /\ nextSeq'[o] = nextSeq[o]
    BY <2>1, <1>9
  <2>5. have'[d][d] = next - 1 /\ nextSeq'[d] = next
    BY <2>1, <1>9
  <2> QED BY <1>3, <1>7, <1>8, <1>9, <2>2, <2>3, <2>4, <2>5 DEF Says
<1>12. \A l \in Links : Shortened(l)
  <2>1. \A l \in Links : pipe[l] \in Seq(Frame)
    BY DEF Inv, TypeOK
  <2> QED BY <2>1, <1>9 DEF Shortened
<1> QED BY <1>9, <1>10, <1>11, <1>12, SayingStep

LEMMA WriteStep ==
    ASSUME Inv, NEW d \in Device, NEW r \in Row,
           Insert(d, r) \/ Update(d, r) \/ Delete(d, r)
    PROVE  Inv'
<1>1. CASE Insert(d, r)
  <2>1. PICK vals \in [Col -> Val] : Emit(d, r, vals)
    BY <1>1 DEF Insert
  <2>2. Col \subseteq Column /\ vals \in [Col -> Val \union {Null}]
    BY DEF Column
  <2> QED BY <2>1, <2>2, EmitStep
<1>2. CASE Update(d, r)
  <2>1. PICK cols \in SUBSET Col \ {{}} : \E vals \in [cols -> Val] : Emit(d, r, vals)
    BY <1>2 DEF Update
  <2>2. PICK vals \in [cols -> Val] : Emit(d, r, vals)
    BY <2>1
  <2>3. cols \subseteq Column /\ vals \in [cols -> Val \union {Null}]
    BY DEF Column
  <2> QED BY <2>2, <2>3, EmitStep
<1>3. CASE Delete(d, r)
  <2>1. Emit(d, r, [c \in {Tomb} |-> Null])
    BY <1>3 DEF Delete
  <2>2. {Tomb} \subseteq Column /\ [c \in {Tomb} |-> Null] \in [{Tomb} -> Val \union {Null}]
    BY DEF Column
  <2> QED BY <2>1, <2>2, EmitStep
<1> QED BY <1>1, <1>2, <1>3

(* An end going away shortens pipes, forgets cursors and disturbs nothing   *)
(* between two ends that stay.                                              *)
LEMMA GoneKeeps ==
    ASSUME Inv, NEW ends \in SUBSET Links, NEW arrived,
           \A l \in ends : arrived[l] \in 0..Len(pipe[l]), Gone(ends, arrived)
    PROVE  /\ phase' \in [Links -> {"down", "greeted", "asked", "live"}]
           /\ cursor' \in [Links -> [Device -> Nat]]
           /\ backlog' \in [Links -> BOOLEAN]
           /\ woken' \in [Links -> BOOLEAN]
           /\ pipe' \in [Links -> Seq(Frame)]
           /\ \A l \in Links : Shortened(l)
           /\ \A l \in Links : cursor'[l] = cursor[l] \/ cursor'[l] = NoWord
           /\ \A l \in Links : phase'[Back(l)] # "down" => phase[Back(l)] # "down"
           /\ \A l \in Links : phase'[l] = "live" /\ phase'[Back(l)] # "down" =>
                 /\ phase[l] = "live" /\ pipe'[l] = pipe[l] /\ cursor'[l] = cursor[l]
<1>1. /\ \A l \in Links : phase[l] \in {"down", "greeted", "asked", "live"}
      /\ \A l \in Links : cursor[l] \in [Device -> Nat]
      /\ \A l \in Links : backlog[l] \in BOOLEAN /\ woken[l] \in BOOLEAN
      /\ \A l \in Links : pipe[l] \in Seq(Frame)
  BY DEF Inv, TypeOK
<1>2. NoWord \in [Device -> Nat]
  BY DEF NoWord
<1>3. /\ phase' = [l \in Links |-> IF l \in ends THEN "down" ELSE phase[l]]
      /\ cursor' = [l \in Links |-> IF l \in ends THEN NoWord ELSE cursor[l]]
      /\ backlog' = [l \in Links |-> IF l \in ends THEN FALSE ELSE backlog[l]]
      /\ woken' = [l \in Links |-> IF l \in ends THEN FALSE ELSE woken[l]]
      /\ pipe' = [l \in Links |->
            IF Back(l) \in ends THEN <<>>
            ELSE IF l \in ends THEN SubSeq(pipe[l], 1, arrived[l])
            ELSE pipe[l]]
  BY DEF Gone
<1>4. ASSUME NEW l \in ends
      PROVE  /\ SubSeq(pipe[l], 1, arrived[l]) \in Seq(Frame)
             /\ Len(SubSeq(pipe[l], 1, arrived[l])) = arrived[l]
             /\ \A i \in 1..arrived[l] : SubSeq(pipe[l], 1, arrived[l])[i] = pipe[l][i]
             /\ arrived[l] <= Len(pipe[l])
  <2>1. pipe[l] \in Seq(Frame) /\ arrived[l] \in 0..Len(pipe[l])
    BY <1>1
  <2> QED BY <2>1
<1>5. phase' \in [Links -> {"down", "greeted", "asked", "live"}]
  BY <1>1, <1>3
<1>6. cursor' \in [Links -> [Device -> Nat]]
  BY <1>1, <1>2, <1>3
<1>7. backlog' \in [Links -> BOOLEAN] /\ woken' \in [Links -> BOOLEAN]
  BY <1>1, <1>3
<1>8. pipe' \in [Links -> Seq(Frame)]
  <2> SUFFICES ASSUME NEW l \in Links PROVE pipe'[l] \in Seq(Frame)
    BY <1>3
  <2>1. <<>> \in Seq(Frame)
    OBVIOUS
  <2> QED BY <1>1, <1>3, <1>4, <2>1
<1>9. ASSUME NEW l \in Links PROVE Shortened(l)
  <2>1. Len(pipe[l]) \in Nat
    BY <1>1
  <2>2. CASE Back(l) \in ends
    <3>1. Len(pipe'[l]) = 0
      BY <1>3, <2>2
    <3> QED BY <2>1, <3>1 DEF Shortened
  <2>3. CASE Back(l) \notin ends /\ l \in ends
    <3>1. pipe'[l] = SubSeq(pipe[l], 1, arrived[l])
      BY <1>3, <2>3
    <3> QED BY <1>4, <2>3, <3>1 DEF Shortened
  <2>4. CASE Back(l) \notin ends /\ l \notin ends
    <3>1. pipe'[l] = pipe[l]
      BY <1>3, <2>4
    <3> QED BY <2>1, <3>1 DEF Shortened
  <2> QED BY <2>2, <2>3, <2>4
<1>10. \A l \in Links : cursor'[l] = cursor[l] \/ cursor'[l] = NoWord
  BY <1>3
<1>11. \A l \in Links : phase'[Back(l)] # "down" => phase[Back(l)] # "down"
  BY <1>3, LinkEnds
<1>12. \A l \in Links : phase'[l] = "live" /\ phase'[Back(l)] # "down" =>
          phase[l] = "live" /\ pipe'[l] = pipe[l] /\ cursor'[l] = cursor[l]
  BY <1>3, LinkEnds
<1> QED BY <1>5, <1>6, <1>7, <1>8, <1>9, <1>10, <1>11, <1>12

LEMMA GoneStep ==
    ASSUME Inv, UNCHANGED stores, faults' \in Nat, NEW ends \in SUBSET Links, NEW arrived,
           \A l \in ends : arrived[l] \in 0..Len(pipe[l]), Gone(ends, arrived)
    PROVE  Inv'
<1>1. TypeOK'
  BY GoneKeeps DEF Inv, TypeOK, stores
<1> QED BY <1>1, GoneKeeps, SilentStep

LEMMA DropStep ==
    ASSUME Inv, NEW l \in Links, Drop(l)
    PROVE  Inv'
<1>1. PICK n \in 0..Len(pipe[l]) : Gone({l}, [m \in Links |-> n])
  BY DEF Drop
<1> DEFINE arrived == [m \in Links |-> n]
<1>2. \A k \in {l} : arrived[k] \in 0..Len(pipe[k])
  OBVIOUS
<1>3. UNCHANGED stores /\ faults' \in Nat
  BY DEF Drop, Fault, Inv, TypeOK
<1>4. Gone({l}, arrived)
  BY <1>1
<1> HIDE DEF arrived
<1> QED BY <1>2, <1>3, <1>4, GoneStep

LEMMA HearEndStep ==
    ASSUME Inv, NEW l \in Links, HearEnd(l)
    PROVE  Inv'
<1> DEFINE arrived == [m \in Links |-> 0]
<1>1. Gone({l}, arrived) /\ UNCHANGED stores /\ faults' \in Nat
  BY DEF HearEnd, Inv, TypeOK
<1>2. \A k \in {l} : arrived[k] \in 0..Len(pipe[k])
  <2>1. pipe[l] \in Seq(Frame)
    BY DEF Inv, TypeOK
  <2> QED BY <2>1
<1> HIDE DEF arrived
<1> QED BY <1>1, <1>2, GoneStep

LEMMA TakeWakeStep ==
    ASSUME Inv, NEW l \in Links, TakeWake(l)
    PROVE  Inv'
<1>1. UNCHANGED stores /\ UNCHANGED <<phase, cursor, pipe, faults>>
  BY DEF TakeWake
<1>2. TypeOK'
  BY <1>1 DEF TakeWake, Inv, TypeOK, stores
<1>3. \A k \in Links : Shortened(k)
  <2>1. \A k \in Links : pipe[k] \in Seq(Frame)
    BY DEF Inv, TypeOK
  <2> QED BY <2>1, <1>1 DEF Shortened
<1> QED BY <1>1, <1>2, <1>3, SilentStep

LEMMA ConnectStep ==
    ASSUME Inv, NEW l \in Links, Connect(l)
    PROVE  Inv'
<1>1. /\ phase' = [phase EXCEPT ![l] = "greeted", ![Back(l)] = "greeted"]
      /\ pipe' = [pipe EXCEPT ![l] = <<>>, ![Back(l)] = <<>>]
      /\ woken' = [woken EXCEPT ![l] = FALSE, ![Back(l)] = FALSE]
      /\ UNCHANGED stores /\ UNCHANGED <<cursor, backlog, faults>>
  BY DEF Connect
<1>2. /\ phase \in [Links -> {"down", "greeted", "asked", "live"}]
      /\ pipe \in [Links -> Seq(Frame)] /\ woken \in [Links -> BOOLEAN]
  BY DEF Inv, TypeOK
<1>3. TypeOK'
  <2>1. <<>> \in Seq(Frame)
    OBVIOUS
  <2> QED BY <1>1, <1>2, <2>1 DEF Inv, TypeOK, stores
<1>4. ASSUME NEW k \in Links
      PROVE  Shortened(k) /\ (k \notin {l, Back(l)} => pipe'[k] = pipe[k])
             /\ (k \in {l, Back(l)} => Len(pipe'[k]) = 0)
  BY <1>1, <1>2, LinkEnds DEF Shortened
<1>5. ASSUME NEW k \in Links, phase'[Back(k)] # "down"
      PROVE  phase[Back(k)] # "down" \/ Len(pipe'[k]) = 0
  BY <1>1, <1>2, <1>4, <1>5, LinkEnds
<1>6. ASSUME NEW k \in Links, phase'[k] = "live", phase'[Back(k)] # "down"
      PROVE  /\ phase[k] = "live" /\ phase[Back(k)] # "down"
             /\ pipe'[k] = pipe[k] /\ cursor'[k] = cursor[k]
  <2>1. k \notin {l, Back(l)} /\ Back(k) \notin {l, Back(l)}
    BY <1>1, <1>2, <1>6, LinkEnds
  <2> QED BY <1>1, <1>2, <1>4, <1>6, <2>1, LinkEnds
<1> QED BY <1>1, <1>3, <1>4, <1>5, <1>6, SilentStep

LEMMA RestartStep ==
    ASSUME Inv, NEW d \in Device, Restart(d)
    PROVE  Inv'
<1>1. PICK next \in nextSeq[d]..(MaxSeq[d] + 1) :
       \E seq \in Stamps(Unspoken(d), nextSeq[d], next) :
        LET ops  == {[origin |-> d, seq |-> seq[c], hlc |-> 0, row |-> c[1], col |-> c[2],
                      val |-> Shown(d, c[1])[c[2]]] : c \in Unspoken(d)}
            ends == {l \in Links : l[1] = d /\ phase[l] # "down"}
        IN  /\ log' = [log EXCEPT ![d] = @ \union ops]
            /\ have' = IF ops = {} THEN have ELSE [have EXCEPT ![d][d] = next - 1]
            /\ nextSeq' = [nextSeq EXCEPT ![d] = next]
            /\ said' = said \union ops
            /\ \E arrived \in [Links -> 0..PipeCap] :
                  /\ \A l \in Links : arrived[l] <= Len(pipe[l])
                  /\ \A l \in Links \ ends : arrived[l] = 0
                  /\ Gone(ends, arrived)
            /\ UNCHANGED hlc
  BY Zenon DEF Restart
<1>2. PICK seq \in Stamps(Unspoken(d), nextSeq[d], next) :
        LET ops  == {[origin |-> d, seq |-> seq[c], hlc |-> 0, row |-> c[1], col |-> c[2],
                      val |-> Shown(d, c[1])[c[2]]] : c \in Unspoken(d)}
            ends == {l \in Links : l[1] = d /\ phase[l] # "down"}
        IN  /\ log' = [log EXCEPT ![d] = @ \union ops]
            /\ have' = IF ops = {} THEN have ELSE [have EXCEPT ![d][d] = next - 1]
            /\ nextSeq' = [nextSeq EXCEPT ![d] = next]
            /\ said' = said \union ops
            /\ \E arrived \in [Links -> 0..PipeCap] :
                  /\ \A l \in Links : arrived[l] <= Len(pipe[l])
                  /\ \A l \in Links \ ends : arrived[l] = 0
                  /\ Gone(ends, arrived)
            /\ UNCHANGED hlc
  BY Zenon, <1>1
<1> DEFINE ops  == {[origin |-> d, seq |-> seq[c], hlc |-> 0, row |-> c[1], col |-> c[2],
                     val |-> Shown(d, c[1])[c[2]]] : c \in Unspoken(d)}
           ends == {l \in Links : l[1] = d /\ phase[l] # "down"}
<1>3. PICK arrived \in [Links -> 0..PipeCap] :
          (\A l \in Links : arrived[l] <= Len(pipe[l])) /\ Gone(ends, arrived)
  BY <1>2
<1>4. /\ log \in [Device -> SUBSET Op] /\ have \in [Device -> [Device -> Nat]]
      /\ nextSeq \in [Device -> Nat \ {0}] /\ said \subseteq Op /\ faults \in Nat
      /\ hlc \in [Device -> Nat]
      /\ \A l \in Links : pipe[l] \in Seq(Frame)
  BY DEF Inv, TypeOK
<1>5. /\ nextSeq[d] \in Nat \ {0} /\ next \in Nat \ {0} /\ nextSeq[d] <= next
      /\ MaxSeq[d] \in Nat
  BY <1>4, ExchangeAssumption
<1>6. /\ seq \in [Unspoken(d) -> nextSeq[d]..(next - 1)]
      /\ \A b, c \in Unspoken(d) : seq[b] = seq[c] => b = c
      /\ \A n \in nextSeq[d]..(next - 1) : \E c \in Unspoken(d) : seq[c] = n
  BY DEF Stamps
<1>7. \A c \in Unspoken(d) : seq[c] \in Nat \ {0} /\ nextSeq[d] <= seq[c] /\ seq[c] < next
  BY <1>5, <1>6
<1>8. ops \subseteq Op
  <2> SUFFICES ASSUME NEW c \in Unspoken(d)
               PROVE  [origin |-> d, seq |-> seq[c], hlc |-> 0, row |-> c[1], col |-> c[2],
                       val |-> Shown(d, c[1])[c[2]]] \in Op
    OBVIOUS
  <2>1. c \in Row \X Col /\ c[1] \in Row /\ c[2] \in Col /\ Shown(d, c[1]) # Absent
    BY DEF Unspoken
  <2>2. Shown(d, c[1])[c[2]] \in Val \union {Null}
    BY <2>1, <1>4, DescribedIsRow DEF Shown
  <2>3. seq[c] \in Nat \ {0}
    BY <1>7
  <2> QED BY <2>1, <2>2, <2>3 DEF Op, Column
<1>9. /\ \A x \in ops : x.origin = d /\ nextSeq[d] <= x.seq /\ x.seq < next
      /\ \A x, y \in ops : x.seq = y.seq => x = y
  BY <1>6, <1>7
<1>10. ops = {} => next = nextSeq[d]
  <2> SUFFICES ASSUME ops = {}, next # nextSeq[d] PROVE FALSE
    OBVIOUS
  <2>1. nextSeq[d] \in nextSeq[d]..(next - 1)
    BY <1>5
  <2>2. PICK c \in Unspoken(d) : TRUE
    BY <1>6, <2>1
  <2>3. [origin |-> d, seq |-> seq[c], hlc |-> 0, row |-> c[1], col |-> c[2],
         val |-> Shown(d, c[1])[c[2]]] \in ops
    OBVIOUS
  <2> QED BY <2>3
<1>11. /\ log' = [log EXCEPT ![d] = @ \union ops]
       /\ have' = IF ops = {} THEN have ELSE [have EXCEPT ![d][d] = next - 1]
       /\ nextSeq' = [nextSeq EXCEPT ![d] = next]
       /\ said' = said \union ops
       /\ hlc' = hlc /\ faults' = faults + 1
  BY <1>2 DEF Restart, Fault
<1> HIDE DEF ops
<1>12. have[d][d] = nextSeq[d] - 1
  BY DEF Inv, ClockCoversLog
<1>13. Says(d, ops, next)
  <2>1. log'[d] = log[d] \union ops /\ nextSeq'[d] = next
    BY <1>4, <1>11
  <2>2. \A e \in Device \ {d} : log'[e] = log[e] /\ have'[e] = have[e]
    BY <1>4, <1>11
  <2>3. \A o \in Device \ {d} : have'[d][o] = have[d][o] /\ nextSeq'[o] = nextSeq[o]
    BY <1>4, <1>11
  <2>4. have'[d][d] = next - 1
    BY <1>4, <1>10, <1>11, <1>12
  <2> QED BY <1>5, <1>8, <1>9, <1>11, <2>1, <2>2, <2>3, <2>4 DEF Says
<1>14. \A l \in ends : arrived[l] \in 0..Len(pipe[l])
  <2>1. PipeCap \in Nat
    BY ExchangeAssumption
  <2>2. \A l \in Links : arrived[l] \in Nat /\ arrived[l] <= Len(pipe[l]) /\ Len(pipe[l]) \in Nat
    BY <1>3, <1>4, <2>1
  <2> QED BY <2>2
<1>15. ends \in SUBSET Links /\ Gone(ends, arrived)
  BY <1>3
<1> HIDE DEF ends
<1>16. TypeOK'
  <2>1. log' \in [Device -> SUBSET Op] /\ said' \subseteq Op
    BY <1>4, <1>8, <1>11
  <2>2. have' \in [Device -> [Device -> Nat]]
    <3>1. next - 1 \in Nat
      BY <1>5
    <3> QED BY <1>4, <1>11, <3>1
  <2>3. nextSeq' \in [Device -> Nat \ {0}]
    BY <1>4, <1>5, <1>11
  <2>4. hlc' \in [Device -> Nat] /\ faults' \in Nat
    BY <1>4, <1>11
  <2>5. /\ phase' \in [Links -> {"down", "greeted", "asked", "live"}]
        /\ cursor' \in [Links -> [Device -> Nat]]
        /\ backlog' \in [Links -> BOOLEAN] /\ woken' \in [Links -> BOOLEAN]
        /\ pipe' \in [Links -> Seq(Frame)]
    BY <1>14, <1>15, GoneKeeps
  <2> QED BY <2>1, <2>2, <2>3, <2>4, <2>5 DEF TypeOK
<1> QED BY <1>13, <1>14, <1>15, <1>16, GoneKeeps, SayingStep

----------------------------------------------------------------------------
(* A frame put in a pipe, which gives no word its sender does not hold, and *)
(* passes nothing its receiver does not have or is not being sent.          *)
LEMMA AppendStep ==
    ASSUME Inv, TypeOK', UNCHANGED stores, NEW l \in Links, NEW f \in Frame,
           pipe' = [pipe EXCEPT ![l] = Append(@, f)],
           f.ops \subseteq said,
           \A o \in Device : f.held[o] < nextSeq[o],
           \A x \in f.ops : x.seq <= f.held[x.origin],
           \A w \in LastWords : f.held[w.origin] >= w.seq => w \in log[l[1]],
           f.kind = "ops" /\ phase[Back(l)] # "down" =>
               \A w \in LastWords : f.held[w.origin] >= w.seq =>
                   w \in log[l[2]] \/ w \in f.ops \/ OnItsWay(l, w, Len(pipe[l])),
           \A k \in Links : phase'[k] = "down" <=> phase[k] = "down",
           \A k \in Links : phase'[k] = "live" => phase[k] = "live",
           \A k \in Links : \A o \in Device : cursor'[k][o] < nextSeq[o],
           \A k \in Links : k # l => cursor'[k] = cursor[k],
           phase[l] = "live" => \A w \in LastWords : cursor'[l][w.origin] >= w.seq =>
               cursor[l][w.origin] >= w.seq \/ w \in f.ops
    PROVE  Inv'
<1>1. /\ MoreSaid /\ SaidOnce' /\ StoresSaid' /\ LastWordHeld' /\ LastWords' = LastWords
      /\ log' = log /\ said' = said /\ nextSeq' = nextSeq
  BY NothingSaid DEF stores
<1>2. \A k \in Links : pipe[k] \in Seq(Frame) /\ Len(pipe[k]) \in Nat
  BY DEF Inv, TypeOK
<1>3. /\ \A k \in Links : k # l => pipe'[k] = pipe[k]
      /\ pipe'[l] = Append(pipe[l], f)
  BY DEF Inv, TypeOK
<1>4. ASSUME NEW k \in Links
      PROVE  \A j \in 1..Len(pipe[k]) : j \in 1..Len(pipe'[k]) /\ pipe'[k][j] = pipe[k][j]
  BY <1>2, <1>3
<1>5. /\ Len(pipe[l]) + 1 \in 1..Len(pipe'[l])
      /\ pipe'[l][Len(pipe[l]) + 1] = f
  BY <1>2, <1>3
<1>6. ASSUME NEW k \in Links, NEW i \in 1..Len(pipe'[k])
      PROVE  \/ i \in 1..Len(pipe[k]) /\ pipe'[k][i] = pipe[k][i]
             \/ k = l /\ i = Len(pipe[l]) + 1 /\ pipe'[k][i] = f
  BY <1>2, <1>3
<1>7. FramesSaid'
  <2>1. FramesSaid
    BY Parts DEF Inv
  <2>2. \A k \in Links : \A i \in 1..Len(pipe'[k]) : pipe'[k][i].ops \subseteq said'
    BY <1>1, <1>6, <2>1 DEF FramesSaid
  <2>3. \A k \in Links, o \in Device : cursor'[k][o] < nextSeq'[o]
    BY <1>1
  <2>4. \A k \in Links : \A i \in 1..Len(pipe'[k]) : \A o \in Device :
          pipe'[k][i].held[o] < nextSeq'[o]
    BY <1>1, <1>6, <2>1 DEF FramesSaid
  <2>5. \A k \in Links : \A i \in 1..Len(pipe'[k]) : \A x \in pipe'[k][i].ops :
          x.seq <= pipe'[k][i].held[x.origin]
    BY <1>6, <2>1 DEF FramesSaid
  <2> QED BY <2>2, <2>3, <2>4, <2>5 DEF FramesSaid
<1>8. SenderHolds'
  BY <1>1, <1>6 DEF SenderHolds, Inv
<1>9. WordsComeBehind'
  <2> SUFFICES ASSUME NEW k \in Links, phase'[Back(k)] # "down",
                      NEW i \in 1..Len(pipe'[k]), NEW w \in LastWords,
                      pipe'[k][i].kind = "ops", pipe'[k][i].held[w.origin] >= w.seq
               PROVE  w \in log[k[2]] \/ \E j \in 1..i : w \in pipe'[k][j].ops
    BY <1>1 DEF WordsComeBehind, OnItsWay
  <2>1. phase[Back(k)] # "down"
    BY LinkEnds
  <2>2. CASE i \in 1..Len(pipe[k]) /\ pipe'[k][i] = pipe[k][i]
    <3>1. w \in log[k[2]] \/ \E j \in 1..i : w \in pipe[k][j].ops
      BY <2>1, <2>2 DEF Inv, WordsComeBehind, OnItsWay
    <3>2. \A j \in 1..i : j \in 1..Len(pipe[k])
      BY <1>2, <2>2
    <3> QED BY <1>4, <3>1, <3>2
  <2>3. CASE k = l /\ i = Len(pipe[l]) + 1 /\ pipe'[k][i] = f
    <3>1. w \in log[l[2]] \/ w \in f.ops \/ \E j \in 1..Len(pipe[l]) : w \in pipe[l][j].ops
      BY <2>1, <2>3 DEF OnItsWay
    <3>2. \A j \in 1..Len(pipe[l]) : j \in 1..i
      BY <1>2, <2>3
    <3>3. i \in 1..i
      BY <2>3, <1>2
    <3> QED BY <1>4, <2>3, <3>1, <3>2, <3>3
  <2> QED BY <1>6, <2>2, <2>3
<1>10. CursorHolds'
  <2> SUFFICES ASSUME NEW k \in Links, phase'[k] = "live", phase'[Back(k)] # "down",
                      NEW w \in LastWords, cursor'[k][w.origin] >= w.seq
               PROVE  w \in log[k[2]] \/ \E j \in 1..Len(pipe'[k]) : w \in pipe'[k][j].ops
    BY <1>1 DEF CursorHolds, OnItsWay
  <2>1. phase[k] = "live" /\ phase[Back(k)] # "down"
    BY LinkEnds
  <2>2. CASE cursor[k][w.origin] >= w.seq
    <3>1. w \in log[k[2]] \/ \E j \in 1..Len(pipe[k]) : w \in pipe[k][j].ops
      BY <2>1, <2>2 DEF Inv, CursorHolds, OnItsWay
    <3> QED BY <1>4, <3>1
  <2>3. CASE k = l /\ w \in f.ops
    BY <1>5, <2>3
  <2> QED BY <2>1, <2>2, <2>3
<1> QED BY <1>1, <1>7, <1>8, <1>9, <1>10, Parts DEF Inv, NothingMadeUp, ClockCoversLog,
        FramesSaid, StoresSaid

LEMMA SendHaveStep ==
    ASSUME Inv, NEW l \in Links, SendHave(l)
    PROVE  Inv'
<1> DEFINE f == HaveFrame(have[l[1]])
<1>1. /\ phase' = [phase EXCEPT ![l] = "asked"]
      /\ pipe' = [pipe EXCEPT ![l] = Append(@, f)]
      /\ UNCHANGED stores /\ UNCHANGED <<cursor, backlog, woken, faults>>
      /\ phase[l] = "greeted"
  BY DEF SendHave
<1>2. f \in Frame /\ f.held = have[l[1]] /\ f.ops = {} /\ f.kind = "have"
  BY LinkEnds DEF Inv, TypeOK, HaveFrame, Frame
<1> HIDE DEF f
<1>3. /\ phase \in [Links -> {"down", "greeted", "asked", "live"}]
      /\ pipe \in [Links -> Seq(Frame)]
  BY DEF Inv, TypeOK
<1>4. TypeOK'
  <2>1. Append(pipe[l], f) \in Seq(Frame)
    BY <1>2, <1>3
  <2> QED BY <1>1, <1>3, <2>1 DEF Inv, TypeOK, stores
<1>5. \A o \in Device : f.held[o] < nextSeq[o]
  BY <1>2, LinkEnds DEF Inv, NothingMadeUp
<1>6. \A w \in LastWords : f.held[w.origin] >= w.seq => w \in log[l[1]]
  BY <1>2, LinkEnds DEF Inv, LastWordHeld
<1>7. \A k \in Links : \A o \in Device : cursor'[k][o] < nextSeq[o]
  BY <1>1 DEF Inv, NothingMadeUp
<1>8. /\ \A k \in Links : phase'[k] = "down" <=> phase[k] = "down"
      /\ \A k \in Links : phase'[k] = "live" => phase[k] = "live"
  BY <1>1, <1>3
<1> QED BY <1>1, <1>2, <1>4, <1>5, <1>6, <1>7, <1>8, AppendStep

LEMMA SendStep ==
    ASSUME Inv, NEW l \in Links, phase[l] = "live",
           NEW read \in Reads(l), NEW sent \in Cuts(read),
           Send(l, sent, Held(l, read, sent)), UNCHANGED <<stores, phase, woken, faults>>
    PROVE  Inv'
<1> DEFINE d == l[1]
           mine == have[d]
           theirs == cursor[l]
           held == Held(l, read, sent)
           f == OpsFrame(sent, held)
<1>1. /\ d \in Device /\ log[d] \subseteq Op /\ log[d] \subseteq said
      /\ mine \in [Device -> Nat] /\ theirs \in [Device -> Nat]
      /\ \A o \in Device : nextSeq[o] \in Nat
      /\ pipe \in [Links -> Seq(Frame)] /\ cursor \in [Links -> [Device -> Nat]]
  BY LinkEnds DEF Inv, TypeOK, NothingMadeUp
<1>2. /\ LeadsOff(read, Owed(log[d], theirs)) /\ LeadsOff(sent, read)
      /\ Cardinality(read) = Batch \/ read = Owed(log[d], theirs)
  BY DEF Reads, Cuts
<1>3. sent \subseteq log[d]
  BY <1>2 DEF LeadsOff, Owed
<1>4. ASSUME NEW o \in Device
      PROVE  /\ held[o] \in Nat /\ held[o] <= mine[o]
             /\ \A x \in sent : x.origin = o => x.seq <= held[o]
             /\ \A w \in log[d] : w.origin = o /\ theirs[o] < w.seq /\ w.seq <= held[o]
                   => w \in sent
  <2>1. held[o] = Word(o, read, sent, mine, theirs, Batch)
    BY DEF Held
  <2>2. \A x \in log[d] : x.seq <= mine[x.origin]
    BY <1>1 DEF Inv, ClockCoversLog
  <2>3. \A x, y \in log[d] : x.origin = y.origin /\ x.seq = y.seq => x = y
    BY <1>1 DEF Inv, SaidOnce
  <2>4. Batch \in Nat
    BY ExchangeAssumption
  <2>5. CutFrom(log[d], mine, theirs, Batch, read, sent)
    BY <1>1, <1>2, <2>2, <2>3, <2>4 DEF CutFrom
  <2>6. SpeaksTruly(Word(o, read, sent, mine, theirs, Batch), o, log[d], mine, theirs, sent)
    BY <2>5, WordCovers
  <2> QED BY <2>1, <2>6 DEF SpeaksTruly
<1>5. held \in [Device -> Nat] /\ f \in Frame /\ f.ops = sent /\ f.held = held /\ f.kind = "ops"
  <2>1. held \in [Device -> Nat]
    BY <1>4 DEF Held
  <2>2. sent \in SUBSET Op
    BY <1>1, <1>3
  <2> HIDE DEF held
  <2> QED BY <2>1, <2>2 DEF Frame, OpsFrame
<1>6. /\ pipe' = [pipe EXCEPT ![l] = Append(@, f)]
      /\ cursor' = [cursor EXCEPT ![l] = Furthest(Furthest(@, Reach(sent)), held)]
      /\ UNCHANGED backlog /\ UNCHANGED <<stores, phase, woken, faults>>
  BY DEF Send
<1> HIDE DEF mine, theirs, held, f, d
<1>7. \A x \in sent : x \in Op /\ x.origin \in Device /\ x.seq \in Nat /\ x.seq <= held[x.origin]
  <2>1. \A x \in sent : x \in Op /\ x.origin \in Device /\ x.seq \in Nat
    BY <1>1, <1>3 DEF Op
  <2> QED BY <2>1, <1>4
<1>8. ASSUME NEW o \in Device
      PROVE  Reach(sent)[o] \in Nat /\ Reach(sent)[o] <= held[o]
  <2>1. sent \subseteq Op
    BY <1>7
  <2> QED BY <1>5, <1>7, <2>1, ReachOfOps
<1>9. ASSUME NEW o \in Device
      PROVE  /\ cursor'[l][o] \in Nat
             /\ cursor'[l][o] = theirs[o] \/ cursor'[l][o] <= held[o]
  <2>1. cursor'[l] = Furthest(Furthest(theirs, Reach(sent)), held)
    BY <1>1, <1>6 DEF theirs
  <2>2. theirs[o] \in Nat /\ Reach(sent)[o] \in Nat /\ held[o] \in Nat
    BY <1>1, <1>4, <1>8
  <2> QED BY <2>1, <2>2, <1>8 DEF Furthest
<1>10. cursor' \in [Links -> [Device -> Nat]]
  <2>1. cursor'[l] \in [Device -> Nat]
    <3>1. cursor'[l] = Furthest(Furthest(theirs, Reach(sent)), held)
      BY <1>1, <1>6 DEF theirs
    <3> QED BY <3>1, <1>9 DEF Furthest
  <2>2. \A k \in Links : k # l => cursor'[k] = cursor[k]
    BY <1>1, <1>6
  <2>3. \A k \in Links : cursor'[k] \in [Device -> Nat]
    BY <1>1, <2>1, <2>2
  <2> QED BY <1>6, <2>3, <1>1
<1>11. TypeOK'
  <2>1. Append(pipe[l], f) \in Seq(Frame)
    BY <1>1, <1>5
  <2>2. pipe' \in [Links -> Seq(Frame)]
    BY <2>1, <1>1, <1>6
  <2> QED BY <2>2, <1>6, <1>10 DEF Inv, TypeOK, stores
<1>12. \A o \in Device : mine[o] < nextSeq[o]
  BY <1>1 DEF mine, Inv, NothingMadeUp
<1>13. \A o \in Device : f.held[o] < nextSeq[o]
  BY <1>1, <1>4, <1>5, <1>12
<1>14. ASSUME NEW w \in LastWords, held[w.origin] >= w.seq
       PROVE  w \in log[d]
  <2>1. w \in Op /\ w.origin \in Device /\ w.seq \in Nat
    BY DEF LastWords, Compact, Inv, TypeOK, Op
  <2>2. mine[w.origin] >= w.seq
    BY <1>1, <1>4, <1>14, <2>1
  <2> QED BY <2>2, <1>1 DEF mine, Inv, LastWordHeld
<1>15. ASSUME NEW w \in LastWords, held[w.origin] >= w.seq
       PROVE  w \in sent \/ theirs[w.origin] >= w.seq
  <2>1. w \in Op /\ w.origin \in Device /\ w.seq \in Nat
    BY DEF LastWords, Compact, Inv, TypeOK, Op
  <2>2. theirs[w.origin] \in Nat /\ held[w.origin] \in Nat
    BY <2>1, <1>1, <1>4
  <2> QED BY <2>1, <2>2, <1>4, <1>14, <1>15
<1>16. phase[Back(l)] # "down" =>
          \A w \in LastWords : held[w.origin] >= w.seq =>
              w \in log[l[2]] \/ w \in sent \/ OnItsWay(l, w, Len(pipe[l]))
  BY <1>15 DEF theirs, Inv, CursorHolds
<1>17. \A k \in Links : \A o \in Device : cursor'[k][o] < nextSeq[o]
  <2> SUFFICES ASSUME NEW k \in Links, NEW o \in Device
               PROVE  cursor'[k][o] < nextSeq[o]
    OBVIOUS
  <2>1. cursor[k][o] < nextSeq[o] /\ theirs[o] = cursor[l][o] /\ cursor[l][o] < nextSeq[o]
    BY DEF theirs, Inv, NothingMadeUp
  <2>2. CASE k # l
    BY <1>1, <1>6, <2>1, <2>2
  <2>3. CASE k = l
    <3>1. mine[o] \in Nat /\ nextSeq[o] \in Nat /\ held[o] \in Nat
      BY <1>1, <1>4
    <3> QED BY <3>1, <1>4, <1>9, <1>12, <2>1, <2>3
  <2> QED BY <2>2, <2>3
<1>18. \A w \in LastWords : cursor'[l][w.origin] >= w.seq =>
          cursor[l][w.origin] >= w.seq \/ w \in sent
  <2> SUFFICES ASSUME NEW w \in LastWords, cursor'[l][w.origin] >= w.seq
               PROVE  theirs[w.origin] >= w.seq \/ w \in sent
    BY DEF theirs
  <2>1. w \in Op /\ w.origin \in Device /\ w.seq \in Nat
    BY DEF LastWords, Compact, Inv, TypeOK, Op
  <2> QED BY <2>1, <1>4, <1>9, <1>15
<1>19. \A k \in Links : k # l => cursor'[k] = cursor[k]
  BY <1>1, <1>6
<1>20. \A w \in LastWords : f.held[w.origin] >= w.seq => w \in log[l[1]]
  BY <1>5, <1>14 DEF d
<1>21. /\ sent \subseteq said /\ UNCHANGED stores /\ phase' = phase
  BY <1>1, <1>3, <1>6
<1>22. \A x \in f.ops : x.seq <= f.held[x.origin]
  BY <1>5, <1>7
<1> QED BY <1>5, <1>6, <1>11, <1>13, <1>16, <1>17, <1>18, <1>19, <1>20, <1>21, <1>22, AppendStep

LEMMA SendNextStep ==
    ASSUME Inv, NEW l \in Links, SendNext(l)
    PROVE  Inv'
<1>1. PICK read \in Reads(l) : \E sent \in Cuts(read) :
          LET held == Held(l, read, sent)
          IN  Send(l, sent, held) \/ CaughtUp(l, sent, held)
  BY Zenon DEF SendNext
<1>2. PICK sent \in Cuts(read) :
          Send(l, sent, Held(l, read, sent)) \/ CaughtUp(l, sent, Held(l, read, sent))
  BY <1>1
<1>3. phase[l] = "live" /\ UNCHANGED <<stores, phase, woken, faults>>
  BY DEF SendNext
<1>4. CASE Send(l, sent, Held(l, read, sent))
  BY <1>3, <1>4, SendStep
<1>5. CASE CaughtUp(l, sent, Held(l, read, sent))
  <2>1. /\ backlog' = [backlog EXCEPT ![l] = FALSE]
        /\ UNCHANGED <<pipe, cursor>>
    BY <1>5 DEF CaughtUp
  <2>2. TypeOK'
    BY <1>3, <2>1 DEF Inv, TypeOK, stores
  <2>3. \A k \in Links : Shortened(k)
    <3>1. \A k \in Links : pipe[k] \in Seq(Frame)
      BY DEF Inv, TypeOK
    <3> QED BY <2>1, <3>1 DEF Shortened
  <2> QED BY <1>3, <2>1, <2>2, <2>3, SilentStep
<1> QED BY <1>2, <1>4, <1>5

----------------------------------------------------------------------------
(* A frame taken out of a pipe, with the last words in it now held here and *)
(* nothing said: what the frames left behind promised still stands.         *)
LEMMA HearStep ==
    ASSUME Inv, TypeOK', NEW l \in Links, pipe[Back(l)] # <<>>,
           pipe' = [pipe EXCEPT ![Back(l)] = Tail(@)],
           said' = said, nextSeq' = nextSeq,
           StoresSaid', LastWordHeld',
           \A d \in Device : \A w \in LastWords : w \in log[d] => w \in log'[d],
           \A w \in LastWords : w \in Head(pipe[Back(l)]).ops => w \in log'[l[1]],
           \A k \in Links : phase'[k] = "down" <=> phase[k] = "down",
           \A k \in Links : k # l => (phase'[k] = "live" => phase[k] = "live"),
           \A k \in Links : k # l => cursor'[k] = cursor[k],
           \A o \in Device : cursor'[l][o] < nextSeq[o],
           phase[Back(l)] # "down" => \A w \in LastWords : cursor'[l][w.origin] >= w.seq =>
               w \in log'[l[2]] \/ OnItsWay(l, w, Len(pipe[l]))
    PROVE  Inv'
<1> DEFINE b == Back(l)
<1>1. b \in Links /\ b # l /\ b[1] = l[2] /\ b[2] = l[1] /\ Back(b) = l
  BY LinkEnds
<1>2. LastWords' = LastWords
  BY DEF LastWords
<1>3. \A k \in Links : pipe[k] \in Seq(Frame) /\ Len(pipe[k]) \in Nat
  BY DEF Inv, TypeOK
<1>4. /\ \A k \in Links : k # b => pipe'[k] = pipe[k]
      /\ pipe'[b] = Tail(pipe[b])
  BY <1>1 DEF Inv, TypeOK
<1>5. /\ Len(pipe'[b]) = Len(pipe[b]) - 1
      /\ \A i \in 1..Len(pipe'[b]) : i + 1 \in 1..Len(pipe[b]) /\ pipe'[b][i] = pipe[b][i + 1]
      /\ Head(pipe[b]) = pipe[b][1] /\ Len(pipe[b]) > 0
  <2> DEFINE p == pipe[b]
  <2>1. p \in Seq(Frame) /\ p # <<>> /\ pipe'[b] = Tail(p)
    BY <1>1, <1>3, <1>4
  <2> HIDE DEF p
  <2>2. /\ Len(Tail(p)) = Len(p) - 1
        /\ \A i \in 1..Len(Tail(p)) : i + 1 \in 1..Len(p) /\ Tail(p)[i] = p[i + 1]
        /\ Head(p) = p[1] /\ Len(p) > 0
    BY <2>1
  <2> QED BY <2>1, <2>2 DEF p
<1>6. \A j \in 2..Len(pipe[b]) : j - 1 \in 1..Len(pipe'[b]) /\ pipe'[b][j - 1] = pipe[b][j]
  <2> SUFFICES ASSUME NEW j \in 2..Len(pipe[b])
               PROVE  j - 1 \in 1..Len(pipe'[b]) /\ pipe'[b][j - 1] = pipe[b][j]
    OBVIOUS
  <2>1. j - 1 \in 1..Len(pipe'[b]) /\ (j - 1) + 1 = j
    BY <1>1, <1>3, <1>5
  <2> QED BY <1>5, <2>1
<1> HIDE DEF b
<1>7. ASSUME NEW k \in Links, NEW i \in 1..Len(pipe'[k])
      PROVE  \E j \in 1..Len(pipe[k]) : pipe'[k][i] = pipe[k][j]
  <2>1. CASE k = b
    BY <1>5, <2>1
  <2>2. CASE k # b
    BY <1>4, <2>2
  <2> QED BY <2>1, <2>2
<1>8. FramesSaid'
  <2>1. FramesSaid
    BY Parts DEF Inv
  <2>2. \A k \in Links : \A i \in 1..Len(pipe'[k]) : pipe'[k][i].ops \subseteq said'
    BY <1>7, <2>1 DEF FramesSaid
  <2>3. \A k \in Links, o \in Device : cursor'[k][o] < nextSeq'[o]
    BY <2>1 DEF FramesSaid
  <2>4. \A k \in Links : \A i \in 1..Len(pipe'[k]) : \A o \in Device :
          pipe'[k][i].held[o] < nextSeq'[o]
    BY <1>7, <2>1 DEF FramesSaid
  <2>5. \A k \in Links : \A i \in 1..Len(pipe'[k]) : \A x \in pipe'[k][i].ops :
          x.seq <= pipe'[k][i].held[x.origin]
    BY <1>7, <2>1 DEF FramesSaid
  <2> QED BY <2>2, <2>3, <2>4, <2>5 DEF FramesSaid
<1>9. SenderHolds'
  <2> SUFFICES ASSUME NEW k \in Links, NEW i \in 1..Len(pipe'[k]), NEW w \in LastWords,
                      pipe'[k][i].held[w.origin] >= w.seq
               PROVE  w \in log'[k[1]]
    BY <1>2 DEF SenderHolds
  <2>1. w \in log[k[1]]
    BY <1>7 DEF Inv, SenderHolds
  <2> QED BY <2>1, LinkEnds
(* What was on its way to someone is there or still on its way.             *)
<1>10. ASSUME NEW k \in Links, NEW w \in LastWords, NEW j \in 1..Len(pipe[k]),
              w \in pipe[k][j].ops
       PROVE  \/ w \in log'[k[2]]
              \/ k # b /\ j \in 1..Len(pipe'[k]) /\ w \in pipe'[k][j].ops
              \/ k = b /\ j - 1 \in 1..Len(pipe'[k]) /\ w \in pipe'[k][j - 1].ops
  <2>1. CASE k # b
    BY <1>4, <1>10, <2>1
  <2>2. CASE k = b /\ j = 1
    BY <1>1, <1>5, <1>10, <2>2 DEF b
  <2>3. CASE k = b /\ j # 1
    <3>1. j \in 2..Len(pipe[b])
      BY <1>1, <1>3, <2>3
    <3> QED BY <1>6, <1>10, <2>3, <3>1
  <2> QED BY <2>1, <2>2, <2>3
<1>11. WordsComeBehind'
  <2> SUFFICES ASSUME NEW k \in Links, phase'[Back(k)] # "down",
                      NEW i \in 1..Len(pipe'[k]), NEW w \in LastWords,
                      pipe'[k][i].kind = "ops", pipe'[k][i].held[w.origin] >= w.seq
               PROVE  w \in log'[k[2]] \/ \E j \in 1..i : w \in pipe'[k][j].ops
    BY <1>2 DEF WordsComeBehind, OnItsWay
  <2>1. phase[Back(k)] # "down"
    BY LinkEnds
  <2>2. CASE k # b
    <3>1. i \in 1..Len(pipe[k]) /\ pipe'[k] = pipe[k]
      BY <1>4, <2>2
    <3>2. w \in log[k[2]] \/ \E j \in 1..i : w \in pipe[k][j].ops
      BY <2>1, <3>1 DEF Inv, WordsComeBehind, OnItsWay
    <3> QED BY <3>1, <3>2, LinkEnds
  <2>3. CASE k = b
    <3>1. i + 1 \in 1..Len(pipe[k]) /\ pipe'[k][i] = pipe[k][i + 1]
      BY <1>5, <2>3
    <3>2. w \in log[k[2]] \/ \E j \in 1..(i + 1) : w \in pipe[k][j].ops
      BY SMTT(40), <2>1, <3>1 DEF Inv, WordsComeBehind, OnItsWay
    <3>3. CASE w \in log[k[2]]
      BY <3>3, LinkEnds
    <3>4. ASSUME NEW j \in 1..(i + 1), w \in pipe[k][j].ops
          PROVE  w \in log'[k[2]] \/ \E n \in 1..i : w \in pipe'[k][n].ops
      <4>1. j \in 1..Len(pipe[k])
        BY <1>3, <3>1
      <4>2. w \in log'[k[2]] \/ (j - 1 \in 1..Len(pipe'[k]) /\ w \in pipe'[k][j - 1].ops)
        BY <1>10, <2>3, <3>4, <4>1
      <4>3. j - 1 \in 1..Len(pipe'[k]) => j - 1 \in 1..i
        OBVIOUS
      <4> QED BY <4>2, <4>3
    <3> QED BY <3>2, <3>3, <3>4
  <2> QED BY <2>2, <2>3
<1>12. CursorHolds'
  <2> SUFFICES ASSUME NEW k \in Links, phase'[k] = "live", phase'[Back(k)] # "down",
                      NEW w \in LastWords, cursor'[k][w.origin] >= w.seq
               PROVE  w \in log'[k[2]] \/ \E j \in 1..Len(pipe'[k]) : w \in pipe'[k][j].ops
    BY <1>2 DEF CursorHolds, OnItsWay
  <2>1. phase[Back(k)] # "down"
    BY LinkEnds
  <2>2. CASE k = l
    <3>1. w \in log'[l[2]] \/ \E j \in 1..Len(pipe[l]) : w \in pipe[l][j].ops
      BY <2>1, <2>2 DEF OnItsWay
    <3>2. pipe'[k] = pipe[l] /\ k[2] = l[2]
      BY <1>1, <1>4, <2>2
    <3> QED BY <3>1, <3>2
  <2>3. CASE k # l
    <3>1. w \in log[k[2]] \/ \E j \in 1..Len(pipe[k]) : w \in pipe[k][j].ops
      BY <2>1, <2>3 DEF Inv, CursorHolds, OnItsWay
    <3>2. ASSUME w \in log[k[2]] PROVE w \in log'[k[2]]
      BY <3>2, LinkEnds
    <3>3. ASSUME NEW j \in 1..Len(pipe[k]), w \in pipe[k][j].ops
          PROVE  w \in log'[k[2]] \/ \E n \in 1..Len(pipe'[k]) : w \in pipe'[k][n].ops
      BY <1>10, <3>3
    <3> QED BY <3>1, <3>2, <3>3
  <2> QED BY <2>2, <2>3
<1>13. SaidOnce'
  BY DEF Inv, SaidOnce
<1> QED BY <1>8, <1>9, <1>11, <1>12, <1>13, Parts DEF Inv, NothingMadeUp, ClockCoversLog,
        FramesSaid, StoresSaid

LEMMA HearHaveStep ==
    ASSUME Inv, NEW l \in Links, HearHave(l)
    PROVE  Inv'
<1> DEFINE b == Back(l)
           f == Head(pipe[b])
<1>1. /\ cursor' = [cursor EXCEPT ![l] = f.held]
      /\ phase' = [phase EXCEPT ![l] = "live"]
      /\ backlog' = [backlog EXCEPT ![l] = TRUE]
      /\ pipe' = [pipe EXCEPT ![b] = Tail(@)]
      /\ UNCHANGED stores /\ UNCHANGED <<woken, faults>>
      /\ phase[l] = "asked" /\ pipe[b] # <<>> /\ f.kind = "have"
  BY DEF HearHave
<1>2. /\ b \in Links /\ b # l /\ b[1] = l[2]
      /\ pipe \in [Links -> Seq(Frame)] /\ cursor \in [Links -> [Device -> Nat]]
      /\ phase \in [Links -> {"down", "greeted", "asked", "live"}]
  BY LinkEnds DEF Inv, TypeOK
<1>3. f = pipe[b][1] /\ 1 \in 1..Len(pipe[b]) /\ Tail(pipe[b]) \in Seq(Frame)
  <2>1. pipe[b] \in Seq(Frame)
    BY <1>2
  <2> HIDE DEF b
  <2> QED BY <1>1, <2>1
<1>4. /\ f \in Frame /\ f.held \in [Device -> Nat]
      /\ \A o \in Device : f.held[o] < nextSeq[o]
  BY <1>2, <1>3, FrameInPipe
<1>5. f.ops = {}
  BY <1>1, <1>4 DEF Frame
<1>6. \A w \in LastWords : f.held[w.origin] >= w.seq => w \in log[l[2]]
  BY <1>2, <1>3 DEF Inv, SenderHolds
<1> HIDE DEF f
<1>7. TypeOK'
  <2>1. pipe' \in [Links -> Seq(Frame)]
    BY <1>1, <1>2, <1>3
  <2> QED BY <1>1, <1>2, <1>4, <2>1 DEF Inv, TypeOK, stores
<1>8. StoresSaid' /\ LastWordHeld' /\ log' = log /\ said' = said /\ nextSeq' = nextSeq
  BY <1>1, NothingSaid DEF stores
<1>9. /\ \A k \in Links : phase'[k] = "down" <=> phase[k] = "down"
      /\ \A k \in Links : k # l => (phase'[k] = "live" => phase[k] = "live")
      /\ \A k \in Links : k # l => cursor'[k] = cursor[k]
      /\ cursor'[l] = f.held
  BY <1>1, <1>2
<1>10. \A w \in LastWords : w \in Head(pipe[Back(l)]).ops => w \in log'[l[1]]
  BY <1>5 DEF f
<1>11. \A w \in LastWords : cursor'[l][w.origin] >= w.seq => w \in log'[l[2]]
  BY <1>6, <1>8, <1>9
<1> QED BY <1>1, <1>4, <1>7, <1>8, <1>9, <1>10, <1>11, HearStep

LEMMA HearOpsStep ==
    ASSUME Inv, NEW l \in Links, HearOps(l)
    PROVE  Inv'
<1> DEFINE b == Back(l)
           d == l[1]
           f == Head(pipe[b])
           own == log[d]
           mine == have[d]
           after == HaveAfter(d, own, mine, f.ops, f.held)
<1>1. /\ phase[l] = "live" /\ pipe[b] # <<>> /\ f.kind = "ops"
      /\ cursor' = [cursor EXCEPT ![l] = Furthest(Furthest(@, Reach(f.ops)), f.held)]
      /\ log' = [log EXCEPT ![d] = Merge(@, f.ops)]
      /\ have' = [have EXCEPT ![d] = HaveAfter(d, log[d], @, f.ops, f.held)]
      /\ \E t \in {hlc[d]} \union {x.hlc : x \in f.ops} : hlc' = [hlc EXCEPT ![d] = t]
      /\ UNCHANGED woken \/ Wake(d)
      /\ pipe' = [pipe EXCEPT ![b] = Tail(@)]
      /\ UNCHANGED <<nextSeq, said, phase, backlog, faults>>
  BY DEF HearOps
<1>2. /\ b \in Links /\ b # l /\ b[1] = l[2] /\ b[2] = d /\ d \in Device /\ Back(b) = l
      /\ l[2] \in Device /\ l[2] # d
      /\ pipe \in [Links -> Seq(Frame)] /\ cursor \in [Links -> [Device -> Nat]]
      /\ log \in [Device -> SUBSET Op] /\ have \in [Device -> [Device -> Nat]]
      /\ nextSeq \in [Device -> Nat \ {0}] /\ hlc \in [Device -> Nat] /\ said \subseteq Op
  BY LinkEnds DEF Inv, TypeOK
<1>3. f = pipe[b][1] /\ 1 \in 1..Len(pipe[b]) /\ Tail(pipe[b]) \in Seq(Frame)
  <2>1. pipe[b] \in Seq(Frame)
    BY <1>2
  <2> HIDE DEF b
  <2> QED BY <1>1, <2>1
<1>4. /\ f \in Frame /\ f.held \in [Device -> Nat] /\ f.ops \subseteq said /\ f.ops \subseteq Op
      /\ \A o \in Device : f.held[o] \in Nat /\ f.held[o] < nextSeq[o]
      /\ \A x \in f.ops : x.seq <= f.held[x.origin]
  BY <1>2, <1>3, FrameInPipe DEF Inv, ClockCoversLog
<1>5. \A w \in LastWords : f.held[w.origin] >= w.seq => w \in log[l[2]]
  BY <1>2, <1>3 DEF Inv, SenderHolds
<1>6. \A w \in LastWords : f.held[w.origin] >= w.seq => w \in own \/ w \in f.ops
  <2> SUFFICES ASSUME NEW w \in LastWords, f.held[w.origin] >= w.seq
               PROVE  w \in own \/ w \in f.ops
    OBVIOUS
  <2>1. phase[Back(b)] # "down"
    BY <1>1, <1>2
  <2>2. w \in log[b[2]] \/ \E j \in 1..1 : w \in pipe[b][j].ops
    BY <1>1, <1>2, <1>3, <2>1 DEF Inv, WordsComeBehind, OnItsWay
  <2> QED BY <1>2, <1>3, <2>2
<1>7. /\ own \subseteq Op /\ own \subseteq said /\ mine \in [Device -> Nat]
      /\ \A x \in own : x.seq <= mine[x.origin]
      /\ \A x \in said : x.origin \in Device /\ x.seq \in Nat /\ x.seq < nextSeq[x.origin]
      /\ \A o \in Device : mine[o] \in Nat /\ mine[o] < nextSeq[o] /\ nextSeq[o] \in Nat
      /\ mine[d] = nextSeq[d] - 1
  BY <1>2 DEF Inv, NothingMadeUp, ClockCoversLog, Op
<1>8. /\ log'[d] = Merge(own, f.ops) /\ \A e \in Device : e # d => log'[e] = log[e]
      /\ have'[d] = after /\ \A e \in Device : e # d => have'[e] = have[e]
  BY <1>1, <1>2
<1> HIDE DEF f, own, mine, b, d
<1>9. ASSUME NEW o \in Device
      PROVE  /\ after[o] \in Nat /\ after[o] >= mine[o]
             /\ o = d => after[o] = mine[o]
             /\ o # d => after[o] >= f.held[o]
             /\ \A n \in Nat : mine[o] < n /\ n <= after[o] =>
                   \/ o # d /\ n <= f.held[o]
                   \/ \E x \in Merge(own, f.ops) : x.origin = o /\ x.seq = n
  <2>1. \A x \in own \union f.ops : x.seq <= nextSeq[x.origin]
    BY <1>4, <1>7
  <2>2. nextSeq \in [Device -> Nat]
    BY <1>2
  <2> DEFINE ops == f.ops
             held == f.held
             bound == nextSeq
  <2>3. /\ ops \subseteq Op /\ held \in [Device -> Nat] /\ own \subseteq Op
        /\ mine \in [Device -> Nat] /\ bound \in [Device -> Nat]
        /\ \A x \in own \union ops : x.seq <= bound[x.origin]
        /\ d \in Device
    BY <1>2, <1>4, <1>7, <2>1, <2>2
  <2> HIDE DEF ops, held, bound
  <2>4. MovesOnGrounds(d, own, mine, ops, held, o)
    BY <2>3, HaveAfterApply
  <2> QED BY <2>4 DEF ops, held, MovesOnGrounds
<1>10. Merge(own, f.ops) \subseteq own \union f.ops
  BY DEF Merge, Compact
<1>11. after \in [Device -> Nat]
  BY <1>9 DEF HaveAfter
<1> HIDE DEF after
<1>12. StoresSaid'
  <2>1. \A e \in Device : log'[e] \subseteq said'
    <3>1. log'[d] \subseteq said
      BY <1>4, <1>7, <1>8, <1>10
    <3>2. \A e \in Device : log[e] \subseteq said
      BY DEF Inv, NothingMadeUp
    <3> QED BY <1>1, <1>8, <3>1, <3>2
  <2>2. \A x \in said' : x.seq < nextSeq'[x.origin]
    BY <1>1, <1>7
  <2>3. \A e, o \in Device : have'[e][o] < nextSeq'[o]
    <3> SUFFICES ASSUME NEW e \in Device, NEW o \in Device PROVE have'[e][o] < nextSeq[o]
      BY <1>1
    <3>1. CASE e # d
      BY <1>8, <3>1 DEF Inv, NothingMadeUp
    <3>2. after[o] < nextSeq[o]
      <4>1. CASE after[o] = mine[o]
        BY <1>7, <4>1
      <4>2. CASE mine[o] < after[o] /\ after[o] <= f.held[o]
        BY <1>4, <1>7, <1>9, <4>2
      <4>3. CASE \E x \in Merge(own, f.ops) : x.origin = o /\ x.seq = after[o]
        BY <1>4, <1>7, <1>10, <4>3
      <4> QED BY <1>7, <1>9, <4>1, <4>2, <4>3
    <3> QED BY <1>8, <3>1, <3>2
  <2>4. \A e \in Device : \A x \in log'[e] : x.seq <= have'[e][x.origin]
    <3> SUFFICES ASSUME NEW e \in Device, NEW x \in log'[e]
                 PROVE  x.seq <= have'[e][x.origin]
      OBVIOUS
    <3>1. CASE e # d
      BY <1>8, <3>1 DEF Inv, ClockCoversLog
    <3>2. CASE e = d
      <4>1. x \in own \union f.ops /\ x \in said /\ x.origin \in Device /\ x.seq \in Nat
        BY <1>4, <1>7, <1>8, <1>10, <3>2
      <4>2. after[x.origin] \in Nat /\ mine[x.origin] \in Nat /\ f.held[x.origin] \in Nat
        BY <1>4, <1>7, <1>9, <4>1
      <4>3. CASE x \in own
        <5>1. x.seq <= mine[x.origin] /\ after[x.origin] >= mine[x.origin]
          BY <1>7, <1>9, <4>1, <4>3
        <5> QED BY <1>8, <3>2, <4>1, <4>2, <5>1
      <4>4. CASE x \in f.ops /\ x.origin # d
        <5>1. x.seq <= f.held[x.origin] /\ after[x.origin] >= f.held[x.origin]
          BY <1>4, <1>9, <4>1, <4>4
        <5> QED BY <1>8, <3>2, <4>1, <4>2, <5>1
      <4>5. CASE x.origin = d
        <5>1. x.seq < nextSeq[d] /\ after[d] = nextSeq[d] - 1 /\ nextSeq[d] \in Nat
          BY <1>2, <1>7, <1>9, <4>1, <4>5
        <5> QED BY <1>8, <3>2, <4>1, <4>5, <5>1
      <4> QED BY <4>1, <4>3, <4>4, <4>5
    <3> QED BY <3>1, <3>2
  <2>5. \A e \in Device : have'[e][e] = nextSeq'[e] - 1
    <3>1. \A e \in Device : have[e][e] = nextSeq[e] - 1
      BY DEF Inv, ClockCoversLog
    <3>2. after[d] = nextSeq[d] - 1
      BY <1>2, <1>7, <1>9
    <3> QED BY <1>1, <1>8, <3>1, <3>2
  <2> QED BY <2>1, <2>2, <2>3, <2>4, <2>5 DEF StoresSaid
<1>13. \A w \in LastWords : w \in own \/ w \in f.ops => w \in log'[d]
  BY <1>4, <1>7, <1>8, MergeKeepsLastWords DEF LastWords
<1>14. LastWordHeld'
  <2> SUFFICES ASSUME NEW e \in Device, NEW w \in LastWords, have'[e][w.origin] >= w.seq
               PROVE  w \in log'[e]
    BY <1>1 DEF LastWordHeld, LastWords
  <2>1. w \in said /\ w.origin \in Device /\ w.seq \in Nat
    BY <1>7 DEF LastWords, Compact
  <2>2. CASE e # d
    BY <1>8, <2>2 DEF Inv, LastWordHeld
  <2>3. CASE e = d
    <3>1. after[w.origin] >= w.seq
      BY <1>8, <2>3
    <3>2. mine[w.origin] \in Nat /\ after[w.origin] \in Nat
      BY <1>7, <1>9, <2>1
    <3>3. CASE mine[w.origin] >= w.seq
      <4>1. w \in own
        BY <1>2, <3>3 DEF Inv, LastWordHeld, own, mine
      <4> QED BY <1>13, <2>3, <4>1
    <3>4. CASE f.held[w.origin] >= w.seq
      BY <1>6, <1>13, <2>3, <3>4
    <3>5. CASE \E x \in Merge(own, f.ops) : x.origin = w.origin /\ x.seq = w.seq
      <4>1. PICK x \in Merge(own, f.ops) : x.origin = w.origin /\ x.seq = w.seq
        BY <3>5
      <4>2. x \in said
        BY <1>4, <1>7, <1>10
      <4>3. x = w
        BY <2>1, <4>1, <4>2 DEF Inv, SaidOnce
      <4> QED BY <1>8, <2>3, <4>3
    <3>6. mine[w.origin] < w.seq =>
            \/ w.seq <= f.held[w.origin]
            \/ \E x \in Merge(own, f.ops) : x.origin = w.origin /\ x.seq = w.seq
      BY <1>9, <2>1, <3>1
    <3>7. f.held[w.origin] \in Nat
      BY <1>4, <2>1
    <3> QED BY <2>1, <3>2, <3>3, <3>4, <3>5, <3>6, <3>7
  <2> QED BY <2>2, <2>3
<1>15. /\ cursor'[l] = Furthest(Furthest(cursor[l], Reach(f.ops)), f.held)
       /\ \A k \in Links : k # l => cursor'[k] = cursor[k]
  BY <1>1, <1>2
<1>16. ASSUME NEW o \in Device
       PROVE  /\ cursor'[l][o] \in Nat /\ cursor[l][o] \in Nat
              /\ cursor'[l][o] = cursor[l][o] \/ cursor'[l][o] <= f.held[o]
  <2>1. Reach(f.ops)[o] \in Nat /\ Reach(f.ops)[o] <= f.held[o]
    <3> DEFINE ops == f.ops
               held == f.held
    <3>1. ops \subseteq Op /\ held \in [Device -> Nat] /\ \A x \in ops : x.seq <= held[x.origin]
      BY <1>4
    <3> HIDE DEF ops, held
    <3>2. Reach(ops)[o] \in Nat /\ Reach(ops)[o] <= held[o]
      BY <3>1, ReachOfOps
    <3> QED BY <3>2 DEF ops, held
  <2>2. cursor[l][o] \in Nat /\ f.held[o] \in Nat
    BY <1>2, <1>4
  <2> QED BY <1>15, <2>1, <2>2 DEF Furthest
<1>17. \A o \in Device : cursor'[l][o] < nextSeq[o]
  <2> SUFFICES ASSUME NEW o \in Device PROVE cursor'[l][o] < nextSeq[o]
    OBVIOUS
  <2>1. cursor[l][o] < nextSeq[o]
    BY DEF Inv, NothingMadeUp
  <2>2. f.held[o] < nextSeq[o] /\ f.held[o] \in Nat /\ nextSeq[o] \in Nat
    BY <1>4, <1>7
  <2> QED BY <1>16, <2>1, <2>2
<1>18. TypeOK'
  <2>1. pipe' \in [Links -> Seq(Frame)]
    BY <1>1, <1>2, <1>3
  <2>2. cursor' \in [Links -> [Device -> Nat]]
    <3>1. cursor'[l] \in [Device -> Nat]
      BY <1>15, <1>16 DEF Furthest
    <3>2. \A k \in Links : cursor'[k] \in [Device -> Nat]
      BY <1>2, <1>15, <3>1
    <3> QED BY <1>1, <1>2, <3>2
  <2>3. log' \in [Device -> SUBSET Op]
    <3>1. Merge(own, f.ops) \in SUBSET Op
      BY <1>4, <1>7, <1>10
    <3> QED BY <1>1, <1>2, <3>1 DEF own
  <2>4. have' \in [Device -> [Device -> Nat]]
    BY <1>1, <1>2, <1>11 DEF after, mine, own
  <2>5. hlc' \in [Device -> Nat]
    <3>1. PICK t \in {hlc[d]} \union {x.hlc : x \in f.ops} : hlc' = [hlc EXCEPT ![d] = t]
      BY <1>1
    <3>2. hlc[d] \in Nat /\ \A x \in f.ops : x.hlc \in Nat
      BY <1>2, <1>4 DEF Op
    <3>3. t \in Nat
      BY <3>1, <3>2
    <3> QED BY <1>2, <3>1, <3>3
  <2>6. woken' \in [Links -> BOOLEAN]
    <3>1. woken \in [Links -> BOOLEAN]
      BY DEF Inv, TypeOK
    <3>2. ASSUME Wake(d) PROVE woken' \in [Links -> BOOLEAN]
      BY <3>1, <3>2 DEF Wake
    <3> QED BY <1>1, <3>1, <3>2
  <2> QED BY <1>1, <2>1, <2>2, <2>3, <2>4, <2>5, <2>6 DEF Inv, TypeOK
<1>19. \A e \in Device : \A w \in LastWords : w \in log[e] => w \in log'[e]
  BY <1>8, <1>13 DEF own
<1>20. phase[b] # "down" => \A w \in LastWords : cursor'[l][w.origin] >= w.seq =>
          w \in log'[l[2]] \/ OnItsWay(l, w, Len(pipe[l]))
  <2> SUFFICES ASSUME phase[b] # "down", NEW w \in LastWords, cursor'[l][w.origin] >= w.seq
               PROVE  w \in log'[l[2]] \/ OnItsWay(l, w, Len(pipe[l]))
    OBVIOUS
  <2>1. w \in said /\ w.origin \in Device /\ w.seq \in Nat
    BY <1>7 DEF LastWords, Compact
  <2>2. CASE cursor[l][w.origin] >= w.seq
    <3>1. w \in log[l[2]] \/ OnItsWay(l, w, Len(pipe[l]))
      BY <1>1, <2>2 DEF Inv, CursorHolds, b
    <3> QED BY <1>2, <1>19, <3>1
  <2>3. CASE f.held[w.origin] >= w.seq
    BY <1>2, <1>5, <1>19, <2>3
  <2>4. f.held[w.origin] \in Nat
    BY <1>4, <2>1
  <2> QED BY <2>1, <2>2, <2>3, <2>4, <1>16
<1>21. \A w \in LastWords : w \in Head(pipe[Back(l)]).ops => w \in log'[l[1]]
  BY <1>13 DEF f, b, d
<1>22. said' = said /\ nextSeq' = nextSeq /\ phase' = phase
  BY <1>1
<1>23. pipe[Back(l)] # <<>> /\ pipe' = [pipe EXCEPT ![Back(l)] = Tail(@)]
  BY <1>1 DEF b
<1>24. phase[Back(l)] # "down" => \A w \in LastWords : cursor'[l][w.origin] >= w.seq =>
          w \in log'[l[2]] \/ OnItsWay(l, w, Len(pipe[l]))
  BY <1>20 DEF b
<1> QED BY <1>12, <1>14, <1>15, <1>17, <1>18, <1>19, <1>21, <1>22, <1>23, <1>24, HearStep

----------------------------------------------------------------------------
LEMMA StepKeepsInv == Inv /\ [Next]_vars => Inv'
<1> SUFFICES ASSUME Inv, [Next]_vars PROVE Inv'
  OBVIOUS
<1>1. ASSUME NEW d \in Device, NEW r \in Row, Insert(d, r) \/ Update(d, r) \/ Delete(d, r)
      PROVE  Inv'
  BY <1>1, WriteStep
<1>2. ASSUME NEW l \in Links, Connect(l)
      PROVE  Inv'
  BY <1>2, ConnectStep
<1>3. ASSUME NEW l \in Links, SendHave(l)
      PROVE  Inv'
  BY <1>3, SendHaveStep
<1>4. ASSUME NEW l \in Links, HearHave(l)
      PROVE  Inv'
  BY <1>4, HearHaveStep
<1>5. ASSUME NEW l \in Links, SendNext(l)
      PROVE  Inv'
  BY <1>5, SendNextStep
<1>6. ASSUME NEW l \in Links, HearOps(l)
      PROVE  Inv'
  BY <1>6, HearOpsStep
<1>7. ASSUME NEW l \in Links, TakeWake(l)
      PROVE  Inv'
  BY <1>7, TakeWakeStep
<1>8. ASSUME NEW l \in Links, Drop(l)
      PROVE  Inv'
  BY <1>8, DropStep
<1>9. ASSUME NEW l \in Links, HearEnd(l)
      PROVE  Inv'
  BY <1>9, HearEndStep
<1>10. ASSUME NEW d \in Device, Restart(d)
       PROVE  Inv'
  BY <1>10, RestartStep
<1>11. ASSUME UNCHANGED vars
       PROVE  Inv'
  BY <1>11 DEF vars, Inv, TypeOK, SaidOnce, NothingMadeUp, ClockCoversLog, LastWordHeld,
               SenderHolds, WordsComeBehind, CursorHolds, LastWords, OnItsWay
<1> QED BY <1>1, <1>2, <1>3, <1>4, <1>5, <1>6, <1>7, <1>8, <1>9, <1>10, <1>11 DEF Next

(* The invariant of the exchange, for any devices, links, rows and frames.  *)
(* log.rs and protocol.rs over every interleaving of writes and sessions.   *)
THEOREM ExchangeInv == Spec => []Inv
<1> QED BY InitInv, StepKeepsInv, PTL DEF Spec

(* Every variable of the exchange has its type: log.rs's tables and run's   *)
(* session state.                                                           *)
THEOREM ExchangeTypeOK == Spec => []TypeOK
<1>1. Inv => TypeOK
  BY DEF Inv
<1> QED BY <1>1, ExchangeInv, PTL

(* A device that stands at seq for an origin holds every op of it up to     *)
(* there that is the last word on its cell: what a vector clock with holes  *)
(* in it, made by retire and moved by vouch, is still worth.                *)
THEOREM ExchangeLastWordHeld == Spec => []LastWordHeld
<1>1. Inv => LastWordHeld
  BY DEF Inv
<1> QED BY <1>1, ExchangeInv, PTL

----------------------------------------------------------------------------
(* What one device adds to what was said.                                   *)

(* Its own decision, past everything it had heard: emit.                    *)
Decides(d, ops) ==
    /\ ops \subseteq Op /\ ops # {}
    /\ \A x \in ops : /\ x.origin = d /\ nextSeq[d] <= x.seq
                      /\ hlc[d] < x.hlc /\ x.hlc <= hlc'[d]
    /\ \A x, y \in ops : x # y => ~SpeaksFor(x, y)
    /\ hlc[d] <= hlc'[d] /\ \A e \in Device : e # d => hlc'[e] = hlc[e]
    /\ log' = [log EXCEPT ![d] = ops \union {y \in @ : \A x \in ops : ~Overtakes(x, y)}]
    /\ said' = said \union ops

(* What it files at an open of the cells nothing speaks for: backfill.      *)
Backfills(d, ops) ==
    /\ ops \subseteq Op
    /\ \A x \in ops : x.origin = d /\ nextSeq[d] <= x.seq /\ x.hlc = 0
    /\ \A x, y \in ops : x # y => ~SpeaksFor(x, y)
    /\ \A x \in ops, y \in log[d] : ~SpeaksFor(x, y) /\ ~SpeaksFor(y, x)
    /\ log' = [log EXCEPT ![d] = @ \union ops]
    /\ said' = said \union ops
    /\ hlc' = hlc

LEMMA EmitDecides ==
    ASSUME Inv, NEW d \in Device, NEW r \in Row, NEW cells, cells \subseteq Column,
           cells \subseteq Col \/ cells = {Tomb},
           NEW vals \in [cells -> Val \union {Null}], Emit(d, r, vals)
    PROVE  /\ \E ops : Decides(d, ops)
           /\ Wake(d) /\ UNCHANGED <<phase, cursor, backlog, pipe, faults>>
<1>0. DOMAIN vals = cells
  OBVIOUS
<1>1. PICK now \in Now, next \in (nextSeq[d] + 1)..(MaxSeq[d] + 1) :
      \E seq \in Stamps(DOMAIN vals, nextSeq[d], next) :
        LET base == Issue(hlc[d], now, Counter)
            ops  == {[origin |-> d, seq |-> seq[c], hlc |-> base + (seq[c] - nextSeq[d]),
                      row |-> r, col |-> c, val |-> vals[c]] : c \in DOMAIN vals}
        IN  /\ log' = [log EXCEPT ![d] = ops \union
                            {y \in @ : \A x \in ops : ~Overtakes(x, y)}]
            /\ have' = [have EXCEPT ![d][d] = next - 1]
            /\ hlc' = [hlc EXCEPT ![d] = base + (next - 1 - nextSeq[d])]
            /\ nextSeq' = [nextSeq EXCEPT ![d] = next]
            /\ said' = said \union ops
            /\ Wake(d)
            /\ UNCHANGED <<phase, cursor, backlog, pipe, faults>>
  BY Zenon DEF Emit
<1>2. PICK seq \in Stamps(DOMAIN vals, nextSeq[d], next) :
        LET base == Issue(hlc[d], now, Counter)
            ops  == {[origin |-> d, seq |-> seq[c], hlc |-> base + (seq[c] - nextSeq[d]),
                      row |-> r, col |-> c, val |-> vals[c]] : c \in DOMAIN vals}
        IN  /\ log' = [log EXCEPT ![d] = ops \union
                            {y \in @ : \A x \in ops : ~Overtakes(x, y)}]
            /\ have' = [have EXCEPT ![d][d] = next - 1]
            /\ hlc' = [hlc EXCEPT ![d] = base + (next - 1 - nextSeq[d])]
            /\ nextSeq' = [nextSeq EXCEPT ![d] = next]
            /\ said' = said \union ops
            /\ Wake(d)
            /\ UNCHANGED <<phase, cursor, backlog, pipe, faults>>
  BY Zenon, <1>1
<1> DEFINE base == Issue(hlc[d], now, Counter)
           Made(c) == [origin |-> d, seq |-> seq[c], hlc |-> base + (seq[c] - nextSeq[d]),
                       row |-> r, col |-> c, val |-> vals[c]]
           ops  == {Made(c) : c \in DOMAIN vals}
<1>3. /\ nextSeq[d] \in Nat \ {0} /\ hlc[d] \in Nat /\ now \in Nat /\ hlc \in [Device -> Nat]
      /\ next \in Nat /\ nextSeq[d] < next /\ MaxSeq[d] \in Nat
  BY ExchangeAssumption DEF Inv, TypeOK
<1>4. base \in Nat /\ base > hlc[d]
  <2>1. now * Counter \in Nat
    BY <1>3, ExchangeAssumption
  <2> QED BY <1>3, <2>1 DEF Issue
<1>5. /\ seq \in [cells -> nextSeq[d]..(next - 1)]
      /\ \A n \in nextSeq[d]..(next - 1) : \E c \in cells : seq[c] = n
  BY <1>0 DEF Stamps
<1>6. \A c \in cells : seq[c] \in Nat /\ nextSeq[d] <= seq[c] /\ seq[c] < next
  BY <1>3, <1>5
<1>7. /\ log' = [log EXCEPT ![d] = ops \union {y \in @ : \A x \in ops : ~Overtakes(x, y)}]
      /\ hlc' = [hlc EXCEPT ![d] = base + (next - 1 - nextSeq[d])]
      /\ said' = said \union ops
      /\ Wake(d)
      /\ UNCHANGED <<phase, cursor, backlog, pipe, faults>>
  BY <1>2
<1> HIDE DEF base
<1>8. hlc'[d] = base + (next - 1 - nextSeq[d]) /\ \A e \in Device : e # d => hlc'[e] = hlc[e]
  BY <1>3, <1>7
<1>9. ASSUME NEW c \in cells
      PROVE  /\ Made(c) \in Op /\ Made(c).origin = d /\ nextSeq[d] <= Made(c).seq
             /\ hlc[d] < Made(c).hlc /\ Made(c).hlc <= hlc'[d]
  <2>1. /\ seq[c] \in Nat \ {0} /\ base + (seq[c] - nextSeq[d]) \in Nat
        /\ hlc[d] < base + (seq[c] - nextSeq[d])
        /\ base + (seq[c] - nextSeq[d]) <= base + (next - 1 - nextSeq[d])
    BY <1>3, <1>4, <1>6
  <2> QED BY <1>6, <1>8, <2>1 DEF Op
<1>10. \A x, y \in ops : x # y => ~SpeaksFor(x, y)
  <2> SUFFICES ASSUME NEW b \in cells, NEW c \in cells, SpeaksFor(Made(b), Made(c))
               PROVE  b = c
    BY <1>0
  <2>1. b = c \/ b = Tomb
    BY DEF SpeaksFor
  <2> QED BY <2>1, OpsAssumption
<1>11. ops # {}
  <2>1. nextSeq[d] \in nextSeq[d]..(next - 1)
    BY <1>3
  <2>2. PICK c \in cells : seq[c] = nextSeq[d]
    BY <1>5, <2>1
  <2>3. Made(c) \in ops
    BY <1>0
  <2> QED BY <2>3
<1>12. ops \subseteq Op /\ \A x \in ops : /\ x.origin = d /\ nextSeq[d] <= x.seq
                                          /\ hlc[d] < x.hlc /\ x.hlc <= hlc'[d]
  BY <1>0, <1>9
<1>13. hlc[d] <= hlc'[d]
  BY <1>3, <1>4, <1>8
<1> HIDE DEF ops
<1>14. Decides(d, ops)
  BY <1>7, <1>8, <1>10, <1>11, <1>12, <1>13 DEF Decides
<1> QED BY <1>7, <1>14

LEMMA WriteDecides ==
    ASSUME Inv, NEW d \in Device, NEW r \in Row,
           Insert(d, r) \/ Update(d, r) \/ Delete(d, r)
    PROVE  /\ \E ops : Decides(d, ops)
           /\ Wake(d) /\ UNCHANGED <<phase, cursor, backlog, pipe, faults>>
<1>1. CASE Insert(d, r)
  <2>1. PICK vals \in [Col -> Val] : Emit(d, r, vals)
    BY <1>1 DEF Insert
  <2>2. Col \subseteq Column /\ vals \in [Col -> Val \union {Null}]
    BY DEF Column
  <2> QED BY <2>1, <2>2, EmitDecides
<1>2. CASE Update(d, r)
  <2>1. PICK cols \in SUBSET Col \ {{}} : \E vals \in [cols -> Val] : Emit(d, r, vals)
    BY <1>2 DEF Update
  <2>2. PICK vals \in [cols -> Val] : Emit(d, r, vals)
    BY <2>1
  <2>3. cols \subseteq Column /\ vals \in [cols -> Val \union {Null}] /\ cols \subseteq Col
    BY DEF Column
  <2> QED BY <2>2, <2>3, EmitDecides
<1>3. CASE Delete(d, r)
  <2>1. Emit(d, r, [c \in {Tomb} |-> Null])
    BY <1>3 DEF Delete
  <2>2. {Tomb} \subseteq Column /\ [c \in {Tomb} |-> Null] \in [{Tomb} -> Val \union {Null}]
    BY DEF Column
  <2> QED BY <2>1, <2>2, EmitDecides
<1> QED BY <1>1, <1>2, <1>3

LEMMA RestartBackfills ==
    ASSUME Inv, NEW d \in Device, Restart(d)
    PROVE  /\ \E ops : Backfills(d, ops)
           /\ \E arrived \in [Links -> 0..PipeCap] :
                 /\ \A l \in Links : arrived[l] <= Len(pipe[l])
                 /\ Gone({l \in Links : l[1] = d /\ phase[l] # "down"}, arrived)
<1>1. PICK next \in nextSeq[d]..(MaxSeq[d] + 1) :
       \E seq \in Stamps(Unspoken(d), nextSeq[d], next) :
        LET ops  == {[origin |-> d, seq |-> seq[c], hlc |-> 0, row |-> c[1], col |-> c[2],
                      val |-> Shown(d, c[1])[c[2]]] : c \in Unspoken(d)}
            ends == {l \in Links : l[1] = d /\ phase[l] # "down"}
        IN  /\ log' = [log EXCEPT ![d] = @ \union ops]
            /\ have' = IF ops = {} THEN have ELSE [have EXCEPT ![d][d] = next - 1]
            /\ nextSeq' = [nextSeq EXCEPT ![d] = next]
            /\ said' = said \union ops
            /\ \E arrived \in [Links -> 0..PipeCap] :
                  /\ \A l \in Links : arrived[l] <= Len(pipe[l])
                  /\ \A l \in Links \ ends : arrived[l] = 0
                  /\ Gone(ends, arrived)
            /\ UNCHANGED hlc
  BY Zenon DEF Restart
<1>2. PICK seq \in Stamps(Unspoken(d), nextSeq[d], next) :
        LET ops  == {[origin |-> d, seq |-> seq[c], hlc |-> 0, row |-> c[1], col |-> c[2],
                      val |-> Shown(d, c[1])[c[2]]] : c \in Unspoken(d)}
            ends == {l \in Links : l[1] = d /\ phase[l] # "down"}
        IN  /\ log' = [log EXCEPT ![d] = @ \union ops]
            /\ have' = IF ops = {} THEN have ELSE [have EXCEPT ![d][d] = next - 1]
            /\ nextSeq' = [nextSeq EXCEPT ![d] = next]
            /\ said' = said \union ops
            /\ \E arrived \in [Links -> 0..PipeCap] :
                  /\ \A l \in Links : arrived[l] <= Len(pipe[l])
                  /\ \A l \in Links \ ends : arrived[l] = 0
                  /\ Gone(ends, arrived)
            /\ UNCHANGED hlc
  BY Zenon, <1>1
<1> DEFINE Made(c) == [origin |-> d, seq |-> seq[c], hlc |-> 0, row |-> c[1], col |-> c[2],
                       val |-> Shown(d, c[1])[c[2]]]
           ops == {Made(c) : c \in Unspoken(d)}
<1>3. nextSeq[d] \in Nat \ {0} /\ next \in Nat /\ log[d] \subseteq Op /\ MaxSeq[d] \in Nat
  BY ExchangeAssumption DEF Inv, TypeOK
<1>4. seq \in [Unspoken(d) -> nextSeq[d]..(next - 1)]
  BY DEF Stamps
<1>5. ASSUME NEW c \in Unspoken(d)
      PROVE  /\ Made(c) \in Op /\ Made(c).origin = d /\ nextSeq[d] <= Made(c).seq
             /\ Made(c).hlc = 0
             /\ \A y \in log[d] : ~SpeaksFor(Made(c), y) /\ ~SpeaksFor(y, Made(c))
  <2>1. /\ c \in Row \X Col /\ c[1] \in Row /\ c[2] \in Col /\ Shown(d, c[1]) # Absent
        /\ \A x \in log[d] : x.row = c[1] => x.col \notin {c[2], Tomb}
    BY DEF Unspoken
  <2>2. Shown(d, c[1])[c[2]] \in Val \union {Null}
    BY <2>1, <1>3, DescribedIsRow DEF Shown
  <2>3. seq[c] \in Nat \ {0} /\ nextSeq[d] <= seq[c]
    BY <1>3, <1>4
  <2>4. Made(c) \in Op
    BY <2>1, <2>2, <2>3 DEF Op, Column
  <2>5. c[2] # Tomb
    BY <2>1, OpsAssumption
  <2>6. \A y \in log[d] : ~SpeaksFor(Made(c), y) /\ ~SpeaksFor(y, Made(c))
    BY <2>1, <2>5 DEF SpeaksFor
  <2> QED BY <2>3, <2>4, <2>6
<1>6. \A x, y \in ops : x # y => ~SpeaksFor(x, y)
  <2> SUFFICES ASSUME NEW b \in Unspoken(d), NEW c \in Unspoken(d),
                      SpeaksFor(Made(b), Made(c))
               PROVE  b = c
    OBVIOUS
  <2>1. b \in Row \X Col /\ c \in Row \X Col /\ b[2] \in Col
    BY DEF Unspoken
  <2>2. b[1] = c[1] /\ (b[2] = c[2] \/ b[2] = Tomb)
    BY DEF SpeaksFor
  <2> QED BY <2>1, <2>2, OpsAssumption
<1>7. /\ log' = [log EXCEPT ![d] = @ \union ops]
      /\ said' = said \union ops
      /\ hlc' = hlc
  BY <1>2
<1>8. /\ ops \subseteq Op
      /\ \A x \in ops : x.origin = d /\ nextSeq[d] <= x.seq /\ x.hlc = 0
      /\ \A x \in ops, y \in log[d] : ~SpeaksFor(x, y) /\ ~SpeaksFor(y, x)
  BY <1>5
<1> HIDE DEF ops
<1>9. Backfills(d, ops)
  BY <1>6, <1>7, <1>8 DEF Backfills
<1>10. \E arrived \in [Links -> 0..PipeCap] :
         /\ \A l \in Links : arrived[l] <= Len(pipe[l])
         /\ Gone({l \in Links : l[1] = d /\ phase[l] # "down"}, arrived)
  BY <1>2
<1> QED BY <1>9, <1>10

(* What a device joins to its log when it hears a frame: apply.             *)
LEMMA HearOpsMerges ==
    ASSUME Inv, NEW l \in Links, HearOps(l)
    PROVE  \E ops \in SUBSET said :
               /\ ops \subseteq Op
               /\ log' = [log EXCEPT ![l[1]] = Merge(@, ops)]
               /\ ClockAfter(log[l[1]], hlc[l[1]], ops, hlc'[l[1]])
               /\ \A e \in Device : e # l[1] => hlc'[e] = hlc[e]
               /\ IF log[l[1]] = Merge(log[l[1]], ops) THEN UNCHANGED woken ELSE Wake(l[1])
               /\ UNCHANGED said
<1> DEFINE b == Back(l)
           f == Head(pipe[b])
<1>1. /\ log' = [log EXCEPT ![l[1]] = Merge(@, f.ops)]
      /\ \E t \in {hlc[l[1]]} \union {x.hlc : x \in f.ops} :
            ClockAfter(log[l[1]], hlc[l[1]], f.ops, t) /\ hlc' = [hlc EXCEPT ![l[1]] = t]
      /\ IF log[l[1]] = Merge(log[l[1]], f.ops) THEN UNCHANGED woken ELSE Wake(l[1])
      /\ UNCHANGED said /\ pipe[b] # <<>>
  BY DEF HearOps
<1>2. l[1] \in Device /\ b \in Links /\ pipe[b] \in Seq(Frame) /\ hlc \in [Device -> Nat]
      /\ said \subseteq Op
  BY LinkEnds DEF Inv, TypeOK
<1>3. f = pipe[b][1] /\ 1 \in 1..Len(pipe[b])
  <2> HIDE DEF b
  <2> QED BY <1>1, <1>2
<1>4. f.ops \subseteq said
  BY <1>2, <1>3, FrameInPipe
<1> HIDE DEF f
<1> QED BY <1>1, <1>2, <1>4

----------------------------------------------------------------------------
(* The order of the words.                                                  *)

LEMMA DevicesAreBounded == \E N \in Nat : \A d \in Device : d <= N
BY OpsAssumption, ExchangeAssumption, FiniteIsBounded

LEMMA OrderInit == Init => OneWordPerCell /\ ClocksCoverWords /\ OwnWordsStand
<1> SUFFICES ASSUME Init PROVE OneWordPerCell /\ ClocksCoverWords /\ OwnWordsStand
  OBVIOUS
<1>1. ASSUME NEW d \in Device
      PROVE  /\ \A x \in LegacyOps(d) : x.origin = d /\ x.hlc = 0
             /\ \A x, y \in LegacyOps(d) : x.row = y.row /\ x.col = y.col => x = y
             /\ \A x \in LegacyOps(d) : x.col # Tomb
  <2>1. ASSUME NEW b \in Legacy[d] \X Col, NEW c \in Legacy[d] \X Col,
               b[1] = c[1], b[2] = c[2]
        PROVE  b = c
    BY <2>1
  <2> QED BY <2>1, OpsAssumption DEF LegacyOps
<1>2. /\ \A d \in Device : log[d] = LegacyOps(d) /\ hlc[d] = 0
      /\ said = UNION {LegacyOps(d) : d \in Device}
  BY DEF Init
<1>3. ASSUME NEW x \in said
      PROVE  x.origin \in Device /\ x \in LegacyOps(x.origin) /\ x.hlc = 0
  BY <1>1, <1>2
<1>4. ASSUME NEW d \in Device, NEW x \in log[d], NEW y \in log[d] PROVE ~Overtakes(x, y)
  <2>1. x.origin = d /\ y.origin = d /\ x.hlc = 0 /\ y.hlc = 0 /\ d \in Nat
    BY <1>1, <1>2, OpsAssumption
  <2> QED BY <2>1 DEF Overtakes, After
<1>5. \A x, y \in said : x # y /\ x.row = y.row /\ x.col = y.col => After(x, y) \/ After(y, x)
  <2> SUFFICES ASSUME NEW x \in said, NEW y \in said, x # y, x.row = y.row, x.col = y.col
               PROVE  After(x, y) \/ After(y, x)
    OBVIOUS
  <2>1. x.origin # y.origin
    BY <1>1, <1>3
  <2>2. x.origin \in Nat /\ y.origin \in Nat
    BY <1>3, OpsAssumption
  <2> QED BY <1>3, <2>1, <2>2 DEF After
<1>6. ClocksCoverWords
  BY <1>1, <1>2, <1>3 DEF ClocksCoverWords
<1>7. OwnWordsStand
  BY <1>2, <1>3 DEF OwnWordsStand
<1> QED BY <1>4, <1>5, <1>6, <1>7 DEF OneWordPerCell

LEMMA DecideKeepsOrder ==
    ASSUME OrderInv, TypeOK', NEW d \in Device, NEW ops, Decides(d, ops)
    PROVE  OneWordPerCell' /\ ClocksCoverWords' /\ OwnWordsStand'
<1>1. /\ ops \subseteq Op
      /\ \A x \in ops : /\ x.origin = d /\ nextSeq[d] <= x.seq
                        /\ hlc[d] < x.hlc /\ x.hlc <= hlc'[d]
      /\ \A x, y \in ops : x # y => ~SpeaksFor(x, y)
      /\ hlc[d] <= hlc'[d] /\ \A e \in Device : e # d => hlc'[e] = hlc[e]
      /\ said' = said \union ops
  BY DEF Decides
<1>2. /\ log \in [Device -> SUBSET Op] /\ said \subseteq Op /\ hlc \in [Device -> Nat]
      /\ hlc'[d] \in Nat
  BY DEF OrderInv, Inv, TypeOK
<1>3. /\ log'[d] = ops \union {y \in log[d] : \A x \in ops : ~Overtakes(x, y)}
      /\ \A e \in Device : e # d => log'[e] = log[e]
  BY <1>2 DEF Decides
<1>4. \A x \in Op : x.hlc \in Nat /\ x.origin \in Nat /\ x.origin \in Device
  BY OpsAssumption DEF Op
<1>5. /\ \A e \in Device : \A x \in log[e] : x \in Op /\ x.hlc <= hlc[e]
      /\ \A x \in said : x.hlc <= hlc[x.origin]
  BY <1>2 DEF OrderInv, ClocksCoverWords
<1>6. ASSUME NEW x \in ops, NEW y \in log[d]
      PROVE  After(x, y) /\ ~After(y, x)
  <2>1. y.hlc <= hlc[d] /\ hlc[d] < x.hlc /\ y.hlc \in Nat /\ x.hlc \in Nat /\ hlc[d] \in Nat
    BY <1>1, <1>2, <1>4, <1>5
  <2> QED BY <2>1 DEF After
<1>7. \A e \in Device : \A x, y \in log'[e] : ~Overtakes(x, y)
  <2> SUFFICES ASSUME NEW e \in Device, NEW x \in log'[e], NEW y \in log'[e]
               PROVE  ~Overtakes(x, y)
    OBVIOUS
  <2>1. CASE e # d
    BY <1>3, <2>1 DEF OrderInv, OneWordPerCell
  <2>2. CASE e = d /\ x \in ops /\ y \in ops
    BY <1>1, <2>2, OvertakesIsStrict DEF Overtakes
  <2>3. CASE e = d /\ x \in ops /\ y \notin ops
    BY <1>3, <2>3
  <2>4. CASE e = d /\ x \notin ops /\ y \in ops
    BY <1>3, <1>6, <2>4 DEF Overtakes
  <2>5. CASE e = d /\ x \notin ops /\ y \notin ops
    BY <1>3, <2>5 DEF OrderInv, OneWordPerCell
  <2> QED BY <2>1, <2>2, <2>3, <2>4, <2>5
<1>8. ASSUME NEW x \in ops, NEW y \in said
      PROVE  After(x, y) \/ After(y, x)
  <2>1. x.origin = d /\ hlc[d] < x.hlc /\ y.hlc <= hlc[y.origin]
        /\ x.hlc \in Nat /\ y.hlc \in Nat /\ y.origin \in Nat /\ d \in Nat
    BY <1>1, <1>2, <1>4, <1>5, OpsAssumption
  <2>2. hlc[d] \in Nat
    BY <1>2
  <2> QED BY <2>1, <2>2 DEF After
<1>9. \A x, y \in said' : x # y /\ x.row = y.row /\ x.col = y.col => After(x, y) \/ After(y, x)
  <2>1. \A x, y \in said : x # y /\ x.row = y.row /\ x.col = y.col => After(x, y) \/ After(y, x)
    BY DEF OrderInv, OneWordPerCell
  <2>2. \A x, y \in ops : x # y => ~(x.row = y.row /\ x.col = y.col)
    BY <1>1 DEF SpeaksFor
  <2> QED BY <1>1, <1>8, <2>1, <2>2
<1>10. ClocksCoverWords'
  <2>1. ASSUME NEW e \in Device PROVE hlc[e] <= hlc'[e] /\ hlc[e] \in Nat /\ hlc'[e] \in Nat
    BY <1>1, <1>2
  <2>2. ASSUME NEW e \in Device, NEW x \in log'[e] PROVE x.hlc <= hlc'[e]
    <3>1. CASE e = d /\ x \in ops
      BY <1>1, <3>1
    <3>2. CASE x \in log[e]
      <4>1. x.hlc <= hlc[e] /\ x.hlc \in Nat
        BY <1>4, <1>5, <3>2
      <4> QED BY <2>1, <4>1
    <3> QED BY <1>3, <3>1, <3>2
  <2>3. ASSUME NEW x \in said' PROVE x.hlc <= hlc'[x.origin]
    <3>1. CASE x \in ops
      BY <1>1, <3>1
    <3>2. CASE x \in said
      <4>1. x.hlc <= hlc[x.origin] /\ x.hlc \in Nat /\ x.origin \in Device
        BY <1>2, <1>4, <1>5, <3>2
      <4> QED BY <2>1, <4>1
    <3> QED BY <1>1, <3>1, <3>2
  <2> QED BY <2>2, <2>3 DEF ClocksCoverWords
<1>11. OwnWordsStand'
  <2> SUFFICES ASSUME NEW x \in said'
               PROVE  \E y \in log'[x.origin] : y = x \/ Overtakes(y, x)
    BY DEF OwnWordsStand
  <2>1. CASE x \in ops
    BY <1>1, <1>3, <2>1
  <2>2. CASE x \in said
    <3>1. x \in Op /\ x.origin \in Device
      BY <1>2, <1>4, <2>2
    <3>2. PICK y \in log[x.origin] : y = x \/ Overtakes(y, x)
      BY <2>2 DEF OrderInv, OwnWordsStand
    <3>3. CASE y \in log'[x.origin]
      BY <3>2, <3>3
    <3>4. CASE y \notin log'[x.origin]
      <4>1. x.origin = d
        BY <1>3, <3>1, <3>2, <3>4
      <4>2. PICK z \in ops : Overtakes(z, y)
        BY <1>3, <3>2, <3>4, <4>1
      <4>3. z \in Op /\ y \in Op
        BY <1>1, <1>5, <3>1, <3>2, <4>2
      <4>4. Overtakes(z, x)
        BY <3>1, <3>2, <4>2, <4>3, OvertakesIsStrict
      <4> QED BY <1>3, <4>1, <4>2, <4>4
    <3> QED BY <3>3, <3>4
  <2> QED BY <1>1, <2>1, <2>2
<1> QED BY <1>7, <1>9, <1>10, <1>11 DEF OneWordPerCell

LEMMA BackfillKeepsOrder ==
    ASSUME OrderInv, TypeOK', NEW d \in Device, NEW ops, Backfills(d, ops)
    PROVE  OneWordPerCell' /\ ClocksCoverWords' /\ OwnWordsStand'
<1>1. /\ ops \subseteq Op
      /\ \A x \in ops : x.origin = d /\ nextSeq[d] <= x.seq /\ x.hlc = 0
      /\ \A x, y \in ops : x # y => ~SpeaksFor(x, y)
      /\ \A x \in ops, y \in log[d] : ~SpeaksFor(x, y) /\ ~SpeaksFor(y, x)
      /\ said' = said \union ops /\ hlc' = hlc
  BY DEF Backfills
<1>2. /\ log \in [Device -> SUBSET Op] /\ said \subseteq Op /\ hlc \in [Device -> Nat]
  BY DEF OrderInv, Inv, TypeOK
<1>3. log'[d] = log[d] \union ops /\ \A e \in Device : e # d => log'[e] = log[e]
  BY <1>2 DEF Backfills
<1>4. \A x \in Op : x.hlc \in Nat /\ x.origin \in Nat /\ x.origin \in Device
  BY OpsAssumption DEF Op
<1>5. \A e \in Device : \A x, y \in log'[e] : ~Overtakes(x, y)
  <2> SUFFICES ASSUME NEW e \in Device, NEW x \in log'[e], NEW y \in log'[e]
               PROVE  ~Overtakes(x, y)
    OBVIOUS
  <2>1. CASE x \in log[e] /\ y \in log[e]
    BY <2>1 DEF OrderInv, OneWordPerCell
  <2>2. CASE e = d /\ x \in ops /\ y \in ops
    BY <1>1, <2>2, OvertakesIsStrict DEF Overtakes
  <2>3. CASE e = d /\ ((x \in ops /\ y \in log[d]) \/ (x \in log[d] /\ y \in ops))
    BY <1>1, <2>3 DEF Overtakes
  <2>4. CASE e # d
    <3>1. log'[e] = log[e]
      BY <1>3, <2>4
    <3> QED BY <2>1, <3>1
  <2>5. CASE e = d
    <3>1. /\ x \in log[d] \/ x \in ops
          /\ y \in log[d] \/ y \in ops
          /\ log[e] = log[d]
      BY <1>3, <2>5
    <3>2. CASE x \in log[d] /\ y \in log[d]
      BY <2>1, <3>1, <3>2
    <3>3. CASE x \in ops /\ y \in ops
      BY <2>2, <2>5, <3>3
    <3> QED BY <2>3, <2>5, <3>1, <3>2, <3>3
  <2> QED BY <2>4, <2>5
<1>6. ASSUME NEW x \in ops, NEW y \in said, x.row = y.row, x.col = y.col
      PROVE  After(x, y) \/ After(y, x)
  <2>1. x \in Op /\ y \in Op /\ x.origin = d /\ x.hlc = 0
    BY <1>1, <1>2
  <2>2. CASE y.origin = d
    <3>1. PICK z \in log[d] : z = y \/ Overtakes(z, y)
      BY <2>2 DEF OrderInv, OwnWordsStand
    <3>2. SpeaksFor(z, x)
      BY <1>6, <3>1 DEF Overtakes, SpeaksFor
    <3> QED BY <1>1, <3>2
  <2>3. CASE y.origin # d
    <3>1. y.hlc \in Nat /\ y.origin \in Nat /\ x.origin \in Nat
      BY <1>4, <2>1
    <3> QED BY <2>1, <2>3, <3>1 DEF After
  <2> QED BY <2>2, <2>3
<1>7. \A x, y \in said' : x # y /\ x.row = y.row /\ x.col = y.col => After(x, y) \/ After(y, x)
  <2>1. \A x, y \in said : x # y /\ x.row = y.row /\ x.col = y.col => After(x, y) \/ After(y, x)
    BY DEF OrderInv, OneWordPerCell
  <2>2. \A x, y \in ops : x # y => ~(x.row = y.row /\ x.col = y.col)
    BY <1>1 DEF SpeaksFor
  <2> QED BY <1>1, <1>6, <2>1, <2>2
<1>8. ClocksCoverWords'
  <2>1. ClocksCoverWords
    BY DEF OrderInv
  <2>2. \A e \in Device : hlc[e] \in Nat /\ hlc[e] >= 0
    BY <1>2
  <2>3. \A e \in Device : \A x \in log'[e] : x.hlc <= hlc'[e]
    BY <1>1, <1>3, <2>1, <2>2 DEF ClocksCoverWords
  <2>4. \A x \in said' : x.hlc <= hlc'[x.origin]
    BY <1>1, <2>1, <2>2 DEF ClocksCoverWords
  <2> QED BY <2>3, <2>4 DEF ClocksCoverWords
<1>9. OwnWordsStand'
  <2> SUFFICES ASSUME NEW x \in said'
               PROVE  \E y \in log'[x.origin] : y = x \/ Overtakes(y, x)
    BY DEF OwnWordsStand
  <2>1. CASE x \in ops
    BY <1>1, <1>3, <2>1
  <2>2. CASE x \in said
    <3>1. x.origin \in Device
      BY <1>2, <1>4, <2>2
    <3>2. PICK y \in log[x.origin] : y = x \/ Overtakes(y, x)
      BY <2>2 DEF OrderInv, OwnWordsStand
    <3> QED BY <1>3, <3>1, <3>2
  <2> QED BY <1>1, <2>1, <2>2
<1> QED BY <1>5, <1>7, <1>8, <1>9 DEF OneWordPerCell

LEMMA HearKeepsOrder ==
    ASSUME OrderInv, TypeOK', NEW l \in Links, HearOps(l)
    PROVE  OneWordPerCell' /\ ClocksCoverWords' /\ OwnWordsStand'
<1> DEFINE d == l[1]
<1>1. PICK ops \in SUBSET said :
               /\ ops \subseteq Op
               /\ log' = [log EXCEPT ![d] = Merge(@, ops)]
               /\ ClockAfter(log[d], hlc[d], ops, hlc'[d])
               /\ \A e \in Device : e # d => hlc'[e] = hlc[e]
               /\ UNCHANGED said
  BY HearOpsMerges DEF OrderInv
<1>2. /\ log \in [Device -> SUBSET Op] /\ said \subseteq Op /\ hlc \in [Device -> Nat]
      /\ hlc' \in [Device -> Nat] /\ d \in Device
  BY LinkEnds DEF OrderInv, Inv, TypeOK
<1> HIDE DEF d
<1>3. /\ log'[d] = Compact(log[d] \union ops)
      /\ \A e \in Device : e # d => log'[e] = log[e]
  BY <1>1, <1>2 DEF Merge
<1>4. \A x \in Op : x.hlc \in Nat /\ x.origin \in Nat /\ x.origin \in Device
  BY OpsAssumption DEF Op
<1>5. /\ hlc[d] <= hlc'[d]
      /\ \A x \in log[d] \union ops : x.hlc <= hlc'[d]
  <2>1. hlc[d] <= hlc'[d] /\ \A x \in ops \ log[d] : x.hlc <= hlc'[d]
    BY <1>1 DEF ClockAfter
  <2>2. \A x \in log[d] : x.hlc <= hlc[d] /\ x.hlc \in Nat
    BY <1>2, <1>4 DEF OrderInv, ClocksCoverWords
  <2>3. hlc[d] \in Nat /\ hlc'[d] \in Nat
    BY <1>2
  <2> QED BY <2>1, <2>2, <2>3
<1>6. OneWordPerCell'
  <2>1. \A x, y \in log'[d] : ~Overtakes(x, y)
    BY <1>3 DEF Compact
  <2> QED BY <1>1, <1>3, <2>1 DEF OrderInv, OneWordPerCell
<1>7. ClocksCoverWords'
  <2>1. \A e \in Device : hlc[e] <= hlc'[e] /\ hlc[e] \in Nat /\ hlc'[e] \in Nat
    BY <1>1, <1>2, <1>5
  <2>2. \A e \in Device : \A x \in log'[e] : x.hlc <= hlc'[e]
    <3>1. \A x \in log'[d] : x.hlc <= hlc'[d]
      BY <1>3, <1>5 DEF Compact
    <3> QED BY <1>1, <1>3, <3>1 DEF OrderInv, ClocksCoverWords
  <2>3. ASSUME NEW x \in said' PROVE x.hlc <= hlc'[x.origin]
    <3>1. x.hlc <= hlc[x.origin] /\ x.hlc \in Nat /\ x.origin \in Device
      BY <1>1, <1>2, <1>4 DEF OrderInv, ClocksCoverWords
    <3> QED BY <2>1, <3>1
  <2> QED BY <2>2, <2>3 DEF ClocksCoverWords
<1>8. OwnWordsStand'
  <2> SUFFICES ASSUME NEW x \in said
               PROVE  \E y \in log'[x.origin] : y = x \/ Overtakes(y, x)
    BY <1>1 DEF OwnWordsStand
  <2>1. x \in Op /\ x.origin \in Device
    BY <1>2, <1>4
  <2>2. PICK y \in log[x.origin] : y = x \/ Overtakes(y, x)
    BY DEF OrderInv, OwnWordsStand
  <2>3. CASE x.origin # d
    BY <1>3, <2>1, <2>2, <2>3
  <2>4. CASE x.origin = d
    <3>1. PICK N \in Nat : \A e \in Device : e <= N
      BY DevicesAreBounded
    <3> DEFINE all == log[d] \union ops
    <3>2. all \subseteq Op /\ y \in all /\ hlc'[d] \in Nat /\ \A z \in all : z.hlc <= hlc'[d]
      BY <1>1, <1>2, <1>5, <2>2, <2>4
    <3> HIDE DEF all
    <3>3. PICK m \in Compact(all) : m = y \/ Overtakes(m, y)
      BY <3>1, <3>2, CompactSpeaks
    <3>4. m \in Op /\ y \in Op /\ m \in log'[x.origin]
      BY <1>3, <2>4, <3>2, <3>3 DEF Compact, all
    <3>5. m = x \/ Overtakes(m, x)
      BY <2>1, <2>2, <3>3, <3>4, OvertakesIsStrict
    <3> QED BY <3>4, <3>5
  <2> QED BY <2>3, <2>4
<1> QED BY <1>6, <1>7, <1>8

LEMMA SilentKeepsOrder ==
    ASSUME OrderInv, UNCHANGED stores
    PROVE  OneWordPerCell' /\ ClocksCoverWords' /\ OwnWordsStand'
<1>1. log' = log /\ hlc' = hlc /\ said' = said
  BY DEF stores
<1> QED BY <1>1 DEF OrderInv, OneWordPerCell, ClocksCoverWords, OwnWordsStand

(* Every step that is not a write, a hearing of ops or a restart leaves the *)
(* stores alone.                                                            *)
LEMMA SilentActions ==
    ASSUME NEW l \in Links,
           \/ Connect(l) \/ SendHave(l) \/ HearHave(l) \/ SendNext(l)
           \/ TakeWake(l) \/ Drop(l) \/ HearEnd(l)
    PROVE  UNCHANGED stores
BY DEF Connect, SendHave, HearHave, SendNext, TakeWake, Drop, HearEnd

LEMMA OrderStep == OrderInv /\ [Next]_vars => OrderInv'
<1> SUFFICES ASSUME OrderInv, [Next]_vars
             PROVE  OneWordPerCell' /\ ClocksCoverWords' /\ OwnWordsStand'
  BY StepKeepsInv DEF OrderInv
<1>1. Inv /\ TypeOK'
  BY StepKeepsInv DEF OrderInv, Inv
<1>2. ASSUME NEW d \in Device, NEW r \in Row, Insert(d, r) \/ Update(d, r) \/ Delete(d, r)
      PROVE  OneWordPerCell' /\ ClocksCoverWords' /\ OwnWordsStand'
  BY <1>1, <1>2, WriteDecides, DecideKeepsOrder
<1>3. ASSUME NEW d \in Device, Restart(d)
      PROVE  OneWordPerCell' /\ ClocksCoverWords' /\ OwnWordsStand'
  BY <1>1, <1>3, RestartBackfills, BackfillKeepsOrder
<1>4. ASSUME NEW l \in Links, HearOps(l)
      PROVE  OneWordPerCell' /\ ClocksCoverWords' /\ OwnWordsStand'
  BY <1>1, <1>4, HearKeepsOrder
<1>5. CASE UNCHANGED stores
  BY <1>5, SilentKeepsOrder
<1>6. UNCHANGED vars => UNCHANGED stores
  BY DEF vars, stores
<1> QED BY <1>2, <1>3, <1>4, <1>5, <1>6, SilentActions DEF Next

LEMMA OrderAlways == Spec => []OrderInv
<1>1. Init => OrderInv
  BY InitInv, OrderInit DEF OrderInv
<1> QED BY <1>1, OrderStep, PTL DEF Spec

(* No log holds two words on one cell, or a cell its row's tombstone swept, *)
(* and no two ops anywhere tie: a local write is after all its device has   *)
(* heard, and a backfill's clock 0 meets no other of its device's on that   *)
(* cell.  emit, apply, retire and backfill in log.rs.                       *)
THEOREM ExchangeOneWordPerCell == Spec => []OneWordPerCell
<1>1. OrderInv => OneWordPerCell
  BY DEF OrderInv
<1> QED BY <1>1, OrderAlways, PTL

----------------------------------------------------------------------------
(* Whose turn it is.                                                        *)

(* Two live ends and the frames between them, after a frame is put in, one  *)
(* is taken out, or an end goes.                                            *)
SessionsTyped ==
    /\ phase \in [Links -> {"down", "greeted", "asked", "live"}]
    /\ pipe \in [Links -> Seq(Frame)]

LEMMA TurnsAndHandshakes ==
    ASSUME TurnInv, NEW l \in Links, phase[Back(l)] # "down"
    PROVE  /\ \A i \in 1..Len(pipe[l]) :
                  pipe[l][i].kind = "have" <=> (i = 1 /\ phase[Back(l)] # "live")
           /\ phase[l] = "greeted" => pipe[l] = <<>> /\ phase[Back(l)] # "live"
           /\ phase[l] \in {"asked", "live"} /\ phase[Back(l)] \in {"greeted", "asked"} =>
                  pipe[l] # <<>>
BY DEF TurnInv, InTurn, Handshakes

(* Nothing put in or taken out, and no end come or gone.                    *)
LEMMA SameTurns ==
    ASSUME TurnInv, phase' = phase, pipe' = pipe
    PROVE  InTurn' /\ Handshakes'
BY DEF TurnInv, InTurn, Handshakes

(* A frame put in by an end that has asked, or is just asking.              *)
LEMMA PutKeepsTurns ==
    ASSUME TurnInv, NEW l \in Links, NEW f \in Frame,
           pipe' = [pipe EXCEPT ![l] = Append(@, f)],
           \/ /\ f.kind = "have" /\ phase[l] = "greeted"
              /\ phase' = [phase EXCEPT ![l] = "asked"]
           \/ /\ f.kind = "ops" /\ phase[l] = "live" /\ phase' = phase
    PROVE  InTurn' /\ Handshakes'
<1>1. SessionsTyped
  BY DEF TurnInv, Inv, TypeOK, SessionsTyped
<1>2. /\ pipe'[l] = Append(pipe[l], f) /\ \A k \in Links : k # l => pipe'[k] = pipe[k]
      /\ pipe[l] \in Seq(Frame)
      /\ phase'[l] # "down" /\ phase'[l] # "greeted"
      /\ \A k \in Links : k # l => phase'[k] = phase[k]
      /\ phase'[l] = "live" <=> phase[l] = "live"
  BY <1>1 DEF SessionsTyped
<1>3. /\ Len(pipe'[l]) = Len(pipe[l]) + 1 /\ Len(pipe[l]) \in Nat
      /\ \A i \in 1..Len(pipe[l]) : pipe'[l][i] = pipe[l][i]
      /\ pipe'[l][Len(pipe[l]) + 1] = f
  BY <1>2
<1>4. ASSUME NEW k \in Links, phase'[Back(k)] # "down", NEW i \in 1..Len(pipe'[k])
      PROVE  pipe'[k][i].kind = "have" <=> (i = 1 /\ phase'[Back(k)] # "live")
  <2>1. phase[Back(k)] # "down" /\ (phase'[Back(k)] = "live" <=> phase[Back(k)] = "live")
    BY <1>2, <1>4, LinkEnds
  <2>2. CASE k # l
    BY <1>2, <2>1, <2>2, TurnsAndHandshakes
  <2>3. CASE k = l /\ i # Len(pipe[l]) + 1
    <3>1. i \in 1..Len(pipe[l])
      BY <1>3, <1>4, <2>3
    <3> QED BY <1>3, <2>1, <2>3, <3>1, TurnsAndHandshakes
  <2>4. CASE k = l /\ i = Len(pipe[l]) + 1 /\ f.kind = "have"
    <3>1. pipe[l] = <<>> /\ phase[Back(l)] # "live"
      BY <2>1, <2>4, TurnsAndHandshakes
    <3> QED BY <1>3, <2>1, <2>4, <3>1
  <2>5. CASE k = l /\ i = Len(pipe[l]) + 1 /\ f.kind = "ops"
    <3>1. phase[Back(l)] # "live" => Len(pipe[l]) > 0
      <4>1. phase[Back(l)] # "live" => pipe[l] # <<>>
        <5>1. phase[Back(l)] \in {"down", "greeted", "asked", "live"}
          BY <1>1, LinkEnds DEF SessionsTyped
        <5> QED BY <2>1, <2>5, <5>1, TurnsAndHandshakes
      <4> QED BY <1>2, <4>1
    <3> QED BY <1>3, <2>1, <2>5, <3>1
  <2> QED BY <2>2, <2>3, <2>4, <2>5
<1>5. ASSUME NEW k \in Links, phase'[Back(k)] # "down"
      PROVE  /\ phase'[k] = "greeted" => pipe'[k] = <<>> /\ phase'[Back(k)] # "live"
             /\ phase'[k] \in {"asked", "live"} /\ phase'[Back(k)] \in {"greeted", "asked"} =>
                  pipe'[k] # <<>>
  <2>1. phase[Back(k)] # "down" /\ (phase'[Back(k)] = "live" <=> phase[Back(k)] = "live")
        /\ Back(k) \in Links
    BY <1>2, <1>5, LinkEnds
  <2>2. CASE k = l
    <3>1. pipe'[l] # <<>>
      BY <1>3
    <3> QED BY <1>2, <2>2, <3>1
  <2>3. CASE k # l
    <3>1. phase'[k] = phase[k] /\ pipe'[k] = pipe[k]
      BY <1>2, <2>3
    <3>2. phase'[Back(k)] \in {"greeted", "asked"} => phase[Back(k)] \in {"greeted", "asked"}
      BY <1>1, <2>1, <1>2 DEF SessionsTyped
    <3> QED BY <2>1, <3>1, <3>2, TurnsAndHandshakes
  <2> QED BY <2>2, <2>3
<1> QED BY <1>4, <1>5 DEF InTurn, Handshakes

LEMMA TailOfPipe ==
    ASSUME NEW s \in Seq(Frame), s # <<>>
    PROVE  /\ Len(Tail(s)) = Len(s) - 1 /\ Len(s) \in Nat
           /\ \A i \in 1..Len(Tail(s)) : Tail(s)[i] = s[i + 1]
OBVIOUS

(* A frame taken out by an end that was due it.                             *)
LEMMA TakeKeepsTurns ==
    ASSUME TurnInv, NEW l \in Links, pipe[Back(l)] # <<>>,
           pipe' = [pipe EXCEPT ![Back(l)] = Tail(@)],
           \/ /\ phase[l] = "asked"
              /\ phase' = [phase EXCEPT ![l] = "live"]
           \/ phase[l] = "live" /\ phase' = phase
    PROVE  InTurn' /\ Handshakes'
<1> DEFINE b == Back(l)
<1>1. SessionsTyped
  BY DEF TurnInv, Inv, TypeOK, SessionsTyped
<1>2. b \in Links /\ b # l /\ Back(b) = l
  BY LinkEnds
<1>3. /\ pipe'[b] = Tail(pipe[b]) /\ \A k \in Links : k # b => pipe'[k] = pipe[k]
      /\ pipe[b] \in Seq(Frame) /\ pipe[b] # <<>>
      /\ phase'[l] = "live" /\ phase[l] \in {"asked", "live"}
      /\ \A k \in Links : k # l => phase'[k] = phase[k]
  BY <1>1, <1>2 DEF SessionsTyped
<1> HIDE DEF b
<1>4. /\ Len(pipe'[b]) = Len(pipe[b]) - 1 /\ Len(pipe[b]) \in Nat
      /\ \A i \in 1..Len(pipe'[b]) : pipe'[b][i] = pipe[b][i + 1]
  BY <1>3, TailOfPipe
<1>5. ASSUME NEW k \in Links, phase'[Back(k)] # "down", NEW i \in 1..Len(pipe'[k])
      PROVE  pipe'[k][i].kind = "have" <=> (i = 1 /\ phase'[Back(k)] # "live")
  <2>1. CASE k = b
    <3>1. i + 1 \in 1..Len(pipe[b]) /\ i + 1 # 1
      BY <1>4, <1>5, <2>1
    <3>2. pipe[b][i + 1].kind # "have"
      BY <1>2, <1>3, <3>1, TurnsAndHandshakes
    <3> QED BY <1>2, <1>3, <1>4, <1>5, <2>1, <3>2
  <2>2. CASE k # b
    <3>1. Back(k) # l /\ Back(k) \in Links
      BY <1>2, <2>2, LinkEnds DEF b
    <3>2. pipe'[k] = pipe[k] /\ phase'[Back(k)] = phase[Back(k)]
      BY <1>3, <2>2, <3>1
    <3>3. i \in 1..Len(pipe[k]) /\ phase[Back(k)] # "down"
      BY <1>5, <3>2
    <3>4. pipe[k][i].kind = "have" <=> (i = 1 /\ phase[Back(k)] # "live")
      BY <3>3, TurnsAndHandshakes
    <3> QED BY <3>2, <3>4
  <2> QED BY <2>1, <2>2
<1>6. ASSUME NEW k \in Links, phase'[Back(k)] # "down"
      PROVE  /\ phase'[k] = "greeted" => pipe'[k] = <<>> /\ phase'[Back(k)] # "live"
             /\ phase'[k] \in {"asked", "live"} /\ phase'[Back(k)] \in {"greeted", "asked"} =>
                  pipe'[k] # <<>>
  <2>1. CASE k = b
    <3>1. phase'[Back(b)] = "live" /\ phase'[b] = phase[b] /\ phase[Back(b)] # "down"
      BY <1>2, <1>3
    <3>2. phase[b] # "greeted"
      BY <1>2, <1>3, <3>1, TurnsAndHandshakes
    <3> QED BY <2>1, <3>1, <3>2
  <2>2. CASE k = l
    <3>1. pipe'[l] = pipe[l] /\ phase'[Back(l)] = phase[Back(l)] /\ phase'[l] # "greeted"
      BY <1>2, <1>3 DEF b
    <3> QED BY <1>2, <1>3, <1>6, <2>2, <3>1, TurnsAndHandshakes
  <2>3. CASE k # b /\ k # l
    <3>1. Back(k) # l /\ Back(k) \in Links
      BY <1>2, <2>3, LinkEnds DEF b
    <3> QED BY <1>3, <1>6, <2>3, <3>1, TurnsAndHandshakes
  <2> QED BY <2>1, <2>2, <2>3
<1> QED BY <1>5, <1>6 DEF InTurn, Handshakes

(* Two ends meet.                                                           *)
LEMMA ConnectKeepsTurns ==
    ASSUME TurnInv, NEW l \in Links, Connect(l)
    PROVE  InTurn' /\ Handshakes'
<1>1. SessionsTyped
  BY DEF TurnInv, Inv, TypeOK, SessionsTyped
<1>2. Back(l) \in Links /\ Back(l) # l /\ Back(Back(l)) = l
  BY LinkEnds
<1>3. /\ \A k \in {l, Back(l)} : phase'[k] = "greeted" /\ pipe'[k] = <<>>
      /\ \A k \in Links : k \notin {l, Back(l)} => phase'[k] = phase[k] /\ pipe'[k] = pipe[k]
  BY <1>1, <1>2 DEF Connect, SessionsTyped
<1>4. ASSUME NEW k \in Links
      PROVE  k \in {l, Back(l)} <=> Back(k) \in {l, Back(l)}
  BY <1>2, LinkEnds
<1>5. ASSUME NEW k \in Links, phase'[Back(k)] # "down"
      PROVE  /\ \A i \in 1..Len(pipe'[k]) :
                  pipe'[k][i].kind = "have" <=> (i = 1 /\ phase'[Back(k)] # "live")
             /\ phase'[k] = "greeted" => pipe'[k] = <<>> /\ phase'[Back(k)] # "live"
             /\ phase'[k] \in {"asked", "live"} /\ phase'[Back(k)] \in {"greeted", "asked"} =>
                  pipe'[k] # <<>>
  <2>1. CASE k \in {l, Back(l)}
    <3>1. phase'[k] = "greeted" /\ pipe'[k] = <<>> /\ phase'[Back(k)] = "greeted"
      BY <1>3, <1>4, <2>1
    <3>2. Len(pipe'[k]) = 0
      BY <3>1
    <3> QED BY <3>1, <3>2
  <2>2. CASE k \notin {l, Back(l)}
    BY <1>3, <1>4, <1>5, <2>2, LinkEnds, TurnsAndHandshakes
  <2> QED BY <2>1, <2>2
<1> QED BY <1>5 DEF InTurn, Handshakes

(* Ends go: what is left is a run of what was there, from the first.        *)
LEMMA GoneKeepsTurns ==
    ASSUME TurnInv, NEW ends \in SUBSET Links, NEW arrived, Gone(ends, arrived),
           \A l \in ends : arrived[l] \in 0..Len(pipe[l])
    PROVE  InTurn' /\ Handshakes'
<1>1. SessionsTyped
  BY DEF TurnInv, Inv, TypeOK, SessionsTyped
<1>2. /\ phase' = [l \in Links |-> IF l \in ends THEN "down" ELSE phase[l]]
      /\ pipe' = [l \in Links |->
            IF Back(l) \in ends THEN <<>>
            ELSE IF l \in ends THEN SubSeq(pipe[l], 1, arrived[l])
            ELSE pipe[l]]
  BY DEF Gone
<1>3. ASSUME NEW k \in Links, phase'[Back(k)] # "down"
      PROVE  /\ \A i \in 1..Len(pipe'[k]) :
                  pipe'[k][i].kind = "have" <=> (i = 1 /\ phase'[Back(k)] # "live")
             /\ phase'[k] = "greeted" => pipe'[k] = <<>> /\ phase'[Back(k)] # "live"
             /\ phase'[k] \in {"asked", "live"} /\ phase'[Back(k)] \in {"greeted", "asked"} =>
                  pipe'[k] # <<>>
  <2>1. Back(k) \notin ends /\ phase'[Back(k)] = phase[Back(k)] /\ phase[Back(k)] # "down"
    BY <1>2, <1>3, LinkEnds
  <2>2. CASE k \notin ends
    <3>1. phase'[k] = phase[k] /\ pipe'[k] = pipe[k]
      BY <1>2, <2>1, <2>2
    <3> QED BY <2>1, <3>1, TurnsAndHandshakes
  <2>3. CASE k \in ends
    <3>1. pipe'[k] = SubSeq(pipe[k], 1, arrived[k]) /\ phase'[k] = "down"
      BY <1>2, <2>1, <2>3
    <3>2. pipe[k] \in Seq(Frame) /\ arrived[k] \in 0..Len(pipe[k])
      BY <1>1, <2>3 DEF SessionsTyped
    <3>3. /\ Len(pipe'[k]) = arrived[k] /\ arrived[k] <= Len(pipe[k]) /\ Len(pipe[k]) \in Nat
          /\ \A i \in 1..arrived[k] : pipe'[k][i] = pipe[k][i]
      BY <3>1, <3>2
    <3>4. \A i \in 1..Len(pipe'[k]) : i \in 1..Len(pipe[k]) /\ pipe'[k][i] = pipe[k][i]
      BY <3>2, <3>3
    <3>5. \A i \in 1..Len(pipe[k]) :
            pipe[k][i].kind = "have" <=> (i = 1 /\ phase[Back(k)] # "live")
      BY <2>1, TurnsAndHandshakes
    <3>6. \A i \in 1..Len(pipe'[k]) :
            pipe'[k][i].kind = "have" <=> (i = 1 /\ phase'[Back(k)] # "live")
      BY <2>1, <3>4, <3>5
    <3> QED BY <3>1, <3>6
  <2> QED BY <2>2, <2>3
<1> QED BY <1>3 DEF InTurn, Handshakes

(* A session never puts anything but an ops frame.                          *)
LEMMA SendNextPuts ==
    ASSUME Inv, NEW l \in Links, SendNext(l)
    PROVE  /\ phase[l] = "live" /\ phase' = phase
           /\ \/ pipe' = pipe
              \/ \E f \in Frame : f.kind = "ops" /\ pipe' = [pipe EXCEPT ![l] = Append(@, f)]
<1>1. PICK read \in Reads(l) : \E sent \in Cuts(read) :
          LET held == Held(l, read, sent)
          IN  Send(l, sent, held) \/ CaughtUp(l, sent, held)
  BY Zenon DEF SendNext
<1>2. PICK sent \in Cuts(read) :
          Send(l, sent, Held(l, read, sent)) \/ CaughtUp(l, sent, Held(l, read, sent))
  BY <1>1
<1>3. phase[l] = "live" /\ phase' = phase
  BY DEF SendNext
<1>4. CASE CaughtUp(l, sent, Held(l, read, sent))
  BY <1>3, <1>4 DEF CaughtUp
<1>5. CASE Send(l, sent, Held(l, read, sent))
  <2> DEFINE f == OpsFrame(sent, Held(l, read, sent))
  <2>1. pipe' = [pipe EXCEPT ![l] = Append(@, f)]
    BY <1>5 DEF Send
  <2>2. f.kind = "ops"
    BY DEF OpsFrame
  <2>3. f \in Frame
    <3>1. pipe[l] \in Seq(Frame) /\ pipe'[l] = Append(pipe[l], f) /\ pipe'[l] \in Seq(Frame)
      <4>1. pipe \in [Links -> Seq(Frame)] /\ pipe' \in [Links -> Seq(Frame)]
        <5>1. TypeOK /\ TypeOK'
          BY SendNextStep DEF Inv
        <5> QED BY <5>1 DEF TypeOK
      <4> QED BY <2>1, <4>1
    <3> HIDE DEF f
    <3>2. Len(pipe'[l]) = Len(pipe[l]) + 1 /\ pipe'[l][Len(pipe[l]) + 1] = f /\ Len(pipe[l]) \in Nat
      BY <3>1
    <3>3. Len(pipe[l]) + 1 \in 1..Len(pipe'[l])
      BY <3>2
    <3> QED BY <3>1, <3>2, <3>3
  <2> QED BY <1>3, <2>1, <2>2, <2>3
<1> QED BY <1>2, <1>4, <1>5

LEMMA TurnStep == TurnInv /\ [Next]_vars => TurnInv'
<1> SUFFICES ASSUME TurnInv, [Next]_vars
             PROVE  InTurn' /\ Handshakes'
  BY StepKeepsInv DEF TurnInv
<1>1. Inv
  BY DEF TurnInv
<1>2. ASSUME NEW d \in Device, NEW r \in Row, Insert(d, r) \/ Update(d, r) \/ Delete(d, r)
      PROVE  InTurn' /\ Handshakes'
  BY <1>1, <1>2, WriteDecides, SameTurns
<1>3. ASSUME NEW l \in Links, Connect(l)
      PROVE  InTurn' /\ Handshakes'
  BY <1>3, ConnectKeepsTurns
<1>4. ASSUME NEW l \in Links, SendHave(l)
      PROVE  InTurn' /\ Handshakes'
  <2>1. have[l[1]] \in [Device -> Nat]
    BY <1>1, LinkEnds DEF Inv, TypeOK
  <2>2. HaveFrame(have[l[1]]) \in Frame /\ HaveFrame(have[l[1]]).kind = "have"
    BY <2>1 DEF HaveFrame, Frame
  <2> QED BY <1>4, <2>2, PutKeepsTurns DEF SendHave
<1>5. ASSUME NEW l \in Links, HearHave(l)
      PROVE  InTurn' /\ Handshakes'
  BY <1>5, TakeKeepsTurns DEF HearHave
<1>6. ASSUME NEW l \in Links, SendNext(l)
      PROVE  InTurn' /\ Handshakes'
  BY <1>1, <1>6, SendNextPuts, PutKeepsTurns, SameTurns
<1>7. ASSUME NEW l \in Links, HearOps(l)
      PROVE  InTurn' /\ Handshakes'
  BY <1>7, TakeKeepsTurns DEF HearOps
<1>8. ASSUME NEW l \in Links, TakeWake(l)
      PROVE  InTurn' /\ Handshakes'
  BY <1>8, SameTurns DEF TakeWake
<1>9. ASSUME NEW l \in Links, Drop(l)
      PROVE  InTurn' /\ Handshakes'
  <2>1. PICK n \in 0..Len(pipe[l]) : Gone({l}, [m \in Links |-> n])
    BY <1>9 DEF Drop
  <2> DEFINE arrived == [m \in Links |-> n]
  <2>2. Gone({l}, arrived) /\ \A k \in {l} : arrived[k] \in 0..Len(pipe[k])
    BY <2>1
  <2> HIDE DEF arrived
  <2> QED BY <2>2, GoneKeepsTurns
<1>10. ASSUME NEW l \in Links, HearEnd(l)
       PROVE  InTurn' /\ Handshakes'
  <2> DEFINE arrived == [m \in Links |-> 0]
  <2>1. pipe[l] \in Seq(Frame)
    BY <1>1 DEF Inv, TypeOK
  <2>2. Gone({l}, arrived) /\ \A k \in {l} : arrived[k] \in 0..Len(pipe[k])
    BY <1>10, <2>1 DEF HearEnd
  <2> HIDE DEF arrived
  <2> QED BY <2>2, GoneKeepsTurns
<1>11. ASSUME NEW d \in Device, Restart(d)
       PROVE  InTurn' /\ Handshakes'
  <2> DEFINE ends == {l \in Links : l[1] = d /\ phase[l] # "down"}
  <2>1. PICK arrived \in [Links -> 0..PipeCap] :
           (\A l \in Links : arrived[l] <= Len(pipe[l])) /\ Gone(ends, arrived)
    BY <1>1, <1>11, RestartBackfills
  <2>2. ASSUME NEW l \in ends PROVE arrived[l] \in 0..Len(pipe[l])
    <3>1. pipe[l] \in Seq(Frame) /\ arrived[l] \in Nat /\ arrived[l] <= Len(pipe[l])
      BY <1>1, <2>1, ExchangeAssumption DEF Inv, TypeOK
    <3> QED BY <3>1
  <2>3. ends \in SUBSET Links
    OBVIOUS
  <2> HIDE DEF ends
  <2> QED BY <2>1, <2>2, <2>3, GoneKeepsTurns
<1>12. CASE UNCHANGED vars
  BY <1>12, SameTurns DEF vars
<1> QED BY <1>2, <1>3, <1>4, <1>5, <1>6, <1>7, <1>8, <1>9, <1>10, <1>11, <1>12 DEF Next

LEMMA TurnInit == Init => InTurn /\ Handshakes
<1> SUFFICES ASSUME Init PROVE InTurn /\ Handshakes
  OBVIOUS
<1>1. \A l \in Links : phase[Back(l)] = "down"
  BY LinkEnds DEF Init
<1> QED BY <1>1 DEF InTurn, Handshakes

(* No frame comes out of turn: an end that has not yet heard a have meets   *)
(* it first, and one that has meets nothing but ops, however streams are    *)
(* cut and opened again: run in protocol.rs never says Malformed to a peer  *)
(* that runs the same code.                                                 *)
THEOREM ExchangeInTurn == Spec => []InTurn
<1>1. Init => TurnInv
  BY InitInv, TurnInit DEF TurnInv
<1>2. TurnInv => InTurn
  BY DEF TurnInv
<1> QED BY <1>1, <1>2, TurnStep, PTL DEF Spec

----------------------------------------------------------------------------
(* No wake-up is lost.                                                      *)

Idle(l) == phase[l] = "live" /\ ~backlog[l] /\ ~woken[l]

(* An end whose log, cursor and state are what they were.                   *)
LEMMA StillIdle ==
    ASSUME Inv, IdleOwesNothing, NEW l \in Links, Idle(l)', log'[l[1]] = log[l[1]],
           \/ cursor'[l] = cursor[l]
           \/ \A o \in Device : cursor'[l][o] \in Nat /\ cursor[l][o] <= cursor'[l][o],
           Idle(l)
    PROVE  Owed(log'[l[1]], cursor'[l]) = {}
<1>1. Owed(log[l[1]], cursor[l]) = {}
  BY DEF IdleOwesNothing, Idle
<1>2. CASE cursor'[l] = cursor[l]
  BY <1>1, <1>2
<1>3. CASE \A o \in Device : cursor'[l][o] \in Nat /\ cursor[l][o] <= cursor'[l][o]
  <2>1. log[l[1]] \subseteq Op /\ cursor[l] \in [Device -> Nat]
    BY LinkEnds DEF Inv, TypeOK
  <2>2. ASSUME NEW x \in log[l[1]] PROVE ~(x.seq > cursor'[l][x.origin])
    <3>1. x.seq \in Nat /\ x.origin \in Device /\ cursor[l][x.origin] \in Nat
      BY <2>1 DEF Op
    <3>2. ~(x.seq > cursor[l][x.origin])
      BY <1>1 DEF Owed
    <3> QED BY <1>3, <3>1, <3>2
  <2> QED BY <2>2 DEF Owed
<1> QED BY <1>2, <1>3

(* A device whose log moved has woken every session of its that is up.      *)
LEMMA WokenIsNotIdle ==
    ASSUME Inv, NEW d \in Device, Wake(d), phase' = phase, backlog' = backlog,
           NEW l \in Links, Idle(l)'
    PROVE  l[1] # d /\ Idle(l)
<1>1. woken[l] \in BOOLEAN /\ woken'[l] = (woken[l] \/ (l[1] = d /\ phase[l] # "down"))
  BY DEF Inv, TypeOK, Wake
<1> QED BY <1>1 DEF Idle

LEMMA IdleOwes == IdleOwesNothing <=> \A l \in Links : Idle(l) => Owed(log[l[1]], cursor[l]) = {}
BY DEF IdleOwesNothing, Idle

(* The pass that finds nothing to send and nothing to vouch for is a pass   *)
(* over a log that owes the peer nothing.                                   *)
LEMMA CaughtUpOwesNothing ==
    ASSUME NEW l \in Links, NEW read \in Reads(l), NEW sent \in Cuts(read), sent = {}
    PROVE  Owed(log[l[1]], cursor[l]) = {}
<1>1. read = {}
  BY DEF Cuts
<1>2. Cardinality(read) = 0
  BY <1>1, FS_EmptySet
<1>3. Batch # 0
  BY ExchangeAssumption
<1> QED BY <1>1, <1>2, <1>3 DEF Reads

LEMMA IdleStep == Inv /\ IdleOwesNothing /\ [Next]_vars => IdleOwesNothing'
<1> SUFFICES ASSUME Inv, IdleOwesNothing, [Next]_vars,
                    NEW l \in Links, Idle(l)'
             PROVE  Owed(log'[l[1]], cursor'[l]) = {}
  BY IdleOwes DEF IdleOwesNothing, Idle
<1>0. /\ phase \in [Links -> {"down", "greeted", "asked", "live"}]
      /\ backlog \in [Links -> BOOLEAN] /\ woken \in [Links -> BOOLEAN]
      /\ cursor \in [Links -> [Device -> Nat]]
      /\ log \in [Device -> SUBSET Op] /\ l[1] \in Device
  BY LinkEnds DEF Inv, TypeOK
<1>1. ASSUME NEW d \in Device, NEW r \in Row, Insert(d, r) \/ Update(d, r) \/ Delete(d, r)
      PROVE  Owed(log'[l[1]], cursor'[l]) = {}
  <2>1. Wake(d) /\ phase' = phase /\ backlog' = backlog /\ cursor' = cursor
    BY <1>1, WriteDecides
  <2>2. l[1] # d /\ Idle(l)
    BY <2>1, WokenIsNotIdle
  <2>3. log'[l[1]] = log[l[1]]
    <3>1. PICK ops : Decides(d, ops)
      BY <1>1, WriteDecides
    <3> QED BY <1>0, <2>2, <3>1 DEF Decides
  <2> QED BY <2>1, <2>2, <2>3, StillIdle
<1>2. ASSUME NEW m \in Links, Connect(m)
      PROVE  Owed(log'[l[1]], cursor'[l]) = {}
  <2>1. Back(m) \in Links
    BY LinkEnds
  <2>2. Idle(l) /\ log' = log /\ cursor' = cursor
    BY <1>0, <1>2, <2>1 DEF Connect, Idle, stores
  <2> QED BY <2>2, StillIdle
<1>3. ASSUME NEW m \in Links, SendHave(m)
      PROVE  Owed(log'[l[1]], cursor'[l]) = {}
  <2>1. Idle(l) /\ log' = log /\ cursor' = cursor
    BY <1>0, <1>3 DEF SendHave, Idle, stores
  <2> QED BY <2>1, StillIdle
<1>4. ASSUME NEW m \in Links, HearHave(m)
      PROVE  Owed(log'[l[1]], cursor'[l]) = {}
  <2>1. Idle(l) /\ log' = log /\ cursor'[l] = cursor[l]
    BY <1>0, <1>4 DEF HearHave, Idle, stores
  <2> QED BY <2>1, StillIdle
<1>5. ASSUME NEW m \in Links, SendNext(m)
      PROVE  Owed(log'[l[1]], cursor'[l]) = {}
  <2>1. PICK read \in Reads(m) : \E sent \in Cuts(read) :
          LET held == Held(m, read, sent)
          IN  Send(m, sent, held) \/ CaughtUp(m, sent, held)
    BY <1>5, Zenon DEF SendNext
  <2>2. PICK sent \in Cuts(read) :
          Send(m, sent, Held(m, read, sent)) \/ CaughtUp(m, sent, Held(m, read, sent))
    BY <2>1
  <2>3. phase[m] = "live" /\ backlog[m] /\ UNCHANGED <<stores, phase, woken, faults>>
    BY <1>5 DEF SendNext
  <2>4. CASE Send(m, sent, Held(m, read, sent))
    <3>1. Idle(l) /\ log' = log /\ cursor'[l] = cursor[l]
      BY <1>0, <2>3, <2>4 DEF Send, Idle, stores
    <3> QED BY <3>1, StillIdle
  <2>5. CASE CaughtUp(m, sent, Held(m, read, sent))
    <3>1. /\ sent = {} /\ backlog' = [backlog EXCEPT ![m] = FALSE]
          /\ log' = log /\ cursor' = cursor
      BY <2>3, <2>5 DEF CaughtUp, stores
    <3>2. CASE l = m
      BY <3>1, <3>2, CaughtUpOwesNothing
    <3>3. CASE l # m
      <4>1. Idle(l)
        BY <1>0, <2>3, <3>1, <3>3 DEF Idle
      <4> QED BY <3>1, <4>1, StillIdle
    <3> QED BY <3>2, <3>3
  <2> QED BY <2>2, <2>4, <2>5
<1>6. ASSUME NEW m \in Links, HearOps(m)
      PROVE  Owed(log'[l[1]], cursor'[l]) = {}
  <2>1. PICK ops \in SUBSET said :
               /\ log' = [log EXCEPT ![m[1]] = Merge(@, ops)]
               /\ IF log[m[1]] = Merge(log[m[1]], ops) THEN UNCHANGED woken ELSE Wake(m[1])
    BY <1>6, HearOpsMerges
  <2>2. phase' = phase /\ backlog' = backlog /\ m[1] \in Device
    BY <1>6, LinkEnds DEF HearOps
  <2>3. Idle(l) /\ log'[l[1]] = log[l[1]]
    <3>1. CASE log[m[1]] = Merge(log[m[1]], ops)
      <4>1. log' = log /\ woken' = woken
        BY <1>0, <2>1, <2>2, <3>1
      <4> QED BY <2>2, <4>1 DEF Idle
    <3>2. CASE log[m[1]] # Merge(log[m[1]], ops)
      <4>1. l[1] # m[1] /\ Idle(l)
        BY <2>1, <2>2, <3>2, WokenIsNotIdle
      <4> QED BY <1>0, <2>1, <4>1
    <3> QED BY <3>1, <3>2
  <2>4. CASE l # m
    <3>1. cursor'[l] = cursor[l]
      BY <1>0, <1>6, <2>4 DEF HearOps
    <3> QED BY <2>3, <3>1, StillIdle
  <2>5. CASE l = m
    <3> DEFINE f == Head(pipe[Back(l)])
    <3>1. cursor'[l] = Furthest(Furthest(cursor[l], Reach(f.ops)), f.held)
      BY <1>0, <1>6, <2>5 DEF HearOps
    <3>2. /\ f.ops \subseteq Op /\ f.held \in [Device -> Nat]
          /\ \A x \in f.ops : x.seq <= f.held[x.origin]
      <4> DEFINE b == Back(l)
      <4>1. b \in Links /\ pipe[b] \in Seq(Frame) /\ pipe[b] # <<>> /\ said \subseteq Op
        BY <1>6, <2>5, LinkEnds DEF HearOps, Inv, TypeOK
      <4> HIDE DEF b
      <4>2. 1 \in 1..Len(pipe[b]) /\ Head(pipe[b]) = pipe[b][1]
        BY <4>1
      <4> QED BY <4>1, <4>2, FrameInPipe DEF Inv, ClockCoversLog, b
    <3>4. cursor[l] \in [Device -> Nat]
      BY <1>0
    <3> DEFINE got == f.ops
               word == f.held
    <3> HIDE DEF f, got, word
    <3>3. ASSUME NEW o \in Device PROVE cursor'[l][o] \in Nat /\ cursor[l][o] <= cursor'[l][o]
      <4>1. Reach(got)[o] \in Nat
        BY <3>2, ReachOfOps DEF got, word
      <4>2. cursor[l][o] \in Nat /\ word[o] \in Nat
        BY <3>2, <3>4 DEF word
      <4>3. cursor'[l][o] = Furthest(Furthest(cursor[l], Reach(got)), word)[o]
        BY <3>1 DEF got, word
      <4> QED BY <4>1, <4>2, <4>3 DEF Furthest
    <3> QED BY <2>3, <3>3, StillIdle
  <2> QED BY <2>4, <2>5
<1>7. ASSUME NEW m \in Links, TakeWake(m)
      PROVE  Owed(log'[l[1]], cursor'[l]) = {}
  <2>1. Idle(l) /\ log' = log /\ cursor' = cursor
    BY <1>0, <1>7 DEF TakeWake, Idle, stores
  <2> QED BY <2>1, StillIdle
<1>8. ASSUME NEW ends \in SUBSET Links, NEW arrived, Gone(ends, arrived), log'[l[1]] = log[l[1]]
      PROVE  Owed(log'[l[1]], cursor'[l]) = {}
  <2>1. Idle(l) /\ cursor'[l] = cursor[l]
    BY <1>8 DEF Gone, Idle
  <2> QED BY <1>8, <2>1, StillIdle
<1>9. ASSUME NEW m \in Links, Drop(m) \/ HearEnd(m)
      PROVE  Owed(log'[l[1]], cursor'[l]) = {}
  <2>1. log' = log /\ \E arrived : Gone({m}, arrived)
    BY <1>9 DEF Drop, HearEnd, stores
  <2> QED BY <1>8, <2>1
<1>10. ASSUME NEW d \in Device, Restart(d)
       PROVE  Owed(log'[l[1]], cursor'[l]) = {}
  <2> DEFINE ends == {k \in Links : k[1] = d /\ phase[k] # "down"}
  <2>1. PICK arrived : Gone(ends, arrived)
    BY <1>10, RestartBackfills
  <2>2. l \notin ends /\ phase'[l] = phase[l]
    BY <2>1 DEF Gone, Idle
  <2>3. l[1] # d
    BY <2>2 DEF Idle
  <2>4. log'[l[1]] = log[l[1]]
    <3>1. PICK ops : Backfills(d, ops)
      BY <1>10, RestartBackfills
    <3> QED BY <1>0, <2>3, <3>1 DEF Backfills
  <2>5. ends \in SUBSET Links
    OBVIOUS
  <2> HIDE DEF ends
  <2> QED BY <1>8, <2>1, <2>4, <2>5
<1>11. CASE UNCHANGED vars
  <2>1. Idle(l) /\ log' = log /\ cursor' = cursor
    BY <1>11 DEF vars, Idle
  <2> QED BY <2>1, StillIdle
<1> QED BY <1>1, <1>2, <1>3, <1>4, <1>5, <1>6, <1>7, <1>9, <1>10, <1>11 DEF Next

(* A live end that is neither sending nor woken owes its peer nothing: no   *)
(* wake-up is lost between a commit and the wait of run's loop, whatever    *)
(* commits, applies and cuts come between its pass and its wait.            *)
THEOREM ExchangeIdleOwesNothing == Spec => []IdleOwesNothing
<1>1. Init => IdleOwesNothing
  BY DEF Init, IdleOwesNothing
<1>2. Init => Inv /\ IdleOwesNothing
  BY <1>1, InitInv
<1>3. Inv /\ IdleOwesNothing /\ [Next]_vars => (Inv /\ IdleOwesNothing)'
  BY IdleStep, StepKeepsInv
<1> QED BY <1>2, <1>3, PTL DEF Spec

----------------------------------------------------------------------------
(* Where everything has settled, the devices agree.                         *)

(* A last word that one end of a quiet link holds, the other holds.         *)
LEMMA QuietLinkShares ==
    ASSUME Inv, IdleOwesNothing, Quiet, NEW l \in Links, NEW w \in LastWords, w \in log[l[1]]
    PROVE  w \in log[l[2]]
<1>1. /\ phase[l] = "live" /\ ~backlog[l] /\ ~woken[l] /\ pipe[l] = <<>>
      /\ phase[Back(l)] # "down"
  BY LinkEnds DEF Quiet
<1>2. w \in Op /\ cursor[l] \in [Device -> Nat]
  BY LinkEnds DEF Inv, TypeOK
<1>3. w.seq \in Nat /\ cursor[l][w.origin] \in Nat
  BY <1>2 DEF Op
<1>4. Owed(log[l[1]], cursor[l]) = {}
  BY <1>1 DEF IdleOwesNothing
<1>5. cursor[l][w.origin] >= w.seq
  BY <1>3, <1>4 DEF Owed
<1>6. w \in log[l[2]] \/ OnItsWay(l, w, Len(pipe[l]))
  BY <1>1, <1>5 DEF Inv, CursorHolds
<1>7. Len(pipe[l]) = 0
  BY <1>1
<1> QED BY <1>6, <1>7 DEF OnItsWay

LEMMA QuietHoldsLastWords ==
    ASSUME Inv, IdleOwesNothing, Quiet, Connected, NEW w \in LastWords, NEW d \in Device
    PROVE  w \in log[d]
<1> DEFINE S == {e \in Device : w \in log[e]}
<1>1. w \in said /\ w.origin \in Device /\ w.seq \in Nat
  BY DEF Inv, TypeOK, LastWords, Compact, Op
<1>2. w.origin \in S
  <2>1. have[w.origin][w.origin] = nextSeq[w.origin] - 1 /\ w.seq < nextSeq[w.origin]
    BY <1>1 DEF Inv, NothingMadeUp, ClockCoversLog
  <2>2. nextSeq[w.origin] \in Nat
    BY <1>1 DEF Inv, TypeOK
  <2>3. have[w.origin][w.origin] >= w.seq
    BY <1>1, <2>1, <2>2
  <2> QED BY <1>1, <2>3 DEF Inv, LastWordHeld
<1>3. \A l \in Links : l[1] \in S => l[2] \in S
  BY QuietLinkShares, LinkEnds
<1>4. S \in SUBSET Device /\ S # {}
  BY <1>2
<1>5. S = Device
  BY <1>3, <1>4 DEF Connected
<1> QED BY <1>5

(* Every op said is a last word or is overtaken by one.                     *)
LEMMA LastWordOver ==
    ASSUME OrderInv, NEW x \in said
    PROVE  \E w \in LastWords : w = x \/ Overtakes(w, x)
<1>1. PICK N \in Nat : \A d \in Device : d <= N
  BY DevicesAreBounded
<1>2. said \subseteq Op /\ hlc \in [Device -> Nat]
  BY DEF OrderInv, Inv, TypeOK
<1> DEFINE clocks == {hlc[d] : d \in Device}
<1>3. PICK H \in Nat : \A n \in clocks : n <= H
  <2>1. IsFiniteSet(clocks)
    <3>1. hlc \in Surjection(Device, clocks)
      BY <1>2 DEF Surjection
    <3> HIDE DEF clocks
    <3> QED BY <3>1, ExchangeAssumption, FS_Surjection
  <2>2. clocks \subseteq Nat
    BY <1>2
  <2> HIDE DEF clocks
  <2> QED BY <2>1, <2>2, FiniteIsBounded
<1>4. ASSUME NEW y \in said PROVE y.hlc <= H
  <2>1. y.hlc \in Nat /\ y.origin \in Device /\ y.hlc <= hlc[y.origin]
    BY <1>2 DEF Op, OrderInv, ClocksCoverWords
  <2>2. hlc[y.origin] \in Nat /\ hlc[y.origin] <= H
    BY <1>2, <1>3, <2>1
  <2> QED BY <2>1, <2>2
<1> QED BY <1>1, <1>2, <1>4, CompactSpeaks DEF LastWords

LEMMA QuietMeansAgreed ==
    ASSUME OrderInv, IdleOwesNothing, Connected
    PROVE  QuietAgree
<1> SUFFICES ASSUME Quiet, NEW d \in Device PROVE log[d] = LastWords
  BY DEF QuietAgree
<1>1. LastWords \subseteq log[d]
  BY QuietHoldsLastWords DEF OrderInv
<1>2. ASSUME NEW x \in log[d] PROVE x \in LastWords
  <2>1. x \in said
    BY DEF OrderInv, Inv, NothingMadeUp
  <2>2. PICK w \in LastWords : w = x \/ Overtakes(w, x)
    BY <2>1, LastWordOver
  <2>3. ~Overtakes(w, x)
    BY <1>1, <2>2 DEF OrderInv, OneWordPerCell
  <2> QED BY <2>2, <2>3
<1> QED BY <1>1, <1>2

(* When every link is up, idle and empty, and the links join the devices to *)
(* one another, all of them hold the same: the last words of everything     *)
(* said, and nothing else.  What all of protocol.rs and log.rs is for.      *)
THEOREM ExchangeQuietAgree ==
    ASSUME Connected
    PROVE  Spec => []QuietAgree
<1>1. OrderInv /\ IdleOwesNothing => QuietAgree
  BY QuietMeansAgreed
<1> QED BY <1>1, OrderAlways, ExchangeIdleOwesNothing, PTL

----------------------------------------------------------------------------
(* The exchange implements last-writer-wins.                                *)

LEMMA SameWords ==
    /\ LWW!Op = Op
    /\ \A x, y : LWW!SpeaksFor(x, y) <=> SpeaksFor(x, y)
    /\ \A x, y : LWW!After(x, y) <=> After(x, y)
    /\ \A x, y : LWW!Overtakes(x, y) <=> Overtakes(x, y)
    /\ \A ops : LWW!Compact(ops) = Compact(ops)
<1>1. LWW!Op = Op
  BY DEF LWW!Op, Op, LWW!Column, Column
<1>2. ASSUME NEW x, NEW y PROVE LWW!SpeaksFor(x, y) <=> SpeaksFor(x, y)
  BY Zenon DEF LWW!SpeaksFor, SpeaksFor
<1>3. ASSUME NEW x, NEW y PROVE LWW!After(x, y) <=> After(x, y)
  BY Zenon DEF LWW!After, After
<1>4. ASSUME NEW x, NEW y PROVE LWW!Overtakes(x, y) <=> Overtakes(x, y)
  BY Zenon, <1>2, <1>3 DEF LWW!Overtakes, Overtakes
<1>5. ASSUME NEW ops PROVE LWW!Compact(ops) = Compact(ops)
  <2>1. \A x : x \in LWW!Compact(ops) <=> x \in Compact(ops)
    BY Zenon, <1>4 DEF LWW!Compact, Compact
  <2> QED BY Zenon, <2>1 DEF LWW!Compact, Compact
<1> QED BY Zenon, <1>1, <1>2, <1>3, <1>4, <1>5

LEMMA RefinesInit == Init => LWW!Init
<1> SUFFICES ASSUME Init PROVE LWW!Init
  OBVIOUS
<1>1. OneWordPerCell /\ Inv
  BY InitInv, OrderInit
<1>2. /\ log = [d \in Device |-> LegacyOps(d)]
      /\ said = UNION {LegacyOps(d) : d \in Device}
      /\ said \subseteq Op
  BY <1>1 DEF Init, Inv, TypeOK
<1>3. \A d \in Device : \A x \in LegacyOps(d) : x.origin = d
  BY DEF LegacyOps
<1>4. \A d \in Device : LegacyOps(d) = {x \in said : x.origin = d}
  BY <1>2, <1>3
<1>5. log = [d \in Device |-> {x \in said : x.origin = d}]
  BY <1>2, <1>4
<1>6. \A x, y \in said : ~Overtakes(x, y) \/ x.origin # y.origin
  <2> SUFFICES ASSUME NEW x \in said, NEW y \in said, x.origin = y.origin
               PROVE  ~Overtakes(x, y)
    OBVIOUS
  <2>1. PICK d \in Device : x \in LegacyOps(d)
    BY <1>2
  <2>2. y \in LegacyOps(d)
    BY <1>2, <1>3, <2>1
  <2> QED BY <1>1, <1>2, <2>1, <2>2 DEF OneWordPerCell
<1> QED BY <1>2, <1>5, <1>6, SameWords DEF LWW!Init

(* A write is a decision.                                                   *)
LEMMA DecideRefines ==
    ASSUME OrderInv, NEW d \in Device, NEW ops, Decides(d, ops)
    PROVE  LWW!Decide(d)
<1>1. /\ ops \subseteq Op /\ ops # {}
      /\ \A x \in ops : x.origin = d /\ nextSeq[d] <= x.seq /\ hlc[d] < x.hlc
      /\ \A x, y \in ops : x # y => ~SpeaksFor(x, y)
      /\ said' = said \union ops
      /\ log' = [log EXCEPT ![d] = ops \union {y \in @ : \A x \in ops : ~Overtakes(x, y)}]
  BY DEF Decides
<1>2. /\ log \in [Device -> SUBSET Op] /\ said \subseteq Op /\ hlc \in [Device -> Nat]
      /\ nextSeq[d] \in Nat
  BY DEF OrderInv, Inv, TypeOK
<1>3. \A x \in Op : x.hlc \in Nat /\ x.seq \in Nat
  BY DEF Op
<1>4. said' \ said = ops
  <2>1. ASSUME NEW x \in ops PROVE x \notin said
    <3>1. x.seq \in Nat /\ x.origin = d /\ nextSeq[d] <= x.seq
      BY <1>1, <1>3
    <3>2. x \in said => x.seq < nextSeq[d]
      BY <3>1 DEF OrderInv, Inv, NothingMadeUp
    <3> QED BY <1>2, <3>1, <3>2
  <2> QED BY <1>1, <2>1
<1>5. ASSUME NEW x \in ops, NEW y \in log[d] PROVE After(x, y) /\ ~After(y, x)
  <2>1. y.hlc <= hlc[d] /\ y.hlc \in Nat /\ hlc[d] \in Nat /\ x.hlc \in Nat /\ hlc[d] < x.hlc
    BY <1>1, <1>2, <1>3 DEF OrderInv, ClocksCoverWords
  <2> QED BY <2>1 DEF After
<1>6. \A x \in ops : LWW!Last(x, log[d])
  BY <1>5, SameWords DEF LWW!Last
<1>7. Compact(log[d] \union ops) = ops \union {y \in log[d] : \A x \in ops : ~Overtakes(x, y)}
  <2>1. \A x, y \in log[d] : ~Overtakes(x, y)
    BY DEF OrderInv, OneWordPerCell
  <2>2. \A x \in ops, y \in log[d] : ~Overtakes(y, x)
    BY <1>5 DEF Overtakes
  <2>3. \A x, y \in ops : ~Overtakes(x, y)
    BY <1>1, OvertakesIsStrict DEF Overtakes
  <2> QED BY <2>1, <2>2, <2>3 DEF Compact
<1>8. log' = [log EXCEPT ![d] = Compact(@ \union ops)]
  BY <1>1, <1>7
<1> QED BY <1>1, <1>4, <1>6, <1>8, SameWords DEF LWW!Decide

(* So is what a restart files of the cells nothing spoke for.               *)
LEMMA BackfillRefines ==
    ASSUME OrderInv, NEW d \in Device, NEW ops, Backfills(d, ops)
    PROVE  LWW!Decide(d) \/ UNCHANGED <<said, log>>
<1>1. /\ ops \subseteq Op
      /\ \A x \in ops : x.origin = d /\ nextSeq[d] <= x.seq
      /\ \A x, y \in ops : x # y => ~SpeaksFor(x, y)
      /\ \A x \in ops, y \in log[d] : ~SpeaksFor(x, y) /\ ~SpeaksFor(y, x)
      /\ said' = said \union ops
      /\ log' = [log EXCEPT ![d] = @ \union ops]
  BY DEF Backfills
<1>2. /\ log \in [Device -> SUBSET Op] /\ said \subseteq Op /\ nextSeq[d] \in Nat
  BY DEF OrderInv, Inv, TypeOK
<1>3. CASE ops = {}
  BY <1>1, <1>2, <1>3
<1>4. CASE ops # {}
  <2>1. said' \ said = ops
    <3>1. ASSUME NEW x \in ops PROVE x \notin said
      <4>1. x.seq \in Nat /\ x.origin = d /\ nextSeq[d] <= x.seq
        BY <1>1 DEF Op
      <4>2. x \in said => x.seq < nextSeq[d]
        BY <4>1 DEF OrderInv, Inv, NothingMadeUp
      <4> QED BY <1>2, <4>1, <4>2
    <3> QED BY <1>1, <3>1
  <2>2. \A x \in ops : LWW!Last(x, log[d])
    BY <1>1, SameWords DEF LWW!Last
  <2>3. Compact(log[d] \union ops) = log[d] \union ops
    <3>1. \A x, y \in log[d] : ~Overtakes(x, y)
      BY DEF OrderInv, OneWordPerCell
    <3>2. \A x, y \in ops : ~Overtakes(x, y)
      BY <1>1, OvertakesIsStrict DEF Overtakes
    <3>3. \A x \in ops, y \in log[d] : ~Overtakes(x, y) /\ ~Overtakes(y, x)
      BY <1>1 DEF Overtakes
    <3> QED BY <3>1, <3>2, <3>3 DEF Compact
  <2>4. log' = [log EXCEPT ![d] = Compact(@ \union ops)]
    BY <1>1, <2>3
  <2> QED BY <1>1, <1>4, <2>1, <2>2, <2>4, SameWords DEF LWW!Decide
<1> QED BY <1>3, <1>4

LEMMA RefinesStep == OrderInv /\ [Next]_vars => [LWW!Next]_(LWW!lww)
<1> SUFFICES ASSUME OrderInv, [Next]_vars
             PROVE  (\E d \in Device : LWW!Decide(d) \/ LWW!Learn(d)) \/ UNCHANGED <<said, log>>
  BY DEF LWW!Next, LWW!lww
<1>1. Inv
  BY DEF OrderInv
<1>2. ASSUME NEW d \in Device, NEW r \in Row, Insert(d, r) \/ Update(d, r) \/ Delete(d, r)
      PROVE  LWW!Decide(d)
  BY <1>1, <1>2, WriteDecides, DecideRefines
<1>3. ASSUME NEW d \in Device, Restart(d)
      PROVE  LWW!Decide(d) \/ UNCHANGED <<said, log>>
  BY <1>1, <1>3, RestartBackfills, BackfillRefines
<1>4. ASSUME NEW l \in Links, HearOps(l)
      PROVE  \E d \in Device : LWW!Learn(d)
  <2>1. PICK ops \in SUBSET said :
           log' = [log EXCEPT ![l[1]] = Merge(@, ops)] /\ UNCHANGED said
    BY <1>1, <1>4, HearOpsMerges
  <2>2. log' = [log EXCEPT ![l[1]] = LWW!Compact(@ \union ops)]
    BY <2>1, SameWords DEF Merge
  <2> QED BY <2>1, <2>2, LinkEnds DEF LWW!Learn
<1>5. UNCHANGED stores => UNCHANGED <<said, log>>
  BY DEF stores
<1>6. UNCHANGED vars => UNCHANGED <<said, log>>
  BY DEF vars
<1> QED BY <1>2, <1>3, <1>4, <1>5, <1>6, SilentActions DEF Next

(* The exchange implements last-writer-wins: a write or a backfill is a     *)
(* decision of its device, the hearing of a frame a joining of words that   *)
(* were said, and every other step of a session, a link or a process leaves *)
(* every view alone.                                                        *)
THEOREM ExchangeRefines == Spec => Refines
<1> QED BY RefinesInit, RefinesStep, OrderAlways, PTL DEF Spec, Refines, LWW!Spec
=============================================================================
