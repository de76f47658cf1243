--------------------------- MODULE SyncApplyProofs ---------------------------
(* What the operators of SyncOps do, for the proofs about the exchange too, and
   that taking the ops of a frame one by one comes to what the frame at once would
   come to: the loop of Log::apply and the single step the exchange is modelled
   with agree, for any history the other devices may have. *)
EXTENDS SyncApply, FiniteSetTheorems, WellFoundedInduction, TLAPS

----------------------------------------------------------------------------
(* The operators: what the highest of some sequences is, what advance walks over,
   what a frame's word covers, that a last word outlives every merge, and that
   every op leads up to one. *)

(* A non-empty set of naturals has a least element.                         *)
LEMMA LeastNat ==
    ASSUME NEW T, T \subseteq Nat, T # {}
    PROVE  \E m \in T : \A n \in T : m <= n
<1> DEFINE R == OpToRel(<, Nat)
<1>1. IsWellFoundedOn(R, Nat)
  BY NatLessThanWellFounded
<1> HIDE DEF R
<1>2. PICK m \in T : \A n \in T : <<n, m>> \notin R
  BY <1>1, WFMin
<1>3. \A n \in T : ~(n < m)
  BY <1>2 DEF OpToRel, R
<1>4. \A n \in T : m <= n
  BY <1>3
<1> QED BY <1>4

(* highest: a bounded set of sequences has one, and it is in the set.       *)
LEMMA HighestIsMax ==
    ASSUME NEW S, S \subseteq Nat, S # {}, NEW N \in Nat, \A n \in S : n <= N
    PROVE  /\ Highest(S) \in S
           /\ \A m \in S : m <= Highest(S)
<1> DEFINE T == {n \in Nat : \A m \in S : m <= n}
<1>1. T \subseteq Nat /\ N \in T
  OBVIOUS
<1>2. PICK n \in T : \A k \in T : n <= k
  BY <1>1, LeastNat
<1>3. n \in S
  <2> SUFFICES ASSUME n \notin S PROVE FALSE
    OBVIOUS
  <2>1. \A m \in S : m < n
    BY <1>2
  <2>2. n \in Nat /\ n > 0
    <3>1. PICK m \in S : TRUE
      OBVIOUS
    <3>2. m \in Nat /\ m < n
      BY <3>1, <2>1
    <3> QED BY <3>2
  <2>3. n - 1 \in T
    BY <2>1, <2>2
  <2> QED BY <2>3, <1>2
<1>4. \E k \in S : \A m \in S : m <= k
  BY <1>2, <1>3
<1> QED BY <1>4 DEF Highest

(* advance: the walk ends where the run does, and every sequence it passes  *)
(* is in the log.                                                           *)
LEMMA AdvanceIsContiguous ==
    ASSUME NEW log, NEW o, NEW from \in Nat, NEW N \in Nat,
           \A x \in log : x.seq \in Nat,
           \A x \in log : x.origin = o => x.seq <= N
    PROVE  /\ Advance(log, o, from) \in Nat
           /\ Contiguous(log, o, from, Advance(log, o, from))
<1> DEFINE T == {n \in Nat : from <= n /\ \A x \in log : ~(x.origin = o /\ x.seq = n + 1)}
<1> DEFINE top == IF N < from THEN from ELSE N
<1>1. T \subseteq Nat /\ top \in T
  OBVIOUS
<1>2. PICK to \in T : \A k \in T : to <= k
  BY <1>1, LeastNat
<1>3. \A n \in (from + 1)..to : \E x \in log : x.origin = o /\ x.seq = n
  <2> SUFFICES ASSUME NEW n \in (from + 1)..to
               PROVE  \E x \in log : x.origin = o /\ x.seq = n
    OBVIOUS
  <2>1. n - 1 \in Nat /\ from <= n - 1 /\ n - 1 < to /\ to \in Nat /\ n \in Nat
    BY <1>2
  <2>2. n - 1 \notin T
    BY <2>1, <1>2
  <2> QED BY <2>1, <2>2
<1>4. to \in {from} \union {x.seq : x \in log}
  <2>1. CASE to = from
    BY <2>1
  <2>2. CASE to # from
    <3>1. to \in (from + 1)..to
      BY <2>2, <1>2
    <3> QED BY <3>1, <1>3
  <2> QED BY <2>1, <2>2
<1>5. Contiguous(log, o, from, to)
  BY <1>2, <1>3 DEF Contiguous
<1>6. Advance(log, o, from) \in {from} \union {x.seq : x \in log}
      /\ Contiguous(log, o, from, Advance(log, o, from))
  BY <1>4, <1>5 DEF Advance
<1> QED BY <1>6

(* Reach: no further than the bound its ops keep to, and at least as far as *)
(* each of them.                                                            *)
LEMMA ReachOfOps ==
    ASSUME NEW ops, ops \subseteq Op, NEW bound \in [Device -> Nat],
           \A x \in ops : x.seq <= bound[x.origin], NEW o \in Device
    PROVE  /\ Reach(ops)[o] \in Nat
           /\ Reach(ops)[o] <= bound[o]
           /\ \A x \in ops : x.origin = o => x.seq <= Reach(ops)[o]
<1> DEFINE seqs == {x.seq : x \in {y \in ops : y.origin = o}}
<1>1. seqs \subseteq Nat /\ \A n \in seqs : n <= bound[o]
  BY DEF Op
<1>2. bound[o] \in Nat
  OBVIOUS
<1>3. Reach(ops)[o] = IF seqs = {} THEN 0 ELSE Highest(seqs)
  BY DEF Reach
<1>4. \A x \in ops : x.origin = o => x.seq \in seqs
  OBVIOUS
<1> HIDE DEF seqs
<1>5. CASE seqs = {}
  BY <1>2, <1>3, <1>4, <1>5
<1>6. CASE seqs # {}
  <2>1. Highest(seqs) \in seqs /\ \A m \in seqs : m <= Highest(seqs)
    BY <1>1, <1>2, <1>6, HighestIsMax
  <2> QED BY <2>1, <1>1, <1>3, <1>4, <1>6
<1> QED BY <1>5, <1>6

(* Word: what a frame says of an origin.  It is no more than the sender     *)
(* stands at, it covers every op of the origin in the frame, and every op   *)
(* A frame cut from the ops one end owes: of `log`, which `mine` covers, all *)
(* that `theirs` does not cover was read up to a batch, and the head of what *)
(* was read is sent.                                                         *)
CutFrom(log, mine, theirs, batch, read, sent) ==
    /\ log \subseteq Op /\ mine \in [Device -> Nat] /\ theirs \in [Device -> Nat]
    /\ batch \in Nat
    /\ \A x \in log : x.seq <= mine[x.origin]
    /\ \A x, y \in log : x.origin = y.origin /\ x.seq = y.seq => x = y
    /\ LeadsOff(read, Owed(log, theirs))
    /\ LeadsOff(sent, read)
    /\ Cardinality(read) = batch \/ read = Owed(log, theirs)

(* A word about o that covers nothing the frame and the receiver lack.      *)
SpeaksTruly(word, o, log, mine, theirs, sent) ==
    /\ word \in Nat
    /\ word <= mine[o]
    /\ \A x \in sent : x.origin = o => x.seq <= word
    /\ \A w \in log : w.origin = o /\ theirs[o] < w.seq /\ w.seq <= word => w \in sent

(* the sender has up to it that the peer lacks is in the frame.             *)
LEMMA WordCovers ==
    ASSUME NEW log, NEW mine, NEW theirs, NEW batch, NEW o \in Device, NEW read, NEW sent,
           CutFrom(log, mine, theirs, batch, read, sent)
    PROVE  SpeaksTruly(Word(o, read, sent, mine, theirs, batch), o, log, mine, theirs, sent)
<1> DEFINE word == Word(o, read, sent, mine, theirs, batch)
<1>0. /\ log \subseteq Op /\ mine \in [Device -> Nat] /\ theirs \in [Device -> Nat]
      /\ batch \in Nat
      /\ \A x \in log : x.seq <= mine[x.origin]
      /\ \A x, y \in log : x.origin = y.origin /\ x.seq = y.seq => x = y
      /\ LeadsOff(read, Owed(log, theirs))
      /\ LeadsOff(sent, read)
      /\ Cardinality(read) = batch \/ read = Owed(log, theirs)
  BY DEF CutFrom
<1> SUFFICES /\ word \in Nat
             /\ word <= mine[o]
             /\ \A x \in sent : x.origin = o => x.seq <= word
             /\ \A w \in log : w.origin = o /\ theirs[o] < w.seq /\ w.seq <= word
                   => w \in sent
  BY DEF SpeaksTruly
<1> USE <1>0
<1> DEFINE owed == Owed(log, theirs)
           finished == /\ \/ Cardinality(read) < batch
                          \/ \E x \in read : x.origin > o
                       /\ \A x \in read \ sent : x.origin # o
           seqs == {x.seq : x \in {y \in sent : y.origin = o}}
           spoken == IF finished THEN mine[o]
                     ELSE IF seqs = {} THEN 0
                     ELSE IF Highest(seqs) < mine[o] THEN Highest(seqs)
                     ELSE mine[o]
<1>1. word = IF spoken > theirs[o] THEN spoken ELSE 0
  BY DEF Word
<1>2. sent \subseteq read /\ read \subseteq owed /\ owed \subseteq log
  BY DEF LeadsOff, Owed
<1>3. mine[o] \in Nat /\ theirs[o] \in Nat
  OBVIOUS
<1>4. seqs \subseteq Nat /\ \A n \in seqs : n <= mine[o] /\ n > theirs[o]
  BY <1>2 DEF Op, Owed
<1>5. \A w \in log : w.origin = o => w.seq \in Nat /\ w.origin \in Nat
  BY OpsAssumption DEF Op
<1>6. \A x \in read : x.origin \in Nat /\ x.seq \in Nat
  BY ZenonT(60), <1>2, OpsAssumption DEF Op
<1>7. \A w \in log : w.origin = o /\ theirs[o] < w.seq => w \in owed
  BY DEF Owed
<1>8. \A x \in sent : x.origin = o => x.seq \in seqs
  OBVIOUS
<1> HIDE DEF word, spoken, finished
<1>9. CASE finished
  <2>1. spoken = mine[o]
    BY <1>9 DEF spoken
  <2>2. \A x \in sent : x.origin = o => x.seq <= word
    <3>1. \A x \in sent : x.origin = o => theirs[o] < x.seq /\ x.seq <= mine[o] /\ x.seq \in Nat
      BY <1>4, <1>8
    <3> QED BY <3>1, <1>1, <1>3, <2>1
  <2>3. ASSUME NEW w \in log, w.origin = o, theirs[o] < w.seq
        PROVE  w \in sent
    <3>1. w \in owed
      BY <2>3, <1>7
    <3>2. w \in read
      <4>1. CASE Cardinality(read) < batch
        <5>1. Cardinality(read) # batch
          BY <4>1
        <5> QED BY <5>1, <3>1
      <4>2. CASE \E x \in read : x.origin > o
        <5>1. PICK x \in read : x.origin > o
          BY <4>2
        <5>2. ~Before(x, w)
          BY <5>1, <1>5, <1>6, <2>3 DEF Before
        <5> QED BY <5>1, <5>2, <3>1 DEF LeadsOff
      <4> QED BY <4>1, <4>2, <1>9 DEF finished
    <3> QED BY <3>2, <2>3, <1>9 DEF finished
  <2>4. word \in Nat /\ word <= mine[o]
    BY <1>1, <1>3, <2>1
  <2> QED BY <2>2, <2>3, <2>4
<1>10. CASE ~finished /\ seqs = {}
  <2>1. spoken = 0
    BY <1>10 DEF spoken
  <2>2. word = 0
    BY <1>1, <1>3, <2>1
  <2>3. \A x \in sent : x.origin # o
    BY <1>8, <1>10
  <2> QED BY <2>2, <2>3, <1>3, <1>5
<1>11. CASE ~finished /\ seqs # {}
  <2> DEFINE top == Highest(seqs)
  <2>1. top \in seqs /\ \A m \in seqs : m <= top
    BY <1>3, <1>4, <1>11, HighestIsMax
  <2>2. top \in Nat /\ top <= mine[o] /\ top > theirs[o]
    BY <2>1, <1>4
  <2>3. spoken = IF top < mine[o] THEN top ELSE mine[o]
    BY <1>11 DEF spoken
  <2>4. word = top
    BY <1>1, <1>3, <2>2, <2>3
  <2>5. PICK x \in sent : x.origin = o /\ x.seq = top
    BY <2>1
  <2>6. ASSUME NEW w \in log, w.origin = o, theirs[o] < w.seq, w.seq <= top
        PROVE  w \in sent
    <3>1. w \in owed
      BY <2>6, <1>7
    <3>2. x \in read /\ x \in log
      BY <1>2
    <3>3. ~Before(x, w)
      BY <2>5, <2>6, <1>5, <1>6, <3>2 DEF Before
    <3> QED BY <3>1, <3>2, <3>3 DEF LeadsOff
  <2> HIDE DEF top
  <2>7. \A y \in sent : y.origin = o => y.seq <= word
    BY <2>1, <2>4, <1>8
  <2> QED BY <2>2, <2>4, <2>6, <2>7
<1> QED BY <1>9, <1>10, <1>11

(* What is a last word among everything is one in every log that has it,    *)
(* and no merge with things that were said takes it away.                   *)
LEMMA MergeKeepsLastWords ==
    ASSUME NEW said, NEW log, NEW ops, log \subseteq said, ops \subseteq said,
           NEW w \in Compact(said)
    PROVE  w \in log \/ w \in ops <=> w \in Merge(log, ops)
BY DEF Compact, Merge

(* A row a log of ops describes says in every column what an op may.        *)
LEMMA DescribedIsRow ==
    ASSUME NEW log, log \subseteq Op, NEW row, Described(log, row) # Absent, NEW c \in Col
    PROVE  Described(log, row)[c] \in Val \union {Null}
<1>1. CASE \E x \in Cells(log, row) : x.col = c
  <2> DEFINE y == CHOOSE x \in Cells(log, row) : x.col = c
  <2>1. y \in log /\ y.col = c
    BY <1>1 DEF Cells
  <2>2. Described(log, row)[c] = y.val
    BY <1>1 DEF Described
  <2> QED BY <2>1, <2>2 DEF Op
<1>2. CASE ~ \E x \in Cells(log, row) : x.col = c
  BY <1>2, OpsAssumption DEF Described
<1> QED BY <1>1, <1>2

(* Nothing becomes a last word again by more being said.                    *)
LEMMA LastWordsOnlyLeave ==
    ASSUME NEW said, NEW more, said \subseteq more, NEW w \in Compact(more), w \in said
    PROVE  w \in Compact(said)
BY DEF Compact

(* The vector clock after an apply: no entry goes back, this device's own   *)
(* stays, it takes every word given, and where it has moved past the old    *)
(* one it is up to a word or over ops the log now has.                      *)
MovesOnGrounds(me, log, have, ops, held, o) ==
    LET after == HaveAfter(me, log, have, ops, held)
    IN  /\ after[o] \in Nat
        /\ after[o] >= have[o]
        /\ o = me => after[o] = have[o]
        /\ o # me => after[o] >= held[o]
        /\ \A n \in Nat : have[o] < n /\ n <= after[o] =>
              \/ o # me /\ n <= held[o]
              \/ \E x \in Merge(log, ops) : x.origin = o /\ x.seq = n

LEMMA HaveAfterApply ==
    ASSUME NEW me \in Device, NEW log, NEW ops, log \subseteq Op, ops \subseteq Op,
           NEW have \in [Device -> Nat], NEW held \in [Device -> Nat],
           NEW bound \in [Device -> Nat], NEW o \in Device,
           \A x \in log \union ops : x.seq <= bound[x.origin]
    PROVE  MovesOnGrounds(me, log, have, ops, held, o)
<1> DEFINE merged == Merge(log, ops)
           far == Advance(merged, o, have[o])
           walked == IF o \in Walked(me, log, ops) THEN far ELSE have[o]
           after == HaveAfter(me, log, have, ops, held)
<1>1. merged \subseteq log \union ops
  BY DEF Merge, Compact
<1>2. /\ \A x \in merged : x.seq \in Nat
      /\ \A x \in merged : x.origin = o => x.seq <= bound[o]
      /\ have[o] \in Nat /\ held[o] \in Nat /\ bound[o] \in Nat
  BY <1>1 DEF Op
<1>3. far \in Nat /\ Contiguous(merged, o, have[o], far)
  BY <1>2, AdvanceIsContiguous
<1>4. after[o] = IF o # me /\ held[o] > walked THEN held[o] ELSE walked
  BY DEF HaveAfter
<1>5. o = me => o \notin Walked(me, log, ops)
  BY DEF Walked
<1>6. walked \in Nat /\ walked >= have[o] /\ (o = me => walked = have[o])
  BY <1>2, <1>3, <1>5 DEF Contiguous
<1>7. \A n \in Nat : have[o] < n /\ n <= walked =>
        \E x \in merged : x.origin = o /\ x.seq = n
  <2>1. \A n \in (have[o] + 1)..far : \E x \in merged : x.origin = o /\ x.seq = n
    BY <1>3 DEF Contiguous
  <2> QED BY <2>1, <1>2, <1>3
<1> HIDE DEF walked, merged, after
<1>8. /\ after[o] \in Nat
      /\ after[o] >= have[o]
      /\ o = me => after[o] = have[o]
      /\ o # me => after[o] >= held[o]
  BY <1>2, <1>4, <1>6
<1>9. ASSUME NEW n \in Nat, have[o] < n, n <= after[o]
      PROVE  \/ o # me /\ n <= held[o]
             \/ \E x \in merged : x.origin = o /\ x.seq = n
  BY <1>2, <1>4, <1>6, <1>7, <1>9
<1> QED BY <1>8, <1>9 DEF after, merged, MovesOnGrounds

----------------------------------------------------------------------------
(* A finite set of naturals has a bound.                                    *)
LEMMA FiniteIsBounded ==
    ASSUME NEW S, S \subseteq Nat, IsFiniteSet(S)
    PROVE  \E N \in Nat : \A n \in S : n <= N
<1> DEFINE Bounded(U) == \E N \in Nat : \A n \in U : n <= N
           R == StrictSubsetOrdering(S)
           T == {U \in SUBSET S : ~Bounded(U)}
<1>1. IsWellFoundedOn(R, SUBSET S)
  BY FS_StrictSubsetOrderingWellFounded, FS_FiniteSubsetsOfFinite
<1> HIDE DEF R
<1>2. SUFFICES ASSUME T # {} PROVE FALSE
  OBVIOUS
<1>3. T \subseteq SUBSET S
  OBVIOUS
<1>4. PICK U \in T : \A V \in T : <<V, U>> \notin R
  BY <1>1, <1>2, <1>3, WFMin
<1>5. PICK x : x \in U
  <2>1. Bounded({})
    OBVIOUS
  <2> QED BY <2>1
<1>6. <<U \ {x}, U>> \in R
  BY <1>5 DEF R, StrictSubsetOrdering
<1>7. PICK N \in Nat : \A n \in U \ {x} : n <= N
  BY <1>4, <1>6
<1>8. x \in Nat
  BY <1>5
<1>9. Bounded(U)
  <2>1. CASE x <= N
    BY <1>7, <2>1
  <2>2. CASE N < x
    <3>1. \A n \in U : n \in Nat
      OBVIOUS
    <3>2. \A n \in U : n <= x
      BY <1>7, <1>8, <2>2, <3>1
    <3> QED BY <1>8, <3>2
  <2> QED BY <1>7, <1>8, <2>1, <2>2
<1> QED BY <1>9

(* after is transitive and no op is after itself, and so with overtaking.   *)
LEMMA OvertakesIsStrict ==
    ASSUME NEW x \in Op, NEW y \in Op, NEW z \in Op
    PROVE  /\ ~Overtakes(x, x)
           /\ Overtakes(x, y) /\ Overtakes(y, z) => Overtakes(x, z)
           /\ SpeaksFor(x, y) /\ SpeaksFor(y, z) => SpeaksFor(x, z)
           /\ ~(After(x, y) /\ After(y, x))
<1>1. \A u \in Op : u.hlc \in Nat /\ u.origin \in Nat
  BY OpsAssumption DEF Op
<1> QED BY <1>1 DEF Overtakes, SpeaksFor, After

(* Among ops whose clocks and origins are bounded there is one that none is *)
(* after.                                                                   *)
LEMMA LatestOp ==
    ASSUME NEW S, S \subseteq Op, S # {}, NEW H \in Nat, NEW N \in Nat,
           \A x \in S : x.hlc <= H, \A d \in Device : d <= N
    PROVE  \E m \in S : \A x \in S : ~After(x, m)
<1> DEFINE clocks == {x.hlc : x \in S}
           h == Highest(clocks)
           tied == {x \in S : x.hlc = h}
           authors == {x.origin : x \in tied}
           o == Highest(authors)
<1>1. \A x \in S : x.hlc \in Nat /\ x.origin \in Nat /\ x.origin <= N
  BY OpsAssumption DEF Op
<1>2. clocks \subseteq Nat /\ clocks # {} /\ \A n \in clocks : n <= H
  BY <1>1
<1>3. h \in clocks /\ \A n \in clocks : n <= h
  <2> HIDE DEF clocks
  <2> QED BY <1>2, HighestIsMax
<1> HIDE DEF h
<1>4. authors \subseteq Nat /\ authors # {} /\ \A n \in authors : n <= N
  BY <1>1, <1>3
<1>5. o \in authors /\ \A n \in authors : n <= o
  <2> HIDE DEF authors
  <2> QED BY <1>4, HighestIsMax
<1> HIDE DEF o
<1>6. PICK m \in S : m.hlc = h /\ m.origin = o
  BY <1>5
<1>7. ASSUME NEW x \in S PROVE ~After(x, m)
  <2>1. x.hlc <= h /\ x.hlc \in Nat /\ h \in Nat
    BY <1>1, <1>2, <1>3
  <2>2. x.hlc = h => x.origin <= o
    BY <1>5
  <2> QED BY <1>1, <1>6, <2>1, <2>2 DEF After
<1> QED BY <1>7

(* Taking out what is overtaken leaves every cell that was spoken for with  *)
(* a word: the op itself or one that overtook it.                           *)
LEMMA CompactSpeaks ==
    ASSUME NEW ops, ops \subseteq Op, NEW H \in Nat, NEW N \in Nat,
           \A x \in ops : x.hlc <= H, \A d \in Device : d <= N, NEW y \in ops
    PROVE  \E m \in Compact(ops) : m = y \/ Overtakes(m, y)
<1> DEFINE S == {x \in ops : x = y \/ Overtakes(x, y)}
<1>1. S \subseteq Op /\ S # {} /\ \A x \in S : x.hlc <= H
  OBVIOUS
<1>2. PICK m \in S : \A x \in S : ~After(x, m)
  <2> HIDE DEF S
  <2> QED BY <1>1, LatestOp
<1>3. ASSUME NEW z \in ops PROVE ~Overtakes(z, m)
  <2> SUFFICES ASSUME Overtakes(z, m) PROVE FALSE
    OBVIOUS
  <2>1. Overtakes(z, y)
    BY <1>2, OvertakesIsStrict
  <2>2. z \in S
    BY <2>1
  <2> QED BY <1>2, <2>2 DEF Overtakes
<1>4. m \in Compact(ops)
  BY <1>2, <1>3 DEF Compact
<1> QED BY <1>2, <1>4

----------------------------------------------------------------------------
(* The loop. *)

(* What the assumption on worlds says of one. *)
Sane(w) ==
    /\ w \subseteq Op /\ IsFiniteSet(w)
    /\ \A x \in w : x.col # Tomb => x.val \in Val
    /\ \A x, y \in w : x # y =>
            (Before(x, y) /\ Issued(x, y)) \/ (Before(y, x) /\ Issued(y, x))

(* Of two ops the sequence tells them apart, one comes first, and if one speaks
   for the cell of the other one of them is the later. *)
LEMMA OpsOfWorld ==
    ASSUME NEW w, Sane(w), NEW x \in w, NEW y \in w
    PROVE  /\ x \in Op /\ ~Before(x, x) /\ ~(Before(x, y) /\ Before(y, x))
           /\ x.origin = y.origin /\ x.seq = y.seq => x = y
           /\ x # y => Before(x, y) \/ Before(y, x)
           /\ x # y /\ SpeaksFor(x, y) => After(x, y) \/ After(y, x)
           /\ ~(After(x, y) /\ After(y, x)) /\ ~After(x, x)
<1>1. \A u \in w : u \in Op /\ u.hlc \in Nat /\ u.origin \in Nat /\ u.seq \in Nat
  BY OpsAssumption DEF Sane, Op
<1>2. x # y => (Before(x, y) /\ Issued(x, y)) \/ (Before(y, x) /\ Issued(y, x))
  BY DEF Sane
<1>3. /\ x \in Op /\ ~Before(x, x) /\ ~(Before(x, y) /\ Before(y, x))
      /\ x.origin = y.origin /\ x.seq = y.seq => x = y
      /\ x # y => Before(x, y) \/ Before(y, x)
      /\ ~(After(x, y) /\ After(y, x)) /\ ~After(x, x)
  BY <1>1, <1>2 DEF Before, After
<1>4. x # y /\ SpeaksFor(x, y) => After(x, y) \/ After(y, x)
  BY <1>1, <1>2 DEF SpeaksFor, After, Issued
<1> QED BY <1>3, <1>4

(* The ops of a world, and the devices, are bounded. *)
LEMMA WorldIsBounded ==
    ASSUME NEW w, Sane(w)
    PROVE  /\ \E H \in Nat : \A x \in w : x.hlc <= H
           /\ \E N \in Nat : \A d \in Device : d <= N
           /\ \E M \in Nat : \A x \in w : x.seq <= M
<1>1. \A u \in w : u.hlc \in Nat /\ u.seq \in Nat
  BY DEF Sane, Op
<1>2. IsFiniteSet({x.hlc : x \in w}) /\ IsFiniteSet({x.seq : x \in w})
  <2> DEFINE clock == [x \in w |-> x.hlc]
             number == [x \in w |-> x.seq]
  <2>1. clock \in Surjection(w, {x.hlc : x \in w}) /\ number \in Surjection(w, {x.seq : x \in w})
    BY DEF Surjection
  <2>2. IsFiniteSet(w)
    BY DEF Sane
  <2> HIDE DEF clock, number
  <2> QED BY <2>1, <2>2, FS_Surjection
<1>3. \E H \in Nat : \A n \in {x.hlc : x \in w} : n <= H
  <2>1. {x.hlc : x \in w} \subseteq Nat
    BY <1>1
  <2> QED BY <1>2, <2>1, FiniteIsBounded
<1>4. \E M \in Nat : \A n \in {x.seq : x \in w} : n <= M
  <2>1. {x.seq : x \in w} \subseteq Nat
    BY <1>1
  <2> QED BY <1>2, <2>1, FiniteIsBounded
<1>5. \E N \in Nat : \A d \in Device : d <= N
  BY FiniteIsBounded, OpsAssumption, ApplyAssumption
<1> QED BY <1>3, <1>4, <1>5

(* Every op of a history stands in its compaction, or one that overtook it does. *)
LEMMA HistorySpeaks ==
    ASSUME NEW w, Sane(w), NEW D, D \subseteq w, NEW y \in D
    PROVE  \E m \in Compact(D) : m = y \/ Overtakes(m, y)
<1>1. PICK H \in Nat : \A x \in w : x.hlc <= H
  BY WorldIsBounded
<1>2. PICK N \in Nat : \A d \in Device : d <= N
  BY WorldIsBounded
<1>3. D \subseteq Op /\ \A x \in D : x.hlc <= H
  BY <1>1 DEF Sane
<1> QED BY <1>2, <1>3, CompactSpeaks

----------------------------------------------------------------------------
(* One op, against a history that has been compacted. *)

(* An op the log has is nothing new. *)
LEMMA FiledIsHeld ==
    ASSUME NEW w, Sane(w), NEW D, D \subseteq w, NEW x \in w
    PROVE  Filed(Compact(D), x) <=> x \in Compact(D)
<1>1. Compact(D) \subseteq w
  BY DEF Compact
<1>2. ASSUME Filed(Compact(D), x) PROVE x \in Compact(D)
  <2>1. PICK y \in Compact(D) : y.origin = x.origin /\ y.seq = x.seq
    BY <1>2 DEF Filed
  <2>2. y = x
    BY <1>1, <2>1, OpsOfWorld
  <2> QED BY <2>1, <2>2
<1>3. ASSUME x \in Compact(D) PROVE Filed(Compact(D), x)
  BY <1>3 DEF Filed
<1> QED BY <1>2, <1>3

(* Dropping an op the log cannot be moved by loses no last word. *)
LEMMA OvertakenAddsNothing ==
    ASSUME NEW w, Sane(w), NEW D, D \subseteq w, NEW x \in w, x \notin Compact(D),
           Overtaken(Compact(D), x)
    PROVE  /\ Compact(D \union {x}) = Compact(D)
           /\ \E y \in D : Overtakes(y, x)
<1>1. PICK y \in Compact(D) : SpeaksFor(y, x) /\ ~After(x, y)
  BY DEF Overtaken
<1>2. y \in D /\ y \in w /\ y # x
  BY <1>1 DEF Compact
<1>3. Overtakes(y, x)
  BY <1>1, <1>2, OpsOfWorld DEF Overtakes
<1>4. ASSUME NEW z \in Compact(D) PROVE z \in Compact(D \union {x})
  <2>1. z \in D /\ z \in w /\ \A u \in D : ~Overtakes(u, z)
    BY DEF Compact
  <2>2. x \in Op /\ y \in Op /\ z \in Op
    BY <1>2, <2>1, OpsOfWorld
  <2>3. ~Overtakes(x, z)
    BY <1>2, <1>3, <2>1, <2>2, OvertakesIsStrict
  <2> QED BY <2>1, <2>3 DEF Compact
<1>5. ASSUME NEW z \in Compact(D \union {x}) PROVE z \in Compact(D)
  BY <1>2, <1>3, <1>5 DEF Compact
<1> QED BY <1>2, <1>3, <1>4, <1>5

(* Filing an op that nothing in the log stands against is what compacting all of
   it again would do. *)
LEMMA FilingIsCompacting ==
    ASSUME NEW w, Sane(w), NEW D, D \subseteq w, NEW x \in w, ~Overtaken(Compact(D), x)
    PROVE  /\ Compact(D \union {x}) = File(Compact(D), x)
           /\ x \in Compact(D \union {x}) /\ \A z \in D : ~Overtakes(z, x)
<1>1. \A u \in w : u \in Op
  BY OpsOfWorld
<1>2. ASSUME NEW z \in D, Overtakes(z, x) PROVE FALSE
  <2>1. PICK m \in Compact(D) : m = z \/ Overtakes(m, z)
    BY HistorySpeaks
  <2>2. m \in w
    BY <2>1 DEF Compact
  <2>3. Overtakes(m, x)
    BY <1>1, <1>2, <2>1, <2>2, OvertakesIsStrict
  <2>4. ~After(x, m)
    BY <1>1, <2>2, <2>3, OvertakesIsStrict DEF Overtakes
  <2> QED BY <2>1, <2>3, <2>4 DEF Overtaken, Overtakes
<1>3. ~Overtakes(x, x)
  BY <1>1, OvertakesIsStrict
<1>4. x \in Compact(D \union {x})
  BY <1>2, <1>3 DEF Compact
<1>5. ASSUME NEW z PROVE z \in Compact(D \union {x}) <=> z \in File(Compact(D), x)
  BY <1>2, <1>3 DEF Compact, File, Retire
<1> QED BY <1>2, <1>4, <1>5

(* Compacting what was compacted before, with more, is compacting all of it. *)
LEMMA CompactAgain ==
    ASSUME NEW w, Sane(w), NEW D, D \subseteq w, NEW F, F \subseteq w
    PROVE  Merge(Compact(D), F) = Compact(D \union F)
<1>1. \A u \in w : u \in Op
  BY OpsOfWorld
<1>2. ASSUME NEW z \in Compact(D \union F) PROVE z \in Merge(Compact(D), F)
  BY DEF Compact, Merge
<1>3. ASSUME NEW z \in Merge(Compact(D), F) PROVE z \in Compact(D \union F)
  <2>1. z \in D \union F /\ z \in w /\ \A u \in Compact(D) \union F : ~Overtakes(u, z)
    BY DEF Compact, Merge
  <2>2. ASSUME NEW u \in D, Overtakes(u, z) PROVE FALSE
    <3>1. PICK m \in Compact(D) : m = u \/ Overtakes(m, u)
      BY HistorySpeaks
    <3>2. m \in w
      BY <3>1 DEF Compact
    <3>3. Overtakes(m, z)
      BY <1>1, <2>1, <2>2, <3>1, <3>2, OvertakesIsStrict
    <3> QED BY <2>1, <3>1, <3>3
  <2> QED BY <2>1, <2>2 DEF Compact
<1> QED BY <1>2, <1>3

(* One last word a cell. *)
LEMMA OneWordACell ==
    ASSUME NEW w, Sane(w), NEW D, D \subseteq w, NEW x \in Compact(D), NEW y \in Compact(D),
           x.row = y.row, x.col = y.col
    PROVE  x = y
<1>1. x \in w /\ y \in w /\ ~Overtakes(x, y) /\ ~Overtakes(y, x)
  BY DEF Compact
<1>2. SpeaksFor(x, y) /\ SpeaksFor(y, x)
  BY DEF SpeaksFor
<1> QED BY <1>1, <1>2, OpsOfWorld DEF Overtakes

----------------------------------------------------------------------------
(* The rows beside the log. *)

RowsType == [Row -> {Absent} \union [Col -> Val]]

(* A row is as the log has it, cell by cell. *)
ShownAt(log, shown, r) ==
    /\ Cells(log, r) = {} => shown = Absent
    /\ \A x \in Cells(log, r) : Writable(x) => shown # Absent /\ shown[x.col] = x.val
    /\ shown # Absent => \A c \in Col : (\A x \in Cells(log, r) : x.col # c) => shown[c] = Default

LEMMA ShowsByRow ==
    ASSUME NEW s
    PROVE  Shows(s) <=> \A r \in Row : ShownAt(s.log, s.rows[r], r)
BY DEF Shows, ShownAt

(* Filing a cell takes its older words and nothing else of its row. *)
LEMMA FiledCell ==
    ASSUME NEW log, log \subseteq Op, NEW x \in Op, x.col # Tomb, ~Overtaken(log, x), NEW r
    PROVE  /\ r # x.row => Cells(File(log, x), r) = Cells(log, r)
           /\ r = x.row => \A y : y \in Cells(File(log, x), r) <=>
                                    y = x \/ (y \in Cells(log, r) /\ y.col # x.col)
<1>1. ~Overtakes(x, x)
  BY OvertakesIsStrict
<1>2. ASSUME NEW y
      PROVE  y \in Cells(File(log, x), r) <=>
                y.row = r /\ y.col # Tomb /\ (y = x \/ (y \in log /\ (y.row = x.row => y.col # x.col)))
  <2>1. CASE y = x
    BY <1>1, <2>1 DEF Cells, File, Retire
  <2>2. CASE y # x
    <3>1. y \in log /\ y.row = x.row /\ y.col = x.col => Overtakes(x, y)
      BY DEF Overtaken, SpeaksFor, Overtakes
    <3>2. Overtakes(x, y) => y.row = x.row /\ y.col = x.col
      BY DEF Overtakes, SpeaksFor
    <3> QED BY <2>2, <3>1, <3>2 DEF Cells, File, Retire
  <2> QED BY <2>1, <2>2
<1>3. r # x.row => Cells(File(log, x), r) = Cells(log, r)
  <2>1. ASSUME r # x.row, NEW y PROVE y \in Cells(File(log, x), r) <=> y \in Cells(log, r)
    BY <1>2, <2>1 DEF Cells
  <2> QED BY <2>1
<1>4. ASSUME r = x.row, NEW y
      PROVE  y \in Cells(File(log, x), r) <=>
                y = x \/ (y \in Cells(log, r) /\ y.col # x.col)
  <2>1. y = x => y.row = r /\ y.col # Tomb
    BY <1>4
  <2>2. y \in Cells(log, r) <=> y \in log /\ y.row = r /\ y.col # Tomb
    BY <1>4 DEF Cells
  <2> QED BY <1>2, <1>4, <2>1, <2>2
<1> QED BY <1>3, <1>4

(* A cell that is filed and not written, its column unknown or its value refused,
   leaves the row as the log has it. *)
LEMMA ShownUnwritten ==
    ASSUME NEW log, log \subseteq Op, NEW x \in Op, x.col # Tomb, ~Overtaken(log, x),
           ~Writable(x), NEW r, NEW shown, ShownAt(log, shown, r)
    PROVE  ShownAt(File(log, x), shown, r)
<1> DEFINE filed == Cells(File(log, x), r)
<1>0. /\ r # x.row => filed = Cells(log, r)
      /\ r = x.row => \A y : y \in filed <=>
                               y = x \/ (y \in Cells(log, r) /\ y.col # x.col)
  BY FiledCell
<1>1. CASE r # x.row
  BY <1>0, <1>1 DEF ShownAt
<1>2. CASE r = x.row
  <2>1. \A y : y \in Cells(File(log, x), r) <=>
                  y = x \/ (y \in Cells(log, r) /\ y.col # x.col)
    BY <1>0, <1>2
  <2>2. Cells(File(log, x), r) # {}
    BY <2>1
  <2>3. ASSUME NEW y \in Cells(File(log, x), r), Writable(y)
        PROVE  shown # Absent /\ shown[y.col] = y.val
    BY <2>1, <2>3 DEF ShownAt
  <2>4. ASSUME shown # Absent, NEW c \in Col, \A y \in Cells(File(log, x), r) : y.col # c
        PROVE  shown[c] = Default
    BY <2>1, <2>4 DEF ShownAt
  <2> QED BY <2>2, <2>3, <2>4 DEF ShownAt
<1> QED BY <1>1, <1>2

(* What put leaves of a row is a row. *)
LEMMA PutIsRows ==
    ASSUME NEW rows \in RowsType, NEW x \in Op, x.col \in Known, x.val \in Val
    PROVE  /\ Put(rows, x) \in RowsType
           /\ \A r \in Row : r # x.row => Put(rows, x)[r] = rows[r]
           /\ Writable(x) =>
                LET base == IF rows[x.row] = Absent THEN Blank ELSE rows[x.row]
                IN  /\ base \in [Col -> Val]
                    /\ Put(rows, x)[x.row] = [base EXCEPT ![x.col] = x.val]
           /\ ~Writable(x) => Put(rows, x) = rows
<1> DEFINE base == IF rows[x.row] = Absent THEN Blank ELSE rows[x.row]
           new == [base EXCEPT ![x.col] = x.val]
<1>1. x.row \in Row /\ x.col \in Col
  BY ApplyAssumption DEF Op
<1>2. rows[x.row] \in {Absent} \union [Col -> Val]
  BY <1>1 DEF RowsType
<1>3. Blank \in [Col -> Val]
  BY OpsAssumption DEF Blank
<1>4. base \in [Col -> Val]
  BY <1>2, <1>3
<1>5. new \in [Col -> Val]
  BY <1>4
<1>6. ~Writable(x) => Put(rows, x) = rows
  BY DEF Writable, Put
<1>7. Writable(x) => Put(rows, x) = [rows EXCEPT ![x.row] = new]
  BY DEF Writable, Put
<1> HIDE DEF new
<1>8. [rows EXCEPT ![x.row] = new] \in RowsType
  BY <1>5 DEF RowsType
<1>9. /\ [rows EXCEPT ![x.row] = new][x.row] = new
      /\ \A r \in Row : r # x.row => [rows EXCEPT ![x.row] = new][r] = rows[r]
  BY <1>1 DEF RowsType
<1> QED BY <1>4, <1>6, <1>7, <1>8, <1>9 DEF new

(* A cell that is written and filed. *)
LEMMA ShownPut ==
    ASSUME NEW log, log \subseteq Op, NEW x \in Op, x.col \in Known, x.val \in Val,
           ~Overtaken(log, x), NEW rows \in RowsType, NEW r \in Row, ShownAt(log, rows[r], r)
    PROVE  ShownAt(File(log, x), Put(rows, x)[r], r)
<1>1. x.row \in Row /\ x.col \in Col /\ x.col # Tomb
  BY ApplyAssumption, OpsAssumption DEF Op
<1>2. CASE r # x.row
  <2>1. \A q \in Row : q # x.row => Put(rows, x)[q] = rows[q]
    BY PutIsRows
  <2>2. Cells(File(log, x), r) = Cells(log, r)
    BY <1>1, <1>2, FiledCell
  <2> QED BY <1>2, <2>1, <2>2 DEF ShownAt
<1>3. CASE ~Writable(x)
  <2>1. Put(rows, x) = rows
    BY <1>3, PutIsRows
  <2> QED BY <1>1, <1>3, <2>1, ShownUnwritten
<1>4. CASE r = x.row /\ Writable(x)
  <2> DEFINE base == IF rows[x.row] = Absent THEN Blank ELSE rows[x.row]
             new == Put(rows, x)[r]
  <2>1. base \in [Col -> Val] /\ new = [base EXCEPT ![x.col] = x.val]
    BY <1>4, PutIsRows
  <2> HIDE DEF new
  <2>2. rows[r] # Absent => base = rows[r]
    BY <1>4
  <2>3. rows[r] = Absent => \A c \in Col : base[c] = Default
    BY <1>4 DEF Blank
  <2> HIDE DEF base
  <2>4. new # Absent /\ new[x.col] = x.val /\ \A c \in Col : c # x.col => new[c] = base[c]
    BY <1>1, <2>1, OpsAssumption
  <2>5. \A y : y \in Cells(File(log, x), r) <=>
                  y = x \/ (y \in Cells(log, r) /\ y.col # x.col)
    <3>1. r = x.row => \A y : y \in Cells(File(log, x), r) <=>
                                 y = x \/ (y \in Cells(log, r) /\ y.col # x.col)
      BY <1>1, FiledCell
    <3> QED BY <1>4, <3>1
  <2>6. Cells(File(log, x), r) # {}
    BY <2>5
  <2>7. ASSUME NEW y \in Cells(File(log, x), r), Writable(y)
        PROVE  new[y.col] = y.val
    <3>1. CASE y = x
      BY <3>1, <2>4
    <3>2. CASE y # x
      <4>1. y \in Cells(log, r) /\ y.col # x.col
        BY <2>5, <3>2
      <4>2. rows[r] # Absent /\ rows[r][y.col] = y.val
        BY <2>7, <4>1 DEF ShownAt
      <4>3. y.col \in Col
        BY <2>7, ApplyAssumption DEF Writable
      <4> QED BY <2>2, <2>4, <4>1, <4>2, <4>3
    <3> QED BY <3>1, <3>2
  <2>8. ASSUME NEW c \in Col, \A y \in Cells(File(log, x), r) : y.col # c
        PROVE  new[c] = Default
    <3>1. c # x.col /\ \A y \in Cells(log, r) : y.col # c
      BY <2>5, <2>8
    <3>2. new[c] = base[c]
      BY <2>4, <3>1
    <3>3. rows[r] # Absent => rows[r][c] = Default
      BY <3>1 DEF ShownAt
    <3> QED BY <2>2, <2>3, <3>2, <3>3
  <2>9. ShownAt(File(log, x), new, r)
    BY <2>4, <2>6, <2>7, <2>8 DEF ShownAt
  <2> QED BY <2>9 DEF new
<1> QED BY <1>2, <1>3, <1>4

(* A tombstone that is filed leaves of its row the cells written after it. *)
LEMMA FiledTomb ==
    ASSUME NEW w, Sane(w), NEW D, D \subseteq w, NEW x \in w, x.col = Tomb, NEW r
    PROVE  /\ r # x.row => Cells(File(Compact(D), x), r) = Cells(Compact(D), r)
           /\ r = x.row => Cells(File(Compact(D), x), r) =
                              {y \in Cells(Compact(D), r) : After(y, x)}
<1> DEFINE log == Compact(D)
<1>1. log \subseteq w
  BY DEF Compact
<1>2. ASSUME NEW y
      PROVE  y \in Cells(File(log, x), r) <=> y \in Cells(log, r) /\ ~Overtakes(x, y)
  BY DEF Cells, File, Retire
<1>3. ASSUME r # x.row, NEW y \in Cells(log, r) PROVE ~Overtakes(x, y)
  BY <1>3 DEF Cells, Overtakes, SpeaksFor
<1>4. ASSUME r = x.row, NEW y \in Cells(log, r) PROVE ~Overtakes(x, y) <=> After(y, x)
  <2>1. y \in w /\ y # x /\ SpeaksFor(x, y)
    BY <1>1, <1>4 DEF Cells, SpeaksFor
  <2>2. (After(x, y) \/ After(y, x)) /\ ~(After(x, y) /\ After(y, x))
    BY <2>1, OpsOfWorld
  <2> QED BY <2>1, <2>2 DEF Overtakes
<1>5. ASSUME r # x.row PROVE Cells(File(log, x), r) = Cells(log, r)
  <2> HIDE DEF log
  <2> QED BY <1>2, <1>3, <1>5
<1>6. ASSUME r = x.row
      PROVE  Cells(File(log, x), r) = {y \in Cells(log, r) : After(y, x)}
  <2> HIDE DEF log
  <2> QED BY <1>2, <1>4, <1>6
<1> QED BY <1>5, <1>6

(* A deletion, with the cells newer than it put back. *)
LEMMA ShownBuried ==
    ASSUME NEW w, Sane(w), NEW D, D \subseteq w, NEW x \in w, x.col = Tomb,
           NEW rows \in RowsType, \A r \in Row : ShownAt(Compact(D), rows[r], r)
    PROVE  /\ Bury(rows, Compact(D), x) \in RowsType
           /\ \A r \in Row : ShownAt(File(Compact(D), x), Bury(rows, Compact(D), x)[r], r)
<1> DEFINE log == Compact(D)
           newer == {y \in Cells(log, x.row) : After(y, x) /\ Writable(y)}
           said == [c \in Col |-> IF \E y \in newer : y.col = c
                                  THEN (CHOOSE y \in newer : y.col = c).val
                                  ELSE Default]
           new == IF newer = {} THEN Absent ELSE said
<1>1. log \subseteq w
  BY DEF Compact
<1>2. Bury(rows, log, x) = [rows EXCEPT ![x.row] = new]
  BY DEF Bury, Writable
<1>3. x.row \in Row
  BY OpsOfWorld DEF Op
<1>4. \A y \in newer : y \in log /\ y.row = x.row /\ y.col \in Col /\ y.val \in Val
  BY <1>1, OpsAssumption, ApplyAssumption DEF Cells, Writable, Sane
<1>5. \A y \in newer : said[y.col] = y.val
  <2> SUFFICES ASSUME NEW y \in newer PROVE said[y.col] = y.val
    OBVIOUS
  <2> DEFINE z == CHOOSE z \in newer : z.col = y.col
  <2>1. y.col \in Col
    BY <1>4
  <2>2. z \in newer /\ z.col = y.col
    OBVIOUS
  <2>3. said[y.col] = z.val
    BY <2>1
  <2> HIDE DEF z, newer, said
  <2>4. z \in Compact(D) /\ y \in Compact(D) /\ z.row = y.row
    BY <1>4, <2>2
  <2>5. z = y
    BY <2>2, <2>4, OneWordACell
  <2> QED BY <2>3, <2>5
<1>6. said \in [Col -> Val]
  <2> HIDE DEF newer
  <2>1. ASSUME NEW c \in Col PROVE (IF \E y \in newer : y.col = c
                                    THEN (CHOOSE y \in newer : y.col = c).val
                                    ELSE Default) \in Val
    BY <1>4, OpsAssumption
  <2> QED BY <2>1
<1>7. ASSUME NEW c \in Col, \A y \in newer : y.col # c PROVE said[c] = Default
  BY <1>7
<1> HIDE DEF said
<1>8. new \in {Absent} \union [Col -> Val] /\ (new # Absent => newer # {} /\ new = said)
      /\ (newer = {} => new = Absent) /\ (newer # {} => new # Absent /\ new = said)
  BY <1>6, OpsAssumption
<1> HIDE DEF new
<1>9. Bury(rows, log, x) \in RowsType
  BY <1>2, <1>8 DEF RowsType
<1>10. ASSUME NEW r \in Row, r # x.row
      PROVE  ShownAt(File(log, x), Bury(rows, log, x)[r], r)
  <2>1. Bury(rows, log, x)[r] = rows[r]
    BY <1>2, <1>10 DEF RowsType
  <2>2. Cells(File(log, x), r) = Cells(log, r)
    BY <1>10, FiledTomb
  <2>3. ShownAt(File(log, x), rows[r], r)
    BY <2>2 DEF ShownAt
  <2> QED BY <2>1, <2>3
<1>11. ASSUME NEW r \in Row, r = x.row
      PROVE  ShownAt(File(log, x), Bury(rows, log, x)[r], r)
  <2>1. Bury(rows, log, x)[r] = new
    BY <1>2, <1>3, <1>11 DEF RowsType
  <2>2. Cells(File(log, x), r) = {y \in Cells(log, r) : After(y, x)}
    BY <1>11, FiledTomb
  <2>3. newer = {y \in Cells(File(log, x), r) : Writable(y)}
    BY <1>11, <2>2
  <2> DEFINE cells == Cells(File(log, x), r)
  <2> HIDE DEF newer, log, cells
  <2>4. cells = {} => new = Absent
    BY <1>8, <2>3 DEF cells
  <2>5. \A y \in cells : Writable(y) => new # Absent /\ new[y.col] = y.val
    BY <1>5, <1>8, <2>3 DEF cells
  <2>6. new # Absent => \A c \in Col : (\A y \in cells : y.col # c) => new[c] = Default
    BY <1>7, <1>8, <2>3 DEF cells
  <2>7. ShownAt(File(log, x), new, r)
    BY <2>4, <2>5, <2>6 DEF ShownAt, cells
  <2> QED BY <2>1, <2>7 DEF log
<1> QED BY <1>9, <1>10, <1>11

----------------------------------------------------------------------------
(* The loop, an op at a time.  T is what was taken before the frame F, and the
   rest of F is still to come. *)

LEMMA WalkedOneMore ==
    ASSUME NEW w, Sane(w), NEW me, NEW old, NEW past, past \subseteq w, NEW x \in w, x \notin past,
           \A d \in past : Before(d, x)
    PROVE  LET news == x \notin old \/ \E y \in past : Overtakes(y, x)
           IN  /\ news => Walked(me, old, past \union {x}) =
                            Walked(me, old, past) \union ({x.origin} \ {me})
               /\ ~news => Walked(me, old, past \union {x}) = Walked(me, old, past)
<1> DEFINE more == past \union {x}
           News(z, ops) == z \notin old \/ \E y \in ops : Before(y, z) /\ Overtakes(y, z)
<1>1. \A z \in past : ~Before(x, z)
  BY OpsOfWorld
<1>2. ~Before(x, x) /\ x.origin \in Device
  BY OpsOfWorld DEF Op
<1>3. \A z \in past : News(z, more) <=> News(z, past)
  BY <1>1
<1>4. News(x, more) <=> x \notin old \/ \E y \in past : Overtakes(y, x)
  BY <1>2
<1>5. \A ops : Walked(me, old, ops) = {o \in Device \ {me} : \E z \in ops : z.origin = o /\ News(z, ops)}
  BY DEF Walked
<1> HIDE DEF News
<1>6. \A o : o \in Walked(me, old, more) <=>
                o \in Walked(me, old, past) \/ (o # me /\ o = x.origin /\ News(x, more))
  <2> SUFFICES ASSUME NEW o
               PROVE  o \in Walked(me, old, more) <=>
                        o \in Walked(me, old, past) \/ (o # me /\ o = x.origin /\ News(x, more))
    OBVIOUS
  <2>1. o \in Walked(me, old, more) <=>
            o \in Device \ {me} /\ \E z \in more : z.origin = o /\ News(z, more)
    BY <1>5
  <2>2. o \in Walked(me, old, past) <=>
            o \in Device \ {me} /\ \E z \in past : z.origin = o /\ News(z, past)
    BY <1>5
  <2>3. (\E z \in more : z.origin = o /\ News(z, more)) <=>
            (\E z \in past : z.origin = o /\ News(z, past)) \/ (x.origin = o /\ News(x, more))
    BY <1>3
  <2> QED BY <1>2, <2>1, <2>2, <2>3
<1> QED BY <1>4, <1>6

LEMMA ClockOneMore ==
    ASSUME NEW old, NEW clock \in Nat, NEW past, past \subseteq Op, NEW x \in Op,
           NEW t \in Nat, ClockAfter(old, clock, past, t), x \in old => x.hlc <= clock
    PROVE  /\ ClockAfter(old, clock, past \union {x}, IF x.hlc > t THEN x.hlc ELSE t)
           /\ x \in old => ClockAfter(old, clock, past \union {x}, t)
<1> DEFINE seen == {clock} \union {z.hlc : z \in past \ old}
           more == {clock} \union {z.hlc : z \in (past \union {x}) \ old}
           top == IF x.hlc > t THEN x.hlc ELSE t
<1>1. t \in seen /\ \A u \in seen : u <= t
  BY DEF ClockAfter
<1>2. seen \subseteq Nat /\ x.hlc \in Nat
  BY DEF Op
<1>3. x \in old => more = seen
  OBVIOUS
<1>4. x \notin old => more = seen \union {x.hlc}
  OBVIOUS
<1>5. clock \in seen
  OBVIOUS
<1> HIDE DEF seen, more
<1>6. x \in old => top = t
  BY <1>1, <1>2, <1>5
<1>7. top \in more /\ \A u \in more : u <= top
  <2>1. CASE x \in old
    BY <1>1, <1>3, <1>6, <2>1
  <2>2. CASE x \notin old
    <3>1. top \in more
      BY <1>1, <1>4, <2>2
    <3>2. t <= top /\ x.hlc <= top /\ top \in Nat
      BY <1>2
    <3>3. \A u \in seen : u \in Nat /\ u <= t
      BY <1>1, <1>2
    <3> HIDE DEF top
    <3>4. \A u \in seen : u <= top
      BY <3>2, <3>3
    <3> QED BY <1>4, <2>2, <3>1, <3>2, <3>4
  <2> QED BY <2>1, <2>2
<1>8. ClockAfter(old, clock, past \union {x}, top)
  <2> HIDE DEF top
  <2> QED BY <1>7 DEF ClockAfter, more
<1> QED BY <1>6, <1>8

(* What is left to say after one more op is taken. *)
LEMMA OneMoreTaken ==
    ASSUME NEW w, Sane(w), NEW T, T \subseteq w, NEW F, F \subseteq w,
           NEW rest, rest \subseteq F, NEW x \in rest,
           \A y \in rest \ {x} : Before(x, y), \A d \in F \ rest, y \in rest : Before(d, y),
           NEW clock \in Nat, \A z \in Compact(T) : z.hlc <= clock,
           NEW t \in Nat, ClockAfter(Compact(T), clock, F \ rest, t)
    PROVE  LET past == F \ rest
               now  == F \ (rest \ {x})
               log  == Compact(T \union past)
               old  == Compact(T)
           IN  /\ now = past \union {x} /\ T \union now = (T \union past) \union {x}
               /\ \A d \in now, y \in rest \ {x} : Before(d, y)
               /\ x \in log =>
                    /\ Compact((T \union past) \union {x}) = log
                    /\ Walked(Me, old, now) = Walked(Me, old, past)
                    /\ ClockAfter(old, clock, now, t)
               /\ x \notin log =>
                    /\ Walked(Me, old, now) = Walked(Me, old, past) \union ({x.origin} \ {Me})
                    /\ ClockAfter(old, clock, now, IF x.hlc > t THEN x.hlc ELSE t)
                    /\ ~Overtaken(log, x) => x \notin old
<1> DEFINE past == F \ rest
           now  == F \ (rest \ {x})
           D    == T \union past
           log  == Compact(D)
           old  == Compact(T)
<1>1. now = past \union {x} /\ T \union now = D \union {x} /\ x \in w /\ x \notin past
      /\ past \subseteq w /\ D \subseteq w
  OBVIOUS
<1>2. \A d \in now, y \in rest \ {x} : Before(d, y)
  BY <1>1
<1>3. \A d \in past : Before(d, x)
  OBVIOUS
<1>4. past \subseteq Op /\ x \in Op
  BY <1>1 DEF Sane
<1> HIDE DEF now
<1>5. ASSUME x \in log
      PROVE  /\ Compact(D \union {x}) = log
             /\ Walked(Me, old, now) = Walked(Me, old, past)
             /\ ClockAfter(old, clock, now, t)
  <2>1. x \in D /\ \A y \in D : ~Overtakes(y, x)
    BY <1>5 DEF Compact
  <2>2. x \in old
    BY <1>1, <2>1 DEF Compact
  <2>3. D \union {x} = D
    BY <2>1
  <2>4. ~(x \notin old \/ \E y \in past : Overtakes(y, x))
    BY <2>1, <2>2
  <2> HIDE DEF past, D, old
  <2>5. Walked(Me, old, past \union {x}) = Walked(Me, old, past)
    BY <1>1, <1>3, <2>4, WalkedOneMore
  <2>6. ClockAfter(old, clock, past \union {x}, t)
    BY <1>4, <2>2, ClockOneMore DEF old, past
  <2> QED BY <1>1, <2>3, <2>5, <2>6
<1>6. ASSUME x \notin log
      PROVE  /\ Walked(Me, old, now) = Walked(Me, old, past) \union ({x.origin} \ {Me})
             /\ ClockAfter(old, clock, now, IF x.hlc > t THEN x.hlc ELSE t)
             /\ ~Overtaken(log, x) => x \notin old
  <2>1. x \notin old \/ \E y \in past : Overtakes(y, x)
    BY <1>6 DEF Compact
  <2>2. ~Overtaken(log, x) => x \notin old
    <3> SUFFICES ASSUME ~Overtaken(log, x), x \in old PROVE FALSE
      OBVIOUS
    <3> HIDE DEF D
    <3>1. x \in Compact(D \union {x})
      BY <1>1, FilingIsCompacting
    <3>2. D \union {x} = D
      BY DEF D, Compact
    <3> QED BY <1>6, <3>1, <3>2
  <2> HIDE DEF past, D, old, log
  <2>3. Walked(Me, old, past \union {x}) = Walked(Me, old, past) \union ({x.origin} \ {Me})
    BY <1>1, <1>3, <2>1, WalkedOneMore
  <2>4. ClockAfter(old, clock, past \union {x}, IF x.hlc > t THEN x.hlc ELSE t)
    BY <1>4, ClockOneMore DEF old, past
  <2> QED BY <1>1, <2>2, <2>3, <2>4
<1> QED BY <1>1, <1>2, <1>5, <1>6 DEF now

----------------------------------------------------------------------------
(* The invariant, action by action. *)

LEMMA WorldIsSane ==
    ASSUME ApplyInv
    PROVE  Sane(world) /\ world \subseteq Op
BY WorldsAssumption DEF ApplyInv, Sane

LEMMA StoreFields ==
    ASSUME NEW s
    PROVE  s \in Stores <=>
             /\ s = [log |-> s.log, rows |-> s.rows, have |-> s.have, hlc |-> s.hlc]
             /\ s.log \subseteq Op /\ s.rows \in RowsType /\ s.have \in [Device -> Nat]
             /\ s.hlc \in Nat
BY DEF Stores, RowsType

(* At the turn of an op: whether the log has it, and what taking it comes to. *)
LEMMA AtItsTurn ==
    ASSUME ApplyInv, NEW x \in todo, stage = "ops", IsNext(x)
    PROVE  LET now == frame.ops \ (todo \ {x})
           IN  /\ Sane(world) /\ Done \subseteq world /\ x \in world /\ x \in Op
               /\ work.log = Compact(Done) /\ taken \union now = Done \union {x}
               /\ Filed(work.log, x) <=> x \in work.log
               /\ \A d \in now, y \in todo \ {x} : Before(d, y)
               /\ x \in work.log =>
                    /\ Compact(Done \union {x}) = work.log
                    /\ Walked(Me, store.log, now) = origins
                    /\ ClockAfter(store.log, store.hlc, now, work.hlc)
               /\ x \notin work.log =>
                    /\ Walked(Me, store.log, now) = origins \union ({x.origin} \ {Me})
                    /\ ClockAfter(store.log, store.hlc, now, ClockSeeing(x))
                    /\ ~Overtaken(work.log, x) => x \notin store.log
<1>1. Sane(world) /\ world \subseteq Op
  BY WorldIsSane
<1>2. /\ taken \subseteq world /\ frame.ops \subseteq world /\ todo \subseteq frame.ops
      /\ store.hlc \in Nat /\ work.hlc \in Nat
  BY StoreFields DEF ApplyInv, ApplyTypeOK
<1>3. /\ Done \subseteq world /\ x \in world /\ x \in Op
  BY <1>1, <1>2 DEF Done
<1>4. work.log = Compact(Done) /\ store.log = Compact(taken)
  BY DEF ApplyInv, LogIsLastWords
<1>5. Filed(work.log, x) <=> x \in work.log
  BY <1>1, <1>3, <1>4, FiledIsHeld
<1>6. \A y \in todo \ {x} : Before(x, y)
  BY DEF IsNext
<1>7. /\ \A d \in frame.ops \ todo, y \in todo : Before(d, y)
      /\ \A z \in Compact(taken) : z.hlc <= store.hlc
      /\ ClockAfter(Compact(taken), store.hlc, frame.ops \ todo, work.hlc)
      /\ origins = Walked(Me, Compact(taken), frame.ops \ todo)
  BY <1>4 DEF ApplyInv, InOrder, AsAtOnce
<1> DEFINE past == frame.ops \ todo
           now  == frame.ops \ (todo \ {x})
           log  == Compact(taken \union past)
           old  == Compact(taken)
           after == IF x.hlc > work.hlc THEN x.hlc ELSE work.hlc
<1>8. /\ now = past \union {x} /\ taken \union now = (taken \union past) \union {x}
      /\ \A d \in now, y \in todo \ {x} : Before(d, y)
      /\ x \in log =>
           /\ Compact((taken \union past) \union {x}) = log
           /\ Walked(Me, old, now) = Walked(Me, old, past)
           /\ ClockAfter(old, store.hlc, now, work.hlc)
      /\ x \notin log =>
           /\ Walked(Me, old, now) = Walked(Me, old, past) \union ({x.origin} \ {Me})
           /\ ClockAfter(old, store.hlc, now, after)
           /\ ~Overtaken(log, x) => x \notin old
  BY <1>1, <1>2, <1>6, <1>7, OneMoreTaken
<1>9. after = ClockSeeing(x) /\ taken \union past = Done /\ log = work.log /\ old = store.log
  BY <1>4 DEF ClockSeeing, Done
<1> HIDE DEF past, now, log, old, after
<1>10. origins = Walked(Me, old, past)
  BY <1>7 DEF old, past
<1> QED BY <1>1, <1>3, <1>4, <1>5, <1>8, <1>9, <1>10 DEF now

(* What every action that takes an op has to show. *)
LEMMA TakenKeeps ==
    ASSUME ApplyInv, NEW x \in todo, stage = "ops", IsNext(x),
           todo' = todo \ {x}, UNCHANGED <<world, store, frame, stage, taken>>,
           work' \in Stores, work'.have = work.have,
           work'.log = Compact(Done \union {x}), Shows(work'), kept' \in Nat,
           origins' = Walked(Me, store.log, frame.ops \ (todo \ {x})),
           ClockAfter(store.log, store.hlc, frame.ops \ (todo \ {x}), work'.hlc),
           kept' = 0 => work'.log = store.log,
           kept' > 0 => \E z \in work'.log : z \notin store.log
    PROVE  ApplyInv'
<1> DEFINE now == frame.ops \ (todo \ {x})
<1>1. /\ taken \union now = Done \union {x} /\ \A d \in now, y \in todo \ {x} : Before(d, y)
  BY AtItsTurn
<1>2. origins' \subseteq Device \ {Me}
  BY DEF Walked
<1>3. ApplyTypeOK'
  BY <1>2 DEF ApplyInv, ApplyTypeOK
<1>4. Done' = Done \union {x}
  BY <1>1 DEF Done
<1>5. LogIsLastWords'
  BY <1>4 DEF LogIsLastWords
<1>6. InOrder'
  BY <1>1 DEF ApplyInv, InOrder
<1>7. AsAtOnce'
  BY DEF AsAtOnce
<1>8. Shows(work)' /\ Shows(store)'
  BY DEF ApplyInv, Shows
<1> QED BY <1>3, <1>5, <1>6, <1>7, <1>8 DEF ApplyInv

LEMMA PassOverKeeps ==
    ASSUME ApplyInv, NEW x \in todo, PassOver(x)
    PROVE  ApplyInv'
<1>1. /\ stage = "ops" /\ IsNext(x) /\ todo' = todo \ {x} /\ Filed(work.log, x)
      /\ UNCHANGED <<world, store, frame, stage, taken>> /\ UNCHANGED <<work, origins, kept>>
  BY DEF PassOver
<1>2. x \in work.log
  BY <1>1, AtItsTurn
<1>3. /\ Compact(Done \union {x}) = work.log
      /\ Walked(Me, store.log, frame.ops \ (todo \ {x})) = origins
      /\ ClockAfter(store.log, store.hlc, frame.ops \ (todo \ {x}), work.hlc)
  BY <1>1, <1>2, AtItsTurn
<1>4. /\ work \in Stores /\ Shows(work) /\ kept \in Nat
      /\ kept = 0 => work.log = store.log
      /\ kept > 0 => \E z \in work.log : z \notin store.log
  BY DEF ApplyInv, ApplyTypeOK, AsAtOnce
<1>5. work' = work /\ origins' = origins /\ kept' = kept
  BY <1>1
<1> QED BY <1>1, <1>3, <1>4, <1>5, TakenKeeps

(* An op the log does not have, whatever becomes of it. *)
LEMMA SeenAt ==
    ASSUME ApplyInv, NEW x \in todo, Seen(x)
    PROVE  /\ stage = "ops" /\ IsNext(x) /\ todo' = todo \ {x}
           /\ UNCHANGED <<world, store, frame, stage, taken>>
           /\ x \notin work.log /\ ClockSeeing(x) \in Nat
           /\ origins' = Walked(Me, store.log, frame.ops \ (todo \ {x}))
           /\ ClockAfter(store.log, store.hlc, frame.ops \ (todo \ {x}), ClockSeeing(x))
           /\ ~Overtaken(work.log, x) => x \notin store.log
<1>1. /\ stage = "ops" /\ IsNext(x) /\ todo' = todo \ {x} /\ ~Filed(work.log, x)
      /\ UNCHANGED <<world, store, frame, stage, taken>>
      /\ origins' = IF x.origin # Me THEN origins \union {x.origin} ELSE origins
  BY DEF Seen
<1>2. x \notin work.log /\ x \in Op
  BY <1>1, AtItsTurn
<1>3. /\ Walked(Me, store.log, frame.ops \ (todo \ {x})) = origins \union ({x.origin} \ {Me})
      /\ ClockAfter(store.log, store.hlc, frame.ops \ (todo \ {x}), ClockSeeing(x))
      /\ ~Overtaken(work.log, x) => x \notin store.log
  BY <1>1, <1>2, AtItsTurn
<1>4. origins' = origins \union ({x.origin} \ {Me})
  BY <1>1
<1>5. x.hlc \in Nat /\ work.hlc \in Nat
  BY <1>2, StoreFields DEF ApplyInv, ApplyTypeOK, Op
<1>6. ClockSeeing(x) \in Nat
  BY <1>5 DEF ClockSeeing
<1> QED BY <1>1, <1>2, <1>3, <1>4, <1>6

LEMMA DropKeeps ==
    ASSUME ApplyInv, NEW x \in todo, DropOvertaken(x)
    PROVE  ApplyInv'
<1>1. /\ Seen(x) /\ Overtaken(work.log, x) /\ kept' = kept
      /\ work' = [work EXCEPT !.hlc = ClockSeeing(x)]
  BY DEF DropOvertaken
<1>2. /\ stage = "ops" /\ IsNext(x) /\ todo' = todo \ {x}
      /\ UNCHANGED <<world, store, frame, stage, taken>>
      /\ x \notin work.log /\ ClockSeeing(x) \in Nat
      /\ origins' = Walked(Me, store.log, frame.ops \ (todo \ {x}))
      /\ ClockAfter(store.log, store.hlc, frame.ops \ (todo \ {x}), ClockSeeing(x))
  BY <1>1, SeenAt
<1>3. Sane(world) /\ Done \subseteq world /\ x \in world /\ work.log = Compact(Done)
  BY <1>2, AtItsTurn
<1>4. Compact(Done \union {x}) = work.log
  BY <1>1, <1>2, <1>3, OvertakenAddsNothing
<1>5. /\ work \in Stores /\ Shows(work) /\ kept \in Nat
      /\ kept = 0 => work.log = store.log
      /\ kept > 0 => \E z \in work.log : z \notin store.log
  BY DEF ApplyInv, ApplyTypeOK, AsAtOnce
<1>6. /\ work' \in Stores /\ work'.log = work.log /\ work'.rows = work.rows
      /\ work'.have = work.have /\ work'.hlc = ClockSeeing(x)
  BY <1>1, <1>2, <1>5 DEF Stores
<1>7. Shows(work')
  BY <1>5, <1>6 DEF Shows
<1> QED BY <1>1, <1>2, <1>4, <1>5, <1>6, <1>7, TakenKeeps

(* An op that is filed: it is new to the log that was committed. *)
LEMMA FiledKeeps ==
    ASSUME ApplyInv, NEW x \in todo, Seen(x), ~Overtaken(work.log, x),
           work'.log = File(work.log, x), work'.have = work.have, work'.hlc = ClockSeeing(x),
           work'.rows \in RowsType,
           work' = [log |-> work'.log, rows |-> work'.rows, have |-> work'.have, hlc |-> work'.hlc],
           \A r \in Row : ShownAt(work'.log, work'.rows[r], r), kept' = kept + 1
    PROVE  ApplyInv'
<1>1. /\ stage = "ops" /\ IsNext(x) /\ todo' = todo \ {x}
      /\ UNCHANGED <<world, store, frame, stage, taken>>
      /\ x \notin work.log /\ ClockSeeing(x) \in Nat
      /\ origins' = Walked(Me, store.log, frame.ops \ (todo \ {x}))
      /\ ClockAfter(store.log, store.hlc, frame.ops \ (todo \ {x}), ClockSeeing(x))
      /\ x \notin store.log
  BY SeenAt
<1>2. /\ Sane(world) /\ Done \subseteq world /\ x \in world /\ x \in Op
      /\ work.log = Compact(Done)
  BY <1>1, AtItsTurn
<1>3. Compact(Done \union {x}) = File(work.log, x) /\ x \in File(work.log, x)
  <2> DEFINE D == Done
             w == world
  <2>1. Sane(w) /\ D \subseteq w /\ x \in w /\ ~Overtaken(Compact(D), x) /\ Compact(D) = work.log
    BY <1>2
  <2> HIDE DEF D, w
  <2>2. Compact(D \union {x}) = File(Compact(D), x) /\ x \in Compact(D \union {x})
    BY <2>1, FilingIsCompacting
  <2>3. Compact(D \union {x}) = File(work.log, x) /\ x \in File(work.log, x)
    BY <2>1, <2>2
  <2> QED BY <2>3 DEF D
<1>4. work \in Stores /\ kept \in Nat
  BY DEF ApplyInv, ApplyTypeOK
<1>5. work'.log \subseteq Op
  BY <1>2, <1>4, StoreFields DEF File, Retire
<1>6. work' \in Stores
  <2>1. work'.have \in [Device -> Nat] /\ work'.hlc \in Nat
    BY <1>1, <1>4, StoreFields
  <2> QED BY <1>5, <2>1 DEF Stores, RowsType
<1>7. Shows(work')
  BY DEF Shows, ShownAt
<1>8. kept' \in Nat /\ kept' > 0 /\ kept' # 0
  BY <1>4
<1> QED BY <1>1, <1>3, <1>6, <1>7, <1>8, TakenKeeps

LEMMA KeepUnknownKeeps ==
    ASSUME ApplyInv, NEW x \in todo, KeepUnknown(x)
    PROVE  ApplyInv'
<1>1. /\ Seen(x) /\ ~Overtaken(work.log, x) /\ x.col \notin Known \union {Tomb}
      /\ work' = [work EXCEPT !.hlc = ClockSeeing(x), !.log = File(@, x)] /\ kept' = kept + 1
  BY DEF KeepUnknown
<1>2. stage = "ops" /\ IsNext(x)
  BY <1>1, SeenAt
<1>3. x \in Op
  BY <1>2, AtItsTurn
<1>4. work \in Stores
  BY DEF ApplyInv, ApplyTypeOK
<1>5. /\ work'.log = File(work.log, x) /\ work'.have = work.have /\ work'.hlc = ClockSeeing(x)
      /\ work'.rows = work.rows
      /\ work' = [log |-> work'.log, rows |-> work'.rows, have |-> work'.have, hlc |-> work'.hlc]
  BY <1>1, <1>4 DEF Stores
<1>6. ASSUME NEW r \in Row PROVE ShownAt(work'.log, work'.rows[r], r)
  <2>1. ShownAt(work.log, work.rows[r], r)
    BY ShowsByRow DEF ApplyInv
  <2>2. work.log \subseteq Op /\ ~Writable(x)
    BY <1>1, <1>4, StoreFields DEF Writable
  <2> DEFINE log == work.log
             shown == work.rows[r]
  <2> HIDE DEF log, shown
  <2>3. ShownAt(log, shown, r) /\ log \subseteq Op /\ ~Overtaken(log, x) /\ x.col # Tomb
    BY <1>1, <2>1, <2>2 DEF log, shown
  <2>4. ShownAt(File(log, x), shown, r)
    BY <1>3, <2>2, <2>3, ShownUnwritten
  <2> QED BY <1>5, <2>4 DEF log, shown
<1>7. work'.rows \in RowsType
  BY <1>4, <1>5, StoreFields
<1> QED BY <1>1, <1>5, <1>6, <1>7, FiledKeeps

LEMMA WriteKeeps ==
    ASSUME ApplyInv, NEW x \in todo, Write(x)
    PROVE  ApplyInv'
<1> DEFINE rows == IF x.col = Tomb THEN Bury(work.rows, work.log, x) ELSE Put(work.rows, x)
<1>1. /\ Seen(x) /\ ~Overtaken(work.log, x) /\ x.col \in Known \union {Tomb}
      /\ work' = [work EXCEPT !.hlc = ClockSeeing(x), !.rows = rows, !.log = File(@, x)]
      /\ kept' = kept + 1
  BY DEF Write
<1> HIDE DEF rows
<1>2. stage = "ops" /\ IsNext(x)
  BY <1>1, SeenAt
<1>3. /\ Sane(world) /\ Done \subseteq world /\ x \in world /\ x \in Op
      /\ work.log = Compact(Done)
  BY <1>2, AtItsTurn
<1>4. work \in Stores
  BY DEF ApplyInv, ApplyTypeOK
<1>5. /\ work'.log = File(work.log, x) /\ work'.have = work.have /\ work'.hlc = ClockSeeing(x)
      /\ work'.rows = rows
      /\ work' = [log |-> work'.log, rows |-> work'.rows, have |-> work'.have, hlc |-> work'.hlc]
  BY <1>1, <1>4 DEF Stores
<1>6. \A r \in Row : ShownAt(work.log, work.rows[r], r)
  BY ShowsByRow DEF ApplyInv
<1>7. work.log \subseteq Op /\ work.rows \in RowsType
  BY <1>4, StoreFields
<1>8. rows \in RowsType /\ \A r \in Row : ShownAt(File(work.log, x), rows[r], r)
  <2> DEFINE log == work.log
             was == work.rows
             D == Done
             w == world
  <2>0. log = work.log /\ was = work.rows /\ D = Done /\ w = world
    OBVIOUS
  <2> HIDE DEF log, was, D, w
  <2>1. CASE x.col = Tomb
    <3>1. rows = Bury(was, log, x)
      BY <2>0, <2>1 DEF rows
    <3>2. /\ Sane(w) /\ D \subseteq w /\ x \in w /\ log = Compact(D) /\ was \in RowsType
          /\ \A r \in Row : ShownAt(Compact(D), was[r], r)
      BY <1>3, <1>6, <1>7, <2>0
    <3>3. /\ Bury(was, Compact(D), x) \in RowsType
          /\ \A r \in Row : ShownAt(File(Compact(D), x), Bury(was, Compact(D), x)[r], r)
      BY <2>1, <3>2, ShownBuried
    <3> QED BY <2>0, <3>1, <3>2, <3>3
  <2>2. CASE x.col # Tomb
    <3>1. rows = Put(was, x)
      BY <2>0, <2>2 DEF rows
    <3>2. x.col \in Known /\ x.val \in Val
      BY <1>1, <1>3, <2>2 DEF Sane
    <3>3. /\ log \subseteq Op /\ ~Overtaken(log, x) /\ was \in RowsType
          /\ \A r \in Row : ShownAt(log, was[r], r)
      BY <1>1, <1>6, <1>7, <2>0
    <3>4. \A r \in Row : ShownAt(File(log, x), Put(was, x)[r], r)
      BY <1>3, <3>2, <3>3, ShownPut
    <3>5. Put(was, x) \in RowsType
      BY <1>3, <3>2, <3>3, PutIsRows
    <3> QED BY <2>0, <3>1, <3>4, <3>5
  <2> QED BY <2>1, <2>2
<1> QED BY <1>1, <1>5, <1>8, FiledKeeps

(* The words a sender may give are words. *)
LEMMA WordsAreClocks ==
    ASSUME ApplyInv, NEW ops, ops \subseteq world, NEW held \in Words(ops)
    PROVE  held \in [Device -> Nat]
<1>1. Sane(world)
  BY WorldIsSane
<1>2. PICK M \in Nat : \A x \in world : x.seq <= M
  BY <1>1, WorldIsBounded
<1> DEFINE bound == [d \in Device |-> M]
<1>3. bound \in [Device -> Nat] /\ \A d \in Device : bound[d] = M
  OBVIOUS
<1> HIDE DEF bound
<1>4. ASSUME NEW s, s \subseteq world PROVE Reach(s) \in [Device -> Nat]
  <2>1. s \subseteq Op /\ \A x \in s : x.seq <= bound[x.origin]
    BY <1>1, <1>2, <1>3, <1>4 DEF Sane, Op
  <2>2. \A o \in Device : Reach(s)[o] \in Nat
    BY <1>3, <2>1, ReachOfOps
  <2> HIDE DEF ApplyInv
  <2>3. Reach(s) = [o \in Device |-> Reach(s)[o]]
    BY DEF Reach
  <2> QED BY <2>2, <2>3
<1>5. NoWord \in [Device -> Nat]
  BY DEF NoWord
<1>6. Reach(ops) \in [Device -> Nat] /\ Reach(world) \in [Device -> Nat]
  BY <1>4
<1> QED BY <1>5, <1>6 DEF Words

LEMMA BeginKeeps ==
    ASSUME ApplyInv, NEW ops, ops \subseteq world, NEW held \in Words(ops), Begin(ops, held)
    PROVE  ApplyInv'
<1>1. /\ stage = "idle" /\ frame' = [ops |-> ops, held |-> held] /\ todo' = ops
      /\ origins' = {} /\ kept' = 0 /\ stage' = "ops"
      /\ world' = world /\ store' = store /\ work' = work /\ taken' = taken
  BY DEF Begin
<1>2. work = store /\ frame = NoFrame /\ todo = {}
  BY <1>1 DEF ApplyInv, InOrder
<1>3. held \in [Device -> Nat]
  BY WordsAreClocks
<1>4. ApplyTypeOK'
  BY <1>1, <1>3 DEF ApplyInv, ApplyTypeOK
<1>5. Done' = taken /\ Done = taken
  BY <1>1, <1>2 DEF Done, NoFrame
<1>6. LogIsLastWords'
  BY <1>1, <1>5 DEF ApplyInv, LogIsLastWords
<1>7. InOrder'
  BY <1>1, <1>2 DEF InOrder
<1>8. AsAtOnce'
  <2>1. frame'.ops \ todo' = {}
    BY <1>1
  <2>2. store.hlc \in Nat
    BY StoreFields DEF ApplyInv, ApplyTypeOK
  <2>3. Walked(Me, store.log, {}) = {}
    BY DEF Walked
  <2>4. ClockAfter(store.log, store.hlc, {}, store.hlc)
    BY <2>2 DEF ClockAfter
  <2> QED BY <1>1, <1>2, <2>1, <2>3, <2>4 DEF AsAtOnce
<1>9. Shows(work)' /\ Shows(store)'
  BY <1>1 DEF ApplyInv, Shows
<1> QED BY <1>1, <1>4, <1>6, <1>7, <1>8, <1>9 DEF ApplyInv

LEMMA WalkKeeps ==
    ASSUME ApplyInv, Walk
    PROVE  ApplyInv'
<1> DEFINE have == [o \in Device |-> IF o \in origins THEN Advance(work.log, o, work.have[o])
                                    ELSE work.have[o]]
<1>1. /\ stage = "ops" /\ todo = {} /\ work' = [work EXCEPT !.have = have] /\ stage' = "clock"
      /\ UNCHANGED <<world, store, frame, todo, origins, kept, taken>>
  BY DEF Walk
<1>2. work \in Stores /\ work.have = store.have
  BY <1>1 DEF ApplyInv, ApplyTypeOK, InOrder
<1>3. have \in [Device -> Nat]
  <2>1. Sane(world) /\ work.log \subseteq world
    BY WorldIsSane DEF ApplyInv, ApplyTypeOK, LogIsLastWords, Compact, Done
  <2>2. PICK M \in Nat : \A x \in world : x.seq <= M
    BY <2>1, WorldIsBounded
  <2>3. \A x \in work.log : x.seq \in Nat /\ x.seq <= M
    BY <2>1, <2>2 DEF Sane, Op
  <2>4. \A o \in Device : work.have[o] \in Nat
    BY <1>2, StoreFields
  <2>5. \A o \in Device : Advance(work.log, o, work.have[o]) \in Nat
    BY <2>3, <2>4, AdvanceIsContiguous
  <2> QED BY <2>4, <2>5
<1> HIDE DEF have
<1>4. /\ work' \in Stores /\ work'.log = work.log /\ work'.rows = work.rows
      /\ work'.hlc = work.hlc /\ work'.have = have
  BY <1>1, <1>2, <1>3 DEF Stores
<1>5. ApplyTypeOK'
  BY <1>1, <1>4 DEF ApplyInv, ApplyTypeOK
<1>6. InOrder'
  BY <1>1, <1>2, <1>4 DEF ApplyInv, InOrder, have
<1>7. AsAtOnce'
  BY <1>1, <1>4 DEF ApplyInv, AsAtOnce
<1>8. Shows(work)' /\ Shows(store)'
  BY <1>1, <1>4 DEF ApplyInv, Shows
<1>9. LogIsLastWords'
  BY <1>1, <1>4 DEF ApplyInv, LogIsLastWords, Done
<1> QED BY <1>1, <1>5, <1>6, <1>7, <1>8, <1>9 DEF ApplyInv

(* Between the walk and the commit, what the transaction has made of the store is
   what the frame at once would. *)
LEMMA AtTheCommit ==
    ASSUME ApplyInv, stage = "clock"
    PROVE  /\ Sane(world) /\ frame.ops \subseteq world /\ taken \subseteq world
           /\ work.log = Compact(taken \union frame.ops)
           /\ work.log = Merge(store.log, frame.ops)
           /\ Vouch(work.have, frame.held) =
                HaveAfter(Me, store.log, store.have, frame.ops, frame.held)
           /\ ClockAfter(store.log, store.hlc, frame.ops, work.hlc)
           /\ \A x \in work.log : x.hlc <= work.hlc
           /\ store.hlc <= work.hlc
<1>1. /\ Sane(world) /\ frame.ops \subseteq world /\ taken \subseteq world /\ todo = {}
      /\ store.log = Compact(taken) /\ work.log = Compact(Done)
  BY WorldIsSane DEF ApplyInv, ApplyTypeOK, LogIsLastWords, InOrder
<1>2. frame.ops \ todo = frame.ops /\ Done = taken \union frame.ops
  BY <1>1 DEF Done
<1>3. Merge(Compact(taken), frame.ops) = Compact(taken \union frame.ops)
  BY <1>1, CompactAgain
<1>4. /\ origins = Walked(Me, store.log, frame.ops)
      /\ ClockAfter(store.log, store.hlc, frame.ops, work.hlc)
  BY <1>2 DEF ApplyInv, AsAtOnce
<1>5. work.have = [o \in Device |-> IF o \in origins THEN Advance(work.log, o, store.have[o])
                                   ELSE store.have[o]]
  BY DEF ApplyInv, InOrder
<1>6. work.log = Merge(store.log, frame.ops)
  BY <1>1, <1>2, <1>3
<1>7. Vouch(work.have, frame.held) =
        HaveAfter(Me, store.log, store.have, frame.ops, frame.held)
  BY <1>4, <1>5, <1>6 DEF Vouch, HaveAfter
<1>8. /\ store.hlc <= work.hlc /\ \A x \in frame.ops \ store.log : x.hlc <= work.hlc
      /\ store.hlc \in Nat /\ work.hlc \in Nat
  BY <1>4, StoreFields DEF ClockAfter, ApplyInv, ApplyTypeOK
<1>9. \A x \in store.log : x.hlc <= store.hlc /\ x.hlc \in Nat
  BY StoreFields DEF ApplyInv, ApplyTypeOK, Op
<1>10. ASSUME NEW x \in work.log PROVE x.hlc <= work.hlc
  <2>1. x \in store.log \/ x \in frame.ops
    BY <1>6 DEF Merge, Compact
  <2>2. x \in store.log => x.hlc <= work.hlc
    BY <1>8, <1>9
  <2> QED BY <1>8, <2>1, <2>2
<1> QED BY <1>1, <1>2, <1>4, <1>6, <1>7, <1>8, <1>10

LEMMA CommitKeeps ==
    ASSUME ApplyInv, Commit
    PROVE  ApplyInv'
<1>1. /\ stage = "clock" /\ work' = [work EXCEPT !.have = Vouch(work.have, frame.held)]
      /\ store' = work' /\ taken' = taken \union frame.ops /\ stage' = "idle"
      /\ frame' = NoFrame /\ origins' = {} /\ kept' = 0 /\ world' = world /\ todo' = todo
  BY DEF Commit
<1>2. /\ frame.ops \subseteq world /\ taken \subseteq world
      /\ work.log = Compact(taken \union frame.ops)
      /\ \A x \in work.log : x.hlc <= work.hlc
  BY <1>1, AtTheCommit
<1>3. work \in Stores /\ frame.held \in [Device -> Nat] /\ todo = {}
  BY <1>1 DEF ApplyInv, ApplyTypeOK, InOrder
<1>4. Vouch(work.have, frame.held) \in [Device -> Nat]
  <2>1. work.have \in [Device -> Nat]
    BY <1>3, StoreFields
  <2> QED BY <1>3, <2>1 DEF Vouch
<1>5. /\ work' \in Stores /\ work'.log = work.log /\ work'.rows = work.rows
      /\ work'.hlc = work.hlc /\ work.hlc \in Nat
  BY <1>1, <1>3, <1>4 DEF Stores
<1>6. NoFrame.ops = {} /\ NoFrame \in [ops : SUBSET world, held : [Device -> Nat]]
  BY DEF NoFrame, NoWord
<1>7. ApplyTypeOK'
  BY <1>1, <1>2, <1>3, <1>5, <1>6 DEF ApplyInv, ApplyTypeOK
<1>8. Done' = taken \union frame.ops
  BY <1>1, <1>6 DEF Done
<1>9. LogIsLastWords'
  BY <1>2, <1>5, <1>8 DEF LogIsLastWords
<1>10. InOrder'
  BY <1>1, <1>3, <1>6 DEF InOrder
<1>11. AsAtOnce'
  <2>1. frame'.ops \ todo' = {}
    BY <1>1, <1>6
  <2>2. Walked(Me, store'.log, {}) = {}
    BY DEF Walked
  <2>3. ClockAfter(store'.log, store'.hlc, {}, work'.hlc)
    BY <1>1, <1>5 DEF ClockAfter
  <2> QED BY <1>1, <2>1, <2>2, <2>3 DEF AsAtOnce
<1>12. Shows(work)' /\ Shows(store)'
  BY <1>1, <1>5 DEF ApplyInv, Shows
<1> QED BY <1>1, <1>2, <1>5, <1>7, <1>9, <1>10, <1>11, <1>12 DEF ApplyInv

LEMMA RollbackKeeps ==
    ASSUME ApplyInv, Rollback
    PROVE  ApplyInv'
<1>1. /\ work' = store /\ stage' = "idle" /\ frame' = NoFrame /\ todo' = {}
      /\ origins' = {} /\ kept' = 0 /\ world' = world /\ store' = store /\ taken' = taken
  BY DEF Rollback
<1>2. NoFrame.ops = {} /\ NoFrame \in [ops : SUBSET world, held : [Device -> Nat]]
  BY DEF NoFrame, NoWord
<1>3. ApplyTypeOK'
  BY <1>1, <1>2 DEF ApplyInv, ApplyTypeOK
<1>4. LogIsLastWords'
  BY <1>1, <1>2 DEF ApplyInv, LogIsLastWords, Done
<1>5. InOrder'
  BY <1>1, <1>2 DEF InOrder
<1>6. AsAtOnce'
  <2>1. frame'.ops \ todo' = {}
    BY <1>1, <1>2
  <2>2. store.hlc \in Nat
    BY StoreFields DEF ApplyInv, ApplyTypeOK
  <2>3. Walked(Me, store.log, {}) = {}
    BY DEF Walked
  <2>4. ClockAfter(store.log, store.hlc, {}, store.hlc)
    BY <2>2 DEF ClockAfter
  <2> QED BY <1>1, <2>1, <2>3, <2>4 DEF AsAtOnce
<1>7. Shows(work)' /\ Shows(store)'
  BY <1>1 DEF ApplyInv, Shows
<1> QED BY <1>1, <1>3, <1>4, <1>5, <1>6, <1>7 DEF ApplyInv

----------------------------------------------------------------------------
(* The theorems. *)

LEMMA InitApplyInv ==
    ASSUME ApplyInit
    PROVE  ApplyInv
<1> DEFINE empty == [log |-> {}, rows |-> [r \in Row |-> Absent], have |-> NoWord, hlc |-> 0]
<1>1. /\ world \in Worlds /\ store = empty /\ work = empty /\ frame = NoFrame /\ todo = {}
      /\ origins = {} /\ kept = 0 /\ stage = "idle" /\ taken = {}
  BY DEF ApplyInit
<1>2. empty \in Stores /\ empty.log = {} /\ empty.hlc = 0 /\ empty.rows = [r \in Row |-> Absent]
  BY DEF Stores, NoWord
<1>3. NoFrame.ops = {} /\ NoFrame \in [ops : SUBSET world, held : [Device -> Nat]]
  BY DEF NoFrame, NoWord
<1> HIDE DEF empty
<1>4. ApplyTypeOK
  BY <1>1, <1>2, <1>3, WorldsAssumption DEF ApplyTypeOK
<1>5. LogIsLastWords /\ store.log = Compact(taken)
  BY <1>1, <1>2, <1>3 DEF LogIsLastWords, Done, Compact
<1>6. InOrder
  BY <1>1, <1>3 DEF InOrder
<1>7. AsAtOnce
  BY <1>1, <1>2, <1>3 DEF AsAtOnce, Walked, ClockAfter
<1>8. Shows(work) /\ Shows(store)
  BY <1>1, <1>2 DEF Shows, Cells
<1> QED BY <1>1, <1>2, <1>4, <1>5, <1>6, <1>7, <1>8 DEF ApplyInv

LEMMA NextApplyInv ==
    ASSUME ApplyInv, [ApplyNext]_applyVars
    PROVE  ApplyInv'
<1>1. ASSUME NEW ops \in SUBSET world, NEW held \in Words(ops), Begin(ops, held)
      PROVE  ApplyInv'
  BY <1>1, BeginKeeps
<1>2. ASSUME NEW x \in todo, PassOver(x) \/ DropOvertaken(x) \/ KeepUnknown(x) \/ Write(x)
      PROVE  ApplyInv'
  BY <1>2, PassOverKeeps, DropKeeps, KeepUnknownKeeps, WriteKeeps
<1>3. CASE Walk
  BY <1>3, WalkKeeps
<1>4. CASE Commit
  BY <1>4, CommitKeeps
<1>5. CASE Rollback
  BY <1>5, RollbackKeeps
<1>6. CASE UNCHANGED applyVars
  BY <1>6 DEF applyVars, ApplyInv, ApplyTypeOK, LogIsLastWords, Done, Shows, InOrder, AsAtOnce
<1> QED BY <1>1, <1>2, <1>3, <1>4, <1>5, <1>6 DEF ApplyNext

LEMMA ApplyInvariant == ApplySpec => []ApplyInv
<1>1. ApplyInit => ApplyInv
  BY InitApplyInv
<1>2. ApplyInv /\ [ApplyNext]_applyVars => ApplyInv'
  BY NextApplyInv
<1> QED BY <1>1, <1>2, PTL DEF ApplySpec

(* Every variable of apply keeps its type, both copies of the store with it. *)
THEOREM ApplyTypes == ApplySpec => []ApplyTypeOK
<1>1. ApplyInv => ApplyTypeOK
  BY DEF ApplyInv
<1> QED BY <1>1, ApplyInvariant, PTL

(* Whatever frames came, in whatever order and however often, the log is the last
   words of everything taken, in the middle of a frame too. *)
THEOREM ApplyLogIsLastWords == ApplySpec => []LogIsLastWords
<1>1. ApplyInv => LogIsLastWords
  BY DEF ApplyInv
<1> QED BY <1>1, ApplyInvariant, PTL

(* The rows say what the log says, after every op: a refused or unknown cell is
   kept and not shown, and a deletion leaves what was written after it. *)
THEOREM ApplyRowsFollowLog == ApplySpec => []RowsFollowLog
<1>1. ApplyInv => RowsFollowLog
  BY DEF ApplyInv, RowsFollowLog
<1> QED BY <1>1, ApplyInvariant, PTL

(* Taking a frame op by op commits what one merge of it would, log, vector clock
   and hybrid clock, and counts something kept exactly when the log moved. *)
THEOREM ApplyCommitIsMerge == ApplySpec => CommitIsMerge
<1> DEFINE Merges ==
      stage = "clock" /\ stage' = "idle" =>
         /\ store' # store =>
              /\ store'.log = Merge(store.log, frame.ops)
              /\ store'.have = HaveAfter(Me, store.log, store.have, frame.ops, frame.held)
              /\ ClockAfter(store.log, store.hlc, frame.ops, store'.hlc)
         /\ store'.log # store.log => kept > 0
         /\ kept > 0 => work.log # store.log
<1>1. ASSUME ApplyInv, [ApplyNext]_applyVars PROVE Merges
  <2>1. kept \in Nat /\ (kept = 0 => work.log = store.log) /\ (kept > 0 => work.log # store.log)
    BY <1>1 DEF ApplyInv, ApplyTypeOK, AsAtOnce
  <2>2. CASE Commit
    <3>1. /\ stage = "clock" /\ work' = [work EXCEPT !.have = Vouch(work.have, frame.held)]
          /\ store' = work'
      BY <2>2 DEF Commit
    <3>2. work \in Stores
      BY <1>1 DEF ApplyInv, ApplyTypeOK
    <3>3. /\ store'.log = work.log /\ store'.hlc = work.hlc
          /\ store'.have = Vouch(work.have, frame.held)
      BY <3>1, <3>2 DEF Stores
    <3>4. /\ work.log = Merge(store.log, frame.ops)
          /\ Vouch(work.have, frame.held) =
               HaveAfter(Me, store.log, store.have, frame.ops, frame.held)
          /\ ClockAfter(store.log, store.hlc, frame.ops, work.hlc)
      BY <1>1, <3>1, AtTheCommit
    <3>5. store'.log # store.log => kept > 0
      BY <2>1, <3>3
    <3> QED BY <2>1, <3>3, <3>4, <3>5
  <2>3. CASE store' = store
    BY <2>1, <2>3
  <2>4. Commit \/ store' = store
    BY <1>1 DEF ApplyNext, applyVars, Begin, PassOver, DropOvertaken, KeepUnknown, Write, Seen, Walk, Rollback
  <2> QED BY <2>2, <2>3, <2>4
<1> QED BY <1>1, ApplyInvariant, PTL DEF ApplySpec, CommitIsMerge

(* No clock goes back, a peer's word never moves this device's own sequence, and
   the hybrid clock stays at or above every op the log holds. *)
THEOREM ApplyClocksKeepUp == ApplySpec => ClocksKeepUp
<1> DEFINE KeepUp ==
       /\ \A o \in Device : store'.have[o] >= store.have[o]
       /\ store'.have[Me] = store.have[Me]
       /\ store'.hlc >= store.hlc
       /\ \A x \in store'.log : x.hlc <= store'.hlc
<1>1. ASSUME ApplyInv, [ApplyNext]_applyVars PROVE KeepUp
  <2>1. \A x \in store'.log : x.hlc <= store'.hlc
    BY <1>1, NextApplyInv DEF ApplyInv
  <2>2. /\ store.have \in [Device -> Nat] /\ store.hlc \in Nat /\ work.hlc \in Nat
        /\ frame.held \in [Device -> Nat] /\ store.log \subseteq Op
    BY <1>1, StoreFields DEF ApplyInv, ApplyTypeOK
  <2>3. CASE Commit
    <3>1. /\ stage = "clock" /\ work' = [work EXCEPT !.have = Vouch(work.have, frame.held)]
          /\ store' = work'
      BY <2>3 DEF Commit
    <3>2. work \in Stores
      BY <1>1 DEF ApplyInv, ApplyTypeOK
    <3>3. /\ Sane(world) /\ frame.ops \subseteq world /\ taken \subseteq world
          /\ Vouch(work.have, frame.held) =
               HaveAfter(Me, store.log, store.have, frame.ops, frame.held)
          /\ store.hlc <= work.hlc
      BY <1>1, <3>1, AtTheCommit
    <3>4. /\ store'.hlc = work.hlc
          /\ store'.have = HaveAfter(Me, store.log, store.have, frame.ops, frame.held)
      BY <3>1, <3>2, <3>3 DEF Stores
    <3>5. PICK M \in Nat : \A x \in world : x.seq <= M
      BY <3>3, WorldIsBounded
    <3> DEFINE bound == [d \in Device |-> M]
    <3>6. bound \in [Device -> Nat] /\ \A d \in Device : bound[d] = M
      OBVIOUS
    <3> HIDE DEF bound
    <3>7. /\ frame.ops \subseteq Op /\ Me \in Device
          /\ \A x \in store.log \union frame.ops : x.seq <= bound[x.origin]
      <4>1. store.log \subseteq world
        BY <1>1, <3>3 DEF ApplyInv, Compact
      <4> QED BY <3>3, <3>5, <3>6, <4>1, ApplyAssumption DEF Sane, Op
    <3> DEFINE after == HaveAfter(Me, store.log, store.have, frame.ops, frame.held)
    <3>8. ASSUME NEW o \in Device
          PROVE  after[o] >= store.have[o] /\ (o = Me => after[o] = store.have[o])
      <4>1. MovesOnGrounds(Me, store.log, store.have, frame.ops, frame.held, o)
        BY <2>2, <3>6, <3>7, HaveAfterApply
      <4> QED BY <4>1 DEF MovesOnGrounds
    <3> HIDE DEF after
    <3>9. store'.have = after
      BY <3>4 DEF after
    <3> QED BY <2>1, <2>2, <3>3, <3>4, <3>7, <3>8, <3>9
  <2>4. CASE store' = store
    BY <2>1, <2>2, <2>4
  <2>5. Commit \/ store' = store
    BY <1>1 DEF ApplyNext, applyVars, Begin, PassOver, DropOvertaken, KeepUnknown, Write, Seen, Walk, Rollback
  <2> QED BY <2>3, <2>4, <2>5
<1> QED BY <1>1, ApplyInvariant, PTL DEF ApplySpec, ClocksKeepUp
=============================================================================
