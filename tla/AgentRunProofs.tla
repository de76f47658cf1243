--------------------------- MODULE AgentRunProofs ---------------------------
(***************************************************************************)
(* What a chat of the agent keeps through every stop, deletion, walk and    *)
(* crash: its types, that a prepared edit is made once and with its answer, *)
(* that nothing is done ahead of its turn or without its permission, and    *)
(* that a request leaves with every round answered.                         *)
(***************************************************************************)
EXTENDS AgentRun, FiniteSetTheorems, SequenceTheorems, WellFoundedInduction, TLAPS

----------------------------------------------------------------------------
(* The operators: the least and the greatest of some numbers, an ORDER BY,  *)
(* the newest run and its newest round.                                     *)

(* A non-empty set of naturals has a least element, and Min finds it. *)
LEMMA LeastNat ==
    ASSUME NEW T, T \subseteq Nat, T # {}
    PROVE  /\ \E m \in T : \A n \in T : m <= n
           /\ Min(T) \in T /\ \A n \in T : Min(T) <= n
<1> DEFINE R == OpToRel(<, Nat)
<1>1. IsWellFoundedOn(R, Nat)
  BY NatLessThanWellFounded
<1> HIDE DEF R
<1>2. PICK m \in T : \A n \in T : <<n, m>> \notin R
  BY <1>1, WFMin
<1>3. \A n \in T : ~(n < m)
  BY <1>2 DEF OpToRel, R
<1>4. \E k \in T : \A n \in T : k <= n
  BY <1>3
<1> QED BY <1>4 DEF Min

(* A finite set of naturals has a bound. *)
LEMMA FiniteIsBounded ==
    ASSUME NEW S, S \subseteq Nat, IsFiniteSet(S)
    PROVE  \E N \in Nat : \A n \in S : n <= N
<1> DEFINE Bounded(U) == \E N \in Nat : \A n \in U : n <= N
           R == StrictSubsetOrdering(S)
           T == {U \in SUBSET S : ~Bounded(U)}
<1>1. IsWellFoundedOn(R, SUBSET S)
  BY FS_StrictSubsetOrderingWellFounded, FS_FiniteSubsetsOfFinite
<1> HIDE DEF R
<1>2. SUFFICES ASSUME T # {} PROVE FALSE
  OBVIOUS
<1>3. T \subseteq SUBSET S
  OBVIOUS
<1>4. PICK U \in T : \A V \in T : <<V, U>> \notin R
  BY <1>1, <1>2, <1>3, WFMin
<1>5. PICK x : x \in U
  <2>1. Bounded({})
    OBVIOUS
  <2> QED BY <2>1
<1>6. <<U \ {x}, U>> \in R
  BY <1>5 DEF R, StrictSubsetOrdering
<1>7. PICK N \in Nat : \A n \in U \ {x} : n <= N
  BY <1>4, <1>6
<1>8. x \in Nat /\ \A n \in U : n \in Nat
  BY <1>5
<1>9. Bounded(U)
  <2>1. CASE x <= N
    BY <1>7, <2>1
  <2>2. CASE N < x
    <3>1. \A n \in U : n <= x
      BY <1>7, <1>8, <2>2
    <3> QED BY <1>8, <3>1
  <2> QED BY <1>7, <1>8, <2>1, <2>2
<1> QED BY <1>9

(* Max finds the greatest of a set that has a bound. *)
LEMMA GreatestNat ==
    ASSUME NEW S, S \subseteq Nat, S # {}, NEW N \in Nat, \A n \in S : n <= N
    PROVE  Max(S) \in S /\ \A n \in S : n <= Max(S)
<1> DEFINE T == {n \in Nat : \A m \in S : m <= n}
<1>1. T \subseteq Nat /\ T # {}
  OBVIOUS
<1>2. PICK n \in T : \A k \in T : n <= k
  BY <1>1, LeastNat
<1>3. n \in S
  <2> SUFFICES ASSUME n \notin S PROVE FALSE
    OBVIOUS
  <2>1. \A m \in S : m < n
    BY <1>2
  <2>2. PICK m \in S : TRUE
    OBVIOUS
  <2>3. m \in Nat /\ m < n
    BY <2>1, <2>2
  <2>4. n - 1 \in T
    BY <2>1, <2>3
  <2> QED BY <2>4, <1>2
<1>4. \E k \in S : \A m \in S : k >= m
  BY <1>2, <1>3
<1> QED BY <1>4 DEF Max

(* ORDER BY lists a finite set whole, upward. *)
LEMMA AscendingLists ==
    ASSUME NEW S, S \subseteq Nat, IsFiniteSet(S)
    PROVE  /\ Ascending(S) \in Seq(S)
           /\ Len(Ascending(S)) = Cardinality(S)
           /\ \A i, j \in DOMAIN Ascending(S) : i < j => Ascending(S)[i] < Ascending(S)[j]
           /\ \A p \in S : \E i \in DOMAIN Ascending(S) : Ascending(S)[i] = p
<1> DEFINE n == Cardinality(S)
           below(p) == {q \in S : q < p}
           rank == [p \in S |-> Cardinality(below(p))]
           s == Ascending(S)
<1>0. s = [i \in 1 .. n |-> CHOOSE p \in S : Cardinality({q \in S : q < p}) = i - 1]
  BY DEF Ascending, Upward
<1>1. n \in Nat
  BY FS_CardinalityType
<1>2. \A p \in S : IsFiniteSet(below(p)) /\ rank[p] \in 0 .. n - 1
  <2> SUFFICES ASSUME NEW p \in S
               PROVE  IsFiniteSet(below(p)) /\ rank[p] \in 0 .. n - 1
    OBVIOUS
  <2>1. below(p) \in SUBSET S /\ below(p) # S
    OBVIOUS
  <2>2. IsFiniteSet(below(p)) /\ Cardinality(below(p)) <= n /\ Cardinality(below(p)) # n
    BY <2>1, FS_Subset, Zenon
  <2>3. Cardinality(below(p)) \in Nat
    BY <2>2, FS_CardinalityType
  <2> QED BY <1>1, <2>2, <2>3
<1>3. \A p, q \in S : p < q => rank[p] < rank[q]
  <2> SUFFICES ASSUME NEW p \in S, NEW q \in S, p < q PROVE rank[p] < rank[q]
    OBVIOUS
  <2>1. below(p) \in SUBSET below(q) /\ p \in below(q) /\ p \notin below(p)
    <3>1. p \in Nat /\ q \in Nat /\ \A x \in S : x \in Nat
      OBVIOUS
    <3>2. \A x \in S : x < p => x < q
      BY <3>1
    <3>3. below(p) \in SUBSET below(q)
      BY <3>2
    <3>4. p \in below(q)
      OBVIOUS
    <3>5. p \notin below(p)
      BY <3>1
    <3> QED BY <3>3, <3>4, <3>5
  <2>2. IsFiniteSet(below(q))
    BY <1>2
  <2>3. Cardinality(below(p)) <= Cardinality(below(q)) /\ Cardinality(below(p)) # Cardinality(below(q))
    BY <2>1, <2>2, FS_Subset, Zenon
  <2>4. rank[p] \in Nat /\ rank[q] \in Nat
    BY <1>2
  <2> QED BY <2>3, <2>4
<1>4. rank \in Injection(S, 0 .. n - 1)
  <2>1. rank \in [S -> 0 .. n - 1]
    BY <1>2
  <2>2. \A p, q \in S : rank[p] = rank[q] => p = q
    <3> SUFFICES ASSUME NEW p \in S, NEW q \in S, p # q PROVE rank[p] # rank[q]
      OBVIOUS
    <3>1. rank[p] \in Nat /\ rank[q] \in Nat /\ (p < q \/ q < p)
      BY <1>2
    <3> HIDE DEF rank
    <3> QED BY <3>1, <1>3
  <2> HIDE DEF rank
  <2> QED BY <2>1, <2>2 DEF Injection, IsInjective
<1>5. IsFiniteSet(0 .. n - 1) /\ Cardinality(0 .. n - 1) = n
  <2>1. 0 \in Int /\ n - 1 \in Int
    BY <1>1
  <2> HIDE DEF n
  <2>2. IsFiniteSet(0 .. n - 1) /\ Cardinality(0 .. n - 1) = IF 0 > n - 1 THEN 0 ELSE n - 1 - 0 + 1
    BY <2>1, FS_Interval
  <2> QED BY <1>1, <2>2
<1>6. rank \in Surjection(S, 0 .. n - 1)
  <2> HIDE DEF rank
  <2> QED BY <1>4, <1>5, FS_Injection
<1>7. \A i \in 1 .. n : \E p \in S : rank[p] = i - 1
  <2> HIDE DEF rank
  <2>1. \A i \in 1 .. n : i - 1 \in 0 .. n - 1
    BY <1>1
  <2> QED BY <1>6, <2>1 DEF Surjection
<1>8. \A i \in 1 .. n : s[i] \in S /\ rank[s[i]] = i - 1
  <2> SUFFICES ASSUME NEW i \in 1 .. n PROVE s[i] \in S /\ rank[s[i]] = i - 1
    OBVIOUS
  <2>1. s[i] = CHOOSE p \in S : Cardinality({q \in S : q < p}) = i - 1
    BY <1>0
  <2>2. \E p \in S : Cardinality({q \in S : q < p}) = i - 1
    BY <1>7
  <2> HIDE DEF s
  <2>3. s[i] \in S /\ Cardinality({q \in S : q < s[i]}) = i - 1
    BY <2>1, <2>2
  <2> QED BY <2>3
<1>9. s \in [1 .. n -> S]
  <2>1. s = [i \in 1 .. n |-> CHOOSE p \in S : Cardinality({q \in S : q < p}) = i - 1]
    BY <1>0
  <2>2. \A i \in 1 .. n : s[i] = CHOOSE p \in S : Cardinality({q \in S : q < p}) = i - 1
    BY <2>1
  <2>3. \A i \in 1 .. n : (CHOOSE p \in S : Cardinality({q \in S : q < p}) = i - 1) \in S
    BY <1>8, <2>2
  <2> HIDE DEF s
  <2> QED BY <2>1, <2>3
<1>10. s \in Seq(S) /\ Len(s) = n /\ DOMAIN s = 1 .. n
  <2> HIDE DEF s
  <2> QED BY <1>9, <1>1
<1>11. ASSUME NEW i \in 1 .. n, NEW j \in 1 .. n, i < j PROVE s[i] < s[j]
  <2>1. s[i] \in Nat /\ s[j] \in Nat /\ s[i] \in S /\ s[j] \in S
    BY <1>8
  <2>2. rank[s[i]] = i - 1 /\ rank[s[j]] = j - 1
    BY <1>8
  <2> HIDE DEF s, rank
  <2>3. s[j] < s[i] => rank[s[j]] < rank[s[i]]
    BY <1>3, <2>1
  <2>4. s[j] = s[i] => i = j
    BY <2>2
  <2> QED BY <2>1, <2>2, <2>3, <2>4, <1>11
<1>12. ASSUME NEW p \in S PROVE \E i \in 1 .. n : s[i] = p
  <2>1. rank[p] \in 0 .. n - 1 /\ rank[p] + 1 \in 1 .. n
    BY <1>1, <1>2
  <2>2. s[rank[p] + 1] \in S /\ rank[s[rank[p] + 1]] = rank[p]
    BY <1>8, <2>1
  <2> HIDE DEF s, rank
  <2>3. s[rank[p] + 1] = p
    BY <2>2, <1>4 DEF Injection, IsInjective
  <2> QED BY <2>1, <2>3
<1> HIDE DEF s
<1> QED BY <1>10, <1>11, <1>12 DEF s

(* The tools of an answer, and the id of a call. *)
LEMMA PlaceBound ==
    /\ MaxPlace \in Nat
    /\ \A tools \in Rounds :
         /\ tools \in Seq(Kinds) /\ Len(tools) \in 1 .. MaxPlace
         /\ DOMAIN tools = 1 .. Len(tools) /\ \A i \in DOMAIN tools : tools[i] \in Kinds
<1> DEFINE lens == {Len(tools) : tools \in Rounds}
           len == [tools \in Rounds |-> Len(tools)]
<1>1. \A tools \in Rounds : tools \in Seq(Kinds) /\ Len(tools) \in Nat /\ Len(tools) # 0
                            /\ DOMAIN tools = 1 .. Len(tools)
                            /\ \A i \in DOMAIN tools : tools[i] \in Kinds
  <2> SUFFICES ASSUME NEW tools \in Rounds
               PROVE  /\ tools \in Seq(Kinds) /\ Len(tools) \in Nat /\ Len(tools) # 0
                      /\ DOMAIN tools = 1 .. Len(tools)
                      /\ \A i \in DOMAIN tools : tools[i] \in Kinds
    OBVIOUS
  <2>1. tools \in Seq(Kinds) /\ tools # <<>>
    BY AgentAssumption
  <2> HIDE DEF len
  <2> QED BY <2>1
<1>2. IsFiniteSet(lens)
  <2>1. len \in Surjection(Rounds, lens)
    BY DEF Surjection
  <2> QED BY <2>1, AgentAssumption, FS_Surjection
<1> DEFINE all == {0} \union lens
<1>3. all \subseteq Nat /\ all # {} /\ IsFiniteSet(all) /\ lens \subseteq all
  <2>1. lens \subseteq Nat
    BY <1>1
  <2> HIDE DEF lens
  <2>2. IsFiniteSet(all)
    BY <1>2, FS_Singleton, FS_Union
  <2> QED BY <2>1, <2>2
<1>4. MaxPlace = Max(all)
  BY DEF MaxPlace
<1> HIDE DEF lens, all
<1>5. PICK N \in Nat : \A n \in all : n <= N
  BY <1>3, FiniteIsBounded
<1>6. Max(all) \in all /\ \A n \in all : n <= Max(all)
  BY <1>3, <1>5, GreatestNat
<1>8. MaxPlace \in Nat /\ \A n \in lens : n <= MaxPlace
  BY <1>3, <1>4, <1>6
<1>9. \A tools \in Rounds : Len(tools) \in lens
  BY DEF lens
<1> QED BY <1>1, <1>8, <1>9

LEMMA CallParts ==
    /\ \A c \in CallId : /\ c = <<c[1], c[2], c[3]>> /\ c[1] \in Run
                         /\ c[2] \in 1 .. MaxRounds /\ c[3] \in 1 .. MaxPlace
                         /\ c[1] \in Nat /\ c[2] \in Nat /\ c[3] \in Nat
    /\ \A r \in Run, k \in 1 .. MaxRounds, i \in 1 .. MaxPlace : <<r, k, i>> \in CallId
    /\ MaxRuns \in Nat /\ MaxRounds \in Nat /\ MaxEvents \in Nat /\ MaxPlace \in Nat
    /\ \A r \in Run : r \in Nat /\ 0 < r /\ r <= MaxRuns
<1>1. MaxRuns \in Nat /\ MaxRounds \in Nat /\ MaxEvents \in Nat /\ MaxPlace \in Nat
  BY AgentAssumption, PlaceBound
<1> QED BY <1>1 DEF CallId, Run

(* A table of calls is a function on some of their ids. *)
LEMMA TableIs ==
    ASSUME NEW cs
    PROVE  cs \in Table <=>
             /\ DOMAIN cs \subseteq CallId /\ cs = [c \in DOMAIN cs |-> cs[c]]
             /\ \A c \in DOMAIN cs : cs[c] \in CallRow
<1>1. cs \in Table => /\ DOMAIN cs \subseteq CallId /\ cs = [c \in DOMAIN cs |-> cs[c]]
                      /\ \A c \in DOMAIN cs : cs[c] \in CallRow
  BY DEF Table
<1>2. ASSUME DOMAIN cs \subseteq CallId, cs = [c \in DOMAIN cs |-> cs[c]],
             \A c \in DOMAIN cs : cs[c] \in CallRow
      PROVE  cs \in Table
  <2>1. cs \in [DOMAIN cs -> CallRow]
    BY <1>2
  <2> QED BY <1>2, <2>1 DEF Table
<1> QED BY <1>1, <1>2

LEMMA RowParts ==
    ASSUME NEW cs \in Table, NEW c \in DOMAIN cs
    PROVE  /\ c \in CallId /\ cs[c] \in CallRow
           /\ cs[c] = [kind |-> cs[c].kind, st |-> cs[c].st]
           /\ cs[c].kind \in Kinds
           /\ cs[c].st \in Open \union {"done", "failed", "refused", "cancelled"}
BY TableIs DEF CallRow

(* latest_run *)
LEMMA LatestRun ==
    ASSUME NEW st \in [Run -> Statuses]
    PROVE  /\ Latest(st) \in Nat
           /\ (\A r \in Run : st[r] = "none") => Latest(st) = 0
           /\ Latest(st) # 0 => Latest(st) \in Run /\ st[Latest(st)] # "none"
           /\ \A r \in Run : st[r] # "none" => r <= Latest(st)
<1> DEFINE S == Standing(st)
<1>1. S \subseteq Nat /\ MaxRuns \in Nat /\ \A n \in S : n <= MaxRuns
  BY CallParts DEF Standing
<1>2. \A r \in S : r \in Run /\ st[r] # "none"
  BY DEF Standing
<1>3. \A r \in Run : st[r] # "none" => r \in S
  BY DEF Standing
<1>4. Latest(st) = IF S = {} THEN 0 ELSE Max(S)
  BY DEF Latest
<1> HIDE DEF S
<1>5. CASE S = {}
  BY <1>2, <1>3, <1>4, <1>5
<1>6. CASE S # {}
  <2>1. Max(S) \in S /\ \A n \in S : n <= Max(S)
    BY <1>1, <1>6, GreatestNat
  <2>2. Max(S) \in Run /\ Max(S) \in Nat /\ Max(S) # 0
    BY <1>2, <2>1, CallParts
  <2> QED BY <1>2, <1>3, <1>4, <1>6, <2>1, <2>2
<1> QED BY <1>5, <1>6

(* The newest round of a run, whose calls round_calls_conn lists. *)
LEMMA NewestRound ==
    ASSUME NEW cs \in Table, NEW r
    PROVE  /\ Newest(cs, r) \in Nat
           /\ \A c \in CallsOf(cs, r) : c[2] <= Newest(cs, r)
           /\ CallsOf(cs, r) # {} => Newest(cs, r) \in 1 .. MaxRounds
<1> DEFINE S == {c[2] : c \in CallsOf(cs, r)}
<1>1. \A c \in CallsOf(cs, r) : c \in CallId
  BY TableIs DEF CallsOf
<1>2. S \subseteq 1 .. MaxRounds /\ MaxRounds \in Nat
  BY <1>1, CallParts
<1>3. S \subseteq Nat /\ \A n \in S : n <= MaxRounds
  BY <1>2
<1>4. \A c \in CallsOf(cs, r) : c[2] \in S
  OBVIOUS
<1>5. Newest(cs, r) = IF CallsOf(cs, r) = {} THEN 0 ELSE Max(S)
  BY DEF Newest
<1> HIDE DEF S
<1>6. CASE CallsOf(cs, r) = {}
  BY <1>5, <1>6
<1>7. CASE CallsOf(cs, r) # {}
  <2>1. S # {}
    BY <1>4, <1>7
  <2>2. Max(S) \in S /\ \A n \in S : n <= Max(S)
    BY <1>2, <1>3, <2>1, GreatestNat
  <2> QED BY <1>2, <1>3, <1>4, <1>5, <1>7, <2>2
<1> QED BY <1>6, <1>7

LEMMA RoundIsThere ==
    ASSUME NEW cs \in Table, NEW r
    PROVE  /\ RoundOf(cs, r) \in Seq(CallId)
           /\ \A i \in DOMAIN RoundOf(cs, r) :
                RoundOf(cs, r)[i] \in DOMAIN cs /\ RoundOf(cs, r)[i][1] = r
<1> DEFINE calls0 == {c \in CallsOf(cs, r) : c[2] = Newest(cs, r)}
           S == {c[3] : c \in calls0}
           s == Ascending(S)
<1>1. \A c \in calls0 : c \in CallId /\ c \in DOMAIN cs /\ c[1] = r /\ c[2] = Newest(cs, r)
  BY TableIs DEF CallsOf
<1>2. S \subseteq 1 .. MaxPlace /\ MaxPlace \in Nat
  BY <1>1, CallParts
<1>3. S \subseteq Nat /\ IsFiniteSet(S)
  <2>1. 1 \in Int /\ MaxPlace \in Int
    BY <1>2
  <2>2. IsFiniteSet(1 .. MaxPlace)
    BY <2>1, FS_Interval
  <2> QED BY <1>2, <2>2, FS_Subset
<1>4. \A p \in S : <<r, Newest(cs, r), p>> \in DOMAIN cs
  <2> SUFFICES ASSUME NEW p \in S PROVE <<r, Newest(cs, r), p>> \in DOMAIN cs
    OBVIOUS
  <2>1. PICK c \in calls0 : p = c[3]
    OBVIOUS
  <2>2. c = <<r, Newest(cs, r), p>>
    BY <1>1, <2>1, CallParts
  <2> QED BY <1>1, <2>2
<1>5. RoundOf(cs, r) = [i \in DOMAIN s |-> <<r, Newest(cs, r), s[i]>>]
  BY DEF RoundOf
<1>6. s \in Seq(S)
  BY <1>3, AscendingLists
<1> HIDE DEF s, S
<1>7. Len(s) \in Nat /\ DOMAIN s = 1 .. Len(s) /\ \A i \in DOMAIN s : s[i] \in S
  BY <1>6
<1>8. \A i \in DOMAIN s : <<r, Newest(cs, r), s[i]>> \in DOMAIN cs
  BY <1>4, <1>7
<1>9. DOMAIN cs \subseteq CallId
  BY TableIs
<1>10. RoundOf(cs, r) \in [1 .. Len(s) -> CallId]
  BY <1>5, <1>7, <1>8, <1>9
<1>11. RoundOf(cs, r) \in Seq(CallId)
  BY <1>7, <1>10
<1> QED BY <1>5, <1>8, <1>11

(* The turns: one more, the answers of a round, the round that is owed them, *)
(* and what a deletion of some leaves.                                       *)
LEMMA TurnParts ==
    ASSUME NEW t \in TurnRow
    PROVE  /\ t.seq \in Nat /\ t.run \in Run /\ t.call \in CallId \union {NoCall}
           /\ t.who \in {"user", "asks", "tool", "says"}
BY DEF TurnRow

LEMMA EndedTyped ==
    ASSUME NEW ts \in Seq(TurnRow)
    PROVE  Ended(ts) \in Nat
<1>1. CASE ts = <<>>
  BY <1>1 DEF Ended
<1>2. CASE ts # <<>>
  <2>1. Last(ts) \in TurnRow
    BY <1>2 DEF Last
  <2> QED BY <1>2, <2>1, TurnParts DEF Ended
<1> QED BY <1>1, <1>2

Said == Open \union {"done", "failed", "refused", "cancelled", "says", "cut", ""}

LEMMA TurnTyped ==
    ASSUME NEW ts \in Seq(TurnRow), NEW who \in {"user", "asks", "tool", "says"},
           NEW r \in Run, NEW c \in CallId \union {NoCall}, NEW said \in Said
    PROVE  Turn(ts, who, r, c, said) \in Seq(TurnRow)
<1>1. [seq |-> Ended(ts) + 1, who |-> who, run |-> r, call |-> c, said |-> said] \in TurnRow
  <2>1. Ended(ts) + 1 \in Nat
    BY EndedTyped
  <2> QED BY <2>1 DEF TurnRow, Said
<1> QED BY <1>1 DEF Turn

LEMMA ToldTyped ==
    ASSUME NEW ts \in Seq(TurnRow), NEW cs \in Table, NEW owed \in Seq(CallId)
    PROVE  Told(ts, cs, owed) \in Seq(TurnRow)
<1> DEFINE more == [i \in DOMAIN owed |->
             [seq |-> Ended(ts) + i, who |-> "tool", run |-> owed[i][1], call |-> owed[i],
              said |-> IF owed[i] \in DOMAIN cs THEN cs[owed[i]].st ELSE "cancelled"]]
<1>1. \A i \in DOMAIN owed : more[i] \in TurnRow
  <2> SUFFICES ASSUME NEW i \in DOMAIN owed PROVE more[i] \in TurnRow
    OBVIOUS
  <2>1. i \in Nat /\ owed[i] \in CallId
    OBVIOUS
  <2>4. owed[i][1] \in Run
    BY <2>1, CallParts
  <2>2. Ended(ts) + i \in Nat
    BY <2>1, EndedTyped
  <2>3. (IF owed[i] \in DOMAIN cs THEN cs[owed[i]].st ELSE "cancelled") \in Said
    BY RowParts DEF Said
  <2> QED BY <2>1, <2>2, <2>3, <2>4 DEF TurnRow, Said
<1>2. DOMAIN owed = 1 .. Len(owed) /\ Len(owed) \in Nat
  OBVIOUS
<1>3. more \in Seq(TurnRow)
  <2>1. more = [i \in 1 .. Len(owed) |-> more[i]]
    BY <1>2
  <2> HIDE DEF more
  <2>2. more \in [1 .. Len(owed) -> TurnRow]
    BY <1>1, <1>2, <2>1
  <2> QED BY <1>2, <2>2
<1>4. Told(ts, cs, owed) = ts \o more
  BY DEF Told
<1> HIDE DEF more
<1> QED BY <1>3, <1>4

LEMMA LastAsksIs ==
    ASSUME NEW ts \in Seq(TurnRow)
    PROVE  /\ LastAsks(ts) \in Nat
           /\ LastAsks(ts) # 0 => LastAsks(ts) \in DOMAIN ts /\ ts[LastAsks(ts)].who = "asks"
           /\ \A i \in DOMAIN ts : ts[i].who = "asks" => i <= LastAsks(ts)
<1> DEFINE S == {i \in DOMAIN ts : ts[i].who = "asks"}
<1>1. S \subseteq Nat /\ Len(ts) \in Nat /\ \A i \in S : i <= Len(ts) /\ i # 0
  OBVIOUS
<1>2. LastAsks(ts) = IF S = {} THEN 0 ELSE Max(S)
  BY DEF LastAsks
<1>3. CASE S = {}
  BY <1>2, <1>3
<1>4. CASE S # {}
  <2> HIDE DEF S
  <2>1. Max(S) \in S /\ \A n \in S : n <= Max(S)
    BY <1>1, <1>4, GreatestNat
  <2>2. LastAsks(ts) \in S /\ \A n \in S : n <= LastAsks(ts)
    BY <1>2, <1>4, <2>1
  <2> QED BY <1>1, <2>2 DEF S
<1> QED BY <1>3, <1>4

LEMMA OwedTyped ==
    ASSUME NEW ts \in Seq(TurnRow)
    PROVE  Owed(ts) \in Seq(CallId)
<1> DEFINE at == LastAsks(ts)
           asks == ts[at].call
           told == {ts[i].call : i \in {j \in DOMAIN ts : j > at /\ ts[j].who = "tool"}}
           S == {i \in 1 .. asks[3] : <<asks[1], asks[2], i>> \notin told}
           left == Ascending(S)
<1>1. CASE at = 0
  BY <1>1 DEF Owed
<1>2. CASE at # 0
  <2>1. asks \in CallId \union {NoCall}
    BY <1>2, LastAsksIs, TurnParts
  <2>2. asks[3] \in Nat /\ \A i \in 1 .. asks[3] : <<asks[1], asks[2], i>> \in CallId
    <3>1. CASE asks = NoCall
      BY <3>1 DEF NoCall
    <3>2. CASE asks \in CallId
      <4>1. /\ asks[1] \in Run /\ asks[2] \in 1 .. MaxRounds /\ asks[3] \in 1 .. MaxPlace
            /\ asks[3] \in Nat /\ MaxPlace \in Nat
        BY <3>2, CallParts
      <4> HIDE DEF asks
      <4>2. \A i \in 1 .. asks[3] : i \in 1 .. MaxPlace
        BY <4>1
      <4> QED BY <4>1, <4>2, CallParts
    <3> QED BY <2>1, <3>1, <3>2
  <2> HIDE DEF asks, told
  <2>3. S \subseteq Nat /\ IsFiniteSet(S)
    <3> DEFINE n == asks[3]
    <3>1. n \in Int /\ 1 \in Int /\ S \subseteq 1 .. n
      BY <2>2
    <3> HIDE DEF n, S
    <3>2. IsFiniteSet(1 .. n)
      BY <3>1, FS_Interval
    <3>3. S \in SUBSET (1 .. n)
      BY <3>1
    <3>4. IsFiniteSet(S)
      BY <3>2, <3>3, FS_Subset
    <3>5. S \subseteq Nat
      BY <3>1
    <3> QED BY <3>4, <3>5
  <2>4. left \in Seq(S)
    BY <2>3, AscendingLists
  <2>5. Owed(ts) = [i \in DOMAIN left |-> <<asks[1], asks[2], left[i]>>]
    BY <1>2 DEF Owed, asks, told
  <2> HIDE DEF left, at
  <2>6. Len(left) \in Nat /\ DOMAIN left = 1 .. Len(left) /\ \A i \in DOMAIN left : left[i] \in S
    BY <2>4
  <2>7. \A i \in DOMAIN left : <<asks[1], asks[2], left[i]>> \in CallId
    BY <2>2, <2>6
  <2>8. Owed(ts) \in [1 .. Len(left) -> CallId]
    BY <2>5, <2>6, <2>7
  <2> QED BY <2>6, <2>8
<1> QED BY <1>1, <1>2

LEMMA CancelledIs ==
    ASSUME NEW ts, NEW cs \in Table
    PROVE  /\ Cancelled(ts, cs) \in Table /\ DOMAIN Cancelled(ts, cs) = DOMAIN cs
           /\ \A c \in DOMAIN cs :
                /\ Cancelled(ts, cs)[c].kind = cs[c].kind
                /\ \/ Cancelled(ts, cs)[c].st = cs[c].st
                   \/ cs[c].st \in Open /\ Cancelled(ts, cs)[c].st = "cancelled"
<1> DEFINE new == Cancelled(ts, cs)
<1>1. DOMAIN new = DOMAIN cs /\ new = [c \in DOMAIN new |-> new[c]]
  BY DEF Cancelled
<1>2. ASSUME NEW c \in DOMAIN cs
      PROVE  new[c] = cs[c] \/ (cs[c].st \in Open /\ new[c] = [cs[c] EXCEPT !.st = "cancelled"])
  BY DEF Cancelled
<1> HIDE DEF new
<1>3. ASSUME NEW c \in DOMAIN cs
      PROVE  /\ new[c].kind = cs[c].kind /\ new[c] \in CallRow
             /\ \/ new[c].st = cs[c].st
                \/ cs[c].st \in Open /\ new[c].st = "cancelled"
  <2>1. cs[c] \in CallRow
    BY RowParts
  <2> QED BY <1>2, <2>1 DEF CallRow
<1>4. new \in Table
  BY <1>1, <1>3, TableIs
<1> QED BY <1>1, <1>3, <1>4 DEF new

LEMMA SettledTyped ==
    ASSUME NEW ts \in Seq(TurnRow), NEW cs \in Table
    PROVE  Settled(ts, cs) \in Seq(TurnRow)
BY CancelledIs, OwedTyped, ToldTyped DEF Settled

LEMMA LeftTyped ==
    ASSUME NEW ts \in Seq(TurnRow), NEW S, S \subseteq DOMAIN ts
    PROVE  [i \in DOMAIN Ascending(S) |-> ts[Ascending(S)[i]]] \in Seq(TurnRow)
<1> DEFINE left == Ascending(S)
<1>1. S \subseteq Nat /\ IsFiniteSet(S)
  <2>1. DOMAIN ts = 1 .. Len(ts) /\ Len(ts) \in Nat
    OBVIOUS
  <2>2. IsFiniteSet(1 .. Len(ts))
    BY <2>1, FS_Interval
  <2> QED BY <2>1, <2>2, FS_Subset
<1>2. left \in Seq(S)
  BY <1>1, AscendingLists
<1> HIDE DEF left
<1>3. Len(left) \in Nat /\ DOMAIN left = 1 .. Len(left) /\ \A i \in DOMAIN left : left[i] \in DOMAIN ts
  BY <1>2
<1>4. \A i \in DOMAIN left : ts[left[i]] \in TurnRow
  BY <1>3
<1>5. [i \in DOMAIN left |-> ts[left[i]]] \in [1 .. Len(left) -> TurnRow]
  BY <1>3, <1>4
<1>6. [i \in DOMAIN left |-> ts[left[i]]] \in Seq(TurnRow)
  BY <1>3, <1>5
<1> QED BY <1>6 DEF left

----------------------------------------------------------------------------
(* The session's walk over the calls: what one look of it comes to.         *)

Kept0(act, q, md) == [active |-> act, queue |-> q, made |-> md]

ServedOne(st, cs, act, q, md, w, r, c) ==
    /\ c[1] = r /\ st[r] = "waiting" /\ act[r] = Free
    /\ cs[c].st = "pending" /\ Ahead(cs, c)
    /\ \/ /\ cs[c].kind = "asks"
          /\ w = Kept0([act EXCEPT ![r] = Doing("queued", c)],
                       Append(q, Write("ask", c, "asked", r)), md)
       \/ /\ cs[c].kind = "now"
          /\ \/ w = Kept0([act EXCEPT ![r] = Doing("queued", c)],
                          Append(q, Write("record", c, "done", r)), [md EXCEPT ![c] = @ + 1])
             \/ w = Kept0([act EXCEPT ![r] = Doing("queued", c)],
                          Append(q, Write("record", c, "failed", r)), md)
       \/ /\ cs[c].kind \in {"edit", "native"}
          /\ w = Kept0([act EXCEPT ![r] = Doing("preparing", c)], q, md)

Served(st, cs, act, q, md, w) ==
    \/ w = Kept0(act, q, md)
    \/ \E r \in Run : \E c \in DOMAIN cs : ServedOne(st, cs, act, q, md, w, r, c)

(* The first of some calls of a run, by round and place. *)
First(open) ==
    CHOOSE c \in open : \A d \in open : c[2] < d[2] \/ (c[2] = d[2] /\ c[3] <= d[3])

LEMMA FirstIs ==
    ASSUME NEW open, open \subseteq CallId, open # {}
    PROVE  /\ First(open) \in open
           /\ \A d \in open : \/ First(open)[2] < d[2]
                              \/ First(open)[2] = d[2] /\ First(open)[3] <= d[3]
<1> DEFINE rounds == {c[2] : c \in open}
           k == Min(rounds)
           places == {c[3] : c \in {d \in open : d[2] = k}}
           i == Min(places)
<1>1. \A c \in open : c[2] \in Nat /\ c[3] \in Nat
  BY CallParts
<1>2. k \in rounds /\ \A n \in rounds : k <= n
  <2>1. rounds \subseteq Nat /\ rounds # {}
    BY <1>1
  <2> HIDE DEF rounds
  <2> QED BY <2>1, LeastNat
<1> HIDE DEF k
<1>3. i \in places /\ \A n \in places : i <= n
  <2>1. places \subseteq Nat /\ places # {}
    BY <1>1, <1>2
  <2> HIDE DEF places
  <2> QED BY <2>1, LeastNat
<1> HIDE DEF i
<1>4. PICK c \in open : c[2] = k /\ c[3] = i
  BY <1>3
<1>5. ASSUME NEW d \in open PROVE c[2] < d[2] \/ (c[2] = d[2] /\ c[3] <= d[3])
  <2>1. d[2] \in rounds /\ k <= d[2] /\ (d[2] = k => d[3] \in places)
    BY <1>2
  <2>2. d[2] = k => i <= d[3]
    BY <1>3, <2>1
  <2>3. d[2] \in Nat /\ k \in Nat
    BY <1>1, <1>4
  <2> QED BY <1>4, <2>1, <2>2, <2>3
<1>6. \E e \in open : \A d \in open : e[2] < d[2] \/ (e[2] = d[2] /\ e[3] <= d[3])
  BY <1>4, <1>5
<1> QED BY <1>6 DEF First

LEMMA ServeIs ==
    ASSUME NEW st \in [Run -> Statuses], NEW cs \in Table, NEW act, NEW q,
           NEW md \in [CallId -> Nat], NEW works \in BOOLEAN
    PROVE  Served(st, cs, act, q, md, Serve(st, cs, act, q, md, works))
<1> DEFINE r == Latest(st)
           open == Unsaid(cs, r)
           c == First(open)
           w == Serve(st, cs, act, q, md, works)
           busy == r = 0 \/ open = {}
           waits == \/ st[r] # "waiting" \/ act[r] # Free
                    \/ \E d \in CallsOf(cs, r) : cs[d].st = "asked"
                    \/ cs[c].kind = "read"
<1>1. w = IF busy THEN Kept0(act, q, md)
          ELSE IF waits THEN Kept0(act, q, md)
          ELSE IF cs[c].kind = "asks"
          THEN [Kept0(act, q, md) EXCEPT !.active = [act EXCEPT ![r] = Doing("queued", c)],
                          !.queue = Append(q, Write("ask", c, "asked", r))]
          ELSE IF cs[c].kind = "now"
          THEN [Kept0(act, q, md) EXCEPT !.active = [act EXCEPT ![r] = Doing("queued", c)],
                          !.made[c] = IF works THEN @ + 1 ELSE @,
                          !.queue = Append(q, Write("record", c, IF works THEN "done" ELSE "failed", r))]
          ELSE [Kept0(act, q, md) EXCEPT !.active = [act EXCEPT ![r] = Doing("preparing", c)]]
  BY DEF Serve, Kept0, First
<1>2. CASE busy \/ waits
  BY <1>1, <1>2 DEF Served
<1>3. CASE ~busy /\ ~waits
  <2>1. r \in Run
    BY <1>3, LatestRun
  <2>2. open \subseteq CallId /\ \A d \in open : d \in DOMAIN cs /\ d[1] = r /\ cs[d].st = "pending"
    BY TableIs DEF Unsaid, CallsOf
  <2>3. c \in open /\ \A d \in open : c[2] < d[2] \/ (c[2] = d[2] /\ c[3] <= d[3])
    BY <1>3, <2>2, FirstIs
  <2> HIDE DEF c
  <2>4. c \in DOMAIN cs /\ c[1] = r /\ cs[c].st = "pending" /\ c \in CallId
    BY <2>2, <2>3
  <2>5. Ahead(cs, c)
    <3> SUFFICES ASSUME NEW d \in DOMAIN cs, d[1] = c[1], d[2] = c[2], d[3] < c[3]
                 PROVE  cs[d].st \notin Open
      BY DEF Ahead
    <3>1. d \in CallsOf(cs, r) /\ d \in CallId
      BY <2>4, TableIs DEF CallsOf
    <3>2. cs[d].st # "asked"
      BY <1>3, <3>1
    <3>3. cs[d].st # "pending"
      <4> SUFFICES ASSUME cs[d].st = "pending" PROVE FALSE
        OBVIOUS
      <4>1. d \in open
        BY <3>1 DEF Unsaid
      <4>2. c[3] <= d[3] \/ c[2] < d[2]
        BY <2>3, <4>1
      <4>3. c[2] \in Nat /\ c[3] \in Nat /\ d[3] \in Nat
        BY <2>4, <3>1, CallParts
      <4> QED BY <4>2, <4>3
    <3> QED BY <3>2, <3>3 DEF Open
  <2>6. cs[c].kind \in {"asks", "now", "edit", "native"}
    BY <1>3, <2>4, RowParts DEF Kinds
  <2>7. st[r] = "waiting" /\ act[r] = Free
    BY <1>3
  <2> HIDE DEF r, open, waits, busy, w
  <2>8. CASE cs[c].kind = "asks"
    <3>1. w = Kept0([act EXCEPT ![r] = Doing("queued", c)],
                    Append(q, Write("ask", c, "asked", r)), md)
      BY <1>1, <1>3, <2>8 DEF Kept0
    <3>2. ServedOne(st, cs, act, q, md, w, r, c)
      BY <2>4, <2>5, <2>7, <2>8, <3>1 DEF ServedOne
    <3>3. Served(st, cs, act, q, md, w)
      BY <2>1, <2>4, <3>2 DEF Served
    <3> QED BY <3>3 DEF w
  <2>9. CASE cs[c].kind = "now"
    <3>1. \/ w = Kept0([act EXCEPT ![r] = Doing("queued", c)],
                       Append(q, Write("record", c, "done", r)), [md EXCEPT ![c] = @ + 1])
          \/ w = Kept0([act EXCEPT ![r] = Doing("queued", c)],
                       Append(q, Write("record", c, "failed", r)), md)
      <4>1. CASE works
        BY <1>1, <1>3, <2>9, <4>1 DEF Kept0
      <4>2. CASE ~works
        <5>1. [md EXCEPT ![c] = md[c]] = md
          BY <2>4
        <5> QED BY <1>1, <1>3, <2>9, <4>2, <5>1 DEF Kept0
      <4> QED BY <4>1, <4>2
    <3>2. ServedOne(st, cs, act, q, md, w, r, c)
      BY <2>4, <2>5, <2>7, <2>9, <3>1 DEF ServedOne
    <3>3. Served(st, cs, act, q, md, w)
      BY <2>1, <2>4, <3>2 DEF Served
    <3> QED BY <3>3 DEF w
  <2>10. CASE cs[c].kind \in {"edit", "native"}
    <3>1. w = Kept0([act EXCEPT ![r] = Doing("preparing", c)], q, md)
      BY <1>1, <1>3, <2>10 DEF Kept0
    <3>2. ServedOne(st, cs, act, q, md, w, r, c)
      BY <2>4, <2>5, <2>7, <2>10, <3>1 DEF ServedOne
    <3>3. Served(st, cs, act, q, md, w)
      BY <2>1, <2>4, <3>2 DEF Served
    <3> QED BY <3>3 DEF w
  <2> QED BY <2>6, <2>8, <2>9, <2>10
<1> QED BY <1>2, <1>3

(* A place, and a write, of the session's. *)
LEMMA PlaceTyped ==
    /\ Free \in Place /\ Free.at = "no"
    /\ \A p \in Place : p = Free \/ (p.at \in {"preparing", "native", "ran", "queued"} /\ p.call \in CallId)
    /\ \A at \in {"preparing", "native", "ran", "queued"}, c \in CallId :
         Doing(at, c) \in Place /\ Doing(at, c).at = at /\ Doing(at, c).call = c
BY DEF Place, Free, Doing

LEMMA WrittenTyped ==
    /\ \A c \in CallId, r \in Run :
         /\ Write("ask", c, "asked", r) \in Written
         /\ Write("edit", c, "done", r) \in Written
         /\ \A st \in {"done", "failed"} : Write("native", c, st, r) \in Written
         /\ \A st \in {"done", "failed", "refused"} : Write("record", c, st, r) \in Written
    /\ \A r \in Run : Write("stop", NoCall, "", r) \in Written
    /\ \A what \in {"send", "retry", "delete"} : Write(what, NoCall, "", 0) \in Written
    /\ \A what, c, st, r : /\ Write(what, c, st, r).what = what /\ Write(what, c, st, r).call = c
                           /\ Write(what, c, st, r).st = st /\ Write(what, c, st, r).run = r
BY DEF Write, Written

LEMMA WrittenParts ==
    ASSUME NEW w \in Written
    PROVE  /\ w.what \in {"ask", "edit", "native", "record", "stop", "send", "retry", "delete"}
           /\ w.what \in {"ask", "edit", "native", "record"} => w.call \in CallId /\ w.run \in Run
           /\ w.what = "stop" => w.run \in Run
           /\ w.what = "record" => w.st \in {"done", "failed", "refused"}
           /\ w.what = "edit" => w.st = "done"
           /\ w.what = "native" => w.st \in {"done", "failed"}
BY DEF Written

LEMMA ServedTyped ==
    ASSUME NEW st, NEW cs \in Table, NEW act \in [Run -> Place], NEW q \in Seq(Written),
           NEW md \in [CallId -> Nat], NEW w, Served(st, cs, act, q, md, w)
    PROVE  w.active \in [Run -> Place] /\ w.queue \in Seq(Written) /\ w.made \in [CallId -> Nat]
<1>1. CASE w = Kept0(act, q, md)
  BY <1>1 DEF Kept0
<1>2. ASSUME NEW r \in Run, NEW c \in DOMAIN cs, ServedOne(st, cs, act, q, md, w, r, c)
      PROVE  w.active \in [Run -> Place] /\ w.queue \in Seq(Written) /\ w.made \in [CallId -> Nat]
  <2>1. c \in CallId
    BY TableIs
  <2>2. Doing("queued", c) \in Place /\ Doing("preparing", c) \in Place
    BY <2>1, PlaceTyped
  <2>3. /\ [act EXCEPT ![r] = Doing("queued", c)] \in [Run -> Place]
        /\ [act EXCEPT ![r] = Doing("preparing", c)] \in [Run -> Place]
    BY <2>2
  <2>4. /\ Append(q, Write("ask", c, "asked", r)) \in Seq(Written)
        /\ Append(q, Write("record", c, "done", r)) \in Seq(Written)
        /\ Append(q, Write("record", c, "failed", r)) \in Seq(Written)
    <3>1. /\ Write("ask", c, "asked", r) \in Written /\ Write("record", c, "done", r) \in Written
          /\ Write("record", c, "failed", r) \in Written
      BY <2>1, WrittenTyped
    <3> QED BY <3>1
  <2>5. [md EXCEPT ![c] = @ + 1] \in [CallId -> Nat]
    BY <2>1
  <2> DEFINE A1 == [act EXCEPT ![r] = Doing("queued", c)]
             A2 == [act EXCEPT ![r] = Doing("preparing", c)]
             Q1 == Append(q, Write("ask", c, "asked", r))
             Q2 == Append(q, Write("record", c, "done", r))
             Q3 == Append(q, Write("record", c, "failed", r))
             M == [md EXCEPT ![c] = @ + 1]
  <2>6. w \in {Kept0(A1, Q1, md), Kept0(A1, Q2, M), Kept0(A1, Q3, md), Kept0(A2, q, md)}
    BY <1>2 DEF ServedOne
  <2> HIDE DEF A1, A2, Q1, Q2, Q3, M
  <2>7. A1 \in [Run -> Place] /\ A2 \in [Run -> Place] /\ Q1 \in Seq(Written) /\ Q2 \in Seq(Written)
        /\ Q3 \in Seq(Written) /\ M \in [CallId -> Nat]
    BY <2>3, <2>4, <2>5 DEF A1, A2, Q1, Q2, Q3, M
  <2> QED BY <2>6, <2>7 DEF Kept0
<1> QED BY <1>1, <1>2 DEF Served

----------------------------------------------------------------------------
(* Most steps only add to the rows: no run, call or answer goes, no         *)
(* deletion is filed, and what is new is a run never begun before or calls  *)
(* of a later round.                                                        *)

LEMMA TypeParts ==
    ASSUME TypeOK
    PROVE  /\ status \in [Run -> Statuses] /\ turns \in Seq(TurnRow) /\ calls \in Table
           /\ issued \in Nat /\ issued <= MaxRuns
           /\ \A r \in Run : worker[r] \in Passing /\ active[r] \in Place
BY CallParts DEF TypeOK, Whole, Copy

LEMMA TypesNext ==
    ASSUME status' \in [Run -> Statuses], turns' \in Seq(TurnRow), calls' \in Table,
           issued' \in 0 .. MaxRuns, chat' \in BOOLEAN,
           worker' \in [Run -> Passing], awake' \subseteq Run, active' \in [Run -> Place],
           queue' \in Seq(Written), past' \in Seq(Undoable), future' \in Seq(Undoable),
           walk' \in Begun \union {NoWalk}, made' \in [CallId -> Nat], allowed' \subseteq CallId,
           strayed' \subseteq Strayings, person' \in BOOLEAN \X Nat
    PROVE  TypeOK'
BY DEF TypeOK, Whole, Copy, person

LEMMA KeptParts ==
    ASSUME NEW claims \in Seq(Undoable), NEW k \in Kept(claims)
    PROVE  /\ k \in Copy /\ k.status \in [Run -> Statuses] /\ k.calls \in Table
           /\ \E i \in DOMAIN claims : claims[i].kind = "delete" /\ claims[i].kept = k
<1>1. PICK i \in DOMAIN claims : claims[i].kind = "delete" /\ k = claims[i].kept
  BY DEF Kept
<1>2. claims[i] \in Undoable
  OBVIOUS
<1>3. k \in Copy
  BY <1>1, <1>2 DEF Undoable, Begun
<1> QED BY <1>1, <1>3 DEF Copy

NewCalls == DOMAIN calls' \ DOMAIN calls

Grows ==
    /\ issued' \in Nat /\ issued <= issued'
    /\ \A r \in Run : status[r] # "none" => status'[r] # "none"
    /\ \A r \in Run : status'[r] # "none" => r <= issued' /\ (status[r] # "none" \/ issued < r)
    /\ DOMAIN calls \subseteq DOMAIN calls'
    /\ \A c \in DOMAIN calls : /\ calls'[c].kind = calls[c].kind
                               /\ calls'[c].st \in Open => calls[c].st \in Open
    /\ \A c \in NewCalls : /\ status[c[1]] # "none" /\ calls'[c].st = "pending"
                           /\ \A d \in DOMAIN calls : d[1] = c[1] => d[2] < c[2]
    /\ Kept(past') \subseteq Kept(past)
    /\ allowed \subseteq allowed'

LEMMA AheadGrows ==
    ASSUME TypeOK, Grows, NEW c \in DOMAIN calls, Ahead(calls, c)
    PROVE  Ahead(calls', c)
<1> SUFFICES ASSUME NEW d \in DOMAIN calls', d[1] = c[1], d[2] = c[2], d[3] < c[3]
             PROVE  calls'[d].st \notin Open
  BY DEF Ahead
<1>1. CASE d \in DOMAIN calls
  BY <1>1 DEF Ahead, Grows
<1>2. CASE d \notin DOMAIN calls
  <2>1. c[2] < d[2]
    BY <1>2 DEF Grows, NewCalls
  <2>2. c[2] \in Nat
    BY TypeParts, RowParts, CallParts
  <2> QED BY <2>1, <2>2
<1> QED BY <1>1, <1>2

(* A new card is of a call that asks and is the first without its answer. *)
Cards ==
    \A c \in DOMAIN calls : calls'[c].st = "asked" =>
        calls[c].st = "asked" \/ (calls[c].kind = "asks" /\ Ahead(calls, c))

LEMMA CopyParts ==
    ASSUME TypeOK, NEW k \in Copies
    PROVE  k.status \in [Run -> Statuses] /\ k.calls \in Table
<1>1. CASE k = Whole
  BY <1>1, TypeParts DEF Whole
<1>2. CASE k \in Kept(past)
  BY <1>2, KeptParts DEF TypeOK
<1> QED BY <1>1, <1>2 DEF Copies

LEMMA CoherentGrows ==
    ASSUME AgentInv, TypeOK', Grows, Cards, Kept(future') \subseteq Kept(future)
    PROVE  AllCoherent'
<1>1. TypeOK /\ AllCoherent
  BY DEF AgentInv
<1>2. \A k : Coherent(k) /\ k.status \in [Run -> Statuses] => Coherent(k)'
  <2> SUFFICES ASSUME NEW k, Coherent(k) PROVE Coherent(k)'
    OBVIOUS
  <2>1. \A r \in Run : k.status[r] # "none" => r <= issued'
    <3>1. \A r \in Run : r \in Nat
      BY CallParts
    <3> QED BY <1>1, <3>1, TypeParts DEF Coherent, Grows
  <2> QED BY <2>1 DEF Coherent
<1>3. ASSUME NEW k \in Kept(past) \union Kept(future) PROVE Coherent(k)'
  <2>1. Coherent(k)
    BY <1>1 DEF AllCoherent, Copies
  <2>2. k.status \in [Run -> Statuses]
    BY <1>1, KeptParts DEF TypeOK
  <2> QED BY <1>2, <2>1, <2>2
<1>4. ASSUME NEW k, k = Whole' PROVE Coherent(k)'
  <2>1. k.status = status' /\ k.calls = calls'
    BY <1>4 DEF Whole
  <2>2. Coherent(Whole)
    BY <1>1 DEF AllCoherent, Copies
  <2>3. \A c \in DOMAIN calls : /\ status[c[1]] # "none"
                                /\ calls[c].st = "asked" => calls[c].kind = "asks" /\ Ahead(calls, c)
    BY <2>2 DEF Coherent, Whole
  <2>4. \A r \in Run : status'[r] # "none" => r <= issued'
    BY DEF Grows
  <2>5. ASSUME NEW c \in DOMAIN calls'
        PROVE  /\ status'[c[1]] # "none"
               /\ calls'[c].st = "asked" => calls'[c].kind = "asks" /\ Ahead(calls', c)
    <3>1. CASE c \in DOMAIN calls
      <4>1. c[1] \in Run
        BY <1>1, <3>1, TypeParts, RowParts, CallParts
      <4>2. status'[c[1]] # "none"
        BY <2>3, <3>1, <4>1 DEF Grows
      <4>3. calls'[c].st = "asked" => calls'[c].kind = "asks" /\ Ahead(calls, c)
        BY <2>3, <3>1 DEF Cards, Grows
      <4> QED BY <1>1, <3>1, <4>2, <4>3, AheadGrows
    <3>2. CASE c \notin DOMAIN calls
      <4>1. calls' \in Table
        BY DEF TypeOK, Whole, Copy
      <4>2. c[1] \in Run
        BY <4>1, RowParts, CallParts
      <4>3. status[c[1]] # "none" /\ calls'[c].st = "pending"
        BY <3>2 DEF Grows, NewCalls
      <4> QED BY <4>2, <4>3 DEF Grows
    <3> QED BY <3>1, <3>2
  <2> QED BY <2>1, <2>4, <2>5 DEF Coherent
<1>5. ASSUME NEW k \in (Copies \union Kept(future))' PROVE Coherent(k)'
  <2>1. k = Whole' \/ k \in Kept(past') \/ k \in Kept(future')
    BY DEF Copies
  <2>2. Kept(past') \subseteq Kept(past)
    BY DEF Grows
  <2> QED BY <1>3, <1>4, <2>1, <2>2
<1> QED BY <1>5 DEF AllCoherent

(* No deletion is filed anew: those there were keep their places. *)
NoneNew(new, old) ==
    \A i \in DOMAIN new : new[i].kind = "delete" => i \in DOMAIN old /\ new[i] = old[i]

LEMMA NoneNewKept ==
    ASSUME NEW new, NEW old, NoneNew(new, old)
    PROVE  Kept(new) \subseteq Kept(old)
BY DEF NoneNew, Kept

LEMMA DeletionGrows ==
    ASSUME AgentInv, TypeOK', Grows, chat' = chat, NoneNew(past', past), NoneNew(future', future)
    PROVE  OneDeletion'
<1>1. TypeOK /\ OneDeletion /\ AllCoherent
  BY DEF AgentInv
<1>2. Kept(past') \subseteq Kept(past) /\ Kept(future') \subseteq Kept(future)
  BY NoneNewKept
<1>3. \A i, j \in DOMAIN past' : past'[i].kind = "delete" /\ past'[j].kind = "delete" => i = j
  BY <1>1 DEF NoneNew, OneDeletion
<1>4. \A i, j \in DOMAIN future' : future'[i].kind = "delete" /\ future'[j].kind = "delete" => i = j
  BY <1>1 DEF NoneNew, OneDeletion
<1>5. (chat' => Kept(past') = {}) /\ (~chat' => Kept(future') = {})
  BY <1>1, <1>2 DEF OneDeletion
<1>6. ASSUME NEW k \in Kept(past'), NEW r \in Run, k.status[r] # "none" PROVE status'[r] = "none"
  <2>1. k \in Kept(past)
    BY <1>2
  <2>2. status[r] = "none"
    BY <1>1, <1>6, <2>1 DEF OneDeletion
  <2>3. r <= issued
    BY <1>1, <1>6, <2>1 DEF AllCoherent, Copies, Coherent
  <2>4. r \in Nat /\ issued \in Nat
    BY <1>1, TypeParts, CallParts
  <2> QED BY <2>2, <2>3, <2>4 DEF Grows
<1> QED BY <1>3, <1>4, <1>5, <1>6 DEF OneDeletion

(* A call that was held is held on; one that is there, ahead of all without *)
(* an answer, may be taken.                                                 *)
Apt(c, kinds) ==
    \/ Holds(c, kinds)
    \/ c \in DOMAIN calls' /\ calls'[c].kind \in kinds /\ Ahead(calls', c)

HeldOn(c, kinds) ==
    /\ c[1] <= issued'
    /\ \A k \in Copies' : k.status[c[1]] # "none" =>
            c \in DOMAIN k.calls /\ k.calls[c].kind \in kinds /\ Ahead(k.calls, c)

LEMMA HoldsNext ==
    ASSUME AgentInv, TypeOK', Grows, AllCoherent', OneDeletion',
           NEW c \in CallId, NEW kinds, NEW more, kinds \subseteq more, Apt(c, kinds)
    PROVE  HeldOn(c, more)
<1>1. TypeOK /\ AllCoherent /\ OneDeletion
  BY DEF AgentInv
<1>2. c[1] \in Run /\ c[1] \in Nat /\ issued \in Nat /\ issued' \in Nat
  BY <1>1, TypeParts, CallParts DEF Grows
<1>3. CASE Holds(c, kinds)
  <2>1. c[1] <= issued'
    BY <1>2, <1>3 DEF Holds, Grows
  <2>2. ASSUME NEW k \in Copies', k.status[c[1]] # "none"
        PROVE  c \in DOMAIN k.calls /\ k.calls[c].kind \in more /\ Ahead(k.calls, c)
    <3>1. k = Whole' \/ k \in Kept(past')
      BY DEF Copies
    <3>2. CASE k \in Kept(past')
      <4>1. k \in Copies
        BY <3>2 DEF Grows, Copies
      <4> QED BY <1>3, <2>2, <4>1 DEF Holds
    <3>3. CASE k = Whole'
      <4>1. k.status = status' /\ k.calls = calls'
        BY <3>3 DEF Whole
      <4>2. status[c[1]] # "none"
        BY <1>2, <1>3, <2>2, <4>1 DEF Grows, Holds
      <4>5. Whole \in Copies /\ Whole.status = status /\ Whole.calls = calls
        BY DEF Copies, Whole
      <4>3. c \in DOMAIN calls /\ calls[c].kind \in kinds /\ Ahead(calls, c)
        <5>1. \A k0 \in Copies : k0.status[c[1]] # "none" =>
                  c \in DOMAIN k0.calls /\ k0.calls[c].kind \in kinds /\ Ahead(k0.calls, c)
          BY <1>3 DEF Holds
        <5> QED BY <4>2, <4>5, <5>1
      <4>4. Ahead(calls', c)
        BY <1>1, <4>3, AheadGrows
      <4> QED BY <4>1, <4>3, <4>4 DEF Grows
    <3> QED BY <3>1, <3>2, <3>3
  <2> QED BY <2>1, <2>2 DEF HeldOn
<1>4. CASE c \in DOMAIN calls' /\ calls'[c].kind \in kinds /\ Ahead(calls', c)
  <2>1. Coherent(Whole)'
    BY DEF AllCoherent, Copies
  <2>2. status'[c[1]] # "none" /\ c[1] <= issued'
    BY <1>2, <1>4, <2>1 DEF Coherent, Whole
  <2>3. ASSUME NEW k \in Copies', k.status[c[1]] # "none"
        PROVE  c \in DOMAIN k.calls /\ k.calls[c].kind \in more /\ Ahead(k.calls, c)
    <3>1. k = Whole' \/ k \in Kept(past')
      BY DEF Copies
    <3>2. k \notin Kept(past')
      BY <1>2, <2>2, <2>3 DEF OneDeletion
    <3>3. k.calls = calls'
      BY <3>1, <3>2 DEF Whole
    <3> QED BY <1>4, <3>3
  <2> QED BY <2>2, <2>3 DEF HeldOn
<1> QED BY <1>3, <1>4 DEF Apt

(* What the session holds after a step it held before it, or may take. *)
Ready(c, kinds) == c \in DOMAIN calls' /\ calls'[c].kind \in kinds /\ Ahead(calls', c)

EditsNow(c) == {"edit"} \union (IF c \in allowed' THEN {"asks"} ELSE {})

HandsApt ==
    \A r \in Run : LET p == active'[r] IN
        \/ p = active[r]
        \/ p.at \in {"no", "queued"}
        \/ p.at = "preparing" /\ Ready(p.call, {"native"} \union EditsNow(p.call))
        \/ p.at \in {"native", "ran"} /\ Apt(p.call, {"native"})

AptWrite(w) ==
    /\ w.what \notin {"send", "retry"}
    /\ w.what = "ask" => Apt(w.call, {"asks"})
    /\ w.what = "edit" => Apt(w.call, Edits(w.call))
    /\ w.what = "native" => Apt(w.call, {"native"})
    /\ w.what = "record" /\ w.st = "done" => Apt(w.call, {"now"})

(* The writer has taken s writes, and the session has handed it some. *)
QueueApt(s) ==
    \A i \in DOMAIN queue' :
        \/ i + s \in DOMAIN queue /\ queue'[i] = queue[i + s]
        \/ AptWrite(queue'[i]) \/ queue'[i].what \in {"send", "retry"}

LEMMA EditsGrow ==
    ASSUME Grows, NEW c
    PROVE  Edits(c) \subseteq EditsNow(c)
BY DEF Grows, Edits, EditsNow

LEMMA HandledGrows ==
    ASSUME AgentInv, TypeOK', Grows, AllCoherent', OneDeletion', HandsApt,
           NEW s \in {0, 1}, QueueApt(s)
    PROVE  Handled'
<1>1. TypeOK /\ Handled
  BY DEF AgentInv
<1>2. ASSUME NEW c \in CallId, NEW kinds, NEW more, kinds \subseteq more, Apt(c, kinds)
      PROVE  HeldOn(c, more)
  BY <1>2, HoldsNext
<1>3. \A r \in Run : active[r] \in Place /\ active'[r] \in Place
  BY <1>1 DEF TypeOK
<1>4. ASSUME NEW r \in Run, NEW p, p = active'[r], p.at = "preparing",
             NEW more, more = {"native"} \union EditsNow(p.call)
      PROVE  HeldOn(p.call, more)
  <2>1. p.call \in CallId
    BY <1>3, <1>4, PlaceTyped
  <2>2. \E kinds : Apt(p.call, kinds) /\ kinds \subseteq more
    <3>1. CASE p = active[r]
      <4>1. Holds(p.call, {"native"} \union Edits(p.call))
        BY <1>1, <1>4, <3>1 DEF Handled
      <4>2. Edits(p.call) \subseteq EditsNow(p.call)
        BY EditsGrow
      <4>3. Apt(p.call, {"native"} \union Edits(p.call))
        BY <4>1 DEF Apt
      <4>4. {"native"} \union Edits(p.call) \subseteq more
        BY <1>4, <4>2
      <4> QED BY <4>3, <4>4
    <3>2. CASE p # active[r]
      <4>1. Ready(p.call, more)
        BY <1>4, <3>2 DEF HandsApt
      <4> QED BY <4>1 DEF Ready, Apt
    <3> QED BY <3>1, <3>2
  <2> QED BY <1>2, <2>1, <2>2
<1>5. ASSUME NEW r \in Run, NEW p, p = active'[r], p.at \in {"native", "ran"}
      PROVE  HeldOn(p.call, {"native"})
  <2>1. p.call \in CallId
    BY <1>3, <1>5, PlaceTyped
  <2>2. Apt(p.call, {"native"})
    <3>1. CASE p = active[r]
      BY <1>1, <1>5, <3>1 DEF Handled, Apt
    <3>2. CASE p # active[r]
      BY <1>5, <3>2 DEF HandsApt
    <3> QED BY <3>1, <3>2
  <2> QED BY <1>2, <2>1, <2>2
<1>6. queue \in Seq(Written) /\ queue' \in Seq(Written)
  BY <1>1 DEF TypeOK
<1>7. ASSUME NEW i \in DOMAIN queue', NEW w, w = queue'[i]
      PROVE  /\ w.what = "ask" => HeldOn(w.call, {"asks"})
             /\ \A more : w.what = "edit" /\ more = EditsNow(w.call) => HeldOn(w.call, more)
             /\ w.what = "native" => HeldOn(w.call, {"native"})
             /\ w.what = "record" /\ w.st = "done" => HeldOn(w.call, {"now"})
  <2>1. w \in Written
    BY <1>6, <1>7
  <2>2. w.what \in {"ask", "edit", "native", "record"} => w.call \in CallId
    BY <2>1, WrittenParts
  <2>3. /\ w.what = "ask" => Apt(w.call, {"asks"})
        /\ w.what = "edit" => Apt(w.call, Edits(w.call))
        /\ w.what = "native" => Apt(w.call, {"native"})
        /\ w.what = "record" /\ w.st = "done" => Apt(w.call, {"now"})
    <3>1. CASE i + s \in DOMAIN queue /\ w = queue[i + s]
      BY <1>1, <3>1 DEF Handled, Apt
    <3>2. CASE AptWrite(w)
      BY <3>2 DEF AptWrite
    <3>3. CASE w.what \in {"send", "retry"}
      BY <3>3
    <3> QED BY <1>7, <3>1, <3>2, <3>3 DEF QueueApt
  <2>4. ASSUME NEW more, w.what = "edit", more = EditsNow(w.call) PROVE HeldOn(w.call, more)
    <3>1. Edits(w.call) \subseteq more
      BY <2>4, EditsGrow
    <3>2. \E kinds : Apt(w.call, kinds) /\ kinds \subseteq more
      BY <2>3, <2>4, <3>1
    <3> QED BY <1>2, <2>2, <2>4, <3>2
  <2> QED BY <1>2, <2>2, <2>3, <2>4
<1>8. ASSUME NEW r \in Run
      PROVE  /\ active'[r].at = "preparing" => Holds(active[r].call, {"native"} \union Edits(active[r].call))'
             /\ active'[r].at \in {"native", "ran"} => Holds(active[r].call, {"native"})'
  <2>1. active'[r].at = "preparing" =>
            HeldOn(active'[r].call, {"native"} \union EditsNow(active'[r].call))
    BY <1>4
  <2>2. active'[r].at \in {"native", "ran"} => HeldOn(active'[r].call, {"native"})
    BY <1>5
  <2>3. active'[r].at = "preparing" => Holds(active[r].call, {"native"} \union Edits(active[r].call))'
    BY <2>1 DEF HeldOn, Holds, Edits, EditsNow
  <2>4. active'[r].at \in {"native", "ran"} => Holds(active[r].call, {"native"})'
    BY <2>2 DEF HeldOn, Holds
  <2> QED BY <2>3, <2>4
<1>9. ASSUME NEW i \in DOMAIN queue'
      PROVE  /\ queue'[i].what = "ask" => Holds(queue[i].call, {"asks"})'
             /\ queue'[i].what = "edit" => Holds(queue[i].call, Edits(queue[i].call))'
             /\ queue'[i].what = "native" => Holds(queue[i].call, {"native"})'
             /\ queue'[i].what = "record" /\ queue'[i].st = "done" => Holds(queue[i].call, {"now"})'
  <2>1. /\ queue'[i].what = "ask" => HeldOn(queue'[i].call, {"asks"})
        /\ queue'[i].what = "native" => HeldOn(queue'[i].call, {"native"})
        /\ queue'[i].what = "record" /\ queue'[i].st = "done" => HeldOn(queue'[i].call, {"now"})
    BY <1>7
  <2>2. queue'[i].what = "edit" => HeldOn(queue'[i].call, EditsNow(queue'[i].call))
    BY <1>7
  <2>3. queue'[i].what = "ask" => Holds(queue[i].call, {"asks"})'
    BY <2>1 DEF HeldOn, Holds
  <2>4. queue'[i].what = "edit" => Holds(queue[i].call, Edits(queue[i].call))'
    BY <2>2 DEF HeldOn, Holds, Edits, EditsNow
  <2>5. queue'[i].what = "native" => Holds(queue[i].call, {"native"})'
    BY <2>1 DEF HeldOn, Holds
  <2>6. queue'[i].what = "record" /\ queue'[i].st = "done" => Holds(queue[i].call, {"now"})'
    BY <2>1 DEF HeldOn, Holds
  <2> QED BY <2>3, <2>4, <2>5, <2>6
<1> QED BY <1>8, <1>9 DEF Handled

(* A worker reads on, or reads a call of its run that is there. *)
Reads ==
    /\ \A r \in Run : worker'[r].at \in {"reading", "read"} =>
         \/ worker[r].at \in {"reading", "read"} /\ worker'[r].call = worker[r].call
         \/ /\ worker'[r].call[1] = r /\ worker'[r].call \in DOMAIN calls
            /\ calls[worker'[r].call].kind = "read"
    /\ \A c \in NewCalls : worker[c[1]].at \notin {"reading", "read"} /\ worker'[c[1]].at \notin {"reading", "read"}

(* A run that is there is in no copy a deletion has. *)
LEMMA InOnePlace ==
    ASSUME AgentInv, NEW c \in DOMAIN calls, NEW k \in Kept(past)
    PROVE  /\ k.status[c[1]] = "none" /\ c \notin DOMAIN k.calls
           /\ status[c[1]] # "none" /\ c \in CallId /\ c[1] \in Run
<1>1. TypeOK /\ AllCoherent /\ OneDeletion
  BY DEF AgentInv
<1>2. Coherent(Whole) /\ Coherent(k)
  BY <1>1 DEF AllCoherent, Copies
<1>3. c \in CallId /\ c[1] \in Run
  BY <1>1, TypeParts, RowParts, CallParts
<1>4. status[c[1]] # "none"
  BY <1>2 DEF Coherent, Whole
<1>5. k.status[c[1]] = "none"
  BY <1>1, <1>3, <1>4 DEF OneDeletion
<1> QED BY <1>2, <1>3, <1>4, <1>5 DEF Coherent

LEMMA ReadingGrows ==
    ASSUME AgentInv, TypeOK', Grows, Reads, strayed \subseteq strayed'
    PROVE  Reading'
<1>1. TypeOK /\ Reading
  BY DEF AgentInv
<1>2. ASSUME NEW r \in Run, worker'[r].at \in {"reading", "read"}, NEW c, c = worker'[r].call
      PROVE  /\ c[1] = r
             /\ "lost" \notin strayed' => \A k \in Copies' :
                    c \in DOMAIN k.calls => k.calls[c].kind = "read"
  <2>1. CASE worker[r].at \in {"reading", "read"} /\ c = worker[r].call
    <3>1. c[1] = r
      BY <1>1, <2>1 DEF Reading
    <3>2. ASSUME "lost" \notin strayed', NEW k \in Copies', c \in DOMAIN k.calls
          PROVE  k.calls[c].kind = "read"
      <4>1. \A k0 \in Copies : c \in DOMAIN k0.calls => k0.calls[c].kind = "read"
        BY <1>1, <2>1, <3>2 DEF Reading
      <4>2. k = Whole' \/ k \in Kept(past')
        BY DEF Copies
      <4>3. CASE k \in Kept(past')
        BY <3>2, <4>1, <4>3 DEF Copies, Grows
      <4>4. CASE k = Whole'
        <5>1. k.calls = calls'
          BY <4>4 DEF Whole
        <5>2. c \notin NewCalls
          BY <1>2, <3>1 DEF Reads
        <5>3. c \in DOMAIN calls
          BY <3>2, <5>1, <5>2 DEF NewCalls
        <5>4. Whole \in Copies /\ Whole.calls = calls
          BY DEF Copies, Whole
        <5>5. calls[c].kind = "read"
          BY <4>1, <5>3, <5>4
        <5> QED BY <5>1, <5>3, <5>5 DEF Grows
      <4> QED BY <4>2, <4>3, <4>4
    <3> QED BY <3>1, <3>2
  <2>2. CASE c[1] = r /\ c \in DOMAIN calls /\ calls[c].kind = "read"
    <3>1. ASSUME NEW k \in Copies', c \in DOMAIN k.calls PROVE k.calls[c].kind = "read"
      <4>1. k = Whole' \/ k \in Kept(past')
        BY DEF Copies
      <4>2. k \notin Kept(past')
        BY <2>2, <3>1, InOnePlace DEF Grows
      <4>3. k.calls = calls'
        BY <4>1, <4>2 DEF Whole
      <4> QED BY <2>2, <4>3 DEF Grows
    <3> QED BY <2>2, <3>1
  <2> QED BY <1>2, <2>1, <2>2 DEF Reads
<1> QED BY <1>2 DEF Reading

(* What is made is a tool that runs at once or a command of a call that is
   held or may be taken, or an edit with its answer; no other edit is answered. *)
Reckons ==
    /\ \A c \in CallId :
         \/ made'[c] = made[c] /\ c \notin DOMAIN calls
         \/ /\ made'[c] = made[c] /\ c \in DOMAIN calls
            /\ "lost" \notin strayed /\ calls[c].kind \in {"edit", "asks"}
                 => (calls'[c].st = "done" <=> calls[c].st = "done")
         \/ Apt(c, {"now", "native"}) /\ c \notin NewCalls
         \/ made'[c] = made[c] + 1 /\ c \in DOMAIN calls /\ calls[c].st \in Open /\ calls'[c].st = "done"
    /\ \A c \in CallId : made'[c] \in Nat

LEMMA AccountedGrows ==
    ASSUME AgentInv, TypeOK', Grows, AllCoherent', OneDeletion', Reckons, strayed \subseteq strayed'
    PROVE  Accounted'
<1>1. TypeOK /\ AllCoherent /\ OneDeletion /\ Accounted
  BY DEF AgentInv
<1>2. \A c \in CallId : made[c] \in Nat /\ c[1] \in Run /\ c[1] \in Nat
  BY <1>1, CallParts DEF TypeOK
<1>3. issued \in Nat /\ issued' \in Nat /\ issued <= issued'
  BY <1>1, TypeParts DEF Grows
<1>4. Coherent(Whole)
  BY <1>1 DEF AllCoherent, Copies
<1>5. \A k \in Copies' : \A c \in DOMAIN k.calls : k.status[c[1]] # "none" /\ c \in CallId
  <2> SUFFICES ASSUME NEW k \in Copies', NEW c \in DOMAIN k.calls
               PROVE  k.status[c[1]] # "none" /\ c \in CallId
    OBVIOUS
  <2>4. Coherent(k)'
    BY DEF AllCoherent
  <2>1. k.status[c[1]] # "none"
    BY <2>4 DEF Coherent
  <2>2. k = Whole' \/ k \in Kept(past)
    BY DEF Copies, Grows
  <2>3. k.calls \in Table
    <3>1. CASE k = Whole'
      BY <3>1 DEF Whole, TypeOK, Copy
    <3>2. CASE k \in Kept(past)
      BY <1>1, <3>2, KeptParts DEF TypeOK
    <3> QED BY <2>2, <3>1, <3>2
  <2> QED BY <2>1, <2>3, RowParts
<1>6. Whole \in Copies /\ Whole.status = status /\ Whole.calls = calls
  BY DEF Copies, Whole
<1>7. \A k \in Copies' : k \in Kept(past) \/ (k.status = status' /\ k.calls = calls')
  BY DEF Copies, Grows, Whole
<1>8. ASSUME NEW c \in CallId, made'[c] > 0
      PROVE  /\ c[1] <= issued'
             /\ "lost" \notin strayed' => \A k \in Copies' : k.status[c[1]] # "none" => c \in DOMAIN k.calls
  <2>1. CASE made'[c] = made[c]
    <3>1. c[1] <= issued
      BY <1>1, <1>8, <2>1 DEF Accounted
    <3>2. ASSUME "lost" \notin strayed', NEW k \in Copies', k.status[c[1]] # "none"
          PROVE  c \in DOMAIN k.calls
      <4>1. \A k0 \in Copies : k0.status[c[1]] # "none" => c \in DOMAIN k0.calls
        BY <1>1, <1>8, <2>1, <3>2 DEF Accounted
      <4>2. CASE k \in Kept(past)
        BY <3>2, <4>1, <4>2 DEF Copies
      <4>3. CASE k.status = status' /\ k.calls = calls'
        <5>1. status[c[1]] # "none"
          BY <1>2, <1>3, <3>1, <3>2, <4>3 DEF Grows
        <5>2. c \in DOMAIN calls
          BY <1>6, <4>1, <5>1
        <5> QED BY <4>3, <5>2 DEF Grows
      <4> QED BY <1>7, <4>2, <4>3
    <3> QED BY <1>2, <1>3, <3>1, <3>2
  <2>2. CASE Apt(c, {"now", "native"})
    <3>1. HeldOn(c, {"now", "native"})
      BY <2>2, HoldsNext
    <3> QED BY <3>1 DEF HeldOn
  <2>3. CASE c \in DOMAIN calls
    <3>1. status[c[1]] # "none"
      BY <1>4, <2>3 DEF Coherent, Whole
    <3>2. c[1] <= issued
      BY <1>2, <1>4, <3>1 DEF Coherent, Whole
    <3>3. \A k \in Copies' : k.status[c[1]] # "none" => c \in DOMAIN k.calls
      BY <1>7, <2>3, InOnePlace DEF Grows
    <3> QED BY <1>2, <1>3, <3>2, <3>3
  <2> QED BY <2>1, <2>2, <2>3 DEF Reckons
<1>9. ASSUME "lost" \notin strayed', NEW k \in Copies', NEW c \in DOMAIN k.calls,
             k.calls[c].kind \in {"edit", "asks"}
      PROVE  made'[c] <= 1 /\ (made'[c] = 1 <=> k.calls[c].st = "done")
  <2>1. c \in CallId /\ k.status[c[1]] # "none"
    BY <1>5
  <2>2. ~Apt(c, {"now", "native"})
    <3> SUFFICES ASSUME Apt(c, {"now", "native"}) PROVE FALSE
      OBVIOUS
    <3>1. HeldOn(c, {"now", "native"})
      BY <2>1, HoldsNext
    <3> QED BY <1>9, <2>1, <3>1 DEF HeldOn
  <2>3. CASE k \in Kept(past)
    <3>1. c \notin DOMAIN calls
      BY <2>3, InOnePlace
    <3>2. made'[c] = made[c]
      BY <2>1, <2>2, <3>1 DEF Reckons
    <3>3. k \in Copies /\ "lost" \notin strayed
      BY <1>9, <2>3 DEF Copies
    <3>4. made[c] <= 1 /\ (made[c] = 1 <=> k.calls[c].st = "done")
      BY <1>1, <1>9, <3>3 DEF Accounted
    <3> QED BY <3>2, <3>4
  <2>4. CASE k.status = status' /\ k.calls = calls'
    <3>0. "lost" \notin strayed
      BY <1>9
    <3>1. CASE c \in DOMAIN calls
      <4>1. calls[c].kind \in {"edit", "asks"}
        BY <1>9, <2>4, <3>1 DEF Grows
      <4>2. made[c] <= 1 /\ (made[c] = 1 <=> calls[c].st = "done")
        BY <1>1, <1>6, <3>0, <3>1, <4>1 DEF Accounted
      <4>3. CASE made'[c] = made[c] /\ (calls'[c].st = "done" <=> calls[c].st = "done")
        BY <2>4, <4>2, <4>3
      <4>4. CASE made'[c] = made[c] + 1 /\ calls[c].st \in Open /\ calls'[c].st = "done"
        <5>1. made[c] # 1 /\ made[c] \in Nat
          BY <1>2, <2>1, <4>2, <4>4 DEF Open
        <5>2. made[c] = 0
          BY <4>2, <5>1
        <5> QED BY <2>4, <4>4, <5>2
      <4> QED BY <2>1, <2>2, <3>0, <3>1, <4>1, <4>3, <4>4 DEF Reckons
    <3>2. CASE c \notin DOMAIN calls
      <4>1. c \in NewCalls
        BY <2>4, <3>2 DEF NewCalls
      <4>2. status[c[1]] # "none" /\ calls'[c].st = "pending"
        BY <4>1 DEF Grows
      <4>3. ~(made[c] > 0)
        BY <1>1, <1>6, <2>1, <3>0, <3>2, <4>2 DEF Accounted
      <4>4. made'[c] = made[c]
        BY <2>1, <2>2, <3>2 DEF Reckons
      <4>5. made[c] = 0
        BY <1>2, <2>1, <4>3
      <4> QED BY <2>4, <4>2, <4>4, <4>5
    <3> QED BY <3>1, <3>2
  <2> QED BY <1>7, <2>3, <2>4
<1> QED BY <1>8, <1>9 DEF Accounted

(* All of it, for a step that only adds. *)
Adds(s) ==
    /\ Grows /\ Cards /\ chat' = chat
    /\ NoneNew(past', past) /\ NoneNew(future', future)
    /\ HandsApt /\ QueueApt(s) /\ Reads /\ Reckons /\ strayed \subseteq strayed'

LEMMA AddsKeeps ==
    ASSUME AgentInv, TypeOK', WalksAlone', NEW s \in {0, 1}, Adds(s)
    PROVE  AgentInv'
<1>1. Kept(future') \subseteq Kept(future)
  BY NoneNewKept DEF Adds
<1>2. AllCoherent'
  BY <1>1, CoherentGrows DEF Adds
<1>3. OneDeletion'
  BY DeletionGrows DEF Adds
<1>4. Handled'
  BY <1>2, <1>3, HandledGrows DEF Adds
<1>5. Reading'
  BY ReadingGrows DEF Adds
<1>6. Accounted'
  BY <1>2, <1>3, AccountedGrows DEF Adds
<1> QED BY <1>2, <1>3, <1>4, <1>5, <1>6 DEF AgentInv

(* What a look of the session's walk comes to, in the state after it. *)
Took(act, q, md) == Served(status', calls', act, q, md, Kept0(active', queue', made'))

Due(c) ==
    /\ c \in DOMAIN calls' /\ calls'[c] = [kind |-> "now", st |-> "pending"]
    /\ Ahead(calls', c) /\ status'[c[1]] = "waiting"

LEMMA ServedShape ==
    ASSUME NEW st, NEW cs, NEW act, NEW q, NEW md, NEW w, Served(st, cs, act, q, md, w)
    PROVE  w = Kept0(w.active, w.queue, w.made)
BY DEF Served, ServedOne, Kept0

LEMMA TookParts ==
    ASSUME status' \in [Run -> Statuses], calls' \in Table,
           NEW act \in [Run -> Place], NEW q \in Seq(Written), NEW md \in [CallId -> Nat],
           Took(act, q, md)
    PROVE  /\ active' \in [Run -> Place] /\ queue' \in Seq(Written) /\ made' \in [CallId -> Nat]
           /\ \A r \in Run : \/ active'[r] = act[r] \/ active'[r].at = "queued"
                             \/ /\ active'[r].at = "preparing"
                                /\ Ready(active'[r].call, {"native"} \union EditsNow(active'[r].call))
           /\ queue' = q \/ \E x \in Written : queue' = Append(q, x) /\ AptWrite(x)
           /\ \A c \in CallId : made'[c] = md[c] \/ (made'[c] = md[c] + 1 /\ Due(c))
<1> DEFINE w == Kept0(active', queue', made')
<1>1. w.active = active' /\ w.queue = queue' /\ w.made = made'
  BY DEF Kept0
<1>2. Served(status', calls', act, q, md, w)
  BY DEF Took
<1> HIDE DEF w
<1>3. w.active \in [Run -> Place] /\ w.queue \in Seq(Written) /\ w.made \in [CallId -> Nat]
  BY <1>2, ServedTyped
<1>4. CASE w = Kept0(act, q, md)
  BY <1>1, <1>3, <1>4 DEF Kept0
<1>5. ASSUME NEW r \in Run, NEW c \in DOMAIN calls', ServedOne(status', calls', act, q, md, w, r, c)
      PROVE  /\ \A p \in Run : \/ active'[p] = act[p] \/ active'[p].at = "queued"
                               \/ /\ active'[p].at = "preparing"
                                  /\ Ready(active'[p].call, {"native"} \union EditsNow(active'[p].call))
             /\ queue' = q \/ \E x \in Written : queue' = Append(q, x) /\ AptWrite(x)
             /\ \A d \in CallId : made'[d] = md[d] \/ (made'[d] = md[d] + 1 /\ Due(d))
  <2>1. c \in CallId /\ calls'[c] = [kind |-> calls'[c].kind, st |-> calls'[c].st]
    BY RowParts
  <2>2. c[1] = r /\ status'[r] = "waiting" /\ calls'[c].st = "pending" /\ Ahead(calls', c)
    BY <1>5 DEF ServedOne
  <2>3. CASE calls'[c].kind = "asks"
    <3>1. w = Kept0([act EXCEPT ![r] = Doing("queued", c)], Append(q, Write("ask", c, "asked", r)), md)
      BY <1>5, <2>3 DEF ServedOne
    <3>2. active' = [act EXCEPT ![r] = Doing("queued", c)] /\ made' = md
      BY <1>1, <3>1 DEF Kept0
    <3>3. queue' = Append(q, Write("ask", c, "asked", r))
      BY <1>1, <3>1 DEF Kept0
    <3>4. AptWrite(Write("ask", c, "asked", r)) /\ Write("ask", c, "asked", r) \in Written
      <4>1. Apt(c, {"asks"})
        BY <2>2, <2>3 DEF Apt
      <4>2. /\ Write("ask", c, "asked", r).what = "ask" /\ Write("ask", c, "asked", r).call = c
            /\ Write("ask", c, "asked", r).st = "asked"
        BY DEF Write
      <4>3. AptWrite(Write("ask", c, "asked", r))
        BY <4>1, <4>2 DEF AptWrite
      <4> QED BY <2>1, <4>3, WrittenTyped
    <3>5. Doing("queued", c).at = "queued"
      BY DEF Doing
    <3>6. \A p \in Run : active'[p] = act[p] \/ active'[p].at = "queued"
      BY <3>2, <3>5
    <3> QED BY <3>2, <3>3, <3>4, <3>6
  <2>4. CASE calls'[c].kind = "now"
    <3>1. \/ w = Kept0([act EXCEPT ![r] = Doing("queued", c)],
                       Append(q, Write("record", c, "done", r)), [md EXCEPT ![c] = @ + 1])
          \/ w = Kept0([act EXCEPT ![r] = Doing("queued", c)],
                       Append(q, Write("record", c, "failed", r)), md)
      BY <1>5, <2>4 DEF ServedOne
    <3>2. /\ active' = [act EXCEPT ![r] = Doing("queued", c)]
          /\ made' = [md EXCEPT ![c] = @ + 1] \/ made' = md
      BY <1>1, <3>1 DEF Kept0
    <3>3. \/ queue' = Append(q, Write("record", c, "done", r))
          \/ queue' = Append(q, Write("record", c, "failed", r))
      BY <1>1, <3>1 DEF Kept0
    <3>4. AptWrite(Write("record", c, "done", r)) /\ Write("record", c, "done", r) \in Written
      <4>1. Apt(c, {"now"})
        BY <2>2, <2>4 DEF Apt
      <4>2. /\ Write("record", c, "done", r).what = "record" /\ Write("record", c, "done", r).call = c
            /\ Write("record", c, "done", r).st = "done"
        BY DEF Write
      <4>3. AptWrite(Write("record", c, "done", r))
        BY <4>1, <4>2 DEF AptWrite
      <4> QED BY <2>1, <4>3, WrittenTyped
    <3>10. AptWrite(Write("record", c, "failed", r)) /\ Write("record", c, "failed", r) \in Written
      <4>1. /\ Write("record", c, "failed", r).what = "record"
            /\ Write("record", c, "failed", r).st = "failed"
        BY DEF Write
      <4> QED BY <2>1, <4>1, WrittenTyped DEF AptWrite
    <3>5. Doing("queued", c).at = "queued"
      BY DEF Doing
    <3>6. \A p \in Run : active'[p] = act[p] \/ active'[p].at = "queued"
      BY <3>2, <3>5
    <3>7. Due(c)
      BY <2>1, <2>2, <2>4 DEF Due
    <3>8. \A d \in CallId : made'[d] = md[d] \/ (made'[d] = md[d] + 1 /\ Due(d))
      BY <3>2, <3>7
    <3> QED BY <3>3, <3>4, <3>6, <3>8, <3>10
  <2>5. CASE calls'[c].kind \in {"edit", "native"}
    <3>1. w = Kept0([act EXCEPT ![r] = Doing("preparing", c)], q, md)
      BY <1>5, <2>5 DEF ServedOne
    <3>2. active' = [act EXCEPT ![r] = Doing("preparing", c)] /\ made' = md /\ queue' = q
      BY <1>1, <3>1 DEF Kept0
    <3>3. Doing("preparing", c).at = "preparing" /\ Doing("preparing", c).call = c
      BY DEF Doing
    <3>4. calls'[c].kind \in {"native"} \union EditsNow(c)
      BY <2>5 DEF EditsNow
    <3>5. Ready(c, {"native"} \union EditsNow(c))
      BY <2>2, <3>4 DEF Ready
    <3>6. \A p \in Run : \/ active'[p] = act[p]
                         \/ active'[p] = Doing("preparing", c)
      BY <3>2
    <3>7. ASSUME NEW p \in Run, active'[p] = Doing("preparing", c)
          PROVE  active'[p].at = "preparing"
                 /\ Ready(active'[p].call, {"native"} \union EditsNow(active'[p].call))
      BY <3>3, <3>5, <3>7
    <3> QED BY <3>2, <3>6, <3>7
  <2> QED BY <1>5, <2>3, <2>4, <2>5 DEF ServedOne
<1> QED BY <1>1, <1>2, <1>3, <1>4, <1>5 DEF Served

LEMMA FinishedIs ==
    ASSUME status' \in [Run -> Statuses], calls' \in Table,
           NEW r, NEW q,
           NEW md \in [CallId -> Nat], Finished(r, q, md)
    PROVE  Took([active EXCEPT ![r] = Free], q, md) /\ KickAll(status')
<1> DEFINE free == [active EXCEPT ![r] = Free]
           Taken(works) == IF status'[r] = "none" THEN [active |-> free, queue |-> q, made |-> md]
                           ELSE Serve(status', calls', free, q, md, works)
<1>0. PICK works \in BOOLEAN :
        LET w == Taken(works) IN active' = w.active /\ queue' = w.queue /\ made' = w.made
  BY DEF Finished
<1> DEFINE w == Taken(works)
<1>1. active' = w.active /\ queue' = w.queue /\ made' = w.made /\ KickAll(status')
  BY <1>0 DEF Finished
<1>2. Served(status', calls', free, q, md, w)
  <2>1. CASE status'[r] = "none"
    BY <2>1 DEF Served, Kept0
  <2>2. CASE status'[r] # "none"
    <3>1. Served(status', calls', free, q, md, Serve(status', calls', free, q, md, works))
      BY ServeIs
    <3> QED BY <2>2, <3>1
  <2> QED BY <2>1, <2>2
<1> HIDE DEF w, Taken, free
<1>3. w = Kept0(w.active, w.queue, w.made)
  BY <1>2, ServedShape
<1>4. Kept0(active', queue', made') = w
  BY <1>1, <1>3
<1> QED BY <1>1, <1>2, <1>4 DEF Took, free

(* The session's state after such a look, from what it had after the write. *)
LEMMA TookApt ==
    ASSUME AgentInv, status' \in [Run -> Statuses], calls' \in Table, NEW s \in {0, 1},
           NEW act \in [Run -> Place], NEW q \in Seq(Written), NEW md \in [CallId -> Nat],
           Took(act, q, md),
           \A r \in Run : act[r] = active[r] \/ act[r].at \in {"no", "queued"},
           \A i \in DOMAIN q : i + s \in DOMAIN queue /\ q[i] = queue[i + s]
    PROVE  HandsApt /\ QueueApt(s)
<1>1. HandsApt
  <2> SUFFICES ASSUME NEW r \in Run
               PROVE  \/ active'[r] = active[r] \/ active'[r].at \in {"no", "queued"}
                      \/ active'[r].at = "preparing"
                         /\ Ready(active'[r].call, {"native"} \union EditsNow(active'[r].call))
    BY DEF HandsApt
  <2> QED BY TookParts
<1>2. QueueApt(s)
  <2> SUFFICES ASSUME NEW i \in DOMAIN queue'
               PROVE  \/ i + s \in DOMAIN queue /\ queue'[i] = queue[i + s]
                      \/ AptWrite(queue'[i])
    BY DEF QueueApt, AptWrite
  <2>1. CASE queue' = q
    BY <2>1
  <2>2. ASSUME NEW x \in Written, queue' = Append(q, x), AptWrite(x)
        PROVE  \/ i + s \in DOMAIN queue /\ queue'[i] = queue[i + s]
               \/ AptWrite(queue'[i])
    <3>1. (i \in DOMAIN q /\ queue'[i] = q[i]) \/ queue'[i] = x
      BY <2>2
    <3> QED BY <2>2, <3>1
  <2> QED BY <2>1, <2>2, TookParts
<1> QED BY <1>1, <1>2

(* A write taken off the queue, or none. *)
LEMMA TailParts ==
    ASSUME NEW S, NEW q \in Seq(S), q # <<>>
    PROVE  /\ Tail(q) \in Seq(S) /\ Head(q) \in S /\ 1 \in DOMAIN q /\ Head(q) = q[1]
           /\ \A i \in DOMAIN Tail(q) : i + 1 \in DOMAIN q /\ Tail(q)[i] = q[i + 1]
OBVIOUS

LEMMA Unquiet ==
    ASSUME AgentInv, queue # <<>> \/ \E r \in Run : active[r] # Free
    PROVE  walk = NoWalk
BY DEF AgentInv, WalksAlone, Quiet

----------------------------------------------------------------------------
(* The worker's steps.                                                      *)

LEMMA TypeAll ==
    ASSUME TypeOK
    PROVE  /\ status \in [Run -> Statuses] /\ turns \in Seq(TurnRow) /\ calls \in Table
           /\ issued \in 0 .. MaxRuns /\ chat \in BOOLEAN
           /\ worker \in [Run -> Passing] /\ awake \subseteq Run
           /\ active \in [Run -> Place] /\ queue \in Seq(Written)
           /\ past \in Seq(Undoable) /\ future \in Seq(Undoable) /\ walk \in Begun \union {NoWalk}
           /\ made \in [CallId -> Nat] /\ allowed \subseteq CallId
           /\ strayed \subseteq Strayings /\ person \in BOOLEAN \X Nat
BY TypeParts DEF TypeOK, person

LEMMA StraysTyped ==
    ASSUME TypeOK, strayed' = strayed \/ \E word \in Strayings : strayed' \subseteq strayed \union {word}
    PROVE  strayed' \subseteq Strayings
BY TypeAll

LEMMA StrayWords == {"reopened", "behind", "lost", "crowded", "adrift"} = Strayings
BY DEF Strayings

LEMMA PassTyped ==
    /\ Asleep \in Passing /\ Asleep.at = "idle"
    /\ \A place \in {"idle", "next", "answered", "claimed", "gateway", "says", "cut", "error"} :
         At(place) \in Passing /\ At(place).at = place
    /\ \A place \in {"reading", "read"}, c \in CallId :
         /\ Holding(place, c) \in Passing
         /\ Holding(place, c).at = place /\ Holding(place, c).call = c
    /\ \A tools \in Rounds, at \in {"calls", "says"} :
         [At(at) EXCEPT !.tools = tools] \in Passing /\ [At(at) EXCEPT !.tools = tools].at = at
    /\ \A w \in Passing : /\ w.at \in {"reading", "read"} => w.call \in CallId
                          /\ w.at = "calls" => w.tools \in Rounds
                          /\ w.tools # <<>> => w.tools \in Rounds /\ w.at \in {"calls", "says"}
<1>1. At("idle") = Asleep
  BY DEF At, Asleep
<1>2. \A place \in {"idle", "next", "answered", "claimed", "gateway", "says", "cut", "error"} :
         At(place) \in Passing /\ At(place).at = place
  BY DEF At, Asleep, Passing
<1>3. \A place \in {"reading", "read"}, c \in CallId :
         /\ Holding(place, c) \in Passing
         /\ Holding(place, c).at = place /\ Holding(place, c).call = c
  BY DEF Holding, Asleep, Passing
<1>4. \A tools \in Rounds, at \in {"calls", "says"} :
         [At(at) EXCEPT !.tools = tools] \in Passing /\ [At(at) EXCEPT !.tools = tools].at = at
  BY DEF At, Asleep, Passing
<1>5. \A w \in Passing : /\ w.at \in {"reading", "read"} => w.call \in CallId
                         /\ w.at = "calls" => w.tools \in Rounds
                         /\ w.tools # <<>> => w.tools \in Rounds /\ w.at \in {"calls", "says"}
  BY DEF At, Asleep, Passing
<1> QED BY <1>1, <1>2, <1>3, <1>4, <1>5

LEMMA PassStep ==
    ASSUME TypeOK, NEW r \in Run, NEW w \in Passing, worker' = [worker EXCEPT ![r] = w],
           NewCalls = {},
           w.at \in {"reading", "read"} =>
              \/ worker[r].at \in {"reading", "read"} /\ w.call = worker[r].call
              \/ w.call[1] = r /\ w.call \in DOMAIN calls /\ calls[w.call].kind = "read"
    PROVE  worker' \in [Run -> Passing] /\ Reads
<1>1. worker \in [Run -> Passing]
  BY DEF TypeOK
<1>2. \A p \in Run : worker'[p] = worker[p] \/ (p = r /\ worker'[p] = w)
  BY <1>1
<1>3. worker' \in [Run -> Passing]
  BY <1>1
<1> QED BY <1>2, <1>3 DEF Reads

LEMMA GrowsCalls ==
    ASSUME AgentInv, TypeOK', issued' = issued, Kept(past') \subseteq Kept(past),
           allowed \subseteq allowed',
           \A r \in Run : status'[r] = "none" <=> status[r] = "none",
           DOMAIN calls' = DOMAIN calls,
           \A c \in DOMAIN calls : /\ calls'[c].kind = calls[c].kind
                                   /\ calls'[c].st \in Open => calls[c].st \in Open
    PROVE  Grows /\ NewCalls = {}
<1>1. Coherent(Whole) /\ issued \in Nat
  BY TypeParts DEF AgentInv, AllCoherent, Copies
<1>2. \A r \in Run : status[r] # "none" => r <= issued
  BY <1>1 DEF Coherent, Whole
<1> QED BY <1>1, <1>2 DEF Grows, NewCalls

(* Nothing of the session's moves, and only a row that is no edit's changes. *)
LEMMA WorkerKeeps ==
    ASSUME AgentInv, TypeOK', UNCHANGED <<issued, chat, hands, made, allowed, person>>,
           strayed \subseteq strayed', Reads,
           \A r \in Run : status'[r] = "none" <=> status[r] = "none",
           DOMAIN calls' = DOMAIN calls,
           \A c \in DOMAIN calls :
              \/ calls'[c] = calls[c]
              \/ /\ calls'[c].kind = calls[c].kind /\ calls'[c].st \notin Open
                 /\ "lost" \in strayed \/ calls[c].kind \notin {"edit", "asks"}
    PROVE  AgentInv'
<1>1. active' = active /\ queue' = queue /\ past' = past /\ future' = future /\ walk' = walk
  BY DEF hands
<1>2. Grows /\ NewCalls = {}
  BY <1>1, GrowsCalls
<1>3. Cards
  <2> SUFFICES ASSUME NEW c \in DOMAIN calls, calls'[c].st = "asked"
               PROVE  calls[c].st = "asked"
    BY DEF Cards
  <2> QED BY DEF Open
<1>4. NoneNew(past', past) /\ NoneNew(future', future)
  BY <1>1 DEF NoneNew
<1>5. HandsApt
  BY <1>1 DEF HandsApt
<1>6. QueueApt(0)
  <2>1. queue \in Seq(Written)
    BY DEF AgentInv, TypeOK
  <2>2. \A i \in DOMAIN queue : i + 0 = i
    BY <2>1
  <2> QED BY <1>1, <2>2 DEF QueueApt
<1>7. Reckons
  <2>1. \A c \in CallId : made'[c] = made[c] /\ made'[c] \in Nat
    BY DEF AgentInv, TypeOK
  <2> QED BY <2>1 DEF Reckons
<1>8. WalksAlone'
  BY <1>1 DEF AgentInv, WalksAlone, Quiet, person
<1> QED BY <1>2, <1>3, <1>4, <1>5, <1>6, <1>7, <1>8, AddsKeeps DEF Adds

LEMMA WaitsKeeps ==
    ASSUME AgentInv, NEW r \in Run, PassPending(r)
    PROVE  AgentInv'
<1>1. TypeOK /\ r \in Run
  BY DEF AgentInv
<1>2. UNCHANGED <<issued, turns, calls, chat, hands, ghosts, person>>
  BY DEF PassPending
<1>3. At("claimed") \in Passing /\ At("claimed").at = "claimed"
  BY PassTyped
<1>4. NewCalls = {} /\ worker' = [worker EXCEPT ![r] = At("claimed")]
  BY <1>2 DEF NewCalls, PassPending
<1>5. worker' \in [Run -> Passing] /\ Reads
  BY <1>1, <1>3, <1>4, PassStep
<1>6. status' = [status EXCEPT ![r] = "streaming"] /\ status[r] = "pending"
  BY DEF PassPending
<1>7. status \in [Run -> Statuses] /\ "streaming" \in Statuses
  BY <1>1, TypeParts DEF Statuses, Live
<1>8. status' \in [Run -> Statuses] /\ \A p \in Run : status'[p] = "none" <=> status[p] = "none"
  BY <1>6, <1>7
<1>9. awake' \subseteq awake
  BY DEF PassPending
<1>10. TypeOK'
  BY <1>1, <1>2, <1>5, <1>8, <1>9, TypeAll, TypesNext DEF hands, ghosts
<1> QED BY <1>2, <1>5, <1>8, <1>10, WorkerKeeps DEF ghosts

LEMMA LookKeeps ==
    ASSUME AgentInv, NEW r \in Run, Look(r), awake' \subseteq awake, UNCHANGED <<hands, ghosts, person>>
    PROVE  AgentInv'
<1> DEFINE round == RoundOf(calls, r)
           open == {i \in DOMAIN round : calls[round[i]].st \in Open}
           first == round[Min(open)]
           mine == open # {} /\ calls[first] = [kind |-> "read", st |-> "pending"]
           ended == round # <<>> /\ open = {}
           w == IF Stopped(r) \/ ~(mine \/ ended) THEN Asleep
                ELSE IF mine THEN Holding("reading", first) ELSE At("answered")
<1>1. TypeOK
  BY DEF AgentInv
<1>2. /\ worker' = [worker EXCEPT ![r] = w]
      /\ turns' = IF ended /\ ~Stopped(r) THEN Told(turns, calls, round) ELSE turns
      /\ UNCHANGED <<status, issued, calls, chat>>
  BY DEF Look
<1>3. round \in Seq(CallId) /\ \A i \in DOMAIN round : round[i] \in DOMAIN calls /\ round[i][1] = r
  BY <1>1, TypeParts, RoundIsThere
<1>4. mine => first \in CallId /\ first \in DOMAIN calls /\ first[1] = r /\ calls[first].kind = "read"
  <2> SUFFICES ASSUME mine
               PROVE  first \in CallId /\ first \in DOMAIN calls /\ first[1] = r /\ calls[first].kind = "read"
    OBVIOUS
  <2> HIDE DEF round
  <2>1. open \subseteq Nat /\ open # {} /\ open \subseteq DOMAIN round
    BY <1>3
  <2> HIDE DEF open
  <2>2. Min(open) \in open
    BY <2>1, LeastNat
  <2>3. Min(open) \in DOMAIN round
    BY <2>1, <2>2
  <2>4. first \in CallId
    BY <1>3, <2>3
  <2> QED BY <1>3, <2>3, <2>4
<1>5. w \in Passing /\ (w.at \in {"reading", "read"} =>
            w.call[1] = r /\ w.call \in DOMAIN calls /\ calls[w.call].kind = "read")
  <2> HIDE DEF round, open, first, mine, ended
  <2>1. CASE w = Asleep \/ w = At("answered")
    BY <2>1, PassTyped
  <2>2. CASE mine /\ w = Holding("reading", first)
    BY <1>4, <2>2, PassTyped
  <2> QED BY <2>1, <2>2
<1>6. turns' \in Seq(TurnRow)
  <2>1. turns \in Seq(TurnRow) /\ calls \in Table
    BY <1>1, TypeParts
  <2>2. Told(turns, calls, round) \in Seq(TurnRow)
    BY <1>3, <2>1, ToldTyped
  <2> QED BY <1>2, <2>1, <2>2
<1> HIDE DEF w, round, open, first, mine, ended
<1>7. NewCalls = {}
  BY <1>2 DEF NewCalls
<1>8. worker' \in [Run -> Passing] /\ Reads
  BY <1>1, <1>2, <1>5, <1>7, PassStep
<1>9. TypeOK'
  BY <1>1, <1>2, <1>6, <1>8, TypeAll, TypesNext DEF hands, ghosts
<1> QED BY <1>2, <1>8, <1>9, WorkerKeeps DEF ghosts

(* A step of the worker's that writes nothing. *)
LEMMA MovesKeeps ==
    ASSUME AgentInv, NEW r \in Run, NEW w \in Passing, worker' = [worker EXCEPT ![r] = w],
           w.at \in {"reading", "read"} => worker[r].at \in {"reading", "read"} /\ w.call = worker[r].call,
           UNCHANGED <<rows, awake, hands, ghosts, person>>
    PROVE  AgentInv'
<1>1. TypeOK
  BY DEF AgentInv
<1>2. UNCHANGED <<status, issued, turns, calls, chat>>
  BY DEF rows
<1>3. NewCalls = {}
  BY <1>2 DEF NewCalls
<1>4. worker' \in [Run -> Passing] /\ Reads
  BY <1>1, <1>3, PassStep
<1>5. TypeOK'
  BY <1>1, <1>2, <1>4, TypeAll, TypesNext DEF hands, ghosts
<1> QED BY <1>2, <1>4, <1>5, WorkerKeeps DEF ghosts

LEMMA MovingKeeps ==
    ASSUME AgentInv, NEW r \in Run,
           ReadEnds(r) \/ ReadStopped(r) \/ Request(r) \/ Reply(r) \/ ReplyCalls(r)
    PROVE  AgentInv'
<1>1. TypeOK
  BY DEF AgentInv
<1>2. ASSUME ReadEnds(r) PROVE AgentInv'
  <2> DEFINE w == Holding("read", worker[r].call)
  <2>1. worker[r].at = "reading" /\ worker' = [worker EXCEPT ![r] = w]
        /\ UNCHANGED <<rows, awake, hands, ghosts, person>>
    BY <1>2 DEF ReadEnds
  <2>2. worker[r].call \in CallId
    BY <1>1, <2>1, TypeParts, PassTyped
  <2>3. w \in Passing /\ w.call = worker[r].call
    BY <2>2, PassTyped
  <2> HIDE DEF w
  <2> QED BY <2>1, <2>3, MovesKeeps
<1>3. ASSUME ReadStopped(r) PROVE AgentInv'
  BY <1>3, PassTyped, MovesKeeps DEF ReadStopped
<1>4. ASSUME Request(r) PROVE AgentInv'
  <2> DEFINE w == At(IF chat THEN "gateway" ELSE "error")
  <2>1. worker' = [worker EXCEPT ![r] = w] /\ UNCHANGED <<rows, awake, hands, ghosts, person>>
    BY <1>4 DEF Request
  <2>2. w \in Passing /\ w.at \notin {"reading", "read"}
    BY PassTyped
  <2> HIDE DEF w
  <2> QED BY <2>1, <2>2, MovesKeeps
<1>5. ASSUME Reply(r) PROVE AgentInv'
  <2>1. PICK what \in {"says", "error", "cut"} : worker' = [worker EXCEPT ![r] = At(what)]
    BY <1>5 DEF Reply
  <2>2. At(what) \in Passing /\ At(what).at \notin {"reading", "read"}
    BY PassTyped
  <2>3. UNCHANGED <<rows, awake, hands, ghosts, person>>
    BY <1>5 DEF Reply
  <2> QED BY <2>1, <2>2, <2>3, MovesKeeps
<1>6. ASSUME ReplyCalls(r) PROVE AgentInv'
  <2>1. PICK tools \in Rounds, at \in {"calls", "says"} :
            worker' = [worker EXCEPT ![r] = [At(at) EXCEPT !.tools = tools]]
    BY <1>6 DEF ReplyCalls
  <2> DEFINE w == [At(at) EXCEPT !.tools = tools]
  <2>2. w \in Passing /\ w.at \notin {"reading", "read"}
    BY PassTyped
  <2>3. UNCHANGED <<rows, awake, hands, ghosts, person>>
    BY <1>6 DEF ReplyCalls
  <2>4. worker' = [worker EXCEPT ![r] = w]
    BY <2>1
  <2> HIDE DEF w
  <2> QED BY <2>2, <2>3, <2>4, MovesKeeps
<1> QED BY <1>2, <1>3, <1>4, <1>5, <1>6

LEMMA ReadKeptKeeps ==
    ASSUME AgentInv, NEW r \in Run, ReadKept(r)
    PROVE  AgentInv'
<1> DEFINE c == worker[r].call
<1>1. TypeOK /\ Reading
  BY DEF AgentInv
<1>2. /\ worker[r].at = "read" /\ worker' = [worker EXCEPT ![r] = At("next")]
      /\ calls' = IF status[r] # "none" /\ c \in DOMAIN calls
                  THEN [calls EXCEPT ![c].st = "done"] ELSE calls
      /\ UNCHANGED <<status, issued, turns, chat, awake, hands, ghosts, person>>
  BY DEF ReadKept
<1>3. At("next") \in Passing /\ At("next").at = "next"
  BY PassTyped
<1>4. calls \in Table
  BY <1>1, TypeParts
<1>5. "lost" \notin strayed /\ c \in DOMAIN calls => calls[c].kind = "read"
  <2>1. Whole \in Copies /\ Whole.calls = calls
    BY DEF Copies, Whole
  <2>2. "lost" \notin strayed => \A k \in Copies : c \in DOMAIN k.calls => k.calls[c].kind = "read"
    BY <1>1, <1>2 DEF Reading
  <2> QED BY <2>1, <2>2
<1> HIDE DEF c
<1>6. /\ DOMAIN calls' = DOMAIN calls /\ calls' \in Table
      /\ \A d \in DOMAIN calls : \/ calls'[d] = calls[d]
                                 \/ d = c /\ calls'[d] = [calls[d] EXCEPT !.st = "done"]
  <2>1. CASE calls' = calls
    BY <1>4, <2>1
  <2>2. CASE c \in DOMAIN calls /\ calls' = [calls EXCEPT ![c].st = "done"]
    <3>1. /\ DOMAIN calls' = DOMAIN calls /\ calls' = [d \in DOMAIN calls' |-> calls'[d]]
          /\ \A d \in DOMAIN calls : \/ calls'[d] = calls[d]
                                     \/ d = c /\ calls'[d] = [calls[d] EXCEPT !.st = "done"]
      BY <2>2
    <3>2. \A d \in DOMAIN calls : calls[d] \in CallRow
      BY <1>4, TableIs
    <3>3. \A d \in DOMAIN calls : [calls[d] EXCEPT !.st = "done"] \in CallRow
      BY <3>2 DEF CallRow
    <3>4. \A d \in DOMAIN calls' : calls'[d] \in CallRow
      BY <3>1, <3>2, <3>3
    <3>5. DOMAIN calls' \subseteq CallId
      BY <1>4, <3>1, TableIs
    <3>6. calls' \in Table
      BY <3>1, <3>4, <3>5, TableIs
    <3> QED BY <3>1, <3>6
  <2> QED BY <1>2, <2>1, <2>2
<1>7. ASSUME NEW d \in DOMAIN calls
      PROVE  \/ calls'[d] = calls[d]
             \/ /\ calls'[d].kind = calls[d].kind /\ calls'[d].st \notin Open
                /\ "lost" \in strayed \/ calls[d].kind \notin {"edit", "asks"}
  <2>1. calls[d] \in CallRow
    BY <1>4, TableIs
  <2>2. ASSUME d = c, calls'[d] = [calls[d] EXCEPT !.st = "done"]
        PROVE  /\ calls'[d].kind = calls[d].kind /\ calls'[d].st \notin Open
               /\ "lost" \in strayed \/ calls[d].kind \notin {"edit", "asks"}
    BY <1>5, <2>1, <2>2 DEF CallRow, Open
  <2> QED BY <1>6, <2>2
<1>8. NewCalls = {}
  BY <1>6 DEF NewCalls
<1>9. worker' \in [Run -> Passing] /\ Reads
  BY <1>1, <1>2, <1>3, <1>8, PassStep
<1>10. TypeOK'
  BY <1>1, <1>2, <1>6, <1>9, TypeAll, TypesNext DEF hands, ghosts
<1> QED BY <1>2, <1>6, <1>7, <1>9, <1>10, WorkerKeeps DEF ghosts

LEMMA AskKeeps ==
    ASSUME AgentInv, NEW r \in Run, Ask(r)
    PROVE  AgentInv'
<1>1. TypeOK
  BY DEF AgentInv
<1>2. UNCHANGED <<issued, turns, calls, chat, awake, hands, ghosts, person>>
  BY DEF Ask
<1>3. \/ worker' = [worker EXCEPT ![r] = Asleep] /\ status' = status
      \/ /\ worker' = [worker EXCEPT ![r] = At("claimed")] /\ status[r] # "none"
         /\ status' = [status EXCEPT ![r] = "streaming"]
  BY DEF Ask, Stopped
<1>4. /\ At("claimed") \in Passing /\ At("claimed").at = "claimed"
      /\ Asleep \in Passing /\ Asleep.at = "idle"
  BY PassTyped
<1>5. NewCalls = {}
  BY <1>2 DEF NewCalls
<1>6. worker' \in [Run -> Passing] /\ Reads
  BY <1>1, <1>3, <1>4, <1>5, PassStep
<1>7. status \in [Run -> Statuses] /\ "streaming" \in Statuses
  BY <1>1, TypeParts DEF Statuses, Live
<1>8. status' \in [Run -> Statuses] /\ \A p \in Run : status'[p] = "none" <=> status[p] = "none"
  BY <1>3, <1>7
<1>9. TypeOK'
  BY <1>1, <1>2, <1>6, <1>8, TypeAll, TypesNext DEF hands, ghosts
<1> QED BY <1>2, <1>6, <1>8, <1>9, WorkerKeeps DEF ghosts

LEMMA LandKeeps ==
    ASSUME AgentInv, NEW r \in Run, Land(r)
    PROVE  AgentInv'
<1> DEFINE at == worker[r].at
           tools == worker[r].tools
           k == Newest(calls, r) + 1
           ending == CASE at = "says" -> "done" [] at = "cut" -> "stopped" [] OTHER -> "failed"
<1>1. TypeOK
  BY DEF AgentInv
<1>2. /\ at \in {"says", "cut", "error"} /\ worker' = [worker EXCEPT ![r] = Asleep]
      /\ status' = IF status[r] = "none" THEN status ELSE [status EXCEPT ![r] = ending]
      /\ turns' = IF status[r] = "none" \/ at = "error" THEN turns
                  ELSE IF tools # <<>> THEN Turn(turns, "asks", r, <<r, k, Len(tools)>>, "")
                  ELSE Turn(turns, "says", r, NoCall, at)
      /\ tools # <<>> => k <= MaxRounds
      /\ UNCHANGED <<issued, calls, chat, awake, hands, made, allowed, person>>
  BY DEF Land
<1>3. strayed \subseteq strayed' /\ strayed' \subseteq strayed \union {"behind"}
  BY DEF Land
<1>4. ending \in {"done", "stopped", "failed"}
  OBVIOUS
<1> HIDE DEF ending
<1>5. status \in [Run -> Statuses] /\ ending \in Statuses /\ ending # "none"
  BY <1>1, <1>4, TypeParts DEF Statuses
<1>6. status' \in [Run -> Statuses] /\ \A p \in Run : status'[p] = "none" <=> status[p] = "none"
  BY <1>2, <1>5
<1>7. turns' \in Seq(TurnRow)
  <2>1. CASE turns' = turns
    BY <1>1, <2>1, TypeParts
  <2>2. CASE at \in {"says", "cut"} /\ turns' = Turn(turns, "says", r, NoCall, at)
    <3>1. at \in Said
      BY <2>2 DEF Said
    <3> HIDE DEF at
    <3> QED BY <1>1, <2>2, <3>1, TypeParts, TurnTyped
  <2>3. CASE tools # <<>> /\ turns' = Turn(turns, "asks", r, <<r, k, Len(tools)>>, "")
    <3>1. tools \in Rounds
      BY <1>1, <2>3, TypeParts, PassTyped
    <3>2. k \in Nat /\ k >= 1
      <4>1. Newest(calls, r) \in Nat
        BY <1>1, TypeParts, NewestRound
      <4> QED BY <4>1
    <3>3. Len(tools) \in 1 .. MaxPlace
      BY <3>1, PlaceBound
    <3>4. k <= MaxRounds /\ MaxRounds \in Nat
      BY <1>2, <2>3, CallParts
    <3> HIDE DEF k
    <3>5. k \in 1 .. MaxRounds
      BY <3>2, <3>4
    <3>6. <<r, k, Len(tools)>> \in CallId
      BY <3>3, <3>5, CallParts
    <3> HIDE DEF tools
    <3> QED BY <1>1, <2>3, <3>6, TypeParts, TurnTyped DEF Said
  <2> QED BY <1>2, <2>1, <2>2, <2>3
<1>8. NewCalls = {}
  BY <1>2 DEF NewCalls
<1>9. worker' \in [Run -> Passing] /\ Reads
  BY <1>1, <1>2, <1>8, PassStep, PassTyped
<1>10. TypeOK'
  <2>1. strayed' \subseteq Strayings
    BY <1>1, <1>3, StraysTyped, StrayWords
  <2> QED BY <1>1, <1>2, <1>3, <1>6, <1>7, <1>9, <2>1, TypeAll, TypesNext DEF hands
<1> QED BY <1>2, <1>3, <1>6, <1>9, <1>10, WorkerKeeps

(* Nothing of the session's moves, for the steps above and for what follows. *)
LEMMA HandsStill ==
    ASSUME AgentInv, UNCHANGED hands
    PROVE  /\ NoneNew(past', past) /\ NoneNew(future', future) /\ HandsApt /\ QueueApt(0)
           /\ person' = person => WalksAlone'
<1>1. active' = active /\ queue' = queue /\ past' = past /\ future' = future /\ walk' = walk
  BY DEF hands
<1>2. \A i \in DOMAIN queue : i + 0 = i
  BY DEF AgentInv, TypeOK
<1>3. person' = person => WalksAlone'
  BY <1>1 DEF AgentInv, WalksAlone, Quiet, person
<1> QED BY <1>1, <1>2, <1>3 DEF NoneNew, HandsApt, QueueApt

LEMMA LandCallsKeeps ==
    ASSUME AgentInv, NEW r \in Run, LandCalls(r)
    PROVE  AgentInv'
<1> DEFINE tools == worker[r].tools
           k == Newest(calls, r) + 1
           fresh == {<<r, k, i>> : i \in DOMAIN tools}
<1>1. TypeOK
  BY DEF AgentInv
<1>2. /\ worker[r].at = "calls" /\ k <= MaxRounds
      /\ worker' = [worker EXCEPT ![r] = Asleep] /\ awake' = awake \union {r}
      /\ UNCHANGED <<issued, chat, hands, made, allowed, person>>
  BY DEF LandCalls
<1>3. calls \in Table /\ status \in [Run -> Statuses] /\ turns \in Seq(TurnRow)
  BY <1>1, TypeParts
<1>4. Asleep \in Passing /\ Asleep.at = "idle" /\ tools \in Rounds
  BY <1>1, <1>2, TypeParts, PassTyped
<1>5. /\ worker' \in [Run -> Passing] /\ awake' \subseteq Run
      /\ \A p \in Run : worker'[p] = IF p = r THEN Asleep ELSE worker[p]
  BY <1>1, <1>2, <1>4, TypeAll
<1>6. \A p \in Run : worker'[p].at \in {"reading", "read"} =>
          worker[p].at \in {"reading", "read"} /\ worker'[p].call = worker[p].call
  BY <1>4, <1>5
<1>7. k \in Nat /\ k \in 1 .. MaxRounds /\ \A c \in CallsOf(calls, r) : c[2] < k
  <2>1. Newest(calls, r) \in Nat /\ \A c \in CallsOf(calls, r) : c[2] <= Newest(calls, r)
    BY <1>3, NewestRound
  <2>2. \A c \in CallsOf(calls, r) : c[2] \in Nat
    BY <1>3, TableIs, CallParts DEF CallsOf
  <2> QED BY <1>2, <2>1, <2>2, CallParts
<1> HIDE DEF k
<1>8. CASE status[r] = "none"
  <2>1. UNCHANGED <<turns, calls, status, strayed>>
    BY <1>8 DEF LandCalls
  <2>2. Reads
    BY <1>6, <2>1 DEF Reads, NewCalls
  <2>3. TypeOK'
    BY <1>1, <1>2, <1>5, <2>1, TypeAll, TypesNext DEF hands
  <2> QED BY <1>2, <2>1, <2>2, <2>3, WorkerKeeps
<1>9. CASE status[r] # "none"
  <2>1. /\ turns' = Turn(turns, "asks", r, <<r, k, Len(tools)>>, "")
        /\ calls' = [c \in DOMAIN calls \union fresh |->
                       IF c \in fresh THEN [kind |-> tools[c[3]], st |-> "pending"] ELSE calls[c]]
        /\ status' = [status EXCEPT ![r] = "waiting"]
        /\ strayed \subseteq strayed' /\ strayed' \subseteq strayed \union {"reopened"}
    BY <1>9 DEF LandCalls, k
  <2>2. /\ DOMAIN tools = 1 .. Len(tools) /\ Len(tools) \in 1 .. MaxPlace /\ MaxPlace \in Nat
        /\ \A i \in DOMAIN tools : tools[i] \in Kinds
    BY <1>4, PlaceBound
  <2> HIDE DEF tools
  <2>3. \A c \in fresh : /\ c \in CallId /\ c[1] = r /\ c[2] = k /\ c[3] \in DOMAIN tools
                         /\ c \notin DOMAIN calls
    <3> SUFFICES ASSUME NEW i \in DOMAIN tools
                 PROVE  <<r, k, i>> \in CallId /\ <<r, k, i>> \notin DOMAIN calls
      OBVIOUS
    <3>1. <<r, k, i>> \in CallId
      BY <1>7, <2>2, CallParts
    <3>2. <<r, k, i>> \notin DOMAIN calls
      BY <1>7 DEF CallsOf
    <3> QED BY <3>1, <3>2
  <2> HIDE DEF fresh
  <2>4. <<r, k, Len(tools)>> \in CallId
    BY <1>7, <2>2, CallParts
  <2>5. turns' \in Seq(TurnRow)
    BY <1>3, <2>1, <2>4, TurnTyped DEF Said
  <2>6. DOMAIN calls' = DOMAIN calls \union fresh /\ NewCalls = fresh
    BY <2>1, <2>3 DEF NewCalls
  <2>7. \A c \in DOMAIN calls : calls'[c] = calls[c]
    BY <2>1, <2>3
  <2>8. \A c \in fresh : calls'[c] = [kind |-> tools[c[3]], st |-> "pending"]
    BY <2>1
  <2>9. calls' \in Table
    <3>1. DOMAIN calls' \subseteq CallId
      BY <1>3, <2>3, <2>6, TableIs
    <3>2. calls' = [c \in DOMAIN calls' |-> calls'[c]]
      BY <2>1
    <3>3. \A c \in DOMAIN calls : calls'[c] \in CallRow
      BY <1>3, <2>7, TableIs
    <3>4. \A c \in fresh : calls'[c] \in CallRow
      <4> SUFFICES ASSUME NEW c \in fresh PROVE calls'[c] \in CallRow
        OBVIOUS
      <4>1. tools[c[3]] \in Kinds
        BY <2>2, <2>3
      <4>2. calls'[c] = [kind |-> tools[c[3]], st |-> "pending"]
        BY <2>8
      <4>3. \A kind \in Kinds : [kind |-> kind, st |-> "pending"] \in CallRow
        BY DEF CallRow, Open
      <4> QED BY <4>1, <4>2, <4>3
    <3> QED BY <2>6, <3>1, <3>2, <3>3, <3>4, TableIs
  <2>10. /\ status' \in [Run -> Statuses] /\ status'[r] = "waiting"
         /\ \A p \in Run : status'[p] = "none" <=> status[p] = "none"
    <3>1. "waiting" \in Statuses
      BY DEF Statuses, Live
    <3> QED BY <1>3, <1>9, <2>1, <3>1
  <2>11. TypeOK'
    <3>1. strayed' \subseteq Strayings
      BY <1>1, <2>1, StraysTyped, StrayWords
    <3> QED BY <1>1, <1>2, <1>5, <2>1, <2>5, <2>9, <2>10, <3>1, TypeAll, TypesNext DEF hands
  <2>12. issued \in Nat /\ \A p \in Run : status[p] # "none" => p <= issued
    <3>1. Coherent(Whole)
      BY DEF AgentInv, AllCoherent, Copies
    <3> QED BY <1>1, <3>1, TypeParts DEF Coherent, Whole
  <2>13. \A c \in NewCalls : /\ status[c[1]] # "none" /\ calls'[c].st = "pending"
                             /\ \A d \in DOMAIN calls : d[1] = c[1] => d[2] < c[2]
    <3>1. \A c \in NewCalls : c[1] = r /\ c[2] = k /\ calls'[c].st = "pending"
      BY <2>3, <2>6, <2>8
    <3>2. \A d \in DOMAIN calls : d[1] = r => d[2] < k
      BY <1>7 DEF CallsOf
    <3> QED BY <1>9, <3>1, <3>2
  <2>14. past' = past /\ future' = future
    BY <1>2 DEF hands
  <2>15. Grows
    BY <1>2, <2>6, <2>7, <2>10, <2>12, <2>13, <2>14 DEF Grows
  <2>16. Cards
    BY <2>7 DEF Cards
  <2>17. Reads
    <3>1. \A c \in NewCalls : c[1] = r
      BY <2>3, <2>6
    <3> QED BY <1>2, <1>4, <1>5, <1>6, <3>1 DEF Reads
  <2>18. Reckons
    <3>1. \A c \in CallId : made'[c] = made[c] /\ made'[c] \in Nat
      BY <1>1, <1>2, TypeAll
    <3> QED BY <2>7, <3>1 DEF Reckons
  <2>19. UNCHANGED hands
    BY <1>2
  <2>20. chat' = chat /\ issued' = issued /\ person' = person
    BY <1>2
  <2> QED BY <2>1, <2>11, <2>15, <2>16, <2>17, <2>18, <2>19, <2>20, HandsStill, AddsKeeps DEF Adds
<1> QED BY <1>8, <1>9

----------------------------------------------------------------------------
(* The session's steps between the writes.                                  *)

LEMMA HoldsMore ==
    ASSUME NEW c, NEW kinds, NEW more, kinds \subseteq more, Holds(c, kinds)
    PROVE  Holds(c, more)
BY DEF Holds

(* What is held, of a run that is there. *)
LEMMA HoldsHere ==
    ASSUME NEW c, NEW kinds, Holds(c, kinds), status[c[1]] # "none"
    PROVE  c \in DOMAIN calls /\ calls[c].kind \in kinds /\ Ahead(calls, c)
<1>1. Whole \in Copies /\ Whole.status = status /\ Whole.calls = calls
  BY DEF Copies, Whole
<1>2. \A k \in Copies : k.status[c[1]] # "none" =>
            c \in DOMAIN k.calls /\ k.calls[c].kind \in kinds /\ Ahead(k.calls, c)
  BY DEF Holds
<1> QED BY <1>1, <1>2

LEMMA SessionKeeps ==
    ASSUME AgentInv, UNCHANGED <<rows, worker, strayed>>, allowed \subseteq allowed',
           awake' \subseteq Run, active' \in [Run -> Place], queue' \in Seq(Written),
           past' = past, future' \in {future, <<>>}, walk' = walk,
           made' \in [CallId -> Nat], allowed' \subseteq CallId, person' \in BOOLEAN \X Nat,
           HandsApt, NEW s \in {0, 1}, QueueApt(s), WalksAlone',
           \A c \in CallId : made'[c] = made[c] \/ Apt(c, {"now", "native"})
    PROVE  AgentInv'
<1>1. TypeOK
  BY DEF AgentInv
<1>2. UNCHANGED <<status, issued, turns, calls, chat>>
  BY DEF rows
<1>3. future' \in Seq(Undoable)
  <2>1. future \in Seq(Undoable) /\ <<>> \in Seq(Undoable)
    BY <1>1, TypeAll
  <2> QED BY <2>1
<1>4. TypeOK'
  BY <1>1, <1>2, <1>3, TypeAll, TypesNext
<1>5. Grows /\ NewCalls = {}
  BY <1>2, <1>4, GrowsCalls
<1>6. Cards /\ Reads
  BY <1>2, <1>5 DEF Cards, Reads
<1>7. NoneNew(past', past) /\ NoneNew(future', future)
  BY DEF NoneNew
<1>8. Reckons
  <2>1. \A c \in CallId : made'[c] \in Nat
    OBVIOUS
  <2> QED BY <1>2, <1>5, <2>1 DEF Reckons
<1> QED BY <1>2, <1>4, <1>5, <1>6, <1>7, <1>8, AddsKeeps DEF Adds

LEMMA KicksTyped ==
    ASSUME awake \subseteq Run, NEW st, KickAll(st)
    PROVE  awake' \subseteq Run
BY DEF KickAll

LEMMA DispatchKeeps ==
    ASSUME AgentInv, Dispatch
    PROVE  AgentInv'
<1>0. PICK works \in BOOLEAN :
        LET w == Serve(status, calls, active, queue, made, works)
        IN  active' = w.active /\ queue' = w.queue /\ made' = w.made
  BY DEF Dispatch
<1> DEFINE w == Serve(status, calls, active, queue, made, works)
<1>1. TypeOK
  BY DEF AgentInv
<1>2. /\ walk = NoWalk /\ active' = w.active /\ queue' = w.queue /\ made' = w.made /\ KickAll(status)
      /\ UNCHANGED <<rows, worker, past, future, walk, allowed, strayed, person>>
  BY <1>0 DEF Dispatch
<1>3. status' = status /\ calls' = calls /\ issued' = issued
  BY <1>2 DEF rows
<1>4. status \in [Run -> Statuses] /\ calls \in Table /\ made \in [CallId -> Nat]
  BY <1>1, TypeAll
<1>5. Served(status, calls, active, queue, made, w)
  BY <1>4, ServeIs
<1> HIDE DEF w
<1>6. w = Kept0(active', queue', made')
  BY <1>2, <1>5, ServedShape
<1>7. Took(active, queue, made)
  BY <1>3, <1>5, <1>6 DEF Took
<1>8. active \in [Run -> Place] /\ queue \in Seq(Written) /\ made \in [CallId -> Nat]
  BY <1>1, TypeAll
<1>9. status' \in [Run -> Statuses] /\ calls' \in Table
  BY <1>3, <1>4
<1>10. /\ active' \in [Run -> Place] /\ queue' \in Seq(Written) /\ made' \in [CallId -> Nat]
       /\ \A c \in CallId : made'[c] = made[c] \/ Due(c)
  BY <1>7, <1>8, <1>9, TookParts
<1>11. HandsApt /\ QueueApt(0)
  <2>1. \A i \in DOMAIN queue : i + 0 \in DOMAIN queue /\ queue[i] = queue[i + 0]
    BY <1>8
  <2> QED BY <1>7, <1>8, <1>9, <2>1, TookApt
<1>12. TypeOK'
  BY <1>1, <1>2, <1>10, KicksTyped, TypeAll, TypesNext DEF rows
<1>13. WalksAlone'
  BY <1>2, <1>3, <1>11, <1>12 DEF WalksAlone
<1>14. \A c \in CallId : made'[c] = made[c] \/ Apt(c, {"now", "native"})
  BY <1>10 DEF Due, Apt
<1>15. awake' \subseteq Run /\ person' \in BOOLEAN \X Nat
  <2>1. awake \subseteq Run /\ person \in BOOLEAN \X Nat
    BY <1>1, TypeAll
  <2> QED BY <1>2, <2>1, KicksTyped
<1> QED BY <1>1, <1>2, <1>10, <1>11, <1>13, <1>14, <1>15, TypeAll, SessionKeeps

LEMMA DoingNext ==
    ASSUME active \in [Run -> Place], NEW r \in Run, active[r] # Free,
           NEW at \in {"native", "ran", "queued"}, active' = [active EXCEPT ![r].at = at]
    PROVE  /\ active' \in [Run -> Place] /\ active[r].call \in CallId
           /\ \A p \in Run : active'[p] = active[p] \/ active'[p] = Doing(at, active[r].call)
<1>1. active[r] \in [at : {"preparing", "native", "ran", "queued"}, call : CallId]
  BY DEF Place
<1> DEFINE new == [active[r] EXCEPT !.at = at]
           c == active[r].call
<1>2. c \in CallId /\ new = Doing(at, c)
  BY <1>1 DEF Doing
<1>3. active' = [active EXCEPT ![r] = new]
  OBVIOUS
<1>4. Doing(at, c) \in Place
  BY <1>2, PlaceTyped
<1> HIDE DEF new
<1>5. active' = [active EXCEPT ![r] = Doing(at, c)]
  BY <1>2, <1>3
<1> QED BY <1>2, <1>4, <1>5

LEMMA PreparedKeeps ==
    ASSUME AgentInv, NEW r \in Run, Prepared(r)
    PROVE  AgentInv'
<1> DEFINE c == active[r].call
<1>1. TypeOK /\ Handled
  BY DEF AgentInv
<1>2. /\ active[r].at = "preparing"
      /\ UNCHANGED <<rows, worker, past, future, walk, allowed, strayed, person>>
  BY DEF Prepared
<1>3. UNCHANGED <<status, issued, turns, calls, chat>>
  BY <1>2 DEF rows
<1>4. status' \in [Run -> Statuses] /\ calls' \in Table /\ awake \subseteq Run /\ person \in BOOLEAN \X Nat
  BY <1>1, <1>3, TypeAll
<1>5. active \in [Run -> Place] /\ queue \in Seq(Written) /\ made \in [CallId -> Nat]
  BY <1>1, TypeAll
<1>6. active[r] # Free /\ c \in CallId /\ c = active[r].call
  BY <1>2, <1>5, PlaceTyped
<1>7. walk = NoWalk
  BY <1>6, Unquiet
<1>8. Holds(c, {"native"} \union Edits(c))
  BY <1>1, <1>2 DEF Handled
<1>9. \A i \in DOMAIN queue : i + 0 \in DOMAIN queue /\ queue[i] = queue[i + 0]
  BY <1>5
<1> HIDE DEF c
<1>10. SUFFICES /\ active' \in [Run -> Place] /\ queue' \in Seq(Written) /\ made' \in [CallId -> Nat]
                /\ awake' \subseteq Run /\ HandsApt /\ QueueApt(0)
                /\ \A d \in CallId : made'[d] = made[d] \/ Apt(d, {"now", "native"})
  <2>1. TypeOK'
    BY <1>1, <1>2, <1>10, TypeAll, TypesNext DEF rows
  <2>2. WalksAlone'
    BY <1>2, <1>3, <1>7, <1>10, <2>1 DEF WalksAlone
  <2> QED BY <1>1, <1>2, <1>4, <1>10, <2>2, TypeAll, SessionKeeps
<1>11. CASE ~Pending(c)
  <2> DEFINE free == [active EXCEPT ![r] = Free]
  <2>1. Finished(r, queue, made)
    BY <1>11 DEF Prepared, c
  <2>2. Took(free, queue, made) /\ KickAll(status')
    BY <1>4, <1>5, <2>1, FinishedIs
  <2>3. free \in [Run -> Place] /\ \A p \in Run : free[p] = active[p] \/ free[p].at \in {"no", "queued"}
    BY <1>5, PlaceTyped
  <2> HIDE DEF free
  <2>4. /\ active' \in [Run -> Place] /\ queue' \in Seq(Written) /\ made' \in [CallId -> Nat]
        /\ \A d \in CallId : made'[d] = made[d] \/ Due(d)
    BY <1>4, <1>5, <2>2, <2>3, TookParts
  <2>5. HandsApt /\ QueueApt(0)
    BY <1>4, <1>5, <1>9, <2>2, <2>3, TookApt
  <2>6. \A d \in CallId : made'[d] = made[d] \/ Apt(d, {"now", "native"})
    BY <2>4 DEF Due, Apt
  <2>7. awake' \subseteq Run
    BY <1>4, <2>2, KicksTyped
  <2> QED BY <2>4, <2>5, <2>6, <2>7
<1>12. CASE Pending(c)
  <2>1. made' = made /\ awake' = awake
    BY <1>12 DEF Prepared, c
  <2>2. c \in DOMAIN calls /\ status[c[1]] # "none"
    BY <1>12 DEF Pending
  <2>3. calls[c].kind \in {"native"} \union Edits(c) /\ Ahead(calls, c)
    BY <1>8, <2>2, HoldsHere
  <2>4. \A d \in CallId : made'[d] = made[d]
    BY <2>1
  <2>5. CASE calls[c].kind = "native"
    <3>1. active' = [active EXCEPT ![r].at = "native"] /\ queue' = queue
      BY <1>12, <2>5 DEF Prepared, c
    <3>2. active' \in [Run -> Place]
      BY <1>5, <1>6, <3>1, DoingNext
    <3>3. \A p \in Run : active'[p] = active[p] \/ active'[p] = Doing("native", c)
      BY <1>5, <1>6, <3>1, DoingNext
    <3>4. Doing("native", c) \in Place /\ Doing("native", c).at = "native" /\ Doing("native", c).call = c
      BY <1>6, PlaceTyped
    <3>6. Apt(c, {"native"})
      BY <1>3, <2>2, <2>3, <2>5 DEF Apt
    <3>7. HandsApt
      BY <3>3, <3>4, <3>6 DEF HandsApt
    <3>8. QueueApt(0)
      BY <1>9, <3>1 DEF QueueApt
    <3> QED BY <1>4, <1>5, <2>1, <2>4, <3>1, <3>2, <3>7, <3>8
  <2>6. CASE calls[c].kind # "native"
    <3> DEFINE E == Write("edit", c, "done", r)
               F == Write("record", c, "failed", r)
    <3>1. active' = [active EXCEPT ![r].at = "queued"] /\ queue' \in {Append(queue, E), Append(queue, F)}
      BY <1>12, <2>6 DEF Prepared, c
    <3>2. active' \in [Run -> Place]
      BY <1>5, <1>6, <3>1, DoingNext
    <3>3. \A p \in Run : active'[p] = active[p] \/ active'[p] = Doing("queued", c)
      BY <1>5, <1>6, <3>1, DoingNext
    <3>4. Doing("queued", c) \in Place /\ Doing("queued", c).at = "queued" /\ Doing("queued", c).call = c
      BY <1>6, PlaceTyped
    <3>5. HandsApt
      BY <3>3, <3>4 DEF HandsApt
    <3>6. Apt(c, Edits(c))
      BY <1>3, <2>2, <2>3, <2>6 DEF Apt
    <3>7. E \in Written /\ F \in Written /\ AptWrite(E) /\ AptWrite(F)
      <4>1. E \in Written /\ F \in Written
        BY <1>6, WrittenTyped
      <4>2. AptWrite(E)
        BY <3>6 DEF AptWrite, Write
      <4>3. AptWrite(F)
        BY DEF AptWrite, Write
      <4> QED BY <4>1, <4>2, <4>3
    <3> HIDE DEF E, F
    <3>8. \E x \in {E, F} : queue' = Append(queue, x)
      BY <3>1
    <3>9. PICK x \in Written : queue' = Append(queue, x) /\ AptWrite(x)
      BY <3>7, <3>8
    <3>10. queue' \in Seq(Written)
           /\ \A i \in DOMAIN queue' : (i \in DOMAIN queue /\ queue'[i] = queue[i]) \/ queue'[i] = x
      BY <1>5, <3>9
    <3>11. QueueApt(0)
      BY <1>9, <3>9, <3>10 DEF QueueApt, AptWrite
    <3> QED BY <1>4, <1>5, <2>1, <2>4, <3>2, <3>5, <3>10, <3>11
  <2> QED BY <2>5, <2>6
<1> QED BY <1>11, <1>12

LEMMA NativeKeeps ==
    ASSUME AgentInv, NEW r \in Run, NativeRuns(r) \/ NativeTold(r) \/ NativeFails(r)
    PROVE  AgentInv'
<1> DEFINE c == active[r].call
<1>1. TypeOK /\ Handled
  BY DEF AgentInv
<1>2. /\ active[r].at \in {"native", "ran"}
      /\ UNCHANGED <<rows, worker, awake, past, walk, allowed, strayed, person>>
  BY DEF NativeRuns, NativeTold, NativeFails, ghosts
<1>3. UNCHANGED <<status, issued, turns, calls, chat>>
  BY <1>2 DEF rows
<1>5. active \in [Run -> Place] /\ queue \in Seq(Written) /\ made \in [CallId -> Nat]
  BY <1>1, TypeAll
<1>6. active[r] # Free /\ c \in CallId /\ c = active[r].call
  BY <1>2, <1>5, PlaceTyped
<1>7. walk = NoWalk
  BY <1>6, Unquiet
<1>8. Holds(c, {"native"})
  BY <1>1, <1>2 DEF Handled
<1>9. \A i \in DOMAIN queue : i + 0 \in DOMAIN queue /\ queue[i] = queue[i + 0]
  BY <1>5
<1> HIDE DEF c
<1>10. SUFFICES /\ active' \in [Run -> Place] /\ queue' \in Seq(Written) /\ made' \in [CallId -> Nat]
                /\ future' \in {future, <<>>} /\ HandsApt /\ QueueApt(0)
                /\ \A d \in CallId : made'[d] = made[d] \/ Apt(d, {"now", "native"})
  <2>0. future' \in Seq(Undoable)
    <3>1. future \in Seq(Undoable) /\ <<>> \in Seq(Undoable)
      BY <1>1, TypeAll
    <3> QED BY <1>10, <3>1
  <2>1. TypeOK'
    BY <1>1, <1>2, <1>10, <2>0, TypeAll, TypesNext DEF rows
  <2>2. WalksAlone'
    BY <1>2, <1>3, <1>7, <1>10, <2>1 DEF WalksAlone
  <2>3. awake' \subseteq Run /\ person' \in BOOLEAN \X Nat /\ allowed' \subseteq CallId
    BY <1>1, <1>2, TypeAll
  <2> QED BY <1>2, <1>10, <2>2, <2>3, SessionKeeps
<1>11. CASE NativeRuns(r)
  <2>1. /\ made' = [made EXCEPT ![c] = @ + 1] /\ active' = [active EXCEPT ![r].at = "ran"]
        /\ queue' = queue /\ future' = future
    BY <1>11 DEF NativeRuns, c
  <2>2. active' \in [Run -> Place]
    BY <1>5, <1>6, <2>1, DoingNext
  <2>3. \A p \in Run : active'[p] = active[p] \/ active'[p] = Doing("ran", c)
    BY <1>5, <1>6, <2>1, DoingNext
  <2>4. Doing("ran", c).at = "ran" /\ Doing("ran", c).call = c
    BY DEF Doing
  <2>5. Apt(c, {"native"}) /\ Apt(c, {"now", "native"})
    BY <1>8, HoldsMore DEF Apt
  <2>6. HandsApt
    BY <2>3, <2>4, <2>5 DEF HandsApt
  <2>7. QueueApt(0)
    BY <1>9, <2>1 DEF QueueApt
  <2>8. made' \in [CallId -> Nat] /\ \A d \in CallId : made'[d] = made[d] \/ d = c
    BY <1>5, <1>6, <2>1
  <2> QED BY <1>5, <2>1, <2>2, <2>5, <2>6, <2>7, <2>8
<1>12. CASE NativeTold(r) \/ NativeFails(r)
  <2>0. PICK st \in {"done", "failed"} : queue' = Append(queue, Write("native", c, st, r))
    BY <1>12 DEF NativeTold, NativeFails, c
  <2> DEFINE W == Write("native", c, st, r)
  <2>1. /\ made' = made /\ active' = [active EXCEPT ![r].at = "queued"]
        /\ queue' = Append(queue, W) /\ future' \in {future, <<>>}
    BY <1>12, <2>0 DEF NativeTold, NativeFails, c, ghosts
  <2>2. active' \in [Run -> Place]
    BY <1>5, <1>6, <2>1, DoingNext
  <2>3. \A p \in Run : active'[p] = active[p] \/ active'[p] = Doing("queued", c)
    BY <1>5, <1>6, <2>1, DoingNext
  <2>4. Doing("queued", c).at = "queued"
    BY DEF Doing
  <2>5. HandsApt
    BY <2>3, <2>4 DEF HandsApt
  <2>6. W \in Written
    BY <1>6, WrittenTyped
  <2>7. AptWrite(W)
    BY <1>8 DEF AptWrite, Write, Apt
  <2> HIDE DEF W
  <2>8. queue' \in Seq(Written)
        /\ \A i \in DOMAIN queue' : (i \in DOMAIN queue /\ queue'[i] = queue[i]) \/ queue'[i] = W
    BY <1>5, <2>1, <2>6
  <2>9. QueueApt(0)
    BY <1>9, <2>7, <2>8 DEF QueueApt, AptWrite
  <2> QED BY <1>5, <2>1, <2>2, <2>5, <2>8, <2>9
<1> QED BY <1>11, <1>12

LEMMA CardIs ==
    ASSUME AgentInv, NEW r, NEW c, Card(r, c)
    PROVE  /\ c \in DOMAIN calls /\ c \in CallId /\ c[1] = r /\ r \in Run /\ walk = NoWalk
           /\ calls[c].kind = "asks" /\ Ahead(calls, c)
<1>1. c \in DOMAIN calls /\ c[1] = r /\ calls[c].st = "asked" /\ walk = NoWalk
  BY DEF Card, CallsOf
<1>2. Coherent(Whole) /\ TypeOK
  BY DEF AgentInv, AllCoherent, Copies
<1>3. calls[c].kind = "asks" /\ Ahead(calls, c)
  BY <1>1, <1>2 DEF Coherent, Whole
<1> QED BY <1>1, <1>2, <1>3, TypeParts, RowParts, CallParts

LEMMA AllowKeeps ==
    ASSUME AgentInv, NEW r \in Run, Allow(r)
    PROVE  AgentInv'
<1>1. TypeOK
  BY DEF AgentInv
<1>2. PICK c \in CallsOf(calls, r) :
         /\ Card(r, c) /\ active' = [active EXCEPT ![r] = Doing("preparing", c)]
         /\ allowed' = allowed \union {c}
  BY DEF Allow
<1>3. KickAll(status) /\ UNCHANGED <<rows, worker, queue, past, future, walk, made, strayed, person>>
  BY DEF Allow
<1>4. UNCHANGED <<status, issued, turns, calls, chat>>
  BY <1>3 DEF rows
<1>5. /\ c \in DOMAIN calls /\ c \in CallId /\ walk = NoWalk
      /\ calls[c].kind = "asks" /\ Ahead(calls, c)
  BY <1>2, CardIs
<1>6. active \in [Run -> Place] /\ queue \in Seq(Written) /\ made \in [CallId -> Nat]
      /\ awake \subseteq Run /\ allowed \subseteq CallId /\ person \in BOOLEAN \X Nat
  BY <1>1, TypeAll
<1>7. Doing("preparing", c) \in Place /\ Doing("preparing", c).at = "preparing"
      /\ Doing("preparing", c).call = c
  BY <1>5, PlaceTyped
<1>8. active' \in [Run -> Place]
      /\ \A p \in Run : active'[p] = active[p] \/ active'[p] = Doing("preparing", c)
  BY <1>2, <1>6, <1>7
<1>9. c \in allowed'
  BY <1>2
<1>10. Ready(c, {"native"} \union EditsNow(c))
  BY <1>4, <1>5, <1>9 DEF Ready, EditsNow
<1>11. HandsApt
  BY <1>7, <1>8, <1>10 DEF HandsApt
<1>12. QueueApt(0)
  <2>1. \A i \in DOMAIN queue : i + 0 = i
    BY <1>6
  <2> QED BY <1>3, <2>1 DEF QueueApt
<1>13. awake' \subseteq Run /\ allowed' \subseteq CallId /\ allowed \subseteq allowed'
  BY <1>2, <1>3, <1>5, <1>6, KicksTyped
<1>14. TypeOK'
  BY <1>1, <1>3, <1>8, <1>13, TypeAll, TypesNext DEF rows
<1>15. WalksAlone'
  BY <1>3, <1>4, <1>5, <1>12, <1>14 DEF WalksAlone
<1> QED BY <1>3, <1>6, <1>8, <1>11, <1>12, <1>13, <1>15, SessionKeeps

LEMMA RefuseKeeps ==
    ASSUME AgentInv, NEW r \in Run, Refuse(r)
    PROVE  AgentInv'
<1>1. TypeOK
  BY DEF AgentInv
<1>2. PICK c \in CallsOf(calls, r) :
         /\ Card(r, c) /\ active' = [active EXCEPT ![r] = Doing("queued", c)]
         /\ queue' = Append(queue, Write("record", c, "refused", r))
  BY DEF Refuse
<1>3. UNCHANGED <<rows, worker, awake, past, future, walk, made, allowed, strayed, person>>
  BY DEF Refuse, ghosts
<1>4. UNCHANGED <<status, issued, turns, calls, chat>>
  BY <1>3 DEF rows
<1>5. c \in CallId /\ walk = NoWalk
  BY <1>2, CardIs
<1>6. active \in [Run -> Place] /\ queue \in Seq(Written) /\ made \in [CallId -> Nat]
      /\ awake \subseteq Run /\ allowed \subseteq CallId /\ person \in BOOLEAN \X Nat
  BY <1>1, TypeAll
<1>7. Doing("queued", c) \in Place /\ Doing("queued", c).at = "queued"
  BY <1>5, PlaceTyped
<1>8. active' \in [Run -> Place]
      /\ \A p \in Run : active'[p] = active[p] \/ active'[p] = Doing("queued", c)
  BY <1>2, <1>6, <1>7
<1>9. HandsApt
  BY <1>7, <1>8 DEF HandsApt
<1> DEFINE W == Write("record", c, "refused", r)
<1>10. W \in Written /\ AptWrite(W)
  BY <1>5, WrittenTyped DEF AptWrite, Write
<1>11. queue' = Append(queue, W)
  BY <1>2
<1> HIDE DEF W
<1>12. queue' \in Seq(Written)
       /\ \A i \in DOMAIN queue' : (i + 0 \in DOMAIN queue /\ queue'[i] = queue[i + 0]) \/ queue'[i] = W
  BY <1>6, <1>10, <1>11
<1>13. QueueApt(0)
  BY <1>10, <1>12 DEF QueueApt, AptWrite
<1>14. TypeOK'
  BY <1>1, <1>3, <1>8, <1>12, TypeAll, TypesNext DEF rows
<1>15. WalksAlone'
  BY <1>3, <1>4, <1>5, <1>13, <1>14 DEF WalksAlone
<1> QED BY <1>3, <1>6, <1>8, <1>9, <1>12, <1>13, <1>15, SessionKeeps

(* A write that touches no call joins the queue, or none does. *)
LEMMA QueuesKeeps ==
    ASSUME AgentInv, UNCHANGED <<rows, worker, awake, ghosts, active, past, future, walk>>,
           walk = NoWalk, person' \in BOOLEAN \X Nat,
           queue' = queue \/ \E w \in Written :
              queue' = Append(queue, w) /\ w.what \notin {"ask", "edit", "native", "record"}
    PROVE  AgentInv'
<1>1. TypeOK
  BY DEF AgentInv
<1>2. active \in [Run -> Place] /\ queue \in Seq(Written) /\ made \in [CallId -> Nat]
      /\ awake \subseteq Run /\ allowed \subseteq CallId
  BY <1>1, TypeAll
<1>3. \A i \in DOMAIN queue : i + 0 \in DOMAIN queue /\ queue[i] = queue[i + 0]
  BY <1>2
<1>4. HandsApt
  BY DEF HandsApt
<1>5. queue' \in Seq(Written) /\ QueueApt(0)
  <2>1. CASE queue' = queue
    BY <1>2, <1>3, <2>1 DEF QueueApt
  <2>2. ASSUME NEW w \in Written, queue' = Append(queue, w),
               w.what \notin {"ask", "edit", "native", "record"}
        PROVE  queue' \in Seq(Written) /\ QueueApt(0)
    <3>1. queue' \in Seq(Written) /\ \A i \in DOMAIN queue' :
              (i \in DOMAIN queue /\ queue'[i] = queue[i]) \/ queue'[i] = w
      BY <1>2, <2>2
    <3> QED BY <1>3, <2>2, <3>1 DEF QueueApt, AptWrite
  <2> QED BY <2>1, <2>2
<1>6. WalksAlone'
  BY DEF WalksAlone
<1> QED BY <1>2, <1>4, <1>5, <1>6, SessionKeeps DEF ghosts

LEMMA SendTyped == Send \in Written /\ Send.what = "send"
<1>1. Write("send", NoCall, "", 0) \in Written /\ Write("send", NoCall, "", 0).what = "send"
  BY WrittenTyped DEF Write
<1> QED BY <1>1 DEF Send

(* The person's presses hand the writer one write more, or leave a send waiting
   for its context. *)
LEMMA PressKeeps ==
    ASSUME AgentInv, PressSend \/ PressStop \/ PressRetry \/ PressDelete
    PROVE  AgentInv'
<1>1. TypeOK /\ WalksAlone
  BY DEF AgentInv
<1>2. queue' = queue \/ \E w \in Written :
         queue' = Append(queue, w) /\ w.what \notin {"ask", "edit", "native", "record"}
  <2>1. CASE PressSend
    <3>1. Send \in Written /\ Send.what = "send"
      BY SendTyped
    <3>2. queue' = queue \/ queue' = Append(queue, Send)
      BY <2>1 DEF PressSend, Asks, hands
    <3> QED BY <3>1, <3>2
  <2>2. CASE PressStop
    <3> DEFINE r == Latest(status)
    <3>1. Asks(Write("stop", NoCall, "", r)) /\ r # 0
      BY <2>2 DEF PressStop
    <3>2. r \in Run
      BY <1>1, <3>1, TypeParts, LatestRun
    <3> HIDE DEF r
    <3>3. Write("stop", NoCall, "", r) \in Written /\ Write("stop", NoCall, "", r).what = "stop"
      BY <3>2, WrittenTyped DEF Write
    <3> QED BY <3>1, <3>3 DEF Asks
  <2>3. CASE PressDelete \/ PressRetry
    <3>1. PICK what \in {"retry", "delete"} : Asks(Write(what, NoCall, "", 0))
      BY <2>3 DEF PressDelete, PressRetry
    <3>2. Write(what, NoCall, "", 0) \in Written /\ Write(what, NoCall, "", 0).what = what
      BY WrittenTyped DEF Write
    <3> QED BY <3>1, <3>2 DEF Asks
  <2> QED BY <2>1, <2>2, <2>3
<1>3. /\ UNCHANGED <<rows, worker, awake, ghosts, active, past, future, walk>>
      /\ walk = NoWalk /\ events' = events + 1 /\ composing' \in {composing, TRUE}
  BY DEF PressSend, PressStop, PressRetry, PressDelete, Press, Happens, Asks, hands
<1>4. person' \in BOOLEAN \X Nat
  <2>1. events' \in Nat
    BY <1>1, <1>3 DEF TypeOK
  <2>2. composing' \in BOOLEAN
    <3>1. composing \in BOOLEAN
      BY <1>1 DEF TypeOK
    <3> QED BY <1>3, <3>1, Zenon
  <2> QED BY <2>1, <2>2 DEF person
<1> QED BY <1>2, <1>3, <1>4, QueuesKeeps

(* The context is rendered and the send queued, or it is not to be had. *)
LEMMA ComposedKeeps ==
    ASSUME AgentInv, Composed
    PROVE  AgentInv'
<1>1. TypeOK /\ WalksAlone
  BY DEF AgentInv
<1>2. Send \in Written /\ Send.what = "send"
  BY SendTyped
<1>3. /\ queue' = queue \/ queue' = Append(queue, Send)
      /\ UNCHANGED <<rows, worker, awake, ghosts, active, past, future, walk>>
  BY DEF Composed
<1>4. walk = NoWalk
  BY <1>1 DEF WalksAlone, Quiet, Composed
<1>5. person' \in BOOLEAN \X Nat
  <2>1. events \in Nat
    BY <1>1 DEF TypeOK
  <2> QED BY <2>1 DEF Composed, person
<1> QED BY <1>2, <1>3, <1>4, <1>5, QueuesKeeps

----------------------------------------------------------------------------
(* The writer's steps.                                                      *)

Says(cs, c, st) == [cs EXCEPT ![c].st = st]
Words == Open \union {"done", "failed", "refused", "cancelled"}

LEMMA SetCall ==
    ASSUME NEW cs \in Table, NEW c \in DOMAIN cs,
           NEW st \in Words
    PROVE  /\ Says(cs, c, st) \in Table /\ DOMAIN Says(cs, c, st) = DOMAIN cs
           /\ Says(cs, c, st)[c].kind = cs[c].kind /\ Says(cs, c, st)[c].st = st
           /\ \A d \in DOMAIN cs : d # c => Says(cs, c, st)[d] = cs[d]
<1> DEFINE row == [cs[c] EXCEPT !.st = st]
           new == Says(cs, c, st)
<1>1. cs[c] \in CallRow
  BY TableIs
<1>2. row \in CallRow /\ row.kind = cs[c].kind /\ row.st = st
  BY <1>1 DEF CallRow, Words
<1>3. new = [cs EXCEPT ![c] = row]
  BY DEF Says
<1> HIDE DEF row, new
<1>4. /\ DOMAIN new = DOMAIN cs /\ new[c] = row /\ \A d \in DOMAIN cs : d # c => new[d] = cs[d]
      /\ new = [d \in DOMAIN new |-> new[d]]
  BY <1>3
<1>5. \A d \in DOMAIN cs : new[d] \in CallRow
  BY <1>2, <1>4, TableIs
<1>6. new \in Table
  BY <1>4, <1>5, TableIs
<1> QED BY <1>2, <1>4, <1>6 DEF new

LEMMA AnswerKeeps ==
    ASSUME AgentInv, TypeOK', issued' = issued, chat' = chat, worker' = worker, past' = past,
           future' \in {future, <<>>}, walk' = walk, walk = NoWalk, strayed' = strayed,
           allowed' = allowed,
           \A r \in Run : status'[r] = "none" <=> status[r] = "none",
           DOMAIN calls' = DOMAIN calls,
           \A c \in DOMAIN calls : /\ calls'[c].kind = calls[c].kind
                                   /\ calls'[c].st \in Open => calls[c].st \in Open,
           Cards, HandsApt, NEW s \in {0, 1}, QueueApt(s), Reckons
    PROVE  AgentInv'
<1>1. Grows /\ NewCalls = {}
  BY GrowsCalls
<1>2. Reads
  BY <1>1 DEF Reads
<1>3. NoneNew(past', past) /\ NoneNew(future', future)
  BY DEF NoneNew
<1>4. WalksAlone'
  BY DEF WalksAlone
<1> QED BY <1>1, <1>2, <1>3, <1>4, AddsKeeps DEF Adds

(* What there is when the writer takes a write. *)
LEMMA HeadIs ==
    ASSUME AgentInv, NEW what, Next1(what)
    PROVE  /\ queue # <<>> /\ Head(queue) \in Written /\ Head(queue).what = what
           /\ Tail(queue) \in Seq(Written) /\ walk = NoWalk
           /\ 1 \in DOMAIN queue /\ Head(queue) = queue[1]
           /\ \A i \in DOMAIN Tail(queue) : i + 1 \in DOMAIN queue /\ Tail(queue)[i] = queue[i + 1]
<1>1. queue \in Seq(Written) /\ queue # <<>> /\ Head(queue).what = what
  BY DEF AgentInv, TypeOK, Next1
<1>2. walk = NoWalk
  BY <1>1, Unquiet
<1> QED BY <1>1, <1>2, TailParts

LEMMA TailApt ==
    ASSUME queue' = Tail(queue),
           \A i \in DOMAIN Tail(queue) : i + 1 \in DOMAIN queue /\ Tail(queue)[i] = queue[i + 1]
    PROVE  QueueApt(1)
BY DEF QueueApt

LEMMA AskedKeeps ==
    ASSUME AgentInv, CommitAsk
    PROVE  AgentInv'
<1> DEFINE w == Head(queue)
           c == w.call
<1>1. TypeOK /\ Handled
  BY DEF AgentInv
<1>2. /\ Next1("ask") /\ calls' = IF Pending(c) THEN [calls EXCEPT ![c].st = "asked"] ELSE calls
      /\ queue' = Tail(queue) /\ active' = [active EXCEPT ![w.run] = Free] /\ KickAll(status)
      /\ UNCHANGED <<status, issued, turns, chat, worker, past, future, walk, made, allowed, strayed, person>>
  BY DEF CommitAsk, ghosts
<1>3. /\ w \in Written /\ w.what = "ask" /\ Tail(queue) \in Seq(Written) /\ walk = NoWalk
      /\ 1 \in DOMAIN queue /\ w = queue[1]
      /\ \A i \in DOMAIN Tail(queue) : i + 1 \in DOMAIN queue /\ Tail(queue)[i] = queue[i + 1]
  BY <1>2, HeadIs
<1>4. c \in CallId /\ w.run \in Run
  BY <1>3, WrittenParts
<1>5. Holds(c, {"asks"})
  BY <1>1, <1>3 DEF Handled
<1> HIDE DEF w, c
<1>6. Pending(c) => c \in DOMAIN calls /\ calls[c].kind = "asks" /\ Ahead(calls, c) /\ calls[c].st \in Open
  BY <1>5, HoldsHere DEF Pending
<1>7. calls \in Table /\ active \in [Run -> Place] /\ made \in [CallId -> Nat] /\ awake \subseteq Run
  BY <1>1, TypeAll
<1>8. /\ calls' \in Table /\ DOMAIN calls' = DOMAIN calls
      /\ \A d \in DOMAIN calls : \/ calls'[d] = calls[d]
                                 \/ /\ calls'[d].kind = calls[d].kind /\ calls'[d].st = "asked"
                                    /\ calls[d].kind = "asks" /\ Ahead(calls, d) /\ calls[d].st \in Open
  <2>1. CASE calls' = calls
    BY <1>7, <2>1
  <2>2. CASE Pending(c) /\ calls' = [calls EXCEPT ![c].st = "asked"]
    <3>1. /\ calls' \in Table /\ DOMAIN calls' = DOMAIN calls
          /\ calls'[c].kind = calls[c].kind /\ calls'[c].st = "asked"
          /\ \A d \in DOMAIN calls : d # c => calls'[d] = calls[d]
      <4>1. calls' = Says(calls, c, "asked")
        BY <2>2 DEF Says
      <4> DEFINE new == Says(calls, c, "asked")
      <4>2. c \in DOMAIN calls /\ calls \in Table /\ "asked" \in Words
        BY <1>6, <1>7, <2>2 DEF Words, Open
      <4>3. /\ new \in Table /\ DOMAIN new = DOMAIN calls
            /\ new[c].kind = calls[c].kind /\ new[c].st = "asked"
            /\ \A d \in DOMAIN calls : d # c => new[d] = calls[d]
        BY <4>2, SetCall
      <4> QED BY <4>1, <4>3
    <3> QED BY <1>6, <2>2, <3>1
  <2> QED BY <1>2, <2>1, <2>2
<1>9. active' \in [Run -> Place] /\ HandsApt
  <2>1. \A p \in Run : active'[p] = active[p] \/ active'[p] = Free
    BY <1>2, <1>4, <1>7
  <2>2. Free \in Place /\ Free.at = "no"
    BY PlaceTyped
  <2>3. active' \in [Run -> Place]
    BY <1>2, <1>7, <2>2
  <2> QED BY <2>1, <2>2, <2>3 DEF HandsApt
<1>10. QueueApt(1)
  BY <1>2, <1>3, TailApt
<1>11. TypeOK'
  BY <1>1, <1>2, <1>3, <1>7, <1>8, <1>9, KicksTyped, TypeAll, TypesNext
<1>12. Cards
  BY <1>8 DEF Cards
<1>13. Reckons
  <2>1. \A d \in CallId : made'[d] = made[d] /\ made'[d] \in Nat
    BY <1>2, <1>7
  <2>2. \A d \in DOMAIN calls : calls'[d].st = "done" <=> calls[d].st = "done"
    BY <1>8 DEF Open
  <2> QED BY <2>1, <2>2 DEF Reckons
<1>14. \A d \in DOMAIN calls : /\ calls'[d].kind = calls[d].kind
                               /\ calls'[d].st \in Open => calls[d].st \in Open
  BY <1>8
<1> QED BY <1>2, <1>3, <1>8, <1>9, <1>10, <1>11, <1>12, <1>13, <1>14, AnswerKeeps

LEMMA RecordKeeps ==
    ASSUME AgentInv, CommitRecord
    PROVE  AgentInv'
<1> DEFINE w == Head(queue)
           c == w.call
           free == [active EXCEPT ![w.run] = Free]
<1>1. TypeOK /\ Handled
  BY DEF AgentInv
<1>2. /\ Next1("record") /\ calls' = IF Pending(c) THEN [calls EXCEPT ![c].st = w.st] ELSE calls
      /\ Finished(w.run, Tail(queue), made)
      /\ UNCHANGED <<status, issued, turns, chat, worker, past, future, walk, allowed, strayed, person>>
  BY DEF CommitRecord
<1>3. /\ w \in Written /\ w.what = "record" /\ Tail(queue) \in Seq(Written) /\ walk = NoWalk
      /\ 1 \in DOMAIN queue /\ w = queue[1]
      /\ \A i \in DOMAIN Tail(queue) : i + 1 \in DOMAIN queue /\ Tail(queue)[i] = queue[i + 1]
  BY <1>2, HeadIs
<1>4. c \in CallId /\ w.run \in Run /\ w.st \in {"done", "failed", "refused"}
  BY <1>3, WrittenParts
<1>5. w.st = "done" => Holds(c, {"now"})
  BY <1>1, <1>3 DEF Handled
<1> HIDE DEF w, c
<1>6. Pending(c) => /\ c \in DOMAIN calls /\ calls[c].st \in Open
                    /\ w.st = "done" => calls[c].kind = "now"
  BY <1>5, HoldsHere DEF Pending
<1>7. /\ calls \in Table /\ active \in [Run -> Place] /\ made \in [CallId -> Nat] /\ awake \subseteq Run
      /\ status \in [Run -> Statuses]
  BY <1>1, TypeAll
<1>8. /\ calls' \in Table /\ DOMAIN calls' = DOMAIN calls
      /\ \A d \in DOMAIN calls : \/ calls'[d] = calls[d]
                                 \/ /\ calls'[d].kind = calls[d].kind /\ calls[d].st \in Open
                                    /\ calls'[d].st \in {"done", "failed", "refused"}
                                    /\ calls'[d].st = "done" => calls[d].kind = "now"
  <2>1. CASE calls' = calls
    BY <1>7, <2>1
  <2>2. CASE Pending(c) /\ calls' = [calls EXCEPT ![c].st = w.st]
    <3>1. /\ calls' \in Table /\ DOMAIN calls' = DOMAIN calls
          /\ calls'[c].kind = calls[c].kind /\ calls'[c].st = w.st
          /\ \A d \in DOMAIN calls : d # c => calls'[d] = calls[d]
      <4>1. PICK st \in Words : st = w.st
        BY <1>4 DEF Words
      <4> DEFINE new == Says(calls, c, st)
      <4>2. calls' = new
        BY <2>2, <4>1 DEF Says
      <4>3. c \in DOMAIN calls /\ calls \in Table
        BY <1>6, <1>7, <2>2
      <4>4. /\ new \in Table /\ DOMAIN new = DOMAIN calls
            /\ new[c].kind = calls[c].kind /\ new[c].st = st
            /\ \A d \in DOMAIN calls : d # c => new[d] = calls[d]
        BY <4>3, SetCall
      <4> QED BY <4>1, <4>2, <4>4
    <3> QED BY <1>4, <1>6, <2>2, <3>1
  <2> QED BY <1>2, <2>1, <2>2
<1>9. status' \in [Run -> Statuses]
  BY <1>2, <1>7
<1>10. Took(free, Tail(queue), made) /\ KickAll(status')
  BY <1>2, <1>7, <1>8, <1>9, FinishedIs
<1>11. free \in [Run -> Place] /\ \A p \in Run : free[p] = active[p] \/ free[p].at \in {"no", "queued"}
  BY <1>4, <1>7, PlaceTyped
<1> HIDE DEF free
<1>12. /\ active' \in [Run -> Place] /\ queue' \in Seq(Written) /\ made' \in [CallId -> Nat]
       /\ \A d \in CallId : made'[d] = made[d] \/ Due(d)
  BY <1>3, <1>7, <1>8, <1>9, <1>10, <1>11, TookParts
<1>13. HandsApt /\ QueueApt(1)
  BY <1>3, <1>7, <1>8, <1>9, <1>10, <1>11, TookApt
<1>14. awake' \subseteq Run
  BY <1>7, <1>10, KicksTyped
<1>15. TypeOK'
  BY <1>1, <1>2, <1>8, <1>9, <1>12, <1>14, TypeAll, TypesNext
<1>16. Cards
  BY <1>8 DEF Cards
<1>17. Reckons
  <2>1. \A d \in CallId : made'[d] = made[d] \/ Apt(d, {"now", "native"})
    BY <1>12 DEF Due, Apt
  <2>2. \A d \in DOMAIN calls : calls[d].kind \in {"edit", "asks"} =>
            (calls'[d].st = "done" <=> calls[d].st = "done")
    BY <1>8 DEF Open
  <2>3. NewCalls = {} /\ \A d \in CallId : made'[d] \in Nat
    BY <1>8, <1>12 DEF NewCalls
  <2> QED BY <2>1, <2>2, <2>3 DEF Reckons
<1>18. \A d \in DOMAIN calls : /\ calls'[d].kind = calls[d].kind
                               /\ calls'[d].st \in Open => calls[d].st \in Open
  BY <1>8
<1> QED BY <1>2, <1>3, <1>8, <1>13, <1>15, <1>16, <1>17, <1>18, AnswerKeeps

LEMMA EditKeeps ==
    ASSUME AgentInv, CommitEdit
    PROVE  AgentInv'
<1> DEFINE w == Head(queue)
           c == w.call
           free == [active EXCEPT ![w.run] = Free]
<1>1. TypeOK /\ Handled
  BY DEF AgentInv
<1>2. /\ Next1("edit")
      /\ UNCHANGED <<status, issued, turns, chat, worker, past, walk, allowed, strayed, person>>
  BY DEF CommitEdit
<1>3. /\ w \in Written /\ w.what = "edit" /\ Tail(queue) \in Seq(Written) /\ walk = NoWalk
      /\ 1 \in DOMAIN queue /\ w = queue[1]
      /\ \A i \in DOMAIN Tail(queue) : i + 1 \in DOMAIN queue /\ Tail(queue)[i] = queue[i + 1]
  BY <1>2, HeadIs
<1>4. c \in CallId /\ w.run \in Run
  BY <1>3, WrittenParts
<1>5. /\ calls \in Table /\ active \in [Run -> Place] /\ made \in [CallId -> Nat] /\ awake \subseteq Run
      /\ status \in [Run -> Statuses] /\ future \in Seq(Undoable) /\ <<>> \in Seq(Undoable)
  BY <1>1, TypeAll
<1>6. status' \in [Run -> Statuses] /\ \A r \in Run : status'[r] = "none" <=> status[r] = "none"
  BY <1>2, <1>5
<1>7. CASE Pending(c)
  <2> DEFINE md == [made EXCEPT ![c] = @ + 1]
             cs == Says(calls, c, "done")
  <2>1. /\ calls' = [calls EXCEPT ![c].st = "done"] /\ future' = <<>>
        /\ Finished(w.run, Tail(queue), md)
    BY <1>7 DEF CommitEdit
  <2>2. c \in DOMAIN calls /\ calls[c].st \in Open
    BY <1>7 DEF Pending
  <2>3. calls' = cs
    BY <2>1 DEF Says
  <2>4. "done" \in Words
    BY DEF Words
  <2>5. /\ cs \in Table /\ DOMAIN cs = DOMAIN calls
        /\ cs[c].kind = calls[c].kind /\ cs[c].st = "done"
        /\ \A d \in DOMAIN calls : d # c => cs[d] = calls[d]
    BY <1>5, <2>2, <2>4, SetCall
  <2>6. /\ md \in [CallId -> Nat] /\ md[c] = made[c] + 1
        /\ \A d \in CallId : d # c => md[d] = made[d]
    BY <1>4, <1>5
  <2>7. free \in [Run -> Place] /\ \A p \in Run : free[p] = active[p] \/ free[p].at \in {"no", "queued"}
    BY <1>4, <1>5, PlaceTyped
  <2>8. calls' \in Table
    BY <2>3, <2>5
  <2>9. Took(free, Tail(queue), md) /\ KickAll(status')
    BY <1>6, <2>1, <2>6, <2>8, FinishedIs
  <2> HIDE DEF w, c, free, md, cs
  <2>10. /\ active' \in [Run -> Place] /\ queue' \in Seq(Written) /\ made' \in [CallId -> Nat]
         /\ \A d \in CallId : made'[d] = md[d] \/ Due(d)
    BY <1>3, <1>6, <2>6, <2>7, <2>8, <2>9, TookParts
  <2>11. HandsApt /\ QueueApt(1)
    BY <1>3, <1>6, <2>6, <2>7, <2>8, <2>9, TookApt
  <2>12. awake' \subseteq Run /\ future' \in Seq(Undoable)
    BY <1>5, <2>1, <2>9, KicksTyped
  <2>13. TypeOK'
    BY <1>1, <1>2, <1>6, <2>8, <2>10, <2>12, TypeAll, TypesNext
  <2>14. Cards
    BY <2>3, <2>5 DEF Cards
  <2>15. DOMAIN calls' = DOMAIN calls /\ NewCalls = {}
    BY <2>3, <2>5 DEF NewCalls
  <2>16. \A d \in DOMAIN calls : d # c => calls'[d] = calls[d]
    BY <2>3, <2>5
  <2>17. Reckons
    <3>1. \A d \in CallId : made'[d] = md[d] \/ Apt(d, {"now", "native"})
      BY <2>10 DEF Due, Apt
    <3>2. ~Due(c)
      BY <2>3, <2>5 DEF Due
    <3>3. made'[c] = made[c] + 1 /\ c \in DOMAIN calls /\ calls[c].st \in Open /\ calls'[c].st = "done"
      BY <1>4, <2>2, <2>3, <2>5, <2>6, <2>10, <3>2
    <3>4. \A d \in CallId : made'[d] \in Nat
      BY <2>10
    <3> QED BY <2>6, <2>15, <2>16, <3>1, <3>3, <3>4 DEF Reckons
  <2>18. \A d \in DOMAIN calls : /\ calls'[d].kind = calls[d].kind
                                 /\ calls'[d].st \in Open => calls[d].st \in Open
    BY <2>2, <2>3, <2>5
  <2>19. future' \in {future, <<>>}
    BY <2>1
  <2> QED BY <1>2, <1>3, <1>6, <2>11, <2>13, <2>14, <2>15, <2>17, <2>18, <2>19, AnswerKeeps
<1>8. CASE ~Pending(c)
  <2> DEFINE W == Write("record", c, "failed", w.run)
  <2>1. queue' = Append(Tail(queue), W) /\ UNCHANGED <<calls, future, active, made, awake>>
    BY <1>8 DEF CommitEdit
  <2>2. W \in Written /\ AptWrite(W)
    BY <1>4, WrittenTyped DEF AptWrite, Write
  <2> HIDE DEF w, c, W
  <2>3. queue' \in Seq(Written)
        /\ \A i \in DOMAIN queue' : (i \in DOMAIN Tail(queue) /\ queue'[i] = Tail(queue)[i]) \/ queue'[i] = W
    BY <1>3, <2>1, <2>2
  <2>4. QueueApt(1)
    BY <1>3, <2>2, <2>3 DEF QueueApt, AptWrite
  <2>5. HandsApt
    BY <2>1 DEF HandsApt
  <2>6. TypeOK'
    BY <1>1, <1>2, <2>1, <2>3, TypeAll, TypesNext
  <2>7. Cards
    BY <2>1 DEF Cards
  <2>8. Reckons
    BY <1>5, <2>1 DEF Reckons
  <2> QED BY <1>2, <1>3, <1>6, <2>1, <2>4, <2>5, <2>6, <2>7, <2>8, AnswerKeeps
<1> QED BY <1>7, <1>8

LEMMA ToldKeeps ==
    ASSUME AgentInv, CommitNative
    PROVE  AgentInv'
<1> DEFINE w == Head(queue)
           c == w.call
           free == [active EXCEPT ![w.run] = Free]
           asks == {i \in DOMAIN turns : turns[i].who = "asks" /\ turns[i].run = c[1]
                                         /\ turns[i].call[2] = c[2]}
           later(i) == {j \in DOMAIN turns : turns[j].run = c[1] /\ j > i
                                             /\ turns[j].who \in {"asks", "says"}}
           its(i) == \E a \in asks : i > a /\ \A j \in later(a) : i < j
           cs == Says(calls, c, w.st)
<1>1. TypeOK /\ Handled
  BY DEF AgentInv
<1>2. /\ Next1("native") /\ Finished(w.run, Tail(queue), made)
      /\ calls' = IF c \in DOMAIN calls THEN [calls EXCEPT ![c].st = w.st] ELSE calls
      /\ turns' = [i \in DOMAIN turns |->
                        IF turns[i].who = "tool" /\ turns[i].call = c /\ its(i)
                        THEN [turns[i] EXCEPT !.said = w.st] ELSE turns[i]]
      /\ UNCHANGED <<status, issued, chat, worker, past, future, walk, allowed, strayed, person>>
  BY DEF CommitNative
<1>3. /\ w \in Written /\ w.what = "native" /\ Tail(queue) \in Seq(Written) /\ walk = NoWalk
      /\ 1 \in DOMAIN queue /\ w = queue[1]
      /\ \A i \in DOMAIN Tail(queue) : i + 1 \in DOMAIN queue /\ Tail(queue)[i] = queue[i + 1]
  BY <1>2, HeadIs
<1>4. c \in CallId /\ w.run \in Run /\ w.st \in {"done", "failed"}
  BY <1>3, WrittenParts
<1>5. Holds(c, {"native"})
  BY <1>1, <1>3 DEF Handled
<1> HIDE DEF w, c, its
<1>6. /\ calls \in Table /\ active \in [Run -> Place] /\ made \in [CallId -> Nat] /\ awake \subseteq Run
      /\ status \in [Run -> Statuses] /\ turns \in Seq(TurnRow)
  BY <1>1, TypeAll
<1>7. c \in DOMAIN calls => calls[c].kind = "native"
  <2>1. Coherent(Whole)
    BY DEF AgentInv, AllCoherent, Copies
  <2>2. c \in DOMAIN calls => status[c[1]] # "none"
    BY <2>1 DEF Coherent, Whole
  <2> QED BY <1>5, <2>2, HoldsHere
<1>8. /\ calls' \in Table /\ DOMAIN calls' = DOMAIN calls
      /\ \A d \in DOMAIN calls : \/ calls'[d] = calls[d]
                                 \/ /\ calls'[d].kind = calls[d].kind /\ calls'[d].st \in {"done", "failed"}
                                    /\ calls[d].kind = "native"
  <2>1. CASE c \notin DOMAIN calls
    BY <1>2, <1>6, <2>1
  <2>2. CASE c \in DOMAIN calls
    <3>1. PICK st \in Words : st = w.st
      BY <1>4 DEF Words
    <3> DEFINE new == Says(calls, c, st)
    <3>2. calls' = new
      BY <1>2, <2>2, <3>1 DEF Says
    <3>3. /\ new \in Table /\ DOMAIN new = DOMAIN calls
          /\ new[c].kind = calls[c].kind /\ new[c].st = st
          /\ \A d \in DOMAIN calls : d # c => new[d] = calls[d]
      BY <1>6, <2>2, SetCall
    <3> HIDE DEF new
    <3> QED BY <1>4, <1>7, <2>2, <3>1, <3>2, <3>3
  <2> QED BY <2>1, <2>2
<1>9. turns' \in Seq(TurnRow)
  <2>1. DOMAIN turns = 1 .. Len(turns) /\ Len(turns) \in Nat /\ \A i \in DOMAIN turns : turns[i] \in TurnRow
    BY <1>6
  <2>2. \A t \in TurnRow : [t EXCEPT !.said = "done"] \in TurnRow /\ [t EXCEPT !.said = "failed"] \in TurnRow
    BY DEF TurnRow
  <2>3. \A i \in DOMAIN turns : [turns[i] EXCEPT !.said = w.st] \in TurnRow
    BY <1>4, <2>1, <2>2
  <2>4. turns' \in [1 .. Len(turns) -> TurnRow]
    BY <1>2, <2>1, <2>3
  <2> QED BY <2>1, <2>4
<1>10. status' \in [Run -> Statuses]
  BY <1>2, <1>6
<1>11. Took(free, Tail(queue), made) /\ KickAll(status')
  BY <1>2, <1>6, <1>8, <1>10, FinishedIs
<1>12. free \in [Run -> Place] /\ \A p \in Run : free[p] = active[p] \/ free[p].at \in {"no", "queued"}
  BY <1>4, <1>6, PlaceTyped
<1> HIDE DEF free
<1>13. /\ active' \in [Run -> Place] /\ queue' \in Seq(Written) /\ made' \in [CallId -> Nat]
       /\ \A d \in CallId : made'[d] = made[d] \/ Due(d)
  BY <1>3, <1>6, <1>8, <1>10, <1>11, <1>12, TookParts
<1>14. HandsApt /\ QueueApt(1)
  BY <1>3, <1>6, <1>8, <1>10, <1>11, <1>12, TookApt
<1>15. awake' \subseteq Run
  BY <1>6, <1>11, KicksTyped
<1>16. TypeOK'
  BY <1>1, <1>2, <1>8, <1>9, <1>10, <1>13, <1>15, TypeAll, TypesNext
<1>17. Cards
  BY <1>8 DEF Cards
<1>18. Reckons
  <2>1. \A d \in CallId : made'[d] = made[d] \/ Apt(d, {"now", "native"})
    BY <1>13 DEF Due, Apt
  <2>2. \A d \in DOMAIN calls : calls[d].kind \in {"edit", "asks"} =>
            (calls'[d].st = "done" <=> calls[d].st = "done")
    BY <1>8
  <2>3. NewCalls = {} /\ \A d \in CallId : made'[d] \in Nat
    BY <1>8, <1>13 DEF NewCalls
  <2> QED BY <2>1, <2>2, <2>3 DEF Reckons
<1>19. \A d \in DOMAIN calls : /\ calls'[d].kind = calls[d].kind
                               /\ calls'[d].st \in Open => calls[d].st \in Open
  BY <1>8 DEF Open
<1> QED BY <1>2, <1>3, <1>8, <1>14, <1>16, <1>17, <1>18, <1>19, AnswerKeeps

LEMMA StopKeeps ==
    ASSUME AgentInv, CommitStop
    PROVE  AgentInv'
<1> DEFINE r == Head(queue).run
<1>1. TypeOK
  BY DEF AgentInv
<1>2. /\ Next1("stop") /\ queue' = Tail(queue) /\ KickAll(status')
      /\ status' = IF status[r] \in Live THEN [status EXCEPT ![r] = "stopped"] ELSE status
      /\ UNCHANGED <<issued, turns, calls, chat, worker, active, past, walk, made, allowed, strayed, person>>
      /\ future' = IF status' = status THEN future ELSE <<>>
  BY DEF CommitStop, ghosts
<1>3. /\ Head(queue) \in Written /\ Head(queue).what = "stop"
      /\ Tail(queue) \in Seq(Written) /\ walk = NoWalk
      /\ \A i \in DOMAIN Tail(queue) : i + 1 \in DOMAIN queue /\ Tail(queue)[i] = queue[i + 1]
  BY <1>2, HeadIs
<1>4. r \in Run
  BY <1>3, WrittenParts
<1> HIDE DEF r
<1>5. /\ calls \in Table /\ active \in [Run -> Place] /\ made \in [CallId -> Nat] /\ awake \subseteq Run
      /\ status \in [Run -> Statuses] /\ future \in Seq(Undoable) /\ <<>> \in Seq(Undoable)
  BY <1>1, TypeAll
<1>6. status' \in [Run -> Statuses] /\ \A p \in Run : status'[p] = "none" <=> status[p] = "none"
  <2>1. "stopped" \in Statuses /\ "none" \notin Live
    BY DEF Statuses, Live
  <2> QED BY <1>2, <1>4, <1>5, <2>1
<1>7. QueueApt(1)
  BY <1>2, <1>3, TailApt
<1>8. HandsApt
  BY <1>2 DEF HandsApt
<1>9. future' \in {future, <<>>} /\ future' \in Seq(Undoable)
  BY <1>2, <1>5
<1>10. TypeOK'
  BY <1>1, <1>2, <1>3, <1>5, <1>6, <1>9, KicksTyped, TypeAll, TypesNext
<1>11. Cards
  BY <1>2 DEF Cards
<1>12. Reckons
  BY <1>2, <1>5 DEF Reckons
<1> QED BY <1>2, <1>3, <1>6, <1>7, <1>8, <1>9, <1>10, <1>11, <1>12, AnswerKeeps

(* A run is begun: by a send, by a retry, or by either made again. *)
LEMMA BeganKeeps ==
    ASSUME AgentInv, NEW r \in Run, r = issued + 1, issued' = r,
           status' = [status EXCEPT ![r] = "pending"],
           calls' = calls \/ calls' = Cancelled(turns, calls), turns' \in Seq(TurnRow),
           UNCHANGED <<chat, worker, active, made, allowed>>, KickAll(status'),
           strayed \subseteq strayed', strayed' \subseteq Strayings,
           NEW e \in Begun, past' = Append(past, e),
           future' \in Seq(Undoable), NoneNew(future', future), walk' = NoWalk, person' \in BOOLEAN \X Nat,
           queue' \in Seq(Written), NEW s \in {0, 1}, QueueApt(s)
    PROVE  AgentInv'
<1>1. TypeOK
  BY DEF AgentInv
<1>2. /\ calls \in Table /\ past \in Seq(Undoable) /\ status \in [Run -> Statuses] /\ issued \in Nat
      /\ awake \subseteq Run /\ made \in [CallId -> Nat]
  BY <1>1, TypeAll, TypeParts
<1>3. /\ calls' \in Table /\ DOMAIN calls' = DOMAIN calls
      /\ \A c \in DOMAIN calls : /\ calls'[c].kind = calls[c].kind
                                 /\ calls'[c].st = calls[c].st
                                    \/ (calls[c].st \in Open /\ calls'[c].st = "cancelled")
  <2>1. CASE calls' = calls
    BY <1>2, <2>1
  <2>2. CASE calls' = Cancelled(turns, calls)
    BY <1>2, <2>2, CancelledIs
  <2> QED BY <2>1, <2>2
<1>4. /\ status' \in [Run -> Statuses] /\ status'[r] = "pending"
      /\ \A p \in Run : p # r => status'[p] = status[p]
  <2>1. "pending" \in Statuses
    BY DEF Statuses, Live
  <2> QED BY <1>2, <2>1
<1>5. e \in Undoable /\ e.kind # "delete"
  BY DEF Undoable, Begun
<1>6. past' \in Seq(Undoable)
  BY <1>2, <1>5
<1>7. issued' \in 0 .. MaxRuns
  BY CallParts
<1>8. TypeOK'
  BY <1>1, <1>2, <1>3, <1>4, <1>6, <1>7, KicksTyped, TypeAll, TypesNext
<1>9. NoneNew(past', past)
  <2> SUFFICES ASSUME NEW i \in DOMAIN past', past'[i].kind = "delete"
               PROVE  i \in DOMAIN past /\ past'[i] = past[i]
    BY DEF NoneNew
  <2>1. (i \in DOMAIN past /\ past'[i] = past[i]) \/ past'[i] = e
    BY <1>2
  <2> QED BY <1>5, <2>1
<1>10. Kept(past') \subseteq Kept(past)
  BY <1>9, NoneNewKept
<1>11. Grows
  <2>1. \A p \in Run : status[p] # "none" => p <= issued
    <3>1. Coherent(Whole)
      BY DEF AgentInv, AllCoherent, Copies
    <3> QED BY <3>1 DEF Coherent, Whole
  <2>2. \A p \in Run : p \in Nat
    BY CallParts
  <2>3. \A p \in Run : status'[p] # "none" => p <= issued' /\ (status[p] # "none" \/ issued < p)
    <3> SUFFICES ASSUME NEW p \in Run, status'[p] # "none"
                 PROVE  p <= issued' /\ (status[p] # "none" \/ issued < p)
      OBVIOUS
    <3>1. CASE p = r
      BY <1>2, <2>2, <3>1
    <3>2. CASE p # r
      BY <1>2, <1>4, <2>1, <2>2, <3>2
    <3> QED BY <3>1, <3>2
  <2>4. \A p \in Run : status[p] # "none" => status'[p] # "none"
    BY <1>4
  <2>5. NewCalls = {}
    BY <1>3 DEF NewCalls
  <2>6. \A c \in DOMAIN calls : calls'[c].st \in Open => calls[c].st \in Open
    BY <1>3
  <2> QED BY <1>2, <1>3, <1>10, <2>2, <2>3, <2>4, <2>5, <2>6 DEF Grows
<1>12. Cards
  BY <1>3 DEF Cards
<1>13. HandsApt
  BY DEF HandsApt
<1>14. Reads
  BY <1>3 DEF Reads, NewCalls
<1>15. Reckons
  <2>1. \A c \in DOMAIN calls : calls'[c].st = "done" <=> calls[c].st = "done"
    BY <1>3 DEF Open
  <2> QED BY <1>2, <2>1 DEF Reckons
<1>16. WalksAlone'
  BY DEF WalksAlone
<1> QED BY <1>8, <1>9, <1>11, <1>12, <1>13, <1>14, <1>15, <1>16, AddsKeeps DEF Adds

(* A write that finds no cause to change anything. *)
LEMMA TakenKeeps ==
    ASSUME AgentInv, NEW what, Next1(what), queue' = Tail(queue), KickAll(status'),
           UNCHANGED <<issued, status, turns, calls, chat, worker, active, past, future, walk,
                       made, allowed, strayed, person>>
    PROVE  AgentInv'
<1>1. TypeOK
  BY DEF AgentInv
<1>2. /\ Tail(queue) \in Seq(Written) /\ walk = NoWalk
      /\ \A i \in DOMAIN Tail(queue) : i + 1 \in DOMAIN queue /\ Tail(queue)[i] = queue[i + 1]
  BY HeadIs
<1>3. QueueApt(1)
  BY <1>2, TailApt
<1>4. TypeOK'
  BY <1>1, <1>2, KicksTyped, TypeAll, TypesNext
<1>5. Cards /\ HandsApt
  BY DEF Cards, HandsApt
<1>6. Reckons
  <2>1. made \in [CallId -> Nat]
    BY <1>1, TypeAll
  <2> QED BY <2>1 DEF Reckons
<1> QED BY <1>2, <1>3, <1>4, <1>5, <1>6, AnswerKeeps

(* There is an id for a run while fewer are handed out than may be. *)
LEMMA NextRun ==
    ASSUME AgentInv, issued < MaxRuns
    PROVE  issued + 1 \in Run
<1>1. issued \in Nat /\ MaxRuns \in Nat
  BY TypeParts, CallParts DEF AgentInv
<1> QED BY <1>1 DEF Run

LEMMA SendKeeps ==
    ASSUME AgentInv, CommitSend
    PROVE  AgentInv'
<1> DEFINE r == issued + 1
           ts == Turn(Settled(turns, calls), "user", r, NoCall, "")
           e == Claim("send", r, Last(ts).seq, NoRows)
<1>1. TypeOK
  BY DEF AgentInv
<1>0. Next1("send") /\ queue' = Tail(queue) /\ KickAll(status')
      /\ UNCHANGED <<chat, worker, active, walk, made, allowed, person>>
  BY DEF CommitSend
<1>a. ASSUME ~(issued < MaxRuns) PROVE AgentInv'
  <2>1. UNCHANGED <<issued, status, turns, calls, past, future, strayed>>
    BY <1>a DEF CommitSend
  <2> QED BY <1>0, <2>1, TakenKeeps
<1>b. SUFFICES ASSUME issued < MaxRuns PROVE AgentInv'
  BY <1>a
<1>2. /\ Next1("send") /\ issued' = r /\ status' = [status EXCEPT ![r] = "pending"]
      /\ turns' = ts /\ calls' = Cancelled(turns, calls)
      /\ past' = Append(past, e) /\ future' = <<>>
      /\ strayed \subseteq strayed' /\ strayed' \subseteq strayed \union {"crowded"}
      /\ queue' = Tail(queue) /\ KickAll(status')
      /\ UNCHANGED <<chat, worker, active, walk, made, allowed, person>>
  BY <1>0, <1>b DEF CommitSend, Files
<1>3. /\ Tail(queue) \in Seq(Written) /\ walk = NoWalk
      /\ \A i \in DOMAIN Tail(queue) : i + 1 \in DOMAIN queue /\ Tail(queue)[i] = queue[i + 1]
  BY <1>2, HeadIs
<1>4. r \in Run
  BY <1>b, NextRun
<1>5. ts \in Seq(TurnRow)
  <2>1. Settled(turns, calls) \in Seq(TurnRow)
    BY <1>1, TypeParts, SettledTyped
  <2> QED BY <1>4, <2>1, TurnTyped DEF Said
<1>6. e \in Begun
  <2>1. ts # <<>>
    <3> DEFINE before == Settled(turns, calls)
    <3>1. before \in Seq(TurnRow)
      BY <1>1, TypeParts, SettledTyped
    <3>2. \E t : ts = Append(before, t)
      BY DEF Turn
    <3> HIDE DEF before, ts
    <3> QED BY <3>1, <3>2
  <2> HIDE DEF ts
  <2>2. Last(ts) \in TurnRow
    BY <1>5, <2>1 DEF Last
  <2>3. Last(ts).seq \in Nat
    BY <2>2, TurnParts
  <2> QED BY <1>4, <2>3 DEF Begun, Claim
<1> HIDE DEF r, ts, e
<1>7. QueueApt(1)
  BY <1>2, <1>3, TailApt
<1>8. future' \in Seq(Undoable) /\ NoneNew(future', future)
  <2>1. <<>> \in Seq(Undoable) /\ DOMAIN <<>> = {}
    OBVIOUS
  <2> QED BY <1>2, <2>1 DEF NoneNew
<1>9. person' \in BOOLEAN \X Nat /\ walk' = NoWalk /\ r = issued + 1
  BY <1>1, <1>2, <1>3, TypeAll DEF r
<1>10. /\ turns' \in Seq(TurnRow) /\ queue' \in Seq(Written)
  BY <1>2, <1>3, <1>5
<1>11. strayed \subseteq strayed' /\ strayed' \subseteq Strayings
  BY <1>1, <1>2, StraysTyped, StrayWords
<1> QED BY <1>2, <1>4, <1>6, <1>7, <1>8, <1>9, <1>10, <1>11, BeganKeeps

LEMMA RetryKeeps ==
    ASSUME AgentInv, CommitRetry
    PROVE  AgentInv'
<1> DEFINE r == issued + 1
           e == Claim("retry", r, 0, NoRows)
           last == Latest(status)
<1>1. TypeOK
  BY DEF AgentInv
<1>2. /\ Next1("retry") /\ queue' = Tail(queue) /\ KickAll(status')
      /\ UNCHANGED <<chat, worker, active, walk, made, allowed, strayed, person>>
  BY DEF CommitRetry, ghosts
<1>3. /\ Tail(queue) \in Seq(Written) /\ walk = NoWalk
      /\ \A i \in DOMAIN Tail(queue) : i + 1 \in DOMAIN queue /\ Tail(queue)[i] = queue[i + 1]
  BY <1>2, HeadIs
<1>4. issued < MaxRuns => r \in Run
  BY NextRun
<1>5. QueueApt(1)
  BY <1>2, <1>3, TailApt
<1>6. CASE last # 0 /\ status[last] \in {"failed", "stopped"} /\ issued < MaxRuns
  <2>1. /\ issued' = r /\ status' = [status EXCEPT ![r] = "pending"]
        /\ turns' = Settled(turns, calls) /\ calls' = Cancelled(turns, calls)
        /\ past' = Append(past, e) /\ future' = <<>>
    BY <1>6 DEF CommitRetry, Files
  <2>2. turns' \in Seq(TurnRow)
    BY <1>1, <2>1, TypeParts, SettledTyped
  <2>0. r \in Run
    BY <1>4, <1>6
  <2>3. e \in Begun
    BY <2>0 DEF Begun, Claim
  <2>4. future' \in Seq(Undoable) /\ NoneNew(future', future)
    <3>1. <<>> \in Seq(Undoable) /\ DOMAIN <<>> = {}
      OBVIOUS
    <3> QED BY <2>1, <3>1 DEF NoneNew
  <2>5. person' \in BOOLEAN \X Nat /\ walk' = NoWalk /\ r = issued + 1
    BY <1>1, <1>2, <1>3, TypeAll
  <2>6. strayed \subseteq strayed' /\ strayed' \subseteq Strayings
    BY <1>1, <1>2, StraysTyped
  <2> HIDE DEF e, r
  <2> QED BY <1>2, <1>3, <1>5, <2>0, <2>1, <2>2, <2>3, <2>4, <2>5, <2>6, BeganKeeps
<1>7. CASE ~(last # 0 /\ status[last] \in {"failed", "stopped"} /\ issued < MaxRuns)
  <2>1. UNCHANGED <<issued, status, turns, calls, past, future>>
    BY <1>7 DEF CommitRetry
  <2> QED BY <1>2, <2>1, TakenKeeps
<1> QED BY <1>6, <1>7

----------------------------------------------------------------------------
(* The steps that take rows away or bring them back: each copy of the rows  *)
(* there is then is part of one there was.                                  *)

Part(k, k0) ==
    /\ \A r \in Run : k.status[r] # "none" => k0.status[r] # "none"
    /\ \A c \in DOMAIN k.calls : /\ c \in DOMAIN k0.calls /\ k.calls[c] = k0.calls[c]
                                 /\ k.status[c[1]] # "none"
    /\ \A c \in DOMAIN k0.calls : k.status[c[1]] # "none" => c \in DOMAIN k.calls

LEMMA PartOfItself ==
    ASSUME NEW k, Coherent(k)
    PROVE  Part(k, k)
BY DEF Coherent, Part

(* An empty copy is part of any. *)
LEMMA NothingIsPart ==
    ASSUME NEW k, NEW k0, k0.calls \in Table, \A r \in Run : k.status[r] = "none", DOMAIN k.calls = {}
    PROVE  Part(k, k0)
BY RowParts, CallParts DEF Part

LEMMA PartAhead ==
    ASSUME NEW k, NEW k0, Part(k, k0), NEW c \in DOMAIN k.calls, Ahead(k0.calls, c)
    PROVE  Ahead(k.calls, c)
BY DEF Part, Ahead

CoherentOn(k) ==
    /\ \A r \in Run : k.status[r] # "none" => r <= issued'
    /\ \A c \in DOMAIN k.calls :
         /\ k.status[c[1]] # "none"
         /\ k.calls[c].st = "asked" => k.calls[c].kind = "asks" /\ Ahead(k.calls, c)

LEMMA PartCoherent ==
    ASSUME NEW k, NEW k0, Part(k, k0), Coherent(k0), issued' = issued
    PROVE  CoherentOn(k)
<1>1. \A r \in Run : k.status[r] # "none" => r <= issued'
  BY DEF Part, Coherent
<1>2. ASSUME NEW c \in DOMAIN k.calls
      PROVE  /\ k.status[c[1]] # "none"
             /\ k.calls[c].st = "asked" => k.calls[c].kind = "asks" /\ Ahead(k.calls, c)
  <2>1. c \in DOMAIN k0.calls /\ k.calls[c] = k0.calls[c] /\ k.status[c[1]] # "none"
    BY DEF Part
  <2>2. k0.calls[c].st = "asked" => k0.calls[c].kind = "asks" /\ Ahead(k0.calls, c)
    BY <2>1 DEF Coherent
  <2> QED BY <2>1, <2>2, PartAhead
<1> QED BY <1>1, <1>2 DEF CoherentOn

LEMMA PartsKeep ==
    ASSUME AgentInv, TypeOK', OneDeletion', WalksAlone', Handled',
           UNCHANGED <<issued, worker, made>>, strayed \subseteq strayed',
           \A k \in Copies' \union Kept(future') : \E k0 \in Copies \union Kept(future) : Part(k, k0),
           "lost" \in strayed' \/ \A k \in Copies' : \E k0 \in Copies : Part(k, k0)
    PROVE  AgentInv'
<1>1. TypeOK /\ AllCoherent /\ Reading /\ Accounted
  BY DEF AgentInv
<1>2. AllCoherent'
  <2>1. ASSUME NEW k \in Copies' \union Kept(future') PROVE CoherentOn(k)
    <3>1. PICK k0 \in Copies \union Kept(future) : Part(k, k0)
      OBVIOUS
    <3>2. Coherent(k0)
      BY <1>1 DEF AllCoherent
    <3> QED BY <3>1, <3>2, PartCoherent
  <2>2. ASSUME NEW k \in (Copies \union Kept(future))' PROVE Coherent(k)'
    <3>1. CoherentOn(k)
      BY <2>1
    <3> QED BY <3>1 DEF CoherentOn, Coherent
  <2> QED BY <2>2 DEF AllCoherent
<1>3. Reading'
  <2> SUFFICES ASSUME NEW r \in Run, worker'[r].at \in {"reading", "read"}
               PROVE  /\ worker'[r].call[1] = r
                      /\ "lost" \notin strayed' => \A k \in Copies' :
                            worker'[r].call \in DOMAIN k.calls => k.calls[worker'[r].call].kind = "read"
    BY DEF Reading
  <2>1. /\ worker[r].call[1] = r
        /\ "lost" \notin strayed => \A k \in Copies :
              worker[r].call \in DOMAIN k.calls => k.calls[worker[r].call].kind = "read"
    BY <1>1 DEF Reading
  <2>2. ASSUME "lost" \notin strayed', NEW k \in Copies', worker[r].call \in DOMAIN k.calls
        PROVE  k.calls[worker[r].call].kind = "read"
    <3>1. PICK k0 \in Copies : Part(k, k0)
      BY <2>2
    <3>2. worker[r].call \in DOMAIN k0.calls /\ k.calls[worker[r].call] = k0.calls[worker[r].call]
      BY <2>2, <3>1 DEF Part
    <3> QED BY <2>1, <2>2, <3>2
  <2> QED BY <2>1, <2>2
<1>4. Accounted'
  <2>1. \A c \in CallId : made'[c] > 0 => c[1] <= issued'
    BY <1>1 DEF Accounted
  <2>2. ASSUME "lost" \notin strayed', NEW k \in Copies'
        PROVE  /\ \A c \in CallId : made'[c] > 0 /\ k.status[c[1]] # "none" => c \in DOMAIN k.calls
               /\ \A c \in DOMAIN k.calls : k.calls[c].kind \in {"edit", "asks"} =>
                      made'[c] <= 1 /\ (made'[c] = 1 <=> k.calls[c].st = "done")
    <3>1. PICK k0 \in Copies : Part(k, k0)
      BY <2>2
    <3>2. /\ \A c \in CallId : made[c] > 0 /\ k0.status[c[1]] # "none" => c \in DOMAIN k0.calls
          /\ \A c \in DOMAIN k0.calls : k0.calls[c].kind \in {"edit", "asks"} =>
                 made[c] <= 1 /\ (made[c] = 1 <=> k0.calls[c].st = "done")
      BY <1>1, <2>2 DEF Accounted
    <3>3. ASSUME NEW c \in CallId, made[c] > 0, k.status[c[1]] # "none" PROVE c \in DOMAIN k.calls
      <4>1. c[1] \in Run
        BY CallParts
      <4> QED BY <3>1, <3>2, <3>3, <4>1 DEF Part
    <3>4. ASSUME NEW c \in DOMAIN k.calls, k.calls[c].kind \in {"edit", "asks"}
          PROVE  made[c] <= 1 /\ (made[c] = 1 <=> k.calls[c].st = "done")
      <4>1. c \in DOMAIN k0.calls /\ k.calls[c] = k0.calls[c]
        BY <3>1 DEF Part
      <4> QED BY <3>2, <3>4, <4>1
    <3> QED BY <3>3, <3>4
  <2> QED BY <2>1, <2>2 DEF Accounted
<1> QED BY <1>2, <1>3, <1>4 DEF AgentInv

(* A session with nothing in its hands holds no call. *)
LEMMA QuietHandles ==
    ASSUME Quiet, active' = active, queue' = queue
    PROVE  Handled'
<1>1. \A r \in Run : active'[r] = Free /\ Free.at = "no"
  BY PlaceTyped DEF Quiet
<1>2. DOMAIN queue' = {}
  BY DEF Quiet
<1> QED BY <1>1, <1>2 DEF Handled

(* What the session held it holds on, where every copy is part of an old one. *)
LEMMA PartsHeld ==
    ASSUME AgentInv, active' = active, queue' = Tail(queue), queue # <<>>, allowed' = allowed,
           issued' = issued, \A k \in Copies' : \E k0 \in Copies : Part(k, k0)
    PROVE  Handled'
<1>1. TypeOK /\ Handled
  BY DEF AgentInv
<1>2. ASSUME NEW c \in CallId, NEW kinds, Holds(c, kinds) PROVE HeldOn(c, kinds)
  <2>1. ASSUME NEW k \in Copies', k.status[c[1]] # "none"
        PROVE  c \in DOMAIN k.calls /\ k.calls[c].kind \in kinds /\ Ahead(k.calls, c)
    <3>1. PICK k0 \in Copies : Part(k, k0)
      OBVIOUS
    <3>2. c[1] \in Run
      BY CallParts
    <3>3. k0.status[c[1]] # "none"
      BY <2>1, <3>1, <3>2 DEF Part
    <3>4. c \in DOMAIN k0.calls /\ k0.calls[c].kind \in kinds /\ Ahead(k0.calls, c)
      BY <1>2, <3>3 DEF Holds
    <3>5. c \in DOMAIN k.calls /\ k.calls[c] = k0.calls[c]
      BY <2>1, <3>1, <3>4 DEF Part
    <3> QED BY <3>1, <3>4, <3>5, PartAhead
  <2> QED BY <1>2, <2>1 DEF HeldOn, Holds
<1>3. \A c : Edits(c)' = Edits(c)
  BY DEF Edits
<1>4. \A r \in Run : active[r] \in Place
  BY <1>1, TypeParts
<1>5. ASSUME NEW r \in Run
      PROVE  /\ active'[r].at = "preparing" => Holds(active[r].call, {"native"} \union Edits(active[r].call))'
             /\ active'[r].at \in {"native", "ran"} => Holds(active[r].call, {"native"})'
  <2>1. active[r].at = "preparing" => HeldOn(active[r].call, {"native"} \union Edits(active[r].call))
    <3> SUFFICES ASSUME active[r].at = "preparing"
                 PROVE  HeldOn(active[r].call, {"native"} \union Edits(active[r].call))
      OBVIOUS
    <3>1. Holds(active[r].call, {"native"} \union Edits(active[r].call))
      BY <1>1 DEF Handled
    <3>2. active[r].call \in CallId
      BY <1>4, PlaceTyped
    <3> QED BY <1>2, <3>1, <3>2
  <2>2. active[r].at \in {"native", "ran"} => HeldOn(active[r].call, {"native"})
    BY <1>1, <1>2, <1>4, PlaceTyped DEF Handled
  <2> QED BY <2>1, <2>2 DEF HeldOn, Holds, Edits
<1>6. queue \in Seq(Written) /\ \A i \in DOMAIN queue' : i + 1 \in DOMAIN queue /\ queue'[i] = queue[i + 1]
  BY <1>1, TailParts DEF TypeOK
<1>7. ASSUME NEW i \in DOMAIN queue'
      PROVE  /\ queue'[i].what = "ask" => Holds(queue[i].call, {"asks"})'
             /\ queue'[i].what = "edit" => Holds(queue[i].call, Edits(queue[i].call))'
             /\ queue'[i].what = "native" => Holds(queue[i].call, {"native"})'
             /\ queue'[i].what = "record" /\ queue'[i].st = "done" => Holds(queue[i].call, {"now"})'
  <2>0. queue'[i] = queue[i + 1] /\ i + 1 \in DOMAIN queue
    BY <1>6
  <2>1. PICK w : w = queue[i + 1] /\ w \in Written
    BY <1>6, <2>0
  <2>2. w.what \in {"ask", "edit", "native", "record"} => w.call \in CallId
    BY <2>1, WrittenParts
  <2>3. /\ w.what = "ask" => Holds(w.call, {"asks"})
        /\ w.what = "edit" => Holds(w.call, Edits(w.call))
        /\ w.what = "native" => Holds(w.call, {"native"})
        /\ w.what = "record" /\ w.st = "done" => Holds(w.call, {"now"})
    BY <1>1, <2>0, <2>1 DEF Handled
  <2>4. /\ w.what = "ask" => HeldOn(w.call, {"asks"})
        /\ w.what = "edit" => HeldOn(w.call, Edits(w.call))
        /\ w.what = "native" => HeldOn(w.call, {"native"})
        /\ w.what = "record" /\ w.st = "done" => HeldOn(w.call, {"now"})
    BY <1>2, <2>2, <2>3
  <2> QED BY <2>0, <2>1, <2>4 DEF HeldOn, Holds, Edits
<1> QED BY <1>5, <1>7 DEF Handled

LEMMA FrontParts ==
    ASSUME NEW S, NEW q \in Seq(S), q # <<>>
    PROVE  /\ Front(q) \in Seq(S) /\ Last(q) \in S /\ Len(q) \in DOMAIN q /\ Last(q) = q[Len(q)]
           /\ \A i \in DOMAIN Front(q) : i \in DOMAIN q /\ Front(q)[i] = q[i] /\ i # Len(q)
BY DEF Front, Last

LEMMA NoRowsTyped ==
    /\ <<>> \in Table /\ DOMAIN <<>> = {}
    /\ \A k : DOMAIN k.calls = {} => ~\E c \in DOMAIN k.calls : TRUE
<1>1. DOMAIN <<>> = {} /\ <<>> = [c \in DOMAIN <<>> |-> <<>>[c]]
  OBVIOUS
<1> QED BY <1>1, TableIs

LEMMA CopyWell ==
    ASSUME AgentInv, NEW k \in Copies \union Kept(future)
    PROVE  k.calls \in Table /\ k.status \in [Run -> Statuses] /\ Coherent(k) /\ Part(k, k)
<1>1. Coherent(k)
  BY DEF AgentInv, AllCoherent
<1>2. k.calls \in Table /\ k.status \in [Run -> Statuses]
  <2>1. TypeOK
    BY DEF AgentInv
  <2>2. CASE k \in Copies
    BY <2>1, <2>2, CopyParts
  <2>3. CASE k \in Kept(future)
    BY <2>1, <2>3, KeptParts DEF TypeOK
  <2> QED BY <2>2, <2>3
<1> QED BY <1>1, <1>2, PartOfItself

(* The rows when all have gone. *)
LEMMA GoneIs ==
    ASSUME AgentInv, Gone
    PROVE  /\ status' \in [Run -> Statuses] /\ turns' \in Seq(TurnRow) /\ calls' \in Table
           /\ chat' \in BOOLEAN /\ issued' = issued /\ ~chat'
           /\ \A r \in Run : status'[r] = "none" /\ Part(Whole', Whole)
           /\ Part(Whole', Whole) /\ Whole \in Copies
<1>1. status' = [r \in Run |-> "none"] /\ turns' = <<>> /\ calls' = <<>> /\ chat' = FALSE /\ issued' = issued
  BY DEF Gone
<1>2. "none" \in Statuses
  BY DEF Statuses
<1>3. calls' \in Table /\ DOMAIN calls' = {}
  BY <1>1, NoRowsTyped
<1>4. Whole \in Copies /\ Whole.calls = calls /\ Whole'.status = status' /\ Whole'.calls = calls'
  BY DEF Copies, Whole
<1>5. Whole.calls \in Table
  BY <1>4, TypeParts DEF AgentInv
<1>6. \A r \in Run : Whole'.status[r] = "none"
  BY <1>1, <1>4
<1>7. Part(Whole', Whole)
  BY <1>3, <1>4, <1>5, <1>6, NothingIsPart
<1>8. status' \in [Run -> Statuses] /\ turns' \in Seq(TurnRow)
  BY <1>1, <1>2
<1> QED BY <1>1, <1>3, <1>4, <1>7, <1>8

LEMMA DeleteKeeps ==
    ASSUME AgentInv, CommitDelete
    PROVE  AgentInv'
<1>1. TypeOK /\ OneDeletion
  BY DEF AgentInv
<1>2. /\ Next1("delete") /\ Gone /\ queue' = Tail(queue)
      /\ UNCHANGED <<awake, worker, active, walk, made, allowed, strayed, person>>
  BY DEF CommitDelete, ghosts
<1>3. /\ Tail(queue) \in Seq(Written) /\ walk = NoWalk /\ queue # <<>>
      /\ \A i \in DOMAIN Tail(queue) : i + 1 \in DOMAIN queue /\ Tail(queue)[i] = queue[i + 1]
  BY <1>2, HeadIs
<1>4. /\ status' \in [Run -> Statuses] /\ turns' \in Seq(TurnRow) /\ calls' \in Table
      /\ chat' \in BOOLEAN /\ issued' = issued /\ ~chat' /\ \A r \in Run : status'[r] = "none"
      /\ Part(Whole', Whole) /\ Whole \in Copies
  BY <1>2, GoneIs
<1>5. past \in Seq(Undoable) /\ future \in Seq(Undoable) /\ <<>> \in Seq(Undoable)
  BY <1>1, TypeAll
<1> DEFINE e == Claim("delete", 0, 0, Whole)
<1>6. e \in Undoable /\ e.kind = "delete" /\ e.kept = Whole
  BY <1>1 DEF Undoable, Claim, TypeOK
<1> HIDE DEF e
<1>7. /\ past' \in Seq(Undoable) /\ future' \in Seq(Undoable) /\ OneDeletion'
      /\ Kept(past') \subseteq Kept(past) \union {Whole} /\ Kept(future') = {}
  <2>1. CASE chat
    <3>1. past' = Append(past, e) /\ future' = <<>>
      BY <2>1 DEF CommitDelete, Files, e
    <3>2. \A i \in DOMAIN past : past[i].kind # "delete"
      BY <1>1, <2>1 DEF OneDeletion, Kept
    <3>3. past' \in Seq(Undoable) /\ future' \in Seq(Undoable) /\ DOMAIN future' = {}
      BY <1>5, <1>6, <3>1
    <3>4. \A i \in DOMAIN past' : (i \in DOMAIN past /\ past'[i] = past[i])
                                   \/ (i = Len(past) + 1 /\ past'[i] = e)
      BY <1>5, <3>1
    <3>5. \A i, j \in DOMAIN past' : past'[i].kind = "delete" /\ past'[j].kind = "delete" => i = j
      BY <3>2, <3>4
    <3>6. Kept(past') \subseteq Kept(past) \union {Whole}
      BY <1>6, <3>4 DEF Kept
    <3>7. Kept(future') = {}
      BY <3>3 DEF Kept
    <3> QED BY <1>4, <3>3, <3>5, <3>6, <3>7 DEF OneDeletion
  <2>2. CASE ~chat
    <3>1. past' = past /\ future' = future
      BY <2>2 DEF CommitDelete
    <3>2. Kept(future) = {}
      BY <1>1, <2>2 DEF OneDeletion
    <3> QED BY <1>1, <1>4, <1>5, <3>1, <3>2 DEF OneDeletion
  <2> QED BY <2>1, <2>2
<1>8. TypeOK'
  BY <1>1, <1>2, <1>3, <1>4, <1>7, TypeAll, TypesNext
<1>9. QueueApt(1)
  BY <1>2, <1>3, TailApt
<1>10. WalksAlone'
  BY <1>2, <1>3, <1>4, <1>8, <1>9 DEF WalksAlone
<1>11. ASSUME NEW k \in Copies' PROVE \E k0 \in Copies : Part(k, k0)
  <2>1. CASE k = Whole'
    BY <1>4, <2>1
  <2>2. CASE k \in Kept(past')
    <3>1. k \in Copies
      BY <1>4, <1>7, <2>2 DEF Copies
    <3> QED BY <3>1, CopyWell
  <2> QED BY <2>1, <2>2 DEF Copies
<1>12. Handled'
  BY <1>2, <1>3, <1>4, <1>11, PartsHeld
<1>13. \A k \in Copies' \union Kept(future') : \E k0 \in Copies \union Kept(future) : Part(k, k0)
  BY <1>7, <1>11
<1> QED BY <1>2, <1>4, <1>7, <1>8, <1>10, <1>11, <1>12, <1>13, PartsKeep

LEMMA RedoDeleteKeeps ==
    ASSUME AgentInv, RedoDelete
    PROVE  AgentInv'
<1> DEFINE e == Last(future)
<1>1. TypeOK /\ OneDeletion
  BY DEF AgentInv
<1>2. /\ walk = NoWalk /\ Quiet /\ future # <<>> /\ e.kind = "delete" /\ Gone
      /\ past' = Append(past, e) /\ future' = Front(future)
      /\ strayed' = strayed \union (IF e.kept # Whole THEN {"lost"} ELSE {})
      /\ UNCHANGED <<worker, awake, active, queue, walk, made, allowed, person>>
  BY DEF RedoDelete
<1>3. past \in Seq(Undoable) /\ future \in Seq(Undoable)
  BY <1>1, TypeAll
<1>4. /\ Front(future) \in Seq(Undoable) /\ e \in Undoable /\ Len(future) \in DOMAIN future
      /\ e = future[Len(future)]
      /\ \A i \in DOMAIN Front(future) : i \in DOMAIN future /\ Front(future)[i] = future[i]
                                         /\ i # Len(future)
  BY <1>2, <1>3, FrontParts
<1> HIDE DEF e
<1>5. /\ status' \in [Run -> Statuses] /\ turns' \in Seq(TurnRow) /\ calls' \in Table
      /\ chat' \in BOOLEAN /\ issued' = issued /\ ~chat' /\ \A r \in Run : status'[r] = "none"
      /\ Part(Whole', Whole) /\ Whole \in Copies
  BY <1>2, GoneIs
<1>6. e.kept \in Kept(future)
  BY <1>2, <1>4 DEF Kept
<1>7. \A i \in DOMAIN future : future[i].kind = "delete" => i = Len(future)
  BY <1>1, <1>2, <1>4 DEF OneDeletion
<1>8. Kept(future') = {}
  BY <1>2, <1>4, <1>7 DEF Kept
<1>9. Kept(past) = {} /\ \A i \in DOMAIN past : past[i].kind # "delete"
  <2>1. Kept(past) = {}
    BY <1>1, <1>6 DEF OneDeletion
  <2> QED BY <2>1 DEF Kept
<1>10. /\ past' \in Seq(Undoable)
       /\ \A i \in DOMAIN past' : (i \in DOMAIN past /\ past'[i] = past[i])
                                  \/ (i = Len(past) + 1 /\ past'[i] = e)
  BY <1>2, <1>3, <1>4
<1>11. Kept(past') \subseteq {e.kept}
  BY <1>9, <1>10 DEF Kept
<1>12. OneDeletion'
  <2>1. \A i, j \in DOMAIN past' : past'[i].kind = "delete" /\ past'[j].kind = "delete" => i = j
    BY <1>9, <1>10
  <2>2. \A i, j \in DOMAIN future' : future'[i].kind = "delete" /\ future'[j].kind = "delete" => i = j
    BY <1>2, <1>4, <1>7
  <2> QED BY <1>5, <1>8, <2>1, <2>2 DEF OneDeletion
<1>13. strayed \subseteq strayed' /\ strayed' \subseteq strayed \union {"lost"}
  BY <1>2
<1>14. TypeOK'
  <2>1. strayed' \subseteq Strayings
    BY <1>1, <1>13, StraysTyped, StrayWords
  <2> QED BY <1>1, <1>2, <1>4, <1>5, <1>10, <2>1, TypeAll, TypesNext
<1>15. WalksAlone'
  BY <1>2, <1>5 DEF AgentInv, WalksAlone
<1>16. Handled'
  BY <1>2, QuietHandles
<1>17. ASSUME NEW k \in Copies' PROVE k = Whole' \/ k = e.kept
  BY <1>11 DEF Copies
<1>18. Part(e.kept, e.kept)
  BY <1>6, CopyWell
<1>19. \A k \in Copies' \union Kept(future') : \E k0 \in Copies \union Kept(future) : Part(k, k0)
  BY <1>5, <1>6, <1>8, <1>17, <1>18
<1>20. "lost" \in strayed' \/ \A k \in Copies' : \E k0 \in Copies : Part(k, k0)
  <2>1. CASE e.kept # Whole
    BY <1>2, <2>1
  <2>2. CASE e.kept = Whole
    BY <1>5, <1>17, <1>18, <2>2
  <2> QED BY <2>1, <2>2
<1> QED BY <1>2, <1>5, <1>12, <1>13, <1>14, <1>15, <1>16, <1>19, <1>20, PartsKeep

LEMMA UndoCutKeeps ==
    ASSUME AgentInv, UndoCut
    PROVE  AgentInv'
<1> DEFINE taken == IF walk.kind = "send" THEN {r \in Run : r >= walk.run} ELSE {walk.run}
           stays(t) == IF walk.kind = "send" THEN t.seq < walk.seq ELSE t.run # walk.run
           S == {i \in DOMAIN turns : stays(turns[i])}
           left == Ascending(S)
<1>1. TypeOK /\ OneDeletion /\ WalksAlone
  BY DEF AgentInv
<1>2. /\ walk # NoWalk
      /\ status' = [r \in Run |-> IF r \in taken THEN "none" ELSE status[r]]
      /\ calls' = [c \in {c \in DOMAIN calls : c[1] \notin taken} |-> calls[c]]
      /\ turns' = [i \in DOMAIN left |-> turns[left[i]]]
      /\ walk' = NoWalk /\ future' = Append(future, walk) /\ KickAll(status')
      /\ UNCHANGED <<issued, chat, worker, active, queue, past, made, allowed, strayed, person>>
  BY DEF UndoCut, ghosts
<1>3. turns' \in Seq(TurnRow)
  <2>1. S \subseteq DOMAIN turns /\ turns \in Seq(TurnRow)
    BY <1>1, TypeAll
  <2> HIDE DEF S
  <2> QED BY <1>2, <2>1, LeftTyped
<1> HIDE DEF taken, S, left
<1>4. /\ status \in [Run -> Statuses] /\ calls \in Table /\ "none" \in Statuses
      /\ past \in Seq(Undoable) /\ future \in Seq(Undoable)
  BY <1>1, TypeAll DEF Statuses
<1>5. /\ status' \in [Run -> Statuses]
      /\ \A r \in Run : status'[r] # "none" => r \notin taken /\ status'[r] = status[r]
      /\ \A r \in Run : r \notin taken => status'[r] = status[r]
      /\ \A r \in Run : r \in taken => status'[r] = "none"
  BY <1>2, <1>4
<1>6. /\ DOMAIN calls' = {c \in DOMAIN calls : c[1] \notin taken}
      /\ calls' = [c \in DOMAIN calls' |-> calls'[c]]
      /\ \A c \in DOMAIN calls' : calls'[c] = calls[c]
  BY <1>2
<1>7. calls' \in Table
  <2>1. DOMAIN calls \subseteq CallId /\ \A c \in DOMAIN calls : calls[c] \in CallRow
    BY <1>4, TableIs
  <2> QED BY <1>6, <2>1, TableIs
<1>8. Whole' = [status |-> status', turns |-> turns', calls |-> calls']
      /\ Whole.status = status /\ Whole.calls = calls /\ Whole \in Copies
  BY DEF Whole, Copies
<1>9. Part(Whole', Whole)
  <2>1. \A c \in DOMAIN calls : status[c[1]] # "none" /\ c[1] \in Run
    <3>1. Coherent(Whole)
      BY <1>8, CopyWell
    <3>2. \A c \in DOMAIN calls : c \in CallId
      BY <1>4, TableIs
    <3> QED BY <1>8, <3>1, <3>2, CallParts DEF Coherent
  <2>2. \A c \in DOMAIN calls' : c \in DOMAIN calls /\ c[1] \notin taken
    BY <1>6
  <2>3. \A c \in DOMAIN calls' : status'[c[1]] # "none"
    BY <1>5, <2>1, <2>2
  <2>4. \A c \in DOMAIN calls : status'[c[1]] # "none" => c \in DOMAIN calls'
    BY <1>5, <1>6, <2>1
  <2>5. \A r \in Run : status'[r] # "none" => status[r] # "none"
    BY <1>5
  <2> QED BY <1>6, <1>8, <2>2, <2>3, <2>4, <2>5 DEF Part
<1>10. walk \in Begun /\ walk \in Undoable /\ walk.kind # "delete"
  BY <1>1, <1>2, TypeAll DEF Begun, Undoable
<1>11. /\ future' \in Seq(Undoable)
       /\ \A i \in DOMAIN future' : (i \in DOMAIN future /\ future'[i] = future[i])
                                    \/ (i = Len(future) + 1 /\ future'[i] = walk)
  BY <1>2, <1>4, <1>10
<1>12. NoneNew(future', future)
  BY <1>10, <1>11 DEF NoneNew
<1>13. Kept(future') \subseteq Kept(future)
  BY <1>12, NoneNewKept
<1>14. OneDeletion'
  <2>1. \A i, j \in DOMAIN past' : past'[i].kind = "delete" /\ past'[j].kind = "delete" => i = j
    BY <1>1, <1>2 DEF OneDeletion
  <2>2. \A i, j \in DOMAIN future' : future'[i].kind = "delete" /\ future'[j].kind = "delete" => i = j
    <3>1. \A i, j \in DOMAIN future : future[i].kind = "delete" /\ future[j].kind = "delete" => i = j
      BY <1>1 DEF OneDeletion
    <3> QED BY <1>12, <3>1 DEF NoneNew
  <2>3. chat' => Kept(past') = {}
    BY <1>1, <1>2 DEF OneDeletion
  <2>4. ~chat' => Kept(future') = {}
    BY <1>1, <1>2, <1>13 DEF OneDeletion
  <2>5. \A k \in Kept(past'), r \in Run : k.status[r] # "none" => status'[r] = "none"
    <3>1. \A k \in Kept(past), r \in Run : k.status[r] # "none" => status[r] = "none"
      BY <1>1 DEF OneDeletion
    <3> QED BY <1>2, <1>5, <3>1
  <2> QED BY <2>1, <2>2, <2>3, <2>4, <2>5 DEF OneDeletion
<1>15. TypeOK'
  <2>1. awake' \subseteq Run
    BY <1>1, <1>2, TypeAll, KicksTyped
  <2> QED BY <1>1, <1>2, <1>3, <1>5, <1>7, <1>11, <2>1, TypeAll, TypesNext
<1>16. Quiet
  BY <1>1, <1>2 DEF WalksAlone
<1>17. Handled'
  BY <1>2, <1>16, QuietHandles
<1>18. WalksAlone'
  BY <1>1, <1>2 DEF WalksAlone
<1>19. ASSUME NEW k \in Copies' PROVE \E k0 \in Copies : Part(k, k0)
  <2>1. CASE k = Whole'
    BY <1>8, <1>9, <2>1
  <2>2. CASE k \in Kept(past')
    <3>1. k \in Copies
      BY <1>2, <2>2 DEF Copies
    <3> QED BY <3>1, CopyWell
  <2> QED BY <2>1, <2>2 DEF Copies
<1>20. \A k \in Copies' \union Kept(future') : \E k0 \in Copies \union Kept(future) : Part(k, k0)
  <2>1. ASSUME NEW k \in Kept(future') PROVE \E k0 \in Copies \union Kept(future) : Part(k, k0)
    BY <1>13, CopyWell
  <2> QED BY <1>19, <2>1
<1> QED BY <1>2, <1>14, <1>15, <1>17, <1>18, <1>19, <1>20, PartsKeep

LEMMA UndoDeleteKeeps ==
    ASSUME AgentInv, UndoDelete
    PROVE  AgentInv'
<1> DEFINE e == Last(past)
<1>1. TypeOK /\ OneDeletion /\ WalksAlone
  BY DEF AgentInv
<1>2. /\ walk = NoWalk /\ Quiet /\ past # <<>> /\ e.kind = "delete"
      /\ status' = [r \in Run |-> IF e.kept.status[r] = "streaming" THEN "stopped"
                                  ELSE e.kept.status[r]]
      /\ turns' = e.kept.turns /\ calls' = e.kept.calls /\ chat' = TRUE
      /\ past' = Front(past) /\ future' = Append(future, e)
      /\ KickAll(status') /\ events' = events + 1 /\ composing' = composing
      /\ UNCHANGED <<issued, worker, active, queue, walk, made, allowed, strayed>>
  BY DEF UndoDelete, Press, Happens, ghosts
<1>3. past \in Seq(Undoable) /\ future \in Seq(Undoable)
  BY <1>1, TypeAll
<1>4. /\ Front(past) \in Seq(Undoable) /\ e \in Undoable /\ Len(past) \in DOMAIN past
      /\ e = past[Len(past)]
      /\ \A i \in DOMAIN Front(past) : i \in DOMAIN past /\ Front(past)[i] = past[i]
                                       /\ i # Len(past)
  BY <1>2, <1>3, FrontParts
<1> HIDE DEF e
<1>5. e.kept \in Kept(past)
  BY <1>2, <1>4 DEF Kept
<1>6. \A i \in DOMAIN past : past[i].kind = "delete" => i = Len(past)
  BY <1>1, <1>2, <1>4 DEF OneDeletion
<1>7. Kept(past') = {}
  BY <1>2, <1>4, <1>6 DEF Kept
<1>8. Kept(future) = {} /\ \A i \in DOMAIN future : future[i].kind # "delete"
  <2>1. Kept(future) = {}
    BY <1>1, <1>5 DEF OneDeletion
  <2> QED BY <2>1 DEF Kept
<1>9. /\ future' \in Seq(Undoable)
      /\ \A i \in DOMAIN future' : (i \in DOMAIN future /\ future'[i] = future[i])
                                   \/ (i = Len(future) + 1 /\ future'[i] = e)
  BY <1>2, <1>3, <1>4
<1>10. Kept(future') \subseteq {e.kept}
  BY <1>8, <1>9 DEF Kept
<1>11. e.kept \in Copies /\ e.kept \in Copy /\ e.kept.status \in [Run -> Statuses]
  BY <1>3, <1>5, KeptParts DEF Copies
<1>12. turns' \in Seq(TurnRow) /\ calls' \in Table
  BY <1>2, <1>11 DEF Copy
<1>13. status' \in [Run -> Statuses] /\ \A r \in Run : status'[r] = "none" <=> e.kept.status[r] = "none"
  BY <1>2, <1>11 DEF Statuses
<1>14. Whole'.status = status' /\ Whole'.calls = e.kept.calls
  BY <1>2 DEF Whole
<1>15. Part(e.kept, e.kept)
  BY <1>11, CopyWell
<1>16. Part(Whole', e.kept)
  <2>1. \A c \in DOMAIN e.kept.calls : c \in CallId /\ c[1] \in Run
    <3>1. e.kept.calls \in Table
      BY <1>11, CopyWell
    <3> QED BY <3>1, TableIs, CallParts
  <2> QED BY <1>13, <1>14, <1>15, <2>1 DEF Part
<1>17. OneDeletion'
  <2>1. \A i, j \in DOMAIN past' : past'[i].kind = "delete" /\ past'[j].kind = "delete" => i = j
    BY <1>2, <1>4, <1>6
  <2>2. \A i, j \in DOMAIN future' : future'[i].kind = "delete" /\ future'[j].kind = "delete" => i = j
    BY <1>8, <1>9
  <2> QED BY <1>2, <1>7, <2>1, <2>2 DEF OneDeletion
<1>18. TypeOK'
  <2>1. awake' \subseteq Run
    BY <1>1, <1>2, TypeAll, KicksTyped
  <2>2. person' \in BOOLEAN \X Nat
    BY <1>1, <1>2 DEF TypeOK, person
  <2> QED BY <1>1, <1>2, <1>4, <1>9, <1>12, <1>13, <2>1, <2>2, TypeAll, TypesNext
<1>19. Handled'
  BY <1>2, QuietHandles
<1>20. WalksAlone'
  BY <1>1, <1>2 DEF WalksAlone
<1>21. ASSUME NEW k \in Copies' PROVE \E k0 \in Copies : Part(k, k0)
  <2>1. k = Whole'
    BY <1>7 DEF Copies
  <2> QED BY <1>11, <1>16, <2>1
<1>22. \A k \in Copies' \union Kept(future') : \E k0 \in Copies \union Kept(future) : Part(k, k0)
  BY <1>10, <1>11, <1>15, <1>21
<1> QED BY <1>2, <1>17, <1>18, <1>19, <1>20, <1>21, <1>22, PartsKeep

----------------------------------------------------------------------------
(* The first write of a walk back, a beginning made again, and a crash.     *)

LEMMA UndoKeeps ==
    ASSUME AgentInv, Undo
    PROVE  AgentInv'
<1> DEFINE e == Last(past)
           taken == IF e.kind = "send" THEN {r \in Run : r >= e.run} ELSE {e.run}
<1>1. TypeOK
  BY DEF AgentInv
<1>2. /\ Quiet /\ past # <<>> /\ e.kind # "delete" /\ walk' = e /\ past' = Front(past)
      /\ status' = [r \in Run |-> IF r \in taken /\ status[r] \in Live
                                  THEN "stopped" ELSE status[r]]
      /\ UNCHANGED <<issued, turns, calls, chat, worker, awake, active, queue, future,
                     made, allowed>>
      /\ strayed \subseteq strayed' /\ strayed' \subseteq strayed \union {"adrift"}
      /\ events' = events + 1 /\ composing' = composing
  BY DEF Undo, Press, Happens
<1> HIDE DEF taken
<1>3. /\ past \in Seq(Undoable) /\ calls \in Table /\ status \in [Run -> Statuses]
      /\ made \in [CallId -> Nat]
  BY <1>1, TypeAll
<1>4. /\ Front(past) \in Seq(Undoable) /\ e \in Undoable
      /\ \A i \in DOMAIN Front(past) : i \in DOMAIN past /\ Front(past)[i] = past[i]
  BY <1>2, <1>3, FrontParts
<1> HIDE DEF e
<1>5. e \in Begun
  BY <1>2, <1>4 DEF Undoable
<1>6. status' \in [Run -> Statuses] /\ \A r \in Run : status'[r] = "none" <=> status[r] = "none"
  <2>1. "stopped" \in Statuses /\ "none" \notin Live
    BY DEF Statuses, Live
  <2> QED BY <1>2, <1>3, <2>1
<1>7. TypeOK'
  <2>1. strayed' \subseteq Strayings
    BY <1>1, <1>2, TypeAll DEF Strayings
  <2>2. person' \in BOOLEAN \X Nat
    BY <1>1, <1>2 DEF TypeOK, person
  <2> QED BY <1>1, <1>2, <1>4, <1>5, <1>6, <2>1, <2>2, TypeAll, TypesNext
<1>8. NoneNew(past', past) /\ NoneNew(future', future)
  BY <1>2, <1>4 DEF NoneNew
<1>9. Kept(past') \subseteq Kept(past)
  BY <1>8, NoneNewKept
<1>10. Grows /\ NewCalls = {}
  BY <1>2, <1>6, <1>7, <1>9, GrowsCalls
<1>11. Cards /\ HandsApt /\ Reads
  BY <1>2, <1>10 DEF Cards, HandsApt, Reads
<1>12. QueueApt(0)
  BY <1>2 DEF QueueApt, Quiet
<1>13. Reckons
  BY <1>2, <1>3 DEF Reckons
<1>14. WalksAlone'
  BY <1>2 DEF WalksAlone, Quiet
<1> QED BY <1>2, <1>7, <1>8, <1>10, <1>11, <1>12, <1>13, <1>14, AddsKeeps DEF Adds

LEMMA RedoKeeps ==
    ASSUME AgentInv, Redo
    PROVE  AgentInv'
<1> DEFINE e == Last(future)
           r == issued + 1
           again == [e EXCEPT !.run = r]
<1>1. TypeOK
  BY DEF AgentInv
<1>2. /\ walk = NoWalk /\ Quiet /\ future # <<>> /\ e.kind # "delete" /\ issued < MaxRuns
      /\ issued' = r /\ status' = [status EXCEPT ![r] = "pending"]
      /\ turns' = IF e.kind = "send" THEN Turn(turns, "user", r, NoCall, "") ELSE turns
      /\ past' = Append(past, again) /\ future' = Front(future) /\ KickAll(status')
      /\ strayed \subseteq strayed' /\ strayed' \subseteq strayed \union {"crowded"}
      /\ UNCHANGED <<calls, chat, worker, active, queue, walk, made, allowed, person>>
  BY DEF Redo
<1>3. future \in Seq(Undoable) /\ turns \in Seq(TurnRow) /\ issued \in Nat /\ queue \in Seq(Written)
  BY <1>1, TypeAll, TypeParts
<1>4. /\ Front(future) \in Seq(Undoable) /\ e \in Undoable
      /\ \A i \in DOMAIN Front(future) : i \in DOMAIN future /\ Front(future)[i] = future[i]
  BY <1>2, <1>3, FrontParts
<1>5. r \in Run
  <2>1. MaxRuns \in Nat /\ issued \in Nat /\ issued < MaxRuns
    BY <1>2, <1>3, CallParts
  <2> QED BY <2>1 DEF Run
<1>6. turns' \in Seq(TurnRow)
  <2>1. Turn(turns, "user", r, NoCall, "") \in Seq(TurnRow)
    BY <1>3, <1>5, TurnTyped DEF Said
  <2> QED BY <1>2, <1>3, <2>1
<1> HIDE DEF e
<1>7. again \in Begun
  BY <1>2, <1>4, <1>5 DEF Undoable, Begun
<1> HIDE DEF again
<1>8. future' \in Seq(Undoable) /\ NoneNew(future', future)
  BY <1>2, <1>4 DEF NoneNew
<1>9. queue' = <<>> /\ queue' \in Seq(Written) /\ DOMAIN queue' = {}
  <2>1. queue' = <<>> /\ queue' = queue
    BY <1>2 DEF Quiet
  <2>2. DOMAIN <<>> = {}
    OBVIOUS
  <2> QED BY <1>3, <2>1, <2>2
<1>10. QueueApt(0)
  BY <1>9 DEF QueueApt
<1>11. person' \in BOOLEAN \X Nat /\ walk' = NoWalk /\ r = issued + 1
  BY <1>1, <1>2, TypeAll
<1>12. strayed \subseteq strayed' /\ strayed' \subseteq Strayings
  BY <1>1, <1>2, TypeAll DEF Strayings
<1> HIDE DEF r
<1> QED BY <1>2, <1>5, <1>6, <1>7, <1>8, <1>9, <1>10, <1>11, <1>12, BeganKeeps

LEMMA CrashKeeps ==
    ASSUME AgentInv, Crash
    PROVE  AgentInv'
<1>1. TypeOK
  BY DEF AgentInv
<1>2. /\ status' = [r \in Run |-> IF status[r] = "streaming" THEN "failed" ELSE status[r]]
      /\ worker' = [r \in Run |-> Asleep] /\ active' = [r \in Run |-> Free]
      /\ queue' = <<>> /\ past' = <<>> /\ future' = <<>> /\ walk' = NoWalk
      /\ awake' = {r \in Run : status'[r] \in Live}
      /\ events' = events + 1 /\ composing' = FALSE
      /\ UNCHANGED <<issued, turns, calls, chat, made, allowed, strayed>>
  BY DEF Crash, Happens, ghosts
<1>3. /\ status \in [Run -> Statuses] /\ made \in [CallId -> Nat] /\ <<>> \in Seq(Written)
      /\ <<>> \in Seq(Undoable) /\ DOMAIN <<>> = {}
  BY <1>1, TypeAll
<1>4. status' \in [Run -> Statuses] /\ \A r \in Run : status'[r] = "none" <=> status[r] = "none"
  <2>1. "failed" \in Statuses
    BY DEF Statuses
  <2> QED BY <1>2, <1>3, <2>1
<1>5. /\ worker' \in [Run -> Passing] /\ active' \in [Run -> Place]
      /\ \A r \in Run : worker'[r].at = "idle" /\ active'[r].at = "no"
  BY <1>2, PassTyped, PlaceTyped
<1>6. TypeOK'
  <2>1. composing' \in BOOLEAN /\ events' \in Nat
    <3>1. events' \in Nat
      BY <1>1, <1>2 DEF TypeOK
    <3>2. composing' \in BOOLEAN
      BY <1>2
    <3> QED BY <3>1, <3>2
  <2>2. person' \in BOOLEAN \X Nat
    BY <2>1 DEF person
  <2> QED BY <1>1, <1>2, <1>3, <1>4, <1>5, <2>2, TypeAll, TypesNext
<1>7. NoneNew(past', past) /\ NoneNew(future', future)
  BY <1>2, <1>3 DEF NoneNew
<1>8. Kept(past') \subseteq Kept(past)
  BY <1>7, NoneNewKept
<1>9. Grows /\ NewCalls = {}
  BY <1>2, <1>4, <1>6, <1>8, GrowsCalls
<1>10. Cards /\ HandsApt /\ Reads
  BY <1>2, <1>5, <1>9 DEF Cards, HandsApt, Reads
<1>11. QueueApt(0)
  BY <1>2, <1>3 DEF QueueApt
<1>12. Reckons
  BY <1>2, <1>3 DEF Reckons
<1>13. WalksAlone'
  BY <1>2, <1>3 DEF WalksAlone
<1> QED BY <1>2, <1>6, <1>7, <1>9, <1>10, <1>11, <1>12, <1>13, AddsKeeps DEF Adds

----------------------------------------------------------------------------
(* The invariant, and what it gives.                                        *)

LEMMA InitKeeps ==
    ASSUME Init
    PROVE  AgentInv
<1>1. /\ status = [r \in Run |-> "none"] /\ issued = 0
      /\ turns = <<>> /\ calls = <<>> /\ chat = TRUE
      /\ worker = [r \in Run |-> Asleep] /\ awake = {}
      /\ active = [r \in Run |-> Free] /\ queue = <<>>
      /\ past = <<>> /\ future = <<>> /\ walk = NoWalk
      /\ made = [c \in CallId |-> 0] /\ allowed = {} /\ strayed = {}
      /\ composing = FALSE /\ events = 0
  BY DEF Init
<1>2. /\ calls \in Table /\ DOMAIN calls = {} /\ DOMAIN past = {} /\ DOMAIN future = {}
      /\ DOMAIN queue = {} /\ \A r \in Run : status[r] = "none"
  BY <1>1, NoRowsTyped
<1>3. /\ \A r \in Run : active[r].at = "no" /\ worker[r].at = "idle"
      /\ worker \in [Run -> Passing] /\ active \in [Run -> Place]
  BY <1>1, PlaceTyped, PassTyped
<1>4. TypeOK
  <2>1. Whole \in Copy
    BY <1>1, <1>2 DEF Whole, Copy, Statuses
  <2>2. issued \in 0 .. MaxRuns
    BY <1>1, CallParts
  <2>3. queue \in Seq(Written) /\ past \in Seq(Undoable) /\ future \in Seq(Undoable)
    BY <1>1
  <2> QED BY <1>1, <1>3, <2>1, <2>2, <2>3 DEF TypeOK
<1>5. Kept(past) = {} /\ Kept(future) = {}
  BY <1>2 DEF Kept
<1>6. \A k \in Copies \union Kept(future) :
        /\ k.status = status /\ k.calls = calls
  BY <1>5 DEF Copies, Whole
<1>7. AllCoherent
  BY <1>2, <1>6 DEF AllCoherent, Coherent
<1>8. OneDeletion
  BY <1>1, <1>2, <1>5 DEF OneDeletion
<1>9. WalksAlone
  BY <1>1, <1>2 DEF WalksAlone
<1>10. Handled
  BY <1>2, <1>3 DEF Handled
<1>11. Reading
  BY <1>3 DEF Reading
<1>12. Accounted
  <2>1. \A c \in CallId : made[c] = 0 /\ ~(made[c] > 0)
    BY <1>1
  <2> QED BY <1>2, <1>6, <2>1 DEF Accounted
<1> QED BY <1>4, <1>7, <1>8, <1>9, <1>10, <1>11, <1>12 DEF AgentInv

LEMMA StillKeeps ==
    ASSUME AgentInv, UNCHANGED vars
    PROVE  AgentInv'
<1>1. UNCHANGED <<rows, worker, awake, hands, ghosts, person>>
  BY DEF vars
<1> USE DEF rows, hands, ghosts
<1>2. TypeOK'
  BY <1>1 DEF AgentInv, TypeOK, Whole, person
<1>3. OneDeletion'
  BY <1>1 DEF AgentInv, OneDeletion, Kept
<1>4. WalksAlone'
  BY <1>1 DEF AgentInv, WalksAlone, Quiet, person
<1>5. Reading'
  BY <1>1 DEF AgentInv, Reading, Copies, Kept, Whole
<1>6. Accounted'
  BY <1>1 DEF AgentInv, Accounted, Copies, Kept, Whole
<1>7. AllCoherent'
  BY <1>1 DEF AgentInv, AllCoherent, Coherent, Copies, Kept, Whole
<1>8. Handled'
  BY <1>1 DEF AgentInv, Handled, Holds, Copies, Kept, Whole, Edits
<1> QED BY <1>2, <1>3, <1>4, <1>5, <1>6, <1>7, <1>8 DEF AgentInv

LEMMA NextKeeps ==
    ASSUME AgentInv, [Next]_vars
    PROVE  AgentInv'
<1>1. CASE UNCHANGED vars
  BY <1>1, StillKeeps
<1>2. ASSUME NEW r \in Run, Works(r) PROVE AgentInv'
  <2>1. CASE PassWaiting(r) \/ LookOn(r)
    <3>1. Look(r) /\ awake' \subseteq awake /\ UNCHANGED <<hands, ghosts, person>>
      BY <2>1 DEF PassWaiting, LookOn
    <3> QED BY <3>1, LookKeeps
  <2> QED BY <1>2, <2>1, WaitsKeeps, AskKeeps, MovingKeeps, ReadKeptKeeps, LandCallsKeeps, LandKeeps
          DEF Works
<1>3. ASSUME NEW r \in Run, Performs(r) PROVE AgentInv'
  BY <1>3, PreparedKeeps, NativeKeeps DEF Performs
<1>4. ASSUME NEW r \in Run, Allow(r) \/ Refuse(r) PROVE AgentInv'
  BY <1>4, AllowKeeps, RefuseKeeps
<1>5. CASE Dispatch
  BY <1>5, DispatchKeeps
<1>6. CASE Commits
  BY <1>6, AskedKeeps, RecordKeeps, EditKeeps, ToldKeeps, SendKeeps, StopKeeps, RetryKeeps,
     DeleteKeeps, UndoCutKeeps DEF Commits
<1>7. CASE Presses
  BY <1>7, PressKeeps, UndoKeeps, UndoDeleteKeeps, RedoKeeps, RedoDeleteKeeps DEF Presses
<1>8. CASE Crash
  BY <1>8, CrashKeeps
<1>9. CASE Composed
  BY <1>9, ComposedKeeps
<1> QED BY <1>1, <1>2, <1>3, <1>4, <1>5, <1>6, <1>7, <1>8, <1>9 DEF Next

(* The inductive invariant: what a deletion took is whole and can come back
   once, what the session holds is still what it looked at when it took it,
   and what was made is said by the row it was made for. *)
THEOREM AgentInvariant == Spec => []AgentInv
<1>1. Init => AgentInv
  BY InitKeeps
<1>2. AgentInv /\ [Next]_vars => AgentInv'
  BY NextKeeps
<1> QED BY <1>1, <1>2, PTL DEF Spec

(* Every variable has its type, the rows' copies in the history with it. *)
THEOREM AgentTypes == Spec => []TypeOK
<1>1. AgentInv => TypeOK
  BY DEF AgentInv
<1> QED BY <1>1, AgentInvariant, PTL

(* A prepared edit is made once at most, and its call says "done" exactly when
   it was, unless a deletion made again has lost rows. *)
THEOREM AgentEditOnce == Spec => []EditOnce
<1>1. AgentInv => EditOnce
  <2> SUFFICES ASSUME AgentInv, "lost" \notin strayed, NEW c \in DOMAIN calls,
                      calls[c].kind \in {"edit", "asks"}
               PROVE  made[c] <= 1 /\ (made[c] = 1 <=> calls[c].st = "done")
    BY DEF EditOnce
  <2>1. Whole \in Copies /\ Whole.calls = calls
    BY DEF Copies, Whole
  <2> QED BY <2>1 DEF AgentInv, Accounted
<1> QED BY <1>1, AgentInvariant, PTL

----------------------------------------------------------------------------
(* What is made, and when: the steps that perform a call.                   *)

Performed ==
    \A c \in CallId : made'[c] > made[c] /\ c \in DOMAIN calls =>
        /\ calls[c].kind = "asks" => c \in allowed
        /\ calls[c].kind # "native" => Pending(c) \/ Pending(c)'
        /\ \A d \in DOMAIN calls : d[1] = c[1] /\ d[2] = c[2] /\ d[3] < c[3]
               => calls'[d].st \notin Open

(* A call the walk is due to run at once is in its turn. *)
DuePerforms(c) ==
    /\ calls[c].kind # "asks"
    /\ Pending(c)'
    /\ \A d \in DOMAIN calls : d[1] = c[1] /\ d[2] = c[2] /\ d[3] < c[3]
           => calls'[d].st \notin Open

LEMMA DueInTurn ==
    ASSUME DOMAIN calls' = DOMAIN calls, \A c \in DOMAIN calls : calls'[c].kind = calls[c].kind,
           NEW c \in DOMAIN calls, Due(c)
    PROVE  DuePerforms(c)
<1>1. calls'[c].kind = "now" /\ calls'[c].st = "pending" /\ c \in DOMAIN calls' /\ status'[c[1]] = "waiting"
  BY DEF Due
<1>2. calls[c].kind # "asks"
  BY <1>1
<1>3. Pending(c)'
  BY <1>1 DEF Pending, Open
<1>4. \A d \in DOMAIN calls : d[1] = c[1] /\ d[2] = c[2] /\ d[3] < c[3] => calls'[d].st \notin Open
  BY DEF Due, Ahead
<1> QED BY <1>2, <1>3, <1>4 DEF DuePerforms

LEMMA DuesPerform ==
    ASSUME AgentInv,
           DOMAIN calls' = DOMAIN calls, \A c \in DOMAIN calls : calls'[c].kind = calls[c].kind,
           \A c \in CallId : made'[c] = made[c] \/ Due(c)
    PROVE  Performed
<1> SUFFICES ASSUME NEW c \in CallId, made'[c] > made[c], c \in DOMAIN calls
             PROVE  /\ calls[c].kind = "asks" => c \in allowed
                    /\ calls[c].kind # "native" => Pending(c) \/ Pending(c)'
                    /\ \A d \in DOMAIN calls : d[1] = c[1] /\ d[2] = c[2] /\ d[3] < c[3]
                           => calls'[d].st \notin Open
  BY DEF Performed
<1>1. made[c] \in Nat
  BY DEF AgentInv, TypeOK
<1>2. Due(c)
  BY <1>1
<1>3. DuePerforms(c)
  BY <1>2, DueInTurn
<1> QED BY <1>3 DEF DuePerforms

(* A step that ends a call's turn performs those that are due, no more. *)
LEMMA FinishedMade ==
    ASSUME AgentInv, TypeOK', NEW r \in Run, NEW q \in Seq(Written), NEW md \in [CallId -> Nat],
           Finished(r, q, md)
    PROVE  \A c \in CallId : made'[c] = md[c] \/ Due(c)
<1> DEFINE free == [active EXCEPT ![r] = Free]
<1>1. status' \in [Run -> Statuses] /\ calls' \in Table
  BY DEF TypeOK, Whole, Copy
<1>2. active \in [Run -> Place]
  BY TypeAll DEF AgentInv
<1>3. Took(free, q, md)
  BY <1>1, FinishedIs
<1>4. free \in [Run -> Place]
  BY <1>2, PlaceTyped
<1> HIDE DEF free
<1> QED BY <1>1, <1>3, <1>4, TookParts

(* A call's word changes its row's word and nothing else. *)
LEMMA WordOnly ==
    ASSUME AgentInv, NEW c \in DOMAIN calls, NEW st \in Words,
           calls' = [calls EXCEPT ![c].st = st]
    PROVE  /\ DOMAIN calls' = DOMAIN calls
           /\ \A d \in DOMAIN calls : calls'[d].kind = calls[d].kind
           /\ calls'[c].st = st /\ \A d \in DOMAIN calls : d # c => calls'[d] = calls[d]
<1>1. calls \in Table
  BY TypeAll DEF AgentInv
<1> DEFINE new == Says(calls, c, st)
<1>2. /\ DOMAIN new = DOMAIN calls /\ new[c].kind = calls[c].kind /\ new[c].st = st
      /\ \A d \in DOMAIN calls : d # c => new[d] = calls[d]
  BY <1>1, SetCall
<1>3. calls' = new
  BY DEF Says
<1> HIDE DEF new
<1> QED BY <1>2, <1>3

LEMMA DispatchInTurn ==
    ASSUME AgentInv, Dispatch
    PROVE  Performed
<1>0. PICK works \in BOOLEAN :
        LET w == Serve(status, calls, active, queue, made, works)
        IN  active' = w.active /\ queue' = w.queue /\ made' = w.made
  BY DEF Dispatch
<1> DEFINE w == Serve(status, calls, active, queue, made, works)
<1>1. active' = w.active /\ queue' = w.queue /\ made' = w.made /\ status' = status /\ calls' = calls
  BY <1>0 DEF Dispatch, rows
<1>2. /\ status \in [Run -> Statuses] /\ calls \in Table
      /\ active \in [Run -> Place] /\ queue \in Seq(Written) /\ made \in [CallId -> Nat]
  BY TypeAll DEF AgentInv
<1>3. Served(status, calls, active, queue, made, w)
  BY <1>2, ServeIs
<1> HIDE DEF w
<1>4. Took(active, queue, made)
  BY <1>1, <1>3, ServedShape DEF Took
<1>5. \A c \in CallId : made'[c] = made[c] \/ Due(c)
  BY <1>1, <1>2, <1>4, TookParts
<1> QED BY <1>1, <1>5, DuesPerform

LEMMA PreparedInTurn ==
    ASSUME AgentInv, AgentInv', NEW r \in Run, Prepared(r)
    PROVE  Performed
<1>1. calls' = calls
  BY DEF Prepared, rows
<1>2. queue \in Seq(Written) /\ made \in [CallId -> Nat] /\ TypeOK'
  BY TypeAll DEF AgentInv
<1>3. Finished(r, queue, made) \/ made' = made
  BY DEF Prepared
<1>4. \A c \in CallId : made'[c] = made[c] \/ Due(c)
  BY <1>2, <1>3, FinishedMade
<1> QED BY <1>1, <1>4, DuesPerform

LEMMA NativeInTurn ==
    ASSUME AgentInv, NEW r \in Run, NativeRuns(r)
    PROVE  Performed
<1> DEFINE a == active[r].call
<1>1. /\ active[r].at = "native" /\ made' = [made EXCEPT ![a] = @ + 1] /\ calls' = calls
  BY DEF NativeRuns, rows
<1>2. Holds(a, {"native"})
  BY <1>1 DEF AgentInv, Handled
<1>3. made \in [CallId -> Nat] /\ calls \in Table
  BY TypeAll DEF AgentInv
<1> HIDE DEF a
<1>4. \A c \in CallId : made'[c] > made[c] => c = a
  BY <1>1, <1>3
<1>5. a \in DOMAIN calls => status[a[1]] # "none"
  <2>1. Whole \in Copies \union Kept(future) /\ Whole.status = status /\ Whole.calls = calls
    BY DEF Copies, Whole
  <2> QED BY <2>1, CopyWell DEF Coherent
<1>6. a \in DOMAIN calls => calls[a].kind = "native" /\ Ahead(calls, a)
  BY <1>2, <1>5, HoldsHere
<1>7. ASSUME a \in DOMAIN calls
      PROVE  \A d \in DOMAIN calls : d[1] = a[1] /\ d[2] = a[2] /\ d[3] < a[3]
                 => calls'[d].st \notin Open
  BY <1>1, <1>6, <1>7 DEF Ahead
<1> QED BY <1>4, <1>6, <1>7 DEF Performed

LEMMA RecordInTurn ==
    ASSUME AgentInv, AgentInv', CommitRecord \/ CommitNative
    PROVE  Performed
<1> DEFINE w == Head(queue)
           c == w.call
<1>1. /\ Next1("record") \/ Next1("native")
      /\ calls' = calls \/ (c \in DOMAIN calls /\ calls' = [calls EXCEPT ![c].st = w.st])
      /\ Finished(w.run, Tail(queue), made)
  BY DEF CommitRecord, CommitNative, Pending
<1>2. w \in Written /\ w.what \in {"record", "native"} /\ Tail(queue) \in Seq(Written)
  BY <1>1, HeadIs
<1>3. w.run \in Run /\ w.st \in Words
  BY <1>2, WrittenParts DEF Words
<1> HIDE DEF w, c
<1>4. DOMAIN calls' = DOMAIN calls /\ \A d \in DOMAIN calls : calls'[d].kind = calls[d].kind
  BY <1>1, <1>3, WordOnly
<1>5. made \in [CallId -> Nat] /\ TypeOK'
  BY TypeAll DEF AgentInv
<1>6. \A d \in CallId : made'[d] = made[d] \/ Due(d)
  BY <1>1, <1>2, <1>3, <1>5, FinishedMade
<1> QED BY <1>4, <1>6, DuesPerform

LEMMA EditInTurn ==
    ASSUME AgentInv, AgentInv', CommitEdit
    PROVE  Performed
<1> DEFINE w == Head(queue)
           c == w.call
           md == [made EXCEPT ![c] = @ + 1]
<1>1. Next1("edit")
  BY DEF CommitEdit
<1>2. w \in Written /\ w.what = "edit" /\ Tail(queue) \in Seq(Written) /\ 1 \in DOMAIN queue /\ w = queue[1]
  BY <1>1, HeadIs
<1>3. c \in CallId /\ w.run \in Run
  BY <1>2, WrittenParts
<1>4. Holds(c, Edits(c))
  BY <1>2 DEF AgentInv, Handled
<1>5. made \in [CallId -> Nat] /\ TypeOK'
  BY TypeAll DEF AgentInv
<1>6. CASE ~Pending(c)
  <2>1. calls' = calls /\ made' = made
    BY <1>6 DEF CommitEdit
  <2> QED BY <2>1, DuesPerform
<1>7. CASE Pending(c)
  <2>1. calls' = [calls EXCEPT ![c].st = "done"] /\ Finished(w.run, Tail(queue), md)
    BY <1>7 DEF CommitEdit
  <2>2. c \in DOMAIN calls /\ status[c[1]] # "none" /\ "done" \in Words /\ "done" \notin Open
    BY <1>7 DEF Pending, Words, Open
  <2>3. calls[c].kind \in Edits(c) /\ Ahead(calls, c)
    BY <1>4, <2>2, HoldsHere
  <2>4. /\ md \in [CallId -> Nat] /\ \A d \in CallId : d # c => md[d] = made[d]
    BY <1>3, <1>5
  <2> HIDE DEF w, c, md
  <2>5. /\ DOMAIN calls' = DOMAIN calls /\ calls'[c].st = "done"
        /\ \A d \in DOMAIN calls : calls'[d].kind = calls[d].kind
        /\ \A d \in DOMAIN calls : d # c => calls'[d] = calls[d]
    BY <2>1, <2>2, WordOnly
  <2>6. \A d \in CallId : made'[d] = md[d] \/ Due(d)
    BY <1>2, <1>3, <1>5, <2>1, <2>4, FinishedMade
  <2>7. /\ calls[c].kind = "asks" => c \in allowed
        /\ \A d \in DOMAIN calls : d[1] = c[1] /\ d[2] = c[2] /\ d[3] < c[3]
               => calls'[d].st \notin Open
    <3>1. calls[c].kind = "asks" => c \in allowed
      BY <2>3 DEF Edits
    <3>2. \A d \in DOMAIN calls : d[1] = c[1] /\ d[2] = c[2] /\ d[3] < c[3]
               => calls'[d].st \notin Open
      BY <2>2, <2>3, <2>5 DEF Ahead
    <3> QED BY <3>1, <3>2
  <2>8. ASSUME NEW d \in CallId, made'[d] > made[d], d \in DOMAIN calls, d # c
        PROVE  DuePerforms(d)
    <3>1. made[d] \in Nat /\ md[d] = made[d]
      BY <1>5, <2>4, <2>8
    <3>2. Due(d)
      BY <2>6, <2>8, <3>1
    <3> QED BY <2>5, <2>8, <3>2, DueInTurn
  <2>9. ASSUME NEW d \in CallId, made'[d] > made[d], d \in DOMAIN calls
        PROVE  /\ calls[d].kind = "asks" => d \in allowed
               /\ calls[d].kind # "native" => Pending(d) \/ Pending(d)'
               /\ \A b \in DOMAIN calls : b[1] = d[1] /\ b[2] = d[2] /\ b[3] < d[3]
                      => calls'[b].st \notin Open
    <3>1. CASE d = c
      BY <1>7, <2>7, <3>1
    <3>2. CASE d # c
      <4>1. DuePerforms(d)
        BY <2>8, <2>9, <3>2
      <4> QED BY <4>1 DEF DuePerforms
    <3> QED BY <3>1, <3>2
  <2> QED BY <2>9 DEF Performed
<1> QED BY <1>6, <1>7

(* No other step performs anything. *)
LEMMA NothingPerformed ==
    ASSUME AgentInv, made' = made
    PROVE  Performed
<1>1. \A c \in CallId : made[c] \in Nat
  BY DEF AgentInv, TypeOK
<1> QED BY <1>1 DEF Performed

LEMMA WorkerMakesNothing ==
    ASSUME NEW r \in Run, Works(r)
    PROVE  made' = made
<1> USE DEF ghosts
<1>1. CASE PassPending(r) \/ PassWaiting(r) \/ LookOn(r) \/ Ask(r) \/ Request(r)
  BY <1>1 DEF PassPending, PassWaiting, LookOn, Ask, Request
<1>2. CASE ReadEnds(r) \/ ReadStopped(r) \/ ReadKept(r)
  BY <1>2 DEF ReadEnds, ReadStopped, ReadKept
<1>3. CASE Reply(r) \/ ReplyCalls(r)
  BY <1>3 DEF Reply, ReplyCalls
<1>4. CASE LandCalls(r) \/ Land(r)
  BY <1>4 DEF LandCalls, Land
<1> QED BY <1>1, <1>2, <1>3, <1>4 DEF Works

LEMMA PersonMakesNothing ==
    ASSUME \/ Presses \/ Composed \/ Crash \/ UNCHANGED vars
           \/ \E r \in Run : Allow(r) \/ Refuse(r) \/ NativeTold(r) \/ NativeFails(r)
    PROVE  made' = made
<1> USE DEF ghosts
<1>1. CASE Presses
  BY <1>1 DEF Presses, PressSend, PressStop, PressRetry, PressDelete, Undo, UndoDelete, Redo, RedoDelete
<1>2. CASE Composed \/ Crash \/ UNCHANGED vars
  BY <1>2 DEF Composed, Crash, vars
<1>3. CASE \E r \in Run : Allow(r) \/ Refuse(r) \/ NativeTold(r) \/ NativeFails(r)
  BY <1>3 DEF Allow, Refuse, NativeTold, NativeFails
<1> QED BY <1>1, <1>2, <1>3

LEMMA RestMakesNothing ==
    ASSUME CommitAsk \/ CommitSend \/ CommitStop \/ CommitRetry \/ CommitDelete \/ UndoCut
    PROVE  made' = made
BY DEF ghosts, CommitAsk, CommitSend, CommitStop, CommitRetry, CommitDelete, UndoCut

LEMMA NextInTurn ==
    ASSUME AgentInv, AgentInv', [Next]_vars
    PROVE  Performed
<1>1. CASE UNCHANGED vars \/ Presses \/ Composed \/ Crash
  BY <1>1, PersonMakesNothing, NothingPerformed
<1>2. ASSUME NEW r \in Run, Works(r) PROVE Performed
  BY <1>2, WorkerMakesNothing, NothingPerformed
<1>3. ASSUME NEW r \in Run, Performs(r) PROVE Performed
  BY <1>3, PreparedInTurn, NativeInTurn, PersonMakesNothing, NothingPerformed DEF Performs
<1>4. ASSUME NEW r \in Run, Allow(r) \/ Refuse(r) PROVE Performed
  BY <1>4, PersonMakesNothing, NothingPerformed
<1>5. CASE Dispatch
  BY <1>5, DispatchInTurn
<1>6. CASE Commits
  BY <1>6, RecordInTurn, EditInTurn, RestMakesNothing, NothingPerformed DEF Commits
<1> QED BY <1>1, <1>2, <1>3, <1>4, <1>5, <1>6 DEF Next

(* Whatever is done is allowed where it asks, wanted still, and behind no call
   of its round that waits for its answer. *)
THEOREM AgentInTurn == Spec => InTurn
<1>1. AgentInv /\ AgentInv' /\ [Next]_vars => [Performed]_vars
  BY NextInTurn
<1> QED BY <1>1, AgentInvariant, PTL DEF Spec, InTurn, Performed

----------------------------------------------------------------------------
(* The thread of a chat: what is said of a round when the transcript goes   *)
(* on, is edited, or is cut.                                                *)

SameTurn(t, u) == t.seq = u.seq /\ t.who = u.who /\ t.run = u.run /\ t.call = u.call

AnsweredAt(ts, i, n) ==
    \E j \in DOMAIN ts : /\ j > i /\ ts[j].who = "tool"
                         /\ ts[j].call = <<ts[i].call[1], ts[i].call[2], n>>
                         /\ \A k \in i + 1 .. j : ts[k].who = "tool"

LEMMA TurnsAre ==
    ASSUME NEW ts \in Seq(TurnRow)
    PROVE  DOMAIN ts = 1 .. Len(ts) /\ Len(ts) \in Nat
OBVIOUS

LEMMA UnansweredIs ==
    ASSUME NEW ts, NEW i \in DOMAIN ts
    PROVE  i \in Unanswered(ts) <=>
             ts[i].who = "asks" /\ \E n \in 1 .. ts[i].call[3] : ~AnsweredAt(ts, i, n)
BY DEF Unanswered, Answers, AnsweredAt

LEMMA UnansweredThere ==
    ASSUME NEW ts
    PROVE  Unanswered(ts) \subseteq DOMAIN ts /\ \A i \in Unanswered(ts) : ts[i].who = "asks"
BY DEF Unanswered

(* What is said behind them leaves turns their answers. *)
LEMMA AnswersStay ==
    ASSUME NEW ts \in Seq(TurnRow), NEW us \in Seq(TurnRow), Len(ts) <= Len(us),
           \A i \in DOMAIN ts : SameTurn(ts[i], us[i])
    PROVE  \A i \in DOMAIN ts : i \in Unanswered(us) => i \in Unanswered(ts)
<1> SUFFICES ASSUME NEW i \in DOMAIN ts, i \in Unanswered(us), i \notin Unanswered(ts)
             PROVE  FALSE
  OBVIOUS
<1>1. /\ Len(ts) \in Nat /\ Len(us) \in Nat /\ DOMAIN ts = 1 .. Len(ts) /\ DOMAIN us = 1 .. Len(us)
      /\ i \in Nat
  OBVIOUS
<1>2. DOMAIN ts \subseteq DOMAIN us
  BY <1>1
<1>3. \A j \in DOMAIN ts : us[j].who = ts[j].who /\ us[j].call = ts[j].call
  BY DEF SameTurn
<1>4. ts[i].who = "asks" /\ us[i].call = ts[i].call
  BY <1>2, <1>3, UnansweredThere
<1>5. PICK n \in 1 .. ts[i].call[3] : ~AnsweredAt(us, i, n)
  BY <1>2, <1>4, UnansweredIs
<1>6. AnsweredAt(ts, i, n)
  BY <1>4, UnansweredIs
<1>7. PICK j \in DOMAIN ts : /\ j > i /\ ts[j].who = "tool"
                             /\ ts[j].call = <<ts[i].call[1], ts[i].call[2], n>>
                             /\ \A k \in i + 1 .. j : ts[k].who = "tool"
  BY <1>6 DEF AnsweredAt
<1>8. \A k \in i + 1 .. j : k \in DOMAIN ts
  BY <1>1
<1> QED BY <1>2, <1>3, <1>4, <1>5, <1>7, <1>8 DEF AnsweredAt

LEMMA SameAnswers ==
    ASSUME NEW ts \in Seq(TurnRow), NEW us \in Seq(TurnRow), Len(ts) = Len(us),
           \A i \in DOMAIN ts : SameTurn(ts[i], us[i])
    PROVE  Unanswered(us) = Unanswered(ts) /\ (Threaded(ts) => Threaded(us))
<1>1. DOMAIN ts = DOMAIN us /\ Len(ts) \in Nat
  OBVIOUS
<1>2. \A i \in DOMAIN us : SameTurn(us[i], ts[i])
  BY <1>1 DEF SameTurn
<1>3. Unanswered(us) = Unanswered(ts)
  BY <1>1, <1>2, AnswersStay, UnansweredThere
<1>4. Threaded(ts) => Threaded(us)
  BY <1>1, <1>3 DEF Threaded, SameTurn
<1> QED BY <1>3, <1>4

(* The last seq is the highest. *)
LEMMA EndedIs ==
    ASSUME NEW ts \in Seq(TurnRow), Threaded(ts)
    PROVE  /\ Ended(ts) \in Nat
           /\ \A i \in DOMAIN ts : ts[i].seq \in Nat /\ ts[i].seq <= Ended(ts)
<1>1. Ended(ts) \in Nat
  BY EndedTyped
<1> SUFFICES ASSUME NEW i \in DOMAIN ts PROVE ts[i].seq \in Nat /\ ts[i].seq <= Ended(ts)
  BY <1>1
<1>2. ts # <<>> /\ Len(ts) \in Nat /\ DOMAIN ts = 1 .. Len(ts) /\ Len(ts) \in DOMAIN ts
  OBVIOUS
<1>3. Ended(ts) = ts[Len(ts)].seq
  BY <1>2 DEF Ended, Last
<1>4. i = Len(ts) \/ i < Len(ts)
  BY <1>2
<1>5. ts[i].seq \in Nat
  BY TurnParts
<1>6. i < Len(ts) => ts[i].seq < ts[Len(ts)].seq
  BY <1>2 DEF Threaded
<1> QED BY <1>1, <1>3, <1>4, <1>5, <1>6

(* A transcript that goes on is in thread if what it goes on with is, and
   anything but answers comes after answered rounds. *)
LEMMA ThreadGoesOn ==
    ASSUME NEW ts \in Seq(TurnRow), NEW us \in Seq(TurnRow), Len(ts) <= Len(us), Threaded(ts),
           \A i \in DOMAIN ts : SameTurn(ts[i], us[i]),
           \A i, j \in DOMAIN us : i < j /\ j \notin DOMAIN ts => us[i].seq < us[j].seq,
           \A j \in DOMAIN us \ DOMAIN ts :
              us[j].who \in {"asks", "tool"} => us[j].run = us[j].call[1],
           \A j \in DOMAIN us \ DOMAIN ts : us[j].who = "tool" \/ Unanswered(us) \subseteq {Len(us)}
    PROVE  Threaded(us)
<1>1. /\ Len(ts) \in Nat /\ Len(us) \in Nat /\ DOMAIN ts = 1 .. Len(ts) /\ DOMAIN us = 1 .. Len(us)
      /\ DOMAIN ts \subseteq DOMAIN us
  OBVIOUS
<1>2. \A i, j \in DOMAIN us : i < j => us[i].seq < us[j].seq
  <2> SUFFICES ASSUME NEW i \in DOMAIN us, NEW j \in DOMAIN us, i < j, j \in DOMAIN ts
               PROVE  us[i].seq < us[j].seq
    OBVIOUS
  <2>1. i \in DOMAIN ts
    BY <1>1
  <2> QED BY <2>1 DEF Threaded, SameTurn
<1>3. \A i \in DOMAIN us : us[i].who \in {"asks", "tool"} => us[i].run = us[i].call[1]
  BY DEF Threaded, SameTurn
<1>4. ASSUME NEW i \in Unanswered(us), NEW j \in DOMAIN us, i < j PROVE us[j].who = "tool"
  <2>1. i \in DOMAIN us /\ us[i].who = "asks"
    BY UnansweredThere
  <2>2. i # Len(us)
    BY <1>1, <1>4, <2>1
  <2>3. \A p \in DOMAIN us \ DOMAIN ts : us[p].who = "tool"
    BY <2>2
  <2>4. i \in DOMAIN ts
    BY <2>1, <2>3
  <2>5. i \in Unanswered(ts)
    BY <2>4, AnswersStay
  <2>6. j \in DOMAIN ts => us[j].who = "tool"
    BY <1>4, <2>5 DEF Threaded, SameTurn
  <2> QED BY <2>3, <2>6
<1> QED BY <1>2, <1>3, <1>4 DEF Threaded

(* One turn more. *)
LEMMA TurnIs ==
    ASSUME NEW ts \in Seq(TurnRow), NEW who \in {"user", "asks", "tool", "says"},
           NEW r \in Run, NEW c \in CallId \union {NoCall}, NEW said \in Said
    PROVE  LET us == Turn(ts, who, r, c, said) IN
           /\ us \in Seq(TurnRow) /\ Len(us) = Len(ts) + 1 /\ DOMAIN us = 1 .. Len(ts) + 1
           /\ \A i \in DOMAIN ts : i \in DOMAIN us /\ us[i] = ts[i]
           /\ us[Len(ts) + 1].seq = Ended(ts) + 1 /\ us[Len(ts) + 1].who = who
           /\ us[Len(ts) + 1].run = r /\ us[Len(ts) + 1].call = c
<1> DEFINE t == [seq |-> Ended(ts) + 1, who |-> who, run |-> r, call |-> c, said |-> said]
           us == Turn(ts, who, r, c, said)
<1>1. t.seq = Ended(ts) + 1 /\ t.who = who /\ t.run = r /\ t.call = c
  OBVIOUS
<1>2. us = Append(ts, t)
  BY DEF Turn
<1>3. us \in Seq(TurnRow)
  BY TurnTyped
<1> HIDE DEF t, us
<1>4. /\ Len(us) = Len(ts) + 1 /\ us[Len(ts) + 1] = t /\ Len(ts) \in Nat
      /\ \A i \in 1 .. Len(ts) : us[i] = ts[i]
  BY <1>2
<1>5. DOMAIN us = 1 .. Len(ts) + 1 /\ DOMAIN ts = 1 .. Len(ts)
  BY <1>3, <1>4
<1> QED BY <1>1, <1>3, <1>4, <1>5 DEF us

LEMMA TurnThreads ==
    ASSUME NEW ts \in Seq(TurnRow), Threaded(ts), Unanswered(ts) = {},
           NEW who \in {"user", "asks", "says"},
           NEW r \in Run, NEW c \in CallId \union {NoCall}, NEW said \in Said,
           who = "asks" => c[1] = r
    PROVE  LET us == Turn(ts, who, r, c, said) IN
           /\ Threaded(us)
           /\ Unanswered(us) \subseteq {Len(ts) + 1}
           /\ who # "asks" => Unanswered(us) = {}
<1> DEFINE us == Turn(ts, who, r, c, said)
           n == Len(ts) + 1
<1>1. /\ us \in Seq(TurnRow) /\ Len(us) = n /\ DOMAIN us = 1 .. n
      /\ \A i \in DOMAIN ts : i \in DOMAIN us /\ us[i] = ts[i]
      /\ us[n].seq = Ended(ts) + 1 /\ us[n].who = who
      /\ us[n].run = r /\ us[n].call = c
  <2>1. who \in {"user", "asks", "tool", "says"}
    OBVIOUS
  <2> QED BY <2>1, TurnIs
<1>2. Len(ts) \in Nat /\ DOMAIN ts = 1 .. Len(ts) /\ Ended(ts) \in Nat
  BY EndedTyped
<1> HIDE DEF us
<1>3. \A i \in DOMAIN ts : SameTurn(ts[i], us[i])
  BY <1>1 DEF SameTurn
<1>4. \A j \in DOMAIN us : j \notin DOMAIN ts => j = n
  BY <1>1, <1>2
<1>5. Unanswered(us) \subseteq {n}
  <2>1. Len(ts) <= Len(us)
    BY <1>1, <1>2
  <2> QED BY <1>1, <1>3, <1>4, <2>1, AnswersStay, UnansweredThere
<1>6. who # "asks" => Unanswered(us) = {}
  BY <1>1, <1>5, UnansweredThere
<1>7. \A i, j \in DOMAIN us : i < j /\ j \notin DOMAIN ts => us[i].seq < us[j].seq
  <2> SUFFICES ASSUME NEW i \in DOMAIN us, i < n PROVE us[i].seq < us[n].seq
    BY <1>4
  <2>1. i \in DOMAIN ts
    BY <1>1, <1>2
  <2>2. ts[i].seq \in Nat /\ ts[i].seq <= Ended(ts)
    BY <2>1, EndedIs
  <2> QED BY <1>1, <1>2, <2>1, <2>2
<1>8. Threaded(us)
  <2>1. Len(ts) <= Len(us)
    BY <1>1, <1>2
  <2>2. \A j \in DOMAIN us \ DOMAIN ts :
              us[j].who \in {"asks", "tool"} => us[j].run = us[j].call[1]
    BY <1>1, <1>4
  <2> HIDE DEF n
  <2> QED BY <1>1, <1>3, <1>5, <1>7, <2>1, <2>2, ThreadGoesOn
<1> QED BY <1>5, <1>6, <1>8 DEF us

(* The answers of a round, at the end. *)
LEMMA ToldIs ==
    ASSUME NEW ts \in Seq(TurnRow), NEW cs \in Table, NEW owed \in Seq(CallId)
    PROVE  LET us == Told(ts, cs, owed) IN
           /\ us \in Seq(TurnRow) /\ Len(us) = Len(ts) + Len(owed)
           /\ \A i \in DOMAIN ts : i \in DOMAIN us /\ us[i] = ts[i]
           /\ \A o \in DOMAIN owed : LET t == us[Len(ts) + o] IN
                /\ Len(ts) + o \in DOMAIN us
                /\ t.seq = Ended(ts) + o /\ t.who = "tool" /\ t.run = owed[o][1] /\ t.call = owed[o]
<1> DEFINE more == [i \in DOMAIN owed |->
             [seq |-> Ended(ts) + i, who |-> "tool", run |-> owed[i][1], call |-> owed[i],
              said |-> IF owed[i] \in DOMAIN cs THEN cs[owed[i]].st ELSE "cancelled"]]
           us == Told(ts, cs, owed)
<1>1. us = ts \o more
  BY DEF Told
<1>2. \A o \in DOMAIN owed : /\ more[o].seq = Ended(ts) + o /\ more[o].who = "tool"
                             /\ more[o].run = owed[o][1] /\ more[o].call = owed[o]
  OBVIOUS
<1>3. more = [i \in 1 .. Len(owed) |-> more[i]] /\ Len(owed) \in Nat /\ DOMAIN owed = 1 .. Len(owed)
  OBVIOUS
<1>4. us \in Seq(TurnRow)
  BY ToldTyped
<1> HIDE DEF us, more
<1>5. Len(more) = Len(owed)
  BY <1>3
<1> DEFINE S == TurnRow \union {more[i] : i \in 1 .. Len(owed)}
<1>6. more \in Seq(S) /\ ts \in Seq(S) /\ Len(ts) \in Nat /\ DOMAIN ts = 1 .. Len(ts)
  <2>1. \A i \in 1 .. Len(owed) : more[i] \in S
    OBVIOUS
  <2>2. more \in [1 .. Len(owed) -> S]
    BY <1>3, <2>1
  <2> HIDE DEF S
  <2>3. more \in Seq(S)
    BY <1>3, <2>2
  <2>4. \A i \in 1 .. Len(ts) : ts[i] \in S
    BY DEF S
  <2> QED BY <2>3, <2>4
<1> HIDE DEF S
<1>7. /\ Len(us) = Len(ts) + Len(owed) /\ Len(ts) \in Nat
      /\ \A i \in 1 .. Len(ts) : us[i] = ts[i]
      /\ \A o \in 1 .. Len(owed) : us[Len(ts) + o] = more[o]
  <2>1. /\ Len(us) = Len(ts) + Len(owed)
        /\ \A i \in 1 .. Len(ts) + Len(owed) :
              us[i] = IF i <= Len(ts) THEN ts[i] ELSE more[i - Len(ts)]
    <3> DEFINE both == ts \o more
    <3>1. /\ Len(both) = Len(ts) + Len(more)
          /\ \A i \in 1 .. Len(ts) + Len(more) :
                both[i] = IF i <= Len(ts) THEN ts[i] ELSE more[i - Len(ts)]
      BY <1>6, ConcatProperties, Zenon
    <3> HIDE DEF both
    <3>2. us = both
      BY <1>1 DEF both
    <3> QED BY <1>5, <3>1, <3>2
  <2>2. ASSUME NEW o \in 1 .. Len(owed) PROVE us[Len(ts) + o] = more[o]
    <3>1. /\ Len(ts) + o \in 1 .. Len(ts) + Len(owed) /\ ~(Len(ts) + o <= Len(ts))
          /\ Len(ts) + o - Len(ts) = o
      BY <1>3, <1>6
    <3> QED BY <2>1, <3>1
  <2>3. ASSUME NEW i \in 1 .. Len(ts) PROVE us[i] = ts[i]
    <3>1. i \in 1 .. Len(ts) + Len(owed) /\ i <= Len(ts)
      BY <1>3, <1>6
    <3> QED BY <2>1, <3>1
  <2> QED BY <1>6, <2>1, <2>2, <2>3
<1>8. \A i \in DOMAIN ts : i \in DOMAIN us /\ us[i] = ts[i]
  BY <1>3, <1>4, <1>7
<1>9. \A o \in DOMAIN owed : Len(ts) + o \in DOMAIN us
  BY <1>3, <1>4, <1>7
<1> QED BY <1>2, <1>3, <1>4, <1>7, <1>8, <1>9 DEF us

LEMMA ToldThreads ==
    ASSUME NEW ts \in Seq(TurnRow), Threaded(ts), NEW cs \in Table, NEW owed \in Seq(CallId)
    PROVE  LET us == Told(ts, cs, owed) IN
           /\ Threaded(us) /\ Unanswered(us) \subseteq Unanswered(ts)
           /\ \A i \in Unanswered(us) : us[i] = ts[i]
<1> DEFINE us == Told(ts, cs, owed)
<1>1. /\ us \in Seq(TurnRow) /\ Len(us) = Len(ts) + Len(owed)
      /\ \A i \in DOMAIN ts : i \in DOMAIN us /\ us[i] = ts[i]
      /\ \A o \in DOMAIN owed : LET t == us[Len(ts) + o] IN
           /\ Len(ts) + o \in DOMAIN us
           /\ t.seq = Ended(ts) + o /\ t.who = "tool" /\ t.run = owed[o][1] /\ t.call = owed[o]
  BY ToldIs
<1>2. /\ Len(ts) \in Nat /\ DOMAIN ts = 1 .. Len(ts) /\ Ended(ts) \in Nat
      /\ Len(owed) \in Nat /\ DOMAIN owed = 1 .. Len(owed)
  BY EndedTyped
<1> HIDE DEF us
<1>3. Len(ts) <= Len(us) /\ DOMAIN us = 1 .. Len(us)
  BY <1>1, <1>2
<1>4. \A i \in DOMAIN ts : SameTurn(ts[i], us[i])
  BY <1>1 DEF SameTurn
<1>5. \A j \in DOMAIN us \ DOMAIN ts : j - Len(ts) \in DOMAIN owed /\ j = Len(ts) + (j - Len(ts))
  BY <1>1, <1>2, <1>3
<1>6. ASSUME NEW j \in DOMAIN us \ DOMAIN ts
      PROVE  us[j].who = "tool" /\ us[j].run = us[j].call[1] /\ us[j].seq = Ended(ts) + (j - Len(ts))
  BY <1>1, <1>5
<1>7. \A i \in Unanswered(us) : i \in DOMAIN ts
  BY <1>6, UnansweredThere
<1>8. ASSUME NEW i \in DOMAIN us, NEW j \in DOMAIN us, i < j, j \notin DOMAIN ts
      PROVE  us[i].seq < us[j].seq
  <2>1. us[j].seq = Ended(ts) + (j - Len(ts)) /\ j - Len(ts) > 0
    BY <1>2, <1>5, <1>6, <1>8
  <2>2. CASE i \in DOMAIN ts
    <3>1. ts[i].seq \in Nat /\ ts[i].seq <= Ended(ts)
      BY <2>2, EndedIs
    <3> QED BY <1>1, <1>2, <2>1, <2>2, <3>1
  <2>3. CASE i \notin DOMAIN ts
    <3>1. us[i].seq = Ended(ts) + (i - Len(ts))
      BY <1>6, <2>3
    <3> QED BY <1>2, <1>3, <1>8, <2>1, <3>1
  <2> QED BY <2>2, <2>3
<1>9. Threaded(us)
  BY <1>1, <1>3, <1>4, <1>6, <1>8, ThreadGoesOn
<1>10. Unanswered(us) \subseteq Unanswered(ts)
  BY <1>1, <1>3, <1>4, <1>7, AnswersStay
<1> QED BY <1>1, <1>7, <1>9, <1>10 DEF us

(* The round is answered, whose calls without an answer are among these. *)
LEMMA ToldAnswers ==
    ASSUME NEW ts \in Seq(TurnRow), Threaded(ts), NEW cs \in Table, NEW owed \in Seq(CallId),
           NEW i \in Unanswered(ts),
           \A n \in 1 .. ts[i].call[3] :
              AnsweredAt(ts, i, n) \/ \E o \in DOMAIN owed : owed[o] = <<ts[i].call[1], ts[i].call[2], n>>
    PROVE  i \notin Unanswered(Told(ts, cs, owed))
<1> DEFINE us == Told(ts, cs, owed)
<1>1. /\ us \in Seq(TurnRow) /\ Len(us) = Len(ts) + Len(owed)
      /\ \A j \in DOMAIN ts : j \in DOMAIN us /\ us[j] = ts[j]
      /\ \A o \in DOMAIN owed : LET t == us[Len(ts) + o] IN
           /\ Len(ts) + o \in DOMAIN us
           /\ t.seq = Ended(ts) + o /\ t.who = "tool" /\ t.run = owed[o][1] /\ t.call = owed[o]
  BY ToldIs
<1>2. /\ Len(ts) \in Nat /\ DOMAIN ts = 1 .. Len(ts)
      /\ Len(owed) \in Nat /\ DOMAIN owed = 1 .. Len(owed)
  OBVIOUS
<1> HIDE DEF us
<1>3. i \in DOMAIN ts /\ us[i] = ts[i] /\ i \in Nat
  BY <1>1, <1>2, UnansweredThere
<1>4. ASSUME NEW k \in i + 1 .. Len(us) PROVE us[k].who = "tool"
  <2>1. CASE k \in DOMAIN ts
    BY <1>1, <1>3, <2>1 DEF Threaded
  <2>2. CASE k \notin DOMAIN ts
    <3>1. k - Len(ts) \in DOMAIN owed /\ k = Len(ts) + (k - Len(ts))
      BY <1>1, <1>2, <1>3, <2>2
    <3> QED BY <1>1, <3>1
  <2> QED BY <2>1, <2>2
<1>5. ASSUME NEW n \in 1 .. us[i].call[3] PROVE AnsweredAt(us, i, n)
  <2>1. CASE AnsweredAt(ts, i, n)
    <3>1. PICK j \in DOMAIN ts : /\ j > i /\ ts[j].who = "tool"
                                 /\ ts[j].call = <<ts[i].call[1], ts[i].call[2], n>>
      BY <2>1 DEF AnsweredAt
    <3>2. j \in DOMAIN us /\ us[j] = ts[j] /\ \A k \in i + 1 .. j : k \in i + 1 .. Len(us)
      BY <1>1, <1>2, <1>3
    <3> QED BY <1>3, <1>4, <3>1, <3>2 DEF AnsweredAt
  <2>2. CASE \E o \in DOMAIN owed : owed[o] = <<ts[i].call[1], ts[i].call[2], n>>
    <3>1. PICK o \in DOMAIN owed : owed[o] = <<ts[i].call[1], ts[i].call[2], n>>
      BY <2>2
    <3>2. /\ Len(ts) + o \in DOMAIN us /\ us[Len(ts) + o].who = "tool"
          /\ us[Len(ts) + o].call = owed[o]
      BY <1>1
    <3>3. Len(ts) + o > i /\ \A k \in i + 1 .. Len(ts) + o : k \in i + 1 .. Len(us)
      BY <1>1, <1>2, <1>3
    <3> QED BY <1>3, <1>4, <3>1, <3>2, <3>3 DEF AnsweredAt
  <2> QED BY <1>3, <2>1, <2>2
<1>6. i \in DOMAIN us
  BY <1>1, <1>3
<1>7. i \notin Unanswered(us)
  BY <1>5, <1>6, UnansweredIs
<1> QED BY <1>7 DEF us

(* Settling answers every round: the last by what it is owed, the others are. *)
LEMMA OwedIs ==
    ASSUME NEW ts \in Seq(TurnRow), NEW i \in DOMAIN ts, i = LastAsks(ts),
           NEW n \in 1 .. ts[i].call[3],
           \A j \in DOMAIN ts : ~(/\ j > i /\ ts[j].who = "tool"
                                  /\ ts[j].call = <<ts[i].call[1], ts[i].call[2], n>>)
    PROVE  \E o \in DOMAIN Owed(ts) : Owed(ts)[o] = <<ts[i].call[1], ts[i].call[2], n>>
<1> DEFINE asks == ts[i].call
           told == {ts[j].call : j \in {k \in DOMAIN ts : k > i /\ ts[k].who = "tool"}}
           S == {p \in 1 .. asks[3] : <<asks[1], asks[2], p>> \notin told}
           left == Ascending(S)
<1>1. i # 0
  OBVIOUS
<1>2. Owed(ts) = [o \in DOMAIN left |-> <<asks[1], asks[2], left[o]>>]
  BY <1>1 DEF Owed
<1>3. n \in S
  OBVIOUS
<1>4. S \subseteq Nat /\ IsFiniteSet(S)
  <2>1. asks \in CallId \union {NoCall}
    BY TurnParts
  <2>2. asks[3] \in Nat
    BY <2>1, CallParts DEF NoCall
  <2> DEFINE m == asks[3]
  <2>3. S \subseteq 1 .. m /\ m \in Nat
    BY <2>2
  <2> HIDE DEF S, m
  <2>4. IsFiniteSet(1 .. m)
    BY <2>3, FS_Interval
  <2>5. S \in SUBSET (1 .. m) /\ S \subseteq Nat
    BY <2>3
  <2>6. IsFiniteSet(S)
    BY <2>4, <2>5, FS_Subset
  <2> QED BY <2>5, <2>6
<1> HIDE DEF S, told
<1>5. \E o \in DOMAIN left : left[o] = n
  BY <1>3, <1>4, AscendingLists
<1> HIDE DEF left
<1> QED BY <1>2, <1>5

LEMMA SettledThreads ==
    ASSUME NEW ts \in Seq(TurnRow), Threaded(ts), NEW cs \in Table
    PROVE  Threaded(Settled(ts, cs)) /\ Unanswered(Settled(ts, cs)) = {}
<1> DEFINE new == Cancelled(ts, cs)
           owed == Owed(ts)
           us == Settled(ts, cs)
<1>1. us = Told(ts, new, owed) /\ new \in Table /\ owed \in Seq(CallId)
  BY CancelledIs, OwedTyped DEF Settled
<1> HIDE DEF new, owed, us
<1>2. Threaded(us) /\ Unanswered(us) \subseteq Unanswered(ts)
  BY <1>1, ToldThreads
<1>3. ASSUME NEW i \in Unanswered(ts) PROVE i \notin Unanswered(us)
  <2>1. i \in DOMAIN ts /\ ts[i].who = "asks" /\ i \in Nat /\ i # 0
    BY UnansweredThere
  <2>2. \A j \in DOMAIN ts : i < j => ts[j].who = "tool"
    BY DEF Threaded
  <2>3. i = LastAsks(ts)
    <3>1. i <= LastAsks(ts) /\ LastAsks(ts) \in Nat
      BY <2>1, LastAsksIs
    <3>2. LastAsks(ts) \in DOMAIN ts /\ ts[LastAsks(ts)].who = "asks"
      BY <2>1, <3>1, LastAsksIs
    <3> QED BY <2>1, <2>2, <3>1, <3>2
  <2>4. ASSUME NEW n \in 1 .. ts[i].call[3], ~AnsweredAt(ts, i, n)
        PROVE  \E o \in DOMAIN owed : owed[o] = <<ts[i].call[1], ts[i].call[2], n>>
    <3>1. ASSUME NEW j \in DOMAIN ts, j > i, ts[j].who = "tool",
                 ts[j].call = <<ts[i].call[1], ts[i].call[2], n>>
          PROVE  FALSE
      <4>1. \A k \in i + 1 .. j : k \in DOMAIN ts /\ i < k
        BY <2>1
      <4>2. \A k \in i + 1 .. j : ts[k].who = "tool"
        BY <2>2, <4>1
      <4> QED BY <2>4, <3>1, <4>2 DEF AnsweredAt
    <3> QED BY <2>1, <2>3, <3>1, OwedIs DEF owed
  <2> QED BY <1>1, <2>4, ToldAnswers
<1> QED BY <1>2, <1>3 DEF us

(* A worker that tells a round all its words answers it, if it is the run's
   newest and every call of it is there. *)
LEMMA RoundHas ==
    ASSUME NEW cs \in Table, NEW r, NEW c \in DOMAIN cs, c[1] = r, c[2] = Newest(cs, r)
    PROVE  \E o \in DOMAIN RoundOf(cs, r) : RoundOf(cs, r)[o] = c
<1> DEFINE round == {d \in CallsOf(cs, r) : d[2] = Newest(cs, r)}
           S == {d[3] : d \in round}
           s == Ascending(S)
<1>1. \A d \in round : d \in CallId
  BY TableIs DEF CallsOf
<1>2. S \subseteq 1 .. MaxPlace /\ MaxPlace \in Nat
  BY <1>1, CallParts
<1>3. c \in round /\ c[3] \in S
  BY DEF CallsOf
<1>4. S \subseteq Nat /\ IsFiniteSet(S)
  <2>1. IsFiniteSet(1 .. MaxPlace)
    BY <1>2, FS_Interval
  <2> HIDE DEF S
  <2>2. S \in SUBSET (1 .. MaxPlace) /\ S \subseteq Nat
    BY <1>2
  <2>3. IsFiniteSet(S)
    BY <2>1, <2>2, FS_Subset
  <2> QED BY <2>2, <2>3
<1>5. RoundOf(cs, r) = [i \in DOMAIN s |-> <<r, Newest(cs, r), s[i]>>]
  BY DEF RoundOf
<1>6. c = <<r, Newest(cs, r), c[3]>>
  BY <1>1, <1>3, CallParts
<1> HIDE DEF S, round
<1>7. \E o \in DOMAIN s : s[o] = c[3]
  <2> DEFINE p == c[3]
  <2>1. p \in S
    BY <1>3
  <2> HIDE DEF p
  <2>2. \E o \in DOMAIN s : s[o] = p
    BY <1>4, <2>1, AscendingLists
  <2> QED BY <2>2 DEF p
<1> HIDE DEF s
<1> QED BY <1>5, <1>6, <1>7

LEMMA LookAnswers ==
    ASSUME NEW ts \in Seq(TurnRow), Threaded(ts), NEW cs \in Table, NEW r,
           NEW i \in Unanswered(ts), ts[i].call[1] = r, ts[i].call[2] = Newest(cs, r),
           \A n \in 1 .. ts[i].call[3] : <<ts[i].call[1], ts[i].call[2], n>> \in DOMAIN cs
    PROVE  i \notin Unanswered(Told(ts, cs, RoundOf(cs, r)))
<1> DEFINE owed == RoundOf(cs, r)
<1>1. owed \in Seq(CallId)
  BY RoundIsThere
<1>2. ASSUME NEW n \in 1 .. ts[i].call[3]
      PROVE  \E o \in DOMAIN owed : owed[o] = <<ts[i].call[1], ts[i].call[2], n>>
  <2> DEFINE c == <<ts[i].call[1], ts[i].call[2], n>>
  <2>1. c \in DOMAIN cs /\ c[1] = r /\ c[2] = Newest(cs, r)
    BY <1>2
  <2> HIDE DEF c
  <2>2. \E o \in DOMAIN owed : owed[o] = c
    BY <2>1, RoundHas
  <2> QED BY <2>2 DEF c
<1> HIDE DEF owed
<1>3. i \notin Unanswered(Told(ts, cs, owed))
  BY <1>1, <1>2, ToldAnswers
<1> QED BY <1>3 DEF owed

(* A cut that takes no answer of a round it leaves keeps the thread. *)
LEMMA LeftThreads ==
    ASSUME NEW ts \in Seq(TurnRow), Threaded(ts), NEW S, S \subseteq DOMAIN ts,
           \A i \in S, j \in DOMAIN ts :
              (/\ ts[i].who = "asks" /\ i < j /\ ts[j].who = "tool"
               /\ ts[j].call[1] = ts[i].call[1]
               /\ \A k \in i + 1 .. j : ts[k].who = "tool") => j \in S
    PROVE  LET us == [i \in DOMAIN Ascending(S) |-> ts[Ascending(S)[i]]] IN
           /\ us \in Seq(TurnRow) /\ Threaded(us)
           /\ \A i \in Unanswered(us) : \E q \in S : q \in Unanswered(ts) /\ us[i] = ts[q]
<1> DEFINE left == Ascending(S)
           us == [i \in DOMAIN left |-> ts[left[i]]]
<1>1. S \subseteq Nat /\ IsFiniteSet(S)
  <2> DEFINE m == Len(ts)
  <2>1. DOMAIN ts = 1 .. m /\ m \in Nat
    BY TurnsAre
  <2> HIDE DEF m
  <2>2. IsFiniteSet(1 .. m)
    BY <2>1, FS_Interval
  <2>3. S \in SUBSET (1 .. m) /\ S \subseteq Nat
    BY <2>1
  <2>4. IsFiniteSet(S)
    BY <2>2, <2>3, FS_Subset
  <2> QED BY <2>3, <2>4
<1>2. /\ left \in Seq(S)
      /\ \A i, j \in DOMAIN left : i < j => left[i] < left[j]
      /\ \A p \in S : \E i \in DOMAIN left : left[i] = p
  BY <1>1, AscendingLists
<1>3. us \in Seq(TurnRow)
  BY LeftTyped
<1>4. DOMAIN us = DOMAIN left /\ \A i \in DOMAIN left : us[i] = ts[left[i]]
  OBVIOUS
<1> HIDE DEF left, us
<1>5. \A i \in DOMAIN us : i \in Nat /\ left[i] \in S /\ left[i] \in DOMAIN ts /\ left[i] \in Nat
  BY <1>1, <1>2, <1>3, <1>4
<1>6. \A i, j \in DOMAIN us : left[i] < left[j] => i < j
  <2> SUFFICES ASSUME NEW i \in DOMAIN us, NEW j \in DOMAIN us, left[i] < left[j], ~(i < j)
               PROVE  FALSE
    OBVIOUS
  <2>1. i = j \/ j < i
    BY <1>5
  <2>2. j < i => left[j] < left[i]
    BY <1>2, <1>4
  <2> QED BY <1>5, <2>1, <2>2
<1>7. ASSUME NEW i \in Unanswered(us) PROVE left[i] \in Unanswered(ts)
  <2>1. i \in DOMAIN us /\ us[i].who = "asks" /\ us[i] = ts[left[i]]
    BY <1>4, UnansweredThere
  <2>2. PICK n \in 1 .. us[i].call[3] : ~AnsweredAt(us, i, n)
    BY <2>1, UnansweredIs
  <2>3. SUFFICES ASSUME AnsweredAt(ts, left[i], n) PROVE FALSE
    BY <1>5, <2>1, <2>2, UnansweredIs
  <2>4. PICK j \in DOMAIN ts : /\ j > left[i] /\ ts[j].who = "tool"
                               /\ ts[j].call = <<us[i].call[1], us[i].call[2], n>>
                               /\ \A k \in left[i] + 1 .. j : ts[k].who = "tool"
    BY <2>1, <2>3 DEF AnsweredAt
  <2>5. j \in S
    <3>1. ts[j].call[1] = ts[left[i]].call[1]
      BY <2>1, <2>4
    <3> QED BY <1>5, <2>1, <2>4, <3>1
  <2>6. PICK p \in DOMAIN us : left[p] = j
    BY <1>2, <1>4, <2>5
  <2>7. p > i /\ us[p] = ts[j]
    BY <1>4, <1>5, <1>6, <2>1, <2>4, <2>6
  <2>8. ASSUME NEW k \in i + 1 .. p PROVE us[k].who = "tool"
    <3>1. k \in DOMAIN us /\ i < k /\ (k = p \/ k < p)
      BY <1>3, <1>5, <2>1
    <3>2. left[i] < left[k] /\ (left[k] = j \/ left[k] < j)
      BY <1>2, <1>4, <2>1, <2>6, <3>1
    <3>3. left[k] \in left[i] + 1 .. j
      BY <1>5, <2>1, <2>6, <3>1, <3>2
    <3> QED BY <1>4, <2>4, <3>1, <3>3
  <2> QED BY <2>2, <2>4, <2>7, <2>8 DEF AnsweredAt
<1>8. Threaded(us)
  <2>1. \A i, j \in DOMAIN us : i < j => us[i].seq < us[j].seq
    BY <1>2, <1>4, <1>5 DEF Threaded
  <2>2. \A i \in DOMAIN us : us[i].who \in {"asks", "tool"} => us[i].run = us[i].call[1]
    BY <1>4, <1>5 DEF Threaded
  <2>3. ASSUME NEW i \in Unanswered(us), NEW j \in DOMAIN us, i < j PROVE us[j].who = "tool"
    <3>1. i \in DOMAIN us /\ left[i] \in Unanswered(ts)
      BY <1>7, UnansweredThere
    <3>2. left[i] < left[j] /\ left[j] \in DOMAIN ts
      BY <1>2, <1>4, <1>5, <2>3, <3>1
    <3> QED BY <1>4, <3>1, <3>2 DEF Threaded
  <2> QED BY <2>1, <2>2, <2>3 DEF Threaded
<1>9. \A i \in Unanswered(us) : left[i] \in S /\ left[i] \in Unanswered(ts) /\ us[i] = ts[left[i]]
  BY <1>4, <1>5, <1>7, UnansweredThere
<1>10. \A i \in Unanswered(us) : \E q \in S : q \in Unanswered(ts) /\ us[i] = ts[q]
  BY <1>9
<1> QED BY <1>3, <1>8, <1>10 DEF left, us

----------------------------------------------------------------------------
(* A copy of the chat that differs from one in thread by what was said of   *)
(* its calls and by runs that were stopped, or failed with their worker.    *)

LEMMA SameLatest ==
    ASSUME NEW st, NEW st0, \A r \in Run : st[r] = "none" <=> st0[r] = "none"
    PROVE  Latest(st) = Latest(st0)
<1>1. Standing(st) = Standing(st0)
  BY DEF Standing
<1> QED BY <1>1 DEF Latest

LEMMA SameNewest ==
    ASSUME NEW cs, NEW cs0, NEW r, \A c : c[1] = r => (c \in DOMAIN cs <=> c \in DOMAIN cs0)
    PROVE  CallsOf(cs, r) = CallsOf(cs0, r) /\ Newest(cs, r) = Newest(cs0, r)
<1>1. CallsOf(cs, r) = CallsOf(cs0, r)
  BY DEF CallsOf
<1> QED BY <1>1 DEF Newest

Alike(k, k0, ws) ==
    /\ Len(k.turns) = Len(k0.turns)
    /\ \A i \in DOMAIN k0.turns : SameTurn(k0.turns[i], k.turns[i])
    /\ DOMAIN k.calls = DOMAIN k0.calls
    /\ \A r \in Run : \/ k.status[r] = k0.status[r]
                      \/ k0.status[r] \in Live /\ k.status[r] = "stopped"
                      \/ k0.status[r] = "streaming" /\ k.status[r] = "failed" /\ ws[r].at = "idle"

(* A worker that stops, or goes on with what it is at. *)
Paces(ws, ws0) ==
    \A r \in Run : \/ ws[r].at = "idle" \/ ws[r].at = ws0[r].at
                   \/ ws[r].at \in Waits \ {"answered"} /\ ws0[r].at \in Waits
                   \/ ws[r].at \in Streams /\ ws0[r].at \in Streams

LEMMA AlikeKeeps ==
    ASSUME NEW k, NEW k0, NEW ws, NEW ws0, k \in Copy, k0 \in Copy,
           InThread(k0, ws0), Alike(k, k0, ws), Paces(ws, ws0)
    PROVE  InThread(k, ws)
<1>1. k.turns \in Seq(TurnRow) /\ k0.turns \in Seq(TurnRow)
  BY DEF Copy
<1>2. Unanswered(k.turns) = Unanswered(k0.turns) /\ Threaded(k.turns)
  BY <1>1, SameAnswers DEF Alike, InThread
<1>3. \A i \in Unanswered(k.turns) : k.turns[i].call = k0.turns[i].call
  BY <1>2, UnansweredThere DEF Alike, SameTurn
<1>4. \A r \in Run : k.status[r] = "none" <=> k0.status[r] = "none"
  BY DEF Alike, Live
<1>5. Latest(k.status) = Latest(k0.status)
  BY <1>4, SameLatest
<1>6. \A r : Newest(k.calls, r) = Newest(k0.calls, r)
  BY SameNewest DEF Alike
<1>7. AwaitsAnswers(k)
  <2> SUFFICES ASSUME NEW i \in Unanswered(k.turns)
               PROVE  LET c == k.turns[i].call IN
                      /\ c[1] = Latest(k.status) /\ k.status[c[1]] \in {"waiting", "stopped", "done"}
                      /\ k.status[c[1]] # "done" =>
                           /\ c[2] = Newest(k.calls, c[1])
                           /\ \A n \in 1 .. c[3] : <<c[1], c[2], n>> \in DOMAIN k.calls
    BY DEF AwaitsAnswers
  <2> DEFINE c == k.turns[i].call
  <2>1. /\ c[1] = Latest(k0.status) /\ k0.status[c[1]] \in {"waiting", "stopped", "done"}
        /\ k0.status[c[1]] # "done" =>
             /\ c[2] = Newest(k0.calls, c[1])
             /\ \A n \in 1 .. c[3] : <<c[1], c[2], n>> \in DOMAIN k0.calls
    BY <1>2, <1>3 DEF AwaitsAnswers, InThread
  <2>2. c[1] \in Run
    <3>1. k0.status \in [Run -> Statuses]
      BY DEF Copy
    <3>2. c[1] # 0
      <4>1. c \in CallId \union {NoCall}
        BY <1>1, UnansweredThere, TurnParts
      <4>2. k.turns[i].who = "asks" /\ k.turns[i].run = c[1] /\ k.turns[i] \in TurnRow
        BY <1>1, <1>2, UnansweredThere DEF Threaded
      <4>3. c[1] \in Run
        BY <4>2, TurnParts
      <4> QED BY <4>3, CallParts
    <3> QED BY <2>1, <3>1, <3>2, LatestRun
  <2>3. /\ k.status[c[1]] \in {"waiting", "stopped", "done"}
        /\ k.status[c[1]] # "done" => k0.status[c[1]] # "done"
    BY <2>1, <2>2 DEF Alike, Live
  <2> QED BY <1>5, <1>6, <2>1, <2>3 DEF Alike
<1>8. OneLive(k.status)
  BY <1>5 DEF OneLive, InThread, Alike, Live
<1>9. ASSUME NEW r \in Run PROVE WorkerApt(ws[r], k, r)
  <2>1. WorkerApt(ws0[r], k0, r)
    BY DEF InThread
  <2>2. CASE ws[r].at = "idle"
    BY <2>2 DEF WorkerApt, Waits, Streams
  <2>3. CASE ws[r].at # "idle"
    <3>1. k.status[r] = k0.status[r] \/ (k0.status[r] \in Live /\ k.status[r] = "stopped")
      BY <2>3 DEF Alike
    <3>2. \/ ws[r].at = ws0[r].at
          \/ ws[r].at \in Waits \ {"answered"} /\ ws0[r].at \in Waits
          \/ ws[r].at \in Streams /\ ws0[r].at \in Streams
      BY <2>3 DEF Paces
    <3>3. ws[r].at \in Waits => ws0[r].at \in Waits
      BY <3>2 DEF Waits, Streams
    <3>4. ws[r].at \in Streams => ws0[r].at \in Streams
      BY <3>2 DEF Waits, Streams
    <3>5. ws[r].at \in Streams \union {"answered"} => ws0[r].at \in Streams \union {"answered"}
      BY <3>2 DEF Waits, Streams
    <3>6. ws[r].at \in Waits => k.status[r] \in {"none", "waiting", "stopped"}
      BY <2>1, <3>1, <3>3 DEF WorkerApt
    <3>7. ws[r].at \in Streams => k.status[r] \in {"none", "streaming", "stopped"}
      BY <2>1, <3>1, <3>4 DEF WorkerApt
    <3>8. ws[r].at \in Streams \union {"answered"} =>
              \A i \in Unanswered(k.turns) : k.turns[i].call[1] # r
      BY <1>2, <1>3, <2>1, <3>5 DEF WorkerApt
    <3> QED BY <3>6, <3>7, <3>8 DEF WorkerApt
  <2> QED BY <2>2, <2>3
<1> QED BY <1>2, <1>7, <1>8, <1>9 DEF InThread

(* A chat without rows is in thread with any worker. *)
LEMMA BareInThread ==
    ASSUME NEW k, NEW ws, k.turns = <<>>, \A r \in Run : k.status[r] = "none"
    PROVE  InThread(k, ws)
<1>1. DOMAIN <<>> = {}
  OBVIOUS
<1>2. DOMAIN k.turns = {} /\ Unanswered(k.turns) = {}
  BY <1>1, UnansweredThere
<1>3. "none" \notin Live
  BY DEF Live
<1> QED BY <1>2, <1>3 DEF InThread, Threaded, AwaitsAnswers, OneLive, WorkerApt

LEMMA CopiesTyped ==
    ASSUME TypeOK
    PROVE  \A k \in Copies : k \in Copy
<1>1. past \in Seq(Undoable) /\ Whole \in Copy
  BY DEF TypeOK
<1>2. \A k \in Kept(past) : k \in Copy
  BY <1>1, KeptParts
<1> QED BY <1>1, <1>2 DEF Copies

LEMMA CopiesTypedNext ==
    ASSUME TypeOK'
    PROVE  \A k \in Copies' : k \in Copy
<1>1. past' \in Seq(Undoable) /\ Whole' \in Copy
  BY DEF TypeOK, Copy, Table, CallRow, TurnRow, Undoable, Begun, CallId
<1>2. \A k \in Kept(past') : k \in Copy
  BY <1>1, KeptParts
<1> QED BY <1>1, <1>2 DEF Copies

Bare(k) == k.turns = <<>> /\ \A r \in Run : k.status[r] = "none"

(* Where each copy is bare or like one before, the thread is kept. *)
LEMMA CalmKeeps ==
    ASSUME AgentInv, TypeOK', ThreadInv, strayed \subseteq strayed',
           issued <= issued', Paces(worker', worker),
           strayed' = {} =>
              /\ \A k \in Copies' : Bare(k) \/ \E k0 \in Copies : Alike(k, k0, worker')
              /\ walk' # NoWalk /\ walk'.kind = "send" =>
                   \E i \in DOMAIN turns' : turns'[i].who = "user" /\ turns'[i].seq = walk'.seq
    PROVE  ThreadInv'
<1>1. TypeOK
  BY DEF AgentInv
<1>2. ASSUME NEW r \in Run, worker'[r].at # "idle" PROVE r <= issued'
  <2>1. worker[r].at # "idle"
    BY <1>2 DEF Paces, Waits, Streams
  <2>2. r <= issued
    BY <2>1 DEF ThreadInv
  <2>3. issued \in Nat /\ issued' \in Nat /\ r \in Nat
    <3>1. issued \in 0 .. MaxRuns /\ issued' \in 0 .. MaxRuns
      BY <1>1 DEF TypeOK
    <3> QED BY <3>1, CallParts
  <2> QED BY <2>2, <2>3
<1>3. ASSUME strayed' = {}, NEW k \in Copies' PROVE InThread(k, worker')
  <2>1. CASE Bare(k)
    BY <2>1, BareInThread DEF Bare
  <2>2. ASSUME NEW k0 \in Copies, Alike(k, k0, worker') PROVE InThread(k, worker')
    <3>1. k \in Copy /\ k0 \in Copy
      BY <1>1, CopiesTyped, CopiesTypedNext
    <3>2. strayed = {}
      BY <1>3
    <3>3. InThread(k0, worker)
      BY <3>2 DEF ThreadInv
    <3> QED BY <2>2, <3>1, <3>3, AlikeKeeps
  <2> QED BY <1>3, <2>1, <2>2
<1> QED BY <1>2, <1>3 DEF ThreadInv

LEMMA AlikeItself ==
    ASSUME NEW k, NEW ws
    PROVE  Alike(k, k, ws)
BY DEF Alike, SameTurn

(* Most of the session's steps: no turn, call or run comes or goes. *)
LEMMA StandsKeeps ==
    ASSUME AgentInv, TypeOK', ThreadInv, UNCHANGED <<strayed, issued, past, walk>>,
           Len(turns') = Len(turns), \A i \in DOMAIN turns : SameTurn(turns[i], turns'[i]),
           DOMAIN calls' = DOMAIN calls,
           \A r \in Run : \/ status'[r] = status[r]
                          \/ status[r] \in Live /\ status'[r] = "stopped",
           Paces(worker', worker)
    PROVE  ThreadInv'
<1>1. TypeOK
  BY DEF AgentInv
<1>2. \A k \in Copies' : \E k0 \in Copies : Alike(k, k0, worker')
  <2>1. Alike(Whole', Whole, worker')
    BY DEF Alike, Whole
  <2>2. \A k \in Kept(past) : Alike(k, k, worker')
    BY AlikeItself
  <2>3. Copies' = {Whole'} \union Kept(past)
    BY DEF Copies, Kept
  <2> QED BY <2>1, <2>2, <2>3 DEF Copies
<1>3. ASSUME strayed' = {}, walk' # NoWalk, walk'.kind = "send"
      PROVE  \E i \in DOMAIN turns' : turns'[i].who = "user" /\ turns'[i].seq = walk'.seq
  <2>1. PICK i \in DOMAIN turns : turns[i].who = "user" /\ turns[i].seq = walk.seq
    BY <1>3 DEF ThreadInv
  <2>2. DOMAIN turns = DOMAIN turns'
    <3>1. turns \in Seq(TurnRow) /\ turns' \in Seq(TurnRow)
      BY <1>1, TypeAll DEF TypeOK, Whole, Copy, TurnRow, CallId
    <3> QED BY <3>1
  <2> QED BY <2>1, <2>2 DEF SameTurn
<1>4. issued <= issued'
  BY <1>1, TypeParts
<1> QED BY <1>2, <1>3, <1>4, CalmKeeps

(* The session's steps, the stop among them, a press, and a worker that goes
   on with what it is at. *)
LEMMA SameRows ==
    ASSUME turns' = turns
    PROVE  Len(turns') = Len(turns) /\ \A i \in DOMAIN turns : SameTurn(turns[i], turns'[i])
BY DEF SameTurn

LEMMA SamePaces ==
    ASSUME worker' = worker
    PROVE  Paces(worker', worker)
BY DEF Paces

LEMMA SessionThread ==
    ASSUME AgentInv, TypeOK', ThreadInv,
           \/ Dispatch
           \/ \E r \in Run : Performs(r) \/ Allow(r) \/ Refuse(r)
           \/ CommitAsk \/ CommitRecord \/ CommitEdit \/ CommitNative \/ CommitStop
           \/ PressSend \/ PressStop \/ PressRetry \/ PressDelete \/ Composed
    PROVE  ThreadInv'
<1>1. TypeOK /\ turns \in Seq(TurnRow) /\ turns' \in Seq(TurnRow) /\ status \in [Run -> Statuses]
  <2>1. TypeOK
    BY DEF AgentInv
  <2>2. turns' \in Seq(TurnRow)
    BY DEF TypeOK, Whole, Copy, TurnRow, CallId
  <2> QED BY <2>1, <2>2, TypeParts
<1>2. UNCHANGED <<strayed, issued, past, walk, worker>>
  <2>1. Dispatch => UNCHANGED <<strayed, issued, past, walk, worker>>
    BY DEF Dispatch, rows
  <2>2. \A r \in Run : Performs(r) \/ Allow(r) \/ Refuse(r) => UNCHANGED <<strayed, issued, past, walk, worker>>
    BY DEF Performs, Prepared, NativeRuns, NativeFails, NativeTold, Allow, Refuse, rows, ghosts
  <2>3. CommitAsk \/ CommitRecord \/ CommitEdit \/ CommitNative \/ CommitStop
          => UNCHANGED <<strayed, issued, past, walk, worker>>
    BY DEF CommitAsk, CommitRecord, CommitEdit, CommitNative, CommitStop, ghosts
  <2>4. PressSend \/ PressStop \/ PressRetry \/ PressDelete \/ Composed
          => UNCHANGED <<strayed, issued, past, walk, worker>>
    BY DEF PressSend, PressStop, PressRetry, PressDelete, Composed, Asks, rows, hands, ghosts
  <2> QED BY <2>1, <2>2, <2>3, <2>4
<1>3. Paces(worker', worker)
  BY <1>2, SamePaces
<1>4. CASE CommitNative
  <2>1. PICK its, st : turns' = [i \in DOMAIN turns |->
           IF turns[i].who = "tool" /\ turns[i].call = Head(queue).call /\ i \in its
           THEN [turns[i] EXCEPT !.said = st] ELSE turns[i]]
    <3> DEFINE c == Head(queue).call
               asks == {i \in DOMAIN turns : turns[i].who = "asks" /\ turns[i].run = c[1]
                                      /\ turns[i].call[2] = c[2]}
               later(i) == {j \in DOMAIN turns : turns[j].run = c[1] /\ j > i
                                         /\ turns[j].who \in {"asks", "says"}}
               its0 == {i \in DOMAIN turns : \E a \in asks : i > a /\ \A j \in later(a) : i < j}
    <3>1. turns' = [i \in DOMAIN turns |->
                        IF turns[i].who = "tool" /\ turns[i].call = c
                           /\ \E a \in asks : i > a /\ \A j \in later(a) : i < j
                        THEN [turns[i] EXCEPT !.said = Head(queue).st] ELSE turns[i]]
      BY <1>4 DEF CommitNative
    <3>2. \A i \in DOMAIN turns : (\E a \in asks : i > a /\ \A j \in later(a) : i < j) <=> i \in its0
      OBVIOUS
    <3> HIDE DEF asks, later, its0
    <3>3. turns' = [i \in DOMAIN turns |->
                        IF turns[i].who = "tool" /\ turns[i].call = c /\ i \in its0
                        THEN [turns[i] EXCEPT !.said = Head(queue).st] ELSE turns[i]]
      BY <3>1, <3>2
    <3> QED BY <3>3
  <2>2. DOMAIN turns' = DOMAIN turns /\ Len(turns') = Len(turns)
    BY <1>1, <2>1
  <2>3. ASSUME NEW i \in DOMAIN turns PROVE SameTurn(turns[i], turns'[i])
    <3>1. turns[i] \in TurnRow
      BY <1>1
    <3>2. turns'[i] = [turns[i] EXCEPT !.said = st] \/ turns'[i] = turns[i]
      BY <2>1
    <3> QED BY <3>1, <3>2 DEF TurnRow, SameTurn
  <2>4. DOMAIN calls' = DOMAIN calls /\ status' = status
    BY <1>4 DEF CommitNative
  <2> QED BY <1>2, <1>3, <2>2, <2>3, <2>4, StandsKeeps
<1>5. CASE CommitStop
  <2>1. turns' = turns /\ calls' = calls
    BY <1>5 DEF CommitStop
  <2>2. \A r \in Run : status'[r] = status[r] \/ (status[r] \in Live /\ status'[r] = "stopped")
    BY <1>1, <1>5 DEF CommitStop
  <2> QED BY <1>2, <1>3, <2>1, <2>2, SameRows, StandsKeeps
<1>6. CASE ~CommitNative /\ ~CommitStop
  <2>1. turns' = turns /\ status' = status
    <3>1. Dispatch => turns' = turns /\ status' = status
      BY DEF Dispatch, rows
    <3>2. \A r \in Run : Performs(r) \/ Allow(r) \/ Refuse(r) => turns' = turns /\ status' = status
      BY DEF Performs, Prepared, NativeRuns, NativeFails, NativeTold, Allow, Refuse, rows
    <3>3. CommitAsk \/ CommitRecord \/ CommitEdit => turns' = turns /\ status' = status
      BY DEF CommitAsk, CommitRecord, CommitEdit
    <3>4. PressSend \/ PressStop \/ PressRetry \/ PressDelete \/ Composed => turns' = turns /\ status' = status
      BY DEF PressSend, PressStop, PressRetry, PressDelete, Composed, rows
    <3> QED BY <1>6, <3>1, <3>2, <3>3, <3>4
  <2>2. DOMAIN calls' = DOMAIN calls
    <3>1. Dispatch => calls' = calls
      BY DEF Dispatch, rows
    <3>2. \A r \in Run : Performs(r) \/ Allow(r) \/ Refuse(r) => calls' = calls
      BY DEF Performs, Prepared, NativeRuns, NativeFails, NativeTold, Allow, Refuse, rows
    <3>3. CommitAsk \/ CommitRecord \/ CommitEdit => DOMAIN calls' = DOMAIN calls
      BY DEF CommitAsk, CommitRecord, CommitEdit
    <3>4. PressSend \/ PressStop \/ PressRetry \/ PressDelete \/ Composed => calls' = calls
      BY DEF PressSend, PressStop, PressRetry, PressDelete, Composed, rows
    <3> QED BY <1>6, <3>1, <3>2, <3>3, <3>4
  <2> QED BY <1>2, <1>3, <2>1, <2>2, SameRows, StandsKeeps
<1> QED BY <1>4, <1>5, <1>6

LEMMA MovingThread ==
    ASSUME AgentInv, TypeOK', ThreadInv, NEW r \in Run,
           ReadEnds(r) \/ ReadStopped(r) \/ ReadKept(r) \/ Request(r) \/ Reply(r) \/ ReplyCalls(r)
    PROVE  ThreadInv'
<1>1. TypeOK /\ worker \in [Run -> Passing]
  BY TypeAll DEF AgentInv
<1>2. /\ UNCHANGED <<status, issued, turns, strayed, past, walk>> /\ DOMAIN calls' = DOMAIN calls
  BY DEF ReadEnds, ReadStopped, ReadKept, Request, Reply, ReplyCalls, rows, hands, ghosts
<1>3. \E w : /\ worker' = [worker EXCEPT ![r] = w]
             /\ \/ w.at = "idle"
                \/ w.at \in {"read", "next"} /\ worker[r].at \in Waits
                \/ w.at \in Streams /\ worker[r].at \in Streams
  <2>1. CASE ReadEnds(r)
    <3>1. worker' = [worker EXCEPT ![r] = Holding("read", worker[r].call)] /\ worker[r].at = "reading"
      BY <2>1 DEF ReadEnds
    <3>2. Holding("read", worker[r].call).at = "read"
      BY DEF Holding, Asleep
    <3>3. worker[r].at \in Waits
      BY <3>1 DEF Waits
    <3> QED BY <3>1, <3>2, <3>3
  <2>2. CASE ReadStopped(r)
    <3>1. worker' = [worker EXCEPT ![r] = Asleep]
      BY <2>2 DEF ReadStopped
    <3>2. Asleep.at = "idle"
      BY DEF Asleep
    <3> QED BY <3>1, <3>2
  <2>3. CASE ReadKept(r)
    <3>1. worker' = [worker EXCEPT ![r] = At("next")] /\ worker[r].at = "read"
      BY <2>3 DEF ReadKept
    <3>2. At("next").at = "next"
      BY DEF At, Asleep
    <3>3. worker[r].at \in Waits
      BY <3>1 DEF Waits
    <3> QED BY <3>1, <3>2, <3>3
  <2>4. CASE Request(r)
    <3>1. PICK place \in {"gateway", "error"} : worker' = [worker EXCEPT ![r] = At(place)]
      BY <2>4 DEF Request
    <3>2. At(place).at = place
      BY DEF At, Asleep
    <3>3. place \in Streams /\ worker[r].at \in Streams
      BY <2>4 DEF Request, Streams
    <3> QED BY <3>1, <3>2, <3>3
  <2>5. CASE Reply(r)
    <3>1. PICK what \in {"says", "error", "cut"} : worker' = [worker EXCEPT ![r] = At(what)]
      BY <2>5 DEF Reply
    <3>2. At(what).at = what
      BY DEF At, Asleep
    <3> QED BY <2>5, <3>1, <3>2 DEF Reply, Streams
  <2>6. CASE ReplyCalls(r)
    <3>1. PICK tools \in Rounds, at \in {"calls", "says"} :
              worker' = [worker EXCEPT ![r] = [At(at) EXCEPT !.tools = tools]]
      BY <2>6 DEF ReplyCalls
    <3>2. [At(at) EXCEPT !.tools = tools].at = at
      BY DEF At, Asleep
    <3> QED BY <2>6, <3>1, <3>2 DEF ReplyCalls, Streams
  <2> QED BY <2>1, <2>2, <2>3, <2>4, <2>5, <2>6
<1>4. Paces(worker', worker)
  BY <1>1, <1>3 DEF Paces, Waits
<1> QED BY <1>2, <1>4, SameRows, StandsKeeps

(* A walk, a deletion and a crash leave every copy bare or like one before. *)
LEMMA UndoThread ==
    ASSUME AgentInv, TypeOK', ThreadInv, Undo
    PROVE  ThreadInv'
<1> DEFINE e == Last(past)
           taken == IF e.kind = "send" THEN {r \in Run : r >= e.run} ELSE {e.run}
           there == \E i \in DOMAIN turns : turns[i].who = "user" /\ turns[i].seq = e.seq
<1>1. /\ Quiet /\ past # <<>> /\ walk' = e /\ past' = Front(past)
      /\ status' = [r \in Run |-> IF r \in taken /\ status[r] \in Live
                                  THEN "stopped" ELSE status[r]]
      /\ UNCHANGED <<issued, turns, calls, worker, queue>>
      /\ strayed' = strayed \union (IF e.kind = "send" /\ ~there THEN {"adrift"} ELSE {})
  BY DEF Undo
<1> HIDE DEF taken, there
<1>2. past \in Seq(Undoable) /\ issued \in Nat
  BY TypeAll, TypeParts DEF AgentInv
<1>3. \A i \in DOMAIN Front(past) : i \in DOMAIN past /\ Front(past)[i] = past[i]
  BY <1>1, <1>2, FrontParts
<1> HIDE DEF e
<1>4. Kept(past') \subseteq Kept(past)
  <2>1. NoneNew(past', past)
    BY <1>1, <1>3 DEF NoneNew
  <2> QED BY <2>1, NoneNewKept
<1>5. Alike(Whole', Whole, worker')
  <2>1. \A r \in Run : \/ status'[r] = status[r]
                       \/ status[r] \in Live /\ status'[r] = "stopped"
    BY <1>1
  <2> QED BY <1>1, <2>1 DEF Alike, Whole, SameTurn
<1>6. \A k \in Copies' : \E k0 \in Copies : Alike(k, k0, worker')
  BY <1>4, <1>5, AlikeItself DEF Copies
<1>7. ASSUME strayed' = {}, walk'.kind = "send"
      PROVE  \E i \in DOMAIN turns' : turns'[i].who = "user" /\ turns'[i].seq = walk'.seq
  <2>1. there
    BY <1>1, <1>7
  <2> QED BY <1>1, <2>1 DEF there
<1>8. Paces(worker', worker)
  BY <1>1, SamePaces
<1>9. strayed \subseteq strayed' /\ issued <= issued'
  BY <1>1, <1>2
<1> QED BY <1>6, <1>7, <1>8, <1>9, CalmKeeps

LEMMA UndoDeleteThread ==
    ASSUME AgentInv, TypeOK', ThreadInv, UndoDelete
    PROVE  ThreadInv'
<1> DEFINE e == Last(past)
<1>1. /\ walk = NoWalk /\ Quiet /\ past # <<>> /\ e.kind = "delete"
      /\ status' = [r \in Run |-> IF e.kept.status[r] = "streaming" THEN "stopped"
                                  ELSE e.kept.status[r]]
      /\ turns' = e.kept.turns /\ calls' = e.kept.calls /\ past' = Front(past)
      /\ UNCHANGED <<issued, worker, queue, walk, strayed>>
  BY DEF UndoDelete, Press, ghosts
<1>2. past \in Seq(Undoable) /\ issued \in Nat
  BY TypeAll, TypeParts DEF AgentInv
<1>3. /\ Len(past) \in DOMAIN past /\ e = past[Len(past)]
      /\ \A i \in DOMAIN Front(past) : i \in DOMAIN past /\ Front(past)[i] = past[i]
  BY <1>1, <1>2, FrontParts
<1> HIDE DEF e
<1>4. Kept(past') \subseteq Kept(past)
  <2>1. NoneNew(past', past)
    BY <1>1, <1>3 DEF NoneNew
  <2> QED BY <2>1, NoneNewKept
<1>5. e.kept \in Kept(past)
  BY <1>1, <1>3 DEF Kept
<1>6. Alike(Whole', e.kept, worker')
  <2>1. \A r \in Run : \/ status'[r] = e.kept.status[r]
                       \/ e.kept.status[r] \in Live /\ status'[r] = "stopped"
    BY <1>1 DEF Live
  <2> QED BY <1>1, <2>1 DEF Alike, Whole, SameTurn
<1>7. \A k \in Copies' : \E k0 \in Copies : Alike(k, k0, worker')
  BY <1>4, <1>5, <1>6, AlikeItself DEF Copies
<1>8. Paces(worker', worker)
  BY <1>1, SamePaces
<1>9. strayed \subseteq strayed' /\ issued <= issued' /\ walk' = NoWalk
  BY <1>1, <1>2
<1> QED BY <1>7, <1>8, <1>9, CalmKeeps

(* The rows go, and a claim may have them. *)
LEMMA GoneThread ==
    ASSUME AgentInv, TypeOK', ThreadInv, Gone, walk' = NoWalk, worker' = worker,
           strayed \subseteq strayed',
           strayed' = {} => Kept(past') \subseteq Kept(past) \union {Whole}
    PROVE  ThreadInv'
<1>1. issued' = issued /\ turns' = <<>> /\ status' = [r \in Run |-> "none"]
  BY DEF Gone
<1>2. Bare(Whole')
  BY <1>1 DEF Bare, Whole
<1>3. strayed' = {} => \A k \in Copies' : Bare(k) \/ \E k0 \in Copies : Alike(k, k0, worker')
  BY <1>2, AlikeItself DEF Copies
<1>4. Paces(worker', worker)
  BY SamePaces
<1>5. issued <= issued'
  BY <1>1, TypeParts DEF AgentInv
<1> QED BY <1>3, <1>4, <1>5, CalmKeeps

LEMMA AppendedKept ==
    ASSUME NEW claims \in Seq(Undoable), NEW e
    PROVE  Kept(Append(claims, e)) \subseteq Kept(claims) \union {e.kept}
<1>1. \A i \in DOMAIN Append(claims, e) :
        (i \in DOMAIN claims /\ Append(claims, e)[i] = claims[i]) \/ Append(claims, e)[i] = e
  OBVIOUS
<1> QED BY <1>1 DEF Kept

LEMMA DeletesThread ==
    ASSUME AgentInv, TypeOK', ThreadInv, CommitDelete \/ RedoDelete
    PROVE  ThreadInv'
<1>1. past \in Seq(Undoable)
  BY TypeAll DEF AgentInv
<1>2. CASE CommitDelete
  <2>1. Gone /\ worker' = worker /\ walk' = walk /\ strayed' = strayed /\ queue # <<>>
    BY <1>2 DEF CommitDelete, ghosts, Next1
  <2>2. walk = NoWalk
    BY <2>1, Unquiet
  <2> DEFINE e == Claim("delete", 0, 0, Whole)
  <2>3. e.kept = Whole /\ (past' = past \/ past' = Append(past, e))
    BY <1>2 DEF CommitDelete, Files, Claim
  <2> HIDE DEF e
  <2>4. Kept(past') \subseteq Kept(past) \union {Whole}
    BY <1>1, <2>3, AppendedKept DEF Kept
  <2> QED BY <2>1, <2>2, <2>4, GoneThread
<1>3. CASE RedoDelete
  <2> DEFINE e == Last(future)
  <2>1. /\ Gone /\ worker' = worker /\ walk' = NoWalk /\ past' = Append(past, e)
        /\ strayed' = strayed \union (IF e.kept # Whole THEN {"lost"} ELSE {})
    BY <1>3 DEF RedoDelete
  <2> HIDE DEF e
  <2>2. strayed' = {} => e.kept = Whole
    BY <2>1
  <2>3. Kept(past') \subseteq Kept(past) \union {e.kept}
    BY <1>1, <2>1, AppendedKept
  <2> QED BY <2>1, <2>2, <2>3, GoneThread
<1> QED BY <1>2, <1>3

LEMMA CrashThread ==
    ASSUME AgentInv, TypeOK', ThreadInv, Crash
    PROVE  ThreadInv'
<1>1. /\ status' = [r \in Run |-> IF status[r] = "streaming" THEN "failed" ELSE status[r]]
      /\ worker' = [r \in Run |-> Asleep] /\ queue' = <<>> /\ past' = <<>> /\ walk' = NoWalk
      /\ UNCHANGED <<issued, turns, calls, strayed>>
  BY DEF Crash, ghosts
<1>2. \A r \in Run : worker'[r].at = "idle"
  BY <1>1 DEF Asleep
<1>3. Alike(Whole', Whole, worker')
  <2>1. \A r \in Run : \/ status'[r] = status[r]
                       \/ status[r] = "streaming" /\ status'[r] = "failed"
    BY <1>1
  <2> QED BY <1>1, <1>2, <2>1 DEF Alike, Whole, SameTurn
<1>4. Kept(past') = {}
  <2>1. DOMAIN <<>> = {}
    OBVIOUS
  <2> QED BY <1>1, <2>1 DEF Kept
<1>5. \A k \in Copies' : \E k0 \in Copies : Alike(k, k0, worker')
  BY <1>3, <1>4 DEF Copies
<1>6. Paces(worker', worker)
  BY <1>2 DEF Paces
<1>7. issued <= issued'
  BY <1>1, TypeParts DEF AgentInv
<1> QED BY <1>1, <1>5, <1>6, <1>7, CalmKeeps

----------------------------------------------------------------------------
(* The steps of a worker that say something in the chat or move its run.    *)

Awaiting(st, cs, c) ==
    /\ c[1] = Latest(st) /\ st[c[1]] \in {"waiting", "stopped", "done"}
    /\ st[c[1]] # "done" =>
         /\ c[2] = Newest(cs, c[1])
         /\ \A n \in 1 .. c[3] : <<c[1], c[2], n>> \in DOMAIN cs

AptWorker(w, st, ts, r) ==
    /\ w.at \in Waits => st[r] \in {"none", "waiting", "stopped"}
    /\ w.at \in Streams => st[r] \in {"none", "streaming", "stopped"}
    /\ w.at \in Streams \union {"answered"} => \A i \in Unanswered(ts) : ts[i].call[1] # r

RowsInThread(st, ts, cs, ws) ==
    /\ Threaded(ts) /\ OneLive(st)
    /\ \A i \in Unanswered(ts) : Awaiting(st, cs, ts[i].call)
    /\ \A r \in Run : AptWorker(ws[r], st, ts, r)

LEMMA RowsThread ==
    ASSUME NEW st, NEW ts, NEW cs, NEW ws
    PROVE  InThread([status |-> st, turns |-> ts, calls |-> cs], ws) <=> RowsInThread(st, ts, cs, ws)
<1> DEFINE k == [status |-> st, turns |-> ts, calls |-> cs]
<1>1. k.status = st /\ k.turns = ts /\ k.calls = cs
  OBVIOUS
<1> HIDE DEF k
<1>2. InThread(k, ws) <=> RowsInThread(st, ts, cs, ws)
  BY <1>1 DEF InThread, RowsInThread, AwaitsAnswers, Awaiting, WorkerApt, AptWorker
<1> QED BY <1>2 DEF k

LEMMA WholeThread ==
    /\ InThread(Whole, worker) <=> RowsInThread(status, turns, calls, worker)
    /\ InThread(Whole', worker') <=> RowsInThread(status', turns', calls', worker')
BY RowsThread DEF Whole

LEMMA HereInThread ==
    ASSUME ThreadInv, strayed = {}
    PROVE  RowsInThread(status, turns, calls, worker)
<1>1. InThread(Whole, worker)
  BY DEF ThreadInv, Copies
<1> QED BY <1>1, WholeThread

LEMMA AsksRun ==
    ASSUME NEW ts \in Seq(TurnRow), Threaded(ts), NEW i \in Unanswered(ts)
    PROVE  ts[i].call[1] \in Run /\ ts[i] \in TurnRow
<1>1. i \in DOMAIN ts /\ ts[i].who = "asks" /\ ts[i] \in TurnRow
  BY UnansweredThere
<1>2. ts[i].run = ts[i].call[1]
  BY <1>1 DEF Threaded
<1> QED BY <1>1, <1>2, TurnParts

(* A round of another run goes on awaiting its answers when this one moves. *)
LEMMA AwaitsOn ==
    ASSUME NEW st, NEW st0, NEW cs, NEW c, NEW r, c[1] \in Run, c[1] # r, Awaiting(st0, cs, c),
           \A q \in Run : q # r => st[q] = st0[q], st[r] # "none", st0[r] # "none"
    PROVE  Awaiting(st, cs, c)
<1>1. Latest(st) = Latest(st0)
  BY SameLatest
<1> QED BY <1>1 DEF Awaiting

LEMMA WorkerMoves ==
    ASSUME AgentInv, TypeOK', ThreadInv, NEW r \in Run, status[r] # "none",
           UNCHANGED <<issued, past, walk>>, strayed \subseteq strayed',
           \A q \in Run : q # r => worker'[q] = worker[q] /\ status'[q] = status[q],
           \A i \in DOMAIN turns : i \in DOMAIN turns' /\ turns'[i] = turns[i],
           strayed' = {} =>
              /\ status'[r] # "none" /\ (status'[r] \in Live => status[r] \in Live)
              /\ Threaded(turns')
              /\ \A i \in Unanswered(turns') :
                   /\ Awaiting(status', calls', turns'[i].call)
                   /\ \/ turns'[i].call[1] = r
                      \/ i \in Unanswered(turns) /\ turns'[i] = turns[i]
              /\ AptWorker(worker'[r], status', turns', r)
    PROVE  ThreadInv'
<1>1. TypeOK /\ AllCoherent /\ OneDeletion
  BY DEF AgentInv
<1>2. r <= issued
  <2>1. Coherent(Whole) /\ Whole.status = status
    BY <1>1 DEF AllCoherent, Copies, Whole
  <2> QED BY <2>1 DEF Coherent
<1>3. \A q \in Run : worker'[q].at # "idle" => q <= issued'
  BY <1>2 DEF ThreadInv
<1>4. ASSUME strayed' = {} PROVE RowsInThread(status', turns', calls', worker')
  <2>1. strayed = {} /\ RowsInThread(status, turns, calls, worker)
    BY <1>4, HereInThread
  <2>2. \A q \in Run : status'[q] = "none" <=> status[q] = "none"
    BY <1>4
  <2>3. Latest(status') = Latest(status)
    BY <2>2, SameLatest
  <2>4. OneLive(status')
    BY <1>4, <2>1, <2>3 DEF RowsInThread, OneLive
  <2>5. ASSUME NEW q \in Run, q # r PROVE AptWorker(worker'[q], status', turns', q)
    <3>1. AptWorker(worker[q], status, turns, q)
      BY <2>1 DEF RowsInThread
    <3>2. \A i \in Unanswered(turns') : turns'[i].call[1] = q =>
             i \in Unanswered(turns) /\ turns'[i] = turns[i]
      BY <1>4, <2>5
    <3> QED BY <2>5, <3>1, <3>2 DEF AptWorker
  <2> QED BY <1>4, <2>4, <2>5 DEF RowsInThread
<1>5. ASSUME strayed' = {}, NEW k \in Kept(past) PROVE InThread(k, worker')
  <2>1. InThread(k, worker)
    BY <1>5 DEF ThreadInv, Copies
  <2>2. k.status[r] = "none"
    BY <1>1 DEF OneDeletion
  <2>3. WorkerApt(worker'[r], k, r)
    <3>1. ASSUME NEW i \in Unanswered(k.turns), k.turns[i].call[1] = r PROVE FALSE
      <4>1. k.status[r] \in {"waiting", "stopped", "done"}
        BY <2>1, <3>1 DEF InThread, AwaitsAnswers
      <4> QED BY <2>2, <4>1
    <3> QED BY <2>2, <3>1 DEF WorkerApt
  <2>4. \A q \in Run : q # r => WorkerApt(worker'[q], k, q)
    BY <2>1 DEF InThread
  <2> QED BY <2>1, <2>3, <2>4 DEF InThread
<1>6. strayed' = {} => \A k \in Copies' : InThread(k, worker')
  <2>1. Copies' = {Whole'} \union Kept(past)
    BY DEF Copies, Kept
  <2> QED BY <1>4, <1>5, <2>1, WholeThread
<1>7. ASSUME strayed' = {}, walk' # NoWalk, walk'.kind = "send"
      PROVE  \E i \in DOMAIN turns' : turns'[i].who = "user" /\ turns'[i].seq = walk'.seq
  <2>1. \E i \in DOMAIN turns : turns[i].who = "user" /\ turns[i].seq = walk.seq
    BY <1>7 DEF ThreadInv
  <2> QED BY <2>1
<1> QED BY <1>3, <1>6, <1>7 DEF ThreadInv

(* A worker that comes to nothing. *)
LEMMA IdleThread ==
    ASSUME AgentInv, TypeOK', ThreadInv, NEW r \in Run, worker' = [worker EXCEPT ![r] = Asleep],
           UNCHANGED <<status, turns, calls, issued, past, walk, strayed>>
    PROVE  ThreadInv'
<1>1. worker \in [Run -> Passing]
  BY TypeAll DEF AgentInv
<1>2. Asleep.at = "idle"
  BY DEF Asleep
<1>3. Paces(worker', worker)
  BY <1>1, <1>2 DEF Paces
<1> QED BY <1>3, SameRows, StandsKeeps

LEMMA PassPendingThread ==
    ASSUME AgentInv, TypeOK', ThreadInv, NEW r \in Run, PassPending(r)
    PROVE  ThreadInv'
<1>1. /\ worker[r].at = "idle" /\ status[r] = "pending"
      /\ status' = [status EXCEPT ![r] = "streaming"]
      /\ worker' = [worker EXCEPT ![r] = At("claimed")]
      /\ UNCHANGED <<issued, turns, calls, past, walk, strayed>>
  BY DEF PassPending, hands, ghosts
<1>2. /\ worker \in [Run -> Passing] /\ status \in [Run -> Statuses] /\ turns \in Seq(TurnRow)
  BY TypeAll DEF AgentInv
<1>3. /\ \A q \in Run : q # r => worker'[q] = worker[q] /\ status'[q] = status[q]
      /\ status'[r] = "streaming" /\ worker'[r] = At("claimed")
  BY <1>1, <1>2
<1>4. At("claimed").at = "claimed"
  BY DEF At, Asleep
<1>5. ASSUME strayed' = {}
      PROVE  /\ Threaded(turns')
             /\ \A i \in Unanswered(turns') :
                   Awaiting(status', calls', turns'[i].call) /\ turns'[i].call[1] # r
  <2>1. RowsInThread(status, turns, calls, worker)
    BY <1>1, <1>5, HereInThread
  <2>2. Threaded(turns)
    BY <2>1 DEF RowsInThread
  <2>3. ASSUME NEW i \in Unanswered(turns)
        PROVE  Awaiting(status', calls, turns[i].call) /\ turns[i].call[1] # r
    <3>1. Awaiting(status, calls, turns[i].call) /\ turns[i].call[1] \in Run
      BY <1>2, <2>1, <2>2, AsksRun DEF RowsInThread
    <3>2. turns[i].call[1] # r
      BY <1>1, <3>1 DEF Awaiting
    <3>3. status'[r] # "none" /\ status[r] # "none"
      BY <1>1, <1>3
    <3> QED BY <1>3, <3>1, <3>2, <3>3, AwaitsOn
  <2> QED BY <1>1, <2>2, <2>3
<1>6. status'[r] # "none" /\ status[r] # "none" /\ status[r] \in Live
  BY <1>1, <1>3 DEF Live
<1>7. strayed' = {} => AptWorker(worker'[r], status', turns', r)
  BY <1>3, <1>4, <1>5 DEF AptWorker, Waits
<1>8. \A i \in DOMAIN turns : i \in DOMAIN turns' /\ turns'[i] = turns[i]
  BY <1>1
<1>9. \A i \in Unanswered(turns') : i \in Unanswered(turns) /\ turns'[i] = turns[i]
  BY <1>1
<1> QED BY <1>1, <1>3, <1>5, <1>6, <1>7, <1>8, <1>9, WorkerMoves

(* A look at a round that waits. *)
LEMMA LookThread ==
    ASSUME AgentInv, TypeOK', ThreadInv, NEW r \in Run, Look(r),
           status[r] = "waiting" \/ worker[r].at = "next",
           UNCHANGED <<past, walk, strayed>>
    PROVE  ThreadInv'
<1> DEFINE round == RoundOf(calls, r)
           open == {i \in DOMAIN round : calls[round[i]].st \in Open}
           first == round[Min(open)]
           mine == open # {} /\ calls[first] = [kind |-> "read", st |-> "pending"]
           ended == round # <<>> /\ open = {}
<1>1. /\ worker' = [worker EXCEPT ![r] =
                        IF Stopped(r) \/ ~(mine \/ ended) THEN Asleep
                        ELSE IF mine THEN Holding("reading", first)
                        ELSE At("answered")]
      /\ turns' = IF ended /\ ~Stopped(r) THEN Told(turns, calls, round) ELSE turns
      /\ UNCHANGED <<status, issued, calls>>
  BY DEF Look
<1>2. ended => ~mine
  OBVIOUS
<1> HIDE DEF open, first, mine, ended
<1>3. CASE Stopped(r) \/ ~(mine \/ ended)
  <2>1. worker' = [worker EXCEPT ![r] = Asleep] /\ turns' = turns
    BY <1>1, <1>3
  <2> QED BY <1>1, <2>1, IdleThread
<1>4. CASE ~Stopped(r) /\ (mine \/ ended)
  <2>1. /\ worker \in [Run -> Passing] /\ turns \in Seq(TurnRow) /\ calls \in Table
        /\ round \in Seq(CallId)
    BY TypeAll, RoundIsThere DEF AgentInv
  <2>2. /\ Holding("reading", first).at = "reading" /\ At("answered").at = "answered"
    BY DEF Holding, At, Asleep
  <2>3. /\ \A q \in Run : q # r => worker'[q] = worker[q] /\ status'[q] = status[q]
        /\ worker'[r].at \in {"reading", "answered"}
        /\ worker'[r].at = "answered" => ended
        /\ turns' = turns \/ turns' = Told(turns, calls, round)
        /\ ended => turns' = Told(turns, calls, round)
    BY <1>1, <1>2, <1>4, <2>1, <2>2
  <2> HIDE DEF round
  <2>4. \A i \in DOMAIN turns : i \in DOMAIN turns' /\ turns'[i] = turns[i]
    BY <2>1, <2>3, ToldIs
  <2>5. ASSUME strayed' = {}
        PROVE  /\ status[r] = "waiting" /\ Threaded(turns')
               /\ \A i \in Unanswered(turns') : /\ Awaiting(status', calls', turns'[i].call)
                                                 /\ i \in Unanswered(turns) /\ turns'[i] = turns[i]
               /\ ended => \A i \in Unanswered(turns') : turns'[i].call[1] # r
    <3>1. RowsInThread(status, turns, calls, worker)
      BY <2>5, HereInThread
    <3>2. Threaded(turns) /\ AptWorker(worker[r], status, turns, r)
      BY <3>1 DEF RowsInThread
    <3>3. status[r] = "waiting"
      BY <1>4, <3>2 DEF AptWorker, Waits, Stopped
    <3>4. Threaded(turns') /\ \A i \in Unanswered(turns') : i \in Unanswered(turns) /\ turns'[i] = turns[i]
      BY <2>1, <2>3, <3>2, ToldThreads
    <3>5. \A i \in Unanswered(turns) : Awaiting(status, calls, turns[i].call)
      BY <3>1 DEF RowsInThread
    <3>6. ASSUME ended, NEW i \in Unanswered(turns'), turns'[i].call[1] = r PROVE FALSE
      <4>1. i \in Unanswered(turns) /\ turns[i].call[1] = r
        BY <3>4, <3>6
      <4>2. /\ turns[i].call[2] = Newest(calls, r)
            /\ \A n \in 1 .. turns[i].call[3] : <<turns[i].call[1], turns[i].call[2], n>> \in DOMAIN calls
        BY <3>3, <3>5, <4>1 DEF Awaiting
      <4>3. i \notin Unanswered(Told(turns, calls, RoundOf(calls, r)))
        BY <2>1, <3>2, <4>1, <4>2, LookAnswers
      <4> QED BY <2>3, <3>6, <4>3 DEF round
    <3> QED BY <1>1, <3>3, <3>4, <3>5, <3>6
  <2>6. strayed' = {} => AptWorker(worker'[r], status', turns', r)
    BY <1>1, <2>3, <2>5 DEF AptWorker, Streams
  <2>7. status[r] # "none" /\ status'[r] = status[r]
    BY <1>1, <1>4 DEF Stopped
  <2>8. strayed \subseteq strayed'
    OBVIOUS
  <2> QED BY <1>1, <2>3, <2>4, <2>5, <2>6, <2>7, <2>8, WorkerMoves
<1> QED BY <1>3, <1>4

(* The request after the answers. *)
LEMMA AskThread ==
    ASSUME AgentInv, TypeOK', ThreadInv, NEW r \in Run, Ask(r)
    PROVE  ThreadInv'
<1>1. /\ worker[r].at = "answered"
      /\ UNCHANGED <<issued, turns, calls, past, walk, strayed>>
  BY DEF Ask, hands, ghosts
<1>2. CASE Stopped(r)
  <2>1. worker' = [worker EXCEPT ![r] = Asleep] /\ status' = status
    BY <1>2 DEF Ask
  <2> QED BY <1>1, <2>1, IdleThread
<1>3. CASE ~Stopped(r)
  <2>1. /\ worker' = [worker EXCEPT ![r] = At("claimed")]
        /\ status' = [status EXCEPT ![r] = "streaming"]
    BY <1>3 DEF Ask
  <2>2. worker \in [Run -> Passing] /\ status \in [Run -> Statuses] /\ turns \in Seq(TurnRow)
    BY TypeAll DEF AgentInv
  <2>3. At("claimed").at = "claimed"
    BY DEF At, Asleep
  <2>4. /\ \A q \in Run : q # r => worker'[q] = worker[q] /\ status'[q] = status[q]
        /\ status'[r] = "streaming" /\ worker'[r].at = "claimed"
    BY <2>1, <2>2, <2>3
  <2>5. status[r] # "none" /\ status'[r] # "none"
    BY <1>3, <2>4 DEF Stopped
  <2>6. ASSUME strayed' = {}
        PROVE  /\ status[r] \in Live /\ Threaded(turns')
               /\ \A i \in Unanswered(turns') :
                     Awaiting(status', calls', turns'[i].call) /\ turns'[i].call[1] # r
    <3>1. RowsInThread(status, turns, calls, worker)
      BY <1>1, <2>6, HereInThread
    <3>2. Threaded(turns) /\ AptWorker(worker[r], status, turns, r)
      BY <3>1 DEF RowsInThread
    <3>3. status[r] = "waiting"
      BY <1>1, <1>3, <3>2 DEF AptWorker, Waits, Stopped
    <3>4. ASSUME NEW i \in Unanswered(turns)
          PROVE  Awaiting(status', calls, turns[i].call) /\ turns[i].call[1] # r
      <4>1. Awaiting(status, calls, turns[i].call) /\ turns[i].call[1] \in Run
        BY <2>2, <3>1, <3>2, AsksRun DEF RowsInThread
      <4>2. turns[i].call[1] # r
        BY <1>1, <3>2 DEF AptWorker
      <4> QED BY <2>4, <2>5, <4>1, <4>2, AwaitsOn
    <3> QED BY <1>1, <3>2, <3>3, <3>4 DEF Live
  <2>7. strayed' = {} => AptWorker(worker'[r], status', turns', r)
    BY <2>4, <2>6 DEF AptWorker, Waits
  <2>8. \A i \in DOMAIN turns : i \in DOMAIN turns' /\ turns'[i] = turns[i]
    BY <1>1
  <2>9. \A i \in Unanswered(turns') : i \in Unanswered(turns) /\ turns'[i] = turns[i]
    BY <1>1
  <2> QED BY <1>1, <2>4, <2>5, <2>6, <2>7, <2>8, <2>9, WorkerMoves
<1> QED BY <1>2, <1>3

TurnOn(us, ts, c) ==
    /\ DOMAIN us = 1 .. Len(ts) + 1
    /\ \A i \in DOMAIN ts : i \in DOMAIN us /\ us[i] = ts[i]
    /\ us[Len(ts) + 1].call = c

LEMMA TurnIsOn ==
    ASSUME NEW ts \in Seq(TurnRow), NEW who \in {"user", "asks", "tool", "says"},
           NEW r \in Run, NEW c \in CallId \union {NoCall}, NEW said \in Said
    PROVE  TurnOn(Turn(ts, who, r, c, said), ts, c)
BY TurnIs DEF TurnOn

(* The newest round is one that is there. *)
LEMMA NewestIs ==
    ASSUME NEW cs \in Table, NEW r, NEW k \in Nat, \A c \in CallsOf(cs, r) : c[2] <= k,
           \E c \in CallsOf(cs, r) : c[2] = k
    PROVE  Newest(cs, r) = k
<1> DEFINE S == {c[2] : c \in CallsOf(cs, r)}
<1>1. \A c \in CallsOf(cs, r) : c \in CallId
  BY TableIs DEF CallsOf
<1>2. S \subseteq Nat /\ S # {} /\ k \in S /\ \A n \in S : n <= k
  BY <1>1, CallParts
<1>3. Newest(cs, r) = Max(S)
  BY <1>2 DEF Newest
<1> HIDE DEF S
<1>4. Max(S) \in S /\ \A n \in S : n <= Max(S)
  BY <1>2, GreatestNat
<1>5. Max(S) \in Nat /\ Max(S) <= k /\ k <= Max(S)
  BY <1>2, <1>4
<1> QED BY <1>3, <1>5

(* An answer that asks for calls lands on a chat whose rounds are answered. *)
LEMMA LandCallsThread ==
    ASSUME AgentInv, TypeOK', ThreadInv, NEW r \in Run, LandCalls(r)
    PROVE  ThreadInv'
<1> DEFINE tools == worker[r].tools
           k == Newest(calls, r) + 1
           fresh == {<<r, k, i>> : i \in DOMAIN tools}
           asks == <<r, k, Len(tools)>>
<1>1. /\ worker[r].at = "calls" /\ k <= MaxRounds
      /\ worker' = [worker EXCEPT ![r] = Asleep]
      /\ UNCHANGED <<issued, past, walk>>
  BY DEF LandCalls, hands
<1>2. CASE status[r] = "none"
  <2>1. UNCHANGED <<turns, calls, status, strayed>>
    BY <1>2 DEF LandCalls
  <2> QED BY <1>1, <2>1, IdleThread
<1>3. CASE status[r] # "none"
  <2>1. /\ turns' = Turn(turns, "asks", r, asks, "")
        /\ calls' = [c \in DOMAIN calls \union fresh |->
                       IF c \in fresh THEN [kind |-> tools[c[3]], st |-> "pending"] ELSE calls[c]]
        /\ status' = [status EXCEPT ![r] = "waiting"]
        /\ strayed' = strayed \union (IF status[r] = "stopped" THEN {"reopened"} ELSE {})
    BY <1>3 DEF LandCalls
  <2>2. /\ worker \in [Run -> Passing] /\ status \in [Run -> Statuses] /\ turns \in Seq(TurnRow)
        /\ calls \in Table /\ turns' \in Seq(TurnRow) /\ calls' \in Table
    <3>1. turns' \in Seq(TurnRow) /\ calls' \in Table
      BY DEF TypeOK, Whole, Copy, TurnRow, Table, CallRow, CallId
    <3> QED BY <3>1, TypeAll DEF AgentInv
  <2>3. /\ tools \in Rounds /\ Len(tools) \in 1 .. MaxPlace /\ DOMAIN tools = 1 .. Len(tools)
    <3>1. tools \in Rounds
      BY <1>1, <2>2, PassTyped
    <3> QED BY <3>1, PlaceBound
  <2>4. /\ k \in Nat /\ k \in 1 .. MaxRounds /\ \A c \in CallsOf(calls, r) : c[2] < k
    <3>1. /\ Newest(calls, r) \in Nat /\ \A c \in CallsOf(calls, r) : c[2] <= Newest(calls, r)
      BY <2>2, NewestRound
    <3>2. \A c \in CallsOf(calls, r) : c[2] \in Nat
      BY <2>2, TableIs, CallParts DEF CallsOf
    <3> QED BY <1>1, <3>1, <3>2, CallParts
  <2> HIDE DEF k, tools
  <2>5. asks \in CallId /\ asks[1] = r /\ asks[2] = k /\ asks[3] = Len(tools)
    BY <2>3, <2>4, CallParts
  <2>6. /\ DOMAIN calls' = DOMAIN calls \union fresh /\ <<r, k, 1>> \in fresh
        /\ \A n \in 1 .. Len(tools) : <<r, k, n>> \in DOMAIN calls'
        /\ \A c \in fresh : c[1] = r /\ c[2] = k
    <3>1. \A n \in 1 .. Len(tools) : <<r, k, n>> \in fresh
      BY <2>3
    <3>2. \A c \in fresh : c[1] = r /\ c[2] = k
      OBVIOUS
    <3>3. 1 \in 1 .. Len(tools)
      BY <2>3, CallParts
    <3> HIDE DEF fresh
    <3>4. DOMAIN calls' = DOMAIN calls \union fresh
      BY <2>1
    <3> QED BY <3>1, <3>2, <3>3, <3>4
  <2>7. Newest(calls', r) = k
    <3>1. \A c \in CallsOf(calls', r) : c \in CallsOf(calls, r) \/ c \in fresh
      BY <2>6 DEF CallsOf
    <3>2. \A c \in CallsOf(calls', r) : c \in CallId /\ c[2] \in Nat
      BY <2>2, TableIs, CallParts DEF CallsOf
    <3>3. \A c \in CallsOf(calls', r) : c[2] <= k
      BY <2>4, <2>6, <3>1, <3>2
    <3>4. <<r, k, 1>> \in CallsOf(calls', r) /\ <<r, k, 1>>[2] = k
      BY <2>6 DEF CallsOf
    <3> QED BY <2>2, <2>4, <3>3, <3>4, NewestIs
  <2> HIDE DEF fresh, asks
  <2>8. Asleep.at = "idle"
    BY DEF Asleep
  <2>9. /\ \A q \in Run : q # r => worker'[q] = worker[q] /\ status'[q] = status[q]
        /\ status'[r] = "waiting" /\ worker'[r].at = "idle"
    BY <1>1, <2>1, <2>2, <2>8
  <2>10. /\ DOMAIN turns' = 1 .. Len(turns) + 1
         /\ \A i \in DOMAIN turns : i \in DOMAIN turns' /\ turns'[i] = turns[i]
         /\ turns'[Len(turns) + 1].call = asks
    <3>1. /\ "asks" \in {"user", "asks", "tool", "says"} /\ "" \in Said
          /\ asks \in CallId \union {NoCall}
      BY <2>5 DEF Said
    <3>2. TurnOn(Turn(turns, "asks", r, asks, ""), turns, asks)
      BY <2>2, <3>1, TurnIsOn
    <3> QED BY <2>1, <3>2 DEF TurnOn
  <2>11. ASSUME strayed' = {}
         PROVE  /\ status[r] \in Live /\ Threaded(turns')
                /\ \A i \in Unanswered(turns') : turns'[i].call = asks
                /\ Awaiting(status', calls', asks)
    <3>1. strayed = {} /\ status[r] # "stopped"
      BY <2>1, <2>11
    <3>2. RowsInThread(status, turns, calls, worker)
      BY <3>1, HereInThread
    <3>3. Threaded(turns) /\ OneLive(status) /\ AptWorker(worker[r], status, turns, r)
      BY <3>2 DEF RowsInThread
    <3>4. status[r] = "streaming" /\ status[r] \in Live
      BY <1>1, <1>3, <3>1, <3>3 DEF AptWorker, Streams, Live
    <3>5. r = Latest(status)
      BY <3>3, <3>4 DEF OneLive
    <3>6. Unanswered(turns) = {}
      <4>1. ASSUME NEW i \in Unanswered(turns) PROVE FALSE
        <5>1. turns[i].call[1] = r
          BY <3>2, <3>5 DEF RowsInThread, Awaiting
        <5>2. turns[i].call[1] # r
          BY <1>1, <3>3 DEF AptWorker, Streams
        <5> QED BY <5>1, <5>2
      <4> QED BY <4>1
    <3>7. Threaded(turns') /\ Unanswered(turns') \subseteq {Len(turns) + 1}
      <4>1. "asks" \in {"user", "asks", "says"} /\ "" \in Said
        BY DEF Said
      <4> QED BY <2>1, <2>2, <2>5, <3>3, <3>6, <4>1, TurnThreads
    <3>8. Latest(status') = r
      <4>1. \A q \in Run : status'[q] = "none" <=> status[q] = "none"
        BY <1>3, <2>9
      <4> QED BY <3>5, <4>1, SameLatest
    <3>9. Awaiting(status', calls', asks)
      BY <2>5, <2>6, <2>7, <2>9, <3>8 DEF Awaiting
    <3> QED BY <2>10, <3>4, <3>7, <3>9
  <2>12. strayed' = {} => AptWorker(worker'[r], status', turns', r)
    BY <2>9 DEF AptWorker, Waits, Streams
  <2>13. strayed' = {} => \A i \in Unanswered(turns') :
            Awaiting(status', calls', turns'[i].call) /\ turns'[i].call[1] = r
    BY <2>5, <2>11
  <2>14. strayed \subseteq strayed' /\ status'[r] # "none"
    BY <2>1, <2>9
  <2> QED BY <1>1, <1>3, <2>9, <2>10, <2>11, <2>12, <2>13, <2>14, WorkerMoves
<1> QED BY <1>2, <1>3

(* The run's last word: it is the newest run's, or says nothing; with calls the
   run is over, and they have no rows. *)
LEMMA LandThread ==
    ASSUME AgentInv, TypeOK', ThreadInv, NEW r \in Run, Land(r)
    PROVE  ThreadInv'
<1> DEFINE at == worker[r].at
           tools == worker[r].tools
           k == Newest(calls, r) + 1
           asks == <<r, k, Len(tools)>>
           ending == CASE at = "says" -> "done" [] at = "cut" -> "stopped" [] OTHER -> "failed"
<1>1. /\ at \in {"says", "cut", "error"} /\ (tools # <<>> => k <= MaxRounds)
      /\ worker' = [worker EXCEPT ![r] = Asleep]
      /\ status' = IF status[r] = "none" THEN status ELSE [status EXCEPT ![r] = ending]
      /\ turns' = IF status[r] = "none" \/ at = "error" THEN turns
                  ELSE IF tools # <<>> THEN Turn(turns, "asks", r, asks, "")
                  ELSE Turn(turns, "says", r, NoCall, at)
      /\ strayed' = strayed \union
              (IF turns' # turns /\ r # Latest(status) THEN {"behind"} ELSE {})
      /\ UNCHANGED <<issued, calls, past, walk>>
  BY DEF Land, hands
<1>2. /\ ending \in {"done", "stopped", "failed"} /\ at \in Streams /\ (at # "error" => at \in Said)
      /\ "" \in Said
  BY <1>1 DEF Streams, Said
<1>3. worker \in [Run -> Passing] /\ status \in [Run -> Statuses] /\ turns \in Seq(TurnRow)
      /\ calls \in Table
  BY TypeAll DEF AgentInv
<1>4. tools # <<>> => /\ asks \in CallId /\ asks[1] = r /\ ending = "done"
  <2> SUFFICES ASSUME tools # <<>> PROVE asks \in CallId /\ asks[1] = r /\ ending = "done"
    OBVIOUS
  <2>1. tools \in Rounds /\ at = "says"
    <3>1. worker[r] \in Passing
      BY <1>3
    <3>2. tools \in Rounds /\ at \in {"calls", "says"}
      BY <3>1, PassTyped
    <3> QED BY <1>1, <3>2
  <2>2. Len(tools) \in 1 .. MaxPlace
    BY <2>1, PlaceBound
  <2>3. k \in Nat /\ k >= 1 /\ k <= MaxRounds /\ MaxRounds \in Nat
    <3>1. Newest(calls, r) \in Nat /\ k <= MaxRounds
      BY <1>1, <1>3, NewestRound
    <3> QED BY <3>1, CallParts
  <2> HIDE DEF k
  <2>4. k \in 1 .. MaxRounds
    BY <2>3
  <2>5. asks \in CallId
    BY <2>2, <2>4, CallParts
  <2> QED BY <2>1, <2>5
<1> HIDE DEF at, ending, asks, tools
<1>5. CASE status[r] = "none"
  <2>1. status' = status /\ turns' = turns /\ strayed' = strayed
    BY <1>1, <1>5
  <2> QED BY <1>1, <2>1, IdleThread
<1>6. CASE status[r] # "none"
  <2>1. Asleep.at = "idle"
    BY DEF Asleep
  <2>2. /\ \A q \in Run : q # r => worker'[q] = worker[q] /\ status'[q] = status[q]
        /\ status'[r] = ending /\ worker'[r].at = "idle" /\ status'[r] # "none"
    BY <1>1, <1>2, <1>3, <1>6, <2>1
  <2> DEFINE who == IF tools # <<>> THEN "asks" ELSE "says"
             call == IF tools # <<>> THEN asks ELSE NoCall
             said == IF tools # <<>> THEN "" ELSE at
  <2>3. at # "error" => turns' = Turn(turns, who, r, call, said) /\ said \in Said
    BY <1>1, <1>2, <1>6
  <2>4. /\ who \in {"user", "asks", "says"} /\ call \in CallId \union {NoCall}
        /\ who = "asks" => call \in CallId /\ call[1] = r /\ ending = "done"
    BY <1>4
  <2> HIDE DEF who, call, said
  <2>5. at # "error" => /\ DOMAIN turns' = 1 .. Len(turns) + 1
                        /\ \A i \in DOMAIN turns : i \in DOMAIN turns' /\ turns'[i] = turns[i]
                        /\ turns'[Len(turns) + 1].call = call
    <3>1. at # "error" => TurnOn(Turn(turns, who, r, call, said), turns, call)
      BY <1>3, <2>3, <2>4, TurnIsOn
    <3> QED BY <2>3, <3>1 DEF TurnOn
  <2>6. at # "error" => turns' # turns
    <3>1. Len(turns) \in Nat /\ DOMAIN turns = 1 .. Len(turns) /\ Len(turns) + 1 \in 1 .. Len(turns) + 1
      BY <1>3
    <3>2. Len(turns) + 1 \notin 1 .. Len(turns)
      BY <3>1
    <3> QED BY <2>5, <3>1, <3>2
  <2>7. ASSUME strayed' = {}
        PROVE  /\ Threaded(turns')
               /\ \A i \in Unanswered(turns') :
                     /\ Awaiting(status', calls', turns'[i].call)
                     /\ \/ turns'[i].call[1] = r
                        \/ i \in Unanswered(turns) /\ turns'[i] = turns[i]
    <3>1. strayed = {} /\ (at # "error" => r = Latest(status))
      BY <1>1, <2>6, <2>7
    <3>2. RowsInThread(status, turns, calls, worker)
      BY <3>1, HereInThread
    <3>3. Threaded(turns) /\ AptWorker(worker[r], status, turns, r)
      BY <3>2 DEF RowsInThread
    <3>4. \A i \in Unanswered(turns) : turns[i].call[1] # r
      BY <1>2, <3>3 DEF AptWorker, at
    <3>5. CASE at = "error"
      <4>1. turns' = turns
        BY <1>1, <3>5
      <4>2. ASSUME NEW i \in Unanswered(turns) PROVE Awaiting(status', calls, turns[i].call)
        <5>1. Awaiting(status, calls, turns[i].call) /\ turns[i].call[1] \in Run
          BY <1>3, <3>2, <3>3, AsksRun DEF RowsInThread
        <5> QED BY <1>6, <2>2, <3>4, <5>1, AwaitsOn
      <4> QED BY <1>1, <3>3, <4>1, <4>2
    <3>6. CASE at # "error"
      <4>1. Unanswered(turns) = {}
        <5>1. \A i \in Unanswered(turns) : turns[i].call[1] = r
          BY <3>1, <3>2, <3>6 DEF RowsInThread, Awaiting
        <5> QED BY <3>4, <5>1
      <4>2. /\ Threaded(turns') /\ Unanswered(turns') \subseteq {Len(turns) + 1}
            /\ who # "asks" => Unanswered(turns') = {}
        BY <1>3, <2>3, <2>4, <3>3, <3>6, <4>1, TurnThreads
      <4>3. Latest(status') = r
        <5>1. \A q \in Run : status'[q] = "none" <=> status[q] = "none"
          BY <1>6, <2>2
        <5> QED BY <3>1, <3>6, <5>1, SameLatest
      <4>4. ASSUME NEW i \in Unanswered(turns')
            PROVE  Awaiting(status', calls', turns'[i].call) /\ turns'[i].call[1] = r
        <5>1. who = "asks" /\ turns'[i].call = call
          BY <2>5, <3>6, <4>2, <4>4
        <5>2. call[1] = r /\ status'[r] = "done"
          BY <2>2, <2>4, <5>1
        <5> QED BY <4>3, <5>1, <5>2 DEF Awaiting
      <4> QED BY <4>2, <4>4
    <3> QED BY <3>5, <3>6
  <2>8. strayed' = {} => AptWorker(worker'[r], status', turns', r)
    BY <2>2 DEF AptWorker, Waits, Streams
  <2>9. \A i \in DOMAIN turns : i \in DOMAIN turns' /\ turns'[i] = turns[i]
    <3>1. at = "error" => turns' = turns
      BY <1>1
    <3> QED BY <2>5, <3>1
  <2>10. strayed \subseteq strayed' /\ (status'[r] \in Live => status[r] \in Live)
    BY <1>1, <1>2, <2>2 DEF Live
  <2> QED BY <1>1, <1>6, <2>2, <2>7, <2>8, <2>9, <2>10, WorkerMoves
<1> QED BY <1>5, <1>6

----------------------------------------------------------------------------
(* A run is begun on answered rounds, with none of the chat's runs live.    *)

LEMMA BeganThread ==
    ASSUME AgentInv, TypeOK', ThreadInv, NEW r \in Run, r = issued + 1, issued' = r,
           status' = [status EXCEPT ![r] = "pending"], worker' = worker, walk' = NoWalk,
           strayed \subseteq strayed', Kept(past') \subseteq Kept(past),
           strayed' = {} => /\ Threaded(turns') /\ Unanswered(turns') = {}
                            /\ \A q \in Run : status[q] \notin Live
    PROVE  ThreadInv'
<1>1. status \in [Run -> Statuses] /\ status' \in [Run -> Statuses] /\ issued \in Nat
  <2>1. status' \in [Run -> Statuses]
    BY DEF TypeOK, Whole, Copy
  <2> QED BY <2>1, TypeAll, TypeParts DEF AgentInv
<1>2. \A q \in Run : q \in Nat /\ (status[q] # "none" => q <= issued) /\ (worker[q].at # "idle" => q <= issued)
  <2>1. Coherent(Whole) /\ Whole.status = status
    BY DEF AgentInv, AllCoherent, Copies, Whole
  <2> QED BY <2>1, CallParts DEF Coherent, ThreadInv
<1>3. status'[r] = "pending" /\ \A q \in Run : q # r => status'[q] = status[q]
  BY <1>1
<1>4. worker[r].at = "idle"
  BY <1>1, <1>2
<1>5. Latest(status') = r
  <2>1. \A q \in Run : status'[q] # "none" => q <= r
    BY <1>1, <1>2, <1>3
  <2> DEFINE st == status'
             m == Latest(st)
  <2>2. st \in [Run -> Statuses] /\ st[r] = "pending" /\ st[r] # "none" /\ r # 0 /\ r \in Nat
    BY <1>1, <1>3
  <2> HIDE DEF st
  <2>3. m \in Nat /\ r <= m
    BY <2>2, LatestRun
  <2>4. m # 0
    BY <2>2, <2>3
  <2>5. m \in Run /\ st[m] # "none"
    BY <2>2, <2>4, LatestRun
  <2>6. m <= r
    BY <2>1, <2>5 DEF st
  <2>7. m = r
    BY <2>2, <2>3, <2>6
  <2> QED BY <2>7 DEF st
<1>6. ASSUME strayed' = {} PROVE InThread(Whole', worker')
  <2>1. RowsInThread(status, turns, calls, worker)
    BY <1>6, HereInThread
  <2>2. OneLive(status')
    BY <1>3, <1>5, <1>6 DEF OneLive
  <2>3. ASSUME NEW q \in Run PROVE AptWorker(worker'[q], status', turns', q)
    <3>1. CASE q = r
      BY <1>4, <3>1 DEF AptWorker, Waits, Streams
    <3>2. CASE q # r
      <4>1. AptWorker(worker[q], status, turns, q)
        BY <2>1 DEF RowsInThread
      <4> QED BY <1>3, <1>6, <3>2, <4>1 DEF AptWorker
    <3> QED BY <3>1, <3>2
  <2>4. RowsInThread(status', turns', calls', worker')
    BY <1>6, <2>2, <2>3 DEF RowsInThread
  <2> QED BY <2>4, WholeThread
<1>7. strayed' = {} => \A k \in Copies' : InThread(k, worker')
  BY <1>6 DEF Copies, ThreadInv
<1>8. \A q \in Run : worker'[q].at # "idle" => q <= issued'
  BY <1>1, <1>2
<1> QED BY <1>7, <1>8 DEF ThreadInv

LEMMA ClaimKept ==
    ASSUME NEW claims \in Seq(Undoable), NEW e, e.kind # "delete"
    PROVE  Kept(Append(claims, e)) \subseteq Kept(claims)
<1>1. \A i \in DOMAIN Append(claims, e) :
        (i \in DOMAIN claims /\ Append(claims, e)[i] = claims[i]) \/ Append(claims, e)[i] = e
  OBVIOUS
<1> QED BY <1>1 DEF Kept

(* A write that finds no cause to change anything. *)
LEMMA TakenThread ==
    ASSUME AgentInv, TypeOK', ThreadInv,
           UNCHANGED <<status, issued, turns, calls, worker, past, walk, strayed>>
    PROVE  ThreadInv'
<1>1. Paces(worker', worker)
  BY SamePaces
<1> QED BY <1>1, SameRows, StandsKeeps

LEMMA CommitSendThread ==
    ASSUME AgentInv, TypeOK', ThreadInv, CommitSend
    PROVE  ThreadInv'
<1> DEFINE r == issued + 1
           before == Settled(turns, calls)
           ts == Turn(before, "user", r, NoCall, "")
           e == Claim("send", r, Last(ts).seq, NoRows)
           beside == \E q \in Run : status[q] \in Live
<1>1. Next1("send") /\ UNCHANGED <<worker, walk>>
  BY DEF CommitSend
<1>2. CASE ~(issued < MaxRuns)
  <2>1. UNCHANGED <<status, issued, turns, calls, past, strayed>>
    BY <1>2 DEF CommitSend
  <2> QED BY <1>1, <2>1, TakenThread
<1>3. CASE issued < MaxRuns
  <2>1. /\ issued' = r /\ status' = [status EXCEPT ![r] = "pending"]
        /\ turns' = ts /\ past' = Append(past, e)
        /\ strayed' = strayed \union (IF beside THEN {"crowded"} ELSE {})
    BY <1>3 DEF CommitSend, Files
  <2>2. turns \in Seq(TurnRow) /\ calls \in Table /\ past \in Seq(Undoable)
    BY TypeAll DEF AgentInv
  <2>3. r \in Run /\ walk = NoWalk
    BY <1>1, <1>3, NextRun, HeadIs
  <2>4. e.kind # "delete"
    BY DEF Claim
  <2> HIDE DEF ts, e, beside
  <2>5. Kept(past') \subseteq Kept(past)
    BY <2>1, <2>2, <2>4, ClaimKept
  <2>6. ASSUME strayed' = {}
        PROVE  /\ Threaded(turns') /\ Unanswered(turns') = {}
               /\ \A q \in Run : status[q] \notin Live
    <3>1. strayed = {} /\ \A q \in Run : status[q] \notin Live
      BY <2>1, <2>6 DEF beside
    <3>2. Threaded(turns)
      BY <3>1, HereInThread DEF RowsInThread
    <3>3. before \in Seq(TurnRow) /\ Threaded(before) /\ Unanswered(before) = {}
      BY <2>2, <3>2, SettledTyped, SettledThreads
    <3> HIDE DEF before, r
    <3>4. /\ "user" \in {"user", "asks", "says"} /\ "user" # "asks" /\ NoCall \in CallId \union {NoCall}
          /\ "" \in Said
      BY DEF Said
    <3>5. Threaded(Turn(before, "user", r, NoCall, "")) /\ Unanswered(Turn(before, "user", r, NoCall, "")) = {}
      BY <2>3, <3>3, <3>4, TurnThreads
    <3> QED BY <2>1, <3>1, <3>5 DEF ts
  <2>7. strayed \subseteq strayed' /\ walk' = NoWalk /\ worker' = worker /\ r = issued + 1
    BY <1>1, <2>1, <2>3
  <2> HIDE DEF r
  <2> QED BY <2>1, <2>3, <2>5, <2>6, <2>7, BeganThread
<1> QED BY <1>2, <1>3

LEMMA CommitRetryThread ==
    ASSUME AgentInv, TypeOK', ThreadInv, CommitRetry
    PROVE  ThreadInv'
<1> DEFINE r == issued + 1
           e == Claim("retry", r, 0, NoRows)
           last == Latest(status)
           begins == last # 0 /\ status[last] \in {"failed", "stopped"} /\ issued < MaxRuns
<1>1. Next1("retry") /\ UNCHANGED <<worker, walk, strayed>>
  BY DEF CommitRetry, ghosts
<1>2. CASE ~begins
  <2>1. UNCHANGED <<status, issued, turns, calls, past>>
    BY <1>2 DEF CommitRetry
  <2> QED BY <1>1, <2>1, TakenThread
<1>3. CASE begins
  <2>1. /\ issued' = r /\ status' = [status EXCEPT ![r] = "pending"]
        /\ turns' = Settled(turns, calls) /\ past' = Append(past, e)
    BY <1>3 DEF CommitRetry, Files
  <2>2. turns \in Seq(TurnRow) /\ calls \in Table /\ past \in Seq(Undoable)
    BY TypeAll DEF AgentInv
  <2>3. r \in Run /\ walk = NoWalk
    BY <1>1, <1>3, NextRun, HeadIs
  <2>4. e.kind # "delete"
    BY DEF Claim
  <2> HIDE DEF e
  <2>5. Kept(past') \subseteq Kept(past)
    BY <2>1, <2>2, <2>4, ClaimKept
  <2>6. ASSUME strayed' = {}
        PROVE  /\ Threaded(turns') /\ Unanswered(turns') = {}
               /\ \A q \in Run : status[q] \notin Live
    <3>1. RowsInThread(status, turns, calls, worker)
      BY <1>1, <2>6, HereInThread
    <3>2. Threaded(turns') /\ Unanswered(turns') = {}
      BY <2>1, <2>2, <3>1, SettledThreads DEF RowsInThread
    <3>3. \A q \in Run : status[q] \notin Live
      BY <1>3, <3>1 DEF RowsInThread, OneLive, Live
    <3> QED BY <3>2, <3>3
  <2>7. strayed \subseteq strayed' /\ walk' = NoWalk /\ worker' = worker /\ r = issued + 1
    BY <1>1, <2>3
  <2> HIDE DEF r
  <2> QED BY <2>1, <2>3, <2>5, <2>6, <2>7, BeganThread
<1> QED BY <1>2, <1>3

LEMMA RedoThread ==
    ASSUME AgentInv, TypeOK', ThreadInv, Redo
    PROVE  ThreadInv'
<1> DEFINE e == Last(future)
           r == issued + 1
           again == [e EXCEPT !.run = r]
           crowd == Unanswered(turns) # {} \/ \E q \in Run : status[q] \in Live
<1>1. /\ Quiet /\ future # <<>> /\ e.kind # "delete" /\ issued < MaxRuns
      /\ issued' = r /\ status' = [status EXCEPT ![r] = "pending"]
      /\ turns' = IF e.kind = "send" THEN Turn(turns, "user", r, NoCall, "") ELSE turns
      /\ past' = Append(past, again) /\ walk' = NoWalk /\ worker' = worker /\ queue' = queue
      /\ strayed' = strayed \union (IF crowd THEN {"crowded"} ELSE {})
  BY DEF Redo
<1>2. /\ turns \in Seq(TurnRow) /\ calls \in Table /\ past \in Seq(Undoable)
      /\ future \in Seq(Undoable) /\ issued \in Nat
  BY TypeAll, TypeParts DEF AgentInv
<1>3. r \in Run
  <2>1. MaxRuns \in Nat /\ issued \in Nat /\ issued < MaxRuns
    BY <1>1, <1>2, CallParts
  <2> QED BY <2>1 DEF Run
<1>4. again.kind # "delete"
  <2>1. e \in Undoable
    BY <1>1, <1>2, FrontParts
  <2> HIDE DEF e
  <2>2. again.kind = e.kind
    BY <2>1 DEF Undoable, Begun
  <2> QED BY <1>1, <2>2
<1> HIDE DEF again, e, crowd
<1>5. Kept(past') \subseteq Kept(past)
  BY <1>1, <1>2, <1>4, ClaimKept
<1>6. ASSUME strayed' = {}
      PROVE  /\ Threaded(turns') /\ Unanswered(turns') = {}
             /\ \A q \in Run : status[q] \notin Live
  <2>1. strayed = {} /\ ~crowd
    BY <1>1, <1>6
  <2>2. Unanswered(turns) = {} /\ \A q \in Run : status[q] \notin Live
    BY <2>1 DEF crowd
  <2>3. Threaded(turns)
    BY <2>1, HereInThread DEF RowsInThread
  <2> HIDE DEF r
  <2>4. /\ "user" \in {"user", "asks", "says"} /\ "user" # "asks" /\ NoCall \in CallId \union {NoCall}
        /\ "" \in Said
    BY DEF Said
  <2>5. Threaded(Turn(turns, "user", r, NoCall, "")) /\ Unanswered(Turn(turns, "user", r, NoCall, "")) = {}
    BY <1>2, <1>3, <2>2, <2>3, <2>4, TurnThreads
  <2> QED BY <1>1, <2>2, <2>3, <2>5
<1>7. strayed \subseteq strayed' /\ r = issued + 1
  BY <1>1
<1> HIDE DEF r
<1> QED BY <1>1, <1>3, <1>5, <1>6, <1>7, BeganThread

----------------------------------------------------------------------------
(* A walk back cuts the chat at a turn of the person's, or takes one run.   *)

LEMMA LatestStays ==
    ASSUME NEW st \in [Run -> Statuses], NEW st0 \in [Run -> Statuses],
           \A r \in Run : st[r] # "none" => st0[r] # "none",
           Latest(st0) \in Run, st[Latest(st0)] # "none"
    PROVE  Latest(st) = Latest(st0)
<1> DEFINE l == Latest(st0)
           m == Latest(st)
<1>1. l \in Nat /\ l > 0 /\ m \in Nat /\ l <= m
  BY CallParts, LatestRun
<1>2. m \in Run /\ st[m] # "none"
  BY <1>1, LatestRun
<1>3. m <= l
  BY <1>2, LatestRun
<1> QED BY <1>1, <1>3

LEMMA UndoCutThread ==
    ASSUME AgentInv, TypeOK', ThreadInv, UndoCut
    PROVE  ThreadInv'
<1> DEFINE taken == IF walk.kind = "send" THEN {r \in Run : r >= walk.run} ELSE {walk.run}
           stays(t) == IF walk.kind = "send" THEN t.seq < walk.seq ELSE t.run # walk.run
           S == {i \in DOMAIN turns : stays(turns[i])}
           left == Ascending(S)
<1>1. /\ walk # NoWalk
      /\ status' = [r \in Run |-> IF r \in taken THEN "none" ELSE status[r]]
      /\ calls' = [c \in {c \in DOMAIN calls : c[1] \notin taken} |-> calls[c]]
      /\ turns' = [i \in DOMAIN left |-> turns[left[i]]]
      /\ walk' = NoWalk
      /\ UNCHANGED <<issued, worker, queue, past, strayed>>
  BY DEF UndoCut, ghosts
<1>2. /\ turns \in Seq(TurnRow) /\ calls \in Table /\ status \in [Run -> Statuses]
      /\ status' \in [Run -> Statuses] /\ issued \in Nat
      /\ walk \in Begun
  <2>1. status' \in [Run -> Statuses]
    BY DEF TypeOK, Whole, Copy
  <2> QED BY <1>1, <2>1, TypeAll, TypeParts DEF AgentInv
<1>3. walk.kind \in {"send", "retry"} /\ walk.seq \in Nat /\ walk.run \in Run
  BY <1>2 DEF Begun
<1>4. /\ \A r \in Run : r \in taken => status'[r] = "none"
      /\ \A r \in Run : r \notin taken => status'[r] = status[r]
  BY <1>1
<1>5. \A c : c \in DOMAIN calls' <=> c \in DOMAIN calls /\ c[1] \notin taken
  BY <1>1
<1>6. ASSUME strayed = {} PROVE RowsInThread(status', turns', calls', worker')
  <2>1. RowsInThread(status, turns, calls, worker)
    BY <1>6, HereInThread
  <2>2. Threaded(turns) /\ OneLive(status)
    BY <2>1 DEF RowsInThread
  <2>3. CASE walk.kind = "send"
    <3>1. PICK u \in DOMAIN turns : turns[u].who = "user" /\ turns[u].seq = walk.seq
      BY <1>1, <1>6, <2>3 DEF ThreadInv
    <3>2. S \subseteq DOMAIN turns /\ \A i \in S : turns[i].seq < walk.seq
      BY <2>3
    <3>3. \A i \in DOMAIN turns : i \notin S => ~(turns[i].seq < walk.seq)
      BY <2>3
    <3> HIDE DEF S, taken
    <3>4. \A i \in DOMAIN turns : i \in Nat /\ turns[i].seq \in Nat
      BY <1>2, TurnParts
    <3>5. \A i \in S : i < u
      <4> SUFFICES ASSUME NEW i \in S, ~(i < u) PROVE FALSE
        OBVIOUS
      <4>1. i = u \/ u < i
        BY <3>2, <3>4
      <4>2. u < i => turns[u].seq < turns[i].seq
        BY <2>2, <3>2 DEF Threaded
      <4> QED BY <1>3, <3>1, <3>2, <3>4, <4>1, <4>2
    <3>6. \A j \in DOMAIN turns : j \notin S => u <= j
      <4> SUFFICES ASSUME NEW j \in DOMAIN turns, j \notin S, ~(u <= j) PROVE FALSE
        OBVIOUS
      <4>1. j < u
        BY <3>4
      <4>2. turns[j].seq < turns[u].seq
        BY <2>2, <4>1 DEF Threaded
      <4> QED BY <3>1, <3>3, <4>2
    <3>7. \A i \in S, j \in DOMAIN turns :
            (/\ turns[i].who = "asks" /\ i < j /\ turns[j].who = "tool"
             /\ turns[j].call[1] = turns[i].call[1]
             /\ \A k \in i + 1 .. j : turns[k].who = "tool") => j \in S
      <4> SUFFICES ASSUME NEW i \in S, NEW j \in DOMAIN turns, j \notin S,
                          \A k \in i + 1 .. j : turns[k].who = "tool"
                   PROVE  FALSE
        OBVIOUS
      <4>1. u \in i + 1 .. j
        BY <3>2, <3>4, <3>5, <3>6
      <4> QED BY <3>1, <4>1
    <3>8. \A q \in S : q \notin Unanswered(turns)
      <4> SUFFICES ASSUME NEW q \in S, q \in Unanswered(turns) PROVE FALSE
        OBVIOUS
      <4>1. turns[u].who = "tool"
        BY <2>2, <3>5 DEF Threaded
      <4> QED BY <3>1, <4>1
    <3>9. Threaded(turns') /\ Unanswered(turns') = {}
      BY <1>1, <1>2, <2>2, <3>2, <3>7, <3>8, LeftThreads
    <3>10. OneLive(status')
      <4> SUFFICES ASSUME NEW r \in Run, status'[r] \in Live PROVE r = Latest(status')
        BY DEF OneLive
      <4>1. status'[r] = status[r] /\ status[r] # "none"
        BY <1>4 DEF Live
      <4>2. r = Latest(status)
        BY <2>2, <4>1 DEF OneLive
      <4>3. \A q \in Run : status'[q] # "none" => status[q] # "none"
        BY <1>4
      <4> QED BY <1>2, <4>1, <4>2, <4>3, LatestStays
    <3>11. ASSUME NEW r \in Run PROVE AptWorker(worker'[r], status', turns', r)
      <4>1. AptWorker(worker[r], status, turns, r)
        BY <2>1 DEF RowsInThread
      <4> QED BY <1>1, <1>4, <3>9, <4>1 DEF AptWorker
    <3> QED BY <3>9, <3>10, <3>11 DEF RowsInThread
  <2>4. CASE walk.kind = "retry"
    <3>1. S \subseteq DOMAIN turns /\ \A i \in DOMAIN turns : i \in S <=> turns[i].run # walk.run
      BY <2>4
    <3>2. taken = {walk.run}
      BY <2>4
    <3> HIDE DEF S, taken
    <3>3. \A i \in S, j \in DOMAIN turns :
            (/\ turns[i].who = "asks" /\ i < j /\ turns[j].who = "tool"
             /\ turns[j].call[1] = turns[i].call[1]
             /\ \A k \in i + 1 .. j : turns[k].who = "tool") => j \in S
      <4> SUFFICES ASSUME NEW i \in S, NEW j \in DOMAIN turns,
                          turns[i].who = "asks", turns[j].who = "tool",
                          turns[j].call[1] = turns[i].call[1]
                   PROVE  j \in S
        OBVIOUS
      <4>1. turns[i].run = turns[i].call[1] /\ turns[j].run = turns[j].call[1]
        BY <2>2, <3>1 DEF Threaded
      <4> QED BY <3>1, <4>1
    <3>4. /\ Threaded(turns')
          /\ \A i \in Unanswered(turns') : \E q \in S : q \in Unanswered(turns) /\ turns'[i] = turns[q]
      <4> DEFINE us == [i \in DOMAIN Ascending(S) |-> turns[Ascending(S)[i]]]
      <4>1. turns' = us
        BY <1>1
      <4>2. /\ Threaded(us)
            /\ \A i \in Unanswered(us) : \E q \in S : q \in Unanswered(turns) /\ us[i] = turns[q]
        BY <1>2, <2>2, <3>1, <3>3, LeftThreads, Zenon
      <4> HIDE DEF us
      <4> QED BY <4>1, <4>2
    <3>5. \A q \in Run : status'[q] # "none" => status[q] # "none"
      BY <1>4
    <3>6. ASSUME NEW i \in Unanswered(turns') PROVE Awaiting(status', calls', turns'[i].call)
      <4>1. PICK q \in S : q \in Unanswered(turns) /\ turns'[i] = turns[q]
        BY <3>4
      <4> DEFINE c == turns[q].call
      <4>2. Awaiting(status, calls, c) /\ c[1] \in Run
        BY <1>2, <2>1, <2>2, <4>1, AsksRun DEF RowsInThread
      <4>3. c[1] \notin taken
        <5>1. turns[q].who = "asks" /\ q \in DOMAIN turns
          BY <4>1, UnansweredThere
        <5>2. turns[q].run = c[1]
          BY <2>2, <5>1 DEF Threaded
        <5> QED BY <3>1, <3>2, <5>1, <5>2
      <4> HIDE DEF c
      <4>4. status'[c[1]] = status[c[1]] /\ status[c[1]] \in {"waiting", "stopped", "done"} /\ c[1] = Latest(status)
        BY <1>4, <4>2, <4>3 DEF Awaiting
      <4>5. Latest(status') = c[1]
        BY <1>2, <3>5, <4>2, <4>4, LatestStays
      <4>6. Newest(calls', c[1]) = Newest(calls, c[1])
        <5> DEFINE p == c[1]
        <5>1. \A d : d[1] = p => (d \in DOMAIN calls' <=> d \in DOMAIN calls)
          BY <1>5, <4>3
        <5> HIDE DEF p
        <5>2. Newest(calls', p) = Newest(calls, p)
          BY <5>1, SameNewest
        <5> QED BY <5>2 DEF p
      <4>7. status[c[1]] # "done" => \A n \in 1 .. c[3] : <<c[1], c[2], n>> \in DOMAIN calls'
        BY <1>5, <4>2, <4>3 DEF Awaiting
      <4>8. Awaiting(status', calls', c)
        BY <4>2, <4>4, <4>5, <4>6, <4>7 DEF Awaiting
      <4> QED BY <4>1, <4>8 DEF c
    <3>7. OneLive(status')
      <4> SUFFICES ASSUME NEW r \in Run, status'[r] \in Live PROVE r = Latest(status')
        BY DEF OneLive
      <4>1. status'[r] = status[r] /\ status[r] # "none"
        BY <1>4 DEF Live
      <4>2. r = Latest(status)
        BY <2>2, <4>1 DEF OneLive
      <4> QED BY <1>2, <3>5, <4>1, <4>2, LatestStays
    <3>8. ASSUME NEW r \in Run PROVE AptWorker(worker'[r], status', turns', r)
      <4>1. AptWorker(worker[r], status, turns, r)
        BY <2>1 DEF RowsInThread
      <4>2. status'[r] = status[r] \/ status'[r] = "none"
        BY <1>4
      <4> QED BY <1>1, <3>4, <4>1, <4>2 DEF AptWorker
    <3> QED BY <3>4, <3>6, <3>7, <3>8 DEF RowsInThread
  <2> QED BY <1>3, <2>3, <2>4
<1>7. strayed' = {} => \A k \in Copies' : InThread(k, worker')
  <2>1. Copies' = {Whole'} \union Kept(past)
    BY <1>1 DEF Copies, Kept
  <2>2. strayed = {} => \A k \in Kept(past) : InThread(k, worker)
    BY DEF ThreadInv, Copies
  <2> QED BY <1>1, <1>6, <2>1, <2>2, WholeThread
<1>8. \A r \in Run : worker'[r].at # "idle" => r <= issued'
  BY <1>1 DEF ThreadInv
<1> QED BY <1>1, <1>7, <1>8 DEF ThreadInv

----------------------------------------------------------------------------
(* The thread is never lost but by a straying, and so requests are whole.   *)

LEMMA InitThread ==
    ASSUME Init
    PROVE  ThreadInv
<1>1. /\ status = [r \in Run |-> "none"] /\ turns = <<>> /\ past = <<>>
      /\ worker = [r \in Run |-> Asleep] /\ walk = NoWalk
  BY DEF Init
<1>2. DOMAIN <<>> = {}
  OBVIOUS
<1>3. Kept(past) = {}
  BY <1>1, <1>2 DEF Kept
<1>4. Bare(Whole)
  BY <1>1 DEF Bare, Whole
<1>5. \A k \in Copies : InThread(k, worker)
  BY <1>3, <1>4, BareInThread DEF Copies, Bare
<1>6. \A r \in Run : worker[r].at = "idle"
  BY <1>1 DEF Asleep
<1> QED BY <1>1, <1>3, <1>5, <1>6 DEF ThreadInv

LEMMA StillThread ==
    ASSUME ThreadInv, UNCHANGED vars
    PROVE  ThreadInv'
<1>1. UNCHANGED <<status, issued, turns, calls, worker, past, walk, strayed>>
  BY DEF vars, rows, hands, ghosts
<1>2. Copies' = Copies
  BY <1>1 DEF Copies, Kept, Whole
<1>3. (\A k \in Copies : InThread(k, worker)) => \A k \in Copies' : InThread(k, worker')
  BY <1>1, <1>2
<1> QED BY <1>1, <1>3 DEF ThreadInv

LEMMA WorksThread ==
    ASSUME AgentInv, TypeOK', ThreadInv, NEW r \in Run, Works(r)
    PROVE  ThreadInv'
<1>1. CASE PassWaiting(r) \/ LookOn(r)
  <2>1. /\ Look(r) /\ (status[r] = "waiting" \/ worker[r].at = "next")
        /\ UNCHANGED <<past, walk, strayed>>
    BY <1>1 DEF PassWaiting, LookOn, hands, ghosts
  <2> QED BY <2>1, LookThread
<1> QED BY <1>1, PassPendingThread, AskThread, MovingThread, LandCallsThread, LandThread DEF Works

LEMMA NextThread ==
    ASSUME AgentInv, ThreadInv, [Next]_vars
    PROVE  ThreadInv'
<1>1. TypeOK'
  BY NextKeeps DEF AgentInv
<1>2. CASE UNCHANGED vars
  BY <1>2, StillThread
<1>3. ASSUME NEW r \in Run, Works(r) PROVE ThreadInv'
  BY <1>1, <1>3, WorksThread
<1>4. ASSUME NEW r \in Run, Performs(r) \/ Allow(r) \/ Refuse(r) PROVE ThreadInv'
  BY <1>1, <1>4, SessionThread
<1>5. CASE Dispatch \/ Composed
  BY <1>1, <1>5, SessionThread
<1>6. CASE Commits
  BY <1>1, <1>6, SessionThread, CommitSendThread, CommitRetryThread, DeletesThread, UndoCutThread
     DEF Commits
<1>7. CASE Presses
  BY <1>1, <1>7, SessionThread, UndoThread, UndoDeleteThread, RedoThread,
     DeletesThread DEF Presses
<1>8. CASE Crash
  BY <1>1, <1>8, CrashThread
<1> QED BY <1>2, <1>3, <1>4, <1>5, <1>6, <1>7, <1>8 DEF Next

(* While a chat has not strayed, a round without its answers is the newest of
   the newest run, which is waiting or stopped, or ended with it, and so it is in
   every copy a deletion keeps; at most one run is live, and it is the newest. *)
THEOREM AgentThread == Spec => []ThreadInv
<1>1. Init => AgentInv /\ ThreadInv
  BY InitKeeps, InitThread
<1>2. AgentInv /\ ThreadInv /\ [Next]_vars => AgentInv' /\ ThreadInv'
  BY NextKeeps, NextThread
<1> QED BY <1>1, <1>2, PTL DEF Spec

(* A request its run still says it is making leaves with every call of every
   round answered before anybody speaks again, unless the chat has strayed. *)
THEOREM AgentRequestsWhole == Spec => RequestsWhole
<1> DEFINE Whole1 == \A r \in Run :
         (/\ worker[r].at = "claimed" /\ worker'[r].at = "gateway"
          /\ status[r] = "streaming" /\ strayed = {})
         => Unanswered(turns) = {}
<1>1. ThreadInv => Whole1
  <2> SUFFICES ASSUME ThreadInv, NEW r \in Run, worker[r].at = "claimed",
                      status[r] = "streaming", strayed = {}, NEW i \in Unanswered(turns)
               PROVE  FALSE
    OBVIOUS
  <2>1. RowsInThread(status, turns, calls, worker)
    BY HereInThread
  <2>2. r = Latest(status)
    BY <2>1 DEF RowsInThread, OneLive, Live
  <2>3. status[Latest(status)] \in {"waiting", "stopped", "done"}
    BY <2>1 DEF RowsInThread, Awaiting
  <2> QED BY <2>2, <2>3
<1>2. ThreadInv => [Whole1]_vars
  BY <1>1
<1>3. RequestsWhole <=> [][Whole1]_vars
  BY DEF RequestsWhole
<1> HIDE DEF Whole1
<1> QED BY <1>2, <1>3, AgentThread, PTL
=============================================================================
