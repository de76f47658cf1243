-------------------------- MODULE SessionWalksProofs --------------------------
(* What a session promises, for any number of operations, preparations and
   handovers, any order of commits, walks and completions, and any faults. *)
EXTENDS SessionWalks, WellFoundedInduction, TLAPS

----------------------------------------------------------------------------
(* Sequences, and the operations in them. *)

LEMMA Elements ==
    ASSUME NEW S, NEW s, s \in Seq(S)
    PROVE  /\ Len(s) \in Nat /\ DOMAIN s = 1 .. Len(s)
           /\ \A i \in DOMAIN s : i \in Nat /\ i >= 1 /\ i <= Len(s) /\ s[i] \in S
           /\ (s = <<>> <=> Len(s) = 0) /\ (s # <<>> => 1 \in DOMAIN s)
           /\ (DOMAIN s = {} => s = <<>>)
  OBVIOUS

LEMMA Empty == \A S : <<>> \in Seq(S)
  OBVIOUS

LEMMA EmptyOps == OpsIn(<<>>) = {} /\ Alone(<<>>) /\ ToSet(<<>>) = {} /\ DOMAIN <<>> = {}
  BY DEF OpsIn, Alone, ToSet

LEMMA Appended ==
    ASSUME NEW S, NEW s, s \in Seq(S), NEW e \in S, NEW t, t = Append(s, e)
    PROVE  /\ t \in Seq(S) /\ Len(t) = Len(s) + 1
           /\ \A i : i \in DOMAIN t <=> i \in DOMAIN s \/ i = Len(s) + 1
           /\ \A i \in DOMAIN s : t[i] = s[i] /\ i < Len(s) + 1
           /\ t[Len(s) + 1] = e /\ Len(s) + 1 \notin DOMAIN s
  OBVIOUS

LEMMA Behind ==
    ASSUME NEW S, NEW s, s \in Seq(S), s # <<>>, NEW t, t = Tail(s)
    PROVE  /\ t \in Seq(S) /\ 1 \in DOMAIN s /\ s[1] \in S
           /\ \A i : i \in DOMAIN t => i \in Nat /\ i >= 1 /\ i + 1 \in DOMAIN s /\ t[i] = s[i + 1] /\ i + 1 # 1
           /\ \A i \in DOMAIN s : i # 1 => i - 1 \in DOMAIN t /\ t[i - 1] = s[i]
  OBVIOUS

LEMMA Replaced ==
    ASSUME NEW S, NEW s, s \in Seq(S), NEW i \in DOMAIN s, NEW e \in S, NEW t, t = [s EXCEPT ![i] = e]
    PROVE  /\ t \in Seq(S) /\ DOMAIN t = DOMAIN s /\ t[i] = e
           /\ \A j \in DOMAIN s : j # i => t[j] = s[j]
  OBVIOUS

LEMMA Joined ==
    ASSUME NEW S, NEW s, s \in Seq(S), NEW r, r \in Seq(S), NEW t, t = s \o r
    PROVE  /\ t \in Seq(S) /\ Len(s) \in Nat /\ Len(t) = Len(s) + Len(r)
           /\ \A i \in DOMAIN s : i \in DOMAIN t /\ t[i] = s[i]
           /\ \A i \in DOMAIN r : Len(s) + i \in DOMAIN t /\ t[Len(s) + i] = r[i]
           /\ \A i \in DOMAIN t : i \notin DOMAIN s => i - Len(s) \in DOMAIN r /\ t[i] = r[i - Len(s)]
  OBVIOUS

LEMMA Removed ==
    ASSUME NEW S, NEW s, s \in Seq(S), NEW i, i \in DOMAIN s, NEW t, t = RemoveAt(s, i)
    PROVE  /\ t \in Seq(S)
           /\ \A j \in DOMAIN t : j < i => j \in DOMAIN s /\ t[j] = s[j]
           /\ \A j \in DOMAIN t : ~(j < i) => j + 1 \in DOMAIN s /\ t[j] = s[j + 1]
<1> DEFINE a == SubSeq(s, 1, i - 1)
           b == SubSeq(s, i + 1, Len(s))
<1>1. i \in 1 .. Len(s) /\ Len(s) \in Nat
  OBVIOUS
<1>2. a \in Seq(S) /\ Len(a) = i - 1 /\ \A j \in 1 .. (i - 1) : a[j] = s[j]
  BY <1>1
<1>3. b \in Seq(S) /\ Len(b) = Len(s) - i /\ \A j \in 1 .. (Len(s) - i) : b[j] = s[i + j]
  BY <1>1
<1>4. t = a \o b
  BY DEF RemoveAt
<1> HIDE DEF a, b
<1>5. t \in Seq(S) /\ Len(t) = Len(s) - 1
  BY <1>1, <1>2, <1>3, <1>4
<1>6. \A j \in 1 .. Len(t) : t[j] = IF j < i THEN s[j] ELSE s[j + 1]
  <2> SUFFICES ASSUME NEW j \in 1 .. Len(t) PROVE t[j] = IF j < i THEN s[j] ELSE s[j + 1]
    OBVIOUS
  <2>0. /\ \A h \in 1 .. (i - 1) : t[h] = a[h]
        /\ \A h \in 1 .. (Len(s) - i) : t[(i - 1) + h] = b[h]
    <3>1. DOMAIN a = 1 .. (i - 1) /\ DOMAIN b = 1 .. (Len(s) - i)
      BY <1>1, <1>2, <1>3
    <3> QED BY SMTT(40), <1>2, <1>3, <1>4, <3>1, Joined
  <2>1. CASE j < i
    <3>1. j \in 1 .. (i - 1) /\ t[j] = a[j]
      BY <1>1, <1>2, <1>5, <2>0, <2>1
    <3> QED BY <1>2, <2>1, <3>1
  <2>2. CASE ~(j < i)
    <3>1. t[j] = b[j - (i - 1)] /\ j - (i - 1) \in 1 .. (Len(s) - i)
      <4>1. j - (i - 1) \in 1 .. (Len(s) - i) /\ (i - 1) + (j - (i - 1)) = j
        BY <1>1, <1>5, <2>2
      <4>2. t[(i - 1) + (j - (i - 1))] = b[j - (i - 1)]
        BY <2>0, <4>1
      <4> QED BY <4>1, <4>2
    <3>2. b[j - (i - 1)] = s[i + (j - (i - 1))] /\ i + (j - (i - 1)) = j + 1
      BY SMTT(40), <1>1, <1>3, <3>1
    <3> QED BY <2>2, <3>1, <3>2
  <2> QED BY <2>1, <2>2
<1>7. DOMAIN t = 1 .. Len(t) /\ DOMAIN s = 1 .. Len(s)
  BY <1>5
<1> QED BY <1>1, <1>5, <1>6, <1>7

(* One operation more. *)
LEMMA OpsAppended ==
    ASSUME NEW S, NEW s, s \in Seq(S), NEW e \in S, NEW t, t = Append(s, e)
    PROVE  OpsIn(t) = OpsIn(s) \union {e.op} /\ (Alone(s) /\ e.op \notin OpsIn(s) => Alone(t))
<1>1. /\ \A i : i \in DOMAIN t <=> i \in DOMAIN s \/ i = Len(s) + 1
      /\ \A i \in DOMAIN s : t[i] = s[i]
      /\ t[Len(s) + 1] = e
  BY Appended
<1> QED BY <1>1 DEF OpsIn, Alone

(* The first one taken away. *)
LEMMA OpsBehind ==
    ASSUME NEW S, NEW s, s \in Seq(S), s # <<>>, NEW t, t = Tail(s)
    PROVE  /\ OpsIn(s) = OpsIn(t) \union {s[1].op}
           /\ Alone(s) => Alone(t) /\ s[1].op \notin OpsIn(t)
<1>1. /\ 1 \in DOMAIN s
      /\ \A i : i \in DOMAIN t => i \in Nat /\ i + 1 \in DOMAIN s /\ t[i] = s[i + 1] /\ i + 1 # 1
      /\ \A i \in DOMAIN s : i # 1 => i - 1 \in DOMAIN t /\ t[i - 1] = s[i]
  BY Behind
<1>2. ASSUME NEW i \in DOMAIN s PROVE s[i].op \in OpsIn(t) \union {s[1].op}
  <2>1. CASE i = 1
    BY <2>1
  <2>2. CASE i # 1
    <3>1. i - 1 \in DOMAIN t /\ t[i - 1].op = s[i].op
      BY <1>1, <2>2
    <3> QED BY <3>1 DEF OpsIn
  <2> QED BY <2>1, <2>2
<1>3. OpsIn(t) \union {s[1].op} \subseteq OpsIn(s)
  BY <1>1 DEF OpsIn
<1>4. ASSUME Alone(s), NEW i \in DOMAIN t, NEW j \in DOMAIN t, t[i].op = t[j].op PROVE i = j
  <2>1. i + 1 = j + 1
    BY <1>1, <1>4 DEF Alone
  <2> QED BY <1>1, <2>1
<1>5. ASSUME Alone(s), s[1].op \in OpsIn(t) PROVE FALSE
  <2>1. PICK i \in DOMAIN t : t[i].op = s[1].op
    BY <1>5 DEF OpsIn
  <2> QED BY <1>1, <1>5, <2>1 DEF Alone
<1>6. OpsIn(s) \subseteq OpsIn(t) \union {s[1].op}
  BY <1>2 DEF OpsIn
<1> QED BY <1>3, <1>4, <1>5, <1>6 DEF Alone

(* Any one taken away. *)
LEMMA OpsRemoved ==
    ASSUME NEW S, NEW s, s \in Seq(S), NEW i, i \in DOMAIN s, NEW t, t = RemoveAt(s, i)
    PROVE  /\ OpsIn(t) \subseteq OpsIn(s) /\ s[i].op \in OpsIn(s)
           /\ Alone(s) => Alone(t) /\ s[i].op \notin OpsIn(t)
<1>1. /\ \A j \in DOMAIN t : j < i => j \in DOMAIN s /\ t[j] = s[j]
      /\ \A j \in DOMAIN t : ~(j < i) => j + 1 \in DOMAIN s /\ t[j] = s[j + 1]
  BY Removed
<1>0. i \in Nat /\ \A j \in DOMAIN t : j \in Nat
  <2>1. t \in Seq(S)
    BY Removed
  <2> QED BY <2>1
<1> DEFINE was(j) == IF j < i THEN j ELSE j + 1
<1>2. \A j \in DOMAIN t : was(j) \in DOMAIN s /\ t[j] = s[was(j)] /\ was(j) # i
  BY <1>0, <1>1
<1>3. \A j, k \in DOMAIN t : was(j) = was(k) => j = k
  BY <1>0
<1> HIDE DEF was
<1>4. OpsIn(t) \subseteq OpsIn(s) /\ s[i].op \in OpsIn(s)
  BY <1>2 DEF OpsIn
<1>5. ASSUME Alone(s) PROVE Alone(t) /\ s[i].op \notin OpsIn(t)
  BY <1>2, <1>3, <1>5 DEF OpsIn, Alone
<1> QED BY <1>4, <1>5

(* The same operations in the same places. *)
LEMMA OpsSame ==
    ASSUME NEW s, NEW t, DOMAIN t = DOMAIN s, \A i \in DOMAIN s : t[i].op = s[i].op
    PROVE  OpsIn(t) = OpsIn(s) /\ (Alone(s) => Alone(t))
  BY DEF OpsIn, Alone

(* Of some numbers up to a bound, one is the last. *)
LEMMA LastOfSome ==
    ASSUME NEW N \in Nat, NEW T, T \subseteq 1 .. N, T # {}
    PROVE  \E k \in T : \A m \in T : m <= k
<1> SUFFICES ASSUME \A k \in T : \E m \in T : ~(m <= k) PROVE FALSE
  OBVIOUS
<1> DEFINE R == OpToRel(<, Nat)
           U == {n \in Nat : \A m \in T : m <= n}
<1>1. IsWellFoundedOn(R, Nat)
  BY NatLessThanWellFounded
<1>2. U \subseteq Nat /\ N \in U
  OBVIOUS
<1> HIDE DEF R
<1>3. PICK n \in U : \A k \in U : <<k, n>> \notin R
  BY <1>1, <1>2, WFMin
<1>4. \A k \in U : ~(k < n)
  BY <1>2, <1>3 DEF OpToRel, R
<1>5. n \notin T
  BY <1>3
<1>6. \A m \in T : m <= n - 1
  BY <1>3, <1>5
<1>7. PICK k \in T : TRUE
  OBVIOUS
<1>8. n - 1 \in Nat
  BY <1>6, <1>7
<1>9. n - 1 \in U
  BY <1>6, <1>8
<1> QED BY <1>3, <1>4, <1>9

(* And the first. *)
LEMMA FirstOfSome ==
    ASSUME NEW S, NEW s, s \in Seq(S), NEW T, T \subseteq DOMAIN s, T # {}
    PROVE  \E k \in T : \A m \in T : k <= m
<1> DEFINE R == OpToRel(<, Nat)
<1>1. IsWellFoundedOn(R, Nat)
  BY NatLessThanWellFounded
<1>2. T \subseteq Nat
  BY Elements
<1> HIDE DEF R
<1>3. PICK n \in T : \A k \in T : <<k, n>> \notin R
  BY <1>1, <1>2, WFMin
<1>4. \A k \in T : ~(k < n)
  BY <1>2, <1>3 DEF OpToRel, R
<1> QED BY <1>2, <1>4

----------------------------------------------------------------------------
(* What is done to a tree. *)

LEMMA BareIs == Tree(Bare) /\ OnePath(Bare) /\ Bare.nodes = <<>> /\ Bare.head = 0
<1>1. Bare.nodes = <<>> /\ Bare.head = 0 /\ DOMAIN Bare.nodes = {}
  BY DEF Bare
<1>2. Bare \in [nodes : Seq(Node), head : Nat]
  BY Empty DEF Bare
<1> QED BY <1>1, <1>2 DEF Tree, OnePath

LEMMA TreeIs ==
    ASSUME NEW t, Tree(t)
    PROVE  /\ t.nodes \in Seq(Node) /\ t.head \in Nat /\ Len(t.nodes) \in Nat
           /\ DOMAIN t.nodes = 1 .. Len(t.nodes)
           /\ \A n \in DOMAIN t.nodes : /\ n \in Nat /\ n >= 1 /\ t.nodes[n] \in Node
                                        /\ t.nodes[n].op \in Op /\ t.nodes[n].parent \in Nat
                                        /\ t.nodes[n].applied \in BOOLEAN /\ t.nodes[n].claims \in BOOLEAN
                                        /\ t.nodes[n].parent < n
           /\ t.head # 0 => t.head \in DOMAIN t.nodes /\ t.nodes[t.head].applied
           /\ t = [nodes |-> t.nodes, head |-> t.head]
<1>1. t.nodes \in Seq(Node) /\ t.head \in Nat /\ t = [nodes |-> t.nodes, head |-> t.head]
  BY DEF Tree
<1>2. /\ Len(t.nodes) \in Nat /\ DOMAIN t.nodes = 1 .. Len(t.nodes)
      /\ \A n \in DOMAIN t.nodes : n \in Nat /\ n >= 1 /\ t.nodes[n] \in Node
  BY <1>1, Elements
<1>3. \A n \in DOMAIN t.nodes : /\ t.nodes[n].op \in Op /\ t.nodes[n].parent \in Nat
                                /\ t.nodes[n].applied \in BOOLEAN /\ t.nodes[n].claims \in BOOLEAN
  BY <1>2 DEF Node
<1> QED BY <1>1, <1>2, <1>3 DEF Tree

(* History::apply: a node more, where the head was; the path goes on to it. *)
LEMMA RecordedIs ==
    ASSUME NEW t, Tree(t), OnePath(t), NEW op \in Op, NEW claims \in BOOLEAN,
           NEW r, r = Recorded(t, op, claims)
    PROVE  /\ Tree(r) /\ OnePath(r)
           /\ \A n : n \in DOMAIN r.nodes <=> n \in DOMAIN t.nodes \/ n = r.head
           /\ r.head \notin DOMAIN t.nodes
           /\ \A n \in DOMAIN t.nodes : r.nodes[n] = t.nodes[n]
           /\ r.nodes[r.head].op = op /\ r.nodes[r.head].applied /\ r.nodes[r.head].claims = claims
           /\ OpsIn(r.nodes) = OpsIn(t.nodes) \union {op}
           /\ Alone(t.nodes) /\ op \notin OpsIn(t.nodes) => Alone(r.nodes)
<1> DEFINE k == Len(t.nodes) + 1
           n0 == [op |-> op, parent |-> t.head, applied |-> TRUE, claims |-> claims]
<1>1. /\ t.nodes \in Seq(Node) /\ t.head \in Nat /\ Len(t.nodes) \in Nat
      /\ DOMAIN t.nodes = 1 .. Len(t.nodes)
      /\ \A n \in DOMAIN t.nodes : n \in Nat /\ n >= 1 /\ t.nodes[n].parent \in Nat /\ t.nodes[n].parent < n
      /\ t.head # 0 => t.head \in DOMAIN t.nodes /\ t.nodes[t.head].applied
  BY TreeIs
<1>2. n0 \in Node /\ n0.op = op /\ n0.parent = t.head /\ n0.applied = TRUE /\ n0.claims = claims
  BY <1>1 DEF Node
<1>3. r = [nodes |-> Append(t.nodes, n0), head |-> k]
  BY DEF Recorded
<1> HIDE DEF n0
<1>4. r.head = k /\ r.nodes = Append(t.nodes, n0)
  BY <1>3
<1>5. /\ r.nodes \in Seq(Node)
      /\ \A n : n \in DOMAIN r.nodes <=> n \in DOMAIN t.nodes \/ n = k
      /\ \A n \in DOMAIN t.nodes : r.nodes[n] = t.nodes[n] /\ n < k
      /\ r.nodes[k] = n0 /\ k \notin DOMAIN t.nodes
  BY <1>1, <1>2, <1>4, Appended
<1>6. /\ OpsIn(r.nodes) = OpsIn(t.nodes) \union {op}
      /\ Alone(t.nodes) /\ op \notin OpsIn(t.nodes) => Alone(r.nodes)
  <2>1. /\ OpsIn(r.nodes) = OpsIn(t.nodes) \union {n0.op}
        /\ Alone(t.nodes) /\ n0.op \notin OpsIn(t.nodes) => Alone(r.nodes)
    BY <1>1, <1>2, <1>4, OpsAppended
  <2>2. n0.op = op
    BY <1>2
  <2> QED BY Zenon, <2>1, <2>2
<1>7. k \in Nat /\ t.head < k /\ t.head # k
  BY <1>1
<1> HIDE DEF k
<1>8. \A n \in DOMAIN r.nodes : r.nodes[n].parent < n /\ r.nodes[n].parent # k
  BY <1>1, <1>2, <1>5, <1>7
<1>9. Tree(r)
  <2>1. r \in [nodes : Seq(Node), head : Nat]
    BY <1>3, <1>4, <1>5, <1>7
  <2> QED BY <1>2, <1>4, <1>5, <1>8, <2>1 DEF Tree
<1>10. OnePath(r)
  <2> SUFFICES ASSUME NEW n \in DOMAIN r.nodes, r.nodes[n].applied
               PROVE  /\ r.nodes[n].parent # 0 => r.nodes[r.nodes[n].parent].applied
                      /\ r.nodes[n].parent # r.head
                      /\ \A m \in DOMAIN r.nodes :
                            r.nodes[m].applied /\ r.nodes[m].parent = r.nodes[n].parent => m = n
    BY DEF OnePath
  <2>1. r.nodes[n].parent # r.head
    BY <1>4, <1>8
  <2>2. CASE n = k
    <3>1. r.nodes[n].parent = t.head
      BY <1>2, <1>5, <2>2
    <3>2. t.head # 0 => r.nodes[t.head].applied
      BY <1>1, <1>5
    <3>3. \A m \in DOMAIN t.nodes : ~(r.nodes[m].applied /\ r.nodes[m].parent = t.head)
      BY <1>5 DEF OnePath
    <3> QED BY <1>5, <2>1, <2>2, <3>1, <3>2, <3>3
  <2>3. CASE n # k
    <3>1. n \in DOMAIN t.nodes /\ r.nodes[n] = t.nodes[n]
      BY <1>5, <2>3
    <3>2. /\ t.nodes[n].parent # 0 => t.nodes[t.nodes[n].parent].applied
          /\ t.nodes[n].parent # t.head
          /\ \A m \in DOMAIN t.nodes :
                t.nodes[m].applied /\ t.nodes[m].parent = t.nodes[n].parent => m = n
      BY <2>3, <3>1 DEF OnePath
    <3>3. t.nodes[n].parent # 0 => t.nodes[n].parent \in DOMAIN t.nodes
      BY <1>1, <3>1
    <3>4. \A m \in DOMAIN r.nodes : r.nodes[m].applied /\ r.nodes[m].parent = r.nodes[n].parent => m = n
      BY <1>2, <1>5, <3>1, <3>2
    <3> QED BY <1>5, <2>1, <3>1, <3>2, <3>3, <3>4
  <2> QED BY <2>2, <2>3
<1> QED BY <1>2, <1>4, <1>5, <1>6, <1>9, <1>10

(* claim_at: the node's claims, and nothing else of the tree. *)
LEMMA ClaimedIs ==
    ASSUME NEW t, Tree(t), OnePath(t), NEW n, n \in DOMAIN t.nodes, NEW r, r = ClaimedAt(t, n)
    PROVE  /\ Tree(r) /\ OnePath(r) /\ r.head = t.head /\ DOMAIN r.nodes = DOMAIN t.nodes
           /\ \A m \in DOMAIN t.nodes : /\ r.nodes[m].op = t.nodes[m].op
                                        /\ r.nodes[m].applied = t.nodes[m].applied
                                        /\ m # n => r.nodes[m].claims = t.nodes[m].claims
           /\ r.nodes[n].claims
<1> DEFINE x == [t.nodes[n] EXCEPT !.claims = TRUE]
<1>1. /\ t.nodes \in Seq(Node) /\ t.head \in Nat /\ t.nodes[n] \in Node
      /\ t = [nodes |-> t.nodes, head |-> t.head]
  BY TreeIs
<1>2. /\ x \in Node /\ x.op = t.nodes[n].op /\ x.parent = t.nodes[n].parent
      /\ x.applied = t.nodes[n].applied /\ x.claims = TRUE
  BY <1>1 DEF Node
<1>3. r = [t EXCEPT !.nodes[n].claims = TRUE]
  BY DEF ClaimedAt
<1>4. r = [nodes |-> [t.nodes EXCEPT ![n] = x], head |-> t.head]
  BY <1>1, <1>3
<1> HIDE DEF x
<1>5. r.nodes = [t.nodes EXCEPT ![n] = x] /\ r.head = t.head
  BY <1>4
<1>6. r.nodes \in Seq(Node) /\ DOMAIN r.nodes = DOMAIN t.nodes
  BY <1>1, <1>2, <1>5
<1>7. r.nodes[n] = x /\ \A m \in DOMAIN t.nodes : m # n => r.nodes[m] = t.nodes[m]
  BY <1>1, <1>5
<1>8. \A m \in DOMAIN t.nodes : /\ r.nodes[m].op = t.nodes[m].op
                                /\ r.nodes[m].applied = t.nodes[m].applied
                                /\ r.nodes[m].parent = t.nodes[m].parent
  BY <1>2, <1>7
<1>9. r \in [nodes : Seq(Node), head : Nat]
  BY <1>1, <1>4, <1>5, <1>6
<1>10. Tree(r)
  BY <1>5, <1>6, <1>8, <1>9 DEF Tree
<1>11. \A m \in DOMAIN t.nodes : t.nodes[m].parent # 0 => t.nodes[m].parent \in DOMAIN t.nodes
  BY TreeIs
<1>12. OnePath(r)
  BY <1>5, <1>6, <1>8, <1>11 DEF OnePath
<1> QED BY <1>2, <1>5, <1>6, <1>7, <1>8, <1>10, <1>12

(* A step of a walk: one node changes sides, and the head with it. *)
LEMMA WalkedIs ==
    ASSUME NEW t, Tree(t), OnePath(t), NEW way \in Walks, CanWalk(t, way), NEW r, r = Walked(t, way)
    PROVE  /\ Tree(r) /\ OnePath(r) /\ DOMAIN r.nodes = DOMAIN t.nodes
           /\ \A m \in DOMAIN t.nodes : /\ r.nodes[m].op = t.nodes[m].op
                                        /\ r.nodes[m].claims = t.nodes[m].claims
<1>1. /\ t.nodes \in Seq(Node) /\ t.head \in Nat
      /\ t.head # 0 => t.head \in DOMAIN t.nodes /\ t.nodes[t.head].applied
      /\ DOMAIN t.nodes = 1 .. Len(t.nodes) /\ Len(t.nodes) \in Nat
  BY TreeIs
<1>2. \A m \in DOMAIN t.nodes : /\ m \in Nat /\ m >= 1 /\ t.nodes[m] \in Node
                                /\ t.nodes[m].parent \in Nat /\ t.nodes[m].parent < m
                                /\ t.nodes[m].parent # 0 => t.nodes[m].parent \in DOMAIN t.nodes
  BY TreeIs
<1>3. ASSUME NEW n, n \in DOMAIN t.nodes, NEW side \in BOOLEAN, NEW h \in Nat,
             r = [nodes |-> [t.nodes EXCEPT ![n].applied = side], head |-> h]
      PROVE  /\ r.nodes \in Seq(Node) /\ r.head = h /\ DOMAIN r.nodes = DOMAIN t.nodes
             /\ r \in [nodes : Seq(Node), head : Nat]
             /\ \A m \in DOMAIN t.nodes : /\ r.nodes[m].op = t.nodes[m].op
                                          /\ r.nodes[m].parent = t.nodes[m].parent
                                          /\ r.nodes[m].claims = t.nodes[m].claims
                                          /\ m # n => r.nodes[m].applied = t.nodes[m].applied
             /\ r.nodes[n].applied = side
  <2> DEFINE x == [t.nodes[n] EXCEPT !.applied = side]
  <2>1. /\ x \in Node /\ x.op = t.nodes[n].op /\ x.parent = t.nodes[n].parent
        /\ x.applied = side /\ x.claims = t.nodes[n].claims
    BY <1>2, <1>3 DEF Node
  <2>2. r.nodes = [t.nodes EXCEPT ![n] = x] /\ r.head = h
    BY <1>3
  <2> HIDE DEF x
  <2>3. r.nodes \in Seq(Node) /\ DOMAIN r.nodes = DOMAIN t.nodes
    BY <1>1, <1>3, <2>1, <2>2, Replaced
  <2>4. r.nodes[n] = x /\ \A m \in DOMAIN t.nodes : m # n => r.nodes[m] = t.nodes[m]
    BY <1>1, <1>3, <2>1, <2>2, Replaced
  <2>5. r \in [nodes : Seq(Node), head : Nat]
    BY <1>3, <2>2, <2>3
  <2> QED BY <2>1, <2>2, <2>3, <2>4, <2>5
<1>4. CASE way = "undo"
  <2> DEFINE n == t.head
             h == t.nodes[n].parent
  <2>1. n # 0 /\ n \in DOMAIN t.nodes /\ t.nodes[n].applied
    BY <1>1, <1>4 DEF CanWalk
  <2>2. r = [nodes |-> [t.nodes EXCEPT ![n].applied = FALSE], head |-> h]
    BY <1>4 DEF Walked
  <2>3. h \in Nat /\ h < n
    BY <1>2, <2>1
  <2> HIDE DEF n, h
  <2>4. /\ r.head = h /\ DOMAIN r.nodes = DOMAIN t.nodes
        /\ r \in [nodes : Seq(Node), head : Nat]
        /\ \A m \in DOMAIN t.nodes : /\ r.nodes[m].op = t.nodes[m].op
                                     /\ r.nodes[m].parent = t.nodes[m].parent
                                     /\ r.nodes[m].claims = t.nodes[m].claims
                                     /\ m # n => r.nodes[m].applied = t.nodes[m].applied
        /\ r.nodes[n].applied = FALSE
    BY <1>3, <2>1, <2>2, <2>3
  <2>5. h # 0 => h \in DOMAIN t.nodes /\ t.nodes[h].applied
    BY <1>2, <2>1 DEF OnePath, h
  <2>6. Tree(r)
    <3>1. n \in Nat /\ h # n
      BY <1>2, <2>1, <2>3
    <3>2. r.head # 0 => r.head \in DOMAIN r.nodes /\ r.nodes[r.head].applied
      BY <2>4, <2>5, <3>1
    <3>3. \A m \in DOMAIN r.nodes : r.nodes[m].parent < m
      BY <1>2, <2>4
    <3> QED BY <2>4, <3>2, <3>3 DEF Tree
  <2>7. OnePath(r)
    <3> SUFFICES ASSUME NEW m \in DOMAIN r.nodes, r.nodes[m].applied
                 PROVE  /\ r.nodes[m].parent # 0 => r.nodes[r.nodes[m].parent].applied
                        /\ r.nodes[m].parent # r.head
                        /\ \A k \in DOMAIN r.nodes :
                              r.nodes[k].applied /\ r.nodes[k].parent = r.nodes[m].parent => k = m
      BY DEF OnePath
    <3>1. m \in DOMAIN t.nodes /\ m # n /\ t.nodes[m].applied
      BY <2>1, <2>4
    <3>2. /\ t.nodes[m].parent # 0 => t.nodes[t.nodes[m].parent].applied
          /\ t.nodes[m].parent # n
          /\ \A k \in DOMAIN t.nodes :
                t.nodes[k].applied /\ t.nodes[k].parent = t.nodes[m].parent => k = m
      BY <3>1 DEF OnePath, n
    <3>3. t.nodes[m].parent # h
      BY <2>1, <3>1, <3>2 DEF h
    <3>4. r.nodes[m].parent = t.nodes[m].parent
      BY <2>4, <3>1
    <3>5. \A k \in DOMAIN r.nodes : r.nodes[k].applied => t.nodes[k].applied
      BY <2>1, <2>4
    <3>6. t.nodes[m].parent # 0 => r.nodes[t.nodes[m].parent].applied
      BY <1>2, <2>4, <3>1, <3>2
    <3> QED BY <2>4, <3>1, <3>2, <3>3, <3>4, <3>5, <3>6
  <2> QED BY <2>4, <2>6, <2>7
<1>5. CASE way = "redo"
  <2> DEFINE n == CHOOSE n \in Redoable(t) : \A m \in Redoable(t) : m <= n
  <2>1. r = [nodes |-> [t.nodes EXCEPT ![n].applied = TRUE], head |-> n]
    BY <1>5 DEF Walked
  <2>2. n \in Redoable(t)
    <3>1. \E k \in Redoable(t) : \A m \in Redoable(t) : m <= k
      BY <1>1, <1>5, LastOfSome DEF CanWalk, Redoable
    <3> QED BY Zenon, <3>1
  <2> HIDE DEF n
  <2>3. n \in DOMAIN t.nodes /\ t.nodes[n].parent = t.head /\ ~t.nodes[n].applied /\ n \in Nat /\ n >= 1
    BY <1>2, <2>2 DEF Redoable
  <2>4. /\ r.head = n /\ DOMAIN r.nodes = DOMAIN t.nodes
        /\ r \in [nodes : Seq(Node), head : Nat]
        /\ \A m \in DOMAIN t.nodes : /\ r.nodes[m].op = t.nodes[m].op
                                     /\ r.nodes[m].parent = t.nodes[m].parent
                                     /\ r.nodes[m].claims = t.nodes[m].claims
                                     /\ m # n => r.nodes[m].applied = t.nodes[m].applied
        /\ r.nodes[n].applied = TRUE
    BY <1>3, <2>1, <2>3
  <2>5. Tree(r)
    BY <1>2, <2>3, <2>4 DEF Tree
  <2>6. OnePath(r)
    <3> SUFFICES ASSUME NEW m \in DOMAIN r.nodes, r.nodes[m].applied
                 PROVE  /\ r.nodes[m].parent # 0 => r.nodes[r.nodes[m].parent].applied
                        /\ r.nodes[m].parent # r.head
                        /\ \A k \in DOMAIN r.nodes :
                              r.nodes[k].applied /\ r.nodes[k].parent = r.nodes[m].parent => k = m
      BY DEF OnePath
    <3>0. m \in DOMAIN t.nodes /\ r.nodes[m].parent = t.nodes[m].parent /\ t.nodes[m].parent < m
      BY <1>2, <2>4
    <3>1. CASE m = n
      <4>1. \A k \in DOMAIN t.nodes : t.nodes[k].applied => t.nodes[k].parent # t.head
        BY DEF OnePath
      <4>2. t.head # 0 => t.head \in DOMAIN t.nodes /\ r.nodes[t.head].applied
        BY <1>1, <2>3, <2>4
      <4>3. n # t.head
        BY <1>2, <2>3
      <4> QED BY <2>3, <2>4, <3>0, <3>1, <4>1, <4>2, <4>3
    <3>2. CASE m # n
      <4>1. t.nodes[m].applied
        BY <2>4, <3>0, <3>2
      <4>2. /\ t.nodes[m].parent # 0 => t.nodes[t.nodes[m].parent].applied
            /\ t.nodes[m].parent # t.head
            /\ \A k \in DOMAIN t.nodes :
                  t.nodes[k].applied /\ t.nodes[k].parent = t.nodes[m].parent => k = m
        BY <3>0, <4>1 DEF OnePath
      <4>3. t.nodes[m].parent # n
        BY <2>3, <4>2
      <4>4. t.nodes[m].parent # 0 => r.nodes[t.nodes[m].parent].applied
        BY <1>2, <2>4, <3>0, <4>2, <4>3
      <4>5. \A k \in DOMAIN r.nodes :
              r.nodes[k].applied /\ r.nodes[k].parent = r.nodes[m].parent => k = m
        BY <2>3, <2>4, <3>0, <4>2
      <4> QED BY <2>4, <3>0, <4>3, <4>4, <4>5
    <3> QED BY <3>1, <3>2
  <2> QED BY <2>4, <2>5, <2>6
<1> QED BY <1>4, <1>5 DEF Walks

----------------------------------------------------------------------------
(* The invariant but for where a settle and a shutdown have come to. *)

Kernel ==
    /\ Tree(tree) /\ (Pending => Walking(walk))
    /\ commands \in Seq(Command) /\ edits \in Seq(Write)
    /\ preparations \in Seq(Preparation)
    /\ published \in Seq(Op) /\ world \subseteq Op /\ forgotten \subseteq Op
    /\ ops \in 0 .. MaxOps
    /\ Paths /\ WalkAlone /\ OnePlace /\ OneWrite /\ TreeTellsWorld

AloneIn(s) == \A i, j \in DOMAIN s : s[i] = s[j] => i = j

(* The places where an operation can wait, and what is known of it. *)
Apart(C, P, Q, K, n) ==
    /\ C \intersect P = {} /\ C \intersect Q = {} /\ P \intersect Q = {}
    /\ (C \union P \union Q) \intersect K = {}
    /\ C \union P \union Q \union K \subseteq 1 .. n

LEMMA ApartLess ==
    ASSUME NEW C, NEW P, NEW Q, NEW K, NEW n \in Nat, Apart(C, P, Q, K, n),
           NEW D, NEW R, NEW S, NEW L, D \subseteq C, R \subseteq P, S \subseteq Q, L \subseteq K
    PROVE  Apart(D, R, S, L, n)
  BY DEF Apart

LEMMA PlaceIs ==
    OnePlace <=> /\ Alone(commands) /\ Alone(preparations) /\ AloneIn(published)
                 /\ Apart(OpsIn(commands), OpsIn(preparations), ToSet(published), Known, ops)
  BY DEF OnePlace, Apart, AloneIn

(* One operation changes places, and perhaps everything published with it. *)
LEMMA ApartMoved ==
    ASSUME NEW C, NEW P, NEW Q, NEW K, NEW n \in Nat, Apart(C, P, Q, K, n),
           NEW D, NEW R, NEW S, NEW L, NEW m \in Nat, n <= m, NEW op \in 1 .. m,
           D \subseteq C \union {op}, R \subseteq P \union {op}, S \subseteq Q \union {op},
           L \subseteq K \union {op} \/ (S = {} /\ L \subseteq K \union Q \union {op}),
           op \in D => op \notin R /\ op \notin S /\ op \notin L,
           op \in R => op \notin S /\ op \notin L,
           op \in S => op \notin L
    PROVE  Apart(D, R, S, L, m)
<1>1. \A x : x \in 1 .. n => x \in 1 .. m
  OBVIOUS
<1>2. D \union R \union S \union L \subseteq 1 .. m
  BY <1>1 DEF Apart
<1>3. D \intersect R = {} /\ D \intersect S = {} /\ R \intersect S = {}
  BY DEF Apart
<1>4. (D \union R \union S) \intersect L = {}
  BY DEF Apart
<1> QED BY <1>2, <1>3, <1>4 DEF Apart

(* TreeTellsWorld, node by node and write by write. *)
TellsOf(t, w, s, f) ==
    /\ \A n \in DOMAIN t.nodes : t.nodes[n].claims => (t.nodes[n].applied <=> t.nodes[n].op \in w)
    /\ \A op \in w \ f :
          \/ \E n \in DOMAIN t.nodes : t.nodes[n].op = op /\ t.nodes[n].claims
          \/ \E i \in DOMAIN s : s[i].op = op /\ IsWrite(s[i]) /\ s[i].answer = "ok"

LEMMA TellsIs == TreeTellsWorld <=> TellsOf(TheTree, world, edits, forgotten)
  BY DEF TreeTellsWorld, TellsOf, ToSet, IsWrite

WritesOf(t, w, s) ==
    /\ Alone(t.nodes)
    /\ \A i, j \in DOMAIN s : IsWrite(s[i]) /\ IsWrite(s[j]) /\ s[i].op = s[j].op => i = j
    /\ \A i \in DOMAIN s : IsWrite(s[i]) =>
          /\ s[i].answer = "ok" <=> s[i].op \in w
          /\ IF s[i].what = "claims" THEN Claimable(s[i], t)
             ELSE s[i].op \notin OpsIn(t.nodes)

LEMMA WritesIs == OneWrite <=> WritesOf(TheTree, world, edits)
  BY DEF OneWrite, WritesOf

(* They hold of the next state if they hold of what is in it. *)
LEMMA Holding ==
    ASSUME NEW t, NEW w, NEW s, NEW f, TheTree' = t, world' = w, edits' = s, forgotten' = f,
           WritesOf(t, w, s), TellsOf(t, w, s, f)
    PROVE  OneWrite' /\ TreeTellsWorld'
<1>1. OneWrite'
  BY DEF OneWrite, WritesOf
<1>2. TreeTellsWorld'
  BY DEF TreeTellsWorld, TellsOf, ToSet, IsWrite
<1> QED BY <1>1, <1>2

(* Writes are submitted: to a tree that stays, of operations nothing is known of. *)
LEMMA SubmittedKeeps ==
    ASSUME NEW t, NEW w, NEW s, NEW f, WritesOf(t, w, s), TellsOf(t, w, s, f), NEW r,
           \A i \in DOMAIN s : i \in DOMAIN r /\ r[i] = s[i],
           \A i \in DOMAIN r : i \notin DOMAIN s =>
                /\ r[i].what \in {"edit", "registered"} /\ r[i].answer = "none"
                /\ r[i].op \notin OpsIn(t.nodes) \union OpsIn(s) \union w,
           \A i, j \in DOMAIN r : i \notin DOMAIN s /\ j \notin DOMAIN s /\ r[i].op = r[j].op => i = j
    PROVE  WritesOf(t, w, r) /\ TellsOf(t, w, r, f)
<1>1. ASSUME NEW i \in DOMAIN r, NEW j \in DOMAIN r, IsWrite(r[i]), IsWrite(r[j]), r[i].op = r[j].op
      PROVE  i = j
  BY <1>1 DEF WritesOf, OpsIn
<1>2. ASSUME NEW i \in DOMAIN r, IsWrite(r[i])
      PROVE  /\ r[i].answer = "ok" <=> r[i].op \in w
             /\ IF r[i].what = "claims" THEN Claimable(r[i], t) ELSE r[i].op \notin OpsIn(t.nodes)
  <2>1. CASE i \in DOMAIN s
    BY <1>2, <2>1 DEF WritesOf
  <2>2. CASE i \notin DOMAIN s
    BY <1>2, <2>2
  <2> QED BY <2>1, <2>2
<1>3. WritesOf(t, w, r)
  BY <1>1, <1>2 DEF WritesOf
<1>4. TellsOf(t, w, r, f)
  BY DEF TellsOf
<1> QED BY <1>3, <1>4

(* An operation that leaves the place it waited in: what is left of the commands
   and of what was published. *)
Freed(op, rest, left) ==
    /\ rest \in Seq(Command) /\ Alone(rest)
    /\ OpsIn(rest) \subseteq OpsIn(commands) /\ op \notin OpsIn(rest)
    /\ preparations' \in Seq(Preparation) /\ Alone(preparations')
    /\ OpsIn(preparations') \subseteq OpsIn(preparations) /\ op \notin OpsIn(preparations')
    /\ left \in Seq(Op) /\ AloneIn(left)
    /\ ToSet(left) \subseteq ToSet(published) /\ op \notin ToSet(left)
    /\ op \notin Known /\ op \in Op /\ op \in 1 .. ops'
    /\ ops' \in 0 .. MaxOps /\ ops <= ops'
    /\ UNCHANGED <<world, forgotten>>

(* The tree and the writes stay; only the places change. *)
LEMMA Standing ==
    ASSUME Kernel, UNCHANGED <<tree, walk, world, forgotten, edits>>
    PROVE  /\ TheTree' = TheTree /\ Known' = Known
           /\ Paths' /\ WalkAlone' /\ OneWrite' /\ TreeTellsWorld'
           /\ Tree(tree') /\ (Pending' => Walking(walk')) /\ edits' \in Seq(Write)
           /\ world' \subseteq Op /\ forgotten' \subseteq Op
<1>1. TheTree' = TheTree
  BY DEF TheTree, Pending
<1>2. Known' = Known
  BY <1>1 DEF Known
<1>3. Paths' /\ WalkAlone'
  BY DEF Kernel, Paths, WalkAlone, Pending
<1>4. OneWrite' /\ TreeTellsWorld'
  BY <1>1 DEF Kernel, OneWrite, TreeTellsWorld
<1> QED BY <1>1, <1>2, <1>3, <1>4 DEF Kernel, Pending

(* It queues, behind a walk or as a walk. *)
LEMMA QueuedKeeps ==
    ASSUME Kernel, NEW op, NEW rest, NEW left, Freed(op, rest, left),
           NEW what \in Walks \union {"edit", "open", "registered"},
           commands' = Append(rest, [what |-> what, op |-> op]), published' = left,
           UNCHANGED <<tree, walk, edits>>
    PROVE  Kernel'
<1> DEFINE c == [what |-> what, op |-> op]
<1>1. c \in Command /\ c.op = op
  BY DEF Command, Freed
<1> HIDE DEF c
<1>2. commands' = Append(rest, c) /\ rest \in Seq(Command)
  BY DEF c, Freed
<1>3. commands' \in Seq(Command)
  BY <1>1, <1>2
<1>4. /\ OpsIn(commands') = OpsIn(rest) \union {c.op}
      /\ Alone(rest) /\ c.op \notin OpsIn(rest) => Alone(commands')
  BY <1>1, <1>2, OpsAppended
<1>5. OpsIn(commands') = OpsIn(rest) \union {op} /\ Alone(commands')
  BY <1>1, <1>4 DEF Freed
<1>6. UNCHANGED <<world, forgotten>>
  BY DEF Freed
<1>7. /\ TheTree' = TheTree /\ Known' = Known
      /\ Paths' /\ WalkAlone' /\ OneWrite' /\ TreeTellsWorld'
      /\ Tree(tree') /\ (Pending' => Walking(walk')) /\ edits' \in Seq(Write)
      /\ world' \subseteq Op /\ forgotten' \subseteq Op
  BY <1>6, Standing
<1>8. Apart(OpsIn(commands), OpsIn(preparations), ToSet(published), Known, ops)
  BY PlaceIs DEF Kernel
<1>9. Apart(OpsIn(commands'), OpsIn(preparations'), ToSet(published'), Known', ops')
  <2>1. /\ ops \in Nat /\ ops' \in Nat /\ ops <= ops' /\ op \in 1 .. ops'
        /\ OpsIn(commands') \subseteq OpsIn(commands) \union {op}
        /\ OpsIn(preparations') \subseteq OpsIn(preparations) \union {op}
        /\ ToSet(published') \subseteq ToSet(published) \union {op}
        /\ Known' \subseteq Known \union {op}
        /\ op \notin OpsIn(preparations') /\ op \notin ToSet(published') /\ op \notin Known'
    BY <1>5, <1>7 DEF Freed, Kernel
  <2> QED BY <1>8, <2>1, ApartMoved
<1>10. OnePlace'
  BY <1>5, <1>9 DEF Freed, OnePlace, Apart, AloneIn
<1> QED BY <1>3, <1>7, <1>10 DEF Kernel, Freed

(* It becomes an edit in the writer's hands. *)
LEMMA EditKeeps ==
    ASSUME Kernel, ~Pending, NEW op, NEW rest, NEW left, Freed(op, rest, left),
           NEW what \in {"edit", "registered"}, edits' = Submitted(what, op, 0),
           commands' = rest, published' = left, UNCHANGED <<tree, walk>>
    PROVE  Kernel'
<1> DEFINE e == Job(what, op, 0)
<1>1. e \in Write /\ e.op = op /\ e.what = what /\ e.answer = "none"
  BY DEF Job, Write, Freed
<1>2. edits' = Append(edits, e)
  BY DEF Submitted
<1> HIDE DEF e
<1>3. edits \in Seq(Write)
  BY DEF Kernel
<1>4. /\ edits' \in Seq(Write)
      /\ \A i : i \in DOMAIN edits' <=> i \in DOMAIN edits \/ i = Len(edits) + 1
      /\ \A i \in DOMAIN edits : edits'[i] = edits[i]
      /\ edits'[Len(edits) + 1] = e
  <2>1. PICK t : t = edits'
    OBVIOUS
  <2>2. t = Append(edits, e)
    BY <1>2, <2>1
  <2>3. /\ t \in Seq(Write)
        /\ \A i : i \in DOMAIN t <=> i \in DOMAIN edits \/ i = Len(edits) + 1
        /\ \A i \in DOMAIN edits : t[i] = edits[i]
        /\ t[Len(edits) + 1] = e
    BY <1>1, <1>3, <2>2, Appended
  <2> QED BY Zenon, <2>1, <2>3
<1>5. OpsIn(edits') = OpsIn(edits) \union {op}
  <2>1. OpsIn(edits') = OpsIn(edits) \union {e.op}
    BY <1>1, <1>2, <1>3, OpsAppended
  <2> QED BY Zenon, <1>1, <2>1
<1>6. UNCHANGED <<world, forgotten>>
  BY DEF Freed
<1>7. TheTree = tree /\ TheTree' = tree /\ ~Pending'
  BY DEF TheTree, Pending
<1>8. Known' = Known \union {op}
  BY <1>5, <1>6, <1>7 DEF Known
<1>9. OneWrite' /\ TreeTellsWorld'
  <2>1. WritesOf(tree, world, edits) /\ TellsOf(tree, world, edits, forgotten)
    BY <1>7, WritesIs, TellsIs DEF Kernel
  <2>2. op \notin OpsIn(tree.nodes) \union OpsIn(edits) \union world
    BY <1>7 DEF Freed, Known
  <2>3. WritesOf(tree, world, edits') /\ TellsOf(tree, world, edits', forgotten)
    BY <1>1, <1>4, <2>1, <2>2, SubmittedKeeps
  <2> QED BY <1>6, <1>7, <2>3 DEF OneWrite, WritesOf, TreeTellsWorld, TellsOf, ToSet, IsWrite
<1>10. Apart(OpsIn(commands'), OpsIn(preparations'), ToSet(published'), Known', ops')
  <2>1. Apart(OpsIn(commands), OpsIn(preparations), ToSet(published), Known, ops)
    BY PlaceIs DEF Kernel
  <2>2. /\ ops \in Nat /\ ops' \in Nat /\ ops <= ops' /\ op \in 1 .. ops'
        /\ OpsIn(commands') \subseteq OpsIn(commands) \union {op}
        /\ OpsIn(preparations') \subseteq OpsIn(preparations) \union {op}
        /\ ToSet(published') \subseteq ToSet(published) \union {op}
        /\ Known' \subseteq Known \union {op}
        /\ op \notin OpsIn(preparations') /\ op \notin ToSet(published') /\ op \notin OpsIn(commands')
    BY <1>8 DEF Freed, Kernel
  <2> QED BY <2>1, <2>2, ApartMoved
<1>11. OnePlace'
  BY <1>10 DEF Freed, OnePlace, Apart, AloneIn
<1>12. Paths' /\ WalkAlone'
  BY <1>7 DEF Kernel, Paths, WalkAlone, Pending
<1> QED BY <1>4, <1>6, <1>7, <1>9, <1>11, <1>12 DEF Kernel, Freed

(* It opens a panel: a node at once, and two writes behind it. *)
LEMMA OpenKeeps ==
    ASSUME Kernel, ~Pending, NEW op, NEW rest, NEW left, Freed(op, rest, left), Open(op),
           commands' = rest, published' = left, walk' = walk
    PROVE  Kernel'
<1>1. PICK r : r = Recorded(tree, op, FALSE)
  OBVIOUS
<1>2. Tree(tree) /\ OnePath(tree) /\ op \in Op /\ op \notin Known /\ UNCHANGED <<world, forgotten>>
  BY DEF Kernel, Paths, Freed
<1>3. /\ Tree(r) /\ OnePath(r)
      /\ \A n : n \in DOMAIN r.nodes <=> n \in DOMAIN tree.nodes \/ n = r.head
      /\ r.head \notin DOMAIN tree.nodes
      /\ \A n \in DOMAIN tree.nodes : r.nodes[n] = tree.nodes[n]
      /\ r.nodes[r.head].op = op /\ r.nodes[r.head].applied /\ r.nodes[r.head].claims = FALSE
      /\ OpsIn(r.nodes) = OpsIn(tree.nodes) \union {op}
      /\ Alone(tree.nodes) /\ op \notin OpsIn(tree.nodes) => Alone(r.nodes)
  <2>1. PICK no \in BOOLEAN : no = FALSE
    OBVIOUS
  <2>2. r = Recorded(tree, op, no)
    BY <1>1, <2>1
  <2>3. PICK t : t = tree
    OBVIOUS
  <2>4. /\ Tree(r) /\ OnePath(r)
        /\ \A n : n \in DOMAIN r.nodes <=> n \in DOMAIN t.nodes \/ n = r.head
        /\ r.head \notin DOMAIN t.nodes
        /\ \A n \in DOMAIN t.nodes : r.nodes[n] = t.nodes[n]
        /\ r.nodes[r.head].op = op /\ r.nodes[r.head].applied /\ r.nodes[r.head].claims = no
        /\ OpsIn(r.nodes) = OpsIn(t.nodes) \union {op}
        /\ Alone(t.nodes) /\ op \notin OpsIn(t.nodes) => Alone(r.nodes)
    BY SMTT(40), <1>2, <2>2, <2>3, RecordedIs
  <2> QED BY Zenon, <2>1, <2>3, <2>4
<1> DEFINE a == Job("layout", op, 0)
           b == Job("claims", op, r.head)
           k == Len(edits)
<1>4. tree' = r /\ edits' = edits \o <<a, b>>
  BY <1>1 DEF Open
<1>5. /\ a \in Write /\ a.what = "layout" /\ a.op = op
      /\ b \in Write /\ b.what = "claims" /\ b.op = op /\ b.answer = "none" /\ b.node = r.head
  BY <1>2, <1>3 DEF Job, Write, Tree
<1> HIDE DEF a, b
<1>6. edits \in Seq(Write)
  BY DEF Kernel
<1>7. /\ edits' \in Seq(Write) /\ k \in Nat
      /\ \A i : i \in DOMAIN edits' <=> i \in DOMAIN edits \/ i = k + 1 \/ i = k + 2
      /\ \A i \in DOMAIN edits : edits'[i] = edits[i] /\ i # k + 1 /\ i # k + 2
      /\ edits'[k + 1] = a /\ edits'[k + 2] = b
  <2>1. PICK t : t = edits'
    OBVIOUS
  <2> DEFINE u == Append(edits, a)
  <2>2. t = Append(u, b)
    BY <1>4, <1>5, <1>6, <2>1
  <2>3. /\ u \in Seq(Write) /\ Len(u) = k + 1
        /\ \A i : i \in DOMAIN u <=> i \in DOMAIN edits \/ i = k + 1
        /\ \A i \in DOMAIN edits : u[i] = edits[i] /\ i < k + 1
        /\ u[k + 1] = a
    BY <1>5, <1>6, Appended
  <2> HIDE DEF u
  <2>4. /\ t \in Seq(Write)
        /\ \A i : i \in DOMAIN t <=> i \in DOMAIN u \/ i = Len(u) + 1
        /\ \A i \in DOMAIN u : t[i] = u[i] /\ i < Len(u) + 1
        /\ t[Len(u) + 1] = b
    BY <1>5, <2>2, <2>3, Appended
  <2>5. k \in Nat /\ \A i \in DOMAIN edits : i \in Nat
    BY <1>6
  <2>6. Len(u) + 1 = k + 2
    BY <2>3, <2>5
  <2>7. /\ t \in Seq(Write) /\ k \in Nat
        /\ \A i : i \in DOMAIN t <=> i \in DOMAIN edits \/ i = k + 1 \/ i = k + 2
        /\ \A i \in DOMAIN edits : t[i] = edits[i] /\ i # k + 1 /\ i # k + 2
        /\ t[k + 1] = a /\ t[k + 2] = b
    BY <2>3, <2>4, <2>5, <2>6
  <2> QED BY Zenon, <2>1, <2>7
<1>8. OpsIn(edits') = OpsIn(edits) \union {op}
  BY <1>5, <1>7 DEF OpsIn
<1>9. TheTree = tree /\ TheTree' = r /\ ~Pending'
  BY <1>4 DEF TheTree, Pending
<1>10. Known' = Known \union {op}
  BY <1>2, <1>3, <1>8, <1>9 DEF Known
<1>11. WritesOf(tree, world, edits) /\ TellsOf(tree, world, edits, forgotten)
  BY <1>9, WritesIs, TellsIs DEF Kernel
<1>12. op \notin OpsIn(tree.nodes) /\ op \notin OpsIn(edits) /\ op \notin world
  BY <1>2, <1>9 DEF Known
<1>13. Alone(r.nodes)
  BY <1>3, <1>11, <1>12 DEF WritesOf
<1>14. ASSUME NEW i \in DOMAIN edits', NEW j \in DOMAIN edits', IsWrite(edits'[i]),
              IsWrite(edits'[j]), edits'[i].op = edits'[j].op
       PROVE  i = j
  <2>1. i # k + 1 /\ j # k + 1
    BY <1>5, <1>7, <1>14 DEF IsWrite
  <2>2. \A n \in DOMAIN edits : edits[n].op # op
    BY <1>12 DEF OpsIn
  <2>3. CASE i \in DOMAIN edits /\ j \in DOMAIN edits
    BY <1>7, <1>11, <1>14, <2>3 DEF WritesOf
  <2>4. CASE i \notin DOMAIN edits \/ j \notin DOMAIN edits
    BY <1>5, <1>7, <1>14, <2>1, <2>2, <2>4
  <2> QED BY <2>3, <2>4
<1>15. ASSUME NEW i \in DOMAIN edits', IsWrite(edits'[i])
       PROVE  /\ edits'[i].answer = "ok" <=> edits'[i].op \in world
              /\ IF edits'[i].what = "claims" THEN Claimable(edits'[i], r)
                 ELSE edits'[i].op \notin OpsIn(r.nodes)
  <2>1. CASE i \in DOMAIN edits
    <3>1. PICK e : e = edits[i]
      OBVIOUS
    <3>2. edits'[i] = e /\ e.op # op
      BY <1>7, <1>12, <2>1, <3>1 DEF OpsIn
    <3>3. /\ e.answer = "ok" <=> e.op \in world
          /\ IF e.what = "claims" THEN Claimable(e, tree) ELSE e.op \notin OpsIn(tree.nodes)
      BY <1>11, <1>15, <2>1, <3>1, <3>2 DEF WritesOf
    <3>4. Claimable(e, tree) => Claimable(e, r)
      BY <1>3 DEF Claimable
    <3>5. e.op \notin OpsIn(tree.nodes) => e.op \notin OpsIn(r.nodes)
      BY <1>3, <3>2
    <3> QED BY <3>2, <3>3, <3>4, <3>5
  <2>2. CASE i = k + 2
    <3>1. Claimable(b, r)
      BY <1>3, <1>5 DEF Claimable
    <3> QED BY <1>5, <1>7, <1>12, <2>2, <3>1
  <2>3. i # k + 1
    BY <1>5, <1>7, <1>15 DEF IsWrite
  <2> QED BY <1>7, <2>1, <2>2, <2>3
<1>16. WritesOf(r, world, edits')
  BY <1>13, <1>14, <1>15 DEF WritesOf
<1>17. TellsOf(r, world, edits', forgotten)
  <2>1. \A n \in DOMAIN r.nodes : r.nodes[n].claims => n \in DOMAIN tree.nodes
    BY <1>3
  <2>2. \A n \in DOMAIN r.nodes : r.nodes[n].claims => (r.nodes[n].applied <=> r.nodes[n].op \in world)
    BY <1>3, <1>11, <2>1 DEF TellsOf
  <2>3. \A o \in world \ forgotten :
          \/ \E n \in DOMAIN r.nodes : r.nodes[n].op = o /\ r.nodes[n].claims
          \/ \E i \in DOMAIN edits' : edits'[i].op = o /\ IsWrite(edits'[i]) /\ edits'[i].answer = "ok"
    BY <1>3, <1>7, <1>11 DEF TellsOf
  <2> QED BY <2>2, <2>3 DEF TellsOf
<1>18. OneWrite' /\ TreeTellsWorld'
  BY <1>2, <1>9, <1>16, <1>17 DEF OneWrite, WritesOf, TreeTellsWorld, TellsOf, ToSet, IsWrite
<1>19. Apart(OpsIn(commands'), OpsIn(preparations'), ToSet(published'), Known', ops')
  <2>1. Apart(OpsIn(commands), OpsIn(preparations), ToSet(published), Known, ops)
    BY PlaceIs DEF Kernel
  <2>2. /\ ops \in Nat /\ ops' \in Nat /\ ops <= ops' /\ op \in 1 .. ops'
        /\ OpsIn(commands') \subseteq OpsIn(commands) \union {op}
        /\ OpsIn(preparations') \subseteq OpsIn(preparations) \union {op}
        /\ ToSet(published') \subseteq ToSet(published) \union {op}
        /\ Known' \subseteq Known \union {op}
        /\ op \notin OpsIn(preparations') /\ op \notin ToSet(published') /\ op \notin OpsIn(commands')
    BY <1>10 DEF Freed, Kernel
  <2> QED BY <2>1, <2>2, ApartMoved
<1>20. OnePlace'
  BY <1>19 DEF Freed, OnePlace, Apart, AloneIn
<1>21. Paths' /\ WalkAlone'
  BY <1>3, <1>4, <1>9 DEF Paths, WalkAlone
<1>22. Tree(tree') /\ (Pending' => Walking(walk'))
  BY <1>3, <1>4, <1>9
<1> QED BY <1>2, <1>7, <1>18, <1>20, <1>21, <1>22 DEF Kernel, Freed

(* What a walk finds published becomes edits. *)
LEMMA ReadyIs ==
    ASSUME Kernel, NEW ready, ready = [i \in DOMAIN published |-> Job("edit", published[i], 0)]
    PROVE  /\ ready \in Seq(Write) /\ DOMAIN ready = DOMAIN published
           /\ \A i \in DOMAIN ready : /\ ready[i].what = "edit" /\ ready[i].answer = "none"
                                      /\ ready[i].op = published[i]
           /\ OpsIn(ready) = ToSet(published)
<1>1. published \in Seq(Op) /\ Len(published) \in Nat /\ DOMAIN published = 1 .. Len(published)
  BY DEF Kernel
<1>2. \A i \in DOMAIN published : /\ ready[i] \in Write /\ ready[i].what = "edit"
                                  /\ ready[i].answer = "none" /\ ready[i].op = published[i]
  BY <1>1 DEF Job, Write
<1>3. ready \in Seq(Write)
  BY <1>1, <1>2
<1> QED BY <1>2, <1>3 DEF OpsIn, ToSet

(* A walk behind something unfinished: it queues, last, and what was published
   is in the writer's hands. *)
LEMMA BehindKeeps ==
    ASSUME Kernel, ~Pending, NEW op, NEW rest, Freed(op, rest, published), NEW way \in Walks,
           edits' = edits \o [i \in DOMAIN published |-> Job("edit", published[i], 0)],
           commands' = Append(rest, [what |-> way, op |-> op]), published' = <<>>,
           UNCHANGED <<tree, walk>>
    PROVE  Kernel'
<1> DEFINE c == [what |-> way, op |-> op]
<1>1. PICK ready : ready = [i \in DOMAIN published |-> Job("edit", published[i], 0)]
  OBVIOUS
<1>2. /\ ready \in Seq(Write) /\ DOMAIN ready = DOMAIN published
      /\ \A i \in DOMAIN ready : /\ ready[i].what = "edit" /\ ready[i].answer = "none"
                                 /\ ready[i].op = published[i]
      /\ OpsIn(ready) = ToSet(published)
  BY <1>1, ReadyIs
<1>3. edits' = edits \o ready /\ edits \in Seq(Write)
  BY <1>1 DEF Kernel
<1> DEFINE k == Len(edits)
<1>4. /\ edits' \in Seq(Write) /\ k \in Nat
      /\ \A i \in DOMAIN edits : i \in DOMAIN edits' /\ edits'[i] = edits[i]
      /\ \A i \in DOMAIN ready : k + i \in DOMAIN edits' /\ edits'[k + i] = ready[i]
      /\ \A i \in DOMAIN edits' : i \notin DOMAIN edits => i - k \in DOMAIN ready /\ edits'[i] = ready[i - k]
  <2>1. PICK t : t = edits'
    OBVIOUS
  <2>2. t = edits \o ready
    BY <1>3, <2>1
  <2>3. /\ t \in Seq(Write) /\ k \in Nat
        /\ \A i \in DOMAIN edits : i \in DOMAIN t /\ t[i] = edits[i]
        /\ \A i \in DOMAIN ready : k + i \in DOMAIN t /\ t[k + i] = ready[i]
        /\ \A i \in DOMAIN t : i \notin DOMAIN edits => i - k \in DOMAIN ready /\ t[i] = ready[i - k]
    BY <1>2, <1>3, <2>2, Joined
  <2> QED BY Zenon, <2>1, <2>3
<1>5. \A i \in DOMAIN edits' : i \in Nat
  BY <1>4
<1> HIDE DEF k
<1>6. OpsIn(edits') \subseteq OpsIn(edits) \union ToSet(published)
  <2> SUFFICES ASSUME NEW i \in DOMAIN edits' PROVE edits'[i].op \in OpsIn(edits) \union ToSet(published)
    BY DEF OpsIn
  <2>1. CASE i \in DOMAIN edits
    BY <1>4, <2>1 DEF OpsIn
  <2>2. CASE i \notin DOMAIN edits
    <3>1. i - k \in DOMAIN ready /\ edits'[i] = ready[i - k]
      BY <1>4, <2>2
    <3>2. edits'[i].op \in OpsIn(ready)
      BY <3>1 DEF OpsIn
    <3> QED BY <1>2, <3>2
  <2> QED BY <2>1, <2>2
<1>7. c \in Command /\ c.op = op
  BY DEF Command, Freed
<1> HIDE DEF c
<1>8. commands' = Append(rest, c) /\ rest \in Seq(Command)
  BY DEF c, Freed
<1>9. commands' \in Seq(Command)
  BY <1>7, <1>8
<1>10. OpsIn(commands') = OpsIn(rest) \union {op} /\ Alone(commands')
  <2>1. /\ OpsIn(commands') = OpsIn(rest) \union {c.op}
        /\ Alone(rest) /\ c.op \notin OpsIn(rest) => Alone(commands')
    BY <1>7, <1>8, OpsAppended
  <2> QED BY <1>7, <2>1 DEF Freed
<1>11. TheTree = tree /\ TheTree' = tree /\ ~Pending' /\ UNCHANGED <<world, forgotten>>
  BY DEF TheTree, Pending, Freed
<1>12. Known' \subseteq Known \union ToSet(published)
  BY <1>6, <1>11 DEF Known
<1>13. Apart(OpsIn(commands), OpsIn(preparations), ToSet(published), Known, ops) /\ AloneIn(published)
  BY PlaceIs DEF Kernel
<1>14. OneWrite' /\ TreeTellsWorld'
  <2>1. WritesOf(tree, world, edits) /\ TellsOf(tree, world, edits, forgotten)
    BY <1>11, WritesIs, TellsIs DEF Kernel
  <2>2. \A o \in ToSet(published) : o \notin OpsIn(tree.nodes) \union OpsIn(edits) \union world
    BY <1>11, <1>13 DEF Apart, Known
  <2>3. ASSUME NEW i \in DOMAIN edits', i \notin DOMAIN edits
        PROVE  /\ i - k \in DOMAIN published /\ edits'[i].op = published[i - k]
               /\ edits'[i].what = "edit" /\ edits'[i].answer = "none"
               /\ edits'[i].op \in ToSet(published)
    <3>1. i - k \in DOMAIN ready /\ edits'[i] = ready[i - k]
      BY <1>4, <2>3
    <3>2. i - k \in DOMAIN published /\ edits'[i].op = published[i - k]
      BY <1>2, <3>1
    <3> QED BY <1>2, <3>1, <3>2 DEF ToSet
  <2>4. \A i, j \in DOMAIN edits' : i \notin DOMAIN edits /\ j \notin DOMAIN edits /\ edits'[i].op = edits'[j].op => i = j
    <3> SUFFICES ASSUME NEW i \in DOMAIN edits', NEW j \in DOMAIN edits', i \notin DOMAIN edits,
                        j \notin DOMAIN edits, edits'[i].op = edits'[j].op
                 PROVE  i = j
      OBVIOUS
    <3>1. /\ i - k \in DOMAIN published /\ edits'[i].op = published[i - k]
          /\ j - k \in DOMAIN published /\ edits'[j].op = published[j - k]
      BY <2>3
    <3>2. \A a, b \in DOMAIN published : published[a] = published[b] => a = b
      BY <1>13 DEF AloneIn
    <3>3. i - k = j - k
      BY <3>1, <3>2
    <3> QED BY <1>4, <1>5, <3>3
  <2>5. \A i \in DOMAIN edits' : i \notin DOMAIN edits =>
          /\ edits'[i].what \in {"edit", "registered"} /\ edits'[i].answer = "none"
          /\ edits'[i].op \notin OpsIn(tree.nodes) \union OpsIn(edits) \union world
    BY <2>2, <2>3
  <2>6. PICK t : t = edits'
    OBVIOUS
  <2>7. /\ \A i \in DOMAIN edits : i \in DOMAIN t /\ t[i] = edits[i]
        /\ \A i \in DOMAIN t : i \notin DOMAIN edits =>
              /\ t[i].what \in {"edit", "registered"} /\ t[i].answer = "none"
              /\ t[i].op \notin OpsIn(tree.nodes) \union OpsIn(edits) \union world
        /\ \A i, j \in DOMAIN t : i \notin DOMAIN edits /\ j \notin DOMAIN edits /\ t[i].op = t[j].op => i = j
    BY Zenon, <1>4, <2>4, <2>5, <2>6
  <2>8. WritesOf(tree, world, t) /\ TellsOf(tree, world, t, forgotten)
    BY <2>1, <2>7, SubmittedKeeps
  <2> QED BY <1>11, <2>6, <2>8, Holding
<1>15. ToSet(published') = {} /\ AloneIn(published') /\ published' \in Seq(Op)
  BY DEF ToSet, AloneIn
<1>16. Apart(OpsIn(commands'), OpsIn(preparations'), ToSet(published'), Known', ops')
  <2>1. op \notin Known'
    BY <1>12 DEF Freed
  <2>2. /\ ops \in Nat /\ ops' \in Nat /\ ops <= ops' /\ op \in 1 .. ops'
        /\ OpsIn(commands') \subseteq OpsIn(commands) \union {op}
        /\ OpsIn(preparations') \subseteq OpsIn(preparations) \union {op}
        /\ ToSet(published') = {}
        /\ Known' \subseteq Known \union ToSet(published) \union {op}
        /\ op \notin OpsIn(preparations')
    BY <1>10, <1>12, <1>15 DEF Freed, Kernel
  <2> QED BY <1>13, <2>1, <2>2, ApartMoved
<1>17. OnePlace'
  BY <1>10, <1>15, <1>16 DEF Freed, OnePlace, Apart, AloneIn
<1>18. Paths' /\ WalkAlone'
  BY <1>11 DEF Kernel, Paths, WalkAlone, Pending
<1> QED BY <1>4, <1>9, <1>11, <1>14, <1>15, <1>17, <1>18 DEF Kernel, Freed

(* The operation leaves its place, and the tree and the writes are what they were:
   a walk that has nowhere to go, or one that takes the tree with it. *)
LEMMA GoneKeeps ==
    ASSUME Kernel, NEW op, NEW rest, NEW left, Freed(op, rest, left),
           commands' = rest, published' = left, edits' = edits, TheTree' = TheTree,
           Tree(tree'), Pending' => Walking(walk'), Paths', WalkAlone'
    PROVE  Kernel'
<1>1. UNCHANGED <<world, forgotten>>
  BY DEF Freed
<1>2. Known' = Known
  BY <1>1 DEF Known
<1>3. OneWrite' /\ TreeTellsWorld'
  BY <1>1 DEF Kernel, OneWrite, TreeTellsWorld
<1>4. Apart(OpsIn(commands), OpsIn(preparations), ToSet(published), Known, ops)
  BY PlaceIs DEF Kernel
<1>5. Apart(OpsIn(commands'), OpsIn(preparations'), ToSet(published'), Known', ops')
  <2>1. /\ ops \in Nat /\ ops' \in Nat /\ ops <= ops' /\ op \in 1 .. ops'
        /\ OpsIn(commands') \subseteq OpsIn(commands) \union {op}
        /\ OpsIn(preparations') \subseteq OpsIn(preparations) \union {op}
        /\ ToSet(published') \subseteq ToSet(published) \union {op}
        /\ Known' \subseteq Known \union {op} /\ op \notin Known'
        /\ op \notin OpsIn(preparations') /\ op \notin ToSet(published') /\ op \notin OpsIn(commands')
    BY <1>2 DEF Freed, Kernel
  <2> QED BY <1>4, <2>1, ApartMoved
<1>6. OnePlace'
  BY <1>5 DEF Freed, OnePlace, Apart, AloneIn
<1> QED BY <1>1, <1>3, <1>6 DEF Kernel, Freed

(* A walk is taken up: behind something unfinished it queues; else it goes, if it
   can, and then nothing is in the writer's hands. *)
LEMMA BeginKeeps ==
    ASSUME Kernel, ~Pending, NEW op, NEW rest, Freed(op, rest, published), NEW way \in Walks,
           Begin(way, rest, op)
    PROVE  Kernel'
<1>1. CASE edits' # <<>> \/ preparations # <<>>
  <2>1. /\ edits' = edits \o [i \in DOMAIN published |-> Job("edit", published[i], 0)]
        /\ commands' = Append(rest, [what |-> way, op |-> op]) /\ published' = <<>>
        /\ UNCHANGED <<tree, walk>>
    BY <1>1 DEF Begin
  <2> QED BY <2>1, BehindKeeps
<1>2. CASE ~(edits' # <<>> \/ preparations # <<>>)
  <2>1. PICK ready : ready = [i \in DOMAIN published |-> Job("edit", published[i], 0)]
    OBVIOUS
  <2>2. ready \in Seq(Write) /\ DOMAIN ready = DOMAIN published /\ edits \in Seq(Write)
    BY <2>1, ReadyIs DEF Kernel
  <2>3. edits \o ready = <<>> /\ published' = <<>> /\ edits' = <<>> /\ commands' = rest
    BY <1>2, <2>1 DEF Begin
  <2>4. edits = <<>> /\ ready = <<>>
    BY <2>2, <2>3
  <2>5. published = <<>>
    <3>1. DOMAIN published = {} /\ published \in Seq(Op)
      BY <2>2, <2>4 DEF Kernel
    <3> QED BY <3>1, Elements
  <2>6. edits' = edits /\ published' = published
    BY <2>3, <2>4, <2>5
  <2>7. Tree(tree) /\ OnePath(tree) /\ TheTree = tree
    BY DEF Kernel, Paths, TheTree
  <2>8. CASE CanWalk(tree, way)
    <3>1. walk' = [stage |-> "going", way |-> way, tree |-> tree] /\ tree' = Bare
      BY <1>2, <2>8 DEF Begin
    <3>2. /\ walk'.stage = "going" /\ walk'.way = way /\ walk'.tree = tree
          /\ DOMAIN walk' = {"stage", "way", "tree"}
      BY <3>1
    <3>3. Pending'
      BY <3>2 DEF Pending, NoWalk
    <3>4. Walking(walk')
      BY <2>7, <3>2 DEF Walking
    <3>5. TheTree' = TheTree
      BY <2>7, <3>2, <3>3 DEF TheTree
    <3>6. Tree(tree') /\ Paths'
      BY <2>7, <3>1, <3>2, BareIs DEF Paths
    <3>7. WalkAlone'
      BY <2>3, <2>8, <3>1, <3>2 DEF WalkAlone
    <3> QED BY <2>3, <2>6, <3>4, <3>5, <3>6, <3>7, GoneKeeps
  <2>9. CASE ~CanWalk(tree, way)
    <3>1. UNCHANGED <<walk, tree>>
      BY <1>2, <2>9 DEF Begin
    <3>2. ~Pending' /\ TheTree' = TheTree
      BY <3>1 DEF Pending, TheTree
    <3>3. Tree(tree') /\ Paths' /\ WalkAlone'
      BY <2>7, <3>1, <3>2 DEF Paths, WalkAlone
    <3> QED BY <2>3, <2>6, <3>2, <3>3, GoneKeeps
  <2> QED BY <2>8, <2>9
<1> QED BY <1>1, <1>2

(* One operation, done or queued. *)
LEMMA DoKeeps ==
    ASSUME Kernel, ~Pending, NEW op, NEW rest, Freed(op, rest, published),
           NEW what \in Walks \union {"edit", "open", "registered"}, Do(what, op, rest)
    PROVE  Kernel'
<1>1. CASE what \in Walks
  BY <1>1, BeginKeeps DEF Do
<1>2. CASE what = "open"
  <2>1. commands' = rest /\ walk' = walk /\ published' = published /\ Open(op)
    BY <1>2 DEF Do, Walks
  <2> QED BY <2>1, OpenKeeps
<1>3. CASE what \in {"edit", "registered"}
  <2>1. /\ commands' = rest /\ published' = published /\ UNCHANGED <<tree, walk>>
        /\ edits' = Submitted(what, op, 0)
    BY <1>3 DEF Do, Walks, Edit
  <2> QED BY <1>3, <2>1, EditKeeps
<1> QED BY <1>1, <1>2, <1>3

LEMMA AskKeeps ==
    ASSUME Kernel, NEW op, Freed(op, commands, published),
           NEW what \in Walks \union {"edit", "open", "registered"}, Ask(what, op)
    PROVE  Kernel'
<1>1. CASE Pending
  <2>1. /\ commands' = Append(commands, [what |-> what, op |-> op]) /\ published' = published
        /\ UNCHANGED <<tree, walk, edits>>
    BY <1>1 DEF Ask
  <2> QED BY <2>1, QueuedKeeps
<1>2. CASE ~Pending
  BY <1>2, DoKeeps DEF Ask
<1> QED BY <1>1, <1>2

----------------------------------------------------------------------------
(* Every step keeps it. *)

LEMMA StillKeeps ==
    ASSUME Kernel,
           UNCHANGED <<tree, walk, commands, edits, preparations, published, world, ops, forgotten>>
    PROVE  Kernel'
<1>1. /\ Known' = Known
      /\ Paths' /\ WalkAlone' /\ OneWrite' /\ TreeTellsWorld'
      /\ Tree(tree') /\ (Pending' => Walking(walk')) /\ edits' \in Seq(Write)
  BY Standing
<1>2. OnePlace'
  BY <1>1 DEF Kernel, OnePlace
<1> QED BY <1>1, <1>2 DEF Kernel

(* The tree and the writes may change; what waits elsewhere stays where it is. *)
LEMMA ElsewhereKeeps ==
    ASSUME Kernel, UNCHANGED <<commands, preparations, published, ops>>,
           Tree(tree'), Pending' => Walking(walk'), edits' \in Seq(Write), Known' \subseteq Known,
           world' \subseteq Op, forgotten' \subseteq Op,
           Paths', WalkAlone', OneWrite', TreeTellsWorld'
    PROVE  Kernel'
<1>1. Apart(OpsIn(commands), OpsIn(preparations), ToSet(published), Known, ops) /\ ops \in Nat
  BY PlaceIs DEF Kernel
<1>2. PICK K : K = Known'
  OBVIOUS
<1>3. Apart(OpsIn(commands), OpsIn(preparations), ToSet(published), K, ops)
  BY <1>1, <1>2, ApartLess
<1>4. OnePlace'
  BY <1>2, <1>3 DEF Kernel, OnePlace, Apart
<1> QED BY <1>4 DEF Kernel

(* A number not handed out yet. *)
LEMMA FreshIs ==
    ASSUME Kernel, ops < MaxOps, ops' = ops + 1
    PROVE  /\ ops + 1 \in Op /\ ops + 1 \in 1 .. ops' /\ ops' \in 0 .. MaxOps
           /\ ops \in Nat /\ ops' \in Nat /\ ops <= ops'
           /\ ops + 1 \notin OpsIn(commands) /\ ops + 1 \notin OpsIn(preparations)
           /\ ops + 1 \notin ToSet(published) /\ ops + 1 \notin Known
           /\ Alone(commands) /\ Alone(preparations) /\ AloneIn(published)
           /\ Apart(OpsIn(commands), OpsIn(preparations), ToSet(published), Known, ops)
<1>1. /\ ops \in Nat /\ MaxOps \in Nat /\ ops + 1 \in Op /\ ops + 1 \in 1 .. ops' /\ ops' \in 0 .. MaxOps
      /\ ops <= ops' /\ ops + 1 \notin 1 .. ops
  BY SessionAssumption DEF Kernel, Op
<1>2. /\ Alone(commands) /\ Alone(preparations) /\ AloneIn(published)
      /\ Apart(OpsIn(commands), OpsIn(preparations), ToSet(published), Known, ops)
  BY PlaceIs DEF Kernel
<1>3. /\ ops + 1 \notin OpsIn(commands) /\ ops + 1 \notin OpsIn(preparations)
      /\ ops + 1 \notin ToSet(published) /\ ops + 1 \notin Known
  BY <1>1, <1>2 DEF Apart
<1> QED BY <1>1, <1>2, <1>3

LEMMA PressKeeps == ASSUME Kernel, NEW what \in Walks \union {"edit", "open"}, Press(what) PROVE Kernel'
<1>1. Freed(ops + 1, commands, published)
  BY FreshIs DEF Press, Freed, Kernel
<1> QED BY <1>1, AskKeeps DEF Press

LEMMA PrepareKeeps == ASSUME Kernel, Prepare PROVE Kernel'
<1> DEFINE p == [op |-> ops + 1, stage |-> "waiting"]
<1>1. /\ preparations' = Append(preparations, p) /\ ops < MaxOps /\ ops' = ops + 1
      /\ UNCHANGED <<tree, walk, commands, edits, published, world, forgotten>>
  BY DEF Prepare
<1>2. p \in Preparation /\ p.op = ops + 1
  BY <1>1, FreshIs DEF Preparation
<1> HIDE DEF p
<1>3. preparations \in Seq(Preparation)
  BY DEF Kernel
<1>4. preparations' \in Seq(Preparation)
  BY <1>1, <1>2, <1>3
<1>5. /\ OpsIn(preparations') = OpsIn(preparations) \union {p.op}
      /\ Alone(preparations) /\ p.op \notin OpsIn(preparations) => Alone(preparations')
  BY ZenonT(60), <1>1, <1>2, <1>3, OpsAppended
<1>6. OpsIn(preparations') = OpsIn(preparations) \union {ops + 1} /\ Alone(preparations')
  BY <1>1, <1>2, <1>5, FreshIs
<1>7. /\ Known' = Known
      /\ Paths' /\ WalkAlone' /\ OneWrite' /\ TreeTellsWorld'
      /\ Tree(tree') /\ (Pending' => Walking(walk')) /\ edits' \in Seq(Write)
  BY <1>1, Standing
<1>8. Apart(OpsIn(commands'), OpsIn(preparations'), ToSet(published'), Known', ops')
  <2>1. /\ ops \in Nat /\ ops' \in Nat /\ ops <= ops' /\ ops + 1 \in 1 .. ops'
        /\ OpsIn(commands') \subseteq OpsIn(commands) \union {ops + 1}
        /\ OpsIn(preparations') \subseteq OpsIn(preparations) \union {ops + 1}
        /\ ToSet(published') \subseteq ToSet(published) \union {ops + 1}
        /\ Known' \subseteq Known \union {ops + 1} /\ ops + 1 \notin Known'
        /\ ops + 1 \notin ToSet(published') /\ ops + 1 \notin OpsIn(commands')
        /\ Apart(OpsIn(commands), OpsIn(preparations), ToSet(published), Known, ops)
    BY <1>1, <1>6, <1>7, FreshIs
  <2> QED BY <2>1, ApartMoved
<1>9. OnePlace'
  BY <1>1, <1>6, <1>8, FreshIs DEF OnePlace, Apart, AloneIn
<1> QED BY <1>1, <1>4, <1>7, <1>9, FreshIs DEF Kernel

LEMMA PublishKeeps == ASSUME Kernel, Publish PROVE Kernel'
<1>1. /\ published' = Append(published, ops + 1) /\ ops < MaxOps /\ ops' = ops + 1
      /\ UNCHANGED <<tree, walk, commands, edits, preparations, world, forgotten>>
  BY DEF Publish
<1>2. published \in Seq(Op) /\ ops + 1 \in Op
  BY <1>1, FreshIs DEF Kernel
<1>3. /\ published' \in Seq(Op)
      /\ \A i : i \in DOMAIN published' <=> i \in DOMAIN published \/ i = Len(published) + 1
      /\ \A i \in DOMAIN published : published'[i] = published[i]
      /\ published'[Len(published) + 1] = ops + 1
  <2>1. PICK t : t = published'
    OBVIOUS
  <2>2. /\ t \in Seq(Op)
        /\ \A i : i \in DOMAIN t <=> i \in DOMAIN published \/ i = Len(published) + 1
        /\ \A i \in DOMAIN published : t[i] = published[i]
        /\ t[Len(published) + 1] = ops + 1
    BY <1>1, <1>2, <2>1, Appended
  <2> QED BY Zenon, <2>1, <2>2
<1>4. ToSet(published') = ToSet(published) \union {ops + 1}
  BY <1>3 DEF ToSet
<1>5. AloneIn(published')
  <2>1. AloneIn(published) /\ \A i \in DOMAIN published : published[i] # ops + 1
    BY <1>1, FreshIs DEF ToSet
  <2> QED BY <1>3, <2>1 DEF AloneIn
<1>7. /\ Known' = Known
      /\ Paths' /\ WalkAlone' /\ OneWrite' /\ TreeTellsWorld'
      /\ Tree(tree') /\ (Pending' => Walking(walk')) /\ edits' \in Seq(Write)
  BY <1>1, Standing
<1>8. Apart(OpsIn(commands'), OpsIn(preparations'), ToSet(published'), Known', ops')
  <2>1. /\ ops \in Nat /\ ops' \in Nat /\ ops <= ops' /\ ops + 1 \in 1 .. ops'
        /\ OpsIn(commands') \subseteq OpsIn(commands) \union {ops + 1}
        /\ OpsIn(preparations') \subseteq OpsIn(preparations) \union {ops + 1}
        /\ ToSet(published') \subseteq ToSet(published) \union {ops + 1}
        /\ Known' \subseteq Known \union {ops + 1} /\ ops + 1 \notin Known'
        /\ ops + 1 \notin OpsIn(preparations') /\ ops + 1 \notin OpsIn(commands')
        /\ Apart(OpsIn(commands), OpsIn(preparations), ToSet(published), Known, ops)
    BY <1>1, <1>4, <1>7, FreshIs
  <2> QED BY <2>1, ApartMoved
<1>9. OnePlace'
  BY <1>1, <1>5, <1>8, FreshIs DEF OnePlace, Apart, AloneIn
<1> QED BY <1>1, <1>3, <1>7, <1>9, FreshIs DEF Kernel

(* The writer answers a write: its data stand from then on, or it is refused. *)
LEMMA CommitKeeps == ASSUME Kernel, Commit PROVE Kernel'
<1>1. PICK i \in DOMAIN edits :
        /\ edits[i].answer = "none"
        /\ \E answer \in {"ok"} \union (Faults \intersect {"refused"}) :
              /\ edits' = [edits EXCEPT ![i].answer = answer]
              /\ world' = IF answer = "ok" /\ edits[i].what # "layout"
                          THEN world \union {edits[i].op} ELSE world
        /\ UNCHANGED <<tree, walk, commands, preparations, published, ops, forgotten>>
  BY DEF Commit
<1>2. PICK answer \in {"ok", "refused"} :
        /\ edits' = [edits EXCEPT ![i].answer = answer]
        /\ world' = IF answer = "ok" /\ edits[i].what # "layout"
                    THEN world \union {edits[i].op} ELSE world
  BY <1>1
<1>3. PICK e : e = edits[i]
  OBVIOUS
<1>4. edits \in Seq(Write) /\ e \in Write /\ edits # <<>>
  BY <1>3, Elements, EmptyOps DEF Kernel
<1> DEFINE x == [e EXCEPT !.answer = answer]
<1>5. x \in Write /\ x.op = e.op /\ x.what = e.what /\ x.node = e.node /\ x.answer = answer /\ e.op \in Op
  BY <1>4 DEF Write
<1> HIDE DEF x
<1>6. PICK s : s = [edits EXCEPT ![i] = x]
  OBVIOUS
<1>7. edits' = s
  BY <1>2, <1>3, <1>6 DEF x
<1>8. /\ s \in Seq(Write) /\ DOMAIN s = DOMAIN edits
      /\ s[i] = x /\ \A j \in DOMAIN edits : j # i => s[j] = edits[j]
  BY <1>4, <1>5, <1>6
<1>9. /\ ~Pending /\ ~Pending' /\ TheTree = tree /\ TheTree' = tree
      /\ e.answer = "none"
  BY <1>1, <1>3, <1>4 DEF Kernel, WalkAlone, Pending, TheTree
<1>10. OpsIn(s) = OpsIn(edits)
  BY <1>3, <1>5, <1>8, OpsSame
<1>11. PICK w : w = world'
  OBVIOUS
<1>12. w = IF answer = "ok" /\ IsWrite(e) THEN world \union {e.op} ELSE world
  BY <1>2, <1>3, <1>11 DEF IsWrite
<1>13. e.op \in OpsIn(edits)
  BY <1>3 DEF OpsIn
<1>14. Known' \subseteq Known /\ world' \subseteq Op /\ forgotten' \subseteq Op
  BY <1>1, <1>5, <1>7, <1>9, <1>10, <1>11, <1>12, <1>13 DEF Known, Kernel
<1>15. WritesOf(tree, world, edits) /\ TellsOf(tree, world, edits, forgotten)
  BY <1>9, WritesIs, TellsIs DEF Kernel
<1>16. \A j \in DOMAIN edits : IsWrite(s[j]) <=> IsWrite(edits[j])
  BY <1>3, <1>5, <1>8 DEF IsWrite
<1>17. \A j \in DOMAIN edits : s[j].op = edits[j].op /\ s[j].what = edits[j].what /\ s[j].node = edits[j].node
  BY <1>3, <1>5, <1>8
<1>18. ASSUME NEW j \in DOMAIN edits, IsWrite(edits[j])
       PROVE  /\ s[j].answer = "ok" <=> s[j].op \in w
              /\ IF s[j].what = "claims" THEN Claimable(s[j], tree) ELSE s[j].op \notin OpsIn(tree.nodes)
  <2>1. /\ edits[j].answer = "ok" <=> edits[j].op \in world
        /\ IF edits[j].what = "claims" THEN Claimable(edits[j], tree) ELSE edits[j].op \notin OpsIn(tree.nodes)
    BY <1>15, <1>18 DEF WritesOf
  <2>2. IF s[j].what = "claims" THEN Claimable(s[j], tree) ELSE s[j].op \notin OpsIn(tree.nodes)
    BY <1>17, <2>1 DEF Claimable
  <2>3. s[j].answer = "ok" <=> s[j].op \in w
    <3>1. CASE j = i
      BY <1>3, <1>5, <1>8, <1>9, <1>12, <1>18, <2>1, <3>1
    <3>2. CASE j # i
      <4>1. IsWrite(e) => edits[j].op # e.op
        BY <1>3, <1>15, <1>18, <3>2 DEF WritesOf
      <4> QED BY <1>8, <1>12, <2>1, <3>2, <4>1
    <3> QED BY <3>1, <3>2
  <2> QED BY <2>2, <2>3
<1>19. WritesOf(tree, w, s)
  BY <1>8, <1>15, <1>16, <1>17, <1>18 DEF WritesOf
<1>20. TellsOf(tree, w, s, forgotten)
  <2>1. ASSUME NEW n \in DOMAIN tree.nodes, tree.nodes[n].claims, IsWrite(e)
        PROVE  tree.nodes[n].op # e.op
    <3>1. IF e.what = "claims" THEN Claimable(e, tree) ELSE e.op \notin OpsIn(tree.nodes)
      BY <1>3, <1>15, <2>1 DEF WritesOf
    <3>2. Alone(tree.nodes)
      BY <1>15 DEF WritesOf
    <3> QED BY <2>1, <3>1, <3>2 DEF Claimable, OpsIn, Alone
  <2>2. \A n \in DOMAIN tree.nodes : tree.nodes[n].claims => (tree.nodes[n].applied <=> tree.nodes[n].op \in w)
    BY <1>12, <1>15, <2>1 DEF TellsOf
  <2>3. ASSUME NEW op \in w \ forgotten
        PROVE  \/ \E n \in DOMAIN tree.nodes : tree.nodes[n].op = op /\ tree.nodes[n].claims
               \/ \E j \in DOMAIN s : s[j].op = op /\ IsWrite(s[j]) /\ s[j].answer = "ok"
    <3>1. CASE op \in world
      <4>1. \/ \E n \in DOMAIN tree.nodes : tree.nodes[n].op = op /\ tree.nodes[n].claims
            \/ \E j \in DOMAIN edits : edits[j].op = op /\ IsWrite(edits[j]) /\ edits[j].answer = "ok"
        BY <1>15, <2>3, <3>1 DEF TellsOf
      <4>2. \A j \in DOMAIN edits : edits[j].answer = "ok" => s[j] = edits[j]
        BY <1>3, <1>8, <1>9
      <4> QED BY <1>8, <4>1, <4>2
    <3>2. CASE op \notin world
      <4>1. op = e.op /\ IsWrite(e) /\ answer = "ok"
        BY <1>12, <2>3, <3>2
      <4> QED BY <1>3, <1>5, <1>8, <1>16, <4>1
    <3> QED BY <3>1, <3>2
  <2> QED BY <2>2, <2>3 DEF TellsOf
<1>21. OneWrite' /\ TreeTellsWorld'
  <2>1. TheTree' = tree /\ world' = w /\ edits' = s /\ forgotten' = forgotten
    BY <1>1, <1>7, <1>9, <1>11
  <2> QED BY <1>19, <1>20, <2>1, Holding
<1>22. Tree(tree') /\ Paths' /\ WalkAlone'
  BY <1>1, <1>9 DEF Kernel, Paths, WalkAlone
<1>23. edits' \in Seq(Write)
  BY <1>7, <1>8
<1> QED BY <1>1, <1>9, <1>14, <1>21, <1>22, <1>23, ElsewhereKeeps

LEMMA WorkKeeps == ASSUME Kernel, Work PROVE Kernel'
<1>1. PICK i \in DOMAIN preparations : \E stage \in {"working", "ready"} :
        preparations' = [preparations EXCEPT ![i].stage = stage]
  BY DEF Work
<1>2. PICK stage \in {"working", "ready"} : preparations' = [preparations EXCEPT ![i].stage = stage]
  BY <1>1
<1>3. /\ UNCHANGED <<tree, walk, commands, edits, published, world, ops, forgotten>>
      /\ preparations \in Seq(Preparation)
  BY DEF Work, Kernel
<1>4. PICK p : p = preparations[i]
  OBVIOUS
<1> DEFINE x == [p EXCEPT !.stage = stage]
<1>5. p \in Preparation
  BY <1>3, <1>4, Elements
<1>6. x \in Preparation /\ x.op = p.op
  BY <1>5 DEF Preparation
<1> HIDE DEF x
<1>7. PICK s : s = [preparations EXCEPT ![i] = x]
  OBVIOUS
<1>8. preparations' = s
  BY <1>2, <1>4, <1>7 DEF x
<1>9. s \in Seq(Preparation) /\ DOMAIN s = DOMAIN preparations /\ \A j \in DOMAIN s : s[j].op = preparations[j].op
  BY <1>3, <1>4, <1>6, <1>7
<1>10. OpsIn(s) = OpsIn(preparations) /\ (Alone(preparations) => Alone(s))
  BY <1>9, OpsSame
<1>11. /\ Known' = Known
       /\ Paths' /\ WalkAlone' /\ OneWrite' /\ TreeTellsWorld'
       /\ Tree(tree') /\ (Pending' => Walking(walk')) /\ edits' \in Seq(Write)
  BY <1>3, Standing
<1>12. OnePlace'
  BY <1>3, <1>8, <1>10, <1>11 DEF OnePlace, Kernel
<1> QED BY <1>3, <1>8, <1>9, <1>11, <1>12 DEF Kernel

(* A walk moves the claims of one node, and the data with them. *)
LEMMA RunWalkKeeps == ASSUME Kernel, RunWalk PROVE Kernel'
<1>1. PICK t, r : t = walk.tree /\ r = Walked(t, walk.way)
  OBVIOUS
<1>2. /\ walk.stage = "going" /\ walk' = [walk EXCEPT !.stage = "back", !.tree = r]
      /\ world' = Reversed(world, t, r)
      /\ UNCHANGED <<tree, commands, edits, preparations, published, ops, forgotten>>
  BY <1>1 DEF RunWalk
<1>3. Pending
  BY <1>2 DEF Pending, NoWalk
<1>4. /\ Walking(walk) /\ Tree(t) /\ OnePath(t) /\ walk.way \in Walks /\ CanWalk(t, walk.way)
      /\ tree = Bare /\ edits = <<>> /\ TheTree = t
  BY <1>1, <1>2, <1>3 DEF Kernel, Walking, Paths, WalkAlone, TheTree
<1>5. /\ Tree(r) /\ OnePath(r) /\ DOMAIN r.nodes = DOMAIN t.nodes
      /\ \A m \in DOMAIN t.nodes : r.nodes[m].op = t.nodes[m].op /\ r.nodes[m].claims = t.nodes[m].claims
  BY <1>1, <1>4, WalkedIs
<1>6. /\ walk'.stage = "back" /\ walk'.tree = r /\ walk'.way = walk.way
      /\ DOMAIN walk' = {"stage", "way", "tree"}
  BY <1>2, <1>4 DEF Walking
<1>7. Pending' /\ Walking(walk') /\ TheTree' = r
  <2>1. Pending'
    BY <1>6 DEF Pending, NoWalk
  <2> QED BY <1>4, <1>5, <1>6, <2>1 DEF Walking, TheTree
<1>8. OpsIn(r.nodes) = OpsIn(t.nodes) /\ (Alone(t.nodes) => Alone(r.nodes))
  BY <1>5, OpsSame
<1>9. PICK w : w = world'
  OBVIOUS
<1> DEFINE moved(side) == {n \in DOMAIN r.nodes : /\ r.nodes[n].claims /\ r.nodes[n].applied = side
                                                  /\ t.nodes[n].applied # side}
           opsOf(side) == {r.nodes[n].op : n \in moved(side)}
<1>10. w = (world \ opsOf(FALSE)) \union opsOf(TRUE)
  BY <1>2, <1>9 DEF Reversed
<1>11. WritesOf(t, world, edits) /\ TellsOf(t, world, edits, forgotten)
  BY <1>4, WritesIs, TellsIs DEF Kernel
<1>12. Alone(t.nodes) /\ Alone(r.nodes)
  BY <1>8, <1>11 DEF WritesOf
<1>13. \A n \in DOMAIN r.nodes : r.nodes[n].applied \in BOOLEAN /\ t.nodes[n].applied \in BOOLEAN
  BY <1>4, <1>5, TreeIs
<1>14. \A n \in DOMAIN r.nodes : /\ r.nodes[n].op \in opsOf(FALSE) <=> n \in moved(FALSE)
                                 /\ r.nodes[n].op \in opsOf(TRUE) <=> n \in moved(TRUE)
  BY <1>12 DEF Alone
<1>15. ASSUME NEW n \in DOMAIN r.nodes, r.nodes[n].claims
       PROVE  r.nodes[n].applied <=> r.nodes[n].op \in w
  <2>1. t.nodes[n].applied <=> r.nodes[n].op \in world
    BY <1>5, <1>11, <1>15 DEF TellsOf
  <2>2. r.nodes[n].op \in w <=> n \in moved(TRUE) \/ (n \notin moved(FALSE) /\ r.nodes[n].op \in world)
    BY <1>10, <1>14
  <2> QED BY <1>13, <1>15, <2>1, <2>2
<1>16. ASSUME NEW op \in w \ forgotten
       PROVE  \E n \in DOMAIN r.nodes : r.nodes[n].op = op /\ r.nodes[n].claims
  <2>1. CASE op \in opsOf(TRUE)
    BY <2>1
  <2>2. CASE op \notin opsOf(TRUE)
    <3>1. op \in world \ forgotten
      BY <1>10, <1>16, <2>2
    <3>2. \E n \in DOMAIN t.nodes : t.nodes[n].op = op /\ t.nodes[n].claims
      BY <1>4, <1>11, <3>1, EmptyOps DEF TellsOf
    <3> QED BY <1>5, <3>2
  <2> QED BY <2>1, <2>2
<1>17. TellsOf(r, w, edits, forgotten)
  BY <1>15, <1>16 DEF TellsOf
<1>18. WritesOf(r, w, edits)
  BY <1>4, <1>12, EmptyOps DEF WritesOf
<1>19. OneWrite' /\ TreeTellsWorld'
  BY <1>2, <1>7, <1>9, <1>17, <1>18, Holding
<1>20. w \subseteq world \union OpsIn(t.nodes)
  BY ZenonT(60), <1>5, <1>10 DEF OpsIn
<1>21. Known' \subseteq Known
  <2>1. Known' = OpsIn(TheTree'.nodes) \union OpsIn(edits') \union world' \union forgotten'
    BY DEF Known
  <2>2. OpsIn(TheTree'.nodes) \union OpsIn(edits') \union world' \union forgotten' \subseteq Known
    BY <1>2, <1>4, <1>7, <1>8, <1>9, <1>20 DEF Known
  <2> QED BY <2>1, <2>2
<1>22. world' \subseteq Op /\ forgotten' \subseteq Op
  <2>1. OpsIn(t.nodes) \subseteq Op
    BY <1>4, TreeIs DEF OpsIn
  <2> QED BY <1>2, <1>9, <1>20, <2>1 DEF Kernel
<1>23. Tree(tree') /\ Paths' /\ WalkAlone'
  BY <1>2, <1>4, <1>5, <1>6, BareIs DEF Paths, WalkAlone
<1>24. edits' \in Seq(Write)
  BY <1>2 DEF Kernel
<1> QED BY <1>2, <1>7, <1>19, <1>21, <1>22, <1>23, <1>24, ElsewhereKeeps

(* The task of a walk goes, and what its tree knew is forgotten. *)
LEMMA DieKeeps == ASSUME Kernel, Die PROVE Kernel'
<1>1. PICK t : t = walk.tree
  OBVIOUS
<1>2. /\ walk.stage = "going" /\ walk' = [walk EXCEPT !.stage = "lost"]
      /\ forgotten' = forgotten \union {n.op : n \in ToSet(t.nodes)}
      /\ UNCHANGED <<tree, commands, edits, preparations, published, ops, world>>
  BY <1>1 DEF Die
<1>3. Pending
  BY <1>2 DEF Pending, NoWalk
<1>4. /\ Walking(walk) /\ Tree(t) /\ OnePath(t) /\ tree = Bare /\ edits = <<>> /\ TheTree = t
  BY <1>1, <1>2, <1>3 DEF Kernel, Walking, Paths, WalkAlone, TheTree
<1>5. /\ walk'.stage = "lost" /\ walk'.tree = t /\ walk'.way = walk.way
      /\ DOMAIN walk' = {"stage", "way", "tree"}
  BY <1>1, <1>2, <1>4 DEF Walking
<1>6. Pending' /\ Walking(walk') /\ TheTree' = Bare
  <2>1. Pending'
    BY <1>5 DEF Pending, NoWalk
  <2> QED BY <1>2, <1>4, <1>5, <2>1 DEF Walking, TheTree
<1>7. PICK f : f = forgotten'
  OBVIOUS
<1>8. f = forgotten \union OpsIn(t.nodes)
  BY <1>2, <1>7 DEF ToSet, OpsIn
<1>9. TellsOf(t, world, edits, forgotten)
  BY <1>4, TellsIs DEF Kernel
<1>10. \A op \in world \ forgotten : op \in OpsIn(t.nodes)
  BY <1>4, <1>9, EmptyOps DEF TellsOf, OpsIn
<1>11. TellsOf(Bare, world, edits, f)
  BY <1>8, <1>10, BareIs, EmptyOps DEF TellsOf
<1>12. WritesOf(Bare, world, edits)
  BY <1>4, BareIs, EmptyOps DEF WritesOf
<1>13. OneWrite' /\ TreeTellsWorld'
  BY <1>2, <1>6, <1>7, <1>11, <1>12, Holding
<1>14. Known' \subseteq Known
  BY <1>2, <1>4, <1>6, <1>7, <1>8, BareIs, EmptyOps DEF Known
<1>15. world' \subseteq Op /\ forgotten' \subseteq Op
  <2>1. OpsIn(t.nodes) \subseteq Op
    BY <1>4, TreeIs DEF OpsIn
  <2> QED BY <1>2, <1>7, <1>8, <2>1 DEF Kernel
<1>16. Tree(tree') /\ Paths' /\ WalkAlone'
  BY <1>2, <1>4, <1>5, BareIs DEF Paths, WalkAlone
<1>17. edits' \in Seq(Write)
  BY <1>2 DEF Kernel
<1> QED BY <1>2, <1>6, <1>13, <1>14, <1>15, <1>16, <1>17, ElsewhereKeeps

(* What is ready leaves the preparations, and is asked for. *)
LEMMA PollWorkKeeps == ASSUME Kernel, PollWork PROVE Kernel'
<1>1. CASE ReadyWork = {}
  BY <1>1, StillKeeps DEF PollWork, Left, Kept
<1>2. CASE ReadyWork # {}
  <2> DEFINE j == CHOOSE j \in ReadyWork : \A k \in ReadyWork : j <= k
  <2>1. /\ preparations' = RemoveAt(preparations, j) /\ Ask("registered", preparations[j].op)
        /\ UNCHANGED <<ops, world, forgotten>>
    BY <1>2 DEF PollWork, Kept
  <2>2. preparations \in Seq(Preparation)
    BY DEF Kernel
  <2>3. j \in DOMAIN preparations
    <3>1. ReadyWork \subseteq DOMAIN preparations
      BY DEF ReadyWork
    <3>2. \E k \in ReadyWork : \A m \in ReadyWork : k <= m
      BY <1>2, <2>2, <3>1, FirstOfSome
    <3>3. j \in ReadyWork
      BY Zenon, <3>2
    <3> QED BY <3>1, <3>3
  <2> HIDE DEF j
  <2>4. PICK op : op = preparations[j].op
    OBVIOUS
  <2>5. op \in Op
    <3>1. preparations[j] \in Preparation
      BY <2>2, <2>3
    <3> QED BY <2>4, <3>1 DEF Preparation
  <2>6. PICK t : t = RemoveAt(preparations, j)
    OBVIOUS
  <2>7. /\ OpsIn(t) \subseteq OpsIn(preparations) /\ op \in OpsIn(preparations)
        /\ Alone(preparations) => Alone(t) /\ op \notin OpsIn(t)
        /\ t \in Seq(Preparation)
    <3>1. t \in Seq(Preparation)
      BY <2>2, <2>3, <2>6, Removed
    <3>2. /\ OpsIn(t) \subseteq OpsIn(preparations) /\ preparations[j].op \in OpsIn(preparations)
          /\ Alone(preparations) => Alone(t) /\ preparations[j].op \notin OpsIn(t)
      BY <2>2, <2>3, <2>6, OpsRemoved
    <3> QED BY <2>4, <3>1, <3>2
  <2>8. preparations' = t
    BY <2>1, <2>6
  <2>9. /\ Alone(commands) /\ Alone(preparations) /\ AloneIn(published)
        /\ Apart(OpsIn(commands), OpsIn(preparations), ToSet(published), Known, ops)
    BY PlaceIs DEF Kernel
  <2>10. /\ op \notin OpsIn(commands) /\ op \notin ToSet(published) /\ op \notin Known /\ op \in 1 .. ops
    BY <2>7, <2>9 DEF Apart
  <2>11. ops \in Nat /\ ops \in 0 .. MaxOps /\ ops' = ops
    BY <2>1 DEF Kernel
  <2>12. Freed(op, commands, published)
    BY <2>1, <2>5, <2>7, <2>8, <2>9, <2>10, <2>11 DEF Freed, Kernel
  <2> QED BY <2>1, <2>4, <2>12, AskKeeps
<1> QED BY <1>1, <1>2

(* The first of the writes is finished: refused or only the layout, it leaves the
   tree; a claim completes its node; any other edit becomes one. *)
LEMMA PollEditsKeeps == ASSUME Kernel, PollEdits PROVE Kernel'
<1>1. CASE ~ReadyEdit
  BY <1>1, StillKeeps DEF PollEdits, Left, Kept
<1>2. CASE ReadyEdit
  <2>1. PICK e, s, r : e = edits[1] /\ s = Tail(edits) /\ r = tree'
    OBVIOUS
  <2>2. /\ edits # <<>> /\ e.answer # "none" /\ Finish(e) /\ edits' = s
        /\ UNCHANGED <<walk, commands, preparations, published, ops, world, forgotten>>
    BY <1>2, <2>1 DEF ReadyEdit, PollEdits, Kept
  <2>3. ~Pending /\ ~Pending' /\ TheTree = tree /\ TheTree' = r
    BY <2>1, <2>2 DEF Kernel, WalkAlone, Pending, TheTree
  <2>4. /\ s \in Seq(Write) /\ e \in Write /\ 1 \in DOMAIN edits
        /\ \A i : i \in DOMAIN s => i \in Nat /\ i >= 1 /\ i + 1 \in DOMAIN edits /\ s[i] = edits[i + 1] /\ i + 1 # 1
        /\ \A i \in DOMAIN edits : i # 1 => i - 1 \in DOMAIN s /\ s[i - 1] = edits[i]
    BY <2>1, <2>2, Behind DEF Kernel
  <2>5. e.op \in Op /\ e.answer \in {"ok", "refused"} /\ e.op \in OpsIn(edits)
    BY <2>1, <2>2, <2>4 DEF Write, OpsIn
  <2>6. OpsIn(edits) = OpsIn(s) \union {e.op}
    BY <2>1, <2>2, OpsBehind DEF Kernel
  <2>7. Tree(tree) /\ OnePath(tree) /\ WritesOf(tree, world, edits) /\ TellsOf(tree, world, edits, forgotten)
    BY <2>3, WritesIs, TellsIs DEF Kernel, Paths
  <2>8. /\ IsWrite(e) => (e.answer = "ok" <=> e.op \in world)
        /\ IsWrite(e) => IF e.what = "claims" THEN Claimable(e, tree) ELSE e.op \notin OpsIn(tree.nodes)
    BY <2>1, <2>4, <2>7 DEF WritesOf
  <2>9. \A i \in DOMAIN s : IsWrite(s[i]) => /\ s[i].answer = "ok" <=> s[i].op \in world
                                             /\ IF s[i].what = "claims" THEN Claimable(s[i], tree)
                                                ELSE s[i].op \notin OpsIn(tree.nodes)
    BY <2>4, <2>7 DEF WritesOf
  <2>10. \A i \in DOMAIN s : IsWrite(s[i]) /\ IsWrite(e) => s[i].op # e.op
    <3> SUFFICES ASSUME NEW i \in DOMAIN s, IsWrite(s[i]), IsWrite(e), s[i].op = e.op PROVE FALSE
      OBVIOUS
    <3>1. i + 1 \in DOMAIN edits /\ s[i] = edits[i + 1] /\ i + 1 # 1
      BY <2>4
    <3>2. i + 1 = 1
      BY <2>1, <2>4, <2>7, <3>1 DEF WritesOf
    <3> QED BY <3>1, <3>2
  <2>11. \A i, j \in DOMAIN s : IsWrite(s[i]) /\ IsWrite(s[j]) /\ s[i].op = s[j].op => i = j
    <3> SUFFICES ASSUME NEW i \in DOMAIN s, NEW j \in DOMAIN s, IsWrite(s[i]), IsWrite(s[j]), s[i].op = s[j].op
                 PROVE  i = j
      OBVIOUS
    <3>1. i + 1 = j + 1
      BY <2>4, <2>7 DEF WritesOf
    <3> QED BY <2>4, <3>1
  <2>12. ASSUME NEW op \in world \ forgotten
         PROVE  \/ \E n \in DOMAIN tree.nodes : tree.nodes[n].op = op /\ tree.nodes[n].claims
                \/ \E i \in DOMAIN s : s[i].op = op /\ IsWrite(s[i]) /\ s[i].answer = "ok"
                \/ op = e.op /\ IsWrite(e) /\ e.answer = "ok"
    <3>1. \/ \E n \in DOMAIN tree.nodes : tree.nodes[n].op = op /\ tree.nodes[n].claims
          \/ \E i \in DOMAIN edits : edits[i].op = op /\ IsWrite(edits[i]) /\ edits[i].answer = "ok"
      BY <2>7, <2>12 DEF TellsOf
    <3> QED BY <2>1, <2>4, <3>1
  <2>13. CASE e.answer # "ok" \/ e.what = "layout"
    <3>1. r = tree
      BY <2>1, <2>2, <2>13 DEF Finish
    <3>2. WritesOf(r, world, s) /\ TellsOf(r, world, s, forgotten)
      BY <2>7, <2>9, <2>11, <2>12, <2>13, <3>1 DEF WritesOf, TellsOf, IsWrite
    <3>3. OneWrite' /\ TreeTellsWorld'
      BY <2>2, <2>3, <3>2, Holding
    <3>4. Known' \subseteq Known
      BY <2>2, <2>3, <2>6, <3>1 DEF Known
    <3>5. Tree(tree') /\ Paths' /\ WalkAlone'
      BY <2>1, <2>3, <2>7, <3>1 DEF Paths, WalkAlone
    <3>6. edits' \in Seq(Write) /\ world' \subseteq Op /\ forgotten' \subseteq Op
      BY <2>2, <2>4 DEF Kernel
    <3> QED BY <2>2, <2>3, <3>3, <3>4, <3>5, <3>6, ElsewhereKeeps
  <2>14. CASE e.answer = "ok" /\ e.what = "claims"
    <3>1. IsWrite(e) /\ r = ClaimedAt(tree, e.node) /\ Claimable(e, tree) /\ e.op \in world
      BY <2>1, <2>2, <2>8, <2>14 DEF Finish, IsWrite
    <3>2. /\ e.node \in DOMAIN tree.nodes /\ tree.nodes[e.node].op = e.op
          /\ tree.nodes[e.node].applied /\ ~tree.nodes[e.node].claims
      BY <3>1 DEF Claimable
    <3>3. /\ Tree(r) /\ OnePath(r) /\ r.head = tree.head /\ DOMAIN r.nodes = DOMAIN tree.nodes
          /\ \A m \in DOMAIN tree.nodes : /\ r.nodes[m].op = tree.nodes[m].op
                                          /\ r.nodes[m].applied = tree.nodes[m].applied
                                          /\ m # e.node => r.nodes[m].claims = tree.nodes[m].claims
          /\ r.nodes[e.node].claims
      BY <2>7, <3>1, <3>2, ClaimedIs
    <3>4. OpsIn(r.nodes) = OpsIn(tree.nodes) /\ (Alone(tree.nodes) => Alone(r.nodes))
      BY <3>3, OpsSame
    <3>5. \A i \in DOMAIN s : IsWrite(s[i]) /\ Claimable(s[i], tree) => Claimable(s[i], r)
      BY <2>10, <3>1, <3>2, <3>3 DEF Claimable
    <3>6. WritesOf(r, world, s)
      BY <2>7, <2>9, <2>11, <3>4, <3>5 DEF WritesOf
    <3>7. \A n \in DOMAIN r.nodes : r.nodes[n].claims => (r.nodes[n].applied <=> r.nodes[n].op \in world)
      BY <2>7, <3>1, <3>2, <3>3 DEF TellsOf
    <3>8. \A n \in DOMAIN tree.nodes : tree.nodes[n].claims => r.nodes[n].claims
      BY <3>3
    <3>9. TellsOf(r, world, s, forgotten)
      BY <2>12, <3>2, <3>3, <3>7, <3>8 DEF TellsOf
    <3>10. OneWrite' /\ TreeTellsWorld'
      BY <2>2, <2>3, <3>6, <3>9, Holding
    <3>11. Known' \subseteq Known
      BY <2>2, <2>3, <2>6, <3>4 DEF Known
    <3>12. Tree(tree') /\ Paths' /\ WalkAlone'
      BY <2>1, <2>3, <3>3 DEF Paths, WalkAlone
    <3>13. edits' \in Seq(Write) /\ world' \subseteq Op /\ forgotten' \subseteq Op
      BY <2>2, <2>4 DEF Kernel
    <3> QED BY <2>2, <2>3, <3>10, <3>11, <3>12, <3>13, ElsewhereKeeps
  <2>15. CASE e.answer = "ok" /\ e.what \notin {"layout", "claims"}
    <3>1. IsWrite(e) /\ r = Recorded(tree, e.op, TRUE) /\ e.op \notin OpsIn(tree.nodes) /\ e.op \in world
      BY <2>1, <2>2, <2>8, <2>15 DEF Finish, IsWrite
    <3>2. /\ Tree(r) /\ OnePath(r)
          /\ \A n : n \in DOMAIN r.nodes <=> n \in DOMAIN tree.nodes \/ n = r.head
          /\ r.head \notin DOMAIN tree.nodes
          /\ \A n \in DOMAIN tree.nodes : r.nodes[n] = tree.nodes[n]
          /\ r.nodes[r.head].op = e.op /\ r.nodes[r.head].applied /\ r.nodes[r.head].claims
          /\ OpsIn(r.nodes) = OpsIn(tree.nodes) \union {e.op}
          /\ Alone(tree.nodes) /\ e.op \notin OpsIn(tree.nodes) => Alone(r.nodes)
      <4>1. PICK yes \in BOOLEAN : yes = TRUE
        OBVIOUS
      <4>2. r = Recorded(tree, e.op, yes)
        BY <3>1, <4>1
      <4>3. PICK t : t = tree
        OBVIOUS
      <4>4. PICK op \in Op : op = e.op
        BY <2>5
      <4>5. Tree(t) /\ OnePath(t) /\ r = Recorded(t, op, yes)
        BY <2>7, <4>2, <4>3, <4>4
      <4>6. /\ Tree(r) /\ OnePath(r)
            /\ \A n : n \in DOMAIN r.nodes <=> n \in DOMAIN t.nodes \/ n = r.head
            /\ r.head \notin DOMAIN t.nodes
            /\ \A n \in DOMAIN t.nodes : r.nodes[n] = t.nodes[n]
            /\ r.nodes[r.head].op = op /\ r.nodes[r.head].applied /\ r.nodes[r.head].claims = yes
            /\ OpsIn(r.nodes) = OpsIn(t.nodes) \union {op}
            /\ Alone(t.nodes) /\ op \notin OpsIn(t.nodes) => Alone(r.nodes)
        BY SMTT(40), <4>5, RecordedIs
      <4> QED BY <4>1, <4>3, <4>4, <4>6
    <3>3. Alone(r.nodes)
      BY <2>7, <3>1, <3>2 DEF WritesOf
    <3>4. \A i \in DOMAIN s : IsWrite(s[i]) /\ Claimable(s[i], tree) => Claimable(s[i], r)
      BY <3>2 DEF Claimable
    <3>5. \A i \in DOMAIN s : IsWrite(s[i]) => s[i].op # e.op
      BY <2>10, <3>1
    <3>6. WritesOf(r, world, s)
      BY <2>9, <2>11, <3>2, <3>3, <3>4, <3>5 DEF WritesOf
    <3>7. \A n \in DOMAIN r.nodes : r.nodes[n].claims => (r.nodes[n].applied <=> r.nodes[n].op \in world)
      BY ZenonT(60), <2>7, <3>1, <3>2 DEF TellsOf
    <3>8. TellsOf(r, world, s, forgotten)
      BY <2>12, <3>2, <3>7 DEF TellsOf
    <3>9. OneWrite' /\ TreeTellsWorld'
      BY <2>2, <2>3, <3>6, <3>8, Holding
    <3>10. Known' \subseteq Known
      BY <2>2, <2>3, <2>6, <3>2 DEF Known
    <3>11. Tree(tree') /\ Paths' /\ WalkAlone'
      BY <2>1, <2>3, <3>2 DEF Paths, WalkAlone
    <3>12. edits' \in Seq(Write) /\ world' \subseteq Op /\ forgotten' \subseteq Op
      BY <2>2, <2>4 DEF Kernel
    <3> QED BY <2>2, <2>3, <3>9, <3>10, <3>11, <3>12, ElsewhereKeeps
  <2> QED BY <2>13, <2>14, <2>15
<1> QED BY <1>1, <1>2

(* The tree comes back from a walk that ran, and stays bare after one that died. *)
LEMMA PollWalkKeeps == ASSUME Kernel, PollWalk PROVE Kernel'
<1>1. CASE ~ReadyWalk
  BY <1>1, StillKeeps DEF PollWalk, Left, Kept
<1>2. CASE ReadyWalk
  <2>1. /\ walk' = NoWalk /\ tree' = IF walk.stage = "back" THEN walk.tree ELSE tree
        /\ UNCHANGED <<commands, edits, preparations, published, ops, world, forgotten>>
    BY <1>2 DEF PollWalk, Kept
  <2>2. Pending /\ walk.stage \in {"back", "lost"}
    BY <1>2 DEF ReadyWalk, Pending, NoWalk
  <2>3. ~Pending' /\ TheTree' = tree'
    BY <2>1 DEF Pending, TheTree
  <2>4. TheTree' = TheTree
    BY <2>1, <2>2, <2>3 DEF TheTree
  <2>5. Tree(tree') /\ OnePath(tree')
    BY <2>1, <2>2 DEF Kernel, Walking, Paths
  <2>6. Known' \subseteq Known
    BY <2>1, <2>4 DEF Known
  <2>7. OneWrite' /\ TreeTellsWorld'
    BY <2>1, <2>4 DEF Kernel, OneWrite, TreeTellsWorld
  <2>8. Paths' /\ WalkAlone'
    BY <2>3, <2>5 DEF Paths, WalkAlone
  <2> QED BY <2>1, <2>3, <2>5, <2>6, <2>7, <2>8, ElsewhereKeeps DEF Kernel
<1> QED BY <1>1, <1>2

LEMMA PollCommandsKeeps == ASSUME Kernel, PollCommands PROVE Kernel'
<1>1. CASE ~CanCommand
  BY <1>1, StillKeeps DEF PollCommands, Left, Kept
<1>2. CASE CanCommand
  <2>1. PICK c, rest : c = commands[1] /\ rest = Tail(commands)
    OBVIOUS
  <2>2. /\ ~Pending /\ commands # <<>> /\ Do(c.what, c.op, rest)
        /\ UNCHANGED <<preparations, ops, world, forgotten>>
    BY <1>2, <2>1 DEF CanCommand, PollCommands, Kept
  <2>3. rest \in Seq(Command) /\ c.op \in Op /\ c.what \in Walks \union {"edit", "open", "registered"}
    <3>1. rest \in Seq(Command) /\ c \in Command
      BY <2>1, <2>2, Behind DEF Kernel
    <3> QED BY <3>1 DEF Command
  <2>4. /\ OpsIn(commands) = OpsIn(rest) \union {c.op}
        /\ Alone(commands) => Alone(rest) /\ c.op \notin OpsIn(rest)
    BY <2>1, <2>2, OpsBehind DEF Kernel
  <2>5. /\ Alone(commands) /\ Alone(preparations) /\ AloneIn(published)
        /\ Apart(OpsIn(commands), OpsIn(preparations), ToSet(published), Known, ops)
    BY PlaceIs DEF Kernel
  <2>6. c.op \notin OpsIn(preparations) /\ c.op \notin ToSet(published) /\ c.op \notin Known /\ c.op \in 1 .. ops
    BY <2>4, <2>5 DEF Apart
  <2>7. ops \in Nat /\ ops \in 0 .. MaxOps /\ ops' = ops
    BY <2>2 DEF Kernel
  <2>8. Freed(c.op, rest, published)
    BY <2>2, <2>3, <2>4, <2>5, <2>6, <2>7 DEF Freed, Kernel
  <2> QED BY <2>2, <2>3, <2>8, DoKeeps
<1> QED BY <1>1, <1>2

(* What a worker had for the session becomes an edit, or queues behind a walk. *)
LEMMA PollAppsKeeps == ASSUME Kernel, PollApps PROVE Kernel'
<1>1. CASE published = <<>>
  BY <1>1, StillKeeps DEF PollApps, Left
<1>2. CASE published # <<>>
  <2>1. PICK op, left : op = published[1] /\ left = Tail(published)
    OBVIOUS
  <2>2. /\ published' = left /\ UNCHANGED <<tree, walk, preparations, ops, world, forgotten>>
    BY <1>2, <2>1 DEF PollApps
  <2>3. /\ left \in Seq(Op) /\ op \in Op /\ 1 \in DOMAIN published
        /\ \A i : i \in DOMAIN left => i \in Nat /\ i >= 1 /\ i + 1 \in DOMAIN published /\ left[i] = published[i + 1] /\ i + 1 # 1
    BY <1>2, <2>1, Behind DEF Kernel
  <2>4. /\ Alone(commands) /\ Alone(preparations) /\ AloneIn(published)
        /\ Apart(OpsIn(commands), OpsIn(preparations), ToSet(published), Known, ops)
    BY PlaceIs DEF Kernel
  <2>5. ToSet(left) \subseteq ToSet(published) /\ op \in ToSet(published)
    BY <2>1, <2>3 DEF ToSet
  <2>6. AloneIn(left)
    <3> SUFFICES ASSUME NEW i \in DOMAIN left, NEW j \in DOMAIN left, left[i] = left[j] PROVE i = j
      BY DEF AloneIn
    <3>1. i + 1 = j + 1
      BY <2>3, <2>4 DEF AloneIn
    <3> QED BY <2>3, <3>1
  <2>7. op \notin ToSet(left)
    <3> SUFFICES ASSUME NEW i \in DOMAIN left, left[i] = op PROVE FALSE
      BY DEF ToSet
    <3>1. i + 1 = 1
      BY <2>1, <2>3, <2>4 DEF AloneIn
    <3> QED BY <2>3, <3>1
  <2>8. op \notin OpsIn(commands) /\ op \notin OpsIn(preparations) /\ op \notin Known /\ op \in 1 .. ops
    BY <2>4, <2>5 DEF Apart
  <2>9. ops \in Nat /\ ops \in 0 .. MaxOps /\ ops' = ops
    BY <2>2 DEF Kernel
  <2>10. Freed(op, commands, left)
    BY <2>2, <2>3, <2>4, <2>5, <2>6, <2>7, <2>8, <2>9 DEF Freed, Kernel
  <2>11. CASE Pending
    <3>1. commands' = Append(commands, [what |-> "edit", op |-> op]) /\ edits' = edits
      BY <1>2, <2>1, <2>11 DEF PollApps
    <3> QED BY <2>2, <2>10, <3>1, QueuedKeeps
  <2>12. CASE ~Pending
    <3>1. edits' = Submitted("edit", op, 0) /\ commands' = commands
      BY <1>2, <2>1, <2>12 DEF PollApps
    <3> QED BY <2>2, <2>10, <2>12, <3>1, EditKeeps
  <2> QED BY <2>11, <2>12
<1> QED BY <1>1, <1>2

----------------------------------------------------------------------------
(* And where the settle and the shutdown have come to. *)

At == {"idle", "work", "edits", "walk", "commands", "apps"}
Shutdown == {"running", "draining", "flushing", "retiring", "draining again",
             "flushing again", "closing", "complete"}

LEMMA InvIs == SessionInv <=> Kernel /\ at \in At /\ shutdown \in Shutdown /\ LastHalves
  BY DEF SessionInv, TypeOK, Kernel, At, Shutdown

LEMMA KernelSteps == ASSUME Kernel, Next PROVE Kernel'
<1>1. CASE \E what \in Walks \union {"edit", "open"} : Press(what)
  BY <1>1, PressKeeps
<1>2. CASE Prepare
  BY <1>2, PrepareKeeps
<1>3. CASE Quit
  BY <1>3, StillKeeps DEF Quit
<1>4. CASE Commit
  BY <1>4, CommitKeeps
<1>5. CASE Work
  BY <1>5, WorkKeeps
<1>6. CASE RunWalk
  BY <1>6, RunWalkKeeps
<1>7. CASE Die
  BY <1>7, DieKeeps
<1>8. CASE Publish
  BY <1>8, PublishKeeps
<1>9. CASE Wake
  BY <1>9, StillKeeps DEF Wake, Left, Kept
<1>10. CASE PollWork
  BY <1>10, PollWorkKeeps
<1>11. CASE PollEdits
  BY <1>11, PollEditsKeeps
<1>12. CASE PollWalk
  BY <1>12, PollWalkKeeps
<1>13. CASE PollCommands
  BY <1>13, PollCommandsKeeps
<1>14. CASE PollApps
  BY <1>14, PollAppsKeeps
<1>15. CASE Advance
  BY <1>15, StillKeeps DEF Advance
<1> QED BY <1>1, <1>2, <1>3, <1>4, <1>5, <1>6, <1>7, <1>8, <1>9, <1>10, <1>11, <1>12, <1>13,
           <1>14, <1>15 DEF Next, Settle

LEMMA PlaceSteps == ASSUME at \in At, shutdown \in Shutdown, Next PROVE at' \in At /\ shutdown' \in Shutdown
<1>1. CASE \/ \E what \in Walks \union {"edit", "open"} : Press(what)
           \/ Prepare \/ Quit \/ Commit \/ Work \/ RunWalk \/ Die \/ Publish
  BY <1>1 DEF Press, Prepare, Quit, Commit, Work, RunWalk, Die, Publish, At, Shutdown
<1>2. CASE Wake \/ PollWork \/ PollEdits \/ PollWalk \/ PollCommands
  BY <1>2 DEF Wake, PollWork, PollEdits, PollWalk, PollCommands, Kept, At, Shutdown
<1>3. CASE PollApps
  BY <1>3 DEF PollApps, At, Shutdown
<1>4. CASE Advance
  BY <1>4 DEF Advance, At, Shutdown
<1> QED BY <1>1, <1>2, <1>3, <1>4 DEF Next, Settle

(* After the second drain nobody is left who could hand the session anything. *)
LEMMA LastSteps == ASSUME Kernel, LastHalves, Next PROVE LastHalves'
<1> SUFFICES ASSUME shutdown' \in {"flushing again", "closing", "complete"}
             PROVE  /\ walk' = NoWalk /\ commands' = <<>> /\ edits' = <<>> /\ preparations' = <<>>
                    /\ published' = <<>> /\ at' = "idle"
  BY DEF LastHalves, Drained, Pending
<1>1. CASE shutdown \in {"flushing again", "closing", "complete"}
  <2>1. /\ walk = NoWalk /\ commands = <<>> /\ edits = <<>> /\ preparations = <<>>
        /\ published = <<>> /\ at = "idle"
    BY <1>1 DEF LastHalves, Drained, Pending
  <2>2. walk.stage # "going"
    BY <2>1 DEF NoWalk
  <2>3. ~Commit /\ ~Work
    BY <2>1, EmptyOps DEF Commit, Work
  <2>4. Advance
    BY <1>1, <2>1, <2>2, <2>3
       DEF Next, Settle, Press, Prepare, Quit, Free, RunWalk, Die, Publish, Retired, Wake,
           PollWork, PollEdits, PollWalk, PollCommands, PollApps
  <2> QED BY <1>1, <2>1, <2>4 DEF Advance
<1>2. CASE shutdown \notin {"flushing again", "closing", "complete"}
  <2>1. PollApps
    BY <1>2 DEF Next, Settle, Press, Prepare, Quit, Commit, Work, RunWalk, Die, Publish, Wake,
                PollWork, PollEdits, PollWalk, PollCommands, Kept, Advance
  <2>2. published = <<>> /\ Drained /\ at' = "idle" /\ Left
    BY <1>2, <2>1 DEF PollApps
  <2> QED BY <2>2 DEF Drained, Pending, Left
<1> QED BY <1>1, <1>2

LEMMA Inductive == SessionInv /\ [Next]_vars => SessionInv'
<1> SUFFICES ASSUME SessionInv, [Next]_vars PROVE SessionInv'
  OBVIOUS
<1>1. Kernel /\ at \in At /\ shutdown \in Shutdown /\ LastHalves
  BY InvIs
<1>2. CASE Next
  <2>1. Kernel' /\ at' \in At /\ shutdown' \in Shutdown /\ LastHalves'
    BY <1>1, <1>2, KernelSteps, PlaceSteps, LastSteps
  <2> QED BY <2>1 DEF SessionInv, TypeOK, Kernel, At, Shutdown
<1>3. CASE UNCHANGED vars
  <2>1. Kernel'
    BY <1>1, <1>3, StillKeeps DEF vars
  <2>2. at' \in At /\ shutdown' \in Shutdown /\ LastHalves'
    BY <1>1, <1>3 DEF vars, LastHalves, Drained, Pending
  <2> QED BY <2>1, <2>2 DEF SessionInv, TypeOK, Kernel, At, Shutdown
<1> QED BY <1>2, <1>3

LEMMA Initially == Init => SessionInv
<1> SUFFICES ASSUME Init PROVE SessionInv
  OBVIOUS
<1>1. /\ tree = Bare /\ ~Pending /\ commands = <<>> /\ edits = <<>> /\ preparations = <<>>
      /\ published = <<>> /\ world = {} /\ forgotten = {} /\ ops = 0 /\ TheTree = Bare
  BY DEF Init, Pending, TheTree
<1>2. Known = {} /\ OpsIn(commands) = {} /\ OpsIn(preparations) = {} /\ ToSet(published) = {}
  BY <1>1, BareIs, EmptyOps DEF Known
<1>3. OnePlace
  BY <1>1, <1>2, EmptyOps DEF OnePlace
<1>4. OneWrite /\ TreeTellsWorld
  <2>1. WritesOf(Bare, {}, <<>>) /\ TellsOf(Bare, {}, <<>>, {})
    BY BareIs, EmptyOps DEF WritesOf, TellsOf
  <2> QED BY <1>1, <2>1, WritesIs, TellsIs
<1>5. Paths /\ WalkAlone /\ LastHalves
  BY <1>1, BareIs DEF Paths, WalkAlone, LastHalves, Init
<1>6. /\ Tree(tree) /\ commands \in Seq(Command) /\ edits \in Seq(Write)
      /\ preparations \in Seq(Preparation) /\ published \in Seq(Op)
  BY <1>1, BareIs, Empty
<1>7. ops \in 0 .. MaxOps
  BY <1>1, SessionAssumption
<1>8. at \in At /\ shutdown \in Shutdown
  BY DEF Init, At, Shutdown
<1> QED BY <1>1, <1>3, <1>4, <1>5, <1>6, <1>7, <1>8, InvIs DEF Kernel

LEMMA Always == Spec => []SessionInv
  BY Initially, Inductive, PTL DEF Spec

(* Types, and the shape of every tree: the head of a history is at an applied
   node or at the root, in the session's hands and in a walk's. *)
THEOREM SessionTypes == Spec => []TypeOK
<1>1. SessionInv => TypeOK
  BY DEF SessionInv
<1> QED BY <1>1, Always, PTL

(* The tree tells what stands: however commits, walks, completions and refusals
   fall, a node with its claims is applied exactly if its data are in the store
   (act_async, open_into's attached claims, poll_edits, poll_walk). *)
THEOREM SessionTreeTellsWorld == Spec => []TreeTellsWorld
<1>1. SessionInv => TreeTellsWorld
  BY DEF SessionInv
<1> QED BY <1>1, Always, PTL

(* When the shutdown closes the store, nothing the session accepted is left
   (poll_shutdown drains again after the workers have been retired). *)
THEOREM SessionClosedIsDrained == Spec => []ClosedIsDrained
<1>1. SessionInv => ClosedIsDrained
  BY DEF SessionInv, LastHalves, ClosedIsDrained
<1> QED BY <1>1, Always, PTL
=============================================================================
