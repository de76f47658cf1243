----------------------------- MODULE HistoryProofs -----------------------------
(* What the undo tree keeps, for any size of tree, any answers of the world and any
   mixture of actions, undos, redos and travels. *)
EXTENDS History, FiniteSetTheorems, WellFoundedInduction, TLAPS

----------------------------------------------------------------------------
(* A tree by its parents: every node hangs from an older one or from the root. *)

Rooted(above) ==
    /\ DOMAIN above \subseteq Ids
    /\ \A n \in DOMAIN above : above[n] \in DOMAIN above \cup {0} /\ above[n] < n

(* The nodes from one up to the root. *)
Under(above, from) == {Line(above, from)[i] : i \in DOMAIN Line(above, from)}

(* Counting up: what holds of zero and goes on to the next holds of all. *)
LEMMA CountUp ==
    ASSUME NEW N \in Nat, NEW T, 0 \in T, \A n \in 1..N : (\A k \in 0..n - 1 : k \in T) => n \in T
    PROVE  \A n \in 0..N : n \in T
<1> SUFFICES ASSUME NEW n \in 0..N, n \notin T PROVE FALSE
  OBVIOUS
<1> DEFINE R == OpToRel(<, Nat)
           M == {m \in 0..N : m \notin T}
<1>1. IsWellFoundedOn(R, Nat)
  BY NatLessThanWellFounded
<1>2. M \subseteq Nat /\ n \in M
  OBVIOUS
<1> HIDE DEF R
<1>3. PICK m \in M : \A k \in M : <<k, m>> \notin R
  BY <1>1, <1>2, WFMin
<1>4. \A k \in M : ~(k < m)
  BY <1>2, <1>3 DEF OpToRel, R
<1>5. m \in 1..N
  OBVIOUS
<1>6. \A k \in 0..m - 1 : k \in T
  BY <1>4, <1>5
<1> QED BY <1>5, <1>6

(* The recursion up a tree has the value its equation says. *)
LEMMA LineRun ==
    ASSUME NEW above, Rooted(above)
    PROVE  /\ Line(above, 0) = <<>>
           /\ \A n \in DOMAIN above : Line(above, n) = <<n>> \o Line(above, above[n])
<1> DEFINE Step(f, n) == IF n \in DOMAIN above THEN <<n>> \o f[above[n]] ELSE <<>>
           Runs(f, n) == DOMAIN f = 0..n /\ \A k \in 0..n : f[k] = Step(f, k)
           T == {n \in 0..MaxNode : \E f : Runs(f, n)}
<1>0. MaxNode \in Nat
  BY HistoryAssumption
<1>1. 0 \in T
  <2> DEFINE g == [k \in 0..0 |-> <<>>]
  <2>1. 0 \notin DOMAIN above
    BY DEF Rooted, Ids
  <2>2. Runs(g, 0)
    BY <2>1
  <2> HIDE DEF g, Runs
  <2> QED BY <1>0, <2>2
<1>2. ASSUME NEW n \in 1..MaxNode, n - 1 \in T PROVE n \in T
  <2>1. PICK f : Runs(f, n - 1)
    BY <1>2
  <2> DEFINE g == [k \in 0..n |-> IF k = n THEN Step(f, n) ELSE f[k]]
  <2>2. DOMAIN g = 0..n
    OBVIOUS
  <2>3. \A k \in 0..n : k \in DOMAIN above => above[k] \in 0..(n - 1) /\ above[k] < k
    BY <1>0 DEF Rooted, Ids
  <2>4. \A k \in 0..(n - 1) : g[k] = f[k] /\ k \in 0..n
    BY <1>0
  <2>5. n \in 0..n /\ g[n] = Step(f, n)
    BY <1>0
  <2> HIDE DEF g
  <2>6. ASSUME NEW k \in 0..n PROVE Step(g, k) = Step(f, k)
    BY <2>3, <2>4
  <2>7. ASSUME NEW k \in 0..n PROVE g[k] = Step(g, k)
    <3>1. CASE k = n
      BY <2>5, <2>6, <3>1
    <3>2. CASE k # n
      <4>1. k \in 0..(n - 1)
        BY <1>0, <3>2
      <4>2. f[k] = Step(f, k)
        BY <2>1, <4>1
      <4> QED BY <2>4, <2>6, <4>1, <4>2
    <3> QED BY <3>1, <3>2
  <2>8. Runs(g, n)
    BY <2>2, <2>7
  <2> HIDE DEF Runs
  <2> QED BY <2>8
<1>3. MaxNode \in T
  <2> HIDE DEF T
  <2>1. \A n \in 1..MaxNode : (\A k \in 0..n - 1 : k \in T) => n \in T
    BY <1>0, <1>2
  <2> QED BY <1>0, <1>1, <2>1, CountUp
<1> DEFINE up == CHOOSE f : f = [n \in 0..MaxNode |-> Step(f, n)]
<1>4. up = [n \in 0..MaxNode |-> Step(up, n)]
  <2>1. PICK f : Runs(f, MaxNode)
    BY <1>3
  <2> DEFINE h == [n \in 0..MaxNode |-> f[n]]
  <2>2. ASSUME NEW n \in 0..MaxNode PROVE h[n] = Step(h, n)
    <3>1. n \in DOMAIN above => above[n] \in 0..MaxNode
      BY <1>0 DEF Rooted, Ids
    <3>2. f[n] = Step(f, n)
      BY <2>1
    <3> QED BY <3>1, <3>2
  <2>3. h = [n \in 0..MaxNode |-> Step(h, n)]
    BY <2>2
  <2> HIDE DEF h, Step
  <2> QED BY <2>3
<1>5. \A n : Line(above, n) = up[n]
  BY DEF Line
<1> HIDE DEF up
<1>6. \A n \in 0..MaxNode : up[n] = Step(up, n)
  BY <1>4
<1>7. 0 \in 0..MaxNode /\ 0 \notin DOMAIN above /\ DOMAIN above \subseteq 0..MaxNode
  BY <1>0 DEF Rooted, Ids
<1> QED BY <1>5, <1>6, <1>7

(* A line is what it is called: it begins at its node, goes from parent to parent
   up to the root, and what stands under a node of it is the rest of it. *)
Lines(above, n, c) ==
    /\ c \in Seq(DOMAIN above) /\ Len(c) \in Nat \ {0} /\ c[1] = n
    /\ \A i \in 1..Len(c) : above[c[i]] = IF i < Len(c) THEN c[i + 1] ELSE 0
    /\ \A i, j \in 1..Len(c) : i < j => c[j] < c[i]
    /\ \A i \in 1..Len(c) : Under(above, c[i]) = {c[j] : j \in i..Len(c)}

LEMMA LineFacts ==
    ASSUME NEW above, Rooted(above), NEW n \in DOMAIN above
    PROVE  Lines(above, n, Line(above, n))
<1> DEFINE T == {k \in 0..MaxNode : k \in DOMAIN above => Lines(above, k, Line(above, k))}
<1>0. MaxNode \in Nat /\ DOMAIN above \subseteq 1..MaxNode
  BY HistoryAssumption DEF Rooted, Ids
<1>1. 0 \in T
  BY <1>0
<1>2. ASSUME NEW k \in 1..MaxNode, \A m \in 0..k - 1 : m \in T PROVE k \in T
  <2> SUFFICES ASSUME k \in DOMAIN above PROVE Lines(above, k, Line(above, k))
    BY <1>0
  <2> DEFINE p == above[k]
             d == Line(above, p)
             c == Line(above, k)
  <2>1. c = <<k>> \o d /\ p \in DOMAIN above \cup {0} /\ p < k /\ Line(above, 0) = <<>>
    BY LineRun DEF Rooted
  <2>2. p # 0 => Lines(above, p, d)
    <3>1. p # 0 => p \in 0..k - 1 /\ p \in DOMAIN above
      BY <1>0, <2>1
    <3> QED BY <1>2, <3>1
  <2>3. p = 0 => d = <<>>
    BY <2>1
  <2> HIDE DEF d, p, c
  <2>4. d \in Seq(DOMAIN above) /\ Len(d) \in Nat
    <3>1. CASE p = 0
      BY <2>3, <3>1
    <3>2. CASE p # 0
      BY <2>2, <3>2 DEF Lines
    <3> QED BY <3>1, <3>2
  <2>5. c \in Seq(DOMAIN above) /\ Len(c) = Len(d) + 1 /\ c[1] = k
        /\ \A i \in 1..Len(d) : c[i + 1] = d[i]
    BY <2>1, <2>4
  <2>6. \A i \in 2..Len(c) : c[i] = d[i - 1] /\ i - 1 \in 1..Len(d)
    BY <2>4, <2>5
  <2>7. Len(d) = 0 <=> p = 0
    <3>1. p # 0 => Len(d) # 0
      BY <2>2 DEF Lines
    <3>2. p = 0 => Len(d) = 0
      BY <2>3
    <3> QED BY <3>1, <3>2
  <2>8. ASSUME NEW i \in 1..Len(c) PROVE above[c[i]] = IF i < Len(c) THEN c[i + 1] ELSE 0
    <3>1. CASE i = 1
      <4>1. above[c[1]] = p
        BY <2>5 DEF p
      <4>2. CASE Len(d) = 0
        BY <2>5, <2>7, <3>1, <4>1, <4>2
      <4>3. CASE Len(d) # 0
        <5>1. 1 \in 1..Len(d) /\ d[1] = p
          BY <2>2, <2>4, <2>7, <4>3 DEF Lines
        <5> QED BY <2>4, <2>5, <3>1, <4>1, <5>1
      <4> QED BY <4>2, <4>3
    <3>2. CASE i # 1
      <4>1. i - 1 \in 1..Len(d) /\ c[i] = d[i - 1]
        BY <2>4, <2>5, <2>6, <3>2
      <4>2. p # 0
        BY <2>4, <2>7, <4>1
      <4>3. above[d[i - 1]] = IF i - 1 < Len(d) THEN d[(i - 1) + 1] ELSE 0
        BY <2>2, <4>1, <4>2 DEF Lines
      <4>4. i < Len(c) => c[i + 1] = d[i] /\ i - 1 < Len(d) /\ (i - 1) + 1 = i
        BY <2>4, <2>5, <4>1
      <4>5. ~(i < Len(c)) => ~(i - 1 < Len(d))
        BY <2>4, <2>5, <4>1
      <4> QED BY <4>1, <4>3, <4>4, <4>5
    <3> QED BY <3>1, <3>2
  <2>9. \A i \in 1..Len(d) : d[i] <= p /\ d[i] \in Nat
    <3> SUFFICES ASSUME NEW i \in 1..Len(d) PROVE d[i] <= p /\ d[i] \in Nat
      OBVIOUS
    <3>1. p # 0
      BY <2>4, <2>7
    <3>2. d[1] = p /\ \A j \in 1..Len(d) : 1 < j => d[j] < d[1]
      BY <2>2, <3>1 DEF Lines
    <3>3. d[i] \in Nat /\ d[1] \in Nat
      BY <1>0, <2>4
    <3> QED BY <3>2, <3>3
  <2>10. ASSUME NEW i \in 1..Len(c), NEW j \in 1..Len(c), i < j PROVE c[j] < c[i]
    <3>1. j - 1 \in 1..Len(d) /\ c[j] = d[j - 1]
      BY <2>4, <2>5, <2>6, <2>10
    <3>2. CASE i = 1
      <4>1. d[j - 1] <= p /\ d[j - 1] \in Nat /\ p < k /\ p \in Nat /\ k \in Nat
        BY <1>0, <2>1, <2>9, <3>1
      <4> QED BY <2>5, <3>1, <3>2, <4>1
    <3>3. CASE i # 1
      <4>1. i - 1 \in 1..Len(d) /\ c[i] = d[i - 1] /\ i - 1 < j - 1
        BY <2>4, <2>5, <2>6, <2>10, <3>3
      <4>2. p # 0
        BY <2>4, <2>7, <4>1
      <4> QED BY <2>2, <3>1, <4>1, <4>2 DEF Lines
    <3> QED BY <3>2, <3>3
  <2>11. ASSUME NEW i \in 1..Len(c) PROVE Under(above, c[i]) = {c[j] : j \in i..Len(c)}
    <3>1. CASE i = 1
      <4>1. DOMAIN c = 1..Len(c) /\ c[i] = k
        BY <2>5, <3>1
      <4> QED BY <3>1, <4>1 DEF Under, c
    <3>2. CASE i # 1
      <4>1. i - 1 \in 1..Len(d) /\ c[i] = d[i - 1]
        BY <2>4, <2>5, <2>6, <3>2
      <4>2. p # 0
        BY <2>4, <2>7, <4>1
      <4>3. Under(above, d[i - 1]) = {d[j] : j \in (i - 1)..Len(d)}
        BY <2>2, <4>1, <4>2 DEF Lines
      <4>4. \A j \in i..Len(c) : j - 1 \in (i - 1)..Len(d) /\ c[j] = d[j - 1]
        BY <2>4, <2>5, <2>6, <3>2, <4>1
      <4>5. \A j \in (i - 1)..Len(d) : j + 1 \in i..Len(c) /\ c[j + 1] = d[j]
        BY <2>4, <2>5, <4>1
      <4>6. {c[j] : j \in i..Len(c)} = {d[j] : j \in (i - 1)..Len(d)}
        <5>1. ASSUME NEW y, y \in {c[j] : j \in i..Len(c)} PROVE y \in {d[j] : j \in (i - 1)..Len(d)}
          BY <4>4, <5>1
        <5>2. ASSUME NEW y, y \in {d[j] : j \in (i - 1)..Len(d)} PROVE y \in {c[j] : j \in i..Len(c)}
          <6>1. PICK j \in (i - 1)..Len(d) : y = d[j]
            BY <5>2
          <6>2. j + 1 \in i..Len(c) /\ y = c[j + 1]
            BY <4>5, <6>1
          <6> QED BY <6>2
        <5> QED BY <5>1, <5>2
      <4> QED BY <4>1, <4>3, <4>6
    <3> QED BY <3>1, <3>2
  <2>12. Lines(above, k, c)
    BY <2>4, <2>5, <2>8, <2>10, <2>11 DEF Lines
  <2> QED BY <2>12 DEF c
<1>3. n \in T
  <2> HIDE DEF T
  <2>1. n \in 0..MaxNode
    BY <1>0
  <2> QED BY <1>0, <1>1, <1>2, <2>1, CountUp
<1> QED BY <1>3

(* What stands under a node: itself and what stands under its parent, older nodes
   all, and of two of them the younger has the older under it. *)
LEMMA UnderFacts ==
    ASSUME NEW above, Rooted(above)
    PROVE  /\ Under(above, 0) = {}
           /\ \A n \in DOMAIN above :
                /\ Under(above, n) = {n} \cup Under(above, above[n])
                /\ n \notin Under(above, above[n])
                /\ Under(above, n) \subseteq DOMAIN above
                /\ \A m \in Under(above, n) : m <= n /\ Under(above, m) \subseteq Under(above, n)
                /\ \A a, b \in Under(above, n) : a <= b => a \in Under(above, b)
<1>1. Under(above, 0) = {}
  BY LineRun DEF Under
<1>2. ASSUME NEW n \in DOMAIN above
      PROVE  /\ Under(above, n) = {n} \cup Under(above, above[n])
             /\ n \notin Under(above, above[n])
             /\ Under(above, n) \subseteq DOMAIN above
             /\ \A m \in Under(above, n) : m <= n /\ Under(above, m) \subseteq Under(above, n)
             /\ \A a, b \in Under(above, n) : a <= b => a \in Under(above, b)
  <2>1. PICK c : Lines(above, n, c)
    BY LineFacts
  <2>2. /\ Len(c) \in Nat \ {0} /\ c[1] = n /\ \A i \in 1..Len(c) : c[i] \in DOMAIN above /\ c[i] \in Nat
    BY <2>1 DEF Lines, Rooted, Ids
  <2>3. \A i \in 1..Len(c) : Under(above, c[i]) = {c[j] : j \in i..Len(c)}
    BY <2>1 DEF Lines
  <2>4. Under(above, n) = {c[j] : j \in 1..Len(c)}
    <3>1. 1 \in 1..Len(c)
      BY <2>2
    <3>2. Under(above, c[1]) = {c[j] : j \in 1..Len(c)}
      BY <2>3, <3>1
    <3> QED BY <2>2, <3>2
  <2>5. \A i, j \in 1..Len(c) : i < j => c[j] < c[i]
    BY <2>1 DEF Lines
  <2>6. Under(above, above[n]) = {c[j] : j \in 2..Len(c)}
    <3>1. CASE Len(c) = 1
      <4>1. above[n] = 0
        BY <2>1, <2>2, <3>1 DEF Lines
      <4> QED BY <1>1, <3>1, <4>1
    <3>2. CASE Len(c) # 1
      <4>1. 1 \in 1..Len(c) /\ 1 < Len(c) /\ 2 \in 1..Len(c) /\ 1 + 1 = 2
        <5>1. \A l \in Nat \ {0} : l # 1 => l \in Nat /\ 1 \in 1..l /\ 1 < l /\ 2 \in 1..l /\ 1 + 1 = 2
          OBVIOUS
        <5>2. Len(c) \in Nat \ {0}
          BY <2>2
        <5> QED BY <3>2, <5>1, <5>2
      <4>2. above[c[1]] = IF 1 < Len(c) THEN c[1 + 1] ELSE 0
        BY <2>1, <4>1 DEF Lines
      <4>3. above[n] = c[2]
        BY <2>2, <4>1, <4>2
      <4>4. Under(above, c[2]) = {c[j] : j \in 2..Len(c)}
        BY <2>3, <4>1
      <4> QED BY <4>3, <4>4
    <3> QED BY <3>1, <3>2
  <2>7. {c[j] : j \in 1..Len(c)} = {n} \cup {c[j] : j \in 2..Len(c)}
    <3>1. \A j \in 1..Len(c) : j = 1 \/ j \in 2..Len(c)
      BY <2>2
    <3>2. \A j \in 2..Len(c) : j \in 1..Len(c)
      BY <2>2
    <3>3. 1 \in 1..Len(c)
      BY <2>2
    <3> QED BY <2>2, <3>1, <3>2, <3>3
  <2>8. n \notin {c[j] : j \in 2..Len(c)}
    <3>1. \A j \in 2..Len(c) : c[j] < c[1] /\ c[j] \in Nat
      BY <2>2, <2>5
    <3> QED BY <2>2, <3>1
  <2>9. Under(above, n) \subseteq DOMAIN above
    BY <2>2, <2>4
  <2>10. ASSUME NEW m \in Under(above, n)
         PROVE  m <= n /\ Under(above, m) \subseteq Under(above, n)
    <3>1. PICK i \in 1..Len(c) : m = c[i]
      BY <2>4
    <3>2. i = 1 \/ c[i] < c[1]
      BY <2>2, <2>5
    <3>3. \A j \in i..Len(c) : j \in 1..Len(c)
      BY <2>2
    <3>4. Under(above, m) \subseteq Under(above, n)
      <4>1. Under(above, m) = {c[j] : j \in i..Len(c)}
        BY <2>3, <3>1
      <4> QED BY <2>4, <3>3, <4>1
    <3> QED BY <2>2, <3>1, <3>2, <3>4
  <2>11. ASSUME NEW a \in Under(above, n), NEW b \in Under(above, n), a <= b
         PROVE  a \in Under(above, b)
    <3>1. PICK i \in 1..Len(c) : a = c[i]
      BY <2>4
    <3>2. PICK j \in 1..Len(c) : b = c[j]
      BY <2>4
    <3>3. ~(i < j)
      BY <2>2, <2>5, <2>11, <3>1, <3>2
    <3>4. i \in j..Len(c)
      BY <2>2, <3>3
    <3> QED BY <2>3, <3>1, <3>2, <3>4
  <2> QED BY <2>4, <2>6, <2>7, <2>8, <2>9, <2>10, <2>11
<1> QED BY <1>1, <1>2

(* Giving back the first k nodes up from the cursor leaves under the next what
   stood under the cursor but for them. *)
LEMMA GivenBack ==
    ASSUME NEW above, Rooted(above), NEW n \in DOMAIN above \cup {0}, NEW c, c = Line(above, n),
           NEW k \in 1..Len(c)
    PROVE  /\ n \in DOMAIN above /\ c[k] \in DOMAIN above /\ c[k] \in Under(above, n)
           /\ above[c[k]] \in DOMAIN above \cup {0}
           /\ {c[i] : i \in 1..k - 1} \subseteq Under(above, n)
           /\ c[k] \notin {c[i] : i \in 1..k - 1}
           /\ Under(above, c[k]) = Under(above, n) \ {c[i] : i \in 1..k - 1}
           /\ Under(above, above[c[k]]) = Under(above, n) \ ({c[i] : i \in 1..k - 1} \cup {c[k]})
<1>1. n \in DOMAIN above
  <2>1. n = 0 => c = <<>>
    BY LineRun
  <2> QED BY <2>1
<1>2. Lines(above, n, c)
  BY <1>1, LineFacts
<1>3. /\ Len(c) \in Nat \ {0} /\ \A i \in 1..Len(c) : c[i] \in DOMAIN above /\ c[i] \in Nat
  BY <1>2 DEF Lines, Rooted, Ids
<1>4. Under(above, n) = {c[j] : j \in 1..Len(c)} /\ Under(above, c[k]) = {c[j] : j \in k..Len(c)}
  <2>1. 1 \in 1..Len(c) /\ c[1] = n
    BY <1>2, <1>3 DEF Lines
  <2>2. \A i \in 1..Len(c) : Under(above, c[i]) = {c[j] : j \in i..Len(c)}
    BY <1>2 DEF Lines
  <2>3. Under(above, c[1]) = {c[j] : j \in 1..Len(c)}
    BY <2>1, <2>2
  <2> QED BY <2>1, <2>2, <2>3
<1>5. \A i, j \in 1..Len(c) : i # j => c[i] # c[j]
  <2>1. \A i, j \in 1..Len(c) : i < j => c[j] < c[i]
    BY <1>2 DEF Lines
  <2> QED BY <1>3, <2>1
<1>6. \A i \in 1..k - 1 : i \in 1..Len(c) /\ i # k
  BY <1>3
<1>7. Under(above, c[k]) = Under(above, n) \ {c[i] : i \in 1..k - 1}
  <2>1. \A j \in 1..Len(c) : j \in k..Len(c) \/ j \in 1..k - 1
    BY <1>3
  <2>2. \A j \in k..Len(c) : j \in 1..Len(c) /\ \A i \in 1..k - 1 : i # j
    BY <1>3
  <2> QED BY <1>4, <1>5, <1>6, <2>1, <2>2
<1>8. c[k] \notin {c[i] : i \in 1..k - 1}
  BY <1>5, <1>6
<1>9. Under(above, c[k]) = {c[k]} \cup Under(above, above[c[k]]) /\ c[k] \notin Under(above, above[c[k]])
  BY <1>3, UnderFacts
<1>10. above[c[k]] \in DOMAIN above \cup {0}
  BY <1>3 DEF Rooted
<1> QED BY ZenonT(60), <1>1, <1>3, <1>4, <1>6, <1>7, <1>8, <1>9, <1>10

(* Trimming: of a tree that keeps its younger nodes, what stands under one of
   them is what stood there and was kept. *)
LEMMA Survivors ==
    ASSUME NEW old, Rooted(old), NEW new, Rooted(new), NEW keep,
           keep \subseteq DOMAIN old, keep \subseteq DOMAIN new,
           \A n \in keep : new[n] = IF old[n] \in keep THEN old[n] ELSE 0,
           \A n \in DOMAIN old \ keep, m \in keep : n < m
    PROVE  \A n \in keep : Under(new, n) = Under(old, n) \cap keep
<1> DEFINE T == {n \in 0..MaxNode : n \in keep => Under(new, n) = Under(old, n) \cap keep}
<1>0. MaxNode \in Nat /\ DOMAIN old \subseteq 1..MaxNode
  BY HistoryAssumption DEF Rooted, Ids
<1>1. 0 \in T
  BY <1>0
<1>2. ASSUME NEW n \in 1..MaxNode, \A k \in 0..n - 1 : k \in T PROVE n \in T
  <2> SUFFICES ASSUME n \in keep PROVE Under(new, n) = Under(old, n) \cap keep
    BY <1>0
  <2>1. Under(new, n) = {n} \cup Under(new, new[n]) /\ Under(old, n) = {n} \cup Under(old, old[n])
    BY UnderFacts
  <2>2. CASE old[n] \in keep
    <3>1. old[n] \in 0..n - 1 /\ new[n] = old[n]
      BY <1>0, <2>2 DEF Rooted, Ids
    <3>2. Under(new, old[n]) = Under(old, old[n]) \cap keep
      BY <1>2, <2>2, <3>1
    <3> QED BY <2>1, <3>1, <3>2
  <2>3. CASE old[n] \notin keep
    <3>1. new[n] = 0 /\ Under(new, 0) = {}
      BY <2>3, UnderFacts
    <3>2. Under(old, old[n]) \cap keep = {}
      <4>1. CASE old[n] = 0
        BY <4>1, UnderFacts
      <4>2. CASE old[n] # 0
        <5>1. old[n] \in DOMAIN old \ keep
          BY <2>3, <4>2 DEF Rooted
        <5>2. \A m \in Under(old, old[n]) : m \in DOMAIN old /\ m <= old[n]
          BY <5>1, UnderFacts
        <5>3. \A m \in Under(old, old[n]) : m \in Nat /\ old[n] \in Nat
          BY <1>0, <5>1, <5>2
        <5>4. \A m \in keep : old[n] < m /\ m \in Nat
          BY <1>0, <5>1
        <5> QED BY <5>2, <5>3, <5>4
      <4> QED BY <4>1, <4>2
    <3> QED BY <2>1, <3>1, <3>2
  <2> QED BY <2>2, <2>3
<1>3. ASSUME NEW n \in keep PROVE n \in T
  <2> HIDE DEF T
  <2>1. n \in 0..MaxNode
    BY <1>0
  <2> QED BY <1>0, <1>1, <1>2, <2>1, CountUp
<1> QED BY <1>3

(* A set of nodes has a youngest and an oldest. *)
LEMMA HighestIsIn ==
    ASSUME NEW S, S \subseteq Ids, S # {}
    PROVE  Highest(S) \in S /\ \A n \in S : n <= Highest(S)
<1> DEFINE T == {k \in 0..MaxNode : (\E n \in S : n >= k) => \E n \in S : \A m \in S : n >= m}
           Far == {k \in 0..MaxNode : \A n \in S : MaxNode - n # k}
<1>0. MaxNode \in Nat /\ S \subseteq 1..MaxNode
  BY HistoryAssumption DEF Ids
<1>1. \E n \in S : \A m \in S : n >= m
  <2> SUFFICES ASSUME \A n \in S : \E m \in S : ~(n >= m) PROVE FALSE
    OBVIOUS
  <2>1. 0 \in Far
    <3>1. \A n \in S : n # MaxNode
      BY <1>0
    <3> QED BY <1>0, <3>1
  <2>2. ASSUME NEW k \in 1..MaxNode, \A i \in 0..k - 1 : i \in Far PROVE k \in Far
    <3> SUFFICES ASSUME NEW n \in S, MaxNode - n = k PROVE FALSE
      BY <1>0
    <3>1. PICK m \in S : ~(n >= m)
      OBVIOUS
    <3>2. MaxNode - m \in 0..k - 1
      BY <1>0, <3>1
    <3> QED BY <2>2, <3>2
  <2>3. \A k \in 0..MaxNode : k \in Far
    <3> HIDE DEF Far
    <3> QED BY <1>0, <2>1, <2>2, CountUp
  <2>4. PICK n \in S : TRUE
    OBVIOUS
  <2>5. MaxNode - n \in 0..MaxNode
    BY <1>0
  <2> QED BY <2>3, <2>5
<1>2. Highest(S) \in S /\ \A m \in S : Highest(S) >= m
  BY <1>1 DEF Highest
<1> QED BY <1>0, <1>2

(* Where two branches meet: what stands under it is what stands under both. *)
LEMMA MeetingPlace ==
    ASSUME NEW above, Rooted(above), NEW x \in DOMAIN above \cup {0}, NEW y \in DOMAIN above \cup {0},
           NEW top, top = IF Under(above, x) \cap Under(above, y) = {} THEN 0
                          ELSE Highest(Under(above, x) \cap Under(above, y))
    PROVE  /\ top \in Under(above, x) \cup {0} /\ top \in Under(above, y) \cup {0}
           /\ top \in Ids \cup {0}
           /\ Under(above, top) = Under(above, x) \cap Under(above, y)
<1> DEFINE S == Under(above, x) \cap Under(above, y)
<1>1. Under(above, x) \subseteq Ids /\ Under(above, y) \subseteq Ids /\ Under(above, 0) = {}
  BY UnderFacts DEF Rooted
<1>2. CASE S = {}
  BY <1>1, <1>2
<1>3. CASE S # {}
  <2>1. top \in S /\ \A n \in S : n <= top
    <3> HIDE DEF S
    <3>1. S \subseteq Ids
      BY <1>1 DEF S
    <3>2. top = Highest(S)
      BY <1>3 DEF S
    <3> QED BY <1>3, <3>1, <3>2, HighestIsIn
  <2>2. x \in DOMAIN above /\ y \in DOMAIN above
    BY <1>1, <1>3
  <2>3. Under(above, top) \subseteq S
    BY <2>1, <2>2, UnderFacts
  <2>4. ASSUME NEW a \in S PROVE a \in Under(above, top)
    <3>1. a \in Under(above, x) /\ top \in Under(above, x) /\ a <= top
      BY <2>1
    <3> HIDE DEF S
    <3>2. \A u, v \in Under(above, x) : u <= v => u \in Under(above, v)
      BY <2>2, UnderFacts
    <3> QED BY <3>1, <3>2
  <2> QED BY <1>1, <2>1, <2>3, <2>4
<1> QED BY <1>2, <1>3

LEMMA SeqOf ==
    ASSUME NEW S, NEW n \in Nat, NEW f \in [1..n -> S]
    PROVE  f \in Seq(S) /\ Len(f) = n /\ DOMAIN f = 1..n /\ (f = <<>> <=> n = 0)
<1>1. f \in Seq(S) /\ Len(f) = n /\ DOMAIN f = 1..n
  OBVIOUS
<1>2. \A s \in Seq(S) : s = <<>> <=> Len(s) = 0
  OBVIOUS
<1> QED BY <1>1, <1>2

(* The last d of a line, the other way round. *)
Turned(b, c, d) == b = [i \in 1..d |-> c[d + 1 - i]]

(* A way down from top to a target, through what stands under it. *)
Ways(above, top, to, b) ==
    /\ b \in Seq(DOMAIN above) /\ Len(b) \in Nat /\ DOMAIN b = 1..Len(b)
    /\ to = IF b = <<>> THEN top ELSE b[Len(b)]
    /\ \A i \in DOMAIN b :
         /\ b[i] \in Under(above, to) /\ b[i] \notin Under(above, top)
         /\ above[b[i]] = IF i = 1 THEN top ELSE b[i - 1]
         /\ \A j \in DOMAIN b : i < j => b[i] < b[j]

(* The branch of a target below a node that stands under it: from child to child,
   down to the target. *)
LEMMA BranchFacts ==
    ASSUME NEW above, Rooted(above), NEW to \in DOMAIN above \cup {0},
           NEW top \in Under(above, to) \cup {0},
           NEW d, d = Cardinality(Under(above, to) \ Under(above, top)),
           NEW c, c = Line(above, to), NEW b, Turned(b, c, d)
    PROVE  Ways(above, top, to, b)
<1>0. b = [i \in 1..d |-> c[d + 1 - i]]
  BY DEF Turned
<1>1. CASE to = 0
  <2>1. Under(above, to) = {} /\ top = 0
    BY <1>1, UnderFacts
  <2>2. d = 0
    BY <2>1, FS_EmptySet
  <2>3. b \in [1..0 -> DOMAIN above]
    BY <1>0, <2>2
  <2>4. b \in Seq(DOMAIN above) /\ Len(b) = 0 /\ DOMAIN b = 1..0 /\ b = <<>>
    <3> DEFINE S == DOMAIN above
    <3>1. 0 \in Nat /\ b \in [1..0 -> S]
      BY <2>3
    <3> HIDE DEF S
    <3>2. \A f \in [1..0 -> S] : f \in Seq(S) /\ Len(f) = 0 /\ DOMAIN f = 1..0 /\ (f = <<>> <=> 0 = 0)
      BY <3>1, SeqOf
    <3> QED BY <3>1, <3>2 DEF S
  <2>5. 1..0 = {} /\ 0 \in Nat
    OBVIOUS
  <2>6. b \in Seq(DOMAIN above) /\ Len(b) \in Nat /\ DOMAIN b = 1..Len(b)
    BY <2>4, <2>5
  <2>7. to = IF b = <<>> THEN top ELSE b[Len(b)]
    BY <1>1, <2>1, <2>4
  <2>8. DOMAIN b = {}
    BY <2>4, <2>5
  <2> QED BY <2>6, <2>7, <2>8 DEF Ways
<1>2. CASE to \in DOMAIN above
  <2>1. Lines(above, to, c)
    BY <1>2, LineFacts
  <2>2. /\ Len(c) \in Nat \ {0} /\ c[1] = to
        /\ \A i \in 1..Len(c) : c[i] \in DOMAIN above /\ c[i] \in Nat /\ c[i] # 0
    BY <2>1 DEF Lines, Rooted, Ids
  <2>3. \A i, j \in 1..Len(c) : i < j => c[j] < c[i]
    BY <2>1 DEF Lines
  <2>4. \A i, j \in 1..Len(c) : i # j => c[i] # c[j]
    BY <2>2, <2>3
  <2>5. Under(above, to) = {c[j] : j \in 1..Len(c)}
    <3>1. 1 \in 1..Len(c)
      BY <2>2
    <3>2. Under(above, c[1]) = {c[j] : j \in 1..Len(c)}
      BY <2>1, <3>1 DEF Lines
    <3> QED BY <2>2, <3>2
  <2>6. PICK m \in 0..Len(c) : /\ IF m < Len(c) THEN c[m + 1] = top ELSE top = 0
                               /\ Under(above, to) \ Under(above, top) = {c[j] : j \in 1..m}
                               /\ \A j \in 1..m : c[j] \notin Under(above, top)
    <3>1. CASE top = 0
      <4>1. Under(above, top) = {}
        BY <3>1, UnderFacts
      <4>2. Len(c) \in 0..Len(c) /\ ~(Len(c) < Len(c))
        BY <2>2
      <4> QED BY <2>5, <3>1, <4>1, <4>2
    <3>2. CASE top # 0
      <4>1. PICK i \in 1..Len(c) : c[i] = top
        BY <2>5, <3>2
      <4>2. Under(above, top) = {c[j] : j \in i..Len(c)}
        BY <2>1, <4>1 DEF Lines
      <4>3. i - 1 \in 0..Len(c) /\ i - 1 < Len(c) /\ (i - 1) + 1 = i
        BY <2>2
      <4>4. \A j \in 1..Len(c) : j \in i..Len(c) \/ j \in 1..i - 1
        BY <2>2
      <4>5. \A j \in 1..i - 1 : j \in 1..Len(c) /\ \A h \in i..Len(c) : h # j /\ h \in 1..Len(c)
        BY <2>2
      <4>6. \A j \in 1..i - 1 : c[j] \notin Under(above, top)
        BY <2>4, <4>2, <4>5
      <4>7. Under(above, to) \ Under(above, top) = {c[j] : j \in 1..i - 1}
        BY <2>5, <4>2, <4>4, <4>5, <4>6
      <4> QED BY <4>1, <4>3, <4>6, <4>7
    <3> QED BY <3>1, <3>2
  <2>7. d = m
    <3> DEFINE f == [j \in 1..m |-> c[j]]
               S == {c[j] : j \in 1..m}
    <3>1. \A j \in 1..m : j \in 1..Len(c)
      BY <2>2
    <3>2. f \in [1..m -> S] /\ (\A i, j \in 1..m : f[i] = f[j] => i = j)
          /\ \A y \in S : \E j \in 1..m : f[j] = y
      BY <2>4, <3>1
    <3>3. f \in Bijection(1..m, S)
      <4> HIDE DEF f, S
      <4>1. DOMAIN f = 1..m
        BY <3>2
      <4>2. IsInjective(f)
        BY <3>2, <4>1 DEF IsInjective
      <4> QED BY <3>2, <4>1, <4>2 DEF Bijection, Injection, Surjection
    <3>4. ExistsBijection(1..m, S)
      BY <3>3 DEF ExistsBijection
    <3>5. m \in Nat
      BY <2>2
    <3> HIDE DEF S
    <3>6. Cardinality(S) = m
      BY <3>4, <3>5, FS_CountingElements
    <3> QED BY <2>6, <3>6 DEF S
  <2>8. m \in Nat /\ m <= Len(c) /\ \A i \in 1..m : m + 1 - i \in 1..m /\ m + 1 - i \in 1..Len(c)
    BY <2>2
  <2>9. DOMAIN b = 1..m /\ \A i \in 1..m : b[i] = c[m + 1 - i]
    BY <1>0, <2>7
  <2>10. b \in Seq(DOMAIN above) /\ Len(b) = m
    <3>1. b = [i \in 1..m |-> c[m + 1 - i]] /\ \A i \in 1..m : c[m + 1 - i] \in DOMAIN above
      BY <1>0, <2>2, <2>7, <2>8
    <3>2. b \in [1..m -> DOMAIN above]
      BY <3>1
    <3> QED BY <2>8, <3>2, SeqOf
  <2>11. to = IF b = <<>> THEN top ELSE b[Len(b)]
    <3>1. CASE m = 0
      <4>1. b = <<>>
        <5>1. \A s \in Seq(DOMAIN above) : Len(s) = 0 => s = <<>>
          OBVIOUS
        <5> QED BY <2>10, <3>1, <5>1
      <4>2. top = c[1]
        BY <2>2, <2>6, <3>1
      <4> QED BY <2>2, <4>1, <4>2
    <3>2. CASE m # 0
      <4>1. b # <<>> /\ m \in 1..m /\ m + 1 - m = 1
        <5>1. \A s \in Seq(DOMAIN above) : Len(s) # 0 => s # <<>>
          OBVIOUS
        <5>2. \A l \in Nat : l # 0 => l \in 1..l /\ l + 1 - l = 1
          OBVIOUS
        <5> QED BY <2>8, <2>10, <3>2, <5>1, <5>2
      <4>2. b[m] = c[1]
        BY <2>9, <4>1
      <4> QED BY <2>2, <2>10, <4>1, <4>2
    <3> QED BY <3>1, <3>2
  <2>12. ASSUME NEW i \in 1..m
         PROVE  /\ b[i] \in Under(above, to) /\ b[i] \notin Under(above, top)
                /\ above[b[i]] = IF i = 1 THEN top ELSE b[i - 1]
                /\ \A j \in 1..m : i < j => b[i] < b[j]
    <3>1. m + 1 - i \in 1..m /\ m + 1 - i \in 1..Len(c) /\ b[i] = c[m + 1 - i]
      BY <2>8, <2>9
    <3>2. b[i] \in Under(above, to) /\ b[i] \notin Under(above, top)
      BY <2>5, <2>6, <3>1
    <3>3. above[c[m + 1 - i]] = IF m + 1 - i < Len(c) THEN c[(m + 1 - i) + 1] ELSE 0
      BY <2>1, <3>1 DEF Lines
    <3>4. above[b[i]] = IF i = 1 THEN top ELSE b[i - 1]
      <4>1. CASE i = 1
        <5>1. m + 1 - i = m
          BY <2>8, <4>1
        <5>2. above[b[i]] = IF m < Len(c) THEN c[m + 1] ELSE 0
          BY <3>1, <3>3, <5>1
        <5>3. IF m < Len(c) THEN c[m + 1] = top ELSE top = 0
          BY <2>6
        <5> QED BY <4>1, <5>2, <5>3
      <4>2. CASE i # 1
        <5>1. i - 1 \in 1..m /\ m + 1 - i < Len(c) /\ (m + 1 - i) + 1 = m + 1 - (i - 1)
          BY <2>8, <4>2
        <5>2. b[i - 1] = c[m + 1 - (i - 1)]
          BY <2>9, <5>1
        <5> QED BY <3>1, <3>3, <4>2, <5>1, <5>2
      <4> QED BY <4>1, <4>2
    <3>5. ASSUME NEW j \in 1..m, i < j PROVE b[i] < b[j]
      <4>1. m + 1 - j \in 1..Len(c) /\ b[j] = c[m + 1 - j]
        BY <2>8, <2>9
      <4>2. m + 1 - j < m + 1 - i
        BY <2>8, <3>5
      <4> QED BY <2>3, <3>1, <4>1, <4>2
    <3>6. \A j \in 1..m : i < j => b[i] < b[j]
      BY <3>5
    <3> QED BY <3>2, <3>4, <3>6
  <2>13. b \in Seq(DOMAIN above) /\ Len(b) \in Nat /\ DOMAIN b = 1..Len(b)
    BY <2>8, <2>9, <2>10
  <2>14. \A i \in DOMAIN b :
           /\ b[i] \in Under(above, to) /\ b[i] \notin Under(above, top)
           /\ above[b[i]] = IF i = 1 THEN top ELSE b[i - 1]
           /\ \A j \in DOMAIN b : i < j => b[i] < b[j]
    <3>1. DOMAIN b = 1..m
      BY <2>9
    <3> QED BY <2>12, <3>1
  <2> QED BY <2>11, <2>13, <2>14 DEF Ways
<1> QED BY <1>1, <1>2

----------------------------------------------------------------------------
(* The tree of a state. *)

LEMMA PathFacts ==
    ASSUME TypeOK
    PROVE  /\ Rooted(Above) /\ DOMAIN Above = DOMAIN nodes /\ head \in DOMAIN Above \cup {0}
           /\ \A x : Path(x) = Under(Above, x) /\ Chain(x) = Line(Above, x)
           /\ Path(0) = {} /\ DOMAIN nodes \subseteq Ids
           /\ \A n \in DOMAIN nodes :
                /\ n \in Nat \ {0} /\ Above[n] = Parent(n) /\ Parent(n) \in DOMAIN nodes \cup {0}
                /\ Path(n) = {n} \cup Path(Parent(n)) /\ n \notin Path(Parent(n))
                /\ Path(n) \subseteq DOMAIN nodes
                /\ \A m \in Path(n) : Path(m) \subseteq Path(n)
                /\ \A a, b \in Path(n) : a <= b => a \in Path(b)
<1>1. DOMAIN Above = DOMAIN nodes /\ \A n \in DOMAIN nodes : Above[n] = Parent(n)
  BY DEF Above
<1>2. Rooted(Above) /\ head \in DOMAIN Above \cup {0} /\ DOMAIN nodes \subseteq Ids
      /\ \A n \in DOMAIN nodes : Parent(n) \in DOMAIN nodes \cup {0}
  BY <1>1 DEF TypeOK, Rooted
<1>3. \A x : Path(x) = Under(Above, x) /\ Chain(x) = Line(Above, x)
  BY DEF Path, Chain, Under
<1>4. \A n \in DOMAIN nodes : n \in Nat \ {0}
  BY <1>2 DEF Ids
<1>5. /\ Under(Above, 0) = {}
      /\ \A n \in DOMAIN Above :
           /\ Under(Above, n) = {n} \cup Under(Above, Above[n])
           /\ n \notin Under(Above, Above[n])
           /\ Under(Above, n) \subseteq DOMAIN Above
           /\ \A m \in Under(Above, n) : m <= n /\ Under(Above, m) \subseteq Under(Above, n)
           /\ \A a, b \in Under(Above, n) : a <= b => a \in Under(Above, b)
  BY <1>2, UnderFacts
<1> HIDE DEF Above, Parent, Path, Chain, Under
<1> QED BY <1>1, <1>2, <1>3, <1>4, <1>5

(* A step that adds no node, drops none and moves none. *)
Kept == /\ DOMAIN nodes' = DOMAIN nodes
        /\ \A n \in DOMAIN nodes : nodes'[n] \in Node /\ nodes'[n].parent = nodes[n].parent

LEMMA KeptTree ==
    ASSUME TypeOK, Kept
    PROVE  /\ DOMAIN nodes' \subseteq Ids /\ Cardinality(DOMAIN nodes') <= Keep
           /\ \A n \in DOMAIN nodes' : /\ nodes'[n] \in Node
                                       /\ Parent(n)' \in DOMAIN nodes' \cup {0}
                                       /\ Parent(n)' < n
           /\ \A x : Path(x)' = Path(x)
           /\ \A n \in DOMAIN nodes : Parent(n)' = Parent(n)
<1>1. \A n \in DOMAIN nodes : Parent(n)' = Parent(n)
  BY DEF Kept, Parent
<1>2. Above' = Above
  BY <1>1 DEF Kept, Above
<1>3. \A x : Path(x)' = Path(x)
  BY <1>2 DEF Path, Chain
<1> QED BY <1>1, <1>3 DEF TypeOK, Kept

(* Marking some nodes is such a step. *)
LEMMA MarkedKeeps ==
    ASSUME TypeOK, NEW S, NEW s \in {"applied", "undone", "expired"}, nodes' = Marked(S, s)
    PROVE  Kept /\ \A n \in DOMAIN nodes : State(n)' = IF n \in S THEN s ELSE State(n)
<1> SUFFICES ASSUME NEW n \in DOMAIN nodes
             PROVE  /\ nodes'[n] \in Node /\ nodes'[n].parent = nodes[n].parent
                    /\ nodes'[n].state = IF n \in S THEN s ELSE nodes[n].state
  BY DEF Kept, Marked, State
<1>1. nodes[n] \in Node
  BY DEF TypeOK
<1>2. nodes'[n] = IF n \in S THEN [nodes[n] EXCEPT !.state = s] ELSE nodes[n]
  BY DEF Marked
<1> QED BY <1>1, <1>2 DEF Node

(* What an answer of the world does to the claims. *)
LEMMA AnswerFacts ==
    ASSUME TypeOK, NEW n \in DOMAIN nodes, NEW by \in {-1, 1}, NEW how \in Outcomes,
           Answer(n, by, how)
    PROVE  /\ how \in {"clean", "breaks", "panics"}
           /\ given' \in [DOMAIN nodes -> -1 .. 2]
           /\ torn' \subseteq (DOMAIN nodes) \X {"breaks", "panics"} /\ torn \subseteq torn'
           /\ \A t \in torn' : t \in torn \/ (how # "clean" /\ t = <<n, how>>)
           /\ how # "clean" => <<n, how>> \in torn'
           /\ \A m \in DOMAIN nodes \ {n} : given'[m] = given[m]
           /\ how = "clean" /\ given[n] + by \in -1 .. 2 => given'[n] = given[n] + by
<1>1. how \in {"clean", "breaks", "panics"}
  BY HistoryAssumption DEF Outcomes
<1>2. given \in [DOMAIN nodes -> -1 .. 2] /\ torn \subseteq (DOMAIN nodes) \X {"breaks", "panics"}
  BY DEF TypeOK
<1>3. given' = IF how = "clean" /\ given[n] + by \in -1 .. 2
               THEN [given EXCEPT ![n] = @ + by] ELSE given
  BY DEF Answer
<1>4. torn' = IF how = "clean" THEN torn ELSE torn \cup {<<n, how>>}
  BY DEF Answer
<1>5. how # "clean" => <<n, how>> \in (DOMAIN nodes) \X {"breaks", "panics"}
  BY <1>1
<1>6. given' \in [DOMAIN nodes -> -1 .. 2]
  BY <1>2, <1>3
<1>7. /\ \A m \in DOMAIN nodes \ {n} : given'[m] = given[m]
      /\ how = "clean" /\ given[n] + by \in -1 .. 2 => given'[n] = given[n] + by
  BY <1>2, <1>3
<1>8. torn' \subseteq (DOMAIN nodes) \X {"breaks", "panics"}
  BY <1>2, <1>4, <1>5
<1> QED BY <1>1, <1>4, <1>6, <1>7, <1>8

----------------------------------------------------------------------------
(* The three moves a walk is made of. *)

(* What a move leaves the tree, the cursor and the ghosts as. *)
Moved == /\ Kept /\ head' \in DOMAIN nodes \cup {0}
         /\ given' \in [DOMAIN nodes -> -1 .. 2]
         /\ torn' \subseteq (DOMAIN nodes) \X {"breaks", "panics"}
         /\ TornExpired' /\ Standing'

(* Standing after a step that keeps the tree, told node by node. *)
LEMMA StandingNext ==
    ASSUME TypeOK, Kept,
           ~strayed' =>
               \A m \in DOMAIN nodes :
                  /\ m \notin {t[1] : t \in torn'} =>
                        /\ State(m)' = "applied" => given'[m] = 1
                        /\ State(m)' = "undone" => given'[m] = 0
                  /\ State(m)' = "undone" => m \notin Path(head')
                  /\ State(m)' = "applied" => m \in Path(head')
    PROVE  Standing'
<1>1. DOMAIN nodes' = DOMAIN nodes
  BY DEF Kept
<1>2. \A x : Path(x)' = Path(x)
  BY KeptTree
<1>3. Path(head)' = Path(head')
  <2>1. Above' = Above
    <3>1. \A n \in DOMAIN nodes : Parent(n)' = Parent(n)
      BY KeptTree
    <3> QED BY <1>1, <3>1 DEF Above
  <2> QED BY <2>1 DEF Path, Chain
<1> HIDE DEF Path
<1> QED BY <1>1, <1>3 DEF Standing

(* Undoing: the claims of one node go back, those between it and the cursor
   having expired. *)
LEMMA GiveBackMoves ==
    ASSUME TypeOK, TornExpired, Standing, ~strayed' => ~strayed,
           NEW k \in 1 .. Len(Chain(head)), NEW how \in Outcomes, GiveBack(k, how)
    PROVE  /\ Moved /\ Path(head') \subseteq Path(head)
           /\ how = "panics" => Panicked'
           /\ \A m \in DOMAIN nodes :
                 State(m)' # State(m) => m \in Path(head) /\ (how # "panics" => m \notin Path(head'))
<1> DEFINE up == Chain(head)
           nd == up[k]
           S == {up[i] : i \in 1 .. k - 1}
<1>0. how \in {"clean", "breaks", "panics"}
  BY HistoryAssumption DEF Outcomes
<1>1. /\ nd \in DOMAIN nodes /\ nd \in Path(head) /\ S \subseteq Path(head) /\ nd \notin S
      /\ Parent(nd) \in DOMAIN nodes \cup {0}
      /\ Path(nd) = Path(head) \ S /\ Path(Parent(nd)) = Path(head) \ (S \cup {nd})
  <2>1. PICK above, at, line :
          /\ Rooted(above) /\ at \in DOMAIN above \cup {0} /\ DOMAIN above = DOMAIN nodes
          /\ line = up /\ line = Line(above, at) /\ at = head /\ \A x : Path(x) = Under(above, x)
          /\ \A m \in DOMAIN nodes : above[m] = Parent(m)
    BY PathFacts
  <2>2. k \in 1 .. Len(line)
    BY <2>1
  <2>3. Rooted(above) /\ at \in DOMAIN above \cup {0} /\ line = Line(above, at)
    BY <2>1
  <2>4. /\ at \in DOMAIN above /\ line[k] \in DOMAIN above /\ line[k] \in Under(above, at)
        /\ above[line[k]] \in DOMAIN above \cup {0}
        /\ {line[i] : i \in 1..k - 1} \subseteq Under(above, at)
        /\ line[k] \notin {line[i] : i \in 1..k - 1}
        /\ Under(above, line[k]) = Under(above, at) \ {line[i] : i \in 1..k - 1}
        /\ Under(above, above[line[k]]) = Under(above, at) \ ({line[i] : i \in 1..k - 1} \cup {line[k]})
    <3> HIDE DEF up, nd, S
    <3>1. at \in DOMAIN above /\ line[k] \in DOMAIN above
      BY <2>2, <2>3, GivenBack
    <3>2. line[k] \in Under(above, at)
      BY <2>2, <2>3, GivenBack
    <3>3. above[line[k]] \in DOMAIN above \cup {0}
      BY <2>2, <2>3, GivenBack
    <3>4. {line[i] : i \in 1..k - 1} \subseteq Under(above, at)
      BY <2>2, <2>3, GivenBack
    <3>5. line[k] \notin {line[i] : i \in 1..k - 1}
      BY <2>2, <2>3, GivenBack
    <3>6. Under(above, line[k]) = Under(above, at) \ {line[i] : i \in 1..k - 1}
      BY <2>2, <2>3, GivenBack
    <3>7. Under(above, above[line[k]]) = Under(above, at) \ ({line[i] : i \in 1..k - 1} \cup {line[k]})
      BY <2>2, <2>3, GivenBack
    <3> QED BY <3>1, <3>2, <3>3, <3>4, <3>5, <3>6, <3>7
  <2>5. {line[i] : i \in 1..k - 1} = S
    BY <2>1
  <2>6. line[k] = nd
    BY <2>1
  <2> HIDE DEF Path, Under, Parent, up, nd, S
  <2> QED BY <2>1, <2>4, <2>5, <2>6
<1>2. /\ Answer(nd, -1, how) /\ State(nd) # "expired"
      /\ nodes' = [Marked(S, "expired") EXCEPT ![nd].state =
                        IF how = "panics" THEN "expired" ELSE Left(how, "undone")]
      /\ head' = IF how = "panics" THEN nd ELSE Parent(nd)
  BY DEF GiveBack, Passed
<1> HIDE DEF nd, S, up
<1>3. /\ given' \in [DOMAIN nodes -> -1 .. 2]
      /\ torn' \subseteq (DOMAIN nodes) \X {"breaks", "panics"} /\ torn \subseteq torn'
      /\ \A t \in torn' : t \in torn \/ (how # "clean" /\ t = <<nd, how>>)
      /\ how # "clean" => <<nd, how>> \in torn'
      /\ \A m \in DOMAIN nodes \ {nd} : given'[m] = given[m]
      /\ how = "clean" /\ given[nd] + -1 \in -1 .. 2 => given'[nd] = given[nd] + -1
  BY <1>1, <1>2, AnswerFacts
<1>4. Kept /\ \A m \in DOMAIN nodes :
        State(m)' = IF m = nd THEN (IF how = "clean" THEN "undone" ELSE "expired")
                    ELSE IF m \in S THEN "expired" ELSE State(m)
  <2> SUFFICES ASSUME NEW m \in DOMAIN nodes
               PROVE  /\ nodes'[m] \in Node /\ nodes'[m].parent = nodes[m].parent
                      /\ nodes'[m].state = IF m = nd THEN (IF how = "clean" THEN "undone" ELSE "expired")
                                           ELSE IF m \in S THEN "expired" ELSE nodes[m].state
    BY <1>2 DEF Kept, Marked, State
  <2>1. nodes[m] \in Node
    BY DEF TypeOK
  <2>2. nodes'[m] = IF m = nd
                    THEN [nodes[nd] EXCEPT !.state = IF how = "clean" THEN "undone" ELSE "expired"]
                    ELSE IF m \in S THEN [nodes[m] EXCEPT !.state = "expired"] ELSE nodes[m]
    BY <1>0, <1>1, <1>2 DEF Marked, Left
  <2> QED BY <2>1, <2>2 DEF Node
<1>5. Path(head') = Path(head) \ (IF how = "panics" THEN S ELSE S \cup {nd})
  BY <1>1, <1>2
<1>6. head' \in DOMAIN nodes \cup {0}
  BY <1>1, <1>2
<1>7. TornExpired'
  <2> SUFFICES ASSUME NEW m \in DOMAIN nodes, <<m, "breaks">> \in torn' PROVE State(m)' = "expired"
    BY <1>4 DEF TornExpired, Kept
  <2>1. CASE <<m, "breaks">> \in torn
    BY <1>2, <1>4, <2>1 DEF TornExpired
  <2>2. CASE <<m, "breaks">> \notin torn
    BY <1>3, <1>4, <2>2
  <2> QED BY <2>1, <2>2
<1>8. Standing'
  <2> SUFFICES ASSUME ~strayed', NEW m \in DOMAIN nodes
               PROVE  /\ m \notin {t[1] : t \in torn'} =>
                            /\ State(m)' = "applied" => given'[m] = 1
                            /\ State(m)' = "undone" => given'[m] = 0
                      /\ State(m)' = "undone" => m \notin Path(head')
                      /\ State(m)' = "applied" => m \in Path(head')
    BY <1>4, StandingNext
  <2> HIDE DEF Path, State
  <2>1. /\ m \notin {t[1] : t \in torn} =>
               /\ State(m) = "applied" => given[m] = 1
               /\ State(m) = "undone" => given[m] = 0
        /\ State(m) = "undone" => m \notin Path(head)
        /\ State(m) = "applied" => m \in Path(head)
    BY DEF Standing
  <2>2. State(m) \in {"applied", "undone", "expired"}
    BY DEF TypeOK, Node, State
  <2>3. m \notin {t[1] : t \in torn'} => m \notin {t[1] : t \in torn}
    BY <1>3
  <2>4. CASE m # nd
    <3>1. State(m)' = (IF m \in S THEN "expired" ELSE State(m)) /\ given'[m] = given[m]
      BY <1>3, <1>4, <2>4
    <3> QED BY <1>5, <2>1, <2>3, <2>4, <3>1
  <2>5. CASE m = nd /\ how = "clean"
    <3>1. State(m) = "applied" /\ State(m)' = "undone"
      BY <1>1, <1>2, <1>4, <2>1, <2>2, <2>5
    <3>2. m \notin {t[1] : t \in torn} => given[m] = 1
      BY <2>1, <3>1
    <3>3. given[m] = 1 => given'[m] = 0
      BY <1>3, <2>5
    <3>4. m \notin Path(head')
      BY <1>5, <2>5
    <3> QED BY <2>3, <3>1, <3>2, <3>3, <3>4
  <2>6. CASE m = nd /\ how # "clean"
    <3>1. State(m)' = "expired"
      BY <1>4, <2>6
    <3> QED BY <3>1
  <2> QED BY <2>4, <2>5, <2>6
<1>9. Moved
  BY <1>3, <1>4, <1>6, <1>7, <1>8 DEF Moved
<1>10. ASSUME NEW m \in DOMAIN nodes, State(m)' # State(m)
       PROVE  m \in Path(head) /\ (how # "panics" => m \notin Path(head'))
  <2>1. m = nd \/ m \in S
    BY <1>4, <1>10
  <2> QED BY <1>1, <1>5, <2>1
<1>11. Path(head') \subseteq Path(head)
  BY <1>5
<1>12. how = "panics" => Panicked'
  <2> SUFFICES ASSUME how = "panics" PROVE \E t \in torn' : t[2] = "panics"
    BY DEF Panicked
  <2>1. <<nd, how>> \in torn' /\ <<nd, how>>[2] = "panics"
    BY <1>3
  <2> QED BY <2>1
<1> QED BY <1>9, <1>10, <1>11, <1>12

(* Undoing when nothing will go back: the whole path expires. *)
LEMMA GiveUpMoves ==
    ASSUME TypeOK, TornExpired, Standing, ~strayed' => ~strayed, GiveUp
    PROVE  /\ Moved /\ head' = 0 /\ Path(head') = {}
           /\ \A m \in DOMAIN nodes : State(m)' # State(m) => m \in Path(head)
<1>1. nodes' = Marked(Path(head), "expired") /\ head' = 0 /\ given' = given /\ torn' = torn
  BY DEF GiveUp
<1>2. Kept /\ \A m \in DOMAIN nodes : State(m)' = IF m \in Path(head) THEN "expired" ELSE State(m)
  BY <1>1, MarkedKeeps
<1>3. Path(head') = {}
  BY <1>1, PathFacts
<1>4. TornExpired'
  BY <1>1, <1>2 DEF TornExpired, Kept
<1>5. Standing'
  <2> SUFFICES ASSUME ~strayed', NEW m \in DOMAIN nodes
               PROVE  /\ m \notin {t[1] : t \in torn'} =>
                            /\ State(m)' = "applied" => given'[m] = 1
                            /\ State(m)' = "undone" => given'[m] = 0
                      /\ State(m)' = "undone" => m \notin Path(head')
                      /\ State(m)' = "applied" => m \in Path(head')
    BY <1>2, StandingNext
  <2> HIDE DEF Path, State
  <2>1. /\ m \notin {t[1] : t \in torn} =>
               /\ State(m) = "applied" => given[m] = 1
               /\ State(m) = "undone" => given[m] = 0
        /\ State(m) = "applied" => m \in Path(head)
    BY DEF Standing
  <2> QED BY <1>1, <1>2, <1>3, <2>1
<1>6. Moved
  BY <1>1, <1>2, <1>4, <1>5 DEF Moved, TypeOK
<1> QED BY <1>1, <1>2, <1>3, <1>6

(* Redoing one node below the cursor: it is on the path if its claims went or
   failed, and where it was if they panicked. *)
LEMMA MakeAgainMoves ==
    ASSUME TypeOK, TornExpired, Standing, ~strayed' => ~strayed,
           NEW n \in DOMAIN nodes, NEW how \in Outcomes, MakeAgain(n, how), State(n) # "expired",
           ~strayed => Parent(n) = head /\ State(n) = "undone"
    PROVE  /\ Moved
           /\ how # "panics" => head' = n
           /\ how = "panics" => <<n, "panics">> \in torn'
           /\ how # "panics" => State(n)' # "undone" /\ torn' \subseteq torn \cup {<<n, "breaks">>}
           /\ \A m \in DOMAIN nodes : State(m)' # State(m) => m = n \/ how = "panics"
<1> DEFINE at == IF how = "panics" THEN {head} ELSE {n}
           s  == IF how = "clean" THEN "applied" ELSE "expired"
<1>1. /\ Answer(n, 1, how) /\ nodes' = Marked(at, s)
      /\ head' = IF how = "panics" THEN head ELSE n
      /\ how \in {"clean", "breaks", "panics"}
  BY HistoryAssumption DEF MakeAgain, ExpireCurrent, Left, Outcomes
<1>2. /\ given' \in [DOMAIN nodes -> -1 .. 2]
      /\ torn' \subseteq (DOMAIN nodes) \X {"breaks", "panics"} /\ torn \subseteq torn'
      /\ \A t \in torn' : t \in torn \/ (how # "clean" /\ t = <<n, how>>)
      /\ how # "clean" => <<n, how>> \in torn'
      /\ \A m \in DOMAIN nodes \ {n} : given'[m] = given[m]
      /\ how = "clean" /\ given[n] + 1 \in -1 .. 2 => given'[n] = given[n] + 1
  BY <1>1, AnswerFacts
<1>3. Kept /\ \A m \in DOMAIN nodes : State(m)' = IF m \in at THEN s ELSE State(m)
  BY <1>1, MarkedKeeps
<1>4. head' \in DOMAIN nodes \cup {0}
  BY <1>1 DEF TypeOK
<1>5. TornExpired'
  <2> SUFFICES ASSUME NEW m \in DOMAIN nodes, <<m, "breaks">> \in torn' PROVE State(m)' = "expired"
    BY <1>3 DEF TornExpired, Kept
  <2>1. CASE <<m, "breaks">> \in torn
    BY <1>1, <1>3, <2>1 DEF TornExpired
  <2>2. CASE <<m, "breaks">> \notin torn
    BY <1>2, <1>3, <2>2
  <2> QED BY <2>1, <2>2
<1>6. Standing'
  <2> SUFFICES ASSUME ~strayed', NEW m \in DOMAIN nodes
               PROVE  /\ m \notin {t[1] : t \in torn'} =>
                            /\ State(m)' = "applied" => given'[m] = 1
                            /\ State(m)' = "undone" => given'[m] = 0
                      /\ State(m)' = "undone" => m \notin Path(head')
                      /\ State(m)' = "applied" => m \in Path(head')
    BY <1>3, StandingNext
  <2>0. Path(n) = {n} \cup Path(head)
    BY PathFacts
  <2> HIDE DEF Path, State
  <2>1. /\ m \notin {t[1] : t \in torn} =>
               /\ State(m) = "applied" => given[m] = 1
               /\ State(m) = "undone" => given[m] = 0
        /\ State(m) = "undone" => m \notin Path(head)
        /\ State(m) = "applied" => m \in Path(head)
    BY DEF Standing
  <2>2. m \notin {t[1] : t \in torn'} => m \notin {t[1] : t \in torn}
    BY <1>2
  <2>3. CASE how = "panics"
    <3>1. head' = head /\ State(m)' = (IF m = head THEN "expired" ELSE State(m))
      BY <1>1, <1>3, <2>3
    <3>2. m \notin {t[1] : t \in torn'} => m # n
      BY <1>2, <2>3
    <3> QED BY <1>2, <2>1, <2>2, <3>1, <3>2
  <2>4. CASE how # "panics" /\ m # n
    <3>1. State(m)' = State(m) /\ given'[m] = given[m] /\ head' = n
      BY <1>1, <1>2, <1>3, <2>4
    <3> QED BY <2>0, <2>1, <2>2, <2>4, <3>1
  <2>5. CASE how = "clean" /\ m = n
    <3>1. State(m) = "undone" /\ State(m)' = "applied" /\ head' = n
      BY <1>1, <1>3, <2>5
    <3>2. m \notin {t[1] : t \in torn} => given[m] = 0
      BY <2>1, <3>1
    <3>3. given[m] = 0 => given'[m] = 1
      BY <1>2, <2>5
    <3> QED BY <2>0, <2>2, <2>5, <3>1, <3>2, <3>3
  <2>6. CASE how = "breaks" /\ m = n
    <3>1. State(m)' = "expired"
      BY <1>3, <2>6
    <3> QED BY <3>1
  <2> QED BY <1>1, <2>3, <2>4, <2>5, <2>6
<1>7. Moved
  BY <1>2, <1>3, <1>4, <1>5, <1>6 DEF Moved
<1>8. how # "panics" => State(n)' # "undone" /\ torn' \subseteq torn \cup {<<n, "breaks">>}
  BY <1>1, <1>2, <1>3
<1>9. \A m \in DOMAIN nodes : State(m)' # State(m) => m = n \/ how = "panics"
  BY <1>3
<1> QED BY <1>1, <1>2, <1>7, <1>8, <1>9

----------------------------------------------------------------------------
(* The actions, one by one. *)

LEMMA HeadPathNext ==
    ASSUME TypeOK, Kept
    PROVE  Path(head)' = Path(head')
<1>1. \A n \in DOMAIN nodes : Parent(n)' = Parent(n)
  BY KeptTree
<1>2. Above' = Above
  BY <1>1 DEF Above, Kept
<1> QED BY <1>2 DEF Path, Chain

LEMMA MovedTypes ==
    ASSUME TypeOK, \A n \in DOMAIN nodes : n < next, Moved,
           next' = next, acts' = acts, layout' \in Layouts, strayed' \in BOOLEAN
    PROVE  TypeOK' /\ \A n \in DOMAIN nodes' : n < next'
<1>1. Kept /\ DOMAIN nodes' = DOMAIN nodes
  BY DEF Moved, Kept
<1>2. /\ DOMAIN nodes' \subseteq Ids /\ Cardinality(DOMAIN nodes') <= Keep
      /\ \A n \in DOMAIN nodes' : /\ nodes'[n] \in Node
                                  /\ Parent(n)' \in DOMAIN nodes' \cup {0}
                                  /\ Parent(n)' < n
  BY <1>1, KeptTree
<1>3. next' \in 1 .. MaxNode + 1 /\ acts' \in Layouts
  BY DEF TypeOK
<1>4. /\ head' \in DOMAIN nodes' \cup {0} /\ given' \in [DOMAIN nodes' -> -1 .. 2]
      /\ torn' \subseteq (DOMAIN nodes') \X {"breaks", "panics"}
  BY <1>1 DEF Moved
<1> HIDE DEF Parent, Kept, Moved
<1>5. TypeOK'
  BY <1>2, <1>3, <1>4 DEF TypeOK
<1> QED BY <1>1, <1>5

LEMMA FoldKeeps == ASSUME HistoryInv, Fold PROVE HistoryInv'
<1>1. TypeOK /\ TornExpired /\ Standing /\ \A n \in DOMAIN nodes : n < next
  BY DEF HistoryInv
<1>2. acts + 1 \in Layouts /\ head \in DOMAIN nodes /\ \A n \in DOMAIN nodes : nodes[n] \in Node
  BY <1>1, HistoryAssumption DEF Fold, TypeOK, Layouts, IsNode
<1>3. Kept /\ \A n \in DOMAIN nodes : State(n)' = State(n)
  <2> SUFFICES ASSUME NEW n \in DOMAIN nodes
               PROVE  nodes'[n] \in Node /\ nodes'[n].parent = nodes[n].parent /\ nodes'[n].state = nodes[n].state
    BY DEF Fold, Kept, State
  <2>1. nodes'[n] = IF n = head THEN [nodes[n] EXCEPT !.after = acts + 1, !.ts = acts + 1] ELSE nodes[n]
    BY <1>2 DEF Fold
  <2> QED BY <1>2, <2>1 DEF Node
<1>4. Standing'
  <2>1. \A m \in DOMAIN nodes :
           /\ given'[m] = given[m] /\ torn' = torn /\ strayed' = strayed /\ head' = head
           /\ State(m)' = State(m)
    BY <1>3 DEF Fold
  <2> HIDE DEF State, Path
  <2> QED BY <1>1, <1>3, <2>1, StandingNext DEF Standing, Fold
<1>5. TornExpired'
  BY <1>1, <1>3 DEF TornExpired, Fold, Kept
<1>6. Moved
  BY <1>1, <1>3, <1>4, <1>5 DEF Moved, Fold, TypeOK
<1>7. TypeOK' /\ \A n \in DOMAIN nodes' : n < next'
  <2>1. /\ DOMAIN nodes' \subseteq Ids /\ Cardinality(DOMAIN nodes') <= Keep
        /\ \A n \in DOMAIN nodes' : /\ nodes'[n] \in Node
                                    /\ Parent(n)' \in DOMAIN nodes' \cup {0}
                                    /\ Parent(n)' < n
    BY <1>1, <1>3, KeptTree
  <2>2. next' = next /\ acts' = acts + 1 /\ layout' = acts + 1 /\ strayed' = strayed /\ DOMAIN nodes' = DOMAIN nodes
    BY <1>3 DEF Fold, Kept
  <2> HIDE DEF Parent
  <2> QED BY <1>1, <1>2, <1>6, <2>1, <2>2 DEF TypeOK, Moved
<1>8. OnTheWay'
  BY DEF OnTheWay, Fold
<1> QED BY <1>4, <1>5, <1>7, <1>8 DEF HistoryInv

LEMMA UndoKeeps == ASSUME HistoryInv, Undo PROVE HistoryInv'
<1>1. TypeOK /\ TornExpired /\ Standing /\ \A n \in DOMAIN nodes : n < next
  BY DEF HistoryInv
<1>2. next' = next /\ acts' = acts /\ leg' = leg /\ strayed' = strayed /\ leg = Idle
  BY DEF Undo
<1>3. Moved /\ layout' \in Layouts
  <2>1. CASE \E k \in 1 .. Len(Chain(head)), how \in Outcomes :
                /\ GiveBack(k, how)
                /\ layout' = IF how = "panics" THEN layout ELSE nodes[Chain(head)[k]].before
    <3>1. PICK k \in 1 .. Len(Chain(head)), how \in Outcomes :
                /\ GiveBack(k, how)
                /\ layout' = IF how = "panics" THEN layout ELSE nodes[Chain(head)[k]].before
      BY <2>1
    <3>2. Moved
      BY <1>1, <1>2, <3>1, GiveBackMoves
    <3>3. Chain(head)[k] \in DOMAIN nodes
      <4>1. PICK above, at, line : Rooted(above) /\ at \in DOMAIN above \cup {0} /\ line = Line(above, at)
                                   /\ DOMAIN above = DOMAIN nodes /\ line = Chain(head)
        BY <1>1, PathFacts
      <4>2. k \in 1 .. Len(line)
        BY <4>1
      <4>3. line[k] \in DOMAIN above
        BY <4>1, <4>2, GivenBack
      <4> QED BY <4>1, <4>3
    <3>4. nodes[Chain(head)[k]].before \in Layouts
      BY <1>1, <3>3 DEF TypeOK, Node
    <3> QED BY <1>1, <3>1, <3>2, <3>4 DEF TypeOK
  <2>2. CASE GiveUp /\ UNCHANGED layout
    <3>1. Moved
      BY <1>1, <1>2, <2>2, GiveUpMoves
    <3> QED BY <1>1, <2>2, <3>1 DEF TypeOK
  <2> QED BY <2>1, <2>2 DEF Undo
<1>4. strayed' \in BOOLEAN
  BY <1>1, <1>2 DEF TypeOK
<1>5. TypeOK' /\ \A n \in DOMAIN nodes' : n < next'
  BY <1>1, <1>2, <1>3, <1>4, MovedTypes
<1>6. OnTheWay'
  BY <1>2 DEF OnTheWay
<1> QED BY <1>3, <1>5, <1>6 DEF HistoryInv, Moved

LEMMA RedoKeeps == ASSUME HistoryInv, Redo PROVE HistoryInv'
<1>1. TypeOK /\ TornExpired /\ Standing /\ \A n \in DOMAIN nodes : n < next
  BY DEF HistoryInv
<1>2. next' = next /\ acts' = acts /\ leg' = leg /\ strayed' = strayed /\ leg = Idle
  BY DEF Redo
<1>3. Moved /\ layout' \in Layouts
  <2>0. PICK n : n = Highest(UndoneChildren(head))
    OBVIOUS
  <2>1. PICK how \in Outcomes : /\ MakeAgain(n, how)
                                /\ layout' = IF how = "panics" THEN layout ELSE nodes[n].after
    BY <2>0 DEF Redo
  <2>2. n \in UndoneChildren(head)
    <3>1. UndoneChildren(head) \subseteq Ids /\ UndoneChildren(head) # {}
      BY <1>1 DEF UndoneChildren, TypeOK, Redo
    <3> QED BY <2>0, <3>1, HighestIsIn
  <2>3. n \in DOMAIN nodes /\ Parent(n) = head /\ State(n) = "undone"
    BY <2>2 DEF UndoneChildren
  <2>4. Moved
    <3>1. State(n) # "expired"
      BY <2>3
    <3> HIDE DEF State, Parent
    <3> QED BY <1>1, <1>2, <2>1, <2>3, <3>1, MakeAgainMoves
  <2>5. nodes[n].after \in Layouts
    BY <1>1, <2>3 DEF TypeOK, Node
  <2> QED BY <1>1, <2>1, <2>4, <2>5 DEF TypeOK
<1>4. strayed' \in BOOLEAN
  BY <1>1, <1>2 DEF TypeOK
<1>5. TypeOK' /\ \A n \in DOMAIN nodes' : n < next'
  BY <1>1, <1>2, <1>3, <1>4, MovedTypes
<1>6. OnTheWay'
  BY <1>2 DEF OnTheWay
<1> QED BY <1>3, <1>5, <1>6 DEF HistoryInv, Moved

(* A travel sets out: where the branches meet, and the way down from there. *)
LEMMA TravelKeeps == ASSUME HistoryInv, NEW to \in Ids \cup {0}, Travel(to) PROVE HistoryInv'
<1>1. TypeOK /\ TornExpired /\ Standing /\ \A n \in DOMAIN nodes : n < next
  BY DEF HistoryInv
<1>2. /\ to \in DOMAIN nodes \cup {0}
      /\ leg' = [phase |-> "up", to |-> to, top |-> Meet(to), down |-> Branch(to, Meet(to)), last |-> 0,
                 shared |-> Path(head) \cap Path(to)]
      /\ nodes' = nodes /\ head' = head /\ next' = next /\ acts' = acts /\ layout' = layout
      /\ given' = given /\ torn' = torn /\ strayed' = strayed
  BY DEF Travel, IsNode
<1>3. PICK above, x :
        /\ Rooted(above) /\ DOMAIN above = DOMAIN nodes /\ x = head /\ x \in DOMAIN above \cup {0}
        /\ \A y : Path(y) = Under(above, y) /\ Chain(y) = Line(above, y)
        /\ \A n \in DOMAIN nodes : above[n] = Parent(n)
  <2>1. /\ Rooted(Above) /\ DOMAIN Above = DOMAIN nodes /\ head \in DOMAIN Above \cup {0}
        /\ \A y : Path(y) = Under(Above, y) /\ Chain(y) = Line(Above, y)
        /\ \A n \in DOMAIN nodes : Above[n] = Parent(n)
    BY <1>1, PathFacts
  <2> HIDE DEF Above, Path, Chain, Parent
  <2> QED BY <2>1
<1>4. PICK top, d, c, b : /\ top = Meet(to) /\ d = Cardinality(Path(to) \ Path(top)) /\ c = Chain(to)
                          /\ b = [i \in 1 .. d |-> c[d + 1 - i]] /\ b = Branch(to, Meet(to))
  BY DEF Branch
<1>5. to \in DOMAIN above \cup {0} /\ c = Line(above, to)
  BY <1>2, <1>3, <1>4
<1>51. top = IF Under(above, x) \cap Under(above, to) = {} THEN 0
             ELSE Highest(Under(above, x) \cap Under(above, to))
  BY <1>3, <1>4 DEF Meet
<1>52. top \in Under(above, to) \cup {0} /\ top \in Under(above, x) \cup {0}
  BY <1>3, <1>5, <1>51, MeetingPlace
<1>53. top \in Ids \cup {0} /\ Under(above, top) = Under(above, x) \cap Under(above, to)
  BY <1>3, <1>5, <1>51, MeetingPlace
<1>54. d = Cardinality(Under(above, to) \ Under(above, top)) /\ Turned(b, c, d)
  BY <1>3, <1>4 DEF Turned
<1>55. Ways(above, top, to, b)
  BY <1>3, <1>5, <1>52, <1>54, BranchFacts
<1>6. /\ b \in Seq(DOMAIN above) /\ Len(b) \in Nat /\ DOMAIN b = 1..Len(b)
      /\ to = IF b = <<>> THEN top ELSE b[Len(b)]
      /\ \A i \in DOMAIN b :
           /\ b[i] \in Under(above, to) /\ b[i] \notin Under(above, top)
           /\ above[b[i]] = IF i = 1 THEN top ELSE b[i - 1]
           /\ \A j \in DOMAIN b : i < j => b[i] < b[j]
  BY <1>55 DEF Ways
<1>7. leg'.phase = "up" /\ leg'.to = to /\ leg'.top = top /\ leg'.down = b /\ leg'.last = 0
      /\ leg'.shared = Path(head) \cap Path(to)
  BY <1>2, <1>4
<1>8. TypeOK' /\ TornExpired' /\ Standing' /\ \A n \in DOMAIN nodes' : n < next'
  <2>1. TypeOK'
    BY <1>1, <1>2 DEF TypeOK, Parent
  <2>2. TornExpired'
    BY <1>1, <1>2 DEF TornExpired, State
  <2>3. Path(head)' = Path(head) /\ \A n : State(n)' = State(n)
    BY <1>2 DEF State, Path, Chain, Above, Parent
  <2>4. Standing'
    BY <1>1, <1>2, <2>3 DEF Standing
  <2> QED BY <1>1, <1>2, <2>1, <2>2, <2>4
<1>9. \A y : Path(y)' = Path(y)
  BY <1>2 DEF Path, Chain, Above, Parent
<1>10. \A n : Parent(n)' = Parent(n)
  BY <1>2 DEF Parent
<1>11. Path(head)' = Path(head) /\ Path(top)' = Path(top)
  BY <1>2 DEF Path, Chain, Above, Parent
<1> HIDE DEF Path, Parent
<1>12. leg' \in Leg'
  <2>1. b \in Seq(DOMAIN nodes)
    BY <1>3, <1>6
  <2>2. Path(head) \cap Path(to) \in SUBSET Ids
    <3>1. Path(head) \subseteq DOMAIN nodes
      <4>1. head \in DOMAIN nodes \cup {0}
        BY <1>1 DEF TypeOK
      <4> QED BY <1>1, <4>1, PathFacts
    <3>2. DOMAIN nodes \subseteq Ids
      BY <1>1 DEF TypeOK
    <3> QED BY <3>1, <3>2
  <2> QED BY <1>2, <1>4, <1>53, <2>1, <2>2 DEF Leg
<1>13. /\ leg'.shared \subseteq Path(head) /\ leg'.top \in Path(head) \cup {0} /\ leg'.shared = Path(top)
  BY <1>3, <1>52, <1>53, <1>7
<1>14. WayDown(leg.top)'
  <2>1. ASSUME NEW i \in DOMAIN b
        PROVE  /\ b[i] \notin Path(head) /\ Parent(b[i]) = IF i = 1 THEN top ELSE b[i - 1]
               /\ \A j \in DOMAIN b : i < j => b[i] < b[j]
    <3>1. b[i] \in DOMAIN above
      <4>1. \A S, q : q \in Seq(S) => \A h \in DOMAIN q : q[h] \in S
        OBVIOUS
      <4> QED BY <1>6, <4>1
    <3>2. b[i] \notin Path(head)
      BY <1>3, <1>53, <1>6
    <3>3. Parent(b[i]) = above[b[i]]
      BY <1>3, <3>1
    <3> QED BY <1>6, <3>2, <3>3
  <2> QED BY <1>6, <1>7, <1>10, <1>11, <2>1 DEF WayDown
<1>15. OnTheWay'
  <2>1. Path(leg.top)' = Path(top)
    BY <1>2, <1>7 DEF Path, Chain, Above, Parent
  <2> QED BY <1>7, <1>11, <1>12, <1>13, <1>14, <2>1 DEF OnTheWay
<1> QED BY <1>8, <1>15 DEF HistoryInv

(* Every node under another stands under it from where it is: of the cursor and the
   meeting place, the one the other is not below. *)
LEMMA StillBelow ==
    ASSUME TypeOK, NEW top \in Path(head) \cup {0}, NEW at \in {top} \cup (Path(head) \ Path(top))
    PROVE  top \in Path(at) \cup {0} /\ Path(top) \subseteq Path(at)
<1>1. head = 0 => Path(head) = {}
  BY PathFacts
<1>2. CASE at = top
  <2>1. top \in Path(head) => top \in DOMAIN nodes
    BY <1>1, PathFacts DEF TypeOK
  <2>2. top \in DOMAIN nodes => top \in Path(top)
    <3>1. \A n \in DOMAIN nodes : Path(n) = {n} \cup Path(Parent(n))
      BY PathFacts
    <3> HIDE DEF Path, Parent
    <3> QED BY <3>1
  <2> QED BY <1>2, <2>1, <2>2
<1>3. CASE at \in Path(head) \ Path(top)
  <2>1. head \in DOMAIN nodes
    BY <1>1, <1>3 DEF TypeOK
  <2>2. at \in Nat /\ at \in DOMAIN nodes
    BY <1>3, <2>1, PathFacts
  <2>3. CASE top = 0
    BY <2>3, PathFacts
  <2>4. CASE top # 0
    <3>1. top \in Path(head) /\ top \in Nat
      BY <2>1, <2>4, PathFacts
    <3>2. \A a, b \in Path(head) : a <= b => a \in Path(b)
      BY <2>1, PathFacts
    <3>3. top <= at
      BY <1>3, <2>2, <3>1, <3>2
    <3>4. top \in Path(at)
      BY <1>3, <3>1, <3>2, <3>3
    <3> QED BY <2>2, <3>4, PathFacts
  <2> QED BY <2>3, <2>4
<1> QED BY <1>2, <1>3

(* What is left of the way down is still left of it when the cursor goes up its own
   path. *)
LEMMA WayDownNext ==
    ASSUME TypeOK, Kept, leg \in Leg, NEW start, NEW down, NEW to,
           leg'.down = down, leg.down = down, leg'.to = to, leg.to = to,
           WayDown(start), Path(head') \subseteq Path(head)
    PROVE  /\ \A i \in DOMAIN down :
                 /\ down[i] \notin Path(head)'
                 /\ Parent(down[i])' = IF i = 1 THEN start ELSE down[i - 1]
                 /\ \A j \in DOMAIN down : i < j => down[i] < down[j]
           /\ to = IF down = <<>> THEN start ELSE down[Len(down)]
<1>1. Path(head)' = Path(head')
  BY HeadPathNext
<1>2. \A n \in DOMAIN nodes : Parent(n)' = Parent(n)
  BY KeptTree
<1>3. \A i \in DOMAIN down : down[i] \in DOMAIN nodes
  <2>1. down \in Seq(DOMAIN nodes)
    BY DEF Leg
  <2>2. \A S, q : q \in Seq(S) => \A h \in DOMAIN q : q[h] \in S
    OBVIOUS
  <2> QED BY <2>1, <2>2
<1> HIDE DEF Path, Parent
<1> QED BY <1>1, <1>2, <1>3 DEF WayDown

LEMMA ClimbKeeps == ASSUME HistoryInv, Climb PROVE HistoryInv'
<1>1. TypeOK /\ TornExpired /\ Standing /\ OnTheWay /\ \A n \in DOMAIN nodes : n < next
  BY DEF HistoryInv
<1>2. /\ next' = next /\ acts' = acts /\ layout' = layout
      /\ strayed' = (strayed \/ head' \notin {leg.top} \cup (Path(head) \ Path(leg.top)))
      /\ leg.phase = "up"
  BY DEF Climb, Climbing
<1>3. leg # Idle
  BY <1>2 DEF Idle
<1>4. leg \in Leg
  BY <1>1, <1>3 DEF OnTheWay
<1>5. strayed \in BOOLEAN /\ strayed' \in BOOLEAN /\ (~strayed' => ~strayed)
  <2>1. strayed \in BOOLEAN
    BY <1>1 DEF TypeOK
  <2> QED BY <1>2, <2>1
<1>6. Moved /\ Path(head') \subseteq Path(head) /\ (leg' = Idle \/ leg' = leg)
  <2>1. ASSUME NEW k \in 1 .. Len(Chain(head)), NEW how \in Outcomes, GiveBack(k, how),
               leg' = IF how = "panics" THEN Idle ELSE leg
        PROVE  Moved /\ Path(head') \subseteq Path(head) /\ (leg' = Idle \/ leg' = leg)
    BY <1>1, <1>5, <2>1, GiveBackMoves
  <2>2. ASSUME GiveUp, leg' = leg
        PROVE  Moved /\ Path(head') \subseteq Path(head) /\ (leg' = Idle \/ leg' = leg)
    BY <1>1, <1>5, <2>2, GiveUpMoves
  <2> QED BY <2>1, <2>2 DEF Climb
<1>7. TypeOK' /\ \A n \in DOMAIN nodes' : n < next'
  <2>1. layout' \in Layouts
    BY <1>1, <1>2 DEF TypeOK
  <2> QED BY <1>1, <1>2, <1>5, <1>6, <2>1, MovedTypes
<1>8. OnTheWay'
  <2>1. CASE leg' = Idle
    BY <2>1 DEF OnTheWay, Idle
  <2>2. CASE leg' = leg
    <3>1. leg' \in Leg'
      BY <1>4, <1>6, <2>2 DEF Leg, Moved, Kept, Ids
    <3>2. ASSUME ~strayed'
          PROVE  leg.shared \subseteq Path(head)' /\ leg.top \in Path(head)' \cup {0}
                 /\ leg.shared = Path(leg.top)' /\ WayDown(leg.top)'
      <4>1. head' \in {leg.top} \cup (Path(head) \ Path(leg.top))
        BY <1>2, <3>2
      <4>2. leg.top \in Path(head) \cup {0} /\ leg.shared = Path(leg.top) /\ WayDown(leg.top)
        BY <1>1, <1>2, <1>3, <1>5, <3>2 DEF OnTheWay
      <4>3. leg.top \in Path(head') \cup {0} /\ Path(leg.top) \subseteq Path(head')
        <5>1. \A top \in Path(head) \cup {0} : \A at \in {top} \cup (Path(head) \ Path(top)) :
                 top \in Path(at) \cup {0} /\ Path(top) \subseteq Path(at)
          BY <1>1, StillBelow
        <5> QED BY <4>1, <4>2, <5>1
      <4>4. Path(head)' = Path(head') /\ Path(leg.top)' = Path(leg.top)
        <5>1. Kept
          BY <1>6 DEF Moved
        <5>2. Above' = Above
          <6>1. \A n \in DOMAIN nodes : Parent(n)' = Parent(n)
            BY <1>1, <5>1, KeptTree
          <6> QED BY <5>1, <6>1 DEF Above, Kept
        <5> QED BY <2>2, <5>2 DEF Path, Chain
      <4>5. WayDown(leg.top)'
        <5>1. Kept
          BY <1>6 DEF Moved
        <5>2. PICK start, down, to : start = leg.top /\ down = leg.down /\ to = leg.to
          OBVIOUS
        <5>3. WayDown(start) /\ leg'.down = down /\ leg'.to = to /\ leg'.top = start
          BY <2>2, <4>2, <5>2
        <5>4. /\ \A i \in DOMAIN down :
                 /\ down[i] \notin Path(head)'
                 /\ Parent(down[i])' = IF i = 1 THEN start ELSE down[i - 1]
                 /\ \A j \in DOMAIN down : i < j => down[i] < down[j]
              /\ to = IF down = <<>> THEN start ELSE down[Len(down)]
          BY <1>1, <1>4, <1>6, <5>1, <5>2, <5>3, WayDownNext
        <5> HIDE DEF Path, Parent
        <5> QED BY <5>3, <5>4 DEF WayDown
      <4> HIDE DEF Path
      <4> QED BY <4>2, <4>3, <4>4, <4>5
    <3> HIDE DEF Path
    <3> QED BY <1>2, <2>2, <3>1, <3>2 DEF OnTheWay
  <2> QED BY <1>6, <2>1, <2>2
<1> QED BY <1>6, <1>7, <1>8 DEF HistoryInv, Moved

LEMMA TurnKeeps == ASSUME HistoryInv, Turn PROVE HistoryInv'
<1>1. TypeOK /\ TornExpired /\ Standing /\ OnTheWay /\ \A n \in DOMAIN nodes : n < next
  BY DEF HistoryInv
<1>2. /\ nodes' = nodes /\ head' = head /\ next' = next /\ acts' = acts /\ layout' = layout
      /\ given' = given /\ torn' = torn /\ strayed' = strayed
      /\ leg' = [leg EXCEPT !.phase = "down"] /\ leg.phase = "up" /\ (head = leg.top \/ head = 0)
  BY DEF Turn, Climbing
<1>3. leg # Idle /\ leg \in Leg
  BY <1>1, <1>2 DEF OnTheWay, Idle
<1>4. /\ leg' \in Leg /\ leg'.phase = "down" /\ leg'.to = leg.to /\ leg'.top = leg.top
      /\ leg'.down = leg.down /\ leg'.last = leg.last /\ leg'.shared = leg.shared
  BY <1>2, <1>3 DEF Leg
<1>5. TypeOK' /\ TornExpired' /\ Standing' /\ \A n \in DOMAIN nodes' : n < next'
  <2>1. TypeOK'
    BY <1>1, <1>2 DEF TypeOK, Parent
  <2>2. TornExpired'
    BY <1>1, <1>2 DEF TornExpired, State
  <2>3. Path(head)' = Path(head) /\ \A n : State(n)' = State(n)
    BY <1>2 DEF State, Path, Chain, Above, Parent
  <2>4. Standing'
    BY <1>1, <1>2, <2>3 DEF Standing
  <2> QED BY <1>1, <1>2, <2>1, <2>2, <2>4
<1>6. Path(head)' = Path(head) /\ \A n : Parent(n)' = Parent(n)
  BY <1>2 DEF Path, Chain, Above, Parent
<1>7. ~strayed => leg.shared \subseteq Path(head) /\ WayDown(head)
  <2> SUFFICES ASSUME ~strayed PROVE leg.shared \subseteq Path(head) /\ WayDown(head)
    OBVIOUS
  <2>1. leg.shared \subseteq Path(head) /\ leg.top \in Path(head) \cup {0} /\ WayDown(leg.top)
    BY <1>1, <1>2, <1>3 DEF OnTheWay
  <2>2. head = leg.top
    <3>1. head = 0 => Path(head) = {}
      BY <1>1, PathFacts
    <3> QED BY <1>2, <2>1, <3>1
  <2> QED BY <2>1, <2>2
<1>8. ~strayed => WayDown(head)'
  <2> HIDE DEF Path, Parent
  <2> QED BY <1>2, <1>4, <1>6, <1>7 DEF WayDown
<1>9. OnTheWay'
  <2>1. leg' \in Leg'
    BY <1>2, <1>4 DEF Leg
  <2> HIDE DEF Path, WayDown
  <2> QED BY <1>2, <1>4, <1>6, <1>7, <1>8, <2>1 DEF OnTheWay
<1> QED BY <1>5, <1>9 DEF HistoryInv

(* The next of a way down: the rest hangs from it and ends where the way ended. *)
LEMMA WayOn ==
    ASSUME NEW S, NEW q \in Seq(S), q # <<>>,
           \A i, j \in DOMAIN q : i < j => q[i] < q[j]
    PROVE  /\ Head(q) \in S /\ Head(q) = q[1] /\ 1 \in DOMAIN q
           /\ Tail(q) \in Seq(S)
           /\ \A i \in DOMAIN Tail(q) :
                /\ i + 1 \in DOMAIN q /\ Tail(q)[i] = q[i + 1] /\ i + 1 # 1
                /\ IF i = 1 THEN q[(i + 1) - 1] = Head(q)
                   ELSE i - 1 \in DOMAIN Tail(q) /\ q[(i + 1) - 1] = Tail(q)[i - 1]
           /\ \A i \in DOMAIN Tail(q) : Head(q) < Tail(q)[i]
           /\ \A i, j \in DOMAIN Tail(q) : i < j => Tail(q)[i] < Tail(q)[j]
           /\ IF Tail(q) = <<>> THEN q[Len(q)] = Head(q)
              ELSE Tail(q)[Len(Tail(q))] = q[Len(q)]
<1>1. Len(q) \in Nat \ {0} /\ DOMAIN q = 1..Len(q) /\ Head(q) = q[1]
  OBVIOUS
<1>2. Tail(q) \in Seq(S) /\ Len(Tail(q)) = Len(q) - 1 /\ DOMAIN Tail(q) = 1..Len(q) - 1
      /\ \A i \in 1..Len(q) - 1 : Tail(q)[i] = q[i + 1]
  OBVIOUS
<1>3. 1 \in DOMAIN q
  BY <1>1
<1>4. Head(q) \in S
  OBVIOUS
<1>5. \A l \in Nat \ {0} : \A i \in 1..l - 1 :
         /\ i + 1 \in 1..l /\ i + 1 # 1 /\ (i + 1) - 1 = i /\ 1 < i + 1
         /\ i # 1 => i - 1 \in 1..l - 1 /\ (i - 1) + 1 = i
  OBVIOUS
<1>6. Tail(q) = <<>> <=> Len(q) = 1
  <2>1. \A s \in Seq(S) : s = <<>> <=> Len(s) = 0
    OBVIOUS
  <2> QED BY <1>1, <1>2, <2>1
<1>7. \A i \in DOMAIN Tail(q) :
        /\ i + 1 \in DOMAIN q /\ Tail(q)[i] = q[i + 1] /\ i + 1 # 1
        /\ IF i = 1 THEN q[(i + 1) - 1] = Head(q)
           ELSE i - 1 \in DOMAIN Tail(q) /\ q[(i + 1) - 1] = Tail(q)[i - 1]
  <2> SUFFICES ASSUME NEW i \in 1..Len(q) - 1
               PROVE  /\ i + 1 \in DOMAIN q /\ Tail(q)[i] = q[i + 1] /\ i + 1 # 1
                      /\ IF i = 1 THEN q[(i + 1) - 1] = Head(q)
                         ELSE i - 1 \in DOMAIN Tail(q) /\ q[(i + 1) - 1] = Tail(q)[i - 1]
    BY <1>2
  <2>1. /\ i + 1 \in 1..Len(q) /\ i + 1 # 1 /\ (i + 1) - 1 = i
        /\ i # 1 => i - 1 \in 1..Len(q) - 1 /\ (i - 1) + 1 = i
    BY <1>1, <1>5
  <2>2. i # 1 => Tail(q)[i - 1] = q[i]
    BY <1>2, <2>1
  <2> QED BY <1>1, <1>2, <2>1, <2>2
<1>8. \A i \in DOMAIN Tail(q) : Head(q) < Tail(q)[i]
  <2> SUFFICES ASSUME NEW i \in DOMAIN Tail(q) PROVE q[1] < q[i + 1]
    BY <1>1, <1>7
  <2>1. 1 < i + 1 /\ i + 1 \in DOMAIN q
    BY <1>1, <1>2, <1>5
  <2> QED BY <1>3, <2>1
<1>9. \A i, j \in DOMAIN Tail(q) : i < j => Tail(q)[i] < Tail(q)[j]
  <2> SUFFICES ASSUME NEW i \in DOMAIN Tail(q), NEW j \in DOMAIN Tail(q), i < j
               PROVE  q[i + 1] < q[j + 1]
    BY <1>7
  <2>1. i + 1 < j + 1 /\ i + 1 \in DOMAIN q /\ j + 1 \in DOMAIN q
    BY <1>1, <1>2, <1>7
  <2> QED BY <2>1
<1>10. CASE Len(q) = 1
  BY <1>1, <1>2, <1>3, <1>4, <1>6, <1>7, <1>8, <1>9, <1>10
<1>11. CASE Len(q) # 1
  <2>1. \A l \in Nat \ {0} : l # 1 => l - 1 \in 1..l - 1 /\ (l - 1) + 1 = l
    OBVIOUS
  <2>2. Len(q) - 1 \in 1..Len(q) - 1 /\ (Len(q) - 1) + 1 = Len(q)
    BY <1>1, <1>11, <2>1
  <2>3. Tail(q)[Len(Tail(q))] = q[Len(q)]
    BY <1>2, <2>2
  <2> QED BY <1>1, <1>2, <1>3, <1>4, <1>6, <1>7, <1>8, <1>9, <1>11, <2>3
<1> QED BY <1>10, <1>11

(* One node down, the travel is still on its way. *)
LEMMA StepDown ==
    ASSUME TypeOK, OnTheWay, leg # Idle, leg.phase = "down", leg.down # <<>>
    PROVE  /\ leg \in Leg /\ leg.down \in Seq(DOMAIN nodes) /\ Head(leg.down) \in DOMAIN nodes
           /\ \A i, j \in DOMAIN leg.down : ~strayed => (i < j => leg.down[i] < leg.down[j])
           /\ ~strayed => /\ Head(leg.down) \notin Path(head) /\ Parent(Head(leg.down)) = head
                          /\ Path(Head(leg.down)) = {Head(leg.down)} \cup Path(head)
<1>1. leg \in Leg
  BY DEF OnTheWay
<1>2. leg.down \in Seq(DOMAIN nodes)
  BY <1>1 DEF Leg
<1>3. 1 \in DOMAIN leg.down /\ Head(leg.down) = leg.down[1] /\ Head(leg.down) \in DOMAIN nodes
  <2>1. \A S, q : q \in Seq(S) /\ q # <<>> => 1 \in DOMAIN q /\ Head(q) = q[1] /\ Head(q) \in S
    OBVIOUS
  <2> QED BY <1>2, <2>1
<1>4. ~strayed => WayDown(head)
  BY DEF OnTheWay
<1>5. ~strayed => \A i, j \in DOMAIN leg.down : i < j => leg.down[i] < leg.down[j]
  BY <1>4 DEF WayDown
<1>6. ~strayed => Head(leg.down) \notin Path(head) /\ Parent(Head(leg.down)) = head
  <2> HIDE DEF Path, Parent
  <2> QED BY <1>3, <1>4 DEF WayDown
<1>7. Path(Head(leg.down)) = {Head(leg.down)} \cup Path(Parent(Head(leg.down)))
  <2>1. \A n \in DOMAIN nodes : Path(n) = {n} \cup Path(Parent(n))
    BY PathFacts
  <2> HIDE DEF Path, Parent
  <2> QED BY <1>3, <2>1
<1> HIDE DEF Path, Parent
<1> QED BY <1>1, <1>2, <1>3, <1>5, <1>6, <1>7

LEMMA DownNext ==
    ASSUME TypeOK, OnTheWay, Kept, leg # Idle, leg.phase = "down", leg.down # <<>>,
           head' = Head(leg.down), strayed' = strayed,
           \/ leg' = [leg EXCEPT !.down = Tail(@)]
           \/ leg' = [leg EXCEPT !.down = Tail(@), !.last = Head(leg.down)]
    PROVE  OnTheWay'
<1>1. PICK down, n, rest, to, at : down = leg.down /\ n = Head(down) /\ rest = Tail(down) /\ to = leg.to
                                   /\ at = head
  OBVIOUS
<1>2. /\ leg \in Leg /\ down \in Seq(DOMAIN nodes) /\ n \in DOMAIN nodes
      /\ ~strayed => \A i, j \in DOMAIN down : i < j => down[i] < down[j]
      /\ ~strayed => n \notin Path(at) /\ Path(n) = {n} \cup Path(at)
  BY <1>1, StepDown
<1>3. rest \in Seq(DOMAIN nodes)
  <2>1. \A S, q : q \in Seq(S) /\ q # <<>> => Tail(q) \in Seq(S)
    OBVIOUS
  <2> QED BY <1>1, <1>2, <2>1
<1>4. /\ leg' \in Leg' /\ leg'.phase = "down" /\ leg'.down = rest /\ leg'.to = to
      /\ leg'.shared = leg.shared
  BY <1>1, <1>2, <1>3 DEF Leg, Kept
<1>5. Path(head)' = Path(n)
  BY <1>1, HeadPathNext
<1>6. \A m \in DOMAIN nodes : Parent(m)' = Parent(m)
  BY KeptTree
<1>7. ASSUME ~strayed PROVE leg.shared \subseteq Path(n) /\ WayDown(head)'
  <2>1. leg.shared \subseteq Path(at) /\ WayDown(at)
    BY <1>1, <1>7 DEF OnTheWay
  <2>2. /\ \A i \in DOMAIN down : /\ down[i] \notin Path(at)
                                  /\ Parent(down[i]) = IF i = 1 THEN at ELSE down[i - 1]
        /\ to = IF down = <<>> THEN at ELSE down[Len(down)]
    <3> HIDE DEF Path, Parent
    <3> QED BY <1>1, <2>1 DEF WayDown
  <2>3. down # <<>>
    BY <1>1
  <2>4. \A i, j \in DOMAIN down : i < j => down[i] < down[j]
    BY <1>2, <1>7
  <2>5. \A i \in DOMAIN rest :
           /\ i + 1 \in DOMAIN down /\ rest[i] = down[i + 1] /\ i + 1 # 1
           /\ IF i = 1 THEN down[(i + 1) - 1] = n
              ELSE i - 1 \in DOMAIN rest /\ down[(i + 1) - 1] = rest[i - 1]
    <3> SUFFICES ASSUME NEW i \in DOMAIN rest
                 PROVE  /\ i + 1 \in DOMAIN down /\ rest[i] = down[i + 1] /\ i + 1 # 1
                        /\ IF i = 1 THEN down[(i + 1) - 1] = n
                           ELSE i - 1 \in DOMAIN rest /\ down[(i + 1) - 1] = rest[i - 1]
      OBVIOUS
    <3>1. i + 1 \in DOMAIN down /\ rest[i] = down[i + 1] /\ i + 1 # 1
      BY <1>1, <1>2, <2>3, <2>4, WayOn
    <3>2. i = 1 => down[(i + 1) - 1] = n
      BY <1>1, <1>2, <2>3, <2>4, WayOn
    <3>3. i # 1 => i - 1 \in DOMAIN rest /\ down[(i + 1) - 1] = rest[i - 1]
      BY <1>1, <1>2, <2>3, <2>4, WayOn
    <3> QED BY <3>1, <3>2, <3>3
  <2>6. \A i \in DOMAIN rest : n < rest[i]
    BY <1>1, <1>2, <2>3, <2>4, WayOn
  <2>7. \A i, j \in DOMAIN rest : i < j => rest[i] < rest[j]
    BY ZenonT(60), <1>1, <1>2, <2>3, <2>4, WayOn
  <2>8. IF rest = <<>> THEN down[Len(down)] = n ELSE rest[Len(rest)] = down[Len(down)]
    BY <1>1, <1>2, <2>3, <2>4, WayOn
  <2>9. ASSUME NEW i \in DOMAIN rest
        PROVE  /\ rest[i] \in DOMAIN nodes /\ rest[i] \notin Path(n)
               /\ Parent(rest[i]) = IF i = 1 THEN n ELSE rest[i - 1]
    <3>1. rest[i] \in DOMAIN nodes
      <4>1. \A S, q : q \in Seq(S) => \A h \in DOMAIN q : q[h] \in S
        OBVIOUS
      <4> QED BY <1>3, <4>1
    <3>2. rest[i] # n
      <4>1. n < rest[i] /\ n \in Nat
        BY <1>2, <2>6, PathFacts
      <4> QED BY <4>1
    <3> HIDE DEF Path, Parent
    <3>3. rest[i] \notin Path(at)
      BY <2>2, <2>5
    <3>4. i + 1 \in DOMAIN down /\ rest[i] = down[i + 1] /\ i + 1 # 1
      BY <2>5
    <3>5. Parent(rest[i]) = down[(i + 1) - 1]
      BY <2>2, <3>4
    <3> QED BY <1>2, <1>7, <2>5, <3>1, <3>2, <3>3, <3>5
  <2>10. to = IF rest = <<>> THEN n ELSE rest[Len(rest)]
    BY <2>2, <2>3, <2>8
  <2> HIDE DEF Path, Parent
  <2>11. leg.shared \subseteq Path(n)
    BY <1>2, <1>7, <2>1
  <2>12. WayDown(head)'
    BY <1>1, <1>4, <1>5, <1>6, <2>7, <2>9, <2>10 DEF WayDown
  <2> QED BY <2>11, <2>12
<1> HIDE DEF Path, WayDown
<1> QED BY <1>4, <1>5, <1>7 DEF OnTheWay

LEMMA DescendKeeps == ASSUME HistoryInv, Descend PROVE HistoryInv'
<1>1. TypeOK /\ TornExpired /\ Standing /\ OnTheWay /\ \A n \in DOMAIN nodes : n < next
  BY DEF HistoryInv
<1>2. /\ next' = next /\ acts' = acts /\ layout' = layout /\ strayed' = strayed
      /\ leg.phase = "down" /\ leg.down # <<>>
  BY DEF Descend
<1>3. leg # Idle
  BY <1>2 DEF Idle
<1>4. PICK n : n = Head(leg.down)
  OBVIOUS
<1>5. /\ n \in DOMAIN nodes
      /\ ~strayed => /\ n \notin Path(head) /\ Parent(n) = head /\ Path(n) = {n} \cup Path(head)
  BY <1>1, <1>2, <1>3, <1>4, StepDown
<1>6. Moved /\ (leg' # Idle => /\ head' = n
                               /\ \/ leg' = [leg EXCEPT !.down = Tail(@)]
                                  \/ leg' = [leg EXCEPT !.down = Tail(@), !.last = n])
  <2>1. CASE State(n) = "expired"
    <3>1. /\ head' = n /\ leg' = [leg EXCEPT !.down = Tail(@)]
          /\ nodes' = nodes /\ given' = given /\ torn' = torn
      BY <1>4, <2>1 DEF Descend
    <3>2. Kept /\ \A m \in DOMAIN nodes : State(m)' = State(m)
      BY <1>1, <3>1 DEF Kept, TypeOK, State
    <3>3. Standing'
      <4> SUFFICES ASSUME ~strayed', NEW m \in DOMAIN nodes
                   PROVE  /\ m \notin {t[1] : t \in torn'} =>
                                /\ State(m)' = "applied" => given'[m] = 1
                                /\ State(m)' = "undone" => given'[m] = 0
                          /\ State(m)' = "undone" => m \notin Path(head')
                          /\ State(m)' = "applied" => m \in Path(head')
        BY <1>1, <3>2, StandingNext
      <4> HIDE DEF Path, State
      <4> QED BY <1>1, <1>2, <1>5, <2>1, <3>1, <3>2 DEF Standing
    <3>4. TornExpired'
      BY <1>1, <3>1, <3>2 DEF TornExpired, Kept
    <3> QED BY <1>1, <1>5, <3>1, <3>2, <3>3, <3>4 DEF Moved, TypeOK
  <2>2. CASE State(n) # "expired"
    <3>1. PICK how \in Outcomes :
             /\ MakeAgain(n, how)
             /\ leg' = IF how = "panics" THEN Idle ELSE [leg EXCEPT !.down = Tail(@), !.last = n]
      BY <1>4, <2>2 DEF Descend
    <3>2. ~strayed => Parent(n) = head /\ State(n) = "undone"
      <4>1. State(n) \in {"applied", "undone", "expired"}
        BY <1>1, <1>5 DEF TypeOK, Node, State
      <4>2. ~strayed => (State(n) = "applied" => n \in Path(head))
        BY <1>1, <1>5 DEF Standing
      <4> HIDE DEF Path, State, Parent
      <4> QED BY <1>5, <2>2, <4>1, <4>2
    <3>3. Moved /\ (how # "panics" => head' = n)
      <4> HIDE DEF State, Parent
      <4> QED BY <1>1, <1>2, <1>5, <2>2, <3>1, <3>2, MakeAgainMoves
    <3> QED BY <3>1, <3>3
  <2> QED BY <2>1, <2>2
<1>7. TypeOK' /\ \A m \in DOMAIN nodes' : m < next'
  <2>1. layout' \in Layouts /\ strayed' \in BOOLEAN
    BY <1>1, <1>2 DEF TypeOK
  <2> QED BY <1>1, <1>2, <1>6, <2>1, MovedTypes
<1>8. OnTheWay'
  <2>1. CASE leg' = Idle
    BY <2>1 DEF OnTheWay, Idle
  <2>2. CASE leg' # Idle
    BY <1>1, <1>2, <1>3, <1>4, <1>6, <2>2, DownNext DEF Moved
  <2> QED BY <2>1, <2>2
<1> QED BY <1>6, <1>7, <1>8 DEF HistoryInv, Moved

(* The oldest node there is. *)
LEMMA LowestIsIn ==
    ASSUME NEW S, S \subseteq Ids, S # {}
    PROVE  Lowest(S) \in S /\ \A n \in S : Lowest(S) <= n
<1> DEFINE Far == {k \in 0..MaxNode : k \notin S}
<1>0. MaxNode \in Nat /\ S \subseteq 1..MaxNode
  BY HistoryAssumption DEF Ids
<1>1. \E n \in S : \A m \in S : n <= m
  <2> SUFFICES ASSUME \A n \in S : \E m \in S : ~(n <= m) PROVE FALSE
    OBVIOUS
  <2>1. 0 \in Far
    BY <1>0
  <2>2. ASSUME NEW k \in 1..MaxNode, \A i \in 0..k - 1 : i \in Far PROVE k \in Far
    <3> SUFFICES ASSUME k \in S PROVE FALSE
      BY <1>0
    <3>1. PICK m \in S : ~(k <= m)
      OBVIOUS
    <3>2. m \in 0..k - 1
      BY <1>0, <3>1
    <3> QED BY <2>2, <3>2
  <2>3. \A k \in 0..MaxNode : k \in Far
    <3> HIDE DEF Far
    <3> QED BY <1>0, <2>1, <2>2, CountUp
  <2>4. PICK n \in S : TRUE
    OBVIOUS
  <2>5. n \in 0..MaxNode
    BY <1>0
  <2> QED BY <2>3, <2>5
<1> QED BY <1>1 DEF Lowest

LEMMA ArriveKeeps == ASSUME HistoryInv, Arrive PROVE HistoryInv'
<1>1. TypeOK /\ TornExpired /\ Standing /\ OnTheWay /\ \A n \in DOMAIN nodes : n < next
  BY DEF HistoryInv
<1>2. /\ nodes' = nodes /\ next' = next /\ acts' = acts /\ layout' = Landing
      /\ given' = given /\ torn' = torn /\ strayed' = strayed
      /\ head' = (IF leg.to = 0 THEN 0 ELSE head) /\ leg' = Idle
      /\ leg.phase = "down" /\ leg.down = <<>>
  BY DEF Arrive
<1>3. leg # Idle
  BY <1>2 DEF Idle
<1>4. leg \in Leg
  BY <1>1, <1>3 DEF OnTheWay
<1>5. ~strayed => head' = head
  <2>1. ~strayed => leg.to = head
    BY <1>1, <1>2, <1>3 DEF OnTheWay, WayDown
  <2> QED BY <1>2, <2>1
<1>6. layout' \in Layouts
  <2>1. \A n \in DOMAIN nodes : nodes[n].before \in Layouts /\ nodes[n].after \in Layouts
    BY <1>1 DEF TypeOK, Node
  <2>2. layout \in Layouts /\ 0 \in Layouts
    BY <1>1, HistoryAssumption DEF TypeOK, Layouts
  <2>3. leg.last \in DOMAIN nodes \cup {0}
    BY <1>4 DEF Leg
  <2>4. Eldest(nodes) \in DOMAIN nodes \cup {0}
    <3>1. PICK first : first = {n \in DOMAIN nodes : \A m \in DOMAIN nodes : nodes[n].ts <= nodes[m].ts}
      OBVIOUS
    <3>2. first \subseteq Ids /\ first \subseteq DOMAIN nodes
      BY <1>1, <3>1 DEF TypeOK
    <3>3. first # {} => Lowest(first) \in first
      BY <3>2, LowestIsIn
    <3>4. Eldest(nodes) = IF first = {} THEN 0 ELSE Lowest(first)
      BY <3>1 DEF Eldest
    <3> QED BY <3>2, <3>3, <3>4
  <2>5. Landing = CASE leg.to = 0 -> IF Eldest(nodes) = 0 THEN 0 ELSE nodes[Eldest(nodes)].before
                    [] leg.to # 0 /\ leg.last # 0 -> nodes[leg.last].after
                    [] leg.to # 0 /\ leg.last = 0 /\ head \in DOMAIN nodes -> nodes[head].after
                    [] OTHER -> layout
    BY DEF Landing, IsNode
  <2>6. CASE leg.to = 0
    BY <1>2, <2>1, <2>2, <2>4, <2>5, <2>6
  <2>7. CASE leg.to # 0 /\ leg.last # 0
    BY <1>2, <2>1, <2>3, <2>5, <2>7
  <2>8. CASE leg.to # 0 /\ leg.last = 0 /\ head \in DOMAIN nodes
    BY <1>2, <2>1, <2>5, <2>8
  <2>9. CASE leg.to # 0 /\ leg.last = 0 /\ head \notin DOMAIN nodes
    BY <1>2, <2>2, <2>5, <2>9
  <2> QED BY <2>6, <2>7, <2>8, <2>9
<1>7. TypeOK'
  <2>1. head' \in DOMAIN nodes \cup {0}
    BY <1>1, <1>2 DEF TypeOK
  <2> QED BY <1>1, <1>2, <1>6, <2>1 DEF TypeOK, Parent
<1>8. TornExpired'
  BY <1>1, <1>2 DEF TornExpired, State
<1>9. Standing'
  <2>1. ~strayed => Path(head)' = Path(head)
    BY <1>2, <1>5 DEF Path, Chain, Above, Parent
  <2>2. \A n : State(n)' = State(n)
    BY <1>2 DEF State
  <2> HIDE DEF State, Path
  <2> QED BY <1>1, <1>2, <2>1, <2>2 DEF Standing
<1>10. OnTheWay'
  BY <1>2 DEF OnTheWay
<1> QED BY <1>1, <1>2, <1>7, <1>8, <1>9, <1>10 DEF HistoryInv

(* Trimming drops the oldest, never the newest, and no more nodes stay than are to. *)
LEMMA TrimFacts ==
    ASSUME NEW D, D \subseteq Ids, NEW x \in D, \A n \in D : n <= x, Cardinality(D \ {x}) <= Keep,
           NEW gone, gone = {n \in D : Cardinality({m \in D : m < n}) < Cardinality(D) - Keep}
    PROVE  /\ x \notin gone /\ gone \subseteq D
           /\ \A n \in gone, m \in D \ gone : n < m
           /\ Cardinality(D \ gone) <= Keep
<1>0. MaxNode \in Nat /\ Keep \in Nat \ {0} /\ \A n \in D : n \in Nat
  BY HistoryAssumption DEF Ids
<1>1. IsFiniteSet(D)
  <2>1. IsFiniteSet(1..MaxNode)
    BY <1>0, FS_Interval
  <2> QED BY <2>1, FS_Subset DEF Ids
<1>2. Cardinality(D \ {x}) = Cardinality(D) - 1 /\ Cardinality(D) \in Nat
  BY <1>1, FS_RemoveElement, FS_CardinalityType
<1>3. x \notin gone
  <2>1. {m \in D : m < x} = D \ {x}
    BY <1>0
  <2> QED BY <1>0, <1>2, <2>1
<1>4. ASSUME NEW n \in gone, NEW m \in D \ gone PROVE n < m
  <2> SUFFICES ASSUME m <= n PROVE FALSE
    BY <1>0
  <2>1. {j \in D : j < m} \subseteq {j \in D : j < n}
    BY <1>0
  <2>2. IsFiniteSet({j \in D : j < n})
    BY <1>1, FS_Subset
  <2>3. IsFiniteSet({j \in D : j < m}) /\ Cardinality({j \in D : j < m}) <= Cardinality({j \in D : j < n})
    BY <2>1, <2>2, FS_Subset
  <2>4. Cardinality({j \in D : j < m}) \in Nat /\ Cardinality({j \in D : j < n}) \in Nat
    BY <2>2, <2>3, FS_CardinalityType
  <2>5. Cardinality({j \in D : j < n}) < Cardinality(D) - Keep
    BY <1>4
  <2>6. Cardinality({j \in D : j < m}) < Cardinality(D) - Keep
    BY <1>0, <1>2, <2>3, <2>4, <2>5
  <2> QED BY <1>4, <2>6
<1>5. Cardinality(D \ gone) <= Keep
  <2>1. CASE Cardinality(D) <= Keep
    <3>1. D \ gone \subseteq D
      OBVIOUS
    <3>2. Cardinality(D \ gone) <= Cardinality(D) /\ IsFiniteSet(D \ gone)
      BY <1>1, <3>1, FS_Subset
    <3>3. Cardinality(D \ gone) \in Nat
      BY <3>2, FS_CardinalityType
    <3> QED BY <1>0, <1>2, <2>1, <3>2, <3>3
  <2>2. CASE ~(Cardinality(D) <= Keep)
    <3>1. PICK l \in D : \A m \in D : l <= m
      BY LowestIsIn
    <3>2. {m \in D : m < l} = {}
      BY <1>0, <3>1
    <3>3. l \in gone
      <4>1. Cardinality({m \in D : m < l}) = 0
        BY <3>2, FS_EmptySet
      <4>2. 0 < Cardinality(D) - Keep
        BY <1>0, <1>2, <2>2
      <4> QED BY <4>1, <4>2
    <3>4. IsFiniteSet(D \ {l}) /\ Cardinality(D \ {l}) = Cardinality(D) - 1
      BY <1>1, FS_RemoveElement
    <3>5. D \ gone \subseteq D \ {l}
      BY <3>3
    <3>6. Cardinality(D \ gone) <= Cardinality(D \ {l}) /\ IsFiniteSet(D \ gone)
      BY <3>4, <3>5, FS_Subset
    <3>7. Cardinality(D \ gone) \in Nat
      BY <3>6, FS_CardinalityType
    <3> QED BY <1>0, <1>2, <3>4, <3>6, <3>7
  <2> QED BY <2>1, <2>2
<1>6. gone \subseteq D
  OBVIOUS
<1> QED BY <1>3, <1>4, <1>5, <1>6

(* A new leaf x under at, and the nodes gone fallen off. *)
Trimmed(old, x, at, gone, new) ==
    /\ x \in Ids /\ x \notin DOMAIN old /\ at \in DOMAIN old \cup {0}
    /\ \A n \in DOMAIN old : n < x
    /\ gone \subseteq DOMAIN old
    /\ \A n \in gone, m \in (DOMAIN old \cup {x}) \ gone : n < m
    /\ DOMAIN new = (DOMAIN old \cup {x}) \ gone
    /\ \A n \in DOMAIN old \ gone : new[n] = IF old[n] \in gone THEN 0 ELSE old[n]
    /\ new[x] = IF at \in gone THEN 0 ELSE at

(* What a trim leaves of the path under a new leaf. *)
LEMMA LeafFacts ==
    ASSUME NEW old, Rooted(old), NEW x, NEW at, NEW gone, NEW new, Trimmed(old, x, at, gone, new)
    PROVE  Rooted(new) /\ Under(new, x) = {x} \cup (Under(old, at) \ gone)
<1> DEFINE D == DOMAIN old \cup {x}
<1> USE DEF Trimmed
<1> DEFINE mid == [n \in D |-> IF n = x THEN at ELSE old[n]]
<1>0. MaxNode \in Nat /\ x \in Nat \ {0} /\ 0 \notin gone /\ DOMAIN old \subseteq Ids
      /\ \A n \in DOMAIN old : n \in Nat \ {0}
  BY HistoryAssumption DEF Ids, Rooted
<1>1. /\ DOMAIN mid = D /\ mid[x] = at /\ (\A n \in DOMAIN old : mid[n] = old[n])
      /\ D \subseteq Ids /\ x \in D
  BY <1>0
<1>2. Rooted(mid)
  <2> SUFFICES ASSUME NEW n \in D PROVE mid[n] \in D \cup {0} /\ mid[n] < n
    BY <1>1 DEF Rooted
  <2>1. CASE n = x
    BY <1>0, <1>1, <2>1
  <2>2. CASE n # x
    <3>1. n \in DOMAIN old
      BY <2>2
    <3> QED BY <1>1, <3>1 DEF Rooted
  <2> QED BY <2>1, <2>2
<1> HIDE DEF mid
<1>3. Rooted(new)
  <2> SUFFICES ASSUME NEW n \in D \ gone PROVE new[n] \in (D \ gone) \cup {0} /\ new[n] < n
    BY <1>1 DEF Rooted
  <2>1. CASE n = x
    BY <1>0, <2>1
  <2>2. CASE n # x
    <3>1. n \in DOMAIN old \ gone
      BY <2>2
    <3> QED BY <1>0, <3>1 DEF Rooted
  <2> QED BY <2>1, <2>2
<1>4. \A n \in DOMAIN old : Under(mid, n) = Under(old, n)
  <2>1. \A n \in DOMAIN old : mid[n] = IF old[n] \in DOMAIN old THEN old[n] ELSE 0
    BY <1>1 DEF Rooted
  <2>2. \A n \in DOMAIN old : Under(mid, n) = Under(old, n) \cap DOMAIN old
    <3> DEFINE keep == DOMAIN old
    <3>1. keep \subseteq DOMAIN old /\ keep \subseteq DOMAIN mid
          /\ (\A n \in keep : mid[n] = IF old[n] \in keep THEN old[n] ELSE 0)
          /\ \A n \in DOMAIN old \ keep, m \in keep : n < m
      BY <1>1, <2>1
    <3> HIDE DEF keep
    <3>2. \A n \in keep : Under(mid, n) = Under(old, n) \cap keep
      BY <1>2, <3>1, Survivors
    <3> QED BY <3>2 DEF keep
  <2>3. \A n \in DOMAIN old : Under(old, n) \subseteq DOMAIN old
    BY UnderFacts
  <2> QED BY <2>2, <2>3
<1>5. Under(new, x) = Under(mid, x) \cap (D \ gone)
  <2> DEFINE keep == D \ gone
  <2>1. x \in keep
    BY <1>1
  <2>2. \A n \in keep : new[n] = IF mid[n] \in keep THEN mid[n] ELSE 0
    <3> SUFFICES ASSUME NEW n \in D, n \notin gone
                 PROVE  new[n] = IF mid[n] \in keep THEN mid[n] ELSE 0
      OBVIOUS
    <3>1. CASE n = x
      BY <1>0, <1>1, <3>1
    <3>2. CASE n # x
      <4>1. n \in DOMAIN old /\ old[n] \in DOMAIN old \cup {0}
        BY <3>2 DEF Rooted
      <4> QED BY <1>0, <1>1, <4>1
    <3> QED BY <3>1, <3>2
  <2>3. keep \subseteq DOMAIN mid /\ keep \subseteq DOMAIN new /\ \A n \in DOMAIN mid \ keep, m \in keep : n < m
    BY <1>1
  <2> HIDE DEF keep
  <2>4. \A n \in keep : Under(new, n) = Under(mid, n) \cap keep
    BY <1>2, <1>3, <2>2, <2>3, Survivors
  <2> QED BY <2>1, <2>4 DEF keep
<1>6. Under(mid, x) = {x} \cup Under(mid, at)
  BY <1>1, <1>2, UnderFacts
<1>7. Under(mid, at) = Under(old, at) /\ Under(old, at) \subseteq DOMAIN old
  <2>1. CASE at = 0
    BY <1>2, <2>1, UnderFacts
  <2>2. CASE at # 0
    BY <1>4, <2>2, UnderFacts
  <2> QED BY <2>1, <2>2
<1> QED BY <1>1, <1>3, <1>5, <1>6, <1>7

LEMMA GrowKeeps == ASSUME HistoryInv, Grow PROVE HistoryInv'
<1>1. TypeOK /\ TornExpired /\ Standing /\ \A n \in DOMAIN nodes : n < next
  BY DEF HistoryInv
<1>2. /\ leg' = leg /\ leg = Idle /\ next \in Ids /\ acts + 1 \in Layouts /\ strayed' = strayed
      /\ acts' = acts + 1 /\ layout' = acts + 1 /\ head' = next /\ next' = next + 1
      /\ given' = [n \in DOMAIN nodes' |-> IF n = next THEN 1 ELSE given[n]]
      /\ torn' = {t \in torn : t[1] \in DOMAIN nodes'}
  BY <1>1, HistoryAssumption DEF Grow, TypeOK, Layouts
<1>3. PICK x, at, old, D, leaf, T0 :
        /\ x = next /\ at = head /\ old = Above /\ D = DOMAIN nodes \cup {x}
        /\ leaf = [parent |-> at, state |-> "applied", before |-> layout,
                   after |-> acts + 1, ts |-> acts + 1]
        /\ T0 = [n \in D |-> IF n = x THEN leaf ELSE nodes[n]]
  OBVIOUS
<1>4. PICK gone : gone = {n \in D : Cardinality({m \in D : m < n}) < Cardinality(D) - Keep}
  OBVIOUS
<1>5. nodes' = [n \in D \ gone |-> [T0[n] EXCEPT !.parent = IF @ \in gone THEN 0 ELSE @]]
  <2>1. nodes' = Trim(T0)
    BY <1>3 DEF Grow
  <2>2. DOMAIN T0 = D
    BY <1>3
  <2> QED BY <1>4, <2>1, <2>2 DEF Trim
<1>6. /\ x \in Ids /\ x \notin DOMAIN nodes /\ D \subseteq Ids /\ x \in D /\ D \ {x} = DOMAIN nodes
      /\ \A n \in DOMAIN nodes : n < x
      /\ \A n \in D : n <= x
  <2>1. DOMAIN nodes \subseteq Ids /\ \A n \in DOMAIN nodes : n < next
    BY <1>1 DEF TypeOK
  <2>2. x \in Nat /\ \A n \in DOMAIN nodes : n \in Nat
    BY <1>2, <1>3, <2>1 DEF Ids
  <2>3. x \in Ids /\ (\A n \in DOMAIN nodes : n < x) /\ D = DOMAIN nodes \cup {x}
    BY <1>2, <1>3, <2>1
  <2>4. x \notin DOMAIN nodes
    BY <2>2, <2>3
  <2>5. \A n \in D : n <= x
    BY <2>2, <2>3
  <2> QED BY <2>1, <2>3, <2>4, <2>5
<1>7. /\ x \notin gone /\ gone \subseteq D
      /\ \A n \in gone, m \in D \ gone : n < m
      /\ Cardinality(D \ gone) <= Keep
  <2>1. Cardinality(D \ {x}) <= Keep
    BY <1>1, <1>6 DEF TypeOK
  <2> QED BY <1>4, <1>6, <2>1, TrimFacts
<1>8. /\ \A n \in DOMAIN nodes : nodes[n] \in Node /\ Parent(n) \in DOMAIN nodes \cup {0} /\ Parent(n) < n
      /\ at \in DOMAIN nodes \cup {0} /\ DOMAIN nodes \subseteq Ids
  BY <1>1, <1>3 DEF TypeOK
<1>9. leaf \in Node /\ leaf.parent = at /\ leaf.state = "applied"
  <2>1. at \in Ids \cup {0} /\ layout \in Layouts
    BY <1>1, <1>8 DEF TypeOK
  <2> QED BY <1>2, <1>3, <2>1 DEF Node
<1>10. DOMAIN nodes' = D \ gone
  BY <1>5
<1>11. ASSUME NEW n \in D \ gone
       PROVE  /\ nodes'[n] \in Node
              /\ nodes'[n].state = IF n = x THEN "applied" ELSE nodes[n].state
              /\ nodes'[n].parent = IF n = x THEN (IF at \in gone THEN 0 ELSE at)
                                    ELSE (IF nodes[n].parent \in gone THEN 0 ELSE nodes[n].parent)
  <2>1. nodes'[n] = [T0[n] EXCEPT !.parent = IF T0[n].parent \in gone THEN 0 ELSE T0[n].parent]
    BY <1>5
  <2>2. T0[n] \in Node /\ T0[n] = IF n = x THEN leaf ELSE nodes[n]
    BY <1>3, <1>8, <1>9
  <2> QED BY <1>9, <2>1, <2>2 DEF Node
<1>12. PICK new : new = Above'
  OBVIOUS
<1>13. DOMAIN new = D \ gone /\ \A n \in D \ gone : new[n] = nodes'[n].parent
  BY <1>10, <1>12 DEF Above, Parent
<1>14. Rooted(old) /\ DOMAIN old = DOMAIN nodes /\ (\A n \in DOMAIN nodes : old[n] = nodes[n].parent)
       /\ Path(head) = Under(old, at)
  <2>1. Rooted(Above) /\ DOMAIN Above = DOMAIN nodes /\ Path(head) = Under(Above, head)
    BY <1>1, PathFacts
  <2>2. \A n \in DOMAIN nodes : Above[n] = nodes[n].parent
    BY DEF Above, Parent
  <2> HIDE DEF Path
  <2> QED BY <1>3, <2>1, <2>2
<1>15. Rooted(new) /\ Under(new, x) = {x} \cup (Under(old, at) \ gone)
  <2>1. x \notin DOMAIN old /\ D = DOMAIN old \cup {x} /\ at \in DOMAIN old \cup {0}
        /\ (\A n \in DOMAIN old : n < x) /\ gone \subseteq DOMAIN old
    BY <1>3, <1>6, <1>7, <1>8, <1>14
  <2>2. /\ \A n \in DOMAIN old \ gone : new[n] = IF old[n] \in gone THEN 0 ELSE old[n]
        /\ new[x] = IF at \in gone THEN 0 ELSE at
    BY <1>6, <1>7, <1>11, <1>13, <1>14, <2>1
  <2>3. Trimmed(old, x, at, gone, new)
    BY <1>6, <1>7, <1>13, <2>1, <2>2 DEF Trimmed
  <2> QED BY <1>14, <2>3, LeafFacts
<1>16. Path(head)' = {x} \cup (Path(head) \ gone)
  <2>1. Path(head)' = Under(new, x)
    BY <1>2, <1>3, <1>12 DEF Path, Chain, Under
  <2> QED BY <1>14, <1>15, <2>1
<1>17. TypeOK'
  <2>1. \A n \in DOMAIN nodes' : /\ nodes'[n] \in Node
                                 /\ Parent(n)' \in DOMAIN nodes' \cup {0}
                                 /\ Parent(n)' < n
    BY <1>10, <1>11, <1>13, <1>15 DEF Rooted, Parent
  <2>2. given' \in [DOMAIN nodes' -> -1 .. 2]
    <3>1. given \in [DOMAIN nodes -> -1 .. 2]
      BY <1>1 DEF TypeOK
    <3>2. \A n \in DOMAIN nodes' : n # next => n \in DOMAIN nodes
      BY <1>3, <1>10
    <3> QED BY <1>2, <3>1, <3>2
  <2>3. torn' \subseteq (DOMAIN nodes') \X {"breaks", "panics"}
    <3>1. torn \subseteq (DOMAIN nodes) \X {"breaks", "panics"}
      BY <1>1 DEF TypeOK
    <3> QED BY <1>2, <3>1
  <2>4. head' \in DOMAIN nodes'
    BY <1>2, <1>3, <1>6, <1>7, <1>10
  <2>5. next' \in 1 .. MaxNode + 1
    BY <1>2, HistoryAssumption DEF Ids
  <2>6. DOMAIN nodes' \subseteq Ids /\ Cardinality(DOMAIN nodes') <= Keep
    BY <1>6, <1>7, <1>10
  <2>7. strayed' \in BOOLEAN
    BY <1>1, <1>2 DEF TypeOK
  <2> HIDE DEF Parent
  <2> QED BY <1>2, <2>1, <2>2, <2>3, <2>4, <2>5, <2>6, <2>7 DEF TypeOK
<1>18. \A n \in DOMAIN nodes' : n < next'
  <2>1. \A n \in D : n <= x /\ n \in Nat
    BY <1>6 DEF Ids
  <2> QED BY <1>2, <1>3, <1>10, <2>1
<1>19. TornExpired'
  <2> SUFFICES ASSUME NEW n \in DOMAIN nodes', <<n, "breaks">> \in torn' PROVE nodes'[n].state = "expired"
    BY DEF TornExpired, State
  <2>1. <<n, "breaks">> \in torn /\ n \in DOMAIN nodes
    BY <1>1, <1>2 DEF TypeOK
  <2>2. n # x /\ n \in D \ gone
    BY <1>6, <1>10, <2>1
  <2>3. nodes[n].state = "expired"
    BY <1>1, <2>1 DEF TornExpired, State
  <2> QED BY <1>11, <2>2, <2>3
<1>20. Standing'
  <2> SUFFICES ASSUME ~strayed, NEW n \in DOMAIN nodes'
               PROVE  /\ n \notin {t[1] : t \in torn'} =>
                            /\ State(n)' = "applied" => given'[n] = 1
                            /\ State(n)' = "undone" => given'[n] = 0
                      /\ State(n)' = "undone" => n \notin Path(head)'
                      /\ State(n)' = "applied" => n \in Path(head)'
    <3> HIDE DEF Path, State
    <3> QED BY <1>2 DEF Standing
  <2>1. n \in D \ gone /\ given'[n] = IF n = x THEN 1 ELSE given[n]
    BY <1>2, <1>3, <1>10
  <2>2. State(n)' = IF n = x THEN "applied" ELSE State(n)
    BY <1>11, <2>1 DEF State
  <2>3. n \notin {t[1] : t \in torn'} => n \notin {t[1] : t \in torn}
    BY <1>2
  <2> HIDE DEF Path, State
  <2>4. CASE n = x
    BY <1>16, <2>1, <2>2, <2>4
  <2>5. CASE n # x
    <3>1. n \in DOMAIN nodes
      BY <1>3, <2>1, <2>5
    <3>2. /\ n \notin {t[1] : t \in torn} =>
               /\ State(n) = "applied" => given[n] = 1
               /\ State(n) = "undone" => given[n] = 0
          /\ State(n) = "undone" => n \notin Path(head)
          /\ State(n) = "applied" => n \in Path(head)
      BY <1>1, <3>1 DEF Standing
    <3> QED BY <1>16, <2>1, <2>2, <2>3, <2>5, <3>2
  <2> QED BY <2>4, <2>5
<1>21. OnTheWay'
  BY <1>2 DEF OnTheWay
<1> QED BY <1>17, <1>18, <1>19, <1>20, <1>21 DEF HistoryInv

----------------------------------------------------------------------------
(* The invariant and what follows from it. *)

LEMMA HistoryInit == Init => HistoryInv
<1> SUFFICES ASSUME Init PROVE HistoryInv
  OBVIOUS
<1>1. DOMAIN nodes = {} /\ DOMAIN given = {}
  BY DEF Init
<1>2. Cardinality(DOMAIN nodes) = 0
  BY <1>1, FS_EmptySet
<1>3. TypeOK
  <2>1. given \in [DOMAIN nodes -> -1 .. 2]
    BY <1>1 DEF Init
  <2>2. 1 \in 1 .. MaxNode + 1 /\ 0 \in Layouts /\ 0 <= Keep
    BY HistoryAssumption DEF Layouts
  <2> HIDE DEF Layouts
  <2> QED BY <1>1, <1>2, <2>1, <2>2 DEF Init, TypeOK
<1>4. TornExpired /\ Standing /\ OnTheWay /\ \A n \in DOMAIN nodes : n < next
  BY <1>1 DEF Init, TornExpired, Standing, OnTheWay
<1> QED BY <1>3, <1>4 DEF HistoryInv

LEMMA HistoryStep == HistoryInv /\ [Next]_vars => HistoryInv'
<1> SUFFICES ASSUME HistoryInv, [Next]_vars PROVE HistoryInv'
  OBVIOUS
<1>1. CASE Grow
  BY <1>1, GrowKeeps
<1>2. CASE Fold
  BY <1>2, FoldKeeps
<1>3. CASE Undo
  BY <1>3, UndoKeeps
<1>4. CASE Redo
  BY <1>4, RedoKeeps
<1>5. ASSUME NEW to \in Ids \cup {0}, Travel(to) PROVE HistoryInv'
  BY <1>5, TravelKeeps
<1>6. CASE Climb
  BY <1>6, ClimbKeeps
<1>7. CASE Turn
  BY <1>7, TurnKeeps
<1>8. CASE Descend
  BY <1>8, DescendKeeps
<1>9. CASE Arrive
  BY <1>9, ArriveKeeps
<1>10. CASE UNCHANGED vars
  <2> USE <1>10 DEF vars
  <2>1. TypeOK' /\ (\A n \in DOMAIN nodes' : n < next') /\ TornExpired'
    BY DEF HistoryInv, TypeOK, TornExpired, Parent, State
  <2>2. (\A y : Path(y)' = Path(y)) /\ (\A n : State(n)' = State(n) /\ Parent(n)' = Parent(n))
    BY DEF Path, Chain, Above, Parent, State
  <2>3. Path(head)' = Path(head) /\ Path(leg.top)' = Path(leg.top)
    BY DEF Path, Chain, Above, Parent
  <2> HIDE DEF Path, State, Parent
  <2>4. Standing'
    BY <2>2, <2>3 DEF HistoryInv, Standing
  <2>5. WayDown(head)' = WayDown(head) /\ WayDown(leg.top)' = WayDown(leg.top)
    BY <2>2, <2>3 DEF WayDown
  <2>6. leg' \in Leg' <=> leg \in Leg
    BY DEF Leg
  <2>7. OnTheWay'
    <3> HIDE DEF WayDown
    <3> QED BY <2>3, <2>5, <2>6 DEF HistoryInv, OnTheWay
  <2> QED BY <2>1, <2>4, <2>7 DEF HistoryInv
<1> QED BY <1>1, <1>2, <1>3, <1>4, <1>5, <1>6, <1>7, <1>8, <1>9, <1>10 DEF Next, Walk

LEMMA HistoryAlways == Spec => []HistoryInv
BY HistoryInit, HistoryStep, PTL DEF Spec

(* Whatever is done to it the tree is one: parents are older nodes that are still
   there, or the root, and no more than KEEP nodes remain. *)
THEOREM HistoryTypes == Spec => []TypeOK
<1>1. HistoryInv => TypeOK
  BY DEF HistoryInv
<1> QED BY <1>1, HistoryAlways, PTL

(* Between walks, no travel having gone past its meeting place, the tree says what
   the world holds: nothing was given back twice or made twice. *)
THEOREM HistoryClaimsMatch == Spec => []ClaimsMatch
<1>1. HistoryInv => ClaimsMatch
  BY DEF HistoryInv, Standing, ClaimsMatch, Settled
<1> QED BY <1>1, HistoryAlways, PTL

(* Between walks, no travel having gone past its meeting place, the cursor's path is
   what is applied, whatever trimming, branching and refusals did to it. *)
THEOREM HistoryOnPath == Spec => []OnPath
<1>1. HistoryInv => OnPath
  BY DEF HistoryInv, Standing, OnPath, Settled
<1> QED BY <1>1, HistoryAlways, PTL

(* A node whose claims failed half way is expired, in the middle of a travel too. *)
THEOREM HistoryTornExpired == Spec => []TornExpired
<1>1. HistoryInv => TornExpired
  BY DEF HistoryInv
<1> QED BY <1>1, HistoryAlways, PTL

(* A travel on its way up leaves what the branches share, and ends only in a panic. *)
LEMMA ClimbSpares ==
    ASSUME HistoryInv, Climb, ~strayed'
    PROVE  /\ leg' # Idle => \A n \in leg.shared : n \in DOMAIN nodes => State(n)' = State(n)
           /\ leg' = Idle => Panicked'
<1>1. TypeOK /\ TornExpired /\ Standing /\ OnTheWay
  BY DEF HistoryInv
<1>2. /\ strayed' = (strayed \/ head' \notin {leg.top} \cup (Path(head) \ Path(leg.top)))
      /\ leg.phase = "up" /\ leg # Idle
  BY DEF Climb, Climbing, Idle
<1>3. ~strayed
  <2>1. strayed \in BOOLEAN
    BY <1>1 DEF TypeOK
  <2> QED BY <1>2, <2>1
<1>4. leg.shared \subseteq Path(head')
  <2>1. head' \in {leg.top} \cup (Path(head) \ Path(leg.top))
    BY <1>2
  <2>2. leg.top \in Path(head) \cup {0} /\ leg.shared = Path(leg.top)
    BY <1>1, <1>2, <1>3 DEF OnTheWay
  <2>3. \A top \in Path(head) \cup {0} : \A at \in {top} \cup (Path(head) \ Path(top)) :
           Path(top) \subseteq Path(at)
    BY <1>1, StillBelow
  <2> QED BY <2>1, <2>2, <2>3
<1>5. ASSUME NEW k \in 1 .. Len(Chain(head)), NEW how \in Outcomes, GiveBack(k, how),
             leg' = IF how = "panics" THEN Idle ELSE leg
      PROVE  /\ leg' # Idle => \A n \in leg.shared : n \in DOMAIN nodes => State(n)' = State(n)
             /\ leg' = Idle => Panicked'
  <2>1. /\ \A m \in DOMAIN nodes : State(m)' # State(m) => (how # "panics" => m \notin Path(head'))
        /\ how = "panics" => Panicked'
    BY <1>1, <1>3, <1>5, GiveBackMoves
  <2> HIDE DEF State, Path, Panicked
  <2> QED BY <1>2, <1>4, <1>5, <2>1
<1>6. ASSUME GiveUp, leg' = leg
      PROVE  /\ leg' # Idle => \A n \in leg.shared : n \in DOMAIN nodes => State(n)' = State(n)
             /\ leg' = Idle => Panicked'
  <2>1. Path(head') = {}
    BY <1>1, <1>3, <1>6, GiveUpMoves
  <2> QED BY <1>2, <1>4, <1>6, <2>1
<1> QED BY <1>5, <1>6 DEF Climb

LEMMA DescendSpares ==
    ASSUME HistoryInv, Descend, ~strayed'
    PROVE  /\ leg' # Idle => \A n \in leg.shared : n \in DOMAIN nodes => State(n)' = State(n)
           /\ leg' = Idle => Panicked'
<1>1. TypeOK /\ TornExpired /\ Standing /\ OnTheWay
  BY DEF HistoryInv
<1>2. strayed' = strayed /\ leg.phase = "down" /\ leg.down # <<>> /\ leg # Idle
  BY DEF Descend, Idle
<1>3. PICK n : n = Head(leg.down)
  OBVIOUS
<1>4. /\ n \in DOMAIN nodes /\ n \notin Path(head) /\ Parent(n) = head /\ leg \in Leg
  BY <1>1, <1>2, <1>3, StepDown
<1>5. leg.shared \subseteq Path(head)
  BY <1>1, <1>2 DEF OnTheWay
<1>6. CASE State(n) = "expired"
  <2>1. nodes' = nodes /\ leg' = [leg EXCEPT !.down = Tail(@)]
    BY <1>3, <1>6 DEF Descend
  <2>2. leg'.phase = "down"
    BY <1>2, <1>4, <2>1 DEF Leg
  <2> QED BY <2>1, <2>2 DEF Idle, State
<1>7. CASE State(n) # "expired"
  <2>1. PICK how \in Outcomes :
           /\ MakeAgain(n, how)
           /\ leg' = IF how = "panics" THEN Idle ELSE [leg EXCEPT !.down = Tail(@), !.last = n]
    BY <1>3, <1>7 DEF Descend
  <2>2. State(n) = "undone"
    <3>1. State(n) \in {"applied", "undone", "expired"}
      BY <1>1, <1>4 DEF TypeOK, Node, State
    <3>2. State(n) = "applied" => n \in Path(head)
      BY <1>1, <1>2, <1>4 DEF Standing
    <3> HIDE DEF Path, State
    <3> QED BY <1>4, <1>7, <3>1, <3>2
  <2>3. /\ \A m \in DOMAIN nodes : State(m)' # State(m) => m = n \/ how = "panics"
        /\ how = "panics" => <<n, "panics">> \in torn'
    <3> HIDE DEF State, Parent
    <3> QED BY <1>1, <1>2, <1>4, <1>7, <2>1, <2>2, MakeAgainMoves
  <2>4. how = "panics" => Panicked'
    <3>1. <<n, "panics">>[2] = "panics"
      OBVIOUS
    <3> QED BY <2>3, <3>1 DEF Panicked
  <2>5. how # "panics" => leg' # Idle
    <3>1. how # "panics" => leg'.phase = "down"
      BY <1>2, <1>4, <2>1 DEF Leg
    <3> QED BY <3>1 DEF Idle
  <2> HIDE DEF State, Path, Panicked
  <2> QED BY <1>4, <1>5, <2>1, <2>3, <2>4, <2>5
<1> QED BY <1>6, <1>7

(* A travel that has not gone past its meeting place does both things it is for:
   it leaves alone what the two branches share, and unless a panic ended it early it
   ends on its target with nothing undone on the path there. *)
THEOREM HistoryTravelKeepsItsWord == Spec => TravelKeepsItsWord
<1>1. ASSUME HistoryInv, Next
      PROVE  /\ ~strayed' =>
                   \A n \in DOMAIN nodes :
                      (leg # Idle /\ leg' # Idle /\ n \in leg.shared) => nodes'[n].state = State(n)
             /\ (leg # Idle /\ leg' = Idle /\ ~strayed' /\ ~Panicked')
                   => /\ head' = leg.to
                      /\ \A n \in Path(leg.to) : nodes'[n].state # "undone"
  <2> DEFINE Spares == ~strayed' =>
                          \A n \in DOMAIN nodes :
                             (leg # Idle /\ leg' # Idle /\ n \in leg.shared) => nodes'[n].state = State(n)
             Lands  == (leg # Idle /\ leg' = Idle /\ ~strayed' /\ ~Panicked')
                          => /\ head' = leg.to
                             /\ \A n \in Path(leg.to) : nodes'[n].state # "undone"
  <2>1. CASE leg = Idle
    BY <2>1
  <2>2. CASE leg # Idle /\ Climb
    <3>1. Spares
      BY <1>1, <2>2, ClimbSpares DEF State
    <3>2. Lands
      BY <1>1, <2>2, ClimbSpares
    <3> QED BY <3>1, <3>2
  <2>3. CASE leg # Idle /\ Turn
    <3>1. nodes' = nodes /\ leg' # Idle
      <4>1. leg \in Leg /\ leg' = [leg EXCEPT !.phase = "down"]
        BY <1>1, <2>3 DEF HistoryInv, OnTheWay, Turn
      <4>2. leg'.phase = "down"
        BY <4>1 DEF Leg
      <4> QED BY <2>3, <4>2 DEF Turn, Idle
    <3> QED BY <3>1 DEF State
  <2>4. CASE leg # Idle /\ Descend
    <3>1. Spares
      BY <1>1, <2>4, DescendSpares DEF State
    <3>2. Lands
      BY <1>1, <2>4, DescendSpares
    <3> QED BY <3>1, <3>2
  <2>5. CASE leg # Idle /\ Arrive
    <3>1. nodes' = nodes /\ leg' = Idle /\ strayed' = strayed /\ leg.phase = "down" /\ leg.down = <<>>
          /\ head' = IF leg.to = 0 THEN 0 ELSE head
      BY <2>5 DEF Arrive
    <3>2. ~strayed => leg.to = head
      BY <1>1, <2>5, <3>1 DEF HistoryInv, OnTheWay, WayDown
    <3>3. ~strayed => \A n \in Path(head) : nodes[n].state # "undone"
      <4>1. Path(head) \subseteq DOMAIN nodes
        <5>1. TypeOK /\ head \in DOMAIN nodes \cup {0}
          BY <1>1 DEF HistoryInv, TypeOK
        <5> QED BY <5>1, PathFacts
      <4>2. ~strayed => \A n \in DOMAIN nodes : State(n) = "undone" => n \notin Path(head)
        BY <1>1 DEF HistoryInv, Standing
      <4> HIDE DEF Path
      <4> QED BY <4>1, <4>2 DEF State
    <3> HIDE DEF Path
    <3> QED BY <3>1, <3>2, <3>3
  <2>6. leg = Idle \/ Climb \/ Turn \/ Descend \/ Arrive
    BY <1>1 DEF Next, Walk, Grow, Fold, Undo, Redo, Travel
  <2> QED BY <2>1, <2>2, <2>3, <2>4, <2>5, <2>6
<1>2. HistoryInv /\ [Next]_vars =>
         [/\ ~strayed' =>
                \A n \in DOMAIN nodes :
                   (leg # Idle /\ leg' # Idle /\ n \in leg.shared) => nodes'[n].state = State(n)
          /\ (leg # Idle /\ leg' = Idle /\ ~strayed' /\ ~Panicked')
                => /\ head' = leg.to
                   /\ \A n \in Path(leg.to) : nodes'[n].state # "undone"]_vars
  <2> HIDE DEF Path, State, Panicked, vars, Next
  <2> QED BY <1>1
<1> QED BY <1>2, HistoryAlways, PTL DEF Spec, TravelKeepsItsWord
=============================================================================
