----------------------- MODULE BackgroundQueriesProofs -----------------------
(* What the display reads promise, for any tables, queries and panels, and any
   number of commits, failures and polls. *)
EXTENDS BackgroundQueries, FiniteSetTheorems, WellFoundedInduction, TLAPS

----------------------------------------------------------------------------
(* Counting up to the length of the inbox. *)

(* A set of numbers that starts at zero and goes on to the next has them all up
   to any bound within which it goes on. *)
LEMMA CountUp ==
    ASSUME NEW N \in Nat, NEW T, 0 \in T, \A n \in 1..N : n - 1 \in T => n \in T
    PROVE  \A n \in 0..N : n \in T
<1> SUFFICES ASSUME NEW n \in 0..N, n \notin T PROVE FALSE
  OBVIOUS
<1> DEFINE R == OpToRel(<, Nat)
           M == {m \in 0..N : m \notin T}
<1>1. IsWellFoundedOn(R, Nat)
  BY NatLessThanWellFounded
<1>2. M \subseteq Nat /\ n \in M
  OBVIOUS
<1> HIDE DEF R
<1>3. PICK m \in M : \A k \in M : <<k, m>> \notin R
  BY <1>1, <1>2, WFMin
<1>4. \A k \in M : ~(k < m)
  BY <1>2, <1>3 DEF OpToRel, R
<1>5. m \in 1..N
  OBVIOUS
<1>6. m - 1 \in T
  BY <1>4, <1>5
<1> QED BY <1>5, <1>6

----------------------------------------------------------------------------
(* What polling does with the inbox. *)

(* The recursion over the inbox has the value its equation says. *)
LEMMA PublishedRun ==
    ASSUME inbox \in Seq({inbox[i] : i \in DOMAIN inbox})
    PROVE  /\ PublishedUpTo[0] = Here
           /\ \A n \in 1..Len(inbox) : PublishedUpTo[n] = Publish(PublishedUpTo[n - 1], inbox[n])
<1> DEFINE L == Len(inbox)
           Runs(f, n) == /\ DOMAIN f = 0..n /\ f[0] = Here
                         /\ \A k \in 1..n : f[k] = Publish(f[k - 1], inbox[k])
           T == {n \in 0..L : \E f : Runs(f, n)}
<1>1. L \in Nat
  OBVIOUS
<1> HIDE DEF L
<1>2. 0 \in T
  <2> DEFINE g == [k \in 0..0 |-> Here]
  <2>1. Runs(g, 0)
    OBVIOUS
  <2> HIDE DEF g
  <2>2. 0 \in 0..L
    BY <1>1
  <2> QED BY <2>1, <2>2
<1>3. ASSUME NEW n \in 1..L, n - 1 \in T PROVE n \in T
  <2>1. PICK f : Runs(f, n - 1)
    BY <1>3
  <2> DEFINE g == [k \in 0..n |-> IF k = n THEN Publish(f[n - 1], inbox[n]) ELSE f[k]]
  <2>2. DOMAIN g = 0..n /\ g[0] = Here
    BY <1>1, <2>1
  <2>3. ASSUME NEW k \in 1..n PROVE g[k] = Publish(g[k - 1], inbox[k])
    <3>1. k \in 0..n /\ k - 1 \in 0..n /\ k - 1 # n
      BY <1>1
    <3>2. g[k - 1] = f[k - 1]
      BY <3>1
    <3>3. CASE k = n
      BY <3>1, <3>2, <3>3
    <3>4. CASE k # n
      <4>1. k \in 1..(n - 1)
        BY <1>1, <3>4
      <4>2. g[k] = f[k]
        BY <3>1, <3>4
      <4>3. f[k] = Publish(f[k - 1], inbox[k])
        BY <2>1, <4>1
      <4> QED BY <3>2, <4>2, <4>3
    <3> QED BY <3>3, <3>4
  <2> HIDE DEF g
  <2>4. Runs(g, n)
    BY <2>2, <2>3
  <2> QED BY <1>1, <2>4
<1>4. \A n \in 0..L : n \in T
  BY <1>1, <1>2, <1>3, CountUp
<1>5. PICK f : Runs(f, L)
  BY <1>1, <1>4
<1> DEFINE Step(g) == [n \in 0..L |-> IF n = 0 THEN Here ELSE Publish(g[n - 1], inbox[n])]
           h == [n \in 0..L |-> f[n]]
<1>6. h = Step(h)
  <2>1. ASSUME NEW n \in 0..L PROVE h[n] = IF n = 0 THEN Here ELSE Publish(h[n - 1], inbox[n])
    <3>1. CASE n = 0
      BY <1>5, <3>1
    <3>2. CASE n # 0
      <4>1. n \in 1..L /\ n - 1 \in 0..L
        BY <1>1, <3>2
      <4> QED BY <1>5, <3>2, <4>1
    <3> QED BY <3>1, <3>2
  <2> QED BY <2>1
<1>7. PublishedUpTo = CHOOSE g : g = Step(g)
  BY DEF PublishedUpTo, L
<1>8. PublishedUpTo = Step(PublishedUpTo)
  BY <1>6, <1>7
<1> HIDE DEF h
<1>9. \A n \in 0..L : PublishedUpTo[n] = IF n = 0 THEN Here ELSE Publish(PublishedUpTo[n - 1], inbox[n])
  BY <1>8
<1>10. 0 \in 0..L /\ \A n \in 1..L : n \in 0..L /\ n # 0
  BY <1>1
<1> QED BY <1>9, <1>10 DEF L

(* What the cache and the rest have become when the first n events of the inbox
   are published, as far as the invariant needs it. *)
Becomes(s, n) ==
    /\ s = [external |-> s.external, pending |-> s.pending, failures |-> s.failures,
            cache |-> s.cache, timers |-> s.timers]
    /\ s.external \in Nat /\ external <= s.external
    /\ s.external = external <=> \A i \in 1..n : inbox[i].kind # "external"
    /\ s.pending \subseteq Query
    /\ \A q \in Query : q \in s.pending <=> q \in pending /\ \A i \in 1..n : ~AnswersAt(i, q)
    /\ DOMAIN s.cache = Query /\ DOMAIN s.failures = Query
    /\ \A q \in Query : s.failures[q] \in {Nothing} \union Failure(q)
    /\ \A q \in Query :
          \/ s.cache[q] = cache[q]
          \/ \E i \in 1..n : /\ inbox[i].kind = "rows" /\ inbox[i].query = q
                             /\ s.cache[q] = [gens |-> inbox[i].gens, rows |-> inbox[i].rows]
    /\ s.timers \subseteq Query \X Nat

(* An event that waits is of one of four kinds. *)
LEMMA PostedKinds ==
    ASSUME NEW e, Posted(e)
    PROVE  \/ e.kind = "external"
           \/ e.kind = "retry"
           \/ e.kind = "rows" /\ e.query \in Query /\ e.gens \in Gens(e.query) /\ e.rows \in Gens(e.query)
           \/ /\ e.kind = "error" /\ e.query \in Query
              /\ e.gens \in Gens(e.query) \union {<<>>} /\ e.nth \in Nat
  BY DEF Posted

(* Publishing one more event. *)
LEMMA PublishOne ==
    ASSUME TypeOK, NEW n \in 1..Len(inbox), NEW s, Becomes(s, n - 1)
    PROVE  Becomes(Publish(s, inbox[n]), n)
<1> DEFINE e == inbox[n]
           p == Publish(s, e)
<1> SUFFICES Becomes(p, n)
  OBVIOUS
<1>1. /\ Len(inbox) \in Nat /\ n \in Nat /\ n \in DOMAIN inbox
      /\ \A i : i \in 1..n <=> i \in 1..(n - 1) \/ i = n
  BY DEF TypeOK
<1>2. Posted(e)
  BY <1>1 DEF TypeOK
<1>3. \/ e.kind = "external"
      \/ e.kind = "retry"
      \/ e.kind = "rows" /\ e.query \in Query /\ e.gens \in Gens(e.query) /\ e.rows \in Gens(e.query)
      \/ /\ e.kind = "error" /\ e.query \in Query
         /\ e.gens \in Gens(e.query) \union {<<>>} /\ e.nth \in Nat
  BY <1>2, PostedKinds
<1>0. external \in Nat
  BY DEF TypeOK
<1>4. CASE e.kind = "external"
  <2>1. p = [s EXCEPT !.external = @ + 1]
    BY <1>4 DEF Publish
  <2>2. p = [external |-> s.external + 1, pending |-> s.pending, failures |-> s.failures,
             cache |-> s.cache, timers |-> s.timers]
    BY <2>1 DEF Becomes
  <2>3. \A q : ~AnswersAt(n, q)
    BY <1>4 DEF AnswersAt
  <2> HIDE DEF p
  <2>4. /\ p.external = s.external + 1 /\ p.pending = s.pending /\ p.failures = s.failures
        /\ p.cache = s.cache /\ p.timers = s.timers
        /\ p = [external |-> p.external, pending |-> p.pending, failures |-> p.failures,
                cache |-> p.cache, timers |-> p.timers]
    BY <2>2
  <2>5. p.external \in Nat /\ external <= p.external /\ p.external # external
    BY <1>0, <2>4 DEF Becomes
  <2>6. ~(\A i \in 1..n : inbox[i].kind # "external")
    BY <1>1, <1>4
  <2>7. \A q \in Query : q \in p.pending <=> q \in pending /\ \A i \in 1..n : ~AnswersAt(i, q)
    BY <1>1, <2>3, <2>4 DEF Becomes
  <2>8. ASSUME NEW q \in Query
        PROVE  \/ p.cache[q] = cache[q]
               \/ \E i \in 1..n : /\ inbox[i].kind = "rows" /\ inbox[i].query = q
                                  /\ p.cache[q] = [gens |-> inbox[i].gens, rows |-> inbox[i].rows]
    BY <1>1, <2>4 DEF Becomes
  <2> QED BY <2>4, <2>5, <2>6, <2>7, <2>8 DEF Becomes
<1>5. CASE e.kind = "retry"
  <2>1. p = s
    BY <1>5 DEF Publish
  <2>2. \A q : ~AnswersAt(n, q)
    BY <1>5 DEF AnswersAt
  <2> HIDE DEF p
  <2> QED BY <1>1, <1>5, <2>1, <2>2 DEF Becomes
<1>6. CASE e.kind = "rows"
  <2>1. p = [s EXCEPT !.pending = @ \ {e.query}, !.failures[e.query] = Nothing,
                      !.cache[e.query] = [gens |-> e.gens, rows |-> e.rows]]
    BY <1>6 DEF Publish
  <2>2. p = [external |-> s.external, pending |-> s.pending \ {e.query},
             failures |-> [s.failures EXCEPT ![e.query] = Nothing],
             cache |-> [s.cache EXCEPT ![e.query] = [gens |-> e.gens, rows |-> e.rows]],
             timers |-> s.timers]
    BY <2>1 DEF Becomes
  <2>3. \A q : AnswersAt(n, q) <=> q = e.query
    BY <1>6 DEF AnswersAt
  <2>4. e.query \in Query
    BY <1>3, <1>6
  <2> HIDE DEF p
  <2>5. p.cache[e.query] = [gens |-> e.gens, rows |-> e.rows]
    BY <2>2, <2>4 DEF Becomes
  <2>6. \A q \in Query : q # e.query => p.cache[q] = s.cache[q] /\ p.failures[q] = s.failures[q]
    BY <2>2, <2>4 DEF Becomes
  <2>7. p.failures[e.query] = Nothing
    BY <2>2, <2>4 DEF Becomes
  <2>8. ASSUME NEW q \in Query
        PROVE  \/ p.cache[q] = cache[q]
               \/ \E i \in 1..n : /\ inbox[i].kind = "rows" /\ inbox[i].query = q
                                  /\ p.cache[q] = [gens |-> inbox[i].gens, rows |-> inbox[i].rows]
    <3>1. CASE q = e.query
      BY <1>1, <1>6, <2>5, <3>1
    <3>2. CASE q # e.query
      BY <1>1, <2>6, <3>2 DEF Becomes
    <3> QED BY <3>1, <3>2
  <2>9. \A q \in Query : p.failures[q] \in {Nothing} \union Failure(q)
    BY <2>6, <2>7 DEF Becomes
  <2>10. DOMAIN p.cache = Query /\ DOMAIN p.failures = Query
    BY <2>2 DEF Becomes
  <2>11. \A q \in Query : q \in p.pending <=> q \in pending /\ \A i \in 1..n : ~AnswersAt(i, q)
    BY <1>1, <2>2, <2>3 DEF Becomes
  <2>12. p.external = external <=> \A i \in 1..n : inbox[i].kind # "external"
    BY <1>1, <1>6, <2>2 DEF Becomes
  <2>13. p = [external |-> p.external, pending |-> p.pending, failures |-> p.failures,
              cache |-> p.cache, timers |-> p.timers]
    BY <2>2
  <2>14. p.external = s.external /\ p.timers = s.timers /\ p.pending \subseteq s.pending
    BY <2>2
  <2> QED BY <2>8, <2>9, <2>10, <2>11, <2>12, <2>13, <2>14 DEF Becomes
<1>7. CASE e.kind = "error"
  <2> DEFINE f == [gens |-> e.gens, nth |-> e.nth, due |-> FALSE]
  <2>1. p = [s EXCEPT !.pending = @ \ {e.query}, !.failures[e.query] = f,
                      !.timers = @ \union {<<e.query, e.nth>>}]
    BY <1>7 DEF Publish
  <2>2. p = [external |-> s.external, pending |-> s.pending \ {e.query},
             failures |-> [s.failures EXCEPT ![e.query] = f],
             cache |-> s.cache, timers |-> s.timers \union {<<e.query, e.nth>>}]
    BY <2>1 DEF Becomes
  <2>3. \A q : AnswersAt(n, q) <=> q = e.query
    BY <1>7 DEF AnswersAt
  <2>4. /\ e.query \in Query /\ e.gens \in Gens(e.query) \union {<<>>} /\ e.nth \in Nat
        /\ f \in Failure(e.query)
    BY <1>3, <1>7 DEF Failure
  <2> HIDE DEF p, f
  <2>5. p.cache = s.cache /\ p.external = s.external /\ p.pending \subseteq s.pending
    BY <2>2
  <2>6. \A q \in Query : p.failures[q] \in {Nothing} \union Failure(q)
    BY <2>2, <2>4 DEF Becomes
  <2>7. DOMAIN p.failures = Query
    BY <2>2 DEF Becomes
  <2>8. \A q \in Query : q \in p.pending <=> q \in pending /\ \A i \in 1..n : ~AnswersAt(i, q)
    BY <1>1, <2>2, <2>3 DEF Becomes
  <2>9. p.external = external <=> \A i \in 1..n : inbox[i].kind # "external"
    BY <1>1, <1>7, <2>2 DEF Becomes
  <2>10. p.timers \subseteq Query \X Nat
    BY <2>2, <2>4 DEF Becomes
  <2>11. p = [external |-> p.external, pending |-> p.pending, failures |-> p.failures,
              cache |-> p.cache, timers |-> p.timers]
    BY <2>2
  <2>12. ASSUME NEW q \in Query
        PROVE  \/ p.cache[q] = cache[q]
               \/ \E i \in 1..n : /\ inbox[i].kind = "rows" /\ inbox[i].query = q
                                  /\ p.cache[q] = [gens |-> inbox[i].gens, rows |-> inbox[i].rows]
    BY <1>1, <2>5 DEF Becomes
  <2> QED BY <2>5, <2>6, <2>7, <2>8, <2>9, <2>10, <2>11, <2>12 DEF Becomes
<1> QED BY <1>3, <1>4, <1>5, <1>6, <1>7

(* Publishing the whole inbox. *)
LEMMA PublishAll == ASSUME TypeOK PROVE Becomes(Published, Len(inbox))
<1> DEFINE T == {n \in 0..Len(inbox) : Becomes(PublishedUpTo[n], n)}
<1>1. inbox \in Seq({inbox[i] : i \in DOMAIN inbox}) /\ Len(inbox) \in Nat
  BY DEF TypeOK
<1>2. PublishedUpTo[0] = Here
  BY <1>1, PublishedRun
<1>3. Becomes(Here, 0)
  BY DEF Becomes, Here, TypeOK
<1>4. 0 \in T
  BY <1>1, <1>2, <1>3
<1>5. ASSUME NEW n \in 1..Len(inbox), n - 1 \in T PROVE n \in T
  <2>1. PublishedUpTo[n] = Publish(PublishedUpTo[n - 1], inbox[n])
    BY <1>1, PublishedRun
  <2>2. Becomes(PublishedUpTo[n], n)
    BY <1>5, <2>1, PublishOne
  <2> QED BY <1>1, <2>2
<1> HIDE DEF T
<1>6. \A n \in 0..Len(inbox) : n \in T
  BY <1>1, <1>4, <1>5, CountUp
<1>7. Len(inbox) \in T
  BY <1>1, <1>6
<1> QED BY <1>7 DEF T, Published

(* A scope that is open leaves everything as it is. *)
LEMMA PublishNone == ASSUME TypeOK PROVE Becomes(Here, 0)
  BY DEF Becomes, Here, TypeOK

----------------------------------------------------------------------------
(* Every variable has its type. *)

(* An inbox with one more event in it. *)
LEMMA OneMore ==
    ASSUME NEW s, s \in Seq({s[i] : i \in DOMAIN s}), NEW e, NEW t, t = Append(s, e)
    PROVE  /\ Len(s) \in Nat /\ Len(t) = Len(s) + 1
           /\ \A i : i \in DOMAIN t <=> i \in DOMAIN s \/ i = Len(t)
           /\ \A i \in DOMAIN s : t[i] = s[i] /\ i # Len(t)
           /\ t[Len(t)] = e
           /\ t \in Seq({t[i] : i \in DOMAIN t})
<1> DEFINE S == {s[i] : i \in DOMAIN s} \union {e}
<1>1. s \in Seq(S) /\ e \in S
  OBVIOUS
<1> HIDE DEF S
<1>2. /\ Len(s) \in Nat /\ t \in Seq(S) /\ Len(t) = Len(s) + 1
      /\ \A i \in 1..Len(s) : t[i] = s[i]
      /\ t[Len(s) + 1] = e
  BY <1>1
<1>3. DOMAIN s = 1..Len(s) /\ DOMAIN t = 1..Len(t)
  BY <1>1, <1>2
<1>4. t \in Seq({t[i] : i \in DOMAIN t})
  BY SMTT(40), <1>2
<1> QED BY <1>2, <1>3, <1>4

(* The elements of a sequence. *)
LEMMA SeqElements ==
    ASSUME NEW S, NEW s, s \in Seq(S)
    PROVE  /\ Len(s) \in Nat /\ DOMAIN s = 1..Len(s) /\ (s # <<>> => Len(s) # 0)
           /\ \A i \in DOMAIN s : s[i] \in S
  OBVIOUS

(* The panel and the query of it a frame has come to are there. *)
LEMMA PlaceIsRead ==
    ASSUME NEW p, Place(p), p # Nothing
    PROVE  /\ p.panel \in DOMAIN Panels /\ p.nth \in DOMAIN Panels[p.panel].queries
           /\ Panels[p.panel].queries[p.nth] \in Query
           /\ p = [panel |-> p.panel, nth |-> p.nth]
<1>1. PICK i \in DOMAIN Panels : \E n \in DOMAIN Panels[i].queries : p = [panel |-> i, nth |-> n]
  BY Zenon DEF Place
<1>6. PICK n \in DOMAIN Panels[i].queries : p = [panel |-> i, nth |-> n]
  BY <1>1
<1>2. p.panel = i /\ p.nth = n
  BY <1>6
<1>3. Panels[i] \in [queries : Seq(Query) \ {<<>>}, scoped : BOOLEAN]
  BY QueriesAssumption, SeqElements
<1>4. Panels[i].queries \in Seq(Query)
  BY <1>3
<1>5. Panels[i].queries[n] \in Query
  BY <1>4
<1> QED BY <1>6, <1>2, <1>5

(* The panels are as the assumption has them. *)
LEMMA PanelShape ==
    /\ Len(Panels) \in Nat \ {0} /\ DOMAIN Panels = 1..Len(Panels)
    /\ \A i \in DOMAIN Panels :
          /\ Panels[i].queries \in Seq(Query) /\ Panels[i].scoped \in BOOLEAN
          /\ Len(Panels[i].queries) \in Nat \ {0}
          /\ DOMAIN Panels[i].queries = 1..Len(Panels[i].queries)
<1>1. Panels \in Seq([queries : Seq(Query) \ {<<>>}, scoped : BOOLEAN]) /\ Panels # <<>>
  BY QueriesAssumption
<1>2. \A i \in DOMAIN Panels : Panels[i] \in [queries : Seq(Query) \ {<<>>}, scoped : BOOLEAN]
  BY <1>1, SeqElements
<1>3. \A i \in DOMAIN Panels : /\ Panels[i].queries \in Seq(Query) /\ Panels[i].queries # <<>>
                               /\ Panels[i].scoped \in BOOLEAN
  BY <1>2
<1>4. \A q \in Seq(Query) : q # <<>> => Len(q) \in Nat \ {0} /\ DOMAIN q = 1..Len(q)
  OBVIOUS
<1> QED BY <1>1, <1>3, <1>4

(* What the next place is, is a place again. *)
LEMMA NextPlace ==
    ASSUME NEW i \in DOMAIN Panels, NEW n, n \in DOMAIN Panels[i].queries
    PROVE  Place(NextAt(i, n))
<1>1. CASE n < Len(Panels[i].queries)
  <2>1. n + 1 \in DOMAIN Panels[i].queries
    BY <1>1, PanelShape
  <2> QED BY <1>1, <2>1 DEF Place, NextAt
<1>2. CASE ~(n < Len(Panels[i].queries)) /\ i < Len(Panels)
  <2>1. i + 1 \in DOMAIN Panels /\ 1 \in DOMAIN Panels[i + 1].queries
    BY <1>2, PanelShape
  <2> QED BY <1>2, <2>1 DEF Place, NextAt
<1>3. CASE ~(n < Len(Panels[i].queries)) /\ ~(i < Len(Panels))
  BY <1>3 DEF Place, NextAt
<1> QED BY <1>1, <1>2, <1>3

(* Stamps and rows have the shape of what their query reads. *)
LEMMA StampShape ==
    ASSUME TypeOK, NEW q \in Query, NEW ext \in Nat
    PROVE  /\ Stamp(q, ext) \in Gens(q) /\ RowsNow(q) \in Gens(q)
           /\ \A t \in Reads[q] : /\ Stamp(q, ext)[t] = GenOf(t, ext) /\ RowsNow(q)[t] = data[t]
                                  /\ GenOf(t, ext) \in Nat
           /\ Reads[q] \subseteq Table
<1>1. Reads[q] \subseteq Table
  BY QueriesAssumption
<1>2. \A t \in Reads[q] : GenOf(t, ext) \in Nat /\ data[t] \in Nat
  BY <1>1 DEF TypeOK, GenOf
<1> QED BY <1>1, <1>2 DEF Stamp, RowsNow, Gens

LEMMA NotNothing ==
    /\ \A q, x, y : [gens |-> x, rows |-> y] # Nothing
    /\ \A x, y : [panel |-> x, nth |-> y] # Nothing
    /\ \A x, y : [table |-> x, recorded |-> y] # Nothing
  BY DEF Nothing

(* The UI thread takes s, which is the first m events of the inbox published: all
   of them, or none. *)
Takes(s, m) ==
    /\ Becomes(s, m)
    /\ (m = Len(inbox) /\ inbox' = <<>>) \/ (m = 0 /\ inbox' = inbox /\ s = Here)
    /\ external' = s.external /\ cache' = s.cache /\ failures' = s.failures
    /\ timers' = s.timers
    /\ UNCHANGED stored

LEMMA OutsideTakes ==
    ASSUME TypeOK, Outside
    PROVE  /\ Takes(Published, Len(inbox)) /\ pending' = Published.pending
           /\ at = Nothing /\ UNCHANGED <<flights, at, screen, events>>
           /\ inbox' = <<>> /\ signal' = FALSE /\ seen' = serial /\ dirty' \in BOOLEAN
<1>1. Becomes(Published, Len(inbox))
  BY PublishAll
<1>2. /\ at = Nothing /\ UNCHANGED <<stored, flights, at, screen, events>>
      /\ inbox' = <<>> /\ Become(Published) /\ signal' = FALSE /\ seen' = serial
      /\ dirty' = (dirty \/ inbox # <<>> \/ seen # serial)
  BY Zenon DEF Outside
<1>3. dirty' \in BOOLEAN
  BY <1>2
<1> QED BY Zenon, <1>1, <1>2, <1>3 DEF Takes, Become

(* The query a draw has come to. *)
Drawn == Panels[at.panel].queries[at.nth]

(* One read of a draw.  Only a scope's later reads leave the inbox alone. *)
LEMMA DrawTakes ==
    ASSUME TypeOK, Draw
    PROVE  /\ at # Nothing /\ at' = NextAt(at.panel, at.nth) /\ Drawn \in Query
           /\ UNCHANGED <<seen, signal, dirty, events>>
           /\ \E s, m :
                /\ Takes(s, m)
                /\ Held(Panels[at.panel], at.nth) => s = Here /\ m = 0 /\ inbox' = inbox
                /\ screen' = [screen EXCEPT ![at.panel][at.nth] =
                                  IF s.cache[Drawn] = Nothing THEN Nothing ELSE s.cache[Drawn].rows]
                /\ \/ pending' = s.pending /\ flights' = flights
                   \/ /\ Drawn \notin s.pending /\ pending' = s.pending \union {Drawn}
                      /\ flights' = [flights EXCEPT ![Drawn] =
                                        [gens |-> Stamp(Drawn, s.external), rows |-> Nothing]]
<1> DEFINE panel == Panels[at.panel]
           held == Held(panel, at.nth)
           s == IF held THEN Here ELSE Published
           m == IF held THEN 0 ELSE Len(inbox)
<1>1. /\ at # Nothing
      /\ inbox' = IF held THEN inbox ELSE <<>>
      /\ screen' = [screen EXCEPT ![at.panel][at.nth] =
                      IF s.cache[Drawn] = Nothing THEN Nothing ELSE s.cache[Drawn].rows]
      /\ IF Sends(Drawn, s)
         THEN /\ Become([s EXCEPT !.pending = @ \union {Drawn}])
              /\ flights' = [flights EXCEPT ![Drawn] = [gens |-> Stamp(Drawn, s.external), rows |-> Nothing]]
         ELSE Become(s) /\ UNCHANGED flights
      /\ at' = NextAt(at.panel, at.nth)
      /\ UNCHANGED <<stored, seen, signal, dirty, events>>
  BY Zenon DEF Draw, Drawn
<1>2. Becomes(s, m)
  BY PublishAll, PublishNone
<1>3. Drawn \in Query
  BY <1>1, PlaceIsRead DEF TypeOK, Drawn
<1>4. held => s = Here /\ m = 0
  OBVIOUS
<1>5. ~held => m = Len(inbox)
  OBVIOUS
<1> HIDE DEF s, m, held
<1>6. s = [external |-> s.external, pending |-> s.pending, failures |-> s.failures,
           cache |-> s.cache, timers |-> s.timers]
  BY <1>2 DEF Becomes
<1> DEFINE r == [s EXCEPT !.pending = @ \union {Drawn}]
<1>7. r = [external |-> s.external, pending |-> s.pending \union {Drawn}, failures |-> s.failures,
           cache |-> s.cache, timers |-> s.timers]
  BY <1>6
<1>8. /\ r.external = s.external /\ r.pending = s.pending \union {Drawn}
      /\ r.failures = s.failures /\ r.cache = s.cache /\ r.timers = s.timers
  BY <1>7
<1> HIDE DEF r
<1>9. CASE Sends(Drawn, s)
  <2>1. Drawn \notin s.pending
    BY <1>9 DEF Sends
  <2>2. Become(r) /\ flights' = [flights EXCEPT ![Drawn] = [gens |-> Stamp(Drawn, s.external), rows |-> Nothing]]
    BY <1>1, <1>9 DEF r
  <2>3. /\ external' = s.external /\ pending' = s.pending \union {Drawn} /\ failures' = s.failures
        /\ cache' = s.cache /\ timers' = s.timers
    BY <1>8, <2>2 DEF Become
  <2>4. Takes(s, m)
    BY <1>1, <1>2, <1>4, <1>5, <2>3 DEF Takes
  <2>5. held => s = Here /\ m = 0 /\ inbox' = inbox
    BY <1>1, <1>4
  <2> QED BY <1>1, <1>3, <2>1, <2>2, <2>3, <2>4, <2>5 DEF held
<1>10. CASE ~Sends(Drawn, s)
  <2>2. Become(s) /\ flights' = flights
    BY <1>1, <1>10
  <2>3. /\ external' = s.external /\ pending' = s.pending /\ failures' = s.failures
        /\ cache' = s.cache /\ timers' = s.timers
    BY <2>2 DEF Become
  <2>4. Takes(s, m)
    BY <1>1, <1>2, <1>4, <1>5, <2>3 DEF Takes
  <2>5. held => s = Here /\ m = 0 /\ inbox' = inbox
    BY <1>1, <1>4
  <2> QED BY <1>1, <1>3, <2>2, <2>3, <2>4, <2>5 DEF held
<1> QED BY <1>9, <1>10

(* What is taken has its type. *)
LEMMA TakesType ==
    ASSUME TypeOK, NEW s, NEW m, Takes(s, m)
    PROVE  /\ external' \in Nat /\ external <= external'
           /\ DOMAIN cache' = Query /\ DOMAIN failures' = Query
           /\ \A q \in Query : /\ cache'[q] \in {Nothing} \union Cached(q)
                               /\ failures'[q] \in {Nothing} \union Failure(q)
           /\ timers' \subseteq Query \X Nat
           /\ s.pending \subseteq Query
           /\ inbox' \in Seq({inbox'[i] : i \in DOMAIN inbox'})
           /\ \A i \in DOMAIN inbox' : Posted(inbox'[i])
<1>1. /\ Becomes(s, m) /\ external' = s.external /\ cache' = s.cache
      /\ failures' = s.failures /\ timers' = s.timers
      /\ (m = Len(inbox) /\ inbox' = <<>>) \/ (m = 0 /\ inbox' = inbox)
  BY DEF Takes
<1>2. \A i \in 1..m : i \in DOMAIN inbox
  BY <1>1 DEF TypeOK
<1>3. ASSUME NEW q \in Query PROVE cache'[q] \in {Nothing} \union Cached(q)
  <2>1. CASE s.cache[q] = cache[q]
    BY <1>1, <2>1 DEF TypeOK
  <2>2. CASE s.cache[q] # cache[q]
    <3>1. PICK i \in 1..m : /\ inbox[i].kind = "rows" /\ inbox[i].query = q
                            /\ s.cache[q] = [gens |-> inbox[i].gens, rows |-> inbox[i].rows]
      BY <1>1, <2>2 DEF Becomes
    <3>2. Posted(inbox[i])
      BY <1>2 DEF TypeOK
    <3>3. inbox[i].gens \in Gens(q) /\ inbox[i].rows \in Gens(q)
      BY <3>1, <3>2, PostedKinds
    <3> QED BY <1>1, <3>1, <3>3 DEF Cached
  <2> QED BY <2>1, <2>2
<1>4. inbox' \in Seq({inbox'[i] : i \in DOMAIN inbox'})
  <2>1. \A S : <<>> \in Seq(S)
    OBVIOUS
  <2>2. CASE inbox' = <<>>
    BY Zenon, <2>1, <2>2
  <2>3. CASE inbox' = inbox
    <3>1. {inbox'[i] : i \in DOMAIN inbox'} = {inbox[i] : i \in DOMAIN inbox}
      BY <2>3
    <3>2. inbox \in Seq({inbox[i] : i \in DOMAIN inbox})
      BY DEF TypeOK
    <3> QED BY Zenon, <2>3, <3>1, <3>2
  <2> QED BY <1>1, <2>2, <2>3
<1>5. \A i \in DOMAIN inbox' : Posted(inbox'[i])
  BY <1>1 DEF TypeOK
<1> QED BY <1>1, <1>3, <1>4, <1>5 DEF Becomes

(* What every action that leaves the inbox alone keeps of it, and what an action
   that posts an event makes of it. *)
LEMMA InboxKept ==
    ASSUME TypeOK, inbox' = inbox
    PROVE  /\ inbox' \in Seq({inbox'[i] : i \in DOMAIN inbox'})
           /\ \A i \in DOMAIN inbox' : Posted(inbox'[i])
<1>1. {inbox'[i] : i \in DOMAIN inbox'} = {inbox[i] : i \in DOMAIN inbox}
  OBVIOUS
<1>2. inbox \in Seq({inbox[i] : i \in DOMAIN inbox}) /\ \A i \in DOMAIN inbox : Posted(inbox[i])
  BY DEF TypeOK
<1> QED BY Zenon, <1>1, <1>2

LEMMA InboxPosted ==
    ASSUME TypeOK, NEW e, Posted(e), inbox' = Append(inbox, e)
    PROVE  /\ inbox' \in Seq({inbox'[i] : i \in DOMAIN inbox'})
           /\ \A i \in DOMAIN inbox' : Posted(inbox'[i])
<1>1. inbox \in Seq({inbox[i] : i \in DOMAIN inbox}) /\ \A i \in DOMAIN inbox : Posted(inbox[i])
  BY DEF TypeOK
<1> DEFINE t == inbox'
<1>2. t = Append(inbox, e)
  OBVIOUS
<1> HIDE DEF t
<1>3. /\ \A i : i \in DOMAIN t <=> i \in DOMAIN inbox \/ i = Len(t)
      /\ \A i \in DOMAIN inbox : t[i] = inbox[i]
      /\ t[Len(t)] = e
      /\ t \in Seq({t[i] : i \in DOMAIN t})
  BY <1>1, <1>2, OneMore
<1>4. \A i \in DOMAIN t : Posted(t[i])
  BY <1>1, <1>3
<1> QED BY <1>3, <1>4 DEF t

LEMMA TypesAtFirst == Init => TypeOK
<1> SUFFICES ASSUME Init PROVE TypeOK
  OBVIOUS
<1>1. inbox = <<>>
  BY DEF Init
<1>2. inbox \in Seq({inbox[i] : i \in DOMAIN inbox})
  <2>1. \A S : <<>> \in Seq(S)
    OBVIOUS
  <2> QED BY Zenon, <1>1, <2>1
<1>3. \A i \in DOMAIN inbox : Posted(inbox[i])
  BY <1>1
<1>4. DOMAIN screen = DOMAIN Panels /\ \A i \in DOMAIN Panels : DOMAIN screen[i] = DOMAIN Panels[i].queries
  BY DEF Init
<1>5. Place(at)
  BY DEF Init, Place
<1> QED BY <1>2, <1>3, <1>4, <1>5, QueriesAssumption DEF Init, TypeOK

(* A read under way has its type after its rows came or it was sent. *)
LEMMA FlightType ==
    ASSUME TypeOK, NEW q \in Query, NEW f, f \in {Nothing} \union Flight(q),
           flights' = [flights EXCEPT ![q] = f]
    PROVE  /\ DOMAIN flights' = Query
           /\ \A r \in Query : flights'[r] \in {Nothing} \union Flight(r)
           /\ flights'[q] = f /\ \A r \in Query : r # q => flights'[r] = flights[r]
  BY DEF TypeOK

(* The counters of the store. *)
LEMMA Counters ==
    ASSUME TypeOK
    PROVE  /\ data \in [Table -> Nat] /\ clock \in [Table -> Nat]
           /\ serial \in Nat /\ external \in Nat /\ events \in Nat
           /\ writer \in {Nothing} \union [table : Table, recorded : BOOLEAN]
  BY DEF TypeOK

LEMMA Counted ==
    ASSUME NEW count \in [Table -> Nat], NEW t \in Table
    PROVE  [count EXCEPT ![t] = @ + 1] \in [Table -> Nat]
  OBVIOUS

(* Every action keeps the types. *)
LEMMA TypesStep == ASSUME TypeOK, [Next]_vars PROVE TypeOK'
<1> USE QueriesAssumption
<1>1. CASE UNCHANGED vars
  <2>1. inbox' = inbox
    BY <1>1 DEF vars
  <2> QED BY <1>1, <2>1, InboxKept DEF vars, stored, shown, TypeOK
<1>2. ASSUME NEW t \in Table, Commit(t) PROVE TypeOK'
  <2>1. inbox' = inbox
    BY <1>2 DEF Commit
  <2>2. data' \in [Table -> Nat]
    BY <1>2, Counters, Counted DEF Commit
  <2>3. events' \in Nat
    BY <1>2, Counters DEF Commit, Event
  <2>4. writer' \in [table : Table, recorded : BOOLEAN]
    BY <1>2 DEF Commit
  <2>5. UNCHANGED <<clock, serial, foreign, seen, shown, flights, timers, signal, dirty, at, screen>>
    BY <1>2 DEF Commit
  <2> QED BY <2>1, <2>2, <2>3, <2>4, <2>5, InboxKept DEF shown, TypeOK
<1>3. ASSUME NEW t \in Table, Act(t) PROVE TypeOK'
  <2>1. inbox' = inbox
    BY <1>3 DEF Act
  <2>2. data' \in [Table -> Nat] /\ clock' \in [Table -> Nat]
    BY <1>3, Counters, Counted DEF Act
  <2>3. serial' \in Nat /\ seen' \in Nat /\ events' \in Nat
    BY <1>3, Counters DEF Act, Event
  <2>4. writer' \in [table : Table, recorded : BOOLEAN] /\ dirty' \in BOOLEAN
    BY <1>3 DEF Act
  <2>5. UNCHANGED <<foreign, shown, flights, timers, signal, at, screen>>
    BY <1>3 DEF Act
  <2> QED BY <2>1, <2>2, <2>3, <2>4, <2>5, InboxKept DEF shown, TypeOK
<1>4. ASSUME NEW t \in Table, Foreign(t) PROVE TypeOK'
  <2>1. inbox' = inbox
    BY <1>4 DEF Foreign
  <2>2. foreign \in [made : Nat, sampled : BOOLEAN, last : Nat]
    BY DEF TypeOK
  <2>6. foreign' = [foreign EXCEPT !.made = @ + 1]
    BY <1>4 DEF Foreign
  <2>3. foreign' \in [made : Nat, sampled : BOOLEAN, last : Nat]
    <3>1. foreign.made + 1 \in Nat
      BY <2>2
    <3>2. foreign' = [foreign EXCEPT !.made = foreign.made + 1]
      BY <2>6
    <3> QED BY Zenon, <2>2, <3>1, <3>2
  <2>4. data' \in [Table -> Nat] /\ events' \in Nat
    <3>1. data' \in [Table -> Nat]
      BY <1>4, Counters, Counted DEF Foreign
    <3>2. events' \in Nat
      BY <1>4, Counters DEF Foreign, Event
    <3> QED BY <3>1, <3>2
  <2>5. UNCHANGED <<clock, serial, writer, seen, shown, flights, timers, signal, dirty, at, screen>>
    BY <1>4 DEF Foreign
  <2> QED BY <2>1, <2>3, <2>4, <2>5, InboxKept DEF shown, TypeOK
<1>5. CASE Record
  <2>1. inbox' = inbox
    BY <1>5 DEF Record
  <2>2. writer \in [table : Table, recorded : BOOLEAN]
    BY <1>5, Counters DEF Record
  <2>3. writer' \in [table : Table, recorded : BOOLEAN]
    BY <1>5, <2>2 DEF Record
  <2>4. clock' \in [Table -> Nat] /\ serial' \in Nat
    <3>1. writer.table \in Table
      BY <2>2
    <3>2. clock' \in [Table -> Nat]
      BY <1>5, <3>1, Counters, Counted DEF Record
    <3>3. serial' \in Nat
      BY <1>5, Counters DEF Record
    <3> QED BY <3>2, <3>3
  <2>5. UNCHANGED <<data, foreign, seen, shown, flights, timers, signal, dirty, at, screen, events>>
    BY <1>5 DEF Record
  <2> QED BY <2>1, <2>3, <2>4, <2>5, InboxKept DEF shown, TypeOK
<1>6. CASE Notify
  <2>1. inbox' = inbox
    BY <1>6 DEF Notify
  <2> QED BY <1>6, <2>1, InboxKept DEF Notify, shown, TypeOK
<1>7. CASE Sample
  <2>1. Posted([kind |-> "external"])
    BY DEF Posted
  <2>2. /\ inbox' \in Seq({inbox'[i] : i \in DOMAIN inbox'})
        /\ \A i \in DOMAIN inbox' : Posted(inbox'[i])
    BY <1>7, <2>1, InboxPosted DEF Sample
  <2> QED BY <1>7, <2>2 DEF Sample, shown, TypeOK
<1>8. ASSUME NEW q \in Query, Read(q) PROVE TypeOK'
  <2>1. inbox' = inbox
    BY <1>8 DEF Read
  <2>2. flights[q] \in Flight(q)
    BY <1>8 DEF Read, TypeOK
  <2>3. RowsNow(q) \in Gens(q)
    BY StampShape DEF TypeOK
  <2>4. [flights[q] EXCEPT !.rows = RowsNow(q)] \in Flight(q)
    BY <2>2, <2>3 DEF Flight
  <2>5. flights' = [flights EXCEPT ![q] = [flights[q] EXCEPT !.rows = RowsNow(q)]]
    BY <1>8 DEF Read
  <2>6. DOMAIN flights' = Query /\ \A r \in Query : flights'[r] \in {Nothing} \union Flight(r)
    BY <2>4, <2>5, FlightType
  <2> QED BY <1>8, <2>1, <2>6, InboxKept DEF Read, stored, shown, TypeOK
<1>9. ASSUME NEW q \in Query, Post(q) PROVE TypeOK'
  <2> DEFINE e == [kind |-> "rows", query |-> q, gens |-> flights[q].gens, rows |-> flights[q].rows]
  <2>1. flights[q] \in Flight(q) /\ flights[q].rows # Nothing
    BY <1>9 DEF Post, TypeOK
  <2>2. Posted(e)
    BY <2>1 DEF Posted, Flight
  <2>3. inbox' = Append(inbox, e) /\ flights' = [flights EXCEPT ![q] = Nothing]
    BY <1>9 DEF Post
  <2> HIDE DEF e
  <2>4. /\ inbox' \in Seq({inbox'[i] : i \in DOMAIN inbox'})
        /\ \A i \in DOMAIN inbox' : Posted(inbox'[i])
    BY <2>2, <2>3, InboxPosted
  <2>5. DOMAIN flights' = Query /\ \A r \in Query : flights'[r] \in {Nothing} \union Flight(r)
    BY <2>3, FlightType
  <2> QED BY <1>9, <2>4, <2>5 DEF Post, stored, shown, TypeOK
<1>10. ASSUME NEW q \in Query, Fail(q) PROVE TypeOK'
  <2>1. flights[q] \in Flight(q) /\ events' \in Nat
    BY <1>10 DEF Fail, Event, TypeOK
  <2>2. PICK known \in BOOLEAN :
          inbox' = Append(inbox, [kind |-> "error", query |-> q, nth |-> events',
                                  gens |-> IF known THEN flights[q].gens ELSE <<>>])
    BY <1>10 DEF Fail
  <2> DEFINE g == IF known THEN flights[q].gens ELSE <<>>
             e == [kind |-> "error", query |-> q, nth |-> events', gens |-> g]
  <2>3. g \in Gens(q) \union {<<>>}
    BY <2>1 DEF Flight
  <2>4. inbox' = Append(inbox, e)
    BY <2>2
  <2> HIDE DEF g
  <2>5. Posted(e)
    BY <2>1, <2>3 DEF Posted
  <2> HIDE DEF e
  <2>6. /\ inbox' \in Seq({inbox'[i] : i \in DOMAIN inbox'})
        /\ \A i \in DOMAIN inbox' : Posted(inbox'[i])
    BY <2>4, <2>5, InboxPosted
  <2>7. flights' = [flights EXCEPT ![q] = Nothing]
    BY <1>10 DEF Fail
  <2>8. DOMAIN flights' = Query /\ \A r \in Query : flights'[r] \in {Nothing} \union Flight(r)
    BY <2>7, FlightType
  <2> QED BY <1>10, <2>1, <2>6, <2>8 DEF Fail, stored, shown, TypeOK
<1>11. ASSUME NEW q \in Query, RetryDue(q) PROVE TypeOK'
  <2>1. inbox' = inbox
    BY <1>11 DEF RetryDue
  <2>2. failures[q] \in Failure(q)
    BY <1>11 DEF RetryDue, TypeOK
  <2>3. [failures[q] EXCEPT !.due = TRUE] \in Failure(q)
    BY <2>2 DEF Failure
  <2>4. failures' = [failures EXCEPT ![q] = [failures[q] EXCEPT !.due = TRUE]]
    BY <1>11 DEF RetryDue
  <2>5. DOMAIN failures' = Query /\ \A r \in Query : failures'[r] \in {Nothing} \union Failure(r)
    BY <2>3, <2>4 DEF TypeOK
  <2> QED BY <1>11, <2>1, <2>5, InboxKept DEF RetryDue, stored, TypeOK
<1>12. ASSUME NEW q \in Query, Retry(q) PROVE TypeOK'
  <2>1. Posted([kind |-> "retry"])
    BY DEF Posted
  <2>2. /\ inbox' = Append(inbox, [kind |-> "retry"]) /\ timers' \subseteq timers /\ signal' = TRUE
        /\ UNCHANGED <<stored, seen, shown, flights, dirty, at, screen, events>>
    BY <1>12 DEF Retry
  <2>3. /\ inbox' \in Seq({inbox'[i] : i \in DOMAIN inbox'})
        /\ \A i \in DOMAIN inbox' : Posted(inbox'[i])
    BY <2>1, <2>2, InboxPosted
  <2> QED BY <2>2, <2>3 DEF stored, shown, TypeOK
<1>13. ASSUME NEW q \in Query, Ask(q) PROVE TypeOK'
  <2>1. inbox' = inbox
    BY <1>13 DEF Ask
  <2>2. Stamp(q, external) \in Gens(q) /\ RowsNow(q) \in Gens(q)
    BY StampShape DEF TypeOK
  <2>3. [gens |-> Stamp(q, external), rows |-> RowsNow(q)] \in Cached(q)
    BY <2>2 DEF Cached
  <2>4. DOMAIN cache' = Query /\ \A r \in Query : cache'[r] \in {Nothing} \union Cached(r)
    BY <1>13, <2>3 DEF Ask, TypeOK
  <2> QED BY <1>13, <2>1, <2>4, InboxKept DEF Ask, Event, stored, TypeOK
<1>14. CASE Outside
  <2>1. Takes(Published, Len(inbox)) /\ pending' = Published.pending
    BY <1>14, OutsideTakes
  <2>2. /\ external' \in Nat
        /\ DOMAIN cache' = Query /\ DOMAIN failures' = Query
        /\ \A q \in Query : /\ cache'[q] \in {Nothing} \union Cached(q)
                            /\ failures'[q] \in {Nothing} \union Failure(q)
        /\ timers' \subseteq Query \X Nat
        /\ pending' \subseteq Query
        /\ inbox' \in Seq({inbox'[i] : i \in DOMAIN inbox'})
        /\ \A i \in DOMAIN inbox' : Posted(inbox'[i])
    BY <2>1, TakesType
  <2>3. UNCHANGED stored
    BY <2>1 DEF Takes
  <2>4. UNCHANGED <<flights, at, screen, events>> /\ signal' = FALSE /\ seen' = serial /\ dirty' \in BOOLEAN
    BY <1>14, OutsideTakes
  <2> QED BY <2>2, <2>3, <2>4 DEF TypeOK, stored
<1>15. CASE Frame
  <2>1. inbox' = inbox
    BY <1>15 DEF Frame
  <2>3. 1 \in DOMAIN Panels
    BY PanelShape
  <2>5. DOMAIN Panels[1].queries = 1..Len(Panels[1].queries) /\ Len(Panels[1].queries) \in Nat \ {0}
    BY <2>3, PanelShape
  <2>4. 1 \in DOMAIN Panels[1].queries
    BY <2>5
  <2>2. Place(at')
    BY <1>15, <2>3, <2>4 DEF Frame, Place
  <2> QED BY <1>15, <2>1, <2>2, InboxKept DEF Frame, stored, shown, TypeOK
<1>16. CASE Draw
  <2>1. PICK s, m :
          /\ Takes(s, m)
          /\ screen' = [screen EXCEPT ![at.panel][at.nth] =
                            IF s.cache[Drawn] = Nothing THEN Nothing ELSE s.cache[Drawn].rows]
          /\ \/ pending' = s.pending /\ flights' = flights
             \/ /\ pending' = s.pending \union {Drawn}
                /\ flights' = [flights EXCEPT ![Drawn] =
                                  [gens |-> Stamp(Drawn, s.external), rows |-> Nothing]]
    BY <1>16, DrawTakes
  <2>2. /\ at # Nothing /\ at' = NextAt(at.panel, at.nth) /\ Drawn \in Query
        /\ UNCHANGED <<seen, signal, dirty, events>>
    BY <1>16, DrawTakes
  <2>3. /\ external' \in Nat
        /\ DOMAIN cache' = Query /\ DOMAIN failures' = Query
        /\ \A q \in Query : /\ cache'[q] \in {Nothing} \union Cached(q)
                            /\ failures'[q] \in {Nothing} \union Failure(q)
        /\ timers' \subseteq Query \X Nat
        /\ s.pending \subseteq Query
        /\ inbox' \in Seq({inbox'[i] : i \in DOMAIN inbox'})
        /\ \A i \in DOMAIN inbox' : Posted(inbox'[i])
    BY <2>1, TakesType
  <2>4. UNCHANGED stored /\ external' = s.external
    BY <2>1 DEF Takes
  <2>5. pending' \subseteq Query
    BY <2>1, <2>2, <2>3
  <2>6. DOMAIN flights' = Query /\ \A r \in Query : flights'[r] \in {Nothing} \union Flight(r)
    <3>1. CASE flights' = flights
      BY <3>1 DEF TypeOK
    <3>2. CASE flights' = [flights EXCEPT ![Drawn] = [gens |-> Stamp(Drawn, s.external), rows |-> Nothing]]
      <4>1. Stamp(Drawn, s.external) \in Gens(Drawn)
        BY <2>2, <2>3, <2>4, StampShape
      <4>2. [gens |-> Stamp(Drawn, s.external), rows |-> Nothing] \in Flight(Drawn)
        BY <4>1 DEF Flight
      <4> QED BY <2>2, <3>2, <4>2, FlightType
    <3> QED BY <2>1, <3>1, <3>2
  <2>7. Place(at')
    BY <2>2, PlaceIsRead, NextPlace DEF TypeOK
  <2>8. /\ DOMAIN screen' = DOMAIN Panels
        /\ \A i \in DOMAIN Panels : DOMAIN screen'[i] = DOMAIN Panels[i].queries
    BY <2>1 DEF TypeOK
  <2> QED BY <2>2, <2>3, <2>4, <2>5, <2>6, <2>7, <2>8 DEF TypeOK, stored
<1> QED BY <1>1, <1>2, <1>3, <1>4, <1>5, <1>6, <1>7, <1>8, <1>9, <1>10, <1>11, <1>12, <1>13,
           <1>14, <1>15, <1>16 DEF Next

(* Every variable always has its type. *)
THEOREM QueriesTypes == Spec => []TypeOK
  BY TypesAtFirst, TypesStep, PTL DEF Spec

----------------------------------------------------------------------------
(* Stamps and what they say. *)

(* How a step may move the tables and the clocks: a table whose generation stays
   is a table whose rows stay, or one of whose commits a clock or the sampler
   does not know yet. *)
Moves ==
    /\ \A t \in Table : GenOf(t, external) <= GenOf(t, external)'
    /\ \A t \in Table : GenOf(t, external)' = GenOf(t, external) =>
          \/ Unrecorded(t)' \/ Unnoticed'
          \/ data'[t] = data[t] /\ ~Unrecorded(t) /\ ~Unnoticed
    /\ foreign'.last <= foreign'.made

(* Nothing is forgotten of a foreign commit while the inbox only grows. *)
LEMMA InboxGrows ==
    ASSUME TypeOK, foreign' = foreign,
           inbox' = inbox \/ \E e : inbox' = Append(inbox, e), Unnoticed
    PROVE  Unnoticed'
<1>1. CASE ~foreign.sampled \/ foreign.last # foreign.made
  BY <1>1 DEF Unnoticed
<1>2. CASE \E i \in DOMAIN inbox : inbox[i].kind = "external"
  <2>1. PICK i \in DOMAIN inbox : inbox[i].kind = "external"
    BY <1>2
  <2>2. i \in DOMAIN inbox' /\ inbox'[i] = inbox[i]
    <3>1. CASE inbox' = inbox
      BY <3>1
    <3>2. CASE \E e : inbox' = Append(inbox, e)
      <4>1. PICK e : inbox' = Append(inbox, e)
        BY <3>2
      <4> DEFINE t == inbox'
      <4>2. t = Append(inbox, e)
        BY <4>1
      <4> HIDE DEF t
      <4>3. /\ \A k : k \in DOMAIN t <=> k \in DOMAIN inbox \/ k = Len(t)
            /\ \A k \in DOMAIN inbox : t[k] = inbox[k]
        BY <4>2, OneMore DEF TypeOK
      <4>4. i \in DOMAIN t /\ t[i] = inbox[i]
        BY <4>3
      <4> QED BY <4>4 DEF t
    <3> QED BY <3>1, <3>2
  <2> QED BY <2>1, <2>2 DEF Unnoticed
<1> QED BY <1>1, <1>2 DEF Unnoticed

(* A step that touches no table, no clock and no counter. *)
LEMMA StoreRests ==
    ASSUME TypeOK, foreign.last <= foreign.made, UNCHANGED stored, external' = external,
           inbox' = inbox \/ \E e : inbox' = Append(inbox, e)
    PROVE  Moves
<1>1. UNCHANGED <<data, clock, writer, foreign>>
  BY DEF stored
<1>2. Unnoticed => Unnoticed'
  BY <1>1, InboxGrows
<1>3. \A t \in Table : Unrecorded(t)' <=> Unrecorded(t)
  BY <1>1 DEF Unrecorded
<1>4. \A t \in Table : GenOf(t, external) \in Nat /\ GenOf(t, external)' = GenOf(t, external)
  BY <1>1 DEF GenOf, TypeOK
<1> QED BY <1>1, <1>2, <1>3, <1>4 DEF Moves

(* Publishing: an event of the sampler moves every generation; without one
   nothing that was to be noticed is lost. *)
LEMMA PublishMoves ==
    ASSUME TypeOK, foreign.last <= foreign.made, NEW s, NEW m, Takes(s, m)
    PROVE  Moves
<1>1. UNCHANGED <<data, clock, writer, foreign>>
  BY DEF stored, Takes
<1>2. /\ external' \in Nat /\ external \in Nat /\ external <= external'
      /\ external' = external <=> \A i \in 1..m : inbox[i].kind # "external"
      /\ (m = Len(inbox) /\ inbox' = <<>>) \/ (m = 0 /\ inbox' = inbox)
  BY DEF Takes, Becomes, TypeOK
<1>3. \A t \in Table : Unrecorded(t)' <=> Unrecorded(t)
  BY <1>1 DEF Unrecorded
<1>4. \A t \in Table : /\ clock[t] \in Nat /\ GenOf(t, external) = clock[t] + external
                       /\ GenOf(t, external)' = clock[t] + external'
  BY <1>1 DEF GenOf, TypeOK
<1>5. external' = external /\ Unnoticed => Unnoticed'
  <2> SUFFICES ASSUME external' = external, Unnoticed PROVE Unnoticed'
    OBVIOUS
  <2>1. CASE inbox' = inbox
    BY <1>1, <2>1, InboxGrows
  <2>2. CASE m = Len(inbox) /\ inbox' = <<>>
    <3>1. \A i \in DOMAIN inbox : inbox[i].kind # "external"
      BY <1>2, <2>2 DEF TypeOK
    <3> QED BY <1>1, <3>1 DEF Unnoticed
  <2> QED BY <1>2, <2>1, <2>2
<1>6. \A t \in Table : /\ GenOf(t, external) <= GenOf(t, external)'
                       /\ GenOf(t, external)' = GenOf(t, external) => external' = external
  BY <1>2, <1>4
<1>7. ASSUME NEW t \in Table, GenOf(t, external)' = GenOf(t, external)
      PROVE  \/ Unrecorded(t)' \/ Unnoticed'
             \/ data'[t] = data[t] /\ ~Unrecorded(t) /\ ~Unnoticed
  BY <1>1, <1>3, <1>5, <1>6, <1>7
<1>8. foreign'.last <= foreign'.made
  BY <1>1
<1> QED BY <1>6, <1>7, <1>8 DEF Moves

LEMMA MovesStep ==
    ASSUME TypeOK, foreign.last <= foreign.made, [Next]_vars
    PROVE  Moves
<1>0. /\ \A t \in Table : GenOf(t, external) = clock[t] + external /\ clock[t] \in Nat /\ data[t] \in Nat
      /\ external \in Nat
      /\ \A t \in Table : GenOf(t, external)' = clock'[t] + external'
      /\ foreign.made \in Nat /\ foreign.last \in Nat
  BY DEF GenOf, TypeOK
<1>1. CASE UNCHANGED vars
  BY <1>1, StoreRests DEF vars, shown
<1>2. ASSUME NEW t \in Table, Commit(t) PROVE Moves
  <2>1. /\ writer = Nothing /\ writer' = [table |-> t, recorded |-> FALSE]
        /\ data' = [data EXCEPT ![t] = @ + 1]
        /\ UNCHANGED <<clock, foreign, external, inbox>>
    BY <1>2 DEF Commit, shown
  <2>2. Unrecorded(t)' /\ \A u \in Table : ~Unrecorded(u)
    BY <2>1, NotNothing DEF Unrecorded
  <2>3. \A u \in Table : u # t => data'[u] = data[u]
    BY <2>1 DEF TypeOK
  <2>4. Unnoticed => Unnoticed'
    BY <2>1, InboxGrows
  <2>5. \A u \in Table : GenOf(u, external)' = GenOf(u, external) /\ GenOf(u, external) \in Nat
    BY <1>0, <2>1
  <2> QED BY <2>1, <2>2, <2>3, <2>4, <2>5 DEF Moves
<1>3. ASSUME NEW t \in Table, Act(t) PROVE Moves
  <2>1. /\ writer = Nothing /\ writer' = [table |-> t, recorded |-> TRUE]
        /\ data' = [data EXCEPT ![t] = @ + 1] /\ clock' = [clock EXCEPT ![t] = @ + 1]
        /\ UNCHANGED <<foreign, external, inbox>>
    BY <1>3 DEF Act, shown
  <2>2. \A u \in Table : ~Unrecorded(u)
    BY <2>1 DEF Unrecorded
  <2>3. \A u \in Table : u # t => data'[u] = data[u] /\ clock'[u] = clock[u]
    BY <2>1 DEF TypeOK
  <2>4. Unnoticed => Unnoticed'
    BY <2>1, InboxGrows
  <2>5. clock'[t] = clock[t] + 1
    BY <2>1 DEF TypeOK
  <2>6. \A u \in Table : u # t => GenOf(u, external)' = GenOf(u, external) /\ GenOf(u, external) \in Nat
    BY <1>0, <2>1, <2>3
  <2>7. GenOf(t, external) <= GenOf(t, external)' /\ GenOf(t, external)' # GenOf(t, external)
    BY <1>0, <2>1, <2>5
  <2> QED BY <2>1, <2>2, <2>3, <2>4, <2>6, <2>7 DEF Moves
<1>4. ASSUME NEW t \in Table, Foreign(t) PROVE Moves
  <2>1. /\ foreign' = [foreign EXCEPT !.made = @ + 1]
        /\ UNCHANGED <<clock, external>>
    BY <1>4 DEF Foreign, shown
  <2>2. foreign'.made = foreign.made + 1 /\ foreign'.last = foreign.last
    BY <2>1 DEF TypeOK
  <2>3. foreign'.last # foreign'.made /\ foreign'.last <= foreign'.made
    BY <1>0, <2>2
  <2>4. Unnoticed'
    BY <2>3 DEF Unnoticed
  <2>5. \A u \in Table : GenOf(u, external)' = GenOf(u, external) /\ GenOf(u, external) \in Nat
    BY <1>0, <2>1
  <2> QED BY <2>3, <2>4, <2>5 DEF Moves
<1>5. CASE Record
  <2>2. PICK t \in Table : t = writer.table
    BY <1>5 DEF Record, TypeOK
  <2>1. /\ writer # Nothing /\ ~writer.recorded
        /\ clock' = [clock EXCEPT ![t] = @ + 1]
        /\ UNCHANGED <<data, foreign, external, inbox>>
    BY <1>5, <2>2 DEF Record, shown
  <2>3. \A u \in Table : u # t => ~Unrecorded(u)
    BY <2>2 DEF Unrecorded
  <2>4. clock'[t] = clock[t] + 1 /\ \A u \in Table : u # t => clock'[u] = clock[u]
    BY <2>1, <2>2 DEF TypeOK
  <2>5. Unnoticed => Unnoticed'
    BY <2>1, InboxGrows
  <2>6. \A u \in Table : u # t => GenOf(u, external)' = GenOf(u, external) /\ GenOf(u, external) \in Nat
    BY <1>0, <2>1, <2>4
  <2>7. GenOf(t, external) <= GenOf(t, external)' /\ GenOf(t, external)' # GenOf(t, external)
    BY <1>0, <2>1, <2>2, <2>4
  <2> QED BY <2>1, <2>3, <2>5, <2>6, <2>7 DEF Moves
<1>6. CASE Notify
  <2>1. /\ writer # Nothing /\ writer.recorded /\ writer' = Nothing
        /\ UNCHANGED <<data, clock, foreign, external, inbox>>
    BY <1>6 DEF Notify, shown
  <2>2. \A u \in Table : ~Unrecorded(u)
    BY <2>1 DEF Unrecorded
  <2>3. Unnoticed => Unnoticed'
    BY <2>1, InboxGrows
  <2>4. \A u \in Table : GenOf(u, external)' = GenOf(u, external) /\ GenOf(u, external) \in Nat
    BY <1>0, <2>1
  <2> QED BY <2>1, <2>2, <2>3, <2>4 DEF Moves
<1>7. CASE Sample
  <2>1. /\ foreign' = [foreign EXCEPT !.sampled = TRUE, !.last = foreign.made]
        /\ inbox' = Append(inbox, [kind |-> "external"])
        /\ UNCHANGED <<clock, external>>
    BY <1>7 DEF Sample, shown
  <2>2. foreign'.made = foreign.made /\ foreign'.last = foreign.made
    BY <2>1 DEF TypeOK
  <2>3. Unnoticed'
    <3> DEFINE t == inbox'
    <3>1. t = Append(inbox, [kind |-> "external"])
      BY <2>1
    <3> HIDE DEF t
    <3>2. Len(t) \in DOMAIN t /\ t[Len(t)] = [kind |-> "external"]
      BY <3>1, OneMore DEF TypeOK
    <3>3. \E i \in DOMAIN t : t[i].kind = "external"
      BY <3>2
    <3> QED BY <3>3 DEF t, Unnoticed
  <2>4. \A u \in Table : GenOf(u, external)' = GenOf(u, external) /\ GenOf(u, external) \in Nat
    BY <1>0, <2>1
  <2> QED BY <1>0, <2>2, <2>3, <2>4 DEF Moves
<1>8. ASSUME NEW q \in Query, Read(q) PROVE Moves
  BY <1>8, StoreRests DEF Read, shown
<1>9. ASSUME NEW q \in Query, Post(q) PROVE Moves
  BY <1>9, StoreRests DEF Post, shown
<1>10. ASSUME NEW q \in Query, Fail(q) PROVE Moves
  <2>1. UNCHANGED <<stored, external>> /\ \E e : inbox' = Append(inbox, e)
    BY <1>10 DEF Fail, shown
  <2> QED BY <2>1, StoreRests
<1>11. ASSUME NEW q \in Query, RetryDue(q) PROVE Moves
  BY <1>11, StoreRests DEF RetryDue
<1>12. ASSUME NEW q \in Query, Retry(q) PROVE Moves
  <2>1. UNCHANGED <<stored, external>> /\ \E e : inbox' = Append(inbox, e)
    BY <1>12 DEF Retry, shown
  <2> QED BY <2>1, StoreRests
<1>13. ASSUME NEW q \in Query, Ask(q) PROVE Moves
  BY <1>13, StoreRests DEF Ask
<1>14. CASE Outside
  BY <1>14, OutsideTakes, PublishMoves
<1>15. CASE Frame
  BY <1>15, StoreRests DEF Frame, shown
<1>16. CASE Draw
  BY <1>16, DrawTakes, PublishMoves
<1> QED BY <1>1, <1>2, <1>3, <1>4, <1>5, <1>6, <1>7, <1>8, <1>9, <1>10, <1>11, <1>12, <1>13,
           <1>14, <1>15, <1>16 DEF Next

(* Rows that were no older than their stamp are still no older. *)
LEMMA HonestStays ==
    ASSUME TypeOK, TypeOK', Moves
    PROVE  /\ \A q \in Query : \A gens \in Gens(q) : Stamped(q, gens) => Stamped(q, gens)'
           /\ \A q \in Query : \A gens \in Gens(q) : \A rows :
                 Honest(q, gens, rows) => Honest(q, gens, rows)'
<1>1. \A q \in Query : Reads[q] \subseteq Table
  BY QueriesAssumption
<1>2. \A t \in Table : GenOf(t, external) \in Nat /\ GenOf(t, external)' \in Nat
  <2>1. clock \in [Table -> Nat] /\ external \in Nat
    BY Counters
  <2>2. clock' \in [Table -> Nat] /\ external' \in Nat
    BY DEF TypeOK
  <2> QED BY <2>1, <2>2 DEF GenOf
<1>3. ASSUME NEW q \in Query, NEW gens \in Gens(q), Stamped(q, gens) PROVE Stamped(q, gens)'
  <2>1. ASSUME NEW t \in Reads[q] PROVE gens[t] <= GenOf(t, external)'
    <3>1. gens[t] \in Nat /\ gens[t] <= GenOf(t, external) /\ t \in Table
      BY <1>1, <1>3 DEF Stamped, Gens
    <3>2. GenOf(t, external) <= GenOf(t, external)'
      BY <3>1 DEF Moves
    <3> QED BY <1>2, <3>1, <3>2
  <2> QED BY <1>3, <2>1 DEF Stamped
<1>4. ASSUME NEW q \in Query, NEW gens \in Gens(q), NEW rows, Honest(q, gens, rows)
      PROVE  Honest(q, gens, rows)'
  <2>1. Stamped(q, gens)'
    BY <1>3, <1>4 DEF Honest
  <2>2. ASSUME NEW t \in Reads[q], gens[t] = GenOf(t, external)'
        PROVE  rows[t] = data'[t] \/ Unrecorded(t)' \/ Unnoticed'
    <3>1. gens[t] \in Nat /\ gens[t] <= GenOf(t, external) /\ t \in Table
      BY <1>1, <1>4 DEF Honest, Stamped, Gens
    <3>2. GenOf(t, external) <= GenOf(t, external)'
      BY <3>1 DEF Moves
    <3>3. GenOf(t, external) = GenOf(t, external)'
      BY <1>2, <2>2, <3>1, <3>2
    <3>4. rows[t] = data[t] \/ Unrecorded(t) \/ Unnoticed
      BY <1>4, <2>2, <3>3 DEF Honest
    <3>5. \/ Unrecorded(t)' \/ Unnoticed'
          \/ data'[t] = data[t] /\ ~Unrecorded(t) /\ ~Unnoticed
      BY <3>1, <3>3 DEF Moves
    <3> QED BY <3>4, <3>5
  <2> QED BY <2>1, <2>2 DEF Honest
<1> QED BY <1>3, <1>4

(* What is just read with the clocks before it is honest. *)
LEMMA HonestNow ==
    ASSUME TypeOK, NEW q \in Query
    PROVE  /\ Stamped(q, Stamp(q, external))
           /\ \A gens : Stamped(q, gens) => Honest(q, gens, RowsNow(q))
<1>1. external \in Nat
  BY DEF TypeOK
<1>2. /\ \A t \in Reads[q] : /\ Stamp(q, external)[t] = GenOf(t, external) /\ RowsNow(q)[t] = data[t]
                            /\ GenOf(t, external) \in Nat
      /\ DOMAIN Stamp(q, external) = Reads[q]
  BY <1>1, StampShape DEF Stamp
<1> QED BY <1>2 DEF Stamped, Honest

(* What a step leaves where it was, of the reads and of the answers. *)
FlightsHonest ==
    \A q \in Query : flights[q] # Nothing =>
        /\ Stamped(q, flights[q].gens)
        /\ flights[q].rows # Nothing => Honest(q, flights[q].gens, flights[q].rows)
InboxHonest ==
    \A i \in DOMAIN inbox : inbox[i].kind = "rows" =>
        Honest(inbox[i].query, inbox[i].gens, inbox[i].rows)
CacheHonest ==
    \A q \in Query : cache[q] # Nothing => Honest(q, cache[q].gens, cache[q].rows)

LEMMA HonestParts == StampsHonest <=> /\ foreign.last <= foreign.made
                                      /\ FlightsHonest /\ InboxHonest /\ CacheHonest
  BY DEF StampsHonest, FlightsHonest, InboxHonest, CacheHonest

LEMMA FlightsRest ==
    ASSUME TypeOK, TypeOK', Moves, FlightsHonest, NEW q \in Query, flights'[q] = flights[q],
           flights'[q] # Nothing
    PROVE  /\ Stamped(q, flights[q].gens)'
           /\ flights'[q].rows # Nothing => Honest(q, flights[q].gens, flights[q].rows)'
<1>1. flights[q] \in Flight(q)
  BY DEF TypeOK
<1>2. PICK g, r : g = flights[q].gens /\ r = flights[q].rows
  OBVIOUS
<1>3. g \in Gens(q)
  BY <1>1, <1>2 DEF Flight
<1>4. Stamped(q, g) /\ (r # Nothing => Honest(q, g, r))
  BY <1>2 DEF FlightsHonest
<1>5. Stamped(q, g)' /\ (r # Nothing => Honest(q, g, r)')
  BY <1>3, <1>4, HonestStays
<1>6. flights'[q].gens = g /\ flights'[q].rows = r
  BY <1>2
<1> QED BY <1>5, <1>6

LEMMA CacheRests ==
    ASSUME TypeOK, TypeOK', Moves, CacheHonest, NEW q \in Query, cache'[q] = cache[q],
           cache'[q] # Nothing
    PROVE  Honest(q, cache[q].gens, cache[q].rows)'
<1>1. cache[q] \in Cached(q)
  BY DEF TypeOK
<1>2. PICK g, r : g = cache[q].gens /\ r = cache[q].rows
  OBVIOUS
<1>3. g \in Gens(q)
  BY <1>1, <1>2 DEF Cached
<1>4. Honest(q, g, r)
  BY <1>2 DEF CacheHonest
<1>5. Honest(q, g, r)'
  BY <1>3, <1>4, HonestStays
<1>6. cache'[q].gens = g /\ cache'[q].rows = r
  BY <1>2
<1> QED BY <1>5, <1>6

(* An event that was posted honest is honest still. *)
LEMMA AnswerRests ==
    ASSUME TypeOK, TypeOK', Moves, InboxHonest, NEW i \in DOMAIN inbox, inbox[i].kind = "rows"
    PROVE  \A q, g, r : q = inbox[i].query /\ g = inbox[i].gens /\ r = inbox[i].rows
              => Honest(q, g, r)'
<1> SUFFICES ASSUME NEW q, NEW g, NEW r, q = inbox[i].query, g = inbox[i].gens, r = inbox[i].rows
             PROVE  Honest(q, g, r)'
  OBVIOUS
<1>1. q \in Query /\ g \in Gens(q)
  BY PostedKinds DEF TypeOK
<1>2. Honest(q, g, r)
  BY DEF InboxHonest
<1> QED BY <1>1, <1>2, HonestStays

LEMMA InboxRests ==
    ASSUME TypeOK, TypeOK', Moves, InboxHonest,
           inbox' = inbox \/ \E e : inbox' = Append(inbox, e) /\ e.kind # "rows"
    PROVE  InboxHonest'
<1>1. ASSUME NEW i \in DOMAIN inbox', inbox'[i].kind = "rows"
      PROVE  i \in DOMAIN inbox /\ inbox'[i] = inbox[i]
  <2>1. CASE inbox' = inbox
    BY <2>1
  <2>2. CASE \E e : inbox' = Append(inbox, e) /\ e.kind # "rows"
    <3>1. PICK e : inbox' = Append(inbox, e) /\ e.kind # "rows"
      BY <2>2
    <3>0. PICK t : t = inbox'
      OBVIOUS
    <3>2. t = Append(inbox, e)
      BY <3>0, <3>1
    <3>3. /\ \A k : k \in DOMAIN t <=> k \in DOMAIN inbox \/ k = Len(t)
          /\ \A k \in DOMAIN inbox : t[k] = inbox[k]
          /\ t[Len(t)] = e
      <4>1. inbox \in Seq({inbox[k] : k \in DOMAIN inbox})
        BY DEF TypeOK
      <4> QED BY <3>2, <4>1, OneMore
    <3>4. i \in DOMAIN t /\ t[i].kind = "rows"
      BY <1>1, <3>0
    <3>5. i \in DOMAIN inbox /\ t[i] = inbox[i]
      BY <3>1, <3>3, <3>4
    <3> QED BY <3>0, <3>5
  <2> QED BY <2>1, <2>2
<1>2. ASSUME NEW i \in DOMAIN inbox', inbox'[i].kind = "rows"
      PROVE  Honest(inbox[i].query, inbox[i].gens, inbox[i].rows)'
  <2>1. i \in DOMAIN inbox /\ inbox'[i] = inbox[i]
    BY <1>1, <1>2
  <2>2. PICK q, g, r : q = inbox[i].query /\ g = inbox[i].gens /\ r = inbox[i].rows
    OBVIOUS
  <2>3. Honest(q, g, r)'
    BY <1>2, <2>1, <2>2, AnswerRests
  <2>4. inbox'[i].query = q /\ inbox'[i].gens = g /\ inbox'[i].rows = r
    BY <2>1, <2>2
  <2> QED BY <2>3, <2>4
<1> QED BY <1>2 DEF InboxHonest

(* Every step keeps every stamp honest. *)
LEMMA HonestStep ==
    ASSUME TypeOK, TypeOK', StampsHonest, [Next]_vars
    PROVE  StampsHonest'
<1>0. foreign.last <= foreign.made /\ FlightsHonest /\ InboxHonest /\ CacheHonest
  BY HonestParts
<1>1. Moves
  BY <1>0, MovesStep
<1>2. foreign'.last <= foreign'.made
  BY <1>1 DEF Moves
<1>3. SUFFICES FlightsHonest' /\ InboxHonest' /\ CacheHonest'
  BY <1>2, HonestParts DEF StampsHonest, FlightsHonest, InboxHonest, CacheHonest
<1>4. ASSUME flights' = flights PROVE FlightsHonest'
  BY <1>0, <1>1, <1>4, FlightsRest DEF FlightsHonest
<1>5. ASSUME cache' = cache PROVE CacheHonest'
  BY <1>0, <1>1, <1>5, CacheRests DEF CacheHonest
<1>6. ASSUME inbox' = inbox \/ \E e : inbox' = Append(inbox, e) /\ e.kind # "rows"
      PROVE InboxHonest'
  BY <1>0, <1>1, <1>6, InboxRests
<1>7. ASSUME NEW q \in Query, flights' = [flights EXCEPT ![q] = Nothing] PROVE FlightsHonest'
  <2>1. Nothing \in {Nothing} \union Flight(q)
    OBVIOUS
  <2>2. flights'[q] = Nothing /\ \A r \in Query : r # q => flights'[r] = flights[r]
    BY <1>7, <2>1, FlightType
  <2> QED BY <1>0, <1>1, <2>2, FlightsRest DEF FlightsHonest
<1>8. CASE UNCHANGED vars
  BY <1>4, <1>5, <1>6, <1>8 DEF vars, shown
<1>9. ASSUME NEW t \in Table, Commit(t) \/ Act(t) \/ Foreign(t) PROVE FlightsHonest' /\ InboxHonest' /\ CacheHonest'
  BY <1>4, <1>5, <1>6, <1>9 DEF Commit, Act, Foreign, shown
<1>10. CASE Record \/ Notify \/ Frame
  BY <1>4, <1>5, <1>6, <1>10 DEF Record, Notify, Frame, shown
<1>11. CASE Sample
  <2>1. inbox' = Append(inbox, [kind |-> "external"]) /\ [kind |-> "external"].kind # "rows"
    BY <1>11 DEF Sample
  <2>2. flights' = flights /\ cache' = cache
    BY <1>11 DEF Sample, shown
  <2> QED BY <1>4, <1>5, <1>6, <2>1, <2>2
<1>12. ASSUME NEW q \in Query, Read(q) PROVE FlightsHonest' /\ InboxHonest' /\ CacheHonest'
  <2>1. flights[q] \in Flight(q)
    BY <1>12 DEF Read, TypeOK
  <2>2. [flights[q] EXCEPT !.rows = RowsNow(q)] \in Flight(q)
    BY <2>1, StampShape DEF Flight, TypeOK
  <2>3. flights' = [flights EXCEPT ![q] = [flights[q] EXCEPT !.rows = RowsNow(q)]]
    BY <1>12 DEF Read
  <2>4. /\ flights'[q] = [flights[q] EXCEPT !.rows = RowsNow(q)]
        /\ \A r \in Query : r # q => flights'[r] = flights[r]
    BY <2>2, <2>3, FlightType
  <2>5. PICK g, r : g = flights[q].gens /\ r = RowsNow(q)
    OBVIOUS
  <2>6. flights'[q].gens = g /\ flights'[q].rows = r
    BY <2>1, <2>4, <2>5 DEF Flight
  <2>7. Stamped(q, g)
    BY <1>0, <1>12, <2>5 DEF FlightsHonest, Read
  <2>8. Honest(q, g, r)
    BY <2>5, <2>7, HonestNow
  <2>9. g \in Gens(q)
    BY <2>1, <2>5 DEF Flight
  <2>10. Stamped(q, g)' /\ Honest(q, g, r)'
    BY <1>1, <2>7, <2>8, <2>9, HonestStays
  <2>11. FlightsHonest'
    BY <1>0, <1>1, <2>4, <2>6, <2>10, FlightsRest DEF FlightsHonest
  <2> QED BY <1>5, <1>6, <1>12, <2>11 DEF Read, shown
<1>13. ASSUME NEW q \in Query, Post(q) PROVE FlightsHonest' /\ InboxHonest' /\ CacheHonest'
  <2>1. /\ flights[q] # Nothing /\ flights[q].rows # Nothing /\ cache' = cache
        /\ flights' = [flights EXCEPT ![q] = Nothing]
    BY <1>13 DEF Post, shown
  <2>2. PICK g, r : g = flights[q].gens /\ r = flights[q].rows
    OBVIOUS
  <2>3. g \in Gens(q) /\ Honest(q, g, r)
    BY <1>0, <2>1, <2>2 DEF FlightsHonest, TypeOK, Flight
  <2>4. Honest(q, g, r)'
    BY <1>1, <2>3, HonestStays
  <2> DEFINE e == [kind |-> "rows", query |-> q, gens |-> g, rows |-> r]
  <2>5. inbox' = Append(inbox, e)
    BY <1>13, <2>2 DEF Post
  <2>6. PICK t : t = inbox'
    OBVIOUS
  <2>7. e.query = q /\ e.gens = g /\ e.rows = r
    OBVIOUS
  <2> HIDE DEF e
  <2>8. inbox \in Seq({inbox[k] : k \in DOMAIN inbox})
    BY DEF TypeOK
  <2>9. /\ \A k : k \in DOMAIN t <=> k \in DOMAIN inbox \/ k = Len(t)
        /\ \A k \in DOMAIN inbox : t[k] = inbox[k]
        /\ t[Len(t)] = e
    BY <2>5, <2>6, <2>8, OneMore
  <2>10. ASSUME NEW i \in DOMAIN inbox', inbox'[i].kind = "rows"
         PROVE  Honest(inbox[i].query, inbox[i].gens, inbox[i].rows)'
    <3>1. CASE i \in DOMAIN inbox
      <4>1. inbox'[i] = inbox[i]
        BY <2>6, <2>9, <3>1
      <4>2. PICK a, b, c : a = inbox[i].query /\ b = inbox[i].gens /\ c = inbox[i].rows
        OBVIOUS
      <4>3. Honest(a, b, c)'
        BY <1>0, <1>1, <2>10, <3>1, <4>1, <4>2, AnswerRests
      <4>4. inbox'[i].query = a /\ inbox'[i].gens = b /\ inbox'[i].rows = c
        BY <4>1, <4>2
      <4> QED BY <4>3, <4>4
    <3>2. CASE i \notin DOMAIN inbox
      <4>1. inbox'[i] = e
        BY <2>6, <2>9, <2>10, <3>2
      <4>2. inbox'[i].query = q /\ inbox'[i].gens = g /\ inbox'[i].rows = r
        BY <2>7, <4>1
      <4> QED BY <2>4, <4>2
    <3> QED BY <3>1, <3>2
  <2>11. InboxHonest'
    BY <2>10 DEF InboxHonest
  <2> QED BY <1>5, <1>7, <2>1, <2>11
<1>14. ASSUME NEW q \in Query, Fail(q) PROVE FlightsHonest' /\ InboxHonest' /\ CacheHonest'
  <2>1. PICK known \in BOOLEAN :
          inbox' = Append(inbox, [kind |-> "error", query |-> q, nth |-> events',
                                  gens |-> IF known THEN flights[q].gens ELSE <<>>])
    BY <1>14 DEF Fail
  <2> DEFINE e == [kind |-> "error", query |-> q, nth |-> events',
                   gens |-> IF known THEN flights[q].gens ELSE <<>>]
  <2>2. inbox' = Append(inbox, e) /\ e.kind # "rows"
    BY <2>1
  <2> HIDE DEF e
  <2>3. flights' = [flights EXCEPT ![q] = Nothing] /\ cache' = cache
    BY <1>14 DEF Fail, shown
  <2> QED BY <1>5, <1>6, <1>7, <2>2, <2>3
<1>15. ASSUME NEW q \in Query, RetryDue(q) PROVE FlightsHonest' /\ InboxHonest' /\ CacheHonest'
  BY <1>4, <1>5, <1>6, <1>15 DEF RetryDue
<1>16. ASSUME NEW q \in Query, Retry(q) PROVE FlightsHonest' /\ InboxHonest' /\ CacheHonest'
  <2>1. inbox' = Append(inbox, [kind |-> "retry"]) /\ [kind |-> "retry"].kind # "rows"
    BY <1>16 DEF Retry
  <2>2. flights' = flights /\ cache' = cache
    BY <1>16 DEF Retry, shown
  <2> QED BY <1>4, <1>5, <1>6, <2>1, <2>2
<1>17. ASSUME NEW q \in Query, Ask(q) PROVE FlightsHonest' /\ InboxHonest' /\ CacheHonest'
  <2>1. cache' = [cache EXCEPT ![q] = [gens |-> Stamp(q, external), rows |-> RowsNow(q)]]
    BY <1>17 DEF Ask
  <2>2. PICK g, r : g = Stamp(q, external) /\ r = RowsNow(q)
    OBVIOUS
  <2>3. /\ cache'[q].gens = g /\ cache'[q].rows = r
        /\ \A p \in Query : p # q => cache'[p] = cache[p]
    BY <2>1, <2>2 DEF TypeOK
  <2>4. Honest(q, g, r) /\ g \in Gens(q)
    BY <2>2, HonestNow, StampShape DEF TypeOK
  <2>5. Honest(q, g, r)'
    BY <1>1, <2>4, HonestStays
  <2>6. CacheHonest'
    BY <1>0, <1>1, <2>3, <2>5, CacheRests DEF CacheHonest
  <2> QED BY <1>4, <1>6, <1>17, <2>6 DEF Ask
<1>18. ASSUME NEW s, NEW m, Takes(s, m) PROVE InboxHonest' /\ CacheHonest'
  <2>1. /\ Becomes(s, m) /\ cache' = s.cache
        /\ (m = Len(inbox) /\ inbox' = <<>>) \/ (m = 0 /\ inbox' = inbox)
    BY <1>18 DEF Takes
  <2>2. \A i \in 1..m : i \in DOMAIN inbox
    BY <2>1 DEF TypeOK
  <2>3. InboxHonest'
    <3>1. CASE inbox' = inbox
      BY <1>6, <3>1
    <3>2. CASE inbox' = <<>>
      BY <3>2 DEF InboxHonest
    <3> QED BY <2>1, <3>1, <3>2
  <2>4. ASSUME NEW q \in Query, cache'[q] # Nothing PROVE Honest(q, cache[q].gens, cache[q].rows)'
    <3>1. CASE cache'[q] = cache[q]
      BY <1>0, <1>1, <2>4, <3>1, CacheRests
    <3>2. CASE cache'[q] # cache[q]
      <4>1. PICK i \in 1..m : /\ inbox[i].kind = "rows" /\ inbox[i].query = q
                              /\ cache'[q] = [gens |-> inbox[i].gens, rows |-> inbox[i].rows]
        BY <2>1, <3>2 DEF Becomes
      <4>2. PICK g, r : g = inbox[i].gens /\ r = inbox[i].rows
        OBVIOUS
      <4>3. Honest(q, g, r)'
        BY <1>0, <1>1, <2>2, <4>1, <4>2, AnswerRests
      <4>4. cache'[q].gens = g /\ cache'[q].rows = r
        BY <4>1, <4>2
      <4> QED BY <4>3, <4>4
    <3> QED BY <3>1, <3>2
  <2>5. CacheHonest'
    BY <2>4 DEF CacheHonest
  <2> QED BY <2>3, <2>5
<1>19. CASE Outside
  BY <1>4, <1>18, <1>19, OutsideTakes
<1>20. CASE Draw
  <2>1. PICK s, m :
          /\ Takes(s, m)
          /\ \/ flights' = flights
             \/ flights' = [flights EXCEPT ![Drawn] =
                               [gens |-> Stamp(Drawn, s.external), rows |-> Nothing]]
    BY <1>20, DrawTakes
  <2>2. Drawn \in Query /\ external' = s.external /\ external' \in Nat /\ UNCHANGED clock
    BY <1>20, <2>1, DrawTakes DEF Takes, stored, TypeOK
  <2>3. CASE flights' = [flights EXCEPT ![Drawn] =
                           [gens |-> Stamp(Drawn, s.external), rows |-> Nothing]]
    <3>1. PICK q, g : q \in Query /\ q = Drawn /\ g = Stamp(Drawn, s.external)
      BY <2>2
    <3>2. /\ flights'[q].gens = g /\ flights'[q].rows = Nothing
          /\ \A r \in Query : r # q => flights'[r] = flights[r]
      BY <2>3, <3>1 DEF TypeOK
    <3>3. Stamped(q, g)'
      <4>1. DOMAIN g = Reads[q] /\ \A t \in Reads[q] : g[t] = clock[t] + external'
        BY <2>2, <3>1 DEF Stamp, GenOf
      <4>2. \A t \in Reads[q] : GenOf(t, external)' = clock[t] + external' /\ clock[t] + external' \in Nat
        <5>1. clock \in [Table -> Nat] /\ Reads[q] \subseteq Table
          BY <3>1, Counters, QueriesAssumption
        <5> QED BY <2>2, <5>1 DEF GenOf
      <4>3. \A t \in Reads[q] : g[t] <= GenOf(t, external)'
        BY <4>1, <4>2
      <4> QED BY <4>1, <4>3 DEF Stamped
    <3>4. FlightsHonest'
      BY <1>0, <1>1, <3>2, <3>3, FlightsRest DEF FlightsHonest
    <3> QED BY <1>18, <2>1, <3>4
  <2>4. CASE flights' = flights
    BY <1>4, <1>18, <2>1, <2>4
  <2> QED BY <2>1, <2>3, <2>4
<1> QED BY <1>8, <1>9, <1>10, <1>11, <1>12, <1>13, <1>14, <1>15, <1>16, <1>17, <1>19, <1>20 DEF Next

LEMMA HonestAtFirst == Init => StampsHonest
  BY DEF Init, StampsHonest

(* Wherever the rows of a display read are -- under way, posted or in the cache --
   they are never older than the generations they bear: Commits is moved after
   the commit, and a read takes its stamp before its snapshot. *)
THEOREM QueriesStampsHonest == Spec => []StampsHonest
<1>1. Init => TypeOK /\ StampsHonest
  BY TypesAtFirst, HonestAtFirst
<1>2. TypeOK /\ StampsHonest /\ [Next]_vars => (TypeOK /\ StampsHonest)'
  BY TypesStep, HonestStep
<1> QED BY <1>1, <1>2, PTL DEF Spec

LEMMA HonestIsCurrent == TypeOK /\ StampsHonest => CurrentIsCurrent
<1> SUFFICES ASSUME TypeOK, StampsHonest, NEW q \in Query, Current(q, Here), NEW t \in Reads[q]
             PROVE  cache[q].rows[t] = data[t] \/ Unrecorded(t) \/ Unnoticed
  BY DEF CurrentIsCurrent
<1>1. Here.cache = cache /\ Here.external = external
  BY DEF Here
<1>2. cache[q] # Nothing /\ Fresh(cache[q].gens, external)
  BY <1>1 DEF Current
<1>3. Honest(q, cache[q].gens, cache[q].rows)
  BY <1>2 DEF StampsHonest
<1>4. cache[q].gens[t] = GenOf(t, external)
  BY <1>2, <1>3 DEF Fresh, Honest, Stamped
<1> QED BY <1>3, <1>4 DEF Honest

(* For any tables, queries and panels, rows that the cache takes for current are
   the tables' rows: all that a display read may miss is a commit whose clock the
   writer is about to move, or a foreign one the sampler is about to tell of. *)
THEOREM QueriesCurrentIsCurrent == Spec => []CurrentIsCurrent
  BY QueriesTypes, QueriesStampsHonest, HonestIsCurrent, PTL

----------------------------------------------------------------------------
(* Every read that is awaited has one answer to come. *)

(* A step that neither sends for rows nor answers. *)
LEMMA AwaitedRests ==
    ASSUME Awaited, pending' = pending, inbox' = inbox,
           \A q \in Query : flights'[q] # Nothing <=> flights[q] # Nothing
    PROVE  Awaited'
<1>1. \A i, q : AnswersAt(i, q)' <=> AnswersAt(i, q)
  BY DEF AnswersAt
<1> QED BY <1>1 DEF Awaited

(* The inbox with one more event in it, as the answers see it. *)
LEMMA AnswersPosted ==
    ASSUME TypeOK, NEW e, inbox' = Append(inbox, e)
    PROVE  \E k : /\ \A i : i \in DOMAIN inbox' <=> i \in DOMAIN inbox \/ i = k
                  /\ k \notin DOMAIN inbox
                  /\ \A i \in DOMAIN inbox : \A q : AnswersAt(i, q)' <=> AnswersAt(i, q)
                  /\ \A q : AnswersAt(k, q)' <=> e.kind \in {"rows", "error"} /\ e.query = q
<1>1. PICK t : t = inbox'
  OBVIOUS
<1>2. inbox \in Seq({inbox[i] : i \in DOMAIN inbox})
  BY DEF TypeOK
<1>3. /\ \A i : i \in DOMAIN t <=> i \in DOMAIN inbox \/ i = Len(t)
      /\ \A i \in DOMAIN inbox : t[i] = inbox[i] /\ i # Len(t)
      /\ t[Len(t)] = e
  BY <1>1, <1>2, OneMore
<1>4. PICK k : k = Len(t)
  OBVIOUS
<1>5. \A i : i \in DOMAIN inbox' <=> i \in DOMAIN inbox \/ i = k
  BY <1>1, <1>3, <1>4
<1>6. k \notin DOMAIN inbox
  BY <1>3, <1>4
<1>7. \A i \in DOMAIN inbox : \A q : AnswersAt(i, q)' <=> AnswersAt(i, q)
  BY <1>1, <1>3 DEF AnswersAt
<1>8. \A q : AnswersAt(k, q)' <=> e.kind \in {"rows", "error"} /\ e.query = q
  BY <1>1, <1>3, <1>4 DEF AnswersAt
<1> QED BY <1>5, <1>6, <1>7, <1>8

(* An event that answers nothing. *)
LEMMA AwaitedTold ==
    ASSUME TypeOK, Awaited, pending' = pending, flights' = flights,
           NEW e, inbox' = Append(inbox, e), e.kind \notin {"rows", "error"}
    PROVE  Awaited'
<1>1. PICK k : /\ \A i : i \in DOMAIN inbox' <=> i \in DOMAIN inbox \/ i = k
               /\ \A i \in DOMAIN inbox : \A q : AnswersAt(i, q)' <=> AnswersAt(i, q)
               /\ \A q : AnswersAt(k, q)' <=> e.kind \in {"rows", "error"} /\ e.query = q
  BY AnswersPosted
<1>2. \A q : ~AnswersAt(k, q)'
  BY <1>1
<1> QED BY <1>1, <1>2 DEF Awaited

(* A read that ends with its answer in the inbox. *)
LEMMA AwaitedAnswered ==
    ASSUME TypeOK, Awaited, pending' = pending, NEW q \in Query, flights[q] # Nothing,
           flights' = [flights EXCEPT ![q] = Nothing],
           NEW e, inbox' = Append(inbox, e), e.kind \in {"rows", "error"}, e.query = q
    PROVE  Awaited'
<1>1. PICK k : /\ \A i : i \in DOMAIN inbox' <=> i \in DOMAIN inbox \/ i = k
               /\ \A i \in DOMAIN inbox : \A p : AnswersAt(i, p)' <=> AnswersAt(i, p)
               /\ \A p : AnswersAt(k, p)' <=> e.kind \in {"rows", "error"} /\ e.query = p
  BY AnswersPosted
<1>2. \A p : AnswersAt(k, p)' <=> p = q
  BY <1>1
<1>3. flights'[q] = Nothing /\ \A p \in Query : p # q => flights'[p] = flights[p]
  BY DEF TypeOK
<1>4. ASSUME NEW p \in Query
      PROVE  /\ p \in pending' <=> flights'[p] # Nothing \/ \E i \in DOMAIN inbox' : AnswersAt(i, p)'
             /\ flights'[p] # Nothing => \A i \in DOMAIN inbox' : ~AnswersAt(i, p)'
             /\ \A i, j \in DOMAIN inbox' : AnswersAt(i, p)' /\ AnswersAt(j, p)' => i = j
  <2>1. CASE p = q
    <3>1. q \in pending /\ \A i \in DOMAIN inbox : ~AnswersAt(i, q)
      BY DEF Awaited
    <3> QED BY <1>1, <1>2, <1>3, <2>1, <3>1
  <2>2. CASE p # q
    <3>1. /\ p \in pending <=> flights[p] # Nothing \/ \E i \in DOMAIN inbox : AnswersAt(i, p)
          /\ flights[p] # Nothing => \A i \in DOMAIN inbox : ~AnswersAt(i, p)
          /\ \A i, j \in DOMAIN inbox : AnswersAt(i, p) /\ AnswersAt(j, p) => i = j
      BY DEF Awaited
    <3> QED BY <1>1, <1>2, <1>3, <2>2, <3>1
  <2> QED BY <2>1, <2>2
<1> QED BY <1>4 DEF Awaited

(* What the UI thread publishes is awaited no longer. *)
LEMMA AwaitedTaken ==
    ASSUME TypeOK, Awaited, NEW s, NEW m, Takes(s, m)
    PROVE  \A q \in Query :
              /\ q \in s.pending <=> flights[q] # Nothing \/ \E i \in DOMAIN inbox' : AnswersAt(i, q)'
              /\ flights[q] # Nothing => \A i \in DOMAIN inbox' : ~AnswersAt(i, q)'
              /\ \A i, j \in DOMAIN inbox' : AnswersAt(i, q)' /\ AnswersAt(j, q)' => i = j
<1>1. /\ Becomes(s, m)
      /\ (m = Len(inbox) /\ inbox' = <<>>) \/ (m = 0 /\ inbox' = inbox)
  BY DEF Takes
<1>2. \A q \in Query : q \in s.pending <=> q \in pending /\ \A i \in 1..m : ~AnswersAt(i, q)
  BY <1>1 DEF Becomes
<1>3. \A q \in Query :
        /\ q \in pending <=> flights[q] # Nothing \/ \E i \in DOMAIN inbox : AnswersAt(i, q)
        /\ flights[q] # Nothing => \A i \in DOMAIN inbox : ~AnswersAt(i, q)
        /\ \A i, j \in DOMAIN inbox : AnswersAt(i, q) /\ AnswersAt(j, q) => i = j
  BY DEF Awaited
<1>4. CASE m = Len(inbox) /\ inbox' = <<>>
  <2>1. DOMAIN inbox = 1..m /\ DOMAIN inbox' = {}
    BY <1>4 DEF TypeOK
  <2> QED BY <1>2, <1>3, <2>1
<1>5. CASE m = 0 /\ inbox' = inbox
  <2>1. 1..m = {}
    BY <1>5
  <2>2. \A i, q : AnswersAt(i, q)' <=> AnswersAt(i, q)
    BY <1>5 DEF AnswersAt
  <2> QED BY <1>2, <1>3, <1>5, <2>1, <2>2
<1> QED BY <1>1, <1>4, <1>5

LEMMA AwaitedAtFirst == Init => Awaited
  BY DEF Init, Awaited

LEMMA AwaitedStep ==
    ASSUME TypeOK, Awaited, [Next]_vars
    PROVE  Awaited'
<1>1. CASE UNCHANGED vars
  BY <1>1, AwaitedRests DEF vars, shown
<1>2. ASSUME NEW t \in Table, Commit(t) \/ Act(t) \/ Foreign(t) PROVE Awaited'
  BY <1>2, AwaitedRests DEF Commit, Act, Foreign, shown
<1>3. CASE Record \/ Notify \/ Frame
  BY <1>3, AwaitedRests DEF Record, Notify, Frame, shown
<1>4. CASE Sample
  <2>1. /\ inbox' = Append(inbox, [kind |-> "external"])
        /\ [kind |-> "external"].kind \notin {"rows", "error"}
        /\ pending' = pending /\ flights' = flights
    BY <1>4 DEF Sample, shown
  <2> QED BY <2>1, AwaitedTold
<1>5. ASSUME NEW q \in Query, Read(q) PROVE Awaited'
  <2>1. flights[q] \in Flight(q) /\ flights[q] # Nothing
    BY <1>5 DEF Read, TypeOK
  <2>2. flights' = [flights EXCEPT ![q] = [flights[q] EXCEPT !.rows = RowsNow(q)]]
    BY <1>5 DEF Read
  <2>3. [flights[q] EXCEPT !.rows = RowsNow(q)] # Nothing
    BY <2>1 DEF Flight, Nothing
  <2>4. \A p \in Query : flights'[p] # Nothing <=> flights[p] # Nothing
    BY <2>1, <2>2, <2>3 DEF TypeOK
  <2> QED BY <1>5, <2>4, AwaitedRests DEF Read, shown
<1>6. ASSUME NEW q \in Query, Post(q) PROVE Awaited'
  <2> DEFINE e == [kind |-> "rows", query |-> q, gens |-> flights[q].gens, rows |-> flights[q].rows]
  <2>1. /\ flights[q] # Nothing /\ pending' = pending /\ inbox' = Append(inbox, e)
        /\ flights' = [flights EXCEPT ![q] = Nothing]
    BY <1>6 DEF Post, shown
  <2>2. e.kind \in {"rows", "error"} /\ e.query = q
    OBVIOUS
  <2> HIDE DEF e
  <2> QED BY <2>1, <2>2, AwaitedAnswered
<1>7. ASSUME NEW q \in Query, Fail(q) PROVE Awaited'
  <2>1. PICK known \in BOOLEAN :
          inbox' = Append(inbox, [kind |-> "error", query |-> q, nth |-> events',
                                  gens |-> IF known THEN flights[q].gens ELSE <<>>])
    BY <1>7 DEF Fail
  <2> DEFINE e == [kind |-> "error", query |-> q, nth |-> events',
                   gens |-> IF known THEN flights[q].gens ELSE <<>>]
  <2>2. /\ flights[q] # Nothing /\ pending' = pending /\ flights' = [flights EXCEPT ![q] = Nothing]
    BY <1>7 DEF Fail, shown
  <2>3. inbox' = Append(inbox, e) /\ e.kind \in {"rows", "error"} /\ e.query = q
    BY <2>1
  <2> HIDE DEF e
  <2> QED BY <2>2, <2>3, AwaitedAnswered
<1>8. ASSUME NEW q \in Query, RetryDue(q) \/ Ask(q) PROVE Awaited'
  BY <1>8, AwaitedRests DEF RetryDue, Ask
<1>9. ASSUME NEW q \in Query, Retry(q) PROVE Awaited'
  <2>1. /\ inbox' = Append(inbox, [kind |-> "retry"])
        /\ [kind |-> "retry"].kind \notin {"rows", "error"}
        /\ pending' = pending /\ flights' = flights
    BY <1>9 DEF Retry, shown
  <2> QED BY <2>1, AwaitedTold
<1>10. CASE Outside
  <2>1. Takes(Published, Len(inbox)) /\ pending' = Published.pending /\ flights' = flights
    BY <1>10, OutsideTakes
  <2> QED BY <2>1, AwaitedTaken DEF Awaited
<1>11. CASE Draw
  <2>1. PICK s, m :
          /\ Takes(s, m)
          /\ \/ pending' = s.pending /\ flights' = flights
             \/ /\ Drawn \notin s.pending /\ pending' = s.pending \union {Drawn}
                /\ flights' = [flights EXCEPT ![Drawn] =
                                  [gens |-> Stamp(Drawn, s.external), rows |-> Nothing]]
    BY <1>11, DrawTakes
  <2>2. \A q \in Query :
          /\ q \in s.pending <=> flights[q] # Nothing \/ \E i \in DOMAIN inbox' : AnswersAt(i, q)'
          /\ flights[q] # Nothing => \A i \in DOMAIN inbox' : ~AnswersAt(i, q)'
          /\ \A i, j \in DOMAIN inbox' : AnswersAt(i, q)' /\ AnswersAt(j, q)' => i = j
    BY <2>1, AwaitedTaken
  <2>3. CASE pending' = s.pending /\ flights' = flights
    BY <2>2, <2>3 DEF Awaited
  <2>4. CASE /\ Drawn \notin s.pending /\ pending' = s.pending \union {Drawn}
             /\ flights' = [flights EXCEPT ![Drawn] =
                               [gens |-> Stamp(Drawn, s.external), rows |-> Nothing]]
    <3>1. PICK d \in Query : d = Drawn
      BY <1>11, DrawTakes
    <3>2. flights'[d] # Nothing /\ \A q \in Query : q # d => flights'[q] = flights[q]
      BY <2>4, <3>1, NotNothing DEF TypeOK
    <3>3. d \notin s.pending /\ \A q : q \in pending' <=> q \in s.pending \/ q = d
      BY <2>4, <3>1
    <3>4. ASSUME NEW q \in Query
          PROVE  /\ q \in pending' <=> flights'[q] # Nothing \/ \E i \in DOMAIN inbox' : AnswersAt(i, q)'
                 /\ flights'[q] # Nothing => \A i \in DOMAIN inbox' : ~AnswersAt(i, q)'
                 /\ \A i, j \in DOMAIN inbox' : AnswersAt(i, q)' /\ AnswersAt(j, q)' => i = j
      <4>1. CASE q = d
        BY <2>2, <3>2, <3>3, <4>1
      <4>2. CASE q # d
        BY <2>2, <3>2, <3>3, <4>2
      <4> QED BY <4>1, <4>2
    <3> QED BY <3>4 DEF Awaited
  <2> QED BY <2>1, <2>3, <2>4
<1> QED BY <1>1, <1>2, <1>3, <1>4, <1>5, <1>6, <1>7, <1>8, <1>9, <1>10, <1>11 DEF Next

LEMMA QueriesAwaited == Spec => []Awaited
<1>1. Init => TypeOK /\ Awaited
  BY TypesAtFirst, AwaitedAtFirst
<1>2. TypeOK /\ Awaited /\ [Next]_vars => (TypeOK /\ Awaited)'
  BY TypesStep, AwaitedStep
<1> QED BY <1>1, <1>2, PTL DEF Spec

LEMMA AwaitedIsOne == Awaited => OneAnswer
<1> SUFFICES ASSUME Awaited, NEW q \in Query
             PROVE  Answers(q) + (IF flights[q] # Nothing THEN 1 ELSE 0) = IF q \in pending THEN 1 ELSE 0
  BY DEF OneAnswer
<1> DEFINE A == {i \in DOMAIN inbox : AnswersAt(i, q)}
<1>1. Answers(q) = Cardinality(A)
  BY DEF Answers, AnswersAt
<1>2. CASE A = {}
  <2>1. Cardinality(A) = 0
    BY <1>2, FS_EmptySet
  <2>2. q \in pending <=> flights[q] # Nothing
    BY <1>2 DEF Awaited
  <2> QED BY <1>1, <2>1, <2>2
<1>3. CASE A # {}
  <2>1. PICK i \in DOMAIN inbox : AnswersAt(i, q)
    BY <1>3
  <2>2. A = {i}
    BY <2>1 DEF Awaited
  <2>3. Cardinality(A) = 1
    BY <2>2, FS_Singleton
  <2>4. q \in pending /\ flights[q] = Nothing
    BY <2>1 DEF Awaited
  <2> QED BY <1>1, <2>3, <2>4
<1> QED BY <1>2, <1>3

(* For any queries, panels and failures, a query in Background.pending has one
   answer to come -- its read or one event in the channel -- and a query that is
   not has none: two answers to one query never race, and none is awaited that
   was taken already. *)
THEOREM QueriesOneAnswer == Spec => []OneAnswer
  BY QueriesAwaited, AwaitedIsOne, PTL

----------------------------------------------------------------------------
(* One page from one scope. *)

(* A step that leaves the screen and the cache of an open scope alone. *)
LEMMA PageRests ==
    ASSUME PageSoFar, at' = at, screen' = screen, cache' = cache \/ at = Nothing
    PROVE  PageSoFar'
<1> SUFFICES ASSUME NEW i \in DOMAIN Panels, Panels[i].scoped
             PROVE  IF at' # Nothing /\ at'.panel = i
                    THEN \A n \in 1..(at'.nth - 1) : screen'[i][n] = CacheShows(Panels[i].queries[n])'
                    ELSE \A m, n \in DOMAIN screen'[i] :
                            Panels[i].queries[m] = Panels[i].queries[n] => screen'[i][m] = screen'[i][n]
  BY DEF PageSoFar
<1>1. CASE at # Nothing /\ at.panel = i
  <2>1. \A q : CacheShows(q)' = CacheShows(q)
    BY <1>1 DEF CacheShows
  <2>2. \A n \in 1..(at.nth - 1) : screen[i][n] = CacheShows(Panels[i].queries[n])
    BY <1>1 DEF PageSoFar
  <2> QED BY <1>1, <2>1, <2>2
<1>2. CASE ~(at # Nothing /\ at.panel = i)
  <2>1. \A m, n \in DOMAIN screen[i] :
            Panels[i].queries[m] = Panels[i].queries[n] => screen[i][m] = screen[i][n]
    BY <1>2 DEF PageSoFar
  <2> QED BY <1>2, <2>1
<1> QED BY <1>1, <1>2

(* A read of a draw: the first of a scope may find a new cache, the later ones
   find the one the scope began with. *)
LEMMA PageDrawn ==
    ASSUME TypeOK, PageSoFar, Draw
    PROVE  PageSoFar'
<1>1. /\ at # Nothing /\ at' = NextAt(at.panel, at.nth)
      /\ \E s, m :
            /\ Takes(s, m)
            /\ Held(Panels[at.panel], at.nth) => s = Here
            /\ screen' = [screen EXCEPT ![at.panel][at.nth] =
                              IF s.cache[Drawn] = Nothing THEN Nothing ELSE s.cache[Drawn].rows]
  BY DrawTakes
<1>2. PICK p, k : p = at.panel /\ k = at.nth
  OBVIOUS
<1>3. /\ p \in DOMAIN Panels /\ k \in DOMAIN Panels[p].queries
      /\ Drawn = Panels[p].queries[k]
  BY <1>1, <1>2, PlaceIsRead DEF TypeOK, Drawn
<1>4. /\ DOMAIN Panels[p].queries = 1..Len(Panels[p].queries) /\ Len(Panels[p].queries) \in Nat
      /\ p \in Nat /\ k \in Nat /\ k >= 1 /\ k <= Len(Panels[p].queries)
      /\ Panels[p].queries \in Seq(Query)
  <2>1. /\ DOMAIN Panels[p].queries = 1..Len(Panels[p].queries) /\ Len(Panels[p].queries) \in Nat
        /\ Panels[p].queries \in Seq(Query)
    BY <1>3, PanelShape
  <2>2. p \in 1..Len(Panels) /\ Len(Panels) \in Nat
    BY <1>3, PanelShape
  <2> QED BY <1>3, <2>1, <2>2
<1>5. PICK s, m :
        /\ Takes(s, m)
        /\ Held(Panels[at.panel], at.nth) => s = Here
        /\ screen' = [screen EXCEPT ![at.panel][at.nth] =
                          IF s.cache[Drawn] = Nothing THEN Nothing ELSE s.cache[Drawn].rows]
  BY <1>1
<1>6. cache' = s.cache
  BY <1>5 DEF Takes
<1>7. Panels[p].scoped /\ k > 1 => cache' = cache
  BY <1>2, <1>5, <1>6 DEF Held, Here
<1>8. /\ \A i \in DOMAIN Panels : i # p => screen'[i] = screen[i]
      /\ DOMAIN screen'[p] = 1..Len(Panels[p].queries)
      /\ \A n \in 1..Len(Panels[p].queries) : n # k => screen'[p][n] = screen[p][n]
      /\ screen'[p][k] = CacheShows(Panels[p].queries[k])'
  <2>1. screen' = [screen EXCEPT ![p] = [screen[p] EXCEPT ![k] =
                     IF s.cache[Drawn] = Nothing THEN Nothing ELSE s.cache[Drawn].rows]]
    BY <1>2, <1>5
  <2>2. DOMAIN screen = DOMAIN Panels /\ DOMAIN screen[p] = 1..Len(Panels[p].queries)
    BY <1>3, <1>4 DEF TypeOK
  <2>3. screen'[p][k] = IF s.cache[Drawn] = Nothing THEN Nothing ELSE s.cache[Drawn].rows
    BY <1>3, <1>4, <2>1, <2>2
  <2>4. CacheShows(Panels[p].queries[k])' = IF s.cache[Drawn] = Nothing THEN Nothing ELSE s.cache[Drawn].rows
    BY <1>3, <1>6 DEF CacheShows
  <2> QED BY <1>3, <1>4, <2>1, <2>2, <2>3, <2>4
<1>9. ASSUME Panels[p].scoped
      PROVE  \A n \in 1..k : screen'[p][n] = CacheShows(Panels[p].queries[n])'
  <2> SUFFICES ASSUME NEW n \in 1..k PROVE screen'[p][n] = CacheShows(Panels[p].queries[n])'
    OBVIOUS
  <2>1. CASE n = k
    BY <1>8, <2>1
  <2>2. CASE n # k
    <3>1. n \in 1..(k - 1) /\ n \in 1..Len(Panels[p].queries) /\ k > 1
      BY <1>4, <2>2
    <3>2. screen[p][n] = CacheShows(Panels[p].queries[n])
      BY <1>1, <1>2, <1>3, <1>9, <3>1 DEF PageSoFar
    <3>3. CacheShows(Panels[p].queries[n])' = CacheShows(Panels[p].queries[n])
      BY <1>7, <1>9, <3>1 DEF CacheShows
    <3> QED BY <1>8, <2>2, <3>1, <3>2, <3>3
  <2> QED BY <2>1, <2>2
<1>10. \/ k < Len(Panels[p].queries) /\ at' = [panel |-> p, nth |-> k + 1]
       \/ k = Len(Panels[p].queries) /\ at' = [panel |-> p + 1, nth |-> 1]
       \/ k = Len(Panels[p].queries) /\ at' = Nothing
  BY <1>1, <1>2, <1>4 DEF NextAt
<1> SUFFICES ASSUME NEW i \in DOMAIN Panels, Panels[i].scoped
             PROVE  IF at' # Nothing /\ at'.panel = i
                    THEN \A n \in 1..(at'.nth - 1) : screen'[i][n] = CacheShows(Panels[i].queries[n])'
                    ELSE \A n, l \in DOMAIN screen'[i] :
                            Panels[i].queries[n] = Panels[i].queries[l] => screen'[i][n] = screen'[i][l]
  BY DEF PageSoFar
<1>11. CASE i # p
  <2>1. ~(at # Nothing /\ at.panel = i)
    BY <1>2, <1>11
  <2>2. \A n, l \in DOMAIN screen[i] :
          Panels[i].queries[n] = Panels[i].queries[l] => screen[i][n] = screen[i][l]
    BY <2>1 DEF PageSoFar
  <2>3. at' # Nothing /\ at'.panel = i => at'.nth = 1
    BY <1>10, <1>11
  <2>4. \A n : n \notin 1..(1 - 1)
    OBVIOUS
  <2>5. screen'[i] = screen[i]
    BY <1>8, <1>11
  <2> QED BY <2>2, <2>3, <2>4, <2>5
<1>12. CASE i = p /\ k < Len(Panels[p].queries) /\ at' = [panel |-> p, nth |-> k + 1]
  <2>1. at' # Nothing /\ at'.panel = i /\ at'.nth - 1 = k
    BY <1>4, <1>12, NotNothing
  <2> QED BY <1>9, <1>12, <2>1
<1>13. CASE i = p /\ k = Len(Panels[p].queries) /\ (at' = Nothing \/ at' = [panel |-> p + 1, nth |-> 1])
  <2>1. ~(at' # Nothing /\ at'.panel = i)
    BY <1>4, <1>13
  <2>2. \A n \in DOMAIN screen'[i] : screen'[i][n] = CacheShows(Panels[i].queries[n])'
    BY <1>8, <1>9, <1>13
  <2>3. \A n, l \in DOMAIN screen'[i] :
          Panels[i].queries[n] = Panels[i].queries[l] => screen'[i][n] = screen'[i][l]
    <3> SUFFICES ASSUME NEW n \in DOMAIN screen'[i], NEW l \in DOMAIN screen'[i],
                        Panels[i].queries[n] = Panels[i].queries[l]
                 PROVE  screen'[i][n] = screen'[i][l]
      OBVIOUS
    <3>1. CacheShows(Panels[i].queries[n])' = CacheShows(Panels[i].queries[l])'
      BY DEF CacheShows
    <3> QED BY <2>2, <3>1
  <2> QED BY <2>1, <2>3
<1> QED BY <1>10, <1>11, <1>12, <1>13

LEMMA PageAtFirst == Init => PageSoFar
  BY DEF Init, PageSoFar

LEMMA PageStep ==
    ASSUME TypeOK, PageSoFar, [Next]_vars
    PROVE  PageSoFar'
<1>1. CASE UNCHANGED vars
  BY <1>1, PageRests DEF vars, shown
<1>2. ASSUME NEW t \in Table, Commit(t) \/ Act(t) \/ Foreign(t) PROVE PageSoFar'
  BY <1>2, PageRests DEF Commit, Act, Foreign, shown
<1>3. CASE Record \/ Notify \/ Sample
  BY <1>3, PageRests DEF Record, Notify, Sample, shown
<1>4. ASSUME NEW q \in Query, Read(q) \/ Post(q) \/ Fail(q) PROVE PageSoFar'
  BY <1>4, PageRests DEF Read, Post, Fail, shown
<1>5. ASSUME NEW q \in Query, RetryDue(q) \/ Retry(q) \/ Ask(q) PROVE PageSoFar'
  BY <1>5, PageRests DEF RetryDue, Retry, Ask, shown
<1>6. CASE Outside
  BY <1>6, PageRests DEF Outside
<1>7. CASE Frame
  <2>1. at = Nothing /\ at' = [panel |-> 1, nth |-> 1] /\ UNCHANGED <<cache, screen>>
    BY <1>7 DEF Frame, shown
  <2>2. at'.nth = 1 /\ \A n : n \notin 1..(1 - 1)
    BY <2>1
  <2>3. \A i \in DOMAIN Panels : Panels[i].scoped =>
            \A m, n \in DOMAIN screen[i] :
                Panels[i].queries[m] = Panels[i].queries[n] => screen[i][m] = screen[i][n]
    BY <2>1 DEF PageSoFar
  <2> QED BY <2>1, <2>2, <2>3 DEF PageSoFar
<1>8. CASE Draw
  BY <1>8, PageDrawn
<1> QED BY <1>1, <1>2, <1>3, <1>4, <1>5, <1>6, <1>7, <1>8 DEF Next

(* For any panels and queries, a scope shows one page: two reads of one query in
   one scope of a draw show the same rows, whatever was published, asked by a verb
   or sent for in between. *)
THEOREM QueriesOnePage == Spec => []OnePage
<1>1. Init => TypeOK /\ PageSoFar
  BY TypesAtFirst, PageAtFirst
<1>2. TypeOK /\ PageSoFar /\ [Next]_vars => (TypeOK /\ PageSoFar)'
  BY TypesStep, PageStep
<1>3. PageSoFar => OnePage
  BY DEF PageSoFar, OnePage
<1> QED BY <1>1, <1>2, <1>3, PTL DEF Spec
=============================================================================
