-------------------------- MODULE BackgroundQueries --------------------------
(***************************************************************************)
(* The store's display reads (kernel/src/store/queries.rs, store.rs) as the *)
(* shell drives them (app/src/shell/stage.rs).  A panel that is drawn takes *)
(* the rows the cache has and, where a table they came from has moved,      *)
(* sends for new ones; a task reads them and posts them back, and the UI    *)
(* thread publishes what was posted when it polls.                          *)
(*                                                                         *)
(* A table is the count of its commits.  The writer commits and only then   *)
(* moves the clock that readers compare with; a foreign connection moves no *)
(* clock at all, and is noticed by a sample of data_version.                *)
(***************************************************************************)
EXTENDS Naturals, Sequences, FiniteSets

CONSTANTS
    Table,
    Query,
    Reads,        \* per query: the tables its authorizer reports
    Panels,       \* the panels on screen that read, in order: [queries, scoped]
    MaxEvents     \* bound: commits, foreign ones, reads that fail, reads of verbs

ASSUME QueriesAssumption ==
    /\ Reads \in [Query -> SUBSET Table]
    /\ MaxEvents \in Nat
    /\ Panels \in Seq([queries : Seq(Query) \ {<<>>}, scoped : BOOLEAN]) \ {<<>>}

VARIABLES
    data,       \* per table: its rows, as a count of commits to it
    clock,      \* per table: Commits.tables
    serial,     \* Commits.serial
    seen,       \* Store.seen_commit
    writer,     \* what the writer thread has yet to say of its last commit
    foreign,    \* foreign commits, and how many the sampler has seen; no sample yet: none
    external,   \* Store.external_generation
    cache,      \* per query: Cached, or Nothing
    pending,    \* Background.pending
    failures,   \* per query: Failure, or Nothing
    flights,    \* per query: the background read under way, or Nothing
    timers,     \* the waits after failures, by query and by which failure
    inbox,      \* Background.receive
    signal,     \* the platform's UI signal is raised
    dirty,      \* the session wants a frame
    at,         \* the panel and the query of it the frame has come to, or Nothing
    screen,     \* per panel and read of it: the rows it was last drawn with
    events      \* what counted against MaxEvents

stored == <<data, clock, serial, writer, foreign>>
shown == <<cache, pending, failures, external>>
vars == <<stored, seen, shown, flights, timers, inbox, signal, dirty, at, screen, events>>

Event == events < MaxEvents /\ events' = events + 1

Nothing == [none |-> TRUE]

----------------------------------------------------------------------------
(* Stamps.  The three generations a stamp is the sum of only ever grow.     *)

GenOf(t, ext) == clock[t] + ext
Stamp(q, ext) == [t \in Reads[q] |-> GenOf(t, ext)]
Fresh(gens, ext) == \A t \in DOMAIN gens : gens[t] = GenOf(t, ext)
RowsNow(q) == [t \in Reads[q] |-> data[t]]

Current(q, s) == s.cache[q] # Nothing /\ Fresh(s.cache[q].gens, s.external)
BacksOff(q, s) ==
    /\ s.failures[q] # Nothing
    /\ ~s.failures[q].due /\ Fresh(s.failures[q].gens, s.external)

----------------------------------------------------------------------------
(* poll_background: every event that has come, in order.                    *)

Publish(s, e) ==
    CASE e.kind = "external" -> [s EXCEPT !.external = @ + 1]
      [] e.kind = "retry" -> s
      [] e.kind = "rows" ->
            [s EXCEPT !.pending = @ \ {e.query}, !.failures[e.query] = Nothing,
                      !.cache[e.query] = [gens |-> e.gens, rows |-> e.rows]]
      [] e.kind = "error" ->
            [s EXCEPT !.pending = @ \ {e.query},
                      !.failures[e.query] = [gens |-> e.gens, nth |-> e.nth, due |-> FALSE],
                      !.timers = @ \union {<<e.query, e.nth>>}]

Here == [external |-> external, pending |-> pending, failures |-> failures,
         cache |-> cache, timers |-> timers]
PublishedUpTo[n \in 0..Len(inbox)] ==
    IF n = 0 THEN Here ELSE Publish(PublishedUpTo[n - 1], inbox[n])
Published == PublishedUpTo[Len(inbox)]

Become(s) ==
    /\ external' = s.external /\ pending' = s.pending /\ failures' = s.failures
    /\ cache' = s.cache /\ timers' = s.timers

----------------------------------------------------------------------------

Init ==
    /\ data = [t \in Table |-> 0] /\ clock = [t \in Table |-> 0]
    /\ serial = 0 /\ seen = 0
    /\ writer = Nothing
    /\ foreign = [made |-> 0, sampled |-> FALSE, last |-> 0]
    /\ external = 0
    /\ cache = [q \in Query |-> Nothing]
    /\ pending = {}
    /\ failures = [q \in Query |-> Nothing]
    /\ flights = [q \in Query |-> Nothing]
    /\ timers = {}
    /\ inbox = <<>>
    /\ signal = FALSE
    /\ dirty = TRUE
    /\ at = Nothing
    /\ screen = [i \in DOMAIN Panels |-> [n \in DOMAIN Panels[i].queries |-> Nothing]]
    /\ events = 0

----------------------------------------------------------------------------
(* The writer thread, for a worker: commit, record, wake the listeners.     *)

Commit(t) ==
    /\ Event
    /\ writer = Nothing
    /\ data' = [data EXCEPT ![t] = @ + 1]
    /\ writer' = [table |-> t, recorded |-> FALSE]
    /\ UNCHANGED <<clock, serial, foreign, seen, shown, flights, timers, inbox, signal, dirty,
                   at, screen>>

Record ==
    /\ writer # Nothing /\ ~writer.recorded
    /\ clock' = [clock EXCEPT ![writer.table] = @ + 1]
    /\ serial' = serial + 1
    /\ writer' = [writer EXCEPT !.recorded = TRUE]
    /\ UNCHANGED <<data, foreign, seen, shown, flights, timers, inbox, signal, dirty, at,
                   screen, events>>

Notify ==
    /\ writer # Nothing /\ writer.recorded
    /\ writer' = Nothing
    /\ signal' = TRUE
    /\ UNCHANGED <<data, clock, serial, foreign, seen, shown, flights, timers, inbox, dirty, at,
                   screen, events>>

(* Store::write from a verb: the UI waits for the reply, takes the commit   *)
(* for seen, and the session asks for a frame as it does for any action.    *)
Act(t) ==
    /\ at = Nothing
    /\ Event
    /\ writer = Nothing
    /\ data' = [data EXCEPT ![t] = @ + 1]
    /\ clock' = [clock EXCEPT ![t] = @ + 1]
    /\ serial' = serial + 1 /\ seen' = serial'
    /\ writer' = [table |-> t, recorded |-> TRUE]
    /\ dirty' = TRUE
    /\ UNCHANGED <<foreign, shown, flights, timers, inbox, signal, at, screen>>

(* A connection that is not this process's, and the sample that notices it. *)
Foreign(t) ==
    /\ Event
    /\ data' = [data EXCEPT ![t] = @ + 1]
    /\ foreign' = [foreign EXCEPT !.made = @ + 1]
    /\ UNCHANGED <<clock, serial, writer, seen, shown, flights, timers, inbox, signal, dirty, at,
                   screen>>

Sample ==
    /\ writer = Nothing
    /\ ~foreign.sampled \/ foreign.last # foreign.made
    /\ foreign' = [foreign EXCEPT !.sampled = TRUE, !.last = foreign.made]
    /\ inbox' = Append(inbox, [kind |-> "external"])
    /\ signal' = TRUE
    /\ UNCHANGED <<data, clock, serial, writer, seen, shown, flights, timers, dirty, at, screen,
                   events>>

----------------------------------------------------------------------------
(* A background read: one SQLite snapshot, posted with the stamp from       *)
(* before it.                                                               *)

Read(q) ==
    /\ flights[q] # Nothing /\ flights[q].rows = Nothing
    /\ flights' = [flights EXCEPT ![q].rows = RowsNow(q)]
    /\ UNCHANGED <<stored, seen, shown, timers, inbox, signal, dirty, at, screen, events>>

(* As a plausible mistake: the rows bear the stamp of when they are posted. *)
PostStamping(q) ==
    /\ flights[q] # Nothing /\ flights[q].rows # Nothing
    /\ inbox' = Append(inbox, [kind |-> "rows", query |-> q, gens |-> Stamp(q, external),
                               rows |-> flights[q].rows])
    /\ flights' = [flights EXCEPT ![q] = Nothing]
    /\ signal' = TRUE
    /\ UNCHANGED <<stored, seen, shown, timers, dirty, at, screen, events>>

Post(q) ==
    /\ flights[q] # Nothing /\ flights[q].rows # Nothing
    /\ inbox' = Append(inbox, [kind |-> "rows", query |-> q, gens |-> flights[q].gens,
                               rows |-> flights[q].rows])
    /\ flights' = [flights EXCEPT ![q] = Nothing]
    /\ signal' = TRUE
    /\ UNCHANGED <<stored, seen, shown, timers, dirty, at, screen, events>>

(* The read fails, with its dependencies known or before they were.         *)
Fail(q) ==
    /\ Event
    /\ flights[q] # Nothing
    /\ \E known \in BOOLEAN :
        inbox' = Append(inbox, [kind |-> "error", query |-> q, nth |-> events',
                                gens |-> IF known THEN flights[q].gens ELSE <<>>])
    /\ flights' = [flights EXCEPT ![q] = Nothing]
    /\ signal' = TRUE
    /\ UNCHANGED <<stored, seen, shown, timers, dirty, at, screen>>

(* retry_at passes, and some time after it the wait that was begun later.   *)
RetryDue(q) ==
    /\ failures[q] # Nothing /\ ~failures[q].due
    /\ failures' = [failures EXCEPT ![q].due = TRUE]
    /\ UNCHANGED <<stored, seen, external, cache, pending, flights, timers, inbox, signal, dirty,
                   at, screen, events>>

Retry(q) ==
    \E w \in timers :
        /\ w[1] = q
        /\ failures[q] # Nothing /\ failures[q].nth = w[2] => failures[q].due
        /\ timers' = timers \ {w}
        /\ inbox' = Append(inbox, [kind |-> "retry"])
        /\ signal' = TRUE
        /\ UNCHANGED <<stored, seen, shown, flights, dirty, at, screen, events>>

----------------------------------------------------------------------------
(* The UI thread.                                                           *)

(* As a plausible mistake: only what committed asks for a frame.            *)
OutsideCommits ==
    /\ at = Nothing
    /\ signal
    /\ signal' = FALSE
    /\ Become(Published)
    /\ inbox' = <<>>
    /\ seen' = serial
    /\ dirty' = (dirty \/ seen # serial)
    /\ UNCHANGED <<stored, flights, at, screen, events>>

(* Event::Signal, or the poll timer: what is outside is polled, and a frame *)
(* asked for if anything was new.                                           *)
Outside ==
    /\ at = Nothing
    /\ signal
    /\ signal' = FALSE
    /\ Become(Published)
    /\ inbox' = <<>>
    /\ seen' = serial
    /\ dirty' = (dirty \/ inbox # <<>> \/ seen # serial)
    /\ UNCHANGED <<stored, flights, at, screen, events>>

Frame ==
    /\ at = Nothing /\ dirty
    /\ at' = [panel |-> 1, nth |-> 1]
    /\ dirty' = FALSE
    /\ UNCHANGED <<stored, seen, shown, flights, timers, inbox, signal, screen, events>>

NextAt(i, n) ==
    IF n < Len(Panels[i].queries) THEN [panel |-> i, nth |-> n + 1]
    ELSE IF i < Len(Panels) THEN [panel |-> i + 1, nth |-> 1]
    ELSE Nothing

(* As a plausible mistake: a read polls although a scope is open.           *)
HeldNever(panel, nth) == FALSE
(* The poll at the start of a scope comes before its first read.            *)
Held(panel, nth) == panel.scoped /\ nth > 1

(* As a plausible mistake: what is on its way is sent for again.            *)
SendsAgain(q, s) == ~Current(q, s) /\ ~BacksOff(q, s)
Sends(q, s) == ~Current(q, s) /\ ~BacksOff(q, s) /\ q \notin s.pending
(* background_rows: what has come is published, unless a scope holds the    *)
(* display still; the panel gets what the cache has, and a query that is    *)
(* not current, not on its way and not backing off is sent for.             *)
Draw ==
    /\ at # Nothing
    /\ LET panel == Panels[at.panel]
           q == panel.queries[at.nth]
           held == Held(panel, at.nth)
           s == IF held THEN Here ELSE Published
       IN  /\ inbox' = IF held THEN inbox ELSE <<>>
           /\ screen' = [screen EXCEPT ![at.panel][at.nth] =
                            IF s.cache[q] = Nothing THEN Nothing ELSE s.cache[q].rows]
           /\ IF Sends(q, s)
              THEN /\ Become([s EXCEPT !.pending = @ \union {q}])
                   /\ flights' = [flights EXCEPT ![q] = [gens |-> Stamp(q, s.external), rows |-> Nothing]]
              ELSE Become(s) /\ UNCHANGED flights
           /\ at' = NextAt(at.panel, at.nth)
    /\ UNCHANGED <<stored, seen, signal, dirty, events>>

(* rows_sql: a verb reads the same query itself, through the same cache.    *)
Ask(q) ==
    /\ at = Nothing
    /\ Event
    /\ ~Current(q, Here)
    /\ cache' = [cache EXCEPT ![q] = [gens |-> Stamp(q, external), rows |-> RowsNow(q)]]
    /\ UNCHANGED <<stored, seen, external, pending, failures, flights, timers, inbox, signal, dirty,
                   at, screen>>

----------------------------------------------------------------------------

Next ==
    \/ \E t \in Table : Commit(t) \/ Act(t) \/ Foreign(t)
    \/ Record \/ Notify \/ Sample
    \/ \E q \in Query : Read(q) \/ Post(q) \/ Fail(q) \/ RetryDue(q) \/ Retry(q) \/ Ask(q)
    \/ Outside \/ Frame \/ Draw

Spec == Init /\ [][Next]_vars

Fairness ==
    /\ WF_vars(Record) /\ WF_vars(Notify) /\ WF_vars(Sample)
    /\ WF_vars(Outside) /\ WF_vars(Frame) /\ WF_vars(Draw)
    /\ \A q \in Query : WF_vars(Read(q)) /\ WF_vars(Post(q)) /\ WF_vars(RetryDue(q)) /\ WF_vars(Retry(q))
FairSpec == Spec /\ Fairness

----------------------------------------------------------------------------

(* A foreign commit that no poll has counted yet: unsampled, or sampled and *)
(* in the inbox.                                                            *)
Unnoticed ==
    \/ ~foreign.sampled \/ foreign.last # foreign.made
    \/ \E i \in DOMAIN inbox : inbox[i].kind = "external"

Unrecorded(t) == writer # Nothing /\ writer.table = t /\ ~writer.recorded

(* Rows taken for current are current: whatever commits between the stamp,  *)
(* the read and the day the rows are published, an older snapshot never     *)
(* bears a newer stamp.  All that is not known yet is a commit whose clock  *)
(* the writer is about to move and a foreign one about to be noticed.       *)
CurrentIsCurrent ==
    \A q \in Query : Current(q, Here) =>
        \A t \in Reads[q] : cache[q].rows[t] = data[t] \/ Unrecorded(t) \/ Unnoticed

(* A query that is pending has one answer on its way, and no other has:     *)
(* answers to one query cannot overtake each other, and none waits for an   *)
(* answer that was already taken.                                           *)
Answers(q) ==
    Cardinality({i \in DOMAIN inbox : inbox[i].kind \in {"rows", "error"} /\ inbox[i].query = q})
OneAnswer ==
    \A q \in Query :
        Answers(q) + (IF flights[q] # Nothing THEN 1 ELSE 0) = IF q \in pending THEN 1 ELSE 0

(* When nothing commits any more, the screen comes to show what the tables  *)
(* hold, whatever was read meanwhile, failed or had to wait for a retry.    *)
Right ==
    \A i \in DOMAIN Panels : \A n \in DOMAIN screen[i] :
        screen[i][n] = RowsNow(Panels[i].queries[n])
ScreenSettles == <>[]Right

(* A draw shows one page: reads of one query in one scope agree, whatever   *)
(* answer came between them.                                                *)
OnePage ==
    at = Nothing =>
        \A i \in DOMAIN Panels : Panels[i].scoped =>
            \A m, n \in DOMAIN screen[i] :
                Panels[i].queries[m] = Panels[i].queries[n] => screen[i][m] = screen[i][n]

----------------------------------------------------------------------------
(* What these rest on.                                                      *)

Gens(q) == [Reads[q] -> Nat]
Cached(q) == [gens : Gens(q), rows : Gens(q)]
Flight(q) == [gens : Gens(q), rows : Gens(q) \union {Nothing}]
Failure(q) == [gens : Gens(q) \union {<<>>}, nth : Nat, due : BOOLEAN]
Posted(e) ==
    \/ e \in [kind : {"external", "retry"}]
    \/ \E q \in Query :
          \/ e \in [kind : {"rows"}, query : {q}, gens : Gens(q), rows : Gens(q)]
          \/ e \in [kind : {"error"}, query : {q}, gens : Gens(q) \union {<<>>}, nth : Nat]
Place(p) ==
    \/ p = Nothing
    \/ \E i \in DOMAIN Panels : \E n \in DOMAIN Panels[i].queries : p = [panel |-> i, nth |-> n]

(* Every variable has its type.                                             *)
TypeOK ==
    /\ data \in [Table -> Nat] /\ clock \in [Table -> Nat]
    /\ serial \in Nat /\ seen \in Nat /\ external \in Nat /\ events \in Nat
    /\ writer \in {Nothing} \union [table : Table, recorded : BOOLEAN]
    /\ foreign \in [made : Nat, sampled : BOOLEAN, last : Nat]
    /\ DOMAIN cache = Query /\ DOMAIN failures = Query /\ DOMAIN flights = Query
    /\ \A q \in Query :
          /\ cache[q] \in {Nothing} \union Cached(q)
          /\ failures[q] \in {Nothing} \union Failure(q)
          /\ flights[q] \in {Nothing} \union Flight(q)
    /\ pending \subseteq Query
    /\ timers \subseteq Query \X Nat
    /\ inbox \in Seq({inbox[i] : i \in DOMAIN inbox})
    /\ \A i \in DOMAIN inbox : Posted(inbox[i])
    /\ signal \in BOOLEAN /\ dirty \in BOOLEAN
    /\ Place(at)
    /\ DOMAIN screen = DOMAIN Panels
    /\ \A i \in DOMAIN Panels : DOMAIN screen[i] = DOMAIN Panels[i].queries

(* A stamp of the tables q reads that is not ahead of the clocks, and with  *)
(* it rows that are the tables' if it is not behind them.                   *)
Stamped(q, gens) ==
    DOMAIN gens = Reads[q] /\ \A t \in Reads[q] : gens[t] <= GenOf(t, external)
Honest(q, gens, rows) ==
    /\ Stamped(q, gens)
    /\ \A t \in Reads[q] : gens[t] = GenOf(t, external) =>
            rows[t] = data[t] \/ Unrecorded(t) \/ Unnoticed

(* Wherever rows are -- read, posted or published -- they are no older than *)
(* their stamp.                                                             *)
StampsHonest ==
    /\ foreign.last <= foreign.made
    /\ \A q \in Query :
          /\ cache[q] # Nothing => Honest(q, cache[q].gens, cache[q].rows)
          /\ flights[q] # Nothing =>
                /\ Stamped(q, flights[q].gens)
                /\ flights[q].rows # Nothing => Honest(q, flights[q].gens, flights[q].rows)
    /\ \A i \in DOMAIN inbox : inbox[i].kind = "rows" =>
          Honest(inbox[i].query, inbox[i].gens, inbox[i].rows)

(* OneAnswer, answer by answer.                                             *)
AnswersAt(i, q) == inbox[i].kind \in {"rows", "error"} /\ inbox[i].query = q
Awaited ==
    \A q \in Query :
        /\ q \in pending <=> flights[q] # Nothing \/ \E i \in DOMAIN inbox : AnswersAt(i, q)
        /\ flights[q] # Nothing => \A i \in DOMAIN inbox : ~AnswersAt(i, q)
        /\ \A i, j \in DOMAIN inbox : AnswersAt(i, q) /\ AnswersAt(j, q) => i = j

(* What a scope has drawn so far is what the cache still has, and every     *)
(* other scope is as its draw left it.                                      *)
CacheShows(q) == IF cache[q] = Nothing THEN Nothing ELSE cache[q].rows
PageSoFar ==
    \A i \in DOMAIN Panels : Panels[i].scoped =>
        IF at # Nothing /\ at.panel = i
        THEN \A n \in 1..(at.nth - 1) : screen[i][n] = CacheShows(Panels[i].queries[n])
        ELSE \A m, n \in DOMAIN screen[i] :
                Panels[i].queries[m] = Panels[i].queries[n] => screen[i][m] = screen[i][n]

QueriesInv == TypeOK /\ StampsHonest /\ Awaited /\ PageSoFar
=============================================================================
