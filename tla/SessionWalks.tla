----------------------------- MODULE SessionWalks -----------------------------
(***************************************************************************)
(* The one thread that owns a session, and what comes back to it: edits     *)
(* from the writer, work prepared elsewhere, history walks and what the     *)
(* workers finished (kernel/src/session.rs, session/edits.rs, work.rs,      *)
(* walks.rs, shutdown.rs; the opening of a panel in nav.rs).                *)
(*                                                                         *)
(* A walk takes the tree away with it, and what a person asks meanwhile     *)
(* queues.  The claims of an operation are one thing, and `world` is the    *)
(* set of operations whose data stand.  What a walk does to a tree whose    *)
(* claims fail is History's; here they go.                                  *)
(***************************************************************************)
EXTENDS Naturals, Sequences, FiniteSets, SequencesExt

CONSTANTS
    MaxOps,       \* bound: the operations of one run, walks among them
    MaxWork,      \* bound: the preparations among them
    MaxPublished, \* bound: what the workers finish for the session
    Serial,       \* whether preparations take the one permit of registrations()
    Faults        \* what may go wrong: "refused" writes, a walk that "dies"

ASSUME SessionAssumption ==
    /\ {MaxOps, MaxWork, MaxPublished} \subseteq Nat
    /\ Serial \in BOOLEAN /\ Faults \subseteq {"refused", "dies"}

VARIABLES
    tree,        \* Session.history
    walk,        \* Session.walk, with the tree it has, or NoWalk
    commands,    \* Session.commands
    edits,       \* Session.edits, in the order the writer has them
    preparations, \* Session.preparations, oldest first
    published,   \* what workers have finished for the session, not yet polled
    world,       \* the operations whose data stand
    shutdown,    \* Session.shutdown
    at,          \* where a settle has come to, or "idle"
    ops,         \* the operations handed out
    forgotten    \* ghost: operations whose node went with a walk that died

vars == <<tree, walk, commands, edits, preparations, published, world, shutdown,
          at, ops, forgotten>>

Op == 1 .. MaxOps

----------------------------------------------------------------------------
(* The tree: nodes in the order they were recorded, each under a head.      *)

Bare == [nodes |-> <<>>, head |-> 0]

(* History::apply: a node under the head, and the head moves to it. *)
Recorded(t, op, claims) ==
    [nodes |-> Append(t.nodes, [op |-> op, parent |-> t.head, applied |-> TRUE,
                                claims |-> claims]),
     head |-> Len(t.nodes) + 1]

(* claim_at: nothing, where the node is gone. *)
ClaimedAt(t, n) ==
    IF n \in DOMAIN t.nodes THEN [t EXCEPT !.nodes[n].claims = TRUE] ELSE t

Redoable(t) == {n \in DOMAIN t.nodes : t.nodes[n].parent = t.head /\ ~t.nodes[n].applied}

CanWalk(t, way) == IF way = "undo" THEN t.head # 0 ELSE Redoable(t) # {}

Walked(t, way) ==
    IF way = "undo"
    THEN [nodes |-> [t.nodes EXCEPT ![t.head].applied = FALSE],
          head |-> t.nodes[t.head].parent]
    ELSE LET n == CHOOSE n \in Redoable(t) : \A m \in Redoable(t) : m <= n
         IN  [nodes |-> [t.nodes EXCEPT ![n].applied = TRUE], head |-> n]

(* The data after a walk between two trees: what each node claims of it. *)
Reversed(data, from, to) ==
    LET moved(applied) == {to.nodes[n].op : n \in {m \in DOMAIN to.nodes :
            /\ to.nodes[m].claims /\ to.nodes[m].applied = applied
            /\ from.nodes[m].applied # applied}}
    IN  (data \ moved(FALSE)) \union moved(TRUE)

NoWalk == [stage |-> "none"]

----------------------------------------------------------------------------
(* Jobs in the writer's hands.                                              *)

Job(what, op, node) == [what |-> what, op |-> op, node |-> node, answer |-> "none"]

(* The accepted writes the session waits for, with one more. *)
Submitted(what, op, node) == Append(edits, Job(what, op, node))

Holders ==
    IF ~Serial THEN {}
    ELSE {p \in ToSet(preparations) : p.stage # "waiting"}
         \union {c \in ToSet(commands) : c.what = "registered"}
         \union {e \in ToSet(edits) : e.what = "registered"}

Pending == walk # NoWalk

-----------------------------------------------------------------------------
(* What an operation does when it is not queued.                            *)

(* act_async_result. *)
Edit(what, op) == edits' = Submitted(what, op, 0) /\ UNCHANGED tree

(* open_into where the UI is attached: an immediate action, its layout
   written behind it, and its claims attached once they are committed. *)
Open(op) ==
    LET t == Recorded(tree, op, FALSE) IN
    /\ tree' = t
    /\ edits' = edits \o <<Job("layout", op, 0), Job("claims", op, t.head)>>

(* As a plausible mistake: only another walk is waited for. *)
BeginUnbarred(way, rest, op) ==
    LET ready == [i \in DOMAIN published |-> Job("edit", published[i], 0)] IN
    /\ published' = <<>> /\ edits' = edits \o ready
    /\ IF CanWalk(tree, way)
       THEN walk' = [stage |-> "going", way |-> way, tree |-> tree]
            /\ tree' = Bare /\ commands' = rest
       ELSE UNCHANGED <<walk, tree>> /\ commands' = rest

(* begin_walk with no walk pending: what the apps hold is polled first, and
   behind anything unfinished the walk queues itself, last. *)
Begin(way, rest, op) ==
    LET ready == [i \in DOMAIN published |-> Job("edit", published[i], 0)] IN
    /\ published' = <<>> /\ edits' = edits \o ready
    /\ IF edits' # <<>> \/ preparations # <<>>
       THEN commands' = Append(rest, [what |-> way, op |-> op]) /\ UNCHANGED <<walk, tree>>
       ELSE /\ commands' = rest
            /\ IF CanWalk(tree, way)
               THEN walk' = [stage |-> "going", way |-> way, tree |-> tree] /\ tree' = Bare
               ELSE UNCHANGED <<walk, tree>>

Walks == {"undo", "redo"}

(* One operation, with the commands that are behind it. *)
Do(what, op, rest) ==
    IF what \in Walks
    THEN Begin(what, rest, op)
    ELSE /\ commands' = rest /\ UNCHANGED <<walk, published>>
         /\ IF what = "open" THEN Open(op) ELSE Edit(what, op)

(* Any of them asked for while a walk is pending is queued. *)
Ask(what, op) ==
    IF Pending
    THEN commands' = Append(commands, [what |-> what, op |-> op])
         /\ UNCHANGED <<walk, tree, edits, published>>
    ELSE Do(what, op, commands)

-----------------------------------------------------------------------------
(* The person.                                                              *)

Free == at = "idle" /\ shutdown = "running"

Press(what) ==
    /\ Free /\ ops < MaxOps /\ ops' = ops + 1
    /\ Ask(what, ops + 1)
    /\ UNCHANGED <<preparations, world, shutdown, at, forgotten>>

(* prepare_work is not held back by a walk. *)
Prepare ==
    /\ Free /\ ops < MaxOps /\ ops' = ops + 1
    /\ Len(preparations) < MaxWork
    /\ preparations' = Append(preparations, [op |-> ops + 1, stage |-> "waiting"])
    /\ UNCHANGED <<tree, walk, commands, edits, published, world, shutdown, at, forgotten>>

(* begin_shutdown; the settle of the first poll_shutdown follows. *)
Quit ==
    /\ Free
    /\ shutdown' = "draining" /\ at' = "work"
    /\ UNCHANGED <<tree, walk, commands, edits, preparations, published, world, ops, forgotten>>

-----------------------------------------------------------------------------
(* Elsewhere.                                                               *)

(* The writer takes the oldest job and answers it. *)
Commit ==
    \E i \in DOMAIN edits :
        /\ edits[i].answer = "none" /\ \A j \in 1 .. i - 1 : edits[j].answer # "none"
        /\ \E answer \in {"ok"} \union (Faults \intersect {"refused"}) :
              /\ edits' = [edits EXCEPT ![i].answer = answer]
              /\ world' = IF answer = "ok" /\ edits[i].what # "layout"
                          THEN world \union {edits[i].op} ELSE world
        /\ UNCHANGED <<tree, walk, commands, preparations, published, shutdown, at, ops, forgotten>>

(* A preparation goes ahead: past the permit, and then to its end. *)
Work ==
    \E i \in DOMAIN preparations :
        /\ \/ preparations[i].stage = "waiting" /\ Holders = {}
              /\ preparations' = [preparations EXCEPT ![i].stage = "working"]
           \/ preparations[i].stage = "working"
              /\ preparations' = [preparations EXCEPT ![i].stage = "ready"]
        /\ UNCHANGED <<tree, walk, commands, edits, published, world, shutdown, at, ops, forgotten>>

(* The walk has run. *)
RunWalk ==
    /\ walk.stage = "going"
    /\ LET t == Walked(walk.tree, walk.way) IN
       /\ walk' = [walk EXCEPT !.stage = "back", !.tree = t]
       /\ world' = Reversed(world, walk.tree, t)
    /\ UNCHANGED <<tree, commands, edits, preparations, published, shutdown, at, ops, forgotten>>

(* An app's flush panics before it: the task goes, and the tree with it. *)
Die ==
    /\ "dies" \in Faults /\ walk.stage = "going"
    /\ walk' = [walk EXCEPT !.stage = "lost"]
    /\ forgotten' = forgotten \union {n.op : n \in ToSet(walk.tree.nodes)}
    /\ UNCHANGED <<tree, commands, edits, preparations, published, world, shutdown, at, ops>>

Retired == shutdown \in {"draining again", "flushing again", "closing", "complete"}

(* A worker has something for the session. *)
Publish ==
    /\ ~Retired /\ Len(published) < MaxPublished /\ ops < MaxOps
    /\ ops' = ops + 1 /\ published' = Append(published, ops + 1)
    /\ UNCHANGED <<tree, walk, commands, edits, preparations, world, shutdown, at, forgotten>>

-----------------------------------------------------------------------------
(* Settle: work, edits, the walk, commands, apps, in that order.            *)

Kept == UNCHANGED <<ops, world, forgotten, shutdown>>
Left == UNCHANGED <<tree, walk, commands, edits, preparations, published>>

CanCommand == ~Pending /\ edits = <<>> /\ preparations = <<>> /\ commands # <<>>

ReadyWork == {i \in DOMAIN preparations : preparations[i].stage = "ready"}
ReadyEdit == edits # <<>> /\ edits[1].answer # "none"
ReadyWalk == walk.stage \in {"back", "lost"}

(* A settle begins when something has woken the UI. *)
Wake ==
    /\ at = "idle" /\ shutdown \in {"running", "draining", "draining again"}
    /\ ReadyWork # {} \/ ReadyEdit \/ ReadyWalk \/ CanCommand \/ published # <<>>
    /\ at' = "work"
    /\ Left /\ Kept

(* poll_work: what is ready completes, oldest first, and submits its edit. *)
PollWork ==
    /\ at = "work"
    /\ IF ReadyWork # {}
       THEN LET i == CHOOSE i \in ReadyWork : \A j \in ReadyWork : i <= j IN
            /\ preparations' = RemoveAt(preparations, i)
            /\ Ask("registered", preparations[i].op)
            /\ UNCHANGED at
       ELSE at' = "edits" /\ Left
    /\ Kept

(* The completion of an edit: its node, or its claims on the node it opened. *)
Finish(e) ==
    tree' = IF e.answer # "ok" \/ e.what = "layout" THEN tree
            ELSE IF e.what = "claims" THEN ClaimedAt(tree, e.node)
            ELSE Recorded(tree, e.op, TRUE)

PollEdits ==
    /\ at = "edits"
    /\ IF ReadyEdit
       THEN /\ Finish(edits[1]) /\ edits' = Tail(edits)
            /\ UNCHANGED <<walk, commands, preparations, published, at>>
       ELSE at' = "walk" /\ Left
    /\ Kept

(* As a plausible mistake: a task that went away is still waited for. *)
PollWalkPatient ==
    /\ at = "walk" /\ at' = "commands"
    /\ IF walk.stage = "back"
       THEN walk' = NoWalk /\ tree' = walk.tree
            /\ UNCHANGED <<commands, edits, preparations, published>>
       ELSE Left
    /\ Kept

(* poll_walk: the tree comes back, or its task is gone and a bare one stays. *)
PollWalk ==
    /\ at = "walk" /\ at' = "commands"
    /\ IF ReadyWalk
       THEN /\ walk' = NoWalk
            /\ tree' = IF walk.stage = "back" THEN walk.tree ELSE tree
            /\ UNCHANGED <<commands, edits, preparations, published>>
       ELSE Left
    /\ Kept

PollCommands ==
    /\ at = "commands"
    /\ IF CanCommand
       THEN Do(commands[1].what, commands[1].op, Tail(commands))
            /\ UNCHANGED <<preparations, at>>
       ELSE at' = "apps" /\ Left
    /\ Kept

Drained ==
    /\ ~Pending /\ commands = <<>> /\ edits = <<>> /\ preparations = <<>>

(* poll_apps, each thing an edit; and the lifecycle looks when it is done. *)
PollApps ==
    /\ at = "apps"
    /\ IF published # <<>>
       THEN /\ published' = Tail(published)
            /\ IF Pending
               THEN commands' = Append(commands, [what |-> "edit", op |-> published[1]])
                    /\ UNCHANGED edits
               ELSE edits' = Submitted("edit", published[1], 0) /\ UNCHANGED commands
            /\ UNCHANGED <<tree, walk, preparations, at, shutdown>>
       ELSE /\ at' = "idle" /\ Left
            /\ shutdown' = IF ~Drained THEN shutdown
                           ELSE CASE shutdown = "draining" -> "flushing"
                                  [] shutdown = "draining again" -> "flushing again"
                                  [] OTHER -> shutdown
    /\ UNCHANGED <<ops, world, forgotten>>

(* As a plausible mistake: retired workers have nothing more to say. *)
AdvanceOnce ==
    /\ shutdown \in {"flushing", "retiring", "closing"}
    /\ shutdown' = CASE shutdown = "flushing" -> "retiring"
                     [] shutdown = "retiring" -> "closing"
                     [] shutdown = "closing" -> "complete"
    /\ UNCHANGED <<at, tree, walk, commands, edits, preparations, published, world, ops, forgotten>>

(* A background half of shutdown is done; after the workers, drain again. *)
Advance ==
    /\ shutdown \in {"flushing", "retiring", "flushing again", "closing"}
    /\ shutdown' = CASE shutdown = "flushing" -> "retiring"
                     [] shutdown = "retiring" -> "draining again"
                     [] shutdown = "flushing again" -> "closing"
                     [] shutdown = "closing" -> "complete"
    /\ at' = IF shutdown = "retiring" THEN "work" ELSE at
    /\ UNCHANGED <<tree, walk, commands, edits, preparations, published, world, ops, forgotten>>

-----------------------------------------------------------------------------
Init ==
    /\ tree = Bare /\ walk = NoWalk /\ commands = <<>> /\ edits = <<>>
    /\ preparations = <<>> /\ published = <<>> /\ world = {} /\ forgotten = {}
    /\ shutdown = "running" /\ at = "idle" /\ ops = 0

Settle == Wake \/ PollWork \/ PollEdits \/ PollWalk \/ PollCommands \/ PollApps

Next ==
    \/ \E what \in Walks \union {"edit", "open"} : Press(what)
    \/ Prepare \/ Quit
    \/ Commit \/ Work \/ RunWalk \/ Die \/ Publish
    \/ Settle \/ Advance

Spec == Init /\ [][Next]_vars

(* The writer, the pools and the services go on, and every completion wakes
   the UI; nobody has to press anything, nor to publish. *)
Fairness ==
    /\ WF_vars(Commit) /\ WF_vars(Work) /\ WF_vars(RunWalk \/ Die)
    /\ WF_vars(Settle) /\ WF_vars(Advance)

FairSpec == Spec /\ Fairness

-----------------------------------------------------------------------------
(* Every variable has its type; in a tree the head is at an applied node, or at
   the root, and every node hangs from an older one. *)
Node == [op : Op, parent : Nat, applied : BOOLEAN, claims : BOOLEAN]
Tree(t) ==
    /\ t \in [nodes : Seq(Node), head : Nat]
    /\ t.head # 0 => t.head \in DOMAIN t.nodes /\ t.nodes[t.head].applied
    /\ \A n \in DOMAIN t.nodes : t.nodes[n].parent < n
Walking(w) ==
    /\ DOMAIN w = {"stage", "way", "tree"}
    /\ w.stage \in {"going", "back", "lost"} /\ w.way \in Walks /\ Tree(w.tree)
Command == [what : Walks \union {"edit", "open", "registered"}, op : Op]
Write == [what : {"edit", "registered", "layout", "claims"}, op : Op,
          node : Nat, answer : {"none", "ok", "refused"}]
Preparation == [op : Op, stage : {"waiting", "working", "ready"}]
TypeOK ==
    /\ Tree(tree) /\ (Pending => Walking(walk))
    /\ commands \in Seq(Command) /\ edits \in Seq(Write)
    /\ preparations \in Seq(Preparation)
    /\ published \in Seq(Op) /\ world \subseteq Op /\ forgotten \subseteq Op
    /\ at \in {"idle", "work", "edits", "walk", "commands", "apps"}
    /\ shutdown \in {"running", "draining", "flushing", "retiring", "draining again",
                     "flushing again", "closing", "complete"}
    /\ ops \in 0 .. MaxOps

(* The tree, wherever it is: with the session, or with the walk. *)
TheTree == IF Pending /\ walk.stage # "lost" THEN walk.tree ELSE tree

(* The tree tells what stands.  A node that has its claims is applied exactly
   if their data are in the store, and what is in the store has such a node, or
   its answer is still on its way to the session, or went with a walk that
   died.  An edit recorded while a walk has the tree, and an opening's claims
   that land on a node undone in the meantime, would each break it. *)
TreeTellsWorld ==
    LET nodes == ToSet(TheTree.nodes) IN
    /\ \A n \in nodes : n.claims => (n.applied <=> n.op \in world)
    /\ \A op \in world \ forgotten :
          \/ \E n \in nodes : n.op = op /\ n.claims
          \/ \E e \in ToSet(edits) : e.op = op /\ e.what # "layout" /\ e.answer = "ok"

(* What was accepted is done before the store closes: nothing a person, a
   worker or a preparation handed to the session is left when the shutdown
   reaches its last halves, workers that finished late included. *)
ClosedIsDrained ==
    shutdown \in {"closing", "complete"} => Drained /\ published = <<>> /\ at = "idle"

(* Whatever was accepted settles: the queues empty for good, and a shutdown
   that has begun is completed. *)
Settles ==
    /\ <>[](Drained /\ published = <<>>)
    /\ shutdown = "draining" ~> shutdown = "complete"

(* A walk that was accepted goes before what is asked for after it: no edit
   reaches the writer while an older walk still waits among the commands. *)
LaterWaits ==
    [][\A op \in {e.op : e \in ToSet(edits')} \ {e.op : e \in ToSet(edits)} :
          ~ \E c \in ToSet(commands') : c.what \in Walks /\ c.op < op]_vars
-----------------------------------------------------------------------------
(* What these rest on.                                                      *)

(* The applied nodes of a tree are one path, from the root to the head.     *)
OnePath(t) ==
    \A n \in DOMAIN t.nodes : t.nodes[n].applied =>
        /\ t.nodes[n].parent # 0 => t.nodes[t.nodes[n].parent].applied
        /\ t.nodes[n].parent # t.head
        /\ \A m \in DOMAIN t.nodes :
              t.nodes[m].applied /\ t.nodes[m].parent = t.nodes[n].parent => m = n
Paths == OnePath(tree) /\ (Pending => OnePath(walk.tree))

(* While a walk has the tree, the session keeps a bare one and has no write
   that could name a node; and a walk that goes has somewhere to go. *)
WalkAlone ==
    Pending => /\ tree = Bare /\ edits = <<>>
               /\ walk.stage = "going" => CanWalk(walk.tree, walk.way)

(* An operation that is still to be done is in one place and nowhere else. *)
OpsIn(s) == {s[i].op : i \in DOMAIN s}
Alone(s) == \A i, j \in DOMAIN s : s[i].op = s[j].op => i = j
Known == OpsIn(TheTree.nodes) \union OpsIn(edits) \union world \union forgotten
OnePlace ==
    /\ Alone(commands) /\ Alone(preparations)
    /\ \A i, j \in DOMAIN published : published[i] = published[j] => i = j
    /\ OpsIn(commands) \intersect OpsIn(preparations) = {}
    /\ OpsIn(commands) \intersect ToSet(published) = {}
    /\ OpsIn(preparations) \intersect ToSet(published) = {}
    /\ (OpsIn(commands) \union OpsIn(preparations) \union ToSet(published)) \intersect Known = {}
    /\ OpsIn(commands) \union OpsIn(preparations) \union ToSet(published) \union Known \subseteq 1 .. ops

(* A write is the only one of its operation; it has been answered well exactly if
   its data stand, and its node is there already exactly if it only has to be
   claimed. *)
IsWrite(e) == e.what # "layout"
Claimable(e, t) ==
    /\ e.node \in DOMAIN t.nodes /\ t.nodes[e.node].op = e.op
    /\ t.nodes[e.node].applied /\ ~t.nodes[e.node].claims
OneWrite ==
    /\ Alone(TheTree.nodes)
    /\ \A i, j \in DOMAIN edits :
          IsWrite(edits[i]) /\ IsWrite(edits[j]) /\ edits[i].op = edits[j].op => i = j
    /\ \A i \in DOMAIN edits : IsWrite(edits[i]) =>
          /\ edits[i].answer = "ok" <=> edits[i].op \in world
          /\ IF edits[i].what = "claims" THEN Claimable(edits[i], TheTree)
             ELSE edits[i].op \notin OpsIn(TheTree.nodes)

(* ClosedIsDrained from where the second drain has ended. *)
LastHalves ==
    shutdown \in {"flushing again", "closing", "complete"} =>
        Drained /\ published = <<>> /\ at = "idle"

SessionInv == TypeOK /\ Paths /\ WalkAlone /\ OnePlace /\ OneWrite /\ TreeTellsWorld /\ LastHalves
=============================================================================
