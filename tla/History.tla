------------------------------- MODULE History -------------------------------
(***************************************************************************)
(* The in-memory undo and redo tree of a session, kernel/src/history.rs,   *)
(* and the three walks session/walks.rs runs over it.                      *)
(*                                                                         *)
(* A node is one action: its parent, its state, the layouts before and     *)
(* after it, the second it was recorded.  Layouts are numbers: every       *)
(* action makes a fresh one.  A node's claims on the world are one thing   *)
(* here, and how they take a reversal or a re-application is the world's   *)
(* choice among Fates: they go ("clean"), they are no longer reversible    *)
(* and say so beforehand ("refuses", Intent::blocked), they fail half way  *)
(* ("breaks", an Err), or the code under them panics ("panics").           *)
(*                                                                         *)
(* Nothing else runs while a walk has the tree (commands queue behind it), *)
(* so an undo and a redo are one step; a travel is one step per node, for  *)
(* what its legs leave behind when one of them goes wrong.                 *)
(***************************************************************************)
EXTENDS Integers, Sequences, FiniteSets

CONSTANTS Keep,      \* KEEP, the nodes a tree remembers
          MaxNode,   \* bound: the ids one run hands out
          MaxActs,   \* bound: the actions one run records
          MaxTorn,   \* bound: the claims of a tree that have gone half way
          Fates,     \* what the world may answer a walk
          Travels    \* whether the overlay is used

ASSUME HistoryAssumption ==
    /\ Keep \in Nat \ {0} /\ {MaxNode, MaxActs, MaxTorn} \subseteq Nat
    /\ Fates \subseteq {"clean", "refuses", "breaks", "panics"}
    /\ Travels \in BOOLEAN

VARIABLES nodes,    \* History.nodes
          head,     \* History.head, 0 the root
          next,     \* History.next
          acts,     \* the clock, one second an action, and the layouts made
          layout,   \* the layout on the screen
          given,    \* ghost: how often each node's claims stand in the world,
                    \* once too often or too seldom being as far as it counts
          torn,     \* ghost: the nodes whose claims went only half way, each with
                    \* whether they failed or panicked
          leg,      \* the travel under way; `shared` is a ghost, the nodes of both
                    \* branches when it began
          strayed   \* ghost: a travel's way up has gone past the meeting place

vars == <<nodes, head, next, acts, layout, given, torn, leg, strayed>>

Ids     == 1 .. MaxNode
Layouts == 0 .. MaxActs
Idle    == [phase |-> "idle"]

Node == [parent : Ids \cup {0}, state : {"applied", "undone", "expired"},
         before : Layouts, after : Layouts, ts : Layouts]

IsNode(n)  == n \in DOMAIN nodes
State(n)   == nodes[n].state
Parent(n)  == nodes[n].parent

Lowest(S)  == CHOOSE n \in S : \A m \in S : n <= m
Highest(S) == CHOOSE n \in S : \A m \in S : n >= m

(* What stands under from in a tree of which above is the parents, the root left
   out: the node and its ancestors, nearest first. *)
Line(above, from) ==
    LET up[n \in 0 .. MaxNode] ==
            IF n \in DOMAIN above THEN <<n>> \o up[above[n]] ELSE <<>>
    IN  up[from]

Above == [n \in DOMAIN nodes |-> Parent(n)]

Chain(from) == Line(Above, from)

Path(from) == LET c == Chain(from) IN {c[i] : i \in DOMAIN c}

Init ==
    /\ nodes = <<>> /\ head = 0 /\ next = 1 /\ acts = 0 /\ layout = 0
    /\ given = <<>> /\ torn = {} /\ leg = Idle /\ strayed = FALSE

-----------------------------------------------------------------------------
(* Recording. *)

(* trim: the lowest ids fall off and their children hang from the root. *)
Trim(tree) ==
    LET over == Cardinality(DOMAIN tree) - Keep
        gone == {n \in DOMAIN tree :
                    Cardinality({m \in DOMAIN tree : m < n}) < over}
    IN  [n \in DOMAIN tree \ gone |->
            [tree[n] EXCEPT !.parent = IF @ \in gone THEN 0 ELSE @]]

(* apply, and amend where it falls back to it: a leaf under the cursor. *)
Grow ==
    /\ leg = Idle /\ next \in Ids /\ acts < MaxActs
    /\ acts' = acts + 1 /\ layout' = acts + 1
    /\ nodes' = Trim([n \in DOMAIN nodes \cup {next} |->
                        IF n = next
                        THEN [parent |-> head, state |-> "applied", before |-> layout,
                              after |-> acts + 1, ts |-> acts + 1]
                        ELSE nodes[n]])
    /\ head' = next /\ next' = next + 1
    /\ given' = [n \in DOMAIN nodes' |-> IF n = next THEN 1 ELSE given[n]]
    /\ torn' = {t \in torn : t[1] \in DOMAIN nodes'}
    /\ UNCHANGED <<leg, strayed>>

(* apply inside COALESCE_S of a head of the same kind and entity, and amend:
   the head takes the new `after`, the new time and the new claims. *)
Fold ==
    /\ leg = Idle /\ acts < MaxActs
    /\ IsNode(head) /\ State(head) = "applied"
    /\ acts' = acts + 1 /\ layout' = acts + 1
    /\ nodes' = [nodes EXCEPT ![head].after = acts + 1, ![head].ts = acts + 1]
    /\ UNCHANGED <<head, next, given, torn, leg, strayed>>

-----------------------------------------------------------------------------
(* Walking. *)

(* A tree in which the nodes S are in state s. *)
Marked(S, s) == [n \in DOMAIN nodes |->
                    IF n \in S THEN [nodes[n] EXCEPT !.state = s] ELSE nodes[n]]

(* As a plausible mistake: the cursor moves whatever the claims answered. *)
LeftAnyway(how, s) == s

(* The state a node is left in by claims that went as `how`. *)
Left(how, s) == IF how = "breaks" THEN "expired" ELSE s

(* The world's answer to the claims of n, by of them. *)
Answer(n, by, how) ==
    /\ given' = IF how = "clean" /\ given[n] + by \in -1 .. 2
                THEN [given EXCEPT ![n] = @ + by] ELSE given
    /\ torn' = IF how = "clean" THEN torn ELSE torn \cup {<<n, how>>}
    /\ Cardinality(torn') <= MaxTorn

(* What undo walks past: nodes expired already, and nodes that refuse now. *)
Passed(c, k) ==
    /\ \A i \in 1 .. k - 1 : State(c[i]) = "expired" \/ "refuses" \in Fates
    /\ k <= Len(c) => State(c[k]) # "expired"

(* As a plausible mistake: what refuses is passed and not marked. *)
GiveBackUnmarked(k, how) ==
    LET n == Chain(head)[k]
    IN  /\ Passed(Chain(head), k)
        /\ Answer(n, -1, how)
        /\ nodes' = [nodes EXCEPT ![n].state =
                        IF how = "panics" THEN "expired" ELSE Left(how, "undone")]
        /\ head' = IF how = "panics" THEN n ELSE Parent(n)

(* History::undo: the k-th node up from the cursor gives back its claims.
   A panic leaves the cursor on it, and expire_current expires it there. *)
GiveBack(k, how) ==
    LET c == Chain(head)
        n == c[k]
        tree == Marked({c[i] : i \in 1 .. k - 1}, "expired")
    IN  /\ Passed(c, k)
        /\ Answer(n, -1, how)
        /\ nodes' = [tree EXCEPT ![n].state =
                        IF how = "panics" THEN "expired" ELSE Left(how, "undone")]
        /\ head' = IF how = "panics" THEN n ELSE Parent(n)

(* History::undo when nothing up to the root will go back. *)
GiveUp ==
    LET c == Chain(head) IN
    /\ Passed(c, Len(c) + 1)
    /\ nodes' = Marked(Path(head), "expired")
    /\ head' = 0
    /\ UNCHANGED <<given, torn>>

Outcomes == Fates \ {"refuses"}

CanUndo == \E n \in Path(head) : State(n) # "expired"

(* An undo from the keyboard.  Only a step that came back restores a layout. *)
Undo ==
    /\ leg = Idle /\ CanUndo
    /\ \/ \E k \in 1 .. Len(Chain(head)), how \in Outcomes :
              /\ GiveBack(k, how)
              /\ layout' = IF how = "panics" THEN layout
                           ELSE nodes[Chain(head)[k]].before
       \/ GiveUp /\ UNCHANGED layout
    /\ UNCHANGED <<next, acts, leg, strayed>>

(* As a plausible mistake: an expired child is one more to redo. *)
ChildrenNotApplied(n) ==
    {m \in DOMAIN nodes : Parent(m) = n /\ State(m) # "applied"}

UndoneChildren(n) == {m \in DOMAIN nodes : Parent(m) = n /\ State(m) = "undone"}

(* expire_current, where the cursor stands: for a re-application that
   panicked that is the node above the one it was on. *)
ExpireCurrent == nodes' = Marked({head}, "expired")

(* The claims of n are made again: redo, and a travel's way down. *)
MakeAgain(n, how) ==
    /\ Answer(n, 1, how)
    /\ IF how = "panics"
       THEN ExpireCurrent /\ UNCHANGED head
       ELSE /\ nodes' = Marked({n}, Left(how, "applied"))
            /\ head' = n

Redo ==
    /\ leg = Idle /\ UndoneChildren(head) # {}
    /\ \E how \in Outcomes :
          LET n == Highest(UndoneChildren(head)) IN
          /\ MakeAgain(n, how)
          /\ layout' = IF how = "panics" THEN layout ELSE nodes[n].after
    /\ UNCHANGED <<next, acts, leg, strayed>>

-----------------------------------------------------------------------------
(* Travelling: up to the lowest common ancestor, down the target's branch. *)

(* As a plausible mistake: every travel goes by way of the beginning. *)
MeetAtRoot(to) == 0

(* The lowest common ancestor of the cursor and a target. *)
Meet(to) == LET S == Path(head) \cap Path(to)
            IN  IF S = {} THEN 0 ELSE Highest(S)

(* The target's branch below the meeting place, from the top. *)
Branch(to, top) ==
    LET c == Chain(to)
        d == Cardinality(Path(to) \ Path(top))
    IN  [i \in 1 .. d |-> c[d + 1 - i]]

Travel(to) ==
    /\ Travels /\ leg = Idle
    /\ to # head /\ (to = 0 \/ IsNode(to))
    /\ leg' = [phase |-> "up", to |-> to, top |-> Meet(to),
               down |-> Branch(to, Meet(to)), last |-> 0,
               shared |-> Path(head) \cap Path(to)]
    /\ UNCHANGED <<nodes, head, next, acts, layout, given, torn, strayed>>

(* The way up is undo, again and again until the cursor is where they meet
   or there is nothing left. *)
Climbing == leg.phase = "up" /\ head # leg.top /\ head # 0

Climb ==
    /\ Climbing
    /\ \/ \E k \in 1 .. Len(Chain(head)), how \in Outcomes :
              /\ GiveBack(k, how)
              /\ leg' = IF how = "panics" THEN Idle ELSE leg
       \/ GiveUp /\ UNCHANGED leg
    /\ strayed' = (strayed \/ head' \notin {leg.top} \cup (Path(head) \ Path(leg.top)))
    /\ UNCHANGED <<next, acts, layout>>

Turn ==
    /\ leg.phase = "up" /\ ~Climbing
    /\ leg' = [leg EXCEPT !.phase = "down"]
    /\ UNCHANGED <<nodes, head, next, acts, layout, given, torn, strayed>>

(* One node down: an expired one is only stepped over. *)
Descend ==
    /\ leg.phase = "down" /\ leg.down # <<>>
    /\ LET n == Head(leg.down) IN
       IF State(n) = "expired"
       THEN /\ head' = n /\ leg' = [leg EXCEPT !.down = Tail(@)]
            /\ UNCHANGED <<nodes, given, torn>>
       ELSE \E how \in Outcomes :
               /\ MakeAgain(n, how)
               /\ leg' = IF how = "panics" THEN Idle
                         ELSE [leg EXCEPT !.down = Tail(@), !.last = n]
    /\ UNCHANGED <<next, acts, layout, strayed>>

(* The node a travel to the beginning takes for the oldest: the one with the
   earliest time, the lowest id among those. *)
Eldest(tree) ==
    LET first == {n \in DOMAIN tree : \A m \in DOMAIN tree : tree[n].ts <= tree[m].ts}
    IN  IF first = {} THEN 0 ELSE Lowest(first)

(* The layout the whole travel restores. *)
Landing ==
    LET eldest == Eldest(nodes) IN
    CASE leg.to = 0 -> IF eldest = 0 THEN 0 ELSE nodes[eldest].before
      [] leg.to # 0 /\ leg.last # 0 -> nodes[leg.last].after
      [] leg.to # 0 /\ leg.last = 0 /\ IsNode(head) -> nodes[head].after
      [] OTHER -> layout

Arrive ==
    /\ leg.phase = "down" /\ leg.down = <<>>
    /\ layout' = Landing
    /\ head' = IF leg.to = 0 THEN 0 ELSE head
    /\ leg' = Idle
    /\ UNCHANGED <<nodes, next, acts, given, torn, strayed>>

Walk == Undo \/ Redo \/ (\E to \in Ids \cup {0} : Travel(to))
        \/ Climb \/ Turn \/ Descend \/ Arrive

Next == Grow \/ Fold \/ Walk

Spec == Init /\ [][Next]_vars

-----------------------------------------------------------------------------
(* Correctness. *)

(* Every variable has its type, and the tree is one: parents are older nodes
   that are still there, or the root, and at most Keep nodes remain. *)
TypeOK ==
    /\ DOMAIN nodes \subseteq Ids /\ Cardinality(DOMAIN nodes) <= Keep
    /\ \A n \in DOMAIN nodes : /\ nodes[n] \in Node
                               /\ Parent(n) \in DOMAIN nodes \cup {0}
                               /\ Parent(n) < n
    /\ head \in DOMAIN nodes \cup {0}
    /\ next \in 1 .. MaxNode + 1 /\ acts \in Layouts /\ layout \in Layouts
    /\ given \in [DOMAIN nodes -> -1 .. 2] /\ torn \subseteq (DOMAIN nodes) \X {"breaks", "panics"}
    /\ strayed \in BOOLEAN

(* Between walks, as long as no travel has gone past its meeting place. *)
Settled == leg = Idle /\ ~strayed

(* The tree says what the world holds: the claims of an applied node stand
   exactly once and those of an undone node not at all, so nothing is given
   back twice or made twice. *)
ClaimsMatch ==
    Settled =>
        \A n \in DOMAIN nodes \ {t[1] : t \in torn} :
            /\ State(n) = "applied" => given[n] = 1
            /\ State(n) = "undone" => given[n] = 0

(* The cursor's path is what is applied: no node on it is undone and no node
   off it is applied, whatever trimming, branching, refusals and claims that
   failed or panicked did to it. *)
OnPath ==
    Settled =>
        \A n \in DOMAIN nodes :
            /\ State(n) = "undone" => n \notin Path(head)
            /\ State(n) = "applied" => n \in Path(head)

(* A node whose claims failed half way is expired, in the middle of a travel
   too, and never walked again. *)
TornExpired == \A n \in DOMAIN nodes : <<n, "breaks">> \in torn => State(n) = "expired"

(* What the panic handler tells the person: the claim that panicked expired. *)
PanickedExpired ==
    \A n \in DOMAIN nodes : <<n, "panics">> \in torn => State(n) = "expired"

(* A travel leaves alone what the two branches share: it undoes up to the
   lowest common ancestor, which keeps its state. *)
TravelSpares ==
    [][\A n \in DOMAIN nodes :
          (leg # Idle /\ leg' # Idle /\ n \in leg.shared)
              => nodes'[n].state = State(n)]_vars

(* Unless its way up goes past the meeting place, travel does both things it is
   for, whatever refuses or fails and whatever was trimmed from either branch
   before: it leaves what the branches share alone, and it ends on the node it
   set out for with nothing undone on its path; a panic ends it early. *)
Panicked == \E t \in torn : t[2] = "panics"

TravelKeepsItsWord ==
    [][/\ ~strayed' =>
             \A n \in DOMAIN nodes :
                (leg # Idle /\ leg' # Idle /\ n \in leg.shared)
                    => nodes'[n].state = State(n)
       /\ (leg # Idle /\ leg' = Idle /\ ~strayed' /\ ~Panicked')
             => /\ head' = leg.to
                /\ \A n \in Path(leg.to) : nodes'[n].state # "undone"]_vars

(* A travel to the beginning restores what the oldest node saw before it. *)
BeginningRestored ==
    [][(leg # Idle /\ leg.to = 0 /\ leg' = Idle /\ nodes # <<>>)
          => layout' = nodes[Lowest(DOMAIN nodes)].before]_vars

(* Expired nodes are transparent: whenever redo finds nothing, nothing undone
   hangs from the cursor through expired nodes alone. *)
RedoSeesThrough ==
    (leg = Idle /\ UndoneChildren(head) = {}) =>
        ~\E n \in DOMAIN nodes :
            /\ State(n) = "undone"
            /\ head = 0 \/ head \in Path(n)
            /\ \A m \in Path(n) \ (Path(head) \cup {n}) : State(m) = "expired"

-----------------------------------------------------------------------------
(* What every action keeps, in the middle of a travel too. *)

(* The tree's claims and its cursor keep step between the legs of a travel as
   they do between walks, as long as it has not gone past its meeting place. *)
Standing ==
    ~strayed =>
        /\ \A n \in DOMAIN nodes \ {t[1] : t \in torn} :
              /\ State(n) = "applied" => given[n] = 1
              /\ State(n) = "undone" => given[n] = 0
        /\ \A n \in DOMAIN nodes :
              /\ State(n) = "undone" => n \notin Path(head)
              /\ State(n) = "applied" => n \in Path(head)

(* A travel on its way. *)
Leg == [phase : {"up", "down"}, to : Ids \cup {0}, top : Ids \cup {0},
        down : Seq(DOMAIN nodes), last : DOMAIN nodes \cup {0}, shared : SUBSET Ids]

(* What is left of the way down hangs from where it starts, branches off the
   cursor's path, and ends where the travel is going. *)
WayDown(start) ==
    /\ \A i \in DOMAIN leg.down :
          /\ leg.down[i] \notin Path(head)
          /\ Parent(leg.down[i]) = IF i = 1 THEN start ELSE leg.down[i - 1]
          /\ \A j \in DOMAIN leg.down : i < j => leg.down[i] < leg.down[j]
    /\ leg.to = IF leg.down = <<>> THEN start ELSE leg.down[Len(leg.down)]

(* The way up stays above the meeting place, and what the branches share is
   above the cursor. *)
OnTheWay ==
    leg # Idle =>
        /\ leg \in Leg
        /\ ~strayed =>
              /\ leg.shared \subseteq Path(head)
              /\ leg.phase = "up" => /\ leg.top \in Path(head) \cup {0}
                                     /\ leg.shared = Path(leg.top)
                                     /\ WayDown(leg.top)
              /\ leg.phase = "down" => WayDown(head)

(* The inductive invariant: besides the tree and its claims it has to say where a
   travel is, for a travel is many steps and anything may go wrong in each. *)
HistoryInv ==
    /\ TypeOK /\ \A n \in DOMAIN nodes : n < next
    /\ TornExpired /\ Standing /\ OnTheWay
=============================================================================
