----------------------------- MODULE SyncService -----------------------------
(***************************************************************************)
(* Device sync: who a device talks to (kernel/src/sync/service.rs over      *)
(* iroh.rs, with the handshake of protocol.rs).  Each device runs one loop  *)
(* that owns its peers and starts one session task per peer; the tasks talk *)
(* to each other over links and answer their loop with notes.  The roster   *)
(* (sync_peer) is on disk; where a device was last reached is left out.     *)
(*                                                                         *)
(* One step is one turn of a loop -- a command, an arrival, a note, a pass  *)
(* -- or one stretch of a session between two awaits.  What crosses a link  *)
(* once both ends are live is SyncExchange's business.                      *)
(***************************************************************************)
EXTENDS Naturals, Sequences, FiniteSets

CONSTANTS
    Device,     \* the devices, numbers ordered as their ids are
    MaxLinks,   \* bound: links not yet forgotten by both ends
    MaxEvents,  \* bound: what the panels ask, links cut, dials failed, processes
                \* restarted, words from a third device, tasks that outrun an abort
    Starts      \* the rosters, and what was asked of the services as they started

ASSUME ServiceAssumption ==
    /\ Device \subseteq Nat \ {0}
    /\ MaxLinks \in Nat /\ MaxEvents \in Nat
    /\ Starts \subseteq [row : [Device -> [Device -> {"none", "in", "removed"}]],
                         showing : [Device -> {0, 1}], pasted : SUBSET (Device \X Device)]

VARIABLES
    row,        \* per device and other: sync_peer -- "none", "in", "removed"
    peers,      \* per device and other: the loop's Peer with its session task
    link,       \* the links: who dialed whom, and what each end has said
    arrivals,   \* per device: links accepted and not yet looked at
    inbox,      \* per device: what session tasks have said to the loop
    showing,    \* per device: the secret of the open pairing window, or 0
    opened,     \* per device: windows opened so far, the next secret less one
    moved,      \* per device: ops landed since the loop last passed
    overrun,    \* per device: what aborted tasks have yet to do, or did
    events      \* what counted against MaxEvents

vars == <<row, peers, link, arrivals, inbox, showing, opened, moved, overrun,
          events>>

Event == events < MaxEvents /\ events' = events + 1

Pairs == {e \in Device \X Device : e[1] # e[2]}
NoLink == 0

(* The Peer of a device this run has none of.                               *)
NoPeer == [here |-> FALSE, known |-> FALSE, dialed |-> FALSE, connected |-> FALSE,
           stood |-> FALSE, due |-> FALSE, phase |-> "none", link |-> NoLink, vetted |-> FALSE, secret |-> 0]
NewPeer == [NoPeer EXCEPT !.here = TRUE, !.due = TRUE]
FreeLink == [by |-> 0, to |-> 0, secret |-> 0, dialer |-> "none", listener |-> "none",
             cut |-> FALSE]

Peer == [here : BOOLEAN, known : BOOLEAN, dialed : BOOLEAN, connected : BOOLEAN,
         stood : BOOLEAN, due : BOOLEAN, phase : {"none", "dial", "hello", "have", "live"},
         link : 0..MaxLinks, vetted : BOOLEAN, secret : Nat]
Link == [by : Device \union {0}, to : Device \union {0}, secret : Nat,
         dialer : {"none", "hello", "have"}, listener : {"none", "hello", "have"}, cut : BOOLEAN]
Note == [kind : {"up", "down"}, of : Device]

Live(q) == q.phase # "none"
Said(q) == IF q.dialed THEN "dialer" ELSE "listener"
Heard(q) == IF q.dialed THEN "listener" ELSE "dialer"

----------------------------------------------------------------------------
(* Links.  A link is whole while both ends hold it: a session, or the       *)
(* queue of arrivals, which drops it unread if the process goes.            *)

Holds(d, l, ps, as) == (\E p \in Device : ps[d][p].link = l) \/ (\E i \in DOMAIN as[d] : as[d][i] = l)

Whole(l) ==
    /\ ~link[l].cut
    /\ Holds(link[l].by, l, peers, arrivals) /\ Holds(link[l].to, l, peers, arrivals)

(* A link neither end holds is as if it had never been.                     *)
Kept(ls) ==
    link' = [l \in 1..MaxLinks |->
                IF \E d \in Device : Holds(d, l, peers', arrivals') THEN ls[l] ELSE FreeLink]

Free(l) == link[l] = FreeLink

----------------------------------------------------------------------------
(* Tasks, and the notes they send.                                          *)

Up(p) == [kind |-> "up", of |-> p]
Down(p) == [kind |-> "down", of |-> p]

Ended(q) == [q EXCEPT !.phase = "none", !.link = NoLink, !.vetted = FALSE, !.secret = 0]
Aborted(q) == [Ended(q) EXCEPT !.connected = FALSE, !.stood = FALSE]

(* The roster a session is given says what was known when it started.       *)
Dialing(q, secret) ==
    [q EXCEPT !.dialed = TRUE, !.phase = "dial", !.vetted = q.known, !.secret = secret]
Listening(q, l) ==
    [q EXCEPT !.dialed = FALSE, !.phase = "hello", !.link = l, !.vetted = q.known]

(* What the other end is to this device, as its greeting is heard.          *)
Verdict(d, q) ==
    IF q.vetted THEN "known"
    ELSE IF q.dialed /\ q.secret # 0 THEN "pair"
    ELSE IF ~q.dialed /\ showing[d] # 0 /\ link[q.link].secret = showing[d] THEN "pair"
    ELSE "refused"

(* A task that is aborted while it runs, runs on to its next await: it may  *)
(* yet send the note it was about to, or submit its roster write.           *)
LeftOver(d, q) ==
    {w \in {"down", "pair"} :
        /\ q.link # NoLink
        /\ w = "down" => ~Whole(q.link)
        /\ w = "pair" => q.phase = "have" /\ ~q.vetted /\ link[q.link][Heard(q)] = "have"}

Abort(d, gone) ==
    \/ UNCHANGED overrun
    \/ \E p \in gone : \E w \in LeftOver(d, peers[d][p]) :
            overrun' = [overrun EXCEPT ![d] = @ \union {<<p, w>>}]
Quietly == IF overrun' # overrun THEN Event ELSE UNCHANGED events

----------------------------------------------------------------------------
(* A pass: the roster as the store has it, then a dial to whoever has no    *)
(* session and is due one.                                                  *)

(* As a plausible mistake: whatever is live is taken for a pairing.         *)
ReloadSparing(d, q, r) ==
    CASE r = "in" /\ q.here -> [q EXCEPT !.known = TRUE]
      [] r = "in" /\ ~q.here -> [NewPeer EXCEPT !.known = TRUE]
      [] r # "in" /\ Live(q) -> q
      [] OTHER -> NoPeer

(* As a plausible mistake: whoever is not known is taken for a pairing.     *)
ReloadStrangers(d, q, r) ==
    CASE r = "in" /\ q.here -> [q EXCEPT !.known = TRUE]
      [] r = "in" /\ ~q.here -> [NewPeer EXCEPT !.known = TRUE]
      [] r # "in" /\ ~q.known -> q
      [] OTHER -> NoPeer

Reload(d, q, r) ==
    CASE r = "in" /\ q.here -> [q EXCEPT !.known = TRUE]
      [] r = "in" /\ ~q.here -> [NewPeer EXCEPT !.known = TRUE]
      [] r # "in" /\ Live(q) /\ ~q.known -> q
      [] OTHER -> NoPeer

DialIfDue(q) ==
    IF q.known /\ ~Live(q) /\ q.due THEN Dialing([q EXCEPT !.due = FALSE], 0) ELSE q

Removed(ps, rs) == {p \in Device : Live(ps[p]) /\ ps[p].known /\ rs[p] # "in"}

Pass(d, ps, rs) == [p \in Device |-> IF p = d THEN NoPeer ELSE DialIfDue(Reload(d, ps[p], rs[p]))]

----------------------------------------------------------------------------

(* A dial on a ticket that p has shown.                                     *)
Ticketed(q, secret) ==
    LET peer == [(IF q.here THEN q ELSE NewPeer) EXCEPT !.due = TRUE]
    IN  IF Live(peer) THEN peer ELSE Dialing(peer, secret)

(* The services have just started; a panel has opened its window, and its   *)
(* ticket may have been pasted.                                             *)
Init ==
    /\ \E start \in Starts :
        /\ row = start.row /\ showing = start.showing
        /\ peers = [d \in Device |->
                LET up == Pass(d, [p \in Device |-> NoPeer], row[d])
                IN  [p \in Device |-> IF <<d, p>> \in start.pasted THEN Ticketed(NoPeer, 1) ELSE up[p]]]
    /\ opened = showing
    /\ link = [l \in 1..MaxLinks |-> FreeLink]
    /\ arrivals = [d \in Device |-> <<>>]
    /\ inbox = [d \in Device |-> <<>>]
    /\ moved = [d \in Device |-> FALSE]
    /\ overrun = [d \in Device |-> {}]
    /\ events = 0

----------------------------------------------------------------------------
(* What the panel asks.                                                     *)

(* Cmd::Pair: the ticket's secret is dialed with, unless a session is open  *)
(* already.                                                                 *)
Pair(d, p) ==
    /\ Event
    /\ \E secret \in 1..opened[p] : peers' = [peers EXCEPT ![d][p] = Ticketed(@, secret)]
    /\ UNCHANGED <<row, link, arrivals, inbox, showing, opened, moved, overrun>>

(* Cmd::Forget: the session ends and the peer goes, and only then is the    *)
(* removal written, by a write that may fail.                               *)
Forget(d, p) ==
    /\ Event
    /\ peers[d][p].here
    /\ peers' = [peers EXCEPT ![d][p] = NoPeer]
    /\ \/ /\ row' = [row EXCEPT ![d][p] = IF @ = "none" THEN "none" ELSE "removed"]
          /\ moved' = [moved EXCEPT ![d] = @ \/ row[d][p] = "in"]
          /\ Abort(d, {p})
       \/ UNCHANGED <<row, moved, overrun>>
    /\ UNCHANGED <<arrivals, inbox, showing, opened>>
    /\ Kept(link)

BeginPairing(d) ==
    /\ Event
    /\ opened' = [opened EXCEPT ![d] = @ + 1]
    /\ showing' = [showing EXCEPT ![d] = opened'[d]]
    /\ UNCHANGED <<row, peers, link, arrivals, inbox, moved, overrun>>

EndPairing(d) ==
    /\ Event
    /\ showing[d] # 0
    /\ showing' = [showing EXCEPT ![d] = 0]
    /\ UNCHANGED <<row, peers, link, arrivals, inbox, opened, moved, overrun>>

Kick(d) ==
    /\ Event
    /\ peers' = [peers EXCEPT ![d] =
            Pass(d, [p \in Device |-> IF @[p].here THEN [@[p] EXCEPT !.due = TRUE] ELSE @[p]],
                 row[d])]
    /\ Abort(d, Removed(peers[d], row[d]))
    /\ UNCHANGED <<row, arrivals, inbox, showing, opened, moved>>
    /\ Kept(link)

----------------------------------------------------------------------------
(* The loop.                                                                *)

(* Time: five seconds, SETTLED and the shortest backoff alike, or the       *)
(* minute IDLE.  Nothing queued for a loop waits as long to be looked at.   *)
Later == \A d \in Device : inbox[d] = <<>> /\ arrivals[d] = <<>>

Ripen(d, p) ==
    /\ Later
    /\ peers[d][p].known /\ ~Live(peers[d][p]) /\ ~peers[d][p].due
    /\ peers' = [peers EXCEPT ![d][p].due = TRUE]
    /\ UNCHANGED <<row, link, arrivals, inbox, showing, opened, moved, overrun, events>>

Stand(d, p) ==
    /\ Later
    /\ peers[d][p].connected /\ ~peers[d][p].stood
    /\ peers' = [peers EXCEPT ![d][p].stood = TRUE]
    /\ UNCHANGED <<row, link, arrivals, inbox, showing, opened, moved, overrun, events>>

(* Ops landed, somebody is due, or the loop slept as long as it may.        *)
PassOver(d) ==
    /\ moved[d] \/ Later \/ \E p \in Device : LET q == peers[d][p] IN q.known /\ ~Live(q) /\ q.due
    /\ moved' = [moved EXCEPT ![d] = FALSE]
    /\ Abort(d, Removed(peers[d], row[d])) /\ Quietly
    /\ peers' = [peers EXCEPT ![d] = Pass(d, @, row[d])]
    /\ UNCHANGED <<row, arrivals, inbox, showing, opened>>
    /\ Kept(link)

(* accepted: the link is dropped where a session this side would keep is    *)
(* open already -- one that listened, or a dial by the smaller id.          *)
(* As a plausible mistake: both sides give up the dial of their own.        *)
YieldsAlways(d, p) == Live(peers[d][p]) /\ ~peers[d][p].dialed
Yields(d, p) == Live(peers[d][p]) /\ (~peers[d][p].dialed \/ d < p)
Accept(d) ==
    /\ arrivals[d] # <<>>
    /\ arrivals' = [arrivals EXCEPT ![d] = Tail(@)]
    /\ LET l == Head(arrivals[d])
           p == link[l].by
           q == peers[d][p]
       IN  IF Yields(d, p)
           THEN UNCHANGED <<peers, inbox, overrun, events>> /\ Kept(link)
           ELSE /\ Abort(d, IF Live(q) THEN {p} ELSE {}) /\ Quietly
                /\ peers' = [peers EXCEPT ![d][p] =
                        Listening(IF ~q.here THEN NewPeer ELSE IF Live(q) THEN Aborted(q) ELSE q, l)]
                /\ inbox' = [inbox EXCEPT ![d] = Append(@, Up(p))]
                /\ Kept([link EXCEPT ![l].listener = "hello"])
    /\ UNCHANGED <<row, showing, opened, moved>>

(* As a plausible mistake: the entry is made again by a note that comes late. *)
HearUpAnyway(d, p) ==
    /\ peers' = [peers EXCEPT ![d][p] = [@ EXCEPT !.here = TRUE, !.connected = TRUE, !.stood = FALSE]]
    /\ UNCHANGED <<link, overrun, events>>

HearUp(d, p) ==
    /\ peers' = [peers EXCEPT ![d][p].connected = peers[d][p].here, ![d][p].stood = FALSE]
    /\ UNCHANGED <<link, overrun, events>>

(* went_down: a connection that stood is tried again at once, any other     *)
(* after its backoff.  A stranger's entry goes with its session; a pass     *)
(* follows otherwise.  A task says Down before it ends, so the loop may     *)
(* still find it live.                                                      *)
HearDown(d, p, late) ==
    LET q == IF peers[d][p].here
             THEN [peers[d][p] EXCEPT !.connected = FALSE, !.stood = FALSE, !.due = peers[d][p].stood]
             ELSE NoPeer
        seen == IF late THEN [q EXCEPT !.phase = "ending"] ELSE q
        orphan == q.here /\ ~q.known /\ ~Live(seen)
        after == IF orphan THEN [peers[d] EXCEPT ![p] = NoPeer]
                 ELSE Pass(d, [peers[d] EXCEPT ![p] = seen], row[d])
    IN  /\ late => q.here /\ ~Live(q)
        /\ peers' = [peers EXCEPT ![d] =
                IF late THEN [after EXCEPT ![p].phase = "none"] ELSE after]
        /\ IF late THEN Event /\ UNCHANGED overrun
           ELSE Abort(d, IF orphan THEN {} ELSE Removed(peers[d], row[d])) /\ Quietly
        /\ Kept(link)

Hear(d) ==
    /\ inbox[d] # <<>>
    /\ inbox' = [inbox EXCEPT ![d] = Tail(@)]
    /\ UNCHANGED <<row, arrivals, showing, opened, moved>>
    /\ LET n == Head(inbox[d])
       IN  IF n.kind = "up" THEN HearUp(d, n.of)
           ELSE \E late \in BOOLEAN : HearDown(d, n.of, late)

----------------------------------------------------------------------------
(* A session task.                                                          *)

Ends(d, p) ==
    /\ peers' = [peers EXCEPT ![d][p] = Ended(@)]
    /\ inbox' = [inbox EXCEPT ![d] = Append(@, Down(p))]

(* The dial opens a link and says hello on it, which is what makes it       *)
(* arrive at the other end.                                                 *)
Reach(d, p) ==
    /\ peers[d][p].phase = "dial"
    /\ \E l \in 1..MaxLinks :
        /\ Free(l) /\ \A k \in 1..(l - 1) : ~Free(k)
        /\ peers' = [peers EXCEPT ![d][p].phase = "hello", ![d][p].link = l]
        /\ arrivals' = [arrivals EXCEPT ![p] = Append(@, l)]
        /\ link' = [link EXCEPT ![l] = [by |-> d, to |-> p, secret |-> peers[d][p].secret,
                        dialer |-> "hello", listener |-> "none", cut |-> FALSE]]
    /\ inbox' = [inbox EXCEPT ![d] = Append(@, Up(p))]
    /\ UNCHANGED <<row, showing, opened, moved, overrun, events>>

DialFails(d, p) ==
    /\ Event
    /\ peers[d][p].phase = "dial"
    /\ Ends(d, p)
    /\ UNCHANGED <<row, link, arrivals, showing, opened, moved, overrun>>

(* The greeting is heard: refused, or let in and answered with a Have.      *)
Greeted(d, p) ==
    LET q == peers[d][p]
    IN  /\ q.phase = "hello"
        /\ link[q.link][Heard(q)] # "none"
        /\ \/ /\ Verdict(d, q) = "refused"
              /\ Ends(d, p)
              /\ UNCHANGED arrivals
              /\ Kept(link)
           \/ /\ Verdict(d, q) # "refused"
              /\ peers' = [peers EXCEPT ![d][p].phase = "have"]
              /\ link' = [link EXCEPT ![q.link][Said(q)] = "have"]
              /\ UNCHANGED <<arrivals, inbox>>
        /\ UNCHANGED <<row, showing, opened, moved, overrun, events>>

(* The other end's Have is in.  A device let in on a secret joins the       *)
(* roster now, and not before.                                              *)
LetIn(d, p) ==
    LET q == peers[d][p]
    IN  /\ q.phase = "have"
        /\ link[q.link][Heard(q)] = "have"
        /\ peers' = [peers EXCEPT ![d][p].phase = "live"]
        /\ row' = [row EXCEPT ![d][p] = IF q.vetted THEN @ ELSE "in"]
        /\ moved' = [moved EXCEPT ![d] = @ \/ row'[d][p] # row[d][p]]
        /\ UNCHANGED <<link, arrivals, inbox, showing, opened, overrun, events>>

(* The link is gone under the session.                                      *)
Close(d, p) ==
    LET q == peers[d][p]
    IN  /\ q.link # NoLink
        /\ ~Whole(q.link)
        /\ Ends(d, p)
        /\ UNCHANGED <<row, arrivals, showing, opened, moved, overrun, events>>
        /\ Kept(link)

(* What an aborted task was in the middle of.                               *)
RunOn(d) ==
    \E w \in overrun[d] :
        /\ w[2] # "ran"
        /\ overrun' = [overrun EXCEPT ![d] = (@ \ {w}) \union {<<w[1], "ran">>}]
        /\ inbox' = IF w[2] = "down"
                    THEN [inbox EXCEPT ![d] = Append(@, Down(w[1]))] ELSE inbox
        /\ row' = IF w[2] = "pair" THEN [row EXCEPT ![d][w[1]] = "in"] ELSE row
        /\ moved' = [moved EXCEPT ![d] = @ \/ row' # row]
        /\ UNCHANGED <<peers, link, arrivals, showing, opened, events>>

----------------------------------------------------------------------------
(* The world.                                                               *)

Cut(l) ==
    /\ Event
    /\ ~Free(l) /\ ~link[l].cut
    /\ link' = [link EXCEPT ![l].cut = TRUE]
    /\ UNCHANGED <<row, peers, arrivals, inbox, showing, opened, moved, overrun>>

(* The service stops, every session with it, and starts again.              *)
Restart(d) ==
    /\ Event
    /\ peers' = [peers EXCEPT ![d] = Pass(d, [p \in Device |-> NoPeer], row[d])]
    /\ arrivals' = [arrivals EXCEPT ![d] = <<>>]
    /\ inbox' = [inbox EXCEPT ![d] = <<>>]
    /\ showing' = [showing EXCEPT ![d] = 0]
    /\ moved' = [moved EXCEPT ![d] = FALSE]
    /\ overrun' = [overrun EXCEPT ![d] = {}]
    /\ UNCHANGED <<row, opened>>
    /\ Kept(link)

(* An op about the roster, from a device that is neither of the two.        *)
Land(d, p) ==
    /\ Event
    /\ \E v \in {"in", "removed"} \ {row[d][p]} : row' = [row EXCEPT ![d][p] = v]
    /\ moved' = [moved EXCEPT ![d] = TRUE]
    /\ UNCHANGED <<peers, link, arrivals, inbox, showing, opened, overrun>>

----------------------------------------------------------------------------

Panel == \E d \in Device : BeginPairing(d) \/ EndPairing(d) \/ Kick(d) \/
            \E p \in Device \ {d} : Pair(d, p) \/ Forget(d, p)
Loop(d) == PassOver(d) \/ Accept(d) \/ Hear(d) \/ RunOn(d)
Task(d, p) == Reach(d, p) \/ Greeted(d, p) \/ LetIn(d, p) \/ Close(d, p)
World == \/ \E l \in 1..MaxLinks : Cut(l)
         \/ \E d \in Device : Restart(d)
         \/ \E e \in Pairs : DialFails(e[1], e[2]) \/ Land(e[1], e[2])

Next == \/ Panel \/ World
        \/ \E d \in Device : Loop(d)
        \/ \E e \in Pairs : Ripen(e[1], e[2]) \/ Stand(e[1], e[2]) \/ Task(e[1], e[2])

Spec == Init /\ [][Next]_vars

Fairness ==
    /\ \A d \in Device : SF_vars(PassOver(d)) /\ WF_vars(Accept(d)) /\ WF_vars(Hear(d))
    /\ \A e \in Pairs : WF_vars(Ripen(e[1], e[2])) /\ WF_vars(Task(e[1], e[2]))
FairSpec == Spec /\ Fairness

----------------------------------------------------------------------------

(* The variables keep their types, a link that waits to be accepted is      *)
(* somebody's, and a session has a link just while it is past its dial.     *)
TypeOK ==
    /\ row \in [Device -> [Device -> {"none", "in", "removed"}]]
    /\ peers \in [Device -> [Device -> Peer]]
    /\ link \in [1..MaxLinks -> Link]
    /\ arrivals \in [Device -> Seq(1..MaxLinks)]
    /\ inbox \in [Device -> Seq(Note)]
    /\ showing \in [Device -> Nat] /\ opened \in [Device -> Nat]
    /\ moved \in [Device -> BOOLEAN]
    /\ overrun \in [Device -> SUBSET (Device \X {"down", "pair", "ran"})]
    /\ events \in 0..MaxEvents
    /\ \A d \in Device : \A i \in DOMAIN arrivals[d] : link[arrivals[d][i]].by \in Device
    /\ \A d \in Device : \A p \in Device :
            (peers[d][p].link # NoLink) <=> peers[d][p].phase \in {"hello", "have", "live"}

Together(d, p) ==
    /\ peers[d][p].phase = "live" /\ peers[p][d].phase = "live"
    /\ peers[d][p].link = peers[p][d].link
Mutual(d, p) == row[d][p] = "in" /\ row[p][d] = "in"

(* Two devices that stay on each other's roster come to one connection and  *)
(* keep it, whoever dialed, however their dials crossed and whatever was    *)
(* cut, refused or restarted on the way: accepted's rule of the smaller id, *)
(* the backoff and the passes see to it.                                    *)
Meets == \A e \in Pairs : e[1] < e[2] => (<>[]Mutual(e[1], e[2]) => <>[]Together(e[1], e[2]))

(* A device with a session that lives is one the roster holds, once the     *)
(* loop has passed over what landed: a removal ends the session, even that  *)
(* of a device that came in on a ticket, if the loop had come to know it.   *)
OnlyTheRoster ==
    \A e \in Pairs :
        LET q == peers[e[1]][e[2]]
        IN  q.phase = "live" /\ q.known /\ ~moved[e[1]] => row[e[1]][e[2]] = "in"

(* The same of every session, known or not.                                 *)
OnlyTheRosterEver ==
    \A e \in Pairs : peers[e[1]][e[2]].phase = "live" /\ ~moved[e[1]] => row[e[1]][e[2]] = "in"

Tells(d, p) ==
    LET q == peers[d][p]
    IN  /\ q.phase = "live" => q.connected
        /\ q.connected => q.phase # "none"

(* With every note heard, the panel shows a device connected if its session *)
(* lives, and not when there is none: the notes are keyed by device alone   *)
(* and a session may have been replaced since, yet the note of the one      *)
(* replaced never speaks for the other -- where an abort stops its task.    *)
PanelTellsTruth ==
    \A e \in Pairs : inbox[e[1]] = <<>> /\ overrun[e[1]] = {} => Tells(e[1], e[2])

(* Whoever the loop knows is on the roster it last passed over.             *)
KnownIsIn ==
    \A e \in Pairs : peers[e[1]][e[2]].known /\ ~moved[e[1]] => row[e[1]][e[2]] = "in"

(* What the last note about p will have the loop believe.                   *)
Silent(s, p) == \A i \in DOMAIN s : s[i].of # p
LastSays(s, p, kind) ==
    \E i \in DOMAIN s : /\ s[i].of = p /\ s[i].kind = kind
                        /\ \A j \in DOMAIN s : j > i => s[j].of # p

(* Without an abort that came late: once the notes still queued are heard,  *)
(* the loop takes p for connected if its session has a link, and for not    *)
(* connected if it has no session.                                          *)
NotesTell ==
    \A e \in Pairs :
        LET q == peers[e[1]][e[2]]
            s == inbox[e[1]]
        IN  /\ ~q.here => ~q.connected /\ ~Live(q)
            /\ overrun[e[1]] = {} =>
                /\ q.link # NoLink => LastSays(s, e[2], "up") \/ (Silent(s, e[2]) /\ q.connected)
                /\ q.here /\ ~Live(q) => LastSays(s, e[2], "down") \/ (Silent(s, e[2]) /\ ~q.connected)

ServiceInv == TypeOK /\ KnownIsIn /\ NotesTell

(* The same wherever an abort finds the task.                               *)
PanelAlwaysTells == \A e \in Pairs : inbox[e[1]] = <<>> => Tells(e[1], e[2])

(* The peer of a stranger whose session is over goes from the loop.         *)
Stray(d, p) == peers[d][p].here /\ ~peers[d][p].known /\ ~Live(peers[d][p])
StraysGo == \A e \in Pairs : Stray(e[1], e[2]) ~> ~Stray(e[1], e[2])

(* A device that was forgotten, and that nobody put back by pairing with it *)
(* since, stays off the roster ("it is refused from then on").              *)
ForgetStands ==
    [][\A e \in Pairs : row[e[1]][e[2]] = "removed" /\ row'[e[1]][e[2]] = "in"
          => peers[e[1]][e[2]].here \/ Land(e[1], e[2])]_vars
=============================================================================
