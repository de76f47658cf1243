-------------------------- MODULE SyncServiceProofs --------------------------
(* What a device's loop may rely on, for any number of devices and links, and
   whatever is asked, cut, refused, restarted or aborted meanwhile. *)
EXTENDS SyncService, TLAPS

(* A peer whose session has a link just while it is past its dial. *)
Coherent(q) == q \in Peer /\ ((q.link # NoLink) <=> q.phase \in {"hello", "have", "live"})

(* What the invariant says of the peer y of one device: q is its entry, r its row,
   m whether ops landed, o what aborts left over and s the notes. *)
Sound(q, r, m, o, s, y) ==
    /\ q.known /\ ~m => r = "in"
    /\ ~q.here => ~q.connected /\ ~Live(q)
    /\ o = {} =>
        /\ q.link # NoLink => LastSays(s, y, "up") \/ (Silent(s, y) /\ q.connected)
        /\ q.here /\ ~Live(q) => LastSays(s, y, "down") \/ (Silent(s, y) /\ ~q.connected)

SoundAt(x, y) == Sound(peers[x][y], row[x][y], moved[x], overrun[x], inbox[x], y)

LEMMA ByPeer ==
    /\ ServiceInv <=> TypeOK /\ \A x \in Device : \A y \in Device \ {x} : SoundAt(x, y)
    /\ ServiceInv' <=> TypeOK' /\ \A x \in Device : \A y \in Device \ {x} : SoundAt(x, y)'
<1>1. \A x \in Device : \A y \in Device \ {x} : <<x, y>> \in Pairs /\ <<x, y>>[1] = x /\ <<x, y>>[2] = y
  BY DEF Pairs
<1>2. \A e \in Pairs : e[1] \in Device /\ e[2] \in Device \ {e[1]}
  BY DEF Pairs
<1>3. ServiceInv <=> TypeOK /\ \A x \in Device : \A y \in Device \ {x} : SoundAt(x, y)
  <2>1. ASSUME ServiceInv, NEW x \in Device, NEW y \in Device \ {x} PROVE SoundAt(x, y)
    <3>1. PICK e \in Pairs : e[1] = x /\ e[2] = y
      BY <1>1
    <3>2. SoundAt(e[1], e[2])
      BY <2>1 DEF ServiceInv, KnownIsIn, NotesTell, SoundAt, Sound
    <3> QED BY <3>1, <3>2
  <2>2. ASSUME \A x \in Device : \A y \in Device \ {x} : SoundAt(x, y)
        PROVE  KnownIsIn /\ NotesTell
    <3> SUFFICES ASSUME NEW e \in Pairs PROVE SoundAt(e[1], e[2])
      BY DEF KnownIsIn, NotesTell, SoundAt, Sound
    <3> QED BY <1>2, <2>2
  <2> QED BY <2>1, <2>2 DEF ServiceInv
<1>4. ServiceInv' <=> TypeOK' /\ \A x \in Device : \A y \in Device \ {x} : SoundAt(x, y)'
  <2>1. ASSUME ServiceInv', NEW x \in Device, NEW y \in Device \ {x} PROVE SoundAt(x, y)'
    <3>1. PICK e \in Pairs : e[1] = x /\ e[2] = y
      BY <1>1
    <3>2. SoundAt(e[1], e[2])'
      BY <2>1 DEF ServiceInv, KnownIsIn, NotesTell, SoundAt, Sound
    <3> QED BY <3>1, <3>2
  <2>2. ASSUME \A x \in Device : \A y \in Device \ {x} : SoundAt(x, y)'
        PROVE  KnownIsIn' /\ NotesTell'
    <3> SUFFICES ASSUME NEW e \in Pairs PROVE SoundAt(e[1], e[2])'
      BY DEF KnownIsIn, NotesTell, SoundAt, Sound
    <3> QED BY <1>2, <2>2
  <2> QED BY <2>1, <2>2 DEF ServiceInv
<1> QED BY <1>3, <1>4

----------------------------------------------------------------------------
(* The notes. *)

(* A note that is queued is the last about its device, and says nothing of
   another. *)
LEMMA AddedNote ==
    ASSUME NEW s \in Seq(Note), NEW n \in Note
    PROVE  /\ Append(s, n) \in Seq(Note)
           /\ LastSays(Append(s, n), n.of, n.kind)
           /\ \A y : y # n.of => /\ Silent(s, y) => Silent(Append(s, n), y)
                                 /\ \A k : LastSays(s, y, k) => LastSays(Append(s, n), y, k)
<1> DEFINE t == Append(s, n)
<1>1. /\ t \in Seq(Note) /\ Len(t) = Len(s) + 1 /\ t[Len(s) + 1] = n
      /\ \A i \in 1..Len(s) : t[i] = s[i]
      /\ DOMAIN s = 1..Len(s) /\ DOMAIN t = 1..Len(t) /\ Len(s) \in Nat
  OBVIOUS
<1> HIDE DEF t
<1>2. LastSays(t, n.of, n.kind)
  BY <1>1 DEF LastSays
<1>3. ASSUME NEW y, y # n.of PROVE Silent(s, y) => Silent(t, y)
  BY <1>1, <1>3 DEF Silent
<1>4. ASSUME NEW y, y # n.of, NEW k, LastSays(s, y, k) PROVE LastSays(t, y, k)
  <2>1. PICK i \in 1..Len(s) : /\ s[i].of = y /\ s[i].kind = k
                               /\ \A j \in 1..Len(s) : j > i => s[j].of # y
    BY <1>1, <1>4 DEF LastSays
  <2>2. i \in 1..Len(t) /\ t[i].of = y /\ t[i].kind = k
    BY <1>1, <2>1
  <2>3. \A j \in 1..Len(t) : j > i => t[j].of # y
    <3> SUFFICES ASSUME NEW j \in 1..Len(t), j > i PROVE t[j].of # y
      OBVIOUS
    <3>1. CASE j = Len(s) + 1
      BY <1>1, <1>4, <3>1
    <3>2. CASE j \in 1..Len(s)
      BY <1>1, <2>1, <3>2
    <3> QED BY <1>1, <3>1, <3>2
  <2> QED BY <1>1, <2>2, <2>3 DEF LastSays
<1> QED BY <1>1, <1>2, <1>3, <1>4 DEF t

(* A note that is heard leaves what the last ones say, unless it was the last. *)
LEMMA HeardNote ==
    ASSUME NEW s \in Seq(Note), s # <<>>, NEW y
    PROVE  /\ Head(s) \in Note /\ Tail(s) \in Seq(Note)
           /\ Silent(s, y) => Silent(Tail(s), y) /\ y # Head(s).of
           /\ \A k : LastSays(s, y, k) =>
                \/ LastSays(Tail(s), y, k)
                \/ Silent(Tail(s), y) /\ Head(s).of = y /\ Head(s).kind = k
<1> DEFINE t == Tail(s)
<1>1. /\ t \in Seq(Note) /\ Len(t) = Len(s) - 1 /\ Head(s) = s[1] /\ Len(s) \in Nat \ {0}
      /\ \A i \in 1..Len(t) : t[i] = s[i + 1]
      /\ DOMAIN s = 1..Len(s) /\ DOMAIN t = 1..Len(t)
  OBVIOUS
<1> HIDE DEF t
<1>2. Head(s) \in Note
  BY <1>1
<1>3. Silent(s, y) => Silent(t, y) /\ y # Head(s).of
  BY SMTT(40), <1>1 DEF Silent
<1>4. ASSUME NEW k, LastSays(s, y, k)
      PROVE  LastSays(t, y, k) \/ (Silent(t, y) /\ Head(s).of = y /\ Head(s).kind = k)
  <2>1. PICK i \in 1..Len(s) : /\ s[i].of = y /\ s[i].kind = k
                               /\ \A j \in 1..Len(s) : j > i => s[j].of # y
    BY <1>1, <1>4 DEF LastSays
  <2>2. CASE i = 1
    <3>1. Silent(t, y)
      BY <1>1, <2>1, <2>2 DEF Silent
    <3> QED BY <1>1, <2>1, <2>2, <3>1
  <2>3. CASE i # 1
    <3>1. i - 1 \in 1..Len(t) /\ t[i - 1] = s[i]
      BY <1>1, <2>3
    <3>2. \A j \in 1..Len(t) : j > i - 1 => t[j].of # y
      BY <1>1, <2>1
    <3> QED BY <1>1, <2>1, <3>1, <3>2 DEF LastSays
  <2> QED BY <2>2, <2>3
<1> QED BY <1>1, <1>2, <1>3, <1>4 DEF t

----------------------------------------------------------------------------
(* The peers. *)

LEMMA Strangers ==
    /\ MaxLinks \in Nat /\ MaxEvents \in Nat
    /\ Coherent(NoPeer) /\ Coherent(NewPeer)
    /\ ~NoPeer.here /\ ~NoPeer.known /\ ~NoPeer.connected /\ ~Live(NoPeer) /\ NoPeer.link = NoLink
    /\ NewPeer.here /\ ~NewPeer.known /\ ~NewPeer.connected /\ ~Live(NewPeer) /\ NewPeer.link = NoLink
    /\ NewPeer.due
<1>1. MaxLinks \in Nat /\ MaxEvents \in Nat
  BY ServiceAssumption
<1>2. NoPeer \in Peer /\ NewPeer \in Peer
  <2>1. NoPeer \in Peer
    BY <1>1 DEF NoPeer, Peer, NoLink
  <2>2. NewPeer \in Peer
    BY <2>1 DEF NewPeer, Peer
  <2> QED BY <2>1, <2>2
<1> QED BY <1>1, <1>2 DEF Coherent, NoPeer, NewPeer, Live

LEMMA NobodySound ==
    ASSUME NEW r, NEW m, NEW o, NEW s, NEW y
    PROVE  Sound(NoPeer, r, m, o, s, y)
BY Strangers DEF Sound

(* A pass knows whom the roster holds, and ends or begins sessions without a
   word. *)
LEMMA Reloaded ==
    ASSUME NEW d, NEW q, Coherent(q), NEW r
    PROVE  LET n == Reload(d, q, r)
           IN  /\ Coherent(n) /\ (n.known => r = "in" /\ n.here)
               /\ \/ n = NoPeer
                  \/ n.here /\ ~Live(n) /\ n.due /\ ~n.connected /\ n.known
                  \/ /\ n.here = q.here /\ n.phase = q.phase /\ n.link = q.link
                     /\ n.connected = q.connected /\ n.due = q.due
BY Strangers DEF Reload, Coherent, Peer, Live

LEMMA Passed ==
    ASSUME NEW d, NEW q, Coherent(q), NEW r, NEW m, NEW o, NEW s, NEW y, NEW m2, NEW o2,
           Sound(q, r, m, o, s, y), o \subseteq o2
    PROVE  LET n == DialIfDue(Reload(d, q, r))
           IN  Coherent(n) /\ Sound(n, r, m2, o2, s, y)
<1> DEFINE n0 == Reload(d, q, r)
           n == DialIfDue(n0)
<1>1. /\ Coherent(n0) /\ (n0.known => r = "in" /\ n0.here)
      /\ \/ n0 = NoPeer
         \/ n0.here /\ ~Live(n0) /\ n0.due /\ ~n0.connected /\ n0.known
         \/ /\ n0.here = q.here /\ n0.phase = q.phase /\ n0.link = q.link
            /\ n0.connected = q.connected /\ n0.due = q.due
  BY Reloaded
<1> HIDE DEF n0
<1>2. /\ Coherent(n) /\ n.known = n0.known /\ n.here = n0.here /\ n.link = n0.link
      /\ n.connected = n0.connected
      /\ n.phase = n0.phase \/ (n0.phase = "none" /\ n.phase = "dial" /\ n0.known)
      /\ n0.known /\ ~Live(n0) /\ n0.due => n.phase = "dial"
  <2>1. CASE n0.known /\ ~Live(n0) /\ n0.due
    <3> DEFINE a == [n0 EXCEPT !.due = FALSE]
    <3>1. /\ Coherent(a) /\ a.here = n0.here /\ a.known = n0.known /\ a.link = n0.link
          /\ a.phase = n0.phase /\ a.connected = n0.connected
      BY <1>1 DEF Coherent, Peer
    <3>2. n = Dialing(a, 0)
      BY <2>1 DEF DialIfDue
    <3> HIDE DEF a, n
    <3>3. n \in Peer /\ n.known = a.known /\ n.here = a.here /\ n.link = a.link
          /\ n.connected = a.connected /\ n.phase = "dial"
      BY <3>1, <3>2 DEF Dialing, Coherent, Peer
    <3> QED BY <1>1, <2>1, <3>1, <3>3 DEF Coherent, Live
  <2>2. CASE ~(n0.known /\ ~Live(n0) /\ n0.due)
    BY <1>1, <2>2 DEF DialIfDue
  <2> QED BY <2>1, <2>2
<1> HIDE DEF n
<1>3. Sound(n, r, m2, o2, s, y)
  <2>1. CASE n0 = NoPeer
    BY <1>1, <1>2, <2>1, Strangers DEF Sound, Live
  <2>2. CASE n0.here /\ ~Live(n0) /\ n0.due /\ ~n0.connected /\ n0.known
    BY <1>1, <1>2, <2>2 DEF Sound, Live, Coherent
  <2>3. CASE /\ n0.here = q.here /\ n0.phase = q.phase /\ n0.link = q.link
             /\ n0.connected = q.connected /\ n0.due = q.due
    BY <1>1, <1>2, <2>3 DEF Sound, Live
  <2> QED BY <1>1, <2>1, <2>2, <2>3
<1> QED BY <1>2, <1>3 DEF n, n0

(* What a turn of a loop or of a session makes of one peer. *)

LEMMA TicketedFits ==
    ASSUME NEW q, Coherent(q), NEW secret \in Nat, NEW r, NEW m, NEW o, NEW s, NEW y,
           Sound(q, r, m, o, s, y)
    PROVE  LET n == Ticketed(q, secret) IN Coherent(n) /\ Sound(n, r, m, o, s, y)
<1> DEFINE a == IF q.here THEN q ELSE NewPeer
           b == [a EXCEPT !.due = TRUE]
           n == Ticketed(q, secret)
<1>1. Coherent(a) /\ a.here /\ (q.here => a = q) /\ (~q.here => ~a.known /\ ~Live(a))
  BY Strangers
<1> HIDE DEF a
<1>2. /\ Coherent(b) /\ b.here /\ b.known = a.known /\ b.phase = a.phase
      /\ b.connected = a.connected /\ b.link = a.link
  BY <1>1 DEF Coherent, Peer
<1> HIDE DEF b
<1>3. n = IF Live(b) THEN b ELSE Dialing(b, secret)
  BY DEF Ticketed, a, b
<1> HIDE DEF n
<1>4. CASE Live(b)
  <2>1. q.here /\ n = b
    BY <1>1, <1>2, <1>3, <1>4 DEF Live
  <2> QED BY <1>1, <1>2, <2>1 DEF Sound, Live, n, Coherent
<1>5. CASE ~Live(b)
  <2>1. n = Dialing(b, secret) /\ b.link = NoLink
    BY <1>2, <1>3, <1>5 DEF Coherent, Live
  <2>2. n \in Peer /\ n.known = b.known /\ n.here /\ n.link = NoLink /\ n.phase = "dial"
    BY <1>2, <2>1 DEF Dialing, Coherent, Peer
  <2>3. q.here => n.known = q.known
    BY <1>1, <1>2, <2>2
  <2>4. ~q.here => ~n.known
    BY <1>1, <1>2, <2>2
  <2> QED BY <2>2, <2>3, <2>4 DEF Sound, Live, n, Coherent
<1> QED BY <1>4, <1>5

(* A session that is ended, or made to give way. *)
LEMMA EndedFits ==
    ASSUME NEW q, Coherent(q)
    PROVE  /\ Coherent(Ended(q)) /\ ~Live(Ended(q)) /\ Ended(q).link = NoLink
           /\ Ended(q).known = q.known /\ Ended(q).here = q.here
           /\ Ended(q).connected = q.connected
           /\ Coherent(Aborted(q)) /\ Aborted(q).known = q.known /\ Aborted(q).here = q.here
<1> DEFINE n == Ended(q)
           a == Aborted(q)
<1>1. n \in Peer /\ n.known = q.known /\ n.here = q.here /\ n.connected = q.connected
      /\ n.phase = "none" /\ n.link = NoLink
  BY Strangers DEF Ended, Coherent, Peer, NoLink
<1>2. a = [n EXCEPT !.connected = FALSE, !.stood = FALSE]
  BY DEF Aborted
<1> HIDE DEF n, a
<1>3. a \in Peer /\ a.known = n.known /\ a.here = n.here /\ a.phase = n.phase /\ a.link = n.link
  BY <1>1, <1>2 DEF Peer
<1> QED BY <1>1, <1>3 DEF n, a, Coherent, Live

LEMMA ListeningFits ==
    ASSUME NEW q, Coherent(q), NEW l \in 1..MaxLinks
    PROVE  LET n == Listening(q, l)
           IN  Coherent(n) /\ n.known = q.known /\ n.here = q.here /\ n.link = l /\ Live(n)
<1>1. l \in 0..MaxLinks /\ l # NoLink
  BY Strangers DEF NoLink
<1>2. Listening(q, l) \in Peer
  BY <1>1 DEF Listening, Coherent, Peer
<1> QED BY <1>1, <1>2 DEF Listening, Coherent, Peer, Live

(* What is said last is so. *)
LEMMA SaidSound ==
    ASSUME NEW q, Coherent(q), NEW r, NEW m, NEW o, NEW s, NEW y,
           q.here, q.known /\ ~m => r = "in",
           \/ q.link # NoLink /\ LastSays(s, y, "up")
           \/ ~Live(q) /\ LastSays(s, y, "down")
    PROVE  Sound(q, r, m, o, s, y)
BY DEF Sound, Coherent, Live

----------------------------------------------------------------------------
(* The loops. *)

(* What the invariant says of the variables. *)
LEMMA Entries ==
    ASSUME ServiceInv
    PROVE  /\ TypeOK /\ MaxLinks \in Nat /\ MaxEvents \in Nat
           /\ \A x \in Device : \A y \in Device : Coherent(peers[x][y]) /\ peers[x][y] \in Peer
           /\ \A x \in Device : \A y \in Device \ {x} : SoundAt(x, y)
BY ByPeer, Strangers DEF TypeOK, Coherent

Peopled(ps) == ps \in [Device -> [Device -> Peer]] /\ \A x \in Device : \A y \in Device : Coherent(ps[x][y])
Linked(ls, as) ==
    /\ ls \in [1..MaxLinks -> Link] /\ as \in [Device -> Seq(1..MaxLinks)]
    /\ \A x \in Device : \A i \in DOMAIN as[x] : ls[as[x][i]].by \in Device
Plain(r, i, s, o, m, e) ==
    /\ r \in [Device -> [Device -> {"none", "in", "removed"}]] /\ i \in [Device -> Seq(Note)]
    /\ s \in [Device -> Nat] /\ o \in [Device -> Nat] /\ m \in [Device -> BOOLEAN]
    /\ e \in 0..MaxEvents
Overruns == [Device -> SUBSET (Device \X {"down", "pair", "ran"})]

LEMMA Typed ==
    /\ TypeOK <=> /\ Peopled(peers) /\ Linked(link, arrivals)
                  /\ Plain(row, inbox, showing, opened, moved, events) /\ overrun \in Overruns
    /\ TypeOK' <=> /\ Peopled(peers') /\ Linked(link', arrivals')
                   /\ Plain(row', inbox', showing', opened', moved', events') /\ overrun' \in Overruns
<1>1. \A ps : Peopled(ps) <=> /\ ps \in [Device -> [Device -> Peer]]
                             /\ \A x \in Device : \A y \in Device :
                                    (ps[x][y].link # NoLink) <=> ps[x][y].phase \in {"hello", "have", "live"}
  <2>1. ASSUME NEW ps, ps \in [Device -> [Device -> Peer]], NEW x \in Device, NEW y \in Device
        PROVE  ps[x][y] \in Peer
    BY <2>1
  <2> QED BY <2>1, Zenon DEF Peopled, Coherent
<1> QED BY <1>1 DEF TypeOK, Linked, Plain, Overruns

(* One peer of one device changes. *)
LEMMA OnePeer ==
    ASSUME NEW ps, Peopled(ps), NEW d \in Device, NEW p \in Device, NEW n, Coherent(n),
           NEW ps2, ps2 = [ps EXCEPT ![d][p] = n]
    PROVE  /\ Peopled(ps2) /\ ps2[d][p] = n
           /\ \A x \in Device : \A y \in Device : x # d \/ y # p => ps2[x][y] = ps[x][y]
BY DEF Peopled, Coherent

(* What is let go of takes no link from whoever waits on one. *)
LEMMA KeptLinks ==
    ASSUME NEW ls, Linked(ls, arrivals'), Kept(ls)
    PROVE  Linked(link', arrivals')
<1>1. FreeLink \in Link
  BY DEF FreeLink, Link
<1>2. \A x \in Device : \A i \in DOMAIN arrivals'[x] : arrivals'[x][i] \in 1..MaxLinks
  <2> SUFFICES ASSUME NEW x \in Device, NEW i \in DOMAIN arrivals'[x] PROVE arrivals'[x][i] \in 1..MaxLinks
    OBVIOUS
  <2>1. arrivals'[x] \in Seq(1..MaxLinks)
    BY DEF Linked
  <2>2. \A S : \A s \in Seq(S) : \A j \in DOMAIN s : s[j] \in S
    OBVIOUS
  <2> QED BY <2>1, <2>2, Zenon
<1>3. \A x \in Device : \A i \in DOMAIN arrivals'[x] : link'[arrivals'[x][i]] = ls[arrivals'[x][i]]
  BY <1>2 DEF Kept, Holds
<1>4. link' \in [1..MaxLinks -> Link]
  BY <1>1 DEF Kept, Linked
<1> QED BY <1>3, <1>4 DEF Linked

LEMMA AbortKeeps ==
    ASSUME TypeOK, NEW d \in Device, NEW gone, gone \subseteq Device, Abort(d, gone)
    PROVE  overrun' \in Overruns /\ \A x \in Device : overrun[x] \subseteq overrun'[x]
<1>1. \A q : LeftOver(d, q) \subseteq {"down", "pair"}
  BY DEF LeftOver
<1>2. overrun \in Overruns
  BY DEF TypeOK, Overruns
<1>3. CASE UNCHANGED overrun
  BY <1>2, <1>3
<1>4. CASE ~UNCHANGED overrun
  <2>1. PICK p \in gone, w \in {"down", "pair"} : overrun' = [overrun EXCEPT ![d] = @ \union {<<p, w>>}]
    BY <1>1, <1>4 DEF Abort
  <2> QED BY <1>2, <2>1 DEF Overruns
<1> QED BY <1>3, <1>4

LEMMA EventKeeps ==
    ASSUME TypeOK, Event \/ Quietly \/ UNCHANGED events
    PROVE  events' \in 0..MaxEvents
BY Strangers DEF TypeOK, Event, Quietly

(* Whatever the last note about y said, it says. *)
Keeps(s, s2, y) == (Silent(s, y) => Silent(s2, y)) /\ \A k : LastSays(s, y, k) => LastSays(s2, y, k)

LEMMA NotesOfOthers ==
    ASSUME NEW s \in Seq(Note), NEW y
    PROVE  /\ Keeps(s, s, y)
           /\ \A n \in Note : n.of # y => Keeps(s, Append(s, n), y)
           /\ s # <<>> /\ Head(s).of # y => Keeps(s, Tail(s), y)
BY AddedNote, HeardNote DEF Keeps

(* A peer that stays as it is stays sound, but for a note about it, or a row that
   changes and nothing that landed to tell of it. *)
LEMMA Untouched ==
    ASSUME NEW x \in Device, NEW y \in Device, SoundAt(x, y), peers'[x][y] = peers[x][y],
           row'[x][y] \in {row[x][y], "in"} \/ moved'[x], moved[x] => moved'[x],
           overrun[x] \subseteq overrun'[x], Keeps(inbox[x], inbox'[x], y)
    PROVE  SoundAt(x, y)'
BY DEF SoundAt, Sound, Keeps

(* What a step leaves alone, where peer p of device d is not meant. *)
Elsewhere(d, p) ==
    /\ \A x \in Device : moved[x] => moved'[x]
    /\ \A x \in Device : overrun[x] \subseteq overrun'[x]
    /\ \A x \in Device : \A y \in Device : x # d \/ y # p =>
            /\ row'[x][y] \in {row[x][y], "in"} \/ moved'[x]
            /\ Keeps(inbox[x], inbox'[x], y)

OnlyPeer(d, p, n) ==
    /\ Peopled(peers') /\ peers'[d][p] = n
    /\ \A x \in Device : \A y \in Device : x # d \/ y # p => peers'[x][y] = peers[x][y]

LEMMA PeerStep ==
    ASSUME ServiceInv, NEW d \in Device, NEW p \in Device, NEW n, OnlyPeer(d, p, n), Elsewhere(d, p),
           p # d => Sound(n, row'[d][p], moved'[d], overrun'[d], inbox'[d], p)
    PROVE  \A x \in Device : \A y \in Device \ {x} : SoundAt(x, y)'
<1> SUFFICES ASSUME NEW x \in Device, NEW y \in Device \ {x} PROVE SoundAt(x, y)'
  OBVIOUS
<1>1. CASE x = d /\ y = p
  BY <1>1 DEF SoundAt, OnlyPeer
<1>2. CASE x # d \/ y # p
  BY <1>2, Entries, Untouched DEF OnlyPeer, Elsewhere
<1> QED BY <1>1, <1>2

LEMMA LoopStep ==
    ASSUME ServiceInv, NEW d \in Device, NEW f, f \in [Device -> Peer], \A y \in Device : Coherent(f[y]),
           peers' = [peers EXCEPT ![d] = f],
           \A y \in Device \ {d} : Sound(f[y], row'[d][y], moved'[d], overrun'[d], inbox'[d], y),
           \A x \in Device \ {d} : /\ row'[x] = row[x] /\ moved'[x] = moved[x]
                                   /\ inbox'[x] = inbox[x] /\ overrun'[x] = overrun[x]
    PROVE  Peopled(peers') /\ \A x \in Device : \A y \in Device \ {x} : SoundAt(x, y)'
<1>1. TypeOK /\ \A x \in Device : \A y \in Device \ {x} : SoundAt(x, y)
  BY Entries
<1>2. Peopled(peers) /\ inbox \in [Device -> Seq(Note)]
  BY <1>1, Typed DEF Plain
<1>3. PICK ps : ps = peers
  OBVIOUS
<1>4. PICK ps2 : ps2 = [ps EXCEPT ![d] = f]
  OBVIOUS
<1>5. Peopled(ps2) /\ ps2[d] = f /\ \A x \in Device : x # d => ps2[x] = ps[x]
  <2>1. Peopled(ps)
    BY <1>2, <1>3
  <2> QED BY <1>4, <2>1 DEF Peopled
<1>6. ps2 = peers'
  BY <1>3, <1>4
<1>7. Peopled(peers') /\ peers'[d] = f /\ \A x \in Device : x # d => peers'[x] = peers[x]
  BY <1>3, <1>5, <1>6
<1>8. ASSUME NEW x \in Device, NEW y \in Device \ {x} PROVE SoundAt(x, y)'
  <2>1. CASE x = d
    BY <1>7, <2>1 DEF SoundAt
  <2>2. CASE x # d
    BY <1>1, <1>7, <2>2 DEF SoundAt
  <2> QED BY <2>1, <2>2
<1> QED BY <1>7, <1>8

(* A pass over peers that are sound. *)
LEMMA PassStep ==
    ASSUME ServiceInv, NEW d \in Device, NEW ps, ps \in [Device -> Peer], NEW m, NEW o,
           \A y \in Device : Coherent(ps[y]), o \subseteq overrun'[d],
           \A y \in Device \ {d} : Sound(ps[y], row[d][y], m, o, inbox'[d], y),
           peers' = [peers EXCEPT ![d] = Pass(d, ps, row[d])], UNCHANGED row,
           \A x \in Device \ {d} : moved'[x] = moved[x] /\ inbox'[x] = inbox[x] /\ overrun'[x] = overrun[x]
    PROVE  Peopled(peers') /\ \A x \in Device : \A y \in Device \ {x} : SoundAt(x, y)'
<1>1. PICK f : f = Pass(d, ps, row[d])
  OBVIOUS
<1>2. \A y \in Device : f[y] = IF y = d THEN NoPeer ELSE DialIfDue(Reload(d, ps[y], row[d][y]))
  BY <1>1 DEF Pass
<1>3. \A y \in Device \ {d} : Coherent(f[y]) /\ Sound(f[y], row[d][y], moved'[d], overrun'[d], inbox'[d], y)
  <2> SUFFICES ASSUME NEW y \in Device \ {d}
               PROVE  Coherent(f[y]) /\ Sound(f[y], row[d][y], moved'[d], overrun'[d], inbox'[d], y)
    OBVIOUS
  <2>1. PICK r, m2, o2, s : r = row[d][y] /\ m2 = moved'[d] /\ o2 = overrun'[d] /\ s = inbox'[d]
    OBVIOUS
  <2>2. Coherent(ps[y]) /\ Sound(ps[y], r, m, o, s, y) /\ o \subseteq o2
    BY <2>1
  <2>3. f[y] = DialIfDue(Reload(d, ps[y], r))
    BY <1>2, <2>1
  <2>4. Coherent(f[y]) /\ Sound(f[y], r, m2, o2, s, y)
    BY <2>2, <2>3, Passed
  <2> QED BY <2>1, <2>4, Zenon
<1>4. \A y \in Device : Coherent(f[y])
  BY <1>2, <1>3, Strangers
<1>5. f \in [Device -> Peer]
  BY <1>1, <1>4 DEF Pass, Coherent
<1>6. peers' = [peers EXCEPT ![d] = f]
  BY <1>1
<1>7. /\ \A y \in Device \ {d} : Sound(f[y], row'[d][y], moved'[d], overrun'[d], inbox'[d], y)
      /\ \A x \in Device \ {d} : row'[x] = row[x]
  BY <1>3
<1> QED BY <1>4, <1>5, <1>6, <1>7, LoopStep

LEMMA SetPeer ==
    ASSUME ServiceInv, NEW d \in Device, NEW p \in Device, NEW n, Coherent(n),
           peers' = [peers EXCEPT ![d][p] = n]
    PROVE  OnlyPeer(d, p, n)
<1>1. Peopled(peers)
  BY Typed DEF ServiceInv
<1> QED BY <1>1 DEF OnlyPeer, Peopled, Coherent

(* The parts of the invariant after a step. *)
LEMMA Together2 ==
    ASSUME Peopled(peers'), Linked(link', arrivals'),
           Plain(row', inbox', showing', opened', moved', events'), overrun' \in Overruns,
           \A x \in Device : \A y \in Device \ {x} : SoundAt(x, y)'
    PROVE  ServiceInv'
BY ByPeer, Typed

LEMMA Parts ==
    ASSUME ServiceInv
    PROVE  /\ TypeOK /\ Peopled(peers) /\ Linked(link, arrivals) /\ overrun \in Overruns
           /\ Plain(row, inbox, showing, opened, moved, events)
           /\ \A x \in Device : \A y \in Device : Coherent(peers[x][y]) /\ peers[x][y] \in Peer
           /\ \A x \in Device : \A y \in Device \ {x} : SoundAt(x, y)
           /\ \A x \in Device : inbox[x] \in Seq(Note) /\ \A y : Keeps(inbox[x], inbox[x], y)
BY Entries, Typed, NotesOfOthers DEF Plain

(* A note is queued. *)
LEMMA Saying ==
    ASSUME ServiceInv, NEW d \in Device, NEW n, n \in Note, inbox' = [inbox EXCEPT ![d] = Append(@, n)]
    PROVE  /\ inbox' \in [Device -> Seq(Note)] /\ LastSays(inbox'[d], n.of, n.kind)
           /\ \A x \in Device : \A y \in Device : x # d \/ y # n.of => Keeps(inbox[x], inbox'[x], y)
<1>1. PICK s : s = inbox[d]
  OBVIOUS
<1>2. s \in Seq(Note) /\ inbox \in [Device -> Seq(Note)]
  BY <1>1, Parts DEF Plain
<1>3. /\ Append(s, n) \in Seq(Note) /\ LastSays(Append(s, n), n.of, n.kind)
      /\ \A y : y # n.of => Keeps(s, Append(s, n), y)
  BY <1>2, AddedNote, NotesOfOthers
<1>4. inbox'[d] = Append(s, n) /\ \A x \in Device : x # d => inbox'[x] = inbox[x]
  BY <1>1, <1>2
<1>5. inbox' \in [Device -> Seq(Note)]
  BY <1>1, <1>2, <1>3
<1> QED BY <1>1, <1>3, <1>4, <1>5, Parts

(* A note is heard. *)
LEMMA Hearing ==
    ASSUME ServiceInv, NEW d \in Device, inbox[d] # <<>>, inbox' = [inbox EXCEPT ![d] = Tail(@)]
    PROVE  /\ inbox' \in [Device -> Seq(Note)] /\ Head(inbox[d]) \in Note
           /\ \A x \in Device : \A y \in Device :
                x # d \/ y # Head(inbox[d]).of => Keeps(inbox[x], inbox'[x], y)
           /\ \A y \in Device : /\ Silent(inbox[d], y) => y # Head(inbox[d]).of
                                /\ \A k : LastSays(inbox[d], y, k) =>
                                    \/ LastSays(inbox'[d], y, k)
                                    \/ Silent(inbox'[d], y) /\ Head(inbox[d]).kind = k
<1>1. PICK s : s = inbox[d]
  OBVIOUS
<1>2. s \in Seq(Note) /\ s # <<>> /\ inbox \in [Device -> Seq(Note)]
  BY <1>1, Parts DEF Plain
<1>3. /\ Tail(s) \in Seq(Note) /\ Head(s) \in Note
      /\ \A y : y # Head(s).of => Keeps(s, Tail(s), y)
      /\ \A y : /\ Silent(s, y) => y # Head(s).of
                /\ \A k : LastSays(s, y, k) =>
                        \/ LastSays(Tail(s), y, k)
                        \/ Silent(Tail(s), y) /\ Head(s).kind = k
  <2>1. ASSUME NEW y
        PROVE  /\ Tail(s) \in Seq(Note) /\ Head(s) \in Note
               /\ Silent(s, y) => y # Head(s).of
               /\ \A k : LastSays(s, y, k) =>
                    \/ LastSays(Tail(s), y, k)
                    \/ Silent(Tail(s), y) /\ Head(s).kind = k
    BY <1>2, HeardNote
  <2>2. \A y : y # Head(s).of => Keeps(s, Tail(s), y)
    BY <1>2, NotesOfOthers
  <2> QED BY <2>1, <2>2, Zenon
<1>4. inbox'[d] = Tail(s) /\ \A x \in Device : x # d => inbox'[x] = inbox[x]
  BY <1>1, <1>2
<1>5. inbox' \in [Device -> Seq(Note)]
  BY <1>1, <1>2, <1>3
<1> QED BY <1>1, <1>3, <1>4, <1>5, Parts

----------------------------------------------------------------------------
(* What the panel asks. *)

LEMMA PairStep ==
    ASSUME ServiceInv, NEW d \in Device, NEW p \in Device \ {d}, Pair(d, p)
    PROVE  ServiceInv'
<1>1. PICK secret \in 1..opened[p] : peers' = [peers EXCEPT ![d][p] = Ticketed(peers[d][p], secret)]
  BY DEF Pair
<1>2. opened[p] \in Nat /\ secret \in Nat
  BY Parts DEF Plain
<1>3. PICK n, q : q = peers[d][p] /\ n = Ticketed(q, secret)
  OBVIOUS
<1>4. PICK r, m, o, s : r = row[d][p] /\ m = moved[d] /\ o = overrun[d] /\ s = inbox[d]
  OBVIOUS
<1>5. Coherent(q) /\ Sound(q, r, m, o, s, p)
  BY <1>3, <1>4, Parts DEF SoundAt
<1>6. Coherent(n) /\ Sound(n, r, m, o, s, p)
  BY <1>2, <1>3, <1>5, TicketedFits
<1>7. UNCHANGED <<row, link, arrivals, inbox, showing, opened, moved, overrun>> /\ events' \in 0..MaxEvents
  BY Parts, EventKeeps DEF Pair
<1>8. OnlyPeer(d, p, n)
  BY <1>1, <1>3, <1>6, SetPeer
<1>9. Elsewhere(d, p)
  BY <1>7, Parts DEF Elsewhere
<1>10. Sound(n, row'[d][p], moved'[d], overrun'[d], inbox'[d], p)
  BY <1>4, <1>6, <1>7
<1>11. \A x \in Device : \A y \in Device \ {x} : SoundAt(x, y)'
  BY <1>8, <1>9, <1>10, PeerStep
<1>12. /\ Peopled(peers') /\ Linked(link', arrivals') /\ overrun' \in Overruns
       /\ Plain(row', inbox', showing', opened', moved', events')
  BY <1>7, <1>8, Parts DEF OnlyPeer, Plain
<1> QED BY <1>11, <1>12, Together2

LEMMA ForgetStep ==
    ASSUME ServiceInv, NEW d \in Device, NEW p \in Device \ {d}, Forget(d, p)
    PROVE  ServiceInv'
<1>1. /\ peers' = [peers EXCEPT ![d][p] = NoPeer] /\ UNCHANGED <<arrivals, inbox, showing, opened>>
      /\ events' \in 0..MaxEvents /\ Kept(link)
  BY Parts, EventKeeps DEF Forget
<1>2. OnlyPeer(d, p, NoPeer)
  BY <1>1, SetPeer, Strangers
<1>3. Linked(link', arrivals')
  BY <1>1, KeptLinks, Parts
<1>4. overrun' \in Overruns /\ \A x \in Device : overrun[x] \subseteq overrun'[x]
  <2>1. CASE UNCHANGED overrun
    BY <2>1, Parts
  <2>2. CASE Abort(d, {p})
    BY <2>2, Parts, AbortKeeps
  <2> QED BY <2>1, <2>2 DEF Forget
<1>5. /\ row' \in [Device -> [Device -> {"none", "in", "removed"}]] /\ moved' \in [Device -> BOOLEAN]
      /\ \A x \in Device : moved[x] => moved'[x]
      /\ \A x \in Device : \A y \in Device : x # d \/ y # p => row'[x][y] = row[x][y]
  <2>1. row \in [Device -> [Device -> {"none", "in", "removed"}]] /\ moved \in [Device -> BOOLEAN]
    BY Parts DEF Plain
  <2>2. CASE UNCHANGED <<row, moved>>
    BY <2>1, <2>2
  <2>3. CASE ~UNCHANGED <<row, moved>>
    <3>1. PICK v \in {"none", "removed"} : row' = [row EXCEPT ![d][p] = v]
      BY <2>3 DEF Forget
    <3>2. PICK b \in BOOLEAN : moved' = [moved EXCEPT ![d] = b] /\ (moved[d] => b)
      BY <2>1, <2>3 DEF Forget
    <3> QED BY <2>1, <3>1, <3>2
  <2> QED BY <2>2, <2>3
<1>6. Elsewhere(d, p)
  BY <1>1, <1>4, <1>5, Parts DEF Elsewhere
<1>7. Sound(NoPeer, row'[d][p], moved'[d], overrun'[d], inbox'[d], p)
  BY NobodySound
<1>8. \A x \in Device : \A y \in Device \ {x} : SoundAt(x, y)'
  BY <1>2, <1>6, <1>7, PeerStep
<1>9. Plain(row', inbox', showing', opened', moved', events')
  BY <1>1, <1>5, Parts DEF Plain
<1> QED BY <1>2, <1>3, <1>4, <1>8, <1>9, Together2 DEF OnlyPeer

(* A step that leaves the peers as they are, and the notes. *)
LEMMA StillStep ==
    ASSUME ServiceInv, UNCHANGED <<peers, inbox>>,
           \A x \in Device : /\ moved[x] => moved'[x]
                             /\ overrun[x] \subseteq overrun'[x]
                             /\ \A y \in Device : row'[x][y] \in {row[x][y], "in"} \/ moved'[x]
    PROVE  \A x \in Device : \A y \in Device \ {x} : SoundAt(x, y)'
BY Parts, Untouched

LEMMA WindowStep ==
    ASSUME ServiceInv, NEW d \in Device, BeginPairing(d) \/ EndPairing(d)
    PROVE  ServiceInv'
<1>1. UNCHANGED <<row, peers, link, arrivals, inbox, moved, overrun>> /\ events' \in 0..MaxEvents
  BY Parts, EventKeeps DEF BeginPairing, EndPairing
<1>2. showing' \in [Device -> Nat] /\ opened' \in [Device -> Nat]
  <2>1. showing \in [Device -> Nat] /\ opened \in [Device -> Nat]
    BY Parts DEF Plain
  <2>2. CASE BeginPairing(d)
    <3>1. opened' \in [Device -> Nat] /\ showing' = [showing EXCEPT ![d] = opened'[d]]
      BY <2>1, <2>2 DEF BeginPairing
    <3> QED BY <2>1, <3>1
  <2>3. CASE EndPairing(d)
    BY <2>1, <2>3 DEF EndPairing
  <2> QED BY <2>2, <2>3
<1>3. \A x \in Device : \A y \in Device \ {x} : SoundAt(x, y)'
  BY <1>1, StillStep
<1> QED BY <1>1, <1>2, <1>3, Parts, Together2 DEF Plain

LEMMA KickStep ==
    ASSUME ServiceInv, NEW d \in Device, Kick(d)
    PROVE  ServiceInv'
<1>1. PICK ps : ps = [p \in Device |-> IF peers[d][p].here THEN [peers[d][p] EXCEPT !.due = TRUE] ELSE peers[d][p]]
  OBVIOUS
<1>2. /\ peers' = [peers EXCEPT ![d] = Pass(d, ps, row[d])] /\ Abort(d, Removed(peers[d], row[d]))
      /\ UNCHANGED <<row, arrivals, inbox, showing, opened, moved>>
      /\ events' \in 0..MaxEvents /\ Kept(link)
  BY <1>1, Parts, EventKeeps DEF Kick, Peopled
<1>3. PICK m, o : m = moved[d] /\ o = overrun[d]
  OBVIOUS
<1>4. /\ \A y \in Device : Coherent(ps[y])
      /\ \A y \in Device \ {d} : Sound(ps[y], row[d][y], m, o, inbox'[d], y)
  <2>1. ASSUME NEW y \in Device PROVE Coherent(ps[y])
    <3>1. PICK q : q = peers[d][y]
      OBVIOUS
    <3>2. Coherent(q) /\ ps[y] = IF q.here THEN [q EXCEPT !.due = TRUE] ELSE q
      BY <1>1, <3>1, Parts
    <3> QED BY <3>2 DEF Coherent, Peer
  <2>2. ASSUME NEW y \in Device \ {d} PROVE Sound(ps[y], row[d][y], m, o, inbox'[d], y)
    <3>1. PICK q : q = peers[d][y]
      OBVIOUS
    <3>2. q \in Peer /\ ps[y] = (IF q.here THEN [q EXCEPT !.due = TRUE] ELSE q)
      BY <1>1, <3>1, Parts
    <3>3. /\ ps[y].here = q.here /\ ps[y].known = q.known /\ ps[y].phase = q.phase
          /\ ps[y].connected = q.connected /\ ps[y].link = q.link
      BY <3>2 DEF Peer
    <3>4. Sound(q, row[d][y], m, o, inbox'[d], y)
      BY <1>2, <1>3, <3>1, Parts DEF SoundAt
    <3> QED BY <3>3, <3>4 DEF Sound, Live
  <2> QED BY <2>1, <2>2
<1>5. ps \in [Device -> Peer]
  BY <1>1, <1>4 DEF Coherent
<1>6. overrun' \in Overruns /\ \A x \in Device : overrun[x] \subseteq overrun'[x]
  <2>1. Removed(peers[d], row[d]) \subseteq Device
    BY DEF Removed
  <2>2. PICK gone : gone = Removed(peers[d], row[d])
    OBVIOUS
  <2> QED BY <1>2, <2>1, <2>2, Parts, AbortKeeps
<1>7. \A x \in Device \ {d} : overrun'[x] = overrun[x]
  BY <1>2, Parts DEF Abort, Overruns
<1>8. Peopled(peers') /\ \A x \in Device : \A y \in Device \ {x} : SoundAt(x, y)'
  BY <1>2, <1>3, <1>4, <1>5, <1>6, <1>7, PassStep
<1>9. Linked(link', arrivals')
  BY <1>2, KeptLinks, Parts
<1> QED BY <1>2, <1>6, <1>8, <1>9, Parts, Together2 DEF Plain

----------------------------------------------------------------------------
(* The loop. *)

(* A peer changes and nothing is said of it, or to it. *)
LEMMA TimeStep ==
    ASSUME ServiceInv, NEW d \in Device, NEW p \in Device, Ripen(d, p) \/ Stand(d, p)
    PROVE  ServiceInv'
<1>1. PICK q : q = peers[d][p]
  OBVIOUS
<1>2. PICK n : n = IF Ripen(d, p) THEN [q EXCEPT !.due = TRUE] ELSE [q EXCEPT !.stood = TRUE]
  OBVIOUS
<1>3. UNCHANGED <<row, link, arrivals, inbox, showing, opened, moved, overrun, events>>
  BY DEF Ripen, Stand
<1>4. peers' = [peers EXCEPT ![d][p] = n]
  <2>1. CASE Ripen(d, p)
    BY <1>1, <1>2, <2>1 DEF Ripen
  <2>2. CASE ~Ripen(d, p)
    BY <1>1, <1>2, <2>2 DEF Stand
  <2> QED BY <2>1, <2>2
<1>5. /\ Coherent(n) /\ n.known = q.known /\ n.here = q.here /\ n.phase = q.phase
      /\ n.link = q.link /\ n.connected = q.connected
  <2>1. Coherent(q)
    BY <1>1, Parts
  <2>2. n = [q EXCEPT !.due = TRUE] \/ n = [q EXCEPT !.stood = TRUE]
    BY <1>2
  <2> QED BY <2>1, <2>2 DEF Coherent, Peer
<1>6. OnlyPeer(d, p, n)
  BY <1>4, <1>5, SetPeer
<1>7. Elsewhere(d, p)
  BY <1>3, Parts DEF Elsewhere
<1>8. p # d => Sound(n, row'[d][p], moved'[d], overrun'[d], inbox'[d], p)
  <2> SUFFICES ASSUME p # d PROVE Sound(n, row[d][p], moved[d], overrun[d], inbox[d], p)
    BY <1>3
  <2>1. Sound(q, row[d][p], moved[d], overrun[d], inbox[d], p)
    BY <1>1, Parts DEF SoundAt
  <2> QED BY <1>5, <2>1 DEF Sound, Live
<1>9. \A x \in Device : \A y \in Device \ {x} : SoundAt(x, y)'
  BY <1>6, <1>7, <1>8, PeerStep
<1> QED BY <1>3, <1>6, <1>9, Parts, Together2 DEF OnlyPeer

LEMMA PassOverStep ==
    ASSUME ServiceInv, NEW d \in Device, PassOver(d)
    PROVE  ServiceInv'
<1>1. PICK ps : ps = peers[d]
  OBVIOUS
<1>2. /\ peers' = [peers EXCEPT ![d] = Pass(d, ps, row[d])] /\ Abort(d, Removed(peers[d], row[d]))
      /\ UNCHANGED <<row, arrivals, inbox, showing, opened>> /\ moved' = [moved EXCEPT ![d] = FALSE]
      /\ events' \in 0..MaxEvents /\ Kept(link)
  BY <1>1, Parts, EventKeeps DEF PassOver
<1>3. PICK m, o : m = moved[d] /\ o = overrun[d]
  OBVIOUS
<1>4. /\ ps \in [Device -> Peer] /\ \A y \in Device : Coherent(ps[y])
      /\ \A y \in Device \ {d} : Sound(ps[y], row[d][y], m, o, inbox'[d], y)
  BY <1>1, <1>2, <1>3, Parts DEF SoundAt, Peopled
<1>5. overrun' \in Overruns /\ \A x \in Device : overrun[x] \subseteq overrun'[x]
  <2>1. PICK gone : gone = Removed(peers[d], row[d])
    OBVIOUS
  <2>2. gone \subseteq Device
    BY <2>1 DEF Removed
  <2> QED BY <1>2, <2>1, <2>2, Parts, AbortKeeps
<1>6. \A x \in Device \ {d} : overrun'[x] = overrun[x] /\ moved'[x] = moved[x]
  BY <1>2, Parts DEF Abort, Overruns, Plain
<1>7. Peopled(peers') /\ \A x \in Device : \A y \in Device \ {x} : SoundAt(x, y)'
  BY ZenonT(60), <1>2, <1>3, <1>4, <1>5, <1>6, PassStep
<1>8. Linked(link', arrivals')
  BY <1>2, KeptLinks, Parts
<1> QED BY <1>2, <1>5, <1>7, <1>8, Parts, Together2 DEF Plain

LEMMA AcceptStep ==
    ASSUME ServiceInv, NEW d \in Device, Accept(d)
    PROVE  ServiceInv'
<1>1. PICK l, p, q : l = Head(arrivals[d]) /\ p = link[l].by /\ q = peers[d][p]
  OBVIOUS
<1>2. arrivals[d] # <<>> /\ arrivals' = [arrivals EXCEPT ![d] = Tail(@)] /\ UNCHANGED <<row, showing, opened, moved>>
  BY DEF Accept
<1>3. l \in 1..MaxLinks /\ p \in Device /\ Linked(link, arrivals')
  <2>1. \A S : \A s \in Seq(S) : s # <<>> =>
            /\ Head(s) \in S /\ 1 \in DOMAIN s /\ Head(s) = s[1] /\ Tail(s) \in Seq(S)
            /\ \A i \in DOMAIN Tail(s) : i + 1 \in DOMAIN s /\ Tail(s)[i] = s[i + 1]
    OBVIOUS
  <2>2. Linked(link, arrivals) /\ arrivals[d] \in Seq(1..MaxLinks)
    BY Parts DEF Linked
  <2>3. l \in 1..MaxLinks /\ p \in Device
    BY ZenonT(60), <1>1, <1>2, <2>1, <2>2 DEF Linked
  <2>4. Tail(arrivals[d]) \in Seq(1..MaxLinks)
    BY <1>2, <2>1, <2>2
  <2>5. arrivals' \in [Device -> Seq(1..MaxLinks)]
    BY <1>2, <2>2, <2>4 DEF Linked
  <2>6. ASSUME NEW x \in Device, NEW i \in DOMAIN arrivals'[x] PROVE link[arrivals'[x][i]].by \in Device
    <3>1. CASE x = d
      <4>1. arrivals'[d] = Tail(arrivals[d])
        BY <1>2, <2>2 DEF Linked
      <4>2. i + 1 \in DOMAIN arrivals[d] /\ arrivals'[d][i] = arrivals[d][i + 1]
        BY ZenonT(60), <1>2, <2>1, <2>2, <3>1, <4>1
      <4> QED BY <2>2, <3>1, <4>2 DEF Linked
    <3>2. CASE x # d
      BY <1>2, <2>2, <3>2 DEF Linked
    <3> QED BY <3>1, <3>2
  <2> QED BY <2>2, <2>3, <2>5, <2>6 DEF Linked
<1>4. Coherent(q)
  BY <1>1, <1>3, Parts
<1>5. CASE Yields(d, p)
  <2>1. UNCHANGED <<peers, inbox, overrun, events>> /\ Kept(link)
    BY <1>1, <1>5 DEF Accept
  <2>2. Linked(link', arrivals')
    BY <1>3, <2>1, KeptLinks
  <2>3. \A x \in Device : \A y \in Device \ {x} : SoundAt(x, y)'
    BY <1>2, <2>1, StillStep
  <2> QED BY <1>2, <2>1, <2>2, <2>3, Parts, Together2
<1>6. CASE ~Yields(d, p)
  <2>1. PICK a, n : a = (IF ~q.here THEN NewPeer ELSE IF Live(q) THEN Aborted(q) ELSE q) /\ n = Listening(a, l)
    OBVIOUS
  <2>2. PICK gone : gone = IF Live(q) THEN {p} ELSE {}
    OBVIOUS
  <2>3. /\ Abort(d, gone) /\ Quietly /\ peers' = [peers EXCEPT ![d][p] = n]
        /\ inbox' = [inbox EXCEPT ![d] = Append(@, Up(p))]
        /\ Kept([link EXCEPT ![l].listener = "hello"])
    BY <1>1, <1>6, <2>1, <2>2 DEF Accept
  <2>4. Coherent(a) /\ a.here /\ (a.known => q.known /\ q.here)
    BY <1>4, <2>1, EndedFits, Strangers
  <2>5. Coherent(n) /\ n.here /\ n.known = a.known /\ n.link # NoLink
    <3>1. l # NoLink
      BY <1>3, Strangers DEF NoLink
    <3> QED BY <1>3, <2>1, <2>4, <3>1, ListeningFits
  <2>6. OnlyPeer(d, p, n)
    BY <1>3, <2>3, <2>5, SetPeer
  <2>7. overrun' \in Overruns /\ \A x \in Device : overrun[x] \subseteq overrun'[x]
    BY <1>3, <2>2, <2>3, Parts, AbortKeeps
  <2>8. Up(p) \in Note /\ Up(p).of = p /\ Up(p).kind = "up"
    BY <1>3 DEF Up, Note
  <2>9. /\ inbox' \in [Device -> Seq(Note)] /\ LastSays(inbox'[d], p, "up")
        /\ \A x \in Device : \A y \in Device : x # d \/ y # p => Keeps(inbox[x], inbox'[x], y)
    BY <2>3, <2>8, Saying
  <2>10. Elsewhere(d, p)
    BY <1>2, <2>7, <2>9 DEF Elsewhere
  <2>11. p # d => Sound(n, row'[d][p], moved'[d], overrun'[d], inbox'[d], p)
    <3> SUFFICES ASSUME p # d PROVE Sound(n, row'[d][p], moved'[d], overrun'[d], inbox'[d], p)
      OBVIOUS
    <3>1. n.known /\ ~moved'[d] => row'[d][p] = "in"
      BY <1>1, <1>2, <1>3, <2>4, <2>5, Parts DEF SoundAt, Sound
    <3> QED BY <2>5, <2>9, <3>1 DEF Sound, Coherent, Live
  <2>12. \A x \in Device : \A y \in Device \ {x} : SoundAt(x, y)'
    BY <1>3, <2>6, <2>10, <2>11, PeerStep
  <2>13. Linked(link', arrivals')
    <3>1. PICK ls : ls = [link EXCEPT ![l].listener = "hello"]
      OBVIOUS
    <3>2. /\ ls \in [1..MaxLinks -> Link] /\ \A k \in 1..MaxLinks : ls[k].by = link[k].by
      BY ZenonT(60), <1>3, <3>1 DEF Linked, Link
    <3>3. Linked(ls, arrivals')
      <4>1. \A S : \A s \in Seq(S) : \A j \in DOMAIN s : s[j] \in S
        OBVIOUS
      <4>2. \A x \in Device : \A i \in DOMAIN arrivals'[x] : arrivals'[x][i] \in 1..MaxLinks
        BY <1>3, <4>1, Zenon DEF Linked
      <4> QED BY <1>3, <3>2, <4>2 DEF Linked
    <3> QED BY <2>3, <3>1, <3>3, KeptLinks
  <2>14. events' \in 0..MaxEvents
    BY <2>3, EventKeeps, Parts
  <2> QED BY <1>2, <2>6, <2>7, <2>9, <2>12, <2>13, <2>14, Parts, Together2 DEF Plain, OnlyPeer
<1> QED BY <1>5, <1>6

(* The note that is heard: what is left of the others says of p what all of them
   said, or it was the last and has been heeded. *)
LEMMA HearUpStep ==
    ASSUME ServiceInv, NEW d \in Device, Hear(d), Head(inbox[d]).kind = "up"
    PROVE  ServiceInv'
<1>1. PICK p, q : p = Head(inbox[d]).of /\ q = peers[d][p]
  OBVIOUS
<1>2. /\ inbox[d] # <<>> /\ inbox' = [inbox EXCEPT ![d] = Tail(@)]
      /\ UNCHANGED <<row, arrivals, showing, opened, moved, link, overrun, events>>
      /\ peers' = [peers EXCEPT ![d][p].connected = peers[d][p].here, ![d][p].stood = FALSE]
  BY <1>1 DEF Hear, HearUp
<1>3. PICK a, n : a = [q EXCEPT !.connected = q.here] /\ n = [a EXCEPT !.stood = FALSE]
  OBVIOUS
<1>4. p \in Device /\ Coherent(q)
  BY <1>1, <1>2, Hearing, Parts DEF Note
<1>5. /\ Coherent(a) /\ a.known = q.known /\ a.here = q.here /\ a.phase = q.phase
      /\ a.link = q.link /\ a.connected = q.here
  BY <1>3, <1>4 DEF Coherent, Peer
<1>6. /\ Coherent(n) /\ n.known = q.known /\ n.here = q.here /\ n.phase = q.phase
      /\ n.link = q.link /\ n.connected = q.here
  BY <1>3, <1>5 DEF Coherent, Peer
<1>7. OnlyPeer(d, p, n)
  <2>1. Peopled(peers)
    BY Parts
  <2>2. peers' = [peers EXCEPT ![d][p] = n]
    BY <1>1, <1>2, <1>3, <1>4, <2>1 DEF Peopled
  <2> QED BY <1>4, <1>6, <2>2, SetPeer
<1>8. Elsewhere(d, p)
  BY <1>1, <1>2, Hearing DEF Elsewhere
<1>9. p # d => Sound(n, row'[d][p], moved'[d], overrun'[d], inbox'[d], p)
  <2> SUFFICES ASSUME p # d PROVE Sound(n, row[d][p], moved[d], overrun[d], inbox'[d], p)
    BY <1>2
  <2>1. Sound(q, row[d][p], moved[d], overrun[d], inbox[d], p)
    BY <1>1, <1>4, Parts DEF SoundAt
  <2>2. /\ ~Silent(inbox[d], p)
        /\ LastSays(inbox[d], p, "up") => LastSays(inbox'[d], p, "up") \/ Silent(inbox'[d], p)
        /\ LastSays(inbox[d], p, "down") => LastSays(inbox'[d], p, "down")
    <3>1. /\ Silent(inbox[d], p) => p # Head(inbox[d]).of
          /\ \A k : LastSays(inbox[d], p, k) =>
                \/ LastSays(inbox'[d], p, k)
                \/ Silent(inbox'[d], p) /\ Head(inbox[d]).kind = k
      BY <1>2, <1>4, Hearing
    <3> QED BY <1>1, <3>1
  <2>3. q.link # NoLink => q.here
    BY <1>4, <2>1 DEF Sound, Coherent, Live
  <2> QED BY <1>6, <2>1, <2>2, <2>3 DEF Sound, Live
<1>10. \A x \in Device : \A y \in Device \ {x} : SoundAt(x, y)'
  BY <1>4, <1>7, <1>8, <1>9, PeerStep
<1>11. inbox' \in [Device -> Seq(Note)]
  BY <1>2, Hearing
<1> QED BY <1>2, <1>7, <1>10, <1>11, Parts, Together2 DEF OnlyPeer, Plain

LEMMA HearDownStep ==
    ASSUME ServiceInv, NEW d \in Device, Hear(d), Head(inbox[d]).kind = "down"
    PROVE  ServiceInv'
<1>1. PICK p, q : p = Head(inbox[d]).of /\ q = peers[d][p]
  OBVIOUS
<1>2. /\ inbox[d] # <<>> /\ inbox' = [inbox EXCEPT ![d] = Tail(@)]
      /\ UNCHANGED <<row, arrivals, showing, opened, moved>>
  BY DEF Hear
<1>3. PICK late \in BOOLEAN : HearDown(d, p, late)
  BY <1>1 DEF Hear
<1>4. p \in Device /\ Coherent(q) /\ inbox' \in [Device -> Seq(Note)]
  BY <1>1, <1>2, Hearing, Parts DEF Note
<1>5. PICK q2 : q2 = IF q.here THEN [q EXCEPT !.connected = FALSE, !.stood = FALSE, !.due = q.stood] ELSE NoPeer
  OBVIOUS
<1>6. PICK seen : seen = IF late THEN [q2 EXCEPT !.phase = "ending"] ELSE q2
  OBVIOUS
<1>7. PICK orphan \in BOOLEAN : orphan = (q2.here /\ ~q2.known /\ ~Live(seen))
  OBVIOUS
<1>8. PICK after : after = IF orphan THEN [peers[d] EXCEPT ![p] = NoPeer]
                           ELSE Pass(d, [peers[d] EXCEPT ![p] = seen], row[d])
  OBVIOUS
<1>9. /\ late => q2.here /\ ~Live(q2)
      /\ peers' = [peers EXCEPT ![d] = IF late THEN [after EXCEPT ![p].phase = "none"] ELSE after]
      /\ IF late THEN Event /\ UNCHANGED overrun
         ELSE Abort(d, IF orphan THEN {} ELSE Removed(peers[d], row[d])) /\ Quietly
      /\ Kept(link)
  BY <1>1, <1>3, <1>5, <1>6, <1>7, <1>8 DEF HearDown
<1>10. /\ Coherent(q2) /\ (~q.here => q2 = NoPeer)
       /\ q.here => /\ q2.here /\ q2.known = q.known /\ q2.phase = q.phase /\ q2.link = q.link
                    /\ ~q2.connected
  <2>1. CASE q.here
    <3>1. q2 = [q EXCEPT !.connected = FALSE, !.stood = FALSE, !.due = q.stood]
      BY <1>5, <2>1
    <3> QED BY <1>4, <2>1, <3>1 DEF Coherent, Peer
  <2>2. CASE ~q.here
    BY <1>5, <2>2, Strangers
  <2> QED BY <2>1, <2>2
<1>11. p # d => Sound(q2, row[d][p], moved[d], overrun[d], inbox'[d], p)
  <2> SUFFICES ASSUME p # d PROVE Sound(q2, row[d][p], moved[d], overrun[d], inbox'[d], p)
    OBVIOUS
  <2>1. Sound(q, row[d][p], moved[d], overrun[d], inbox[d], p)
    BY <1>1, <1>4, Parts DEF SoundAt
  <2>2. /\ ~Silent(inbox[d], p)
        /\ LastSays(inbox[d], p, "up") => LastSays(inbox'[d], p, "up")
        /\ LastSays(inbox[d], p, "down") => LastSays(inbox'[d], p, "down") \/ Silent(inbox'[d], p)
    BY <1>1, <1>2, <1>4, Hearing
  <2>3. CASE q.here
    BY <1>10, <2>1, <2>2, <2>3 DEF Sound, Live
  <2>4. CASE ~q.here
    BY <1>10, <2>4, NobodySound
  <2> QED BY <2>3, <2>4
<1>12. overrun' \in Overruns /\ \A x \in Device : overrun[x] \subseteq overrun'[x]
  <2>1. CASE late
    BY <1>9, <2>1, Parts
  <2>2. CASE ~late
    <3>1. PICK gone : gone = IF orphan THEN {} ELSE Removed(peers[d], row[d])
      OBVIOUS
    <3>2. gone \subseteq Device
      BY <3>1 DEF Removed
    <3> QED BY <1>9, <2>2, <3>1, <3>2, Parts, AbortKeeps
  <2> QED BY <2>1, <2>2
<1>13. /\ \A x \in Device \ {d} : /\ row'[x] = row[x] /\ moved'[x] = moved[x]
                                  /\ inbox'[x] = inbox[x] /\ overrun'[x] = overrun[x]
       /\ events' \in 0..MaxEvents
  <2>1. \A x \in Device \ {d} : overrun'[x] = overrun[x]
    BY <1>9, Parts DEF Abort, Overruns
  <2>2. events' \in 0..MaxEvents
    BY <1>9, EventKeeps, Parts
  <2>3. \A x \in Device \ {d} : inbox'[x] = inbox[x]
    BY <1>2, Parts DEF Plain
  <2> QED BY <1>2, <2>1, <2>2, <2>3
<1>14. \A y \in Device \ {d, p} : Sound(peers[d][y], row[d][y], moved[d], overrun[d], inbox'[d], y)
  <2> SUFFICES ASSUME NEW y \in Device \ {d, p}
               PROVE  Sound(peers[d][y], row[d][y], moved[d], overrun[d], inbox'[d], y)
    OBVIOUS
  <2>1. Keeps(inbox[d], inbox'[d], y)
    BY <1>1, <1>2, Hearing
  <2>2. Sound(peers[d][y], row[d][y], moved[d], overrun[d], inbox[d], y)
    BY Parts DEF SoundAt
  <2> QED BY <2>1, <2>2 DEF Sound, Keeps
<1>15. PICK ps : ps = [peers[d] EXCEPT ![p] = q2]
  OBVIOUS
<1>16. /\ ps \in [Device -> Peer] /\ ps[p] = q2 /\ \A y \in Device : y # p => ps[y] = peers[d][y]
       /\ \A y \in Device : Coherent(ps[y])
       /\ \A y \in Device \ {d} : Sound(ps[y], row[d][y], moved[d], overrun[d], inbox'[d], y)
  <2>1. peers[d] \in [Device -> Peer]
    BY Parts DEF Peopled
  <2>2. /\ ps \in [Device -> Peer] /\ ps[p] = q2 /\ \A y \in Device : y # p => ps[y] = peers[d][y]
    BY <1>4, <1>10, <1>15, <2>1 DEF Coherent
  <2> QED BY <1>10, <1>11, <1>14, <2>2, Parts
<1>17. Peopled(peers') /\ \A x \in Device : \A y \in Device \ {x} : SoundAt(x, y)'
  <2>1. CASE orphan
    <3>1. ~late
      BY <1>6, <1>7, <1>9, <1>10, <2>1 DEF Live, Coherent, Peer
    <3>2. PICK f : f = [peers[d] EXCEPT ![p] = NoPeer]
      OBVIOUS
    <3>3. peers' = [peers EXCEPT ![d] = f]
      BY <1>8, <1>9, <2>1, <3>1, <3>2
    <3>4. /\ f \in [Device -> Peer] /\ f[p] = NoPeer /\ \A y \in Device : y # p => f[y] = peers[d][y]
      <4>1. peers[d] \in [Device -> Peer]
        BY Parts DEF Peopled
      <4> QED BY <1>4, <3>2, <4>1, Strangers DEF Coherent
    <3>5. \A y \in Device : Coherent(f[y])
      BY <3>4, Strangers, Parts
    <3>6. \A y \in Device \ {d} : Sound(f[y], row'[d][y], moved'[d], overrun'[d], inbox'[d], y)
      <4> SUFFICES ASSUME NEW y \in Device \ {d}
                   PROVE  Sound(f[y], row'[d][y], moved'[d], overrun'[d], inbox'[d], y)
        OBVIOUS
      <4>1. CASE y = p
        BY <3>4, <4>1, NobodySound
      <4>2. CASE y # p
        <5>1. Sound(peers[d][y], row[d][y], moved[d], overrun[d], inbox'[d], y)
          BY <1>14, <4>2
        <5>2. f[y] = peers[d][y]
          BY <3>4, <4>2
        <5> QED BY <1>2, <1>12, <5>1, <5>2 DEF Sound
      <4> QED BY <4>1, <4>2
    <3> QED BY <1>13, <3>3, <3>4, <3>5, <3>6, LoopStep
  <2>2. CASE ~orphan /\ ~late
    <3>1. peers' = [peers EXCEPT ![d] = Pass(d, ps, row[d])]
      BY <1>6, <1>8, <1>9, <1>15, <2>2
    <3>2. PICK m, o : m = moved[d] /\ o = overrun[d]
      OBVIOUS
    <3>3. \A y \in Device \ {d} : Sound(ps[y], row[d][y], m, o, inbox'[d], y)
      BY <1>16, <3>2
    <3>4. /\ \A x \in Device \ {d} : /\ moved'[x] = moved[x]
                                     /\ inbox'[x] = inbox[x] /\ overrun'[x] = overrun[x]
          /\ o \subseteq overrun'[d] /\ UNCHANGED row
      BY <1>2, <1>12, <1>13, <3>2
    <3>5. ps \in [Device -> Peer] /\ \A y \in Device : Coherent(ps[y])
      BY <1>16
    <3> QED BY <3>1, <3>3, <3>4, <3>5, PassStep
  <2>3. CASE ~orphan /\ late
    <3>1. PICK f : f = [Pass(d, [peers[d] EXCEPT ![p] = seen], row[d]) EXCEPT ![p].phase = "none"]
      OBVIOUS
    <3>2. peers' = [peers EXCEPT ![d] = f]
      BY <1>8, <1>9, <2>3, <3>1
    <3>3. /\ DOMAIN f = Device
          /\ \A y \in Device : y # p => f[y] = Pass(d, ps, row[d])[y]
          /\ p # d => f[p] = [DialIfDue(Reload(d, seen, row[d][p])) EXCEPT !.phase = "none"]
          /\ p = d => f[p] = [NoPeer EXCEPT !.phase = "none"]
      <4>1. peers[d] \in [Device -> Peer]
        BY Parts DEF Peopled
      <4> QED BY <1>4, <1>15, <3>1, <4>1 DEF Pass
    <3>4. ASSUME NEW y \in Device \ {p}
          PROVE  Coherent(f[y]) /\ (y # d => Sound(f[y], row'[d][y], moved'[d], overrun'[d], inbox'[d], y))
      <4>1. f[y] = IF y = d THEN NoPeer ELSE DialIfDue(Reload(d, ps[y], row[d][y]))
        BY <3>3 DEF Pass
      <4>2. CASE y = d
        BY <4>1, <4>2, Strangers
      <4>3. CASE y # d
        <5>1. PICK r, m, o, m2, o2, s : /\ r = row[d][y] /\ m = moved[d] /\ o = overrun[d]
                                        /\ m2 = moved'[d] /\ o2 = overrun'[d] /\ s = inbox'[d]
          OBVIOUS
        <5>2. Coherent(ps[y]) /\ Sound(ps[y], r, m, o, s, y) /\ o \subseteq o2
          BY <1>12, <1>16, <4>3, <5>1
        <5>3. f[y] = DialIfDue(Reload(d, ps[y], r))
          BY <4>1, <4>3, <5>1
        <5>4. Coherent(f[y]) /\ Sound(f[y], r, m2, o2, s, y)
          BY <5>2, <5>3, Passed
        <5>5. row'[d][y] = r
          BY <1>2, <5>1
        <5> QED BY <5>1, <5>4, <5>5, Zenon
      <4> QED BY <4>2, <4>3
    <3>5. Coherent(f[p]) /\ (p # d => Sound(f[p], row'[d][p], moved'[d], overrun'[d], inbox'[d], p))
      <4>1. CASE p = d
        <5>1. f[p] \in Peer /\ f[p].phase = "none" /\ f[p].link = NoPeer.link
          BY <3>3, <4>1, Strangers DEF Coherent, Peer
        <5> QED BY <4>1, <5>1, Strangers DEF Coherent
      <4>2. CASE p # d
        <5>1. PICK r : r = row[d][p]
          OBVIOUS
        <5>2. /\ q2.here /\ q2.phase = "none" /\ q2 \in Peer /\ q2.link = NoLink
              /\ seen = [q2 EXCEPT !.phase = "ending"]
          BY <1>6, <1>9, <1>10, <2>3 DEF Coherent, Live
        <5>3. seen.phase = "ending" /\ seen.here /\ Live(seen) /\ seen.known = q2.known
          BY <5>2 DEF Peer, Live
        <5>4. \/ r = "in" /\ f[p] = [[seen EXCEPT !.known = TRUE] EXCEPT !.phase = "none"]
              \/ ~seen.known /\ f[p] = [seen EXCEPT !.phase = "none"]
              \/ f[p] = [NoPeer EXCEPT !.phase = "none"]
          <6>1. f[p] = [DialIfDue(Reload(d, seen, r)) EXCEPT !.phase = "none"]
            BY <3>3, <4>2, <5>1
          <6>2. CASE r = "in"
            <7>1. Reload(d, seen, r) = [seen EXCEPT !.known = TRUE]
              BY <5>3, <6>2 DEF Reload
            <7>2. Live([seen EXCEPT !.known = TRUE])
              BY <5>2 DEF Live, Peer
            <7> QED BY <6>1, <6>2, <7>1, <7>2 DEF DialIfDue
          <6>3. CASE r # "in" /\ ~seen.known
            BY <5>3, <6>1, <6>3 DEF DialIfDue, Reload
          <6>4. CASE r # "in" /\ seen.known
            <7>1. Reload(d, seen, r) = NoPeer
              BY <5>3, <6>4 DEF Reload
            <7> QED BY <6>1, <7>1, Strangers DEF DialIfDue
          <6> QED BY <6>2, <6>3, <6>4
        <5>5. CASE f[p] = [NoPeer EXCEPT !.phase = "none"]
          <6>1. /\ f[p] \in Peer /\ f[p].phase = "none" /\ f[p].link = NoLink /\ ~f[p].here
                /\ ~f[p].known /\ ~f[p].connected
            BY <5>5, Strangers DEF Coherent, Peer
          <6> QED BY <6>1 DEF Coherent, Sound, Live
        <5>6. CASE f[p] # [NoPeer EXCEPT !.phase = "none"]
          <6>1. /\ f[p] \in Peer /\ f[p].phase = "none" /\ f[p].link = NoLink /\ f[p].here
                /\ f[p].known => r = "in" /\ f[p].connected = q2.connected
            <7>1. CASE r = "in" /\ f[p] = [[seen EXCEPT !.known = TRUE] EXCEPT !.phase = "none"]
              BY <5>2, <7>1 DEF Peer
            <7>2. CASE ~seen.known /\ f[p] = [seen EXCEPT !.phase = "none"]
              BY <5>2, <7>2 DEF Peer
            <7> QED BY <5>4, <5>6, <7>1, <7>2
          <6>2. Sound(q2, row[d][p], moved[d], overrun[d], inbox'[d], p)
            BY <1>11, <4>2
          <6>3. f[p].connected = q2.connected
            <7>1. CASE r = "in" /\ f[p] = [[seen EXCEPT !.known = TRUE] EXCEPT !.phase = "none"]
              BY <5>2, <7>1 DEF Peer
            <7>2. CASE ~seen.known /\ f[p] = [seen EXCEPT !.phase = "none"]
              BY <5>2, <7>2 DEF Peer
            <7> QED BY <5>4, <5>6, <7>1, <7>2
          <6> QED BY <1>2, <1>9, <2>3, <5>1, <5>2, <6>1, <6>2, <6>3 DEF Coherent, Sound, Live
        <5> QED BY <5>5, <5>6
      <4> QED BY <4>1, <4>2
    <3>6. /\ f \in [Device -> Peer] /\ \A y \in Device : Coherent(f[y])
          /\ \A y \in Device \ {d} : Sound(f[y], row'[d][y], moved'[d], overrun'[d], inbox'[d], y)
      <4>1. \A y \in Device : Coherent(f[y])
        BY <3>4, <3>5
      <4>2. f = [y \in Device |-> f[y]]
        BY ZenonT(60), <3>1, <3>3 DEF Pass
      <4> QED BY <3>4, <3>5, <4>1, <4>2 DEF Coherent
    <3> QED BY <1>13, <3>2, <3>6, LoopStep
  <2> QED BY <2>1, <2>2, <2>3
<1>18. Linked(link', arrivals')
  BY <1>2, <1>9, KeptLinks, Parts
<1> QED BY <1>2, <1>4, <1>12, <1>13, <1>17, <1>18, Parts, Together2 DEF Plain

LEMMA HearStep ==
    ASSUME ServiceInv, NEW d \in Device, Hear(d)
    PROVE  ServiceInv'
<1>1. inbox[d] # <<>> /\ inbox' = [inbox EXCEPT ![d] = Tail(@)]
  BY DEF Hear
<1>2. Head(inbox[d]) \in Note
  BY <1>1, Hearing
<1>3. Head(inbox[d]).kind \in {"up", "down"}
  BY <1>2 DEF Note
<1> QED BY <1>3, HearUpStep, HearDownStep

(* What an aborted task was in the middle of. *)
LEMMA RunOnStep ==
    ASSUME ServiceInv, NEW d \in Device, RunOn(d)
    PROVE  ServiceInv'
<1>1. PICK w \in overrun[d] :
        /\ w[2] # "ran"
        /\ overrun' = [overrun EXCEPT ![d] = (@ \ {w}) \union {<<w[1], "ran">>}]
        /\ inbox' = IF w[2] = "down"
                    THEN [inbox EXCEPT ![d] = Append(@, Down(w[1]))] ELSE inbox
        /\ row' = IF w[2] = "pair" THEN [row EXCEPT ![d][w[1]] = "in"] ELSE row
        /\ moved' = [moved EXCEPT ![d] = @ \/ row' # row]
        /\ UNCHANGED <<peers, link, arrivals, showing, opened, events>>
  BY DEF RunOn
<1>2. w[1] \in Device /\ overrun \in Overruns
  BY Parts DEF Overruns
<1>3. Down(w[1]) \in Note /\ inbox' \in [Device -> Seq(Note)] /\ \A x \in Device : x # d => inbox'[x] = inbox[x]
  <2>1. Down(w[1]) \in Note
    BY <1>2 DEF Down, Note
  <2>2. CASE w[2] = "down"
    <3>1. inbox' = [inbox EXCEPT ![d] = Append(@, Down(w[1]))]
      BY <1>1, <2>2
    <3>2. inbox' \in [Device -> Seq(Note)]
      BY <2>1, <3>1, Saying
    <3> QED BY <2>1, <3>1, <3>2, Parts DEF Plain
  <2>3. CASE w[2] # "down"
    BY <1>1, <2>1, <2>3, Parts DEF Plain
  <2> QED BY <2>2, <2>3
<1>4. /\ row' \in [Device -> [Device -> {"none", "in", "removed"}]]
      /\ \A x \in Device : \A y \in Device : row'[x][y] \in {row[x][y], "in"}
  BY <1>1, <1>2, Parts DEF Plain
<1>5. moved' \in [Device -> BOOLEAN] /\ \A x \in Device : moved[x] => moved'[x]
  <2>1. PICK b \in BOOLEAN : b = (row' # row)
    OBVIOUS
  <2>2. moved' = [moved EXCEPT ![d] = @ \/ b] /\ moved \in [Device -> BOOLEAN]
    BY <1>1, <2>1, Parts DEF Plain
  <2> QED BY <2>2
<1>6. /\ overrun' \in Overruns /\ overrun[d] # {} /\ overrun'[d] # {}
      /\ \A x \in Device : x # d => overrun'[x] = overrun[x]
  <2>1. <<w[1], "ran">> \in Device \X {"down", "pair", "ran"}
    BY <1>2
  <2> QED BY <1>1, <1>2, <2>1 DEF Overruns
<1>7. \A x \in Device : \A y \in Device \ {x} : SoundAt(x, y)'
  <2> SUFFICES ASSUME NEW x \in Device, NEW y \in Device \ {x} PROVE SoundAt(x, y)'
    OBVIOUS
  <2>1. SoundAt(x, y) /\ peers' = peers
    BY <1>1, Parts
  <2>2. CASE x = d
    BY <1>4, <1>5, <1>6, <2>1, <2>2 DEF SoundAt, Sound
  <2>3. CASE x # d
    BY <1>3, <1>4, <1>5, <1>6, <2>1, <2>3, Untouched, Parts
  <2> QED BY <2>2, <2>3
<1> QED BY <1>1, <1>3, <1>4, <1>5, <1>6, <1>7, Parts, Together2 DEF Plain

----------------------------------------------------------------------------
(* A session. *)

LEMMA AppendedAt ==
    ASSUME NEW S, NEW s \in Seq(S), NEW e \in S, NEW i \in DOMAIN Append(s, e)
    PROVE  Append(s, e)[i] = e \/ (i \in DOMAIN s /\ Append(s, e)[i] = s[i])
OBVIOUS

(* A task that is over says so. *)
LEMMA EndsStep ==
    ASSUME ServiceInv, NEW d \in Device, NEW p \in Device \ {d}, Ends(d, p), Live(peers[d][p]),
           UNCHANGED <<row, moved, overrun>>
    PROVE  /\ Peopled(peers') /\ inbox' \in [Device -> Seq(Note)]
           /\ \A x \in Device : \A y \in Device \ {x} : SoundAt(x, y)'
<1>1. PICK q, n : q = peers[d][p] /\ n = Ended(q)
  OBVIOUS
<1>2. Coherent(q) /\ q.here
  BY <1>1, Parts DEF SoundAt, Sound
<1>3. Coherent(n) /\ ~Live(n) /\ n.known = q.known /\ n.here
  BY <1>1, <1>2, EndedFits
<1>4. peers' = [peers EXCEPT ![d][p] = n] /\ inbox' = [inbox EXCEPT ![d] = Append(@, Down(p))]
  BY <1>1 DEF Ends
<1>5. Down(p) \in Note /\ Down(p).of = p /\ Down(p).kind = "down"
  BY DEF Down, Note
<1>6. /\ inbox' \in [Device -> Seq(Note)] /\ LastSays(inbox'[d], p, "down")
      /\ \A x \in Device : \A y \in Device : x # d \/ y # p => Keeps(inbox[x], inbox'[x], y)
  BY <1>4, <1>5, Saying
<1>7. OnlyPeer(d, p, n)
  BY <1>3, <1>4, SetPeer
<1>8. Elsewhere(d, p)
  BY <1>6 DEF Elsewhere
<1>9. Sound(n, row'[d][p], moved'[d], overrun'[d], inbox'[d], p)
  <2>1. n.known /\ ~moved'[d] => row'[d][p] = "in"
    BY <1>1, <1>3, Parts DEF SoundAt, Sound
  <2> QED BY <1>3, <1>6, <2>1 DEF Sound, Coherent, Live
<1> QED BY <1>6, <1>7, <1>8, <1>9, PeerStep DEF OnlyPeer

LEMMA DialFailsStep ==
    ASSUME ServiceInv, NEW d \in Device, NEW p \in Device \ {d}, DialFails(d, p)
    PROVE  ServiceInv'
<1>1. /\ Ends(d, p) /\ Live(peers[d][p]) /\ events' \in 0..MaxEvents
      /\ UNCHANGED <<row, link, arrivals, showing, opened, moved, overrun>>
  BY Parts, EventKeeps DEF DialFails, Live
<1>2. /\ Peopled(peers') /\ inbox' \in [Device -> Seq(Note)]
      /\ \A x \in Device : \A y \in Device \ {x} : SoundAt(x, y)'
  BY <1>1, EndsStep
<1> QED BY <1>1, <1>2, Parts, Together2 DEF Plain

LEMMA CloseStep ==
    ASSUME ServiceInv, NEW d \in Device, NEW p \in Device \ {d}, Close(d, p)
    PROVE  ServiceInv'
<1>1. /\ Ends(d, p) /\ Kept(link)
      /\ UNCHANGED <<row, arrivals, showing, opened, moved, overrun, events>>
  BY DEF Close
<1>2. Live(peers[d][p])
  BY Parts DEF Close, Coherent, Live
<1>3. /\ Peopled(peers') /\ inbox' \in [Device -> Seq(Note)]
      /\ \A x \in Device : \A y \in Device \ {x} : SoundAt(x, y)'
  BY <1>1, <1>2, EndsStep
<1>4. Linked(link', arrivals')
  BY <1>1, KeptLinks, Parts
<1> QED BY <1>1, <1>3, <1>4, Parts, Together2 DEF Plain

LEMMA ReachStep ==
    ASSUME ServiceInv, NEW d \in Device, NEW p \in Device \ {d}, Reach(d, p)
    PROVE  ServiceInv'
<1>1. PICK l \in 1..MaxLinks :
        /\ Free(l)
        /\ peers' = [peers EXCEPT ![d][p].phase = "hello", ![d][p].link = l]
        /\ arrivals' = [arrivals EXCEPT ![p] = Append(@, l)]
        /\ link' = [link EXCEPT ![l] = [by |-> d, to |-> p, secret |-> peers[d][p].secret,
                        dialer |-> "hello", listener |-> "none", cut |-> FALSE]]
  BY DEF Reach
<1>2. /\ peers[d][p].phase = "dial" /\ inbox' = [inbox EXCEPT ![d] = Append(@, Up(p))]
      /\ UNCHANGED <<row, showing, opened, moved, overrun, events>>
  BY DEF Reach
<1>3. PICK q, a, n : q = peers[d][p] /\ a = [q EXCEPT !.phase = "hello"] /\ n = [a EXCEPT !.link = l]
  OBVIOUS
<1>4. Coherent(q) /\ q.here /\ l # NoLink /\ l \in 0..MaxLinks
  BY <1>2, <1>3, Parts, Strangers DEF SoundAt, Sound, Live, NoLink
<1>5. a \in Peer /\ a.phase = "hello" /\ a.here /\ a.known = q.known
  BY <1>3, <1>4 DEF Coherent, Peer
<1>6. Coherent(n) /\ n.here /\ n.known = q.known /\ n.link = l
  BY <1>3, <1>4, <1>5 DEF Coherent, Peer
<1>7. OnlyPeer(d, p, n)
  <2>1. Peopled(peers)
    BY Parts
  <2>2. peers' = [peers EXCEPT ![d][p] = n]
    BY <1>1, <1>3, <1>4, <2>1 DEF Peopled
  <2> QED BY <1>6, <2>2, SetPeer
<1>8. Up(p) \in Note /\ Up(p).of = p /\ Up(p).kind = "up"
  BY DEF Up, Note
<1>9. /\ inbox' \in [Device -> Seq(Note)] /\ LastSays(inbox'[d], p, "up")
      /\ \A x \in Device : \A y \in Device : x # d \/ y # p => Keeps(inbox[x], inbox'[x], y)
  BY <1>2, <1>8, Saying
<1>10. Elsewhere(d, p)
  BY <1>2, <1>9 DEF Elsewhere
<1>11. Sound(n, row'[d][p], moved'[d], overrun'[d], inbox'[d], p)
  <2>1. n.known /\ ~moved'[d] => row'[d][p] = "in"
    BY <1>2, <1>3, <1>6, Parts DEF SoundAt, Sound
  <2> QED BY <1>4, <1>6, <1>9, <2>1 DEF Sound, Coherent, Live
<1>12. Linked(link', arrivals')
  <2>1. Linked(link, arrivals)
    BY Parts
  <2>2. PICK v : v = [by |-> d, to |-> p, secret |-> peers[d][p].secret,
                      dialer |-> "hello", listener |-> "none", cut |-> FALSE]
    OBVIOUS
  <2>3. v \in Link /\ v.by = d
    BY <1>3, <1>4, <2>2 DEF Link, Coherent, Peer
  <2>4. link' = [link EXCEPT ![l] = v]
    BY <1>1, <2>2
  <2>5. link' \in [1..MaxLinks -> Link] /\ \A k \in 1..MaxLinks : link[k].by \in Device => link'[k].by \in Device
    BY <2>1, <2>3, <2>4 DEF Linked
  <2>6. link'[l].by \in Device
    BY <2>1, <2>3, <2>4 DEF Linked
  <2>7. \A S : \A s \in Seq(S) : \A e \in S :
            /\ Append(s, e) \in Seq(S)
            /\ \A j \in DOMAIN Append(s, e) : Append(s, e)[j] = e \/ (j \in DOMAIN s /\ Append(s, e)[j] = s[j])
            /\ \A j \in DOMAIN s : s[j] \in S
    OBVIOUS
  <2>8. arrivals' \in [Device -> Seq(1..MaxLinks)]
    <3>1. Append(arrivals[p], l) \in Seq(1..MaxLinks)
      BY <2>1, <2>7, Zenon DEF Linked
    <3> QED BY <1>1, <2>1, <3>1 DEF Linked
  <2>9. ASSUME NEW x \in Device, NEW i \in DOMAIN arrivals'[x] PROVE link'[arrivals'[x][i]].by \in Device
    <3>1. arrivals[x] \in Seq(1..MaxLinks) /\ \A j \in DOMAIN arrivals[x] : link[arrivals[x][j]].by \in Device
      BY <2>1 DEF Linked
    <3>2. \A j \in DOMAIN arrivals[x] : arrivals[x][j] \in 1..MaxLinks
      BY <2>7, <3>1, Zenon
    <3>3. CASE x = p
      <4>1. arrivals'[x] = Append(arrivals[x], l)
        BY <1>1, <2>1, <3>3 DEF Linked
      <4>2. arrivals'[x][i] = l \/ (i \in DOMAIN arrivals[x] /\ arrivals'[x][i] = arrivals[x][i])
        <5>1. PICK s, t : s = arrivals[x] /\ t = Append(s, l) /\ t = arrivals'[x]
          BY <4>1
        <5>2. s \in Seq(1..MaxLinks) /\ i \in DOMAIN Append(s, l) /\ l \in 1..MaxLinks
          BY <1>1, <3>1, <5>1
        <5>3. Append(s, l)[i] = l \/ (i \in DOMAIN s /\ Append(s, l)[i] = s[i])
          <6>1. PICK S : S = 1..MaxLinks
            OBVIOUS
          <6> QED BY <5>2, <6>1, AppendedAt
        <5> QED BY <5>1, <5>3
      <4> QED BY <2>5, <2>6, <3>1, <3>2, <4>2
    <3>4. CASE x # p
      <4>1. arrivals'[x] = arrivals[x]
        BY <1>1, <2>1, <3>4 DEF Linked
      <4> QED BY <2>5, <3>1, <3>2, <4>1
    <3> QED BY <3>3, <3>4
  <2> QED BY <2>5, <2>8, <2>9 DEF Linked
<1>13. \A x \in Device : \A y \in Device \ {x} : SoundAt(x, y)'
  BY <1>7, <1>10, <1>11, PeerStep
<1> QED BY <1>2, <1>7, <1>9, <1>12, <1>13, Parts, Together2 DEF OnlyPeer, Plain

(* A session that goes on over its link. *)
LEMMA OnwardStep ==
    ASSUME ServiceInv, NEW d \in Device, NEW p \in Device \ {d}, NEW v \in {"have", "live"},
           peers' = [peers EXCEPT ![d][p].phase = v], peers[d][p].phase \in {"hello", "have"},
           UNCHANGED <<inbox, overrun>>,
           \A x \in Device : moved[x] => moved'[x],
           \A x \in Device : \A y \in Device : row'[x][y] \in {row[x][y], "in"}
    PROVE  Peopled(peers') /\ \A x \in Device : \A y \in Device \ {x} : SoundAt(x, y)'
<1>1. PICK q, n : q = peers[d][p] /\ n = [q EXCEPT !.phase = v]
  OBVIOUS
<1>2. Coherent(q)
  BY <1>1, Parts
<1>3. /\ Coherent(n) /\ n.here = q.here /\ n.known = q.known /\ n.link = q.link
      /\ n.connected = q.connected /\ Live(n) /\ Live(q)
  BY <1>1, <1>2 DEF Coherent, Peer, Live
<1>4. OnlyPeer(d, p, n)
  BY <1>1, <1>3, SetPeer
<1>5. Elsewhere(d, p)
  BY Parts DEF Elsewhere
<1>6. Sound(n, row'[d][p], moved'[d], overrun'[d], inbox'[d], p)
  <2>1. Sound(q, row[d][p], moved[d], overrun[d], inbox[d], p)
    BY <1>1, Parts DEF SoundAt
  <2> QED BY <1>3, <2>1 DEF Sound
<1> QED BY <1>4, <1>5, <1>6, PeerStep DEF OnlyPeer

LEMMA GreetedStep ==
    ASSUME ServiceInv, NEW d \in Device, NEW p \in Device \ {d}, Greeted(d, p)
    PROVE  ServiceInv'
<1>1. PICK q : q = peers[d][p]
  OBVIOUS
<1>2. q.phase = "hello" /\ UNCHANGED <<row, showing, opened, moved, overrun, events, arrivals>> /\ Coherent(q)
  BY <1>1, Parts DEF Greeted
<1>3. CASE Verdict(d, q) = "refused"
  <2>1. Ends(d, p) /\ Kept(link) /\ Live(q)
    BY <1>1, <1>2, <1>3 DEF Greeted, Live
  <2>2. /\ Peopled(peers') /\ inbox' \in [Device -> Seq(Note)]
        /\ \A x \in Device : \A y \in Device \ {x} : SoundAt(x, y)'
    BY <1>1, <1>2, <2>1, EndsStep
  <2>3. Linked(link', arrivals')
    BY <1>2, <2>1, KeptLinks, Parts
  <2> QED BY <1>2, <2>2, <2>3, Parts, Together2 DEF Plain
<1>4. CASE Verdict(d, q) # "refused"
  <2>1. /\ peers' = [peers EXCEPT ![d][p].phase = "have"] /\ UNCHANGED inbox
        /\ link' = [link EXCEPT ![q.link][Said(q)] = "have"]
    BY <1>1, <1>4 DEF Greeted
  <2>2. Peopled(peers') /\ \A x \in Device : \A y \in Device \ {x} : SoundAt(x, y)'
    BY <1>1, <1>2, <2>1, OnwardStep
  <2>3. q.link \in 1..MaxLinks
    BY <1>2, Strangers DEF Coherent, Peer, NoLink
  <2>4. Linked(link', arrivals')
    <3>1. Linked(link, arrivals) /\ link[q.link] \in Link
      BY <2>3, Parts DEF Linked
    <3>2. PICK k \in {"dialer", "listener"} : link' = [link EXCEPT ![q.link] = [link[q.link] EXCEPT ![k] = "have"]]
      BY <2>1 DEF Said
    <3>3. PICK v, u : v = link[q.link] /\ u = [v EXCEPT ![k] = "have"]
      OBVIOUS
    <3>4. u \in Link /\ u.by = v.by
      <4>1. CASE k = "dialer"
        <5>1. u = [v EXCEPT !.dialer = "have"]
          BY <3>3, <4>1
        <5> QED BY <3>1, <3>3, <5>1 DEF Link
      <4>2. CASE k = "listener"
        <5>1. u = [v EXCEPT !.listener = "have"]
          BY <3>3, <4>2
        <5> QED BY <3>1, <3>3, <5>1 DEF Link
      <4> QED BY <4>1, <4>2
    <3>5. link' \in [1..MaxLinks -> Link] /\ \A l \in 1..MaxLinks : link'[l].by = link[l].by
      BY <2>3, <3>1, <3>2, <3>3, <3>4 DEF Linked
    <3>6. \A S : \A s \in Seq(S) : \A j \in DOMAIN s : s[j] \in S
      OBVIOUS
    <3>7. \A x \in Device : \A i \in DOMAIN arrivals[x] : arrivals[x][i] \in 1..MaxLinks
      BY <3>1, <3>6, Zenon DEF Linked
    <3> QED BY <1>2, <3>1, <3>5, <3>7 DEF Linked
  <2> QED BY <1>2, <2>1, <2>2, <2>4, Parts, Together2
<1> QED BY <1>3, <1>4

LEMMA LetInStep ==
    ASSUME ServiceInv, NEW d \in Device, NEW p \in Device \ {d}, LetIn(d, p)
    PROVE  ServiceInv'
<1>1. /\ peers[d][p].phase = "have" /\ peers' = [peers EXCEPT ![d][p].phase = "live"]
      /\ row' = [row EXCEPT ![d][p] = IF peers[d][p].vetted THEN @ ELSE "in"]
      /\ moved' = [moved EXCEPT ![d] = @ \/ row'[d][p] # row[d][p]]
      /\ UNCHANGED <<link, arrivals, inbox, showing, opened, overrun, events>>
  BY DEF LetIn
<1>2. row \in [Device -> [Device -> {"none", "in", "removed"}]] /\ moved \in [Device -> BOOLEAN]
  BY Parts DEF Plain
<1>3. /\ row' \in [Device -> [Device -> {"none", "in", "removed"}]]
      /\ \A x \in Device : \A y \in Device : row'[x][y] \in {row[x][y], "in"}
  BY <1>1, <1>2
<1>4. moved' \in [Device -> BOOLEAN] /\ \A x \in Device : moved[x] => moved'[x]
  <2>1. PICK b \in BOOLEAN : b = (row'[d][p] # row[d][p])
    OBVIOUS
  <2>2. moved' = [moved EXCEPT ![d] = @ \/ b]
    BY <1>1, <2>1
  <2> QED BY <1>2, <2>2
<1>5. Peopled(peers') /\ \A x \in Device : \A y \in Device \ {x} : SoundAt(x, y)'
  <2>1. UNCHANGED <<inbox, overrun>> /\ peers[d][p].phase \in {"hello", "have"}
    BY <1>1
  <2> QED BY <1>1, <1>3, <1>4, <2>1, OnwardStep
<1> QED BY <1>1, <1>3, <1>4, <1>5, Parts, Together2 DEF Plain

----------------------------------------------------------------------------
(* The world, and the whole. *)

LEMMA CutStep ==
    ASSUME ServiceInv, NEW l \in 1..MaxLinks, Cut(l)
    PROVE  ServiceInv'
<1>1. /\ link' = [link EXCEPT ![l].cut = TRUE] /\ events' \in 0..MaxEvents
      /\ UNCHANGED <<row, peers, arrivals, inbox, showing, opened, moved, overrun>>
  BY Parts, EventKeeps DEF Cut
<1>2. Linked(link, arrivals)
  BY Parts
<1>3. link' \in [1..MaxLinks -> Link] /\ \A k \in 1..MaxLinks : link'[k].by = link[k].by
  BY ZenonT(60), <1>1, <1>2 DEF Linked, Link
<1>4. \A S : \A s \in Seq(S) : \A j \in DOMAIN s : s[j] \in S
  OBVIOUS
<1>5. \A x \in Device : \A i \in DOMAIN arrivals[x] : arrivals[x][i] \in 1..MaxLinks
  BY <1>2, <1>4, Zenon DEF Linked
<1>6. Linked(link', arrivals')
  BY <1>1, <1>2, <1>3, <1>5 DEF Linked
<1>7. \A x \in Device : \A y \in Device \ {x} : SoundAt(x, y)'
  <2>1. UNCHANGED <<peers, inbox>>
    BY <1>1
  <2>2. \A x \in Device : /\ moved[x] => moved'[x]
                          /\ overrun[x] \subseteq overrun'[x]
                          /\ \A y \in Device : row'[x][y] \in {row[x][y], "in"} \/ moved'[x]
    BY <1>1
  <2> QED BY <2>1, <2>2, StillStep
<1> QED BY <1>1, <1>6, <1>7, Parts, Together2 DEF Plain

LEMMA LandStep ==
    ASSUME ServiceInv, NEW d \in Device, NEW p \in Device, Land(d, p)
    PROVE  ServiceInv'
<1>1. PICK v \in {"in", "removed"} : row' = [row EXCEPT ![d][p] = v]
  BY DEF Land
<1>2. /\ moved' = [moved EXCEPT ![d] = TRUE] /\ events' \in 0..MaxEvents
      /\ UNCHANGED <<peers, link, arrivals, inbox, showing, opened, overrun>>
  BY Parts, EventKeeps DEF Land
<1>3. /\ row' \in [Device -> [Device -> {"none", "in", "removed"}]] /\ moved' \in [Device -> BOOLEAN]
      /\ \A x \in Device : /\ moved[x] => moved'[x]
                           /\ \A y \in Device : row'[x][y] \in {row[x][y], "in"} \/ moved'[x]
  BY <1>1, <1>2, Parts DEF Plain
<1>4. \A x \in Device : \A y \in Device \ {x} : SoundAt(x, y)'
  BY <1>2, <1>3, StillStep
<1> QED BY <1>2, <1>3, <1>4, Parts, Together2 DEF Plain

LEMMA RestartStep ==
    ASSUME ServiceInv, NEW d \in Device, Restart(d)
    PROVE  ServiceInv'
<1>1. PICK ps, m, o : ps = [p \in Device |-> NoPeer] /\ m = moved[d] /\ o = {}
  OBVIOUS
<1>2. /\ peers' = [peers EXCEPT ![d] = Pass(d, ps, row[d])]
      /\ arrivals' = [arrivals EXCEPT ![d] = <<>>] /\ inbox' = [inbox EXCEPT ![d] = <<>>]
      /\ showing' = [showing EXCEPT ![d] = 0] /\ moved' = [moved EXCEPT ![d] = FALSE]
      /\ overrun' = [overrun EXCEPT ![d] = {}] /\ UNCHANGED <<row, opened>>
      /\ Kept(link) /\ events' \in 0..MaxEvents
  BY <1>1, Parts, EventKeeps DEF Restart
<1>3. /\ ps \in [Device -> Peer] /\ \A y \in Device : Coherent(ps[y])
      /\ \A y \in Device \ {d} : Sound(ps[y], row[d][y], m, o, inbox'[d], y)
  BY <1>1, Strangers, NobodySound DEF Coherent
<1>4. /\ \A x \in Device \ {d} : moved'[x] = moved[x] /\ inbox'[x] = inbox[x] /\ overrun'[x] = overrun[x]
      /\ o \subseteq overrun'[d] /\ UNCHANGED row
  BY <1>1, <1>2, Parts DEF Plain, Overruns
<1>5. Peopled(peers') /\ \A x \in Device : \A y \in Device \ {x} : SoundAt(x, y)'
  BY <1>2, <1>3, <1>4, PassStep
<1>6. Linked(link, arrivals')
  <2>1. Linked(link, arrivals)
    BY Parts
  <2>2. <<>> \in Seq(1..MaxLinks) /\ DOMAIN <<>> = {}
    OBVIOUS
  <2> QED BY <1>2, <2>1, <2>2 DEF Linked
<1>7. Linked(link', arrivals')
  BY <1>2, <1>6, KeptLinks
<1>8. <<>> \in Seq(Note)
  OBVIOUS
<1>9. overrun' \in Overruns /\ Plain(row', inbox', showing', opened', moved', events')
  BY <1>2, <1>8, Parts DEF Plain, Overruns
<1> QED BY <1>5, <1>7, <1>9, Together2

LEMMA Begins == Init => ServiceInv
<1> SUFFICES ASSUME Init PROVE ServiceInv
  OBVIOUS
<1>1. PICK start \in Starts :
        /\ row = start.row /\ showing = start.showing
        /\ peers = [d \in Device |->
                LET up == Pass(d, [p \in Device |-> NoPeer], row[d])
                IN  [p \in Device |-> IF <<d, p>> \in start.pasted THEN Ticketed(NoPeer, 1) ELSE up[p]]]
  BY DEF Init
<1>2. /\ opened = showing /\ link = [l \in 1..MaxLinks |-> FreeLink] /\ arrivals = [d \in Device |-> <<>>]
      /\ inbox = [d \in Device |-> <<>>] /\ moved = [d \in Device |-> FALSE]
      /\ overrun = [d \in Device |-> {}] /\ events = 0
  BY DEF Init
<1>3. /\ row \in [Device -> [Device -> {"none", "in", "removed"}]] /\ showing \in [Device -> Nat]
  <2>1. start.row \in [Device -> [Device -> {"none", "in", "removed"}]] /\ start.showing \in [Device -> {0, 1}]
    BY ServiceAssumption
  <2> QED BY <1>1, <2>1
<1>4. \A x \in Device : \A y \in Device :
        peers[x][y] = IF <<x, y>> \in start.pasted THEN Ticketed(NoPeer, 1)
                      ELSE IF y = x THEN NoPeer ELSE DialIfDue(Reload(x, NoPeer, row[x][y]))
  BY <1>1 DEF Pass
<1>5. ASSUME NEW x \in Device, NEW y \in Device
      PROVE  Coherent(peers[x][y]) /\ (y # x => SoundAt(x, y))
  <2>1. PICK r, m, o, s, n : /\ r = row[x][y] /\ m = moved[x] /\ o = overrun[x]
                             /\ s = inbox[x] /\ n = peers[x][y]
    OBVIOUS
  <2>2. Coherent(NoPeer) /\ Sound(NoPeer, r, m, o, s, y) /\ o \subseteq o /\ 1 \in Nat
    BY Strangers, NobodySound
  <2>3. Coherent(n) /\ (y # x => Sound(n, r, m, o, s, y))
    <3>1. CASE <<x, y>> \in start.pasted
      <4>1. n = Ticketed(NoPeer, 1)
        BY <1>4, <2>1, <3>1
      <4> QED BY <2>2, <4>1, TicketedFits
    <3>2. CASE <<x, y>> \notin start.pasted /\ y = x
      BY <1>4, <2>1, <2>2, <3>2
    <3>3. CASE <<x, y>> \notin start.pasted /\ y # x
      <4>1. n = DialIfDue(Reload(x, NoPeer, r))
        BY <1>4, <2>1, <3>3
      <4> QED BY <2>2, <4>1, Passed
    <3> QED BY <3>1, <3>2, <3>3
  <2> QED BY <2>1, <2>3 DEF SoundAt
<1>6. Peopled(peers)
  <2>1. \A x \in Device : \A y \in Device : peers[x][y] \in Peer
    BY <1>5 DEF Coherent
  <2>2. peers \in [Device -> [Device -> Peer]]
    BY <1>1, <2>1
  <2> QED BY <1>5, <2>2 DEF Peopled
<1>7. Linked(link, arrivals)
  <2>1. FreeLink \in Link
    BY DEF FreeLink, Link
  <2>2. <<>> \in Seq(1..MaxLinks) /\ DOMAIN <<>> = {}
    OBVIOUS
  <2> QED BY <1>2, <2>1, <2>2 DEF Linked
<1>8. Plain(row, inbox, showing, opened, moved, events) /\ overrun \in Overruns
  <2>1. <<>> \in Seq(Note) /\ 0 \in 0..MaxEvents
    BY Strangers
  <2> QED BY <1>2, <1>3, <2>1 DEF Plain, Overruns
<1> QED BY <1>5, <1>6, <1>7, <1>8, ByPeer, Typed

LEMMA StepsKeep == ServiceInv /\ [Next]_vars => ServiceInv'
<1> SUFFICES ASSUME ServiceInv, [Next]_vars PROVE ServiceInv'
  OBVIOUS
<1>1. \A e \in Pairs : e[1] \in Device /\ e[2] \in Device \ {e[1]}
  BY DEF Pairs
<1>2. CASE Panel
  BY <1>2, WindowStep, KickStep, PairStep, ForgetStep DEF Panel
<1>3. CASE World
  BY <1>1, <1>3, CutStep, RestartStep, DialFailsStep, LandStep DEF World
<1>4. ASSUME NEW d \in Device, Loop(d) PROVE ServiceInv'
  BY <1>4, PassOverStep, AcceptStep, HearStep, RunOnStep DEF Loop
<1>5. ASSUME NEW e \in Pairs, Ripen(e[1], e[2]) \/ Stand(e[1], e[2]) PROVE ServiceInv'
  BY <1>1, <1>5, TimeStep
<1>6. ASSUME NEW e \in Pairs, Task(e[1], e[2]) PROVE ServiceInv'
  BY <1>1, <1>6, ReachStep, GreetedStep, LetInStep, CloseStep DEF Task
<1>7. CASE UNCHANGED vars
  <2>1. UNCHANGED <<peers, inbox, row, moved, overrun, link, arrivals, showing, opened, events>>
    BY <1>7 DEF vars
  <2>2. \A x \in Device : \A y \in Device \ {x} : SoundAt(x, y)'
    BY <2>1, StillStep
  <2> QED BY <2>1, <2>2, Parts, Together2
<1> QED BY <1>2, <1>3, <1>4, <1>5, <1>6, <1>7 DEF Next

LEMMA ServiceInvariant == Spec => []ServiceInv
<1>1. Init => ServiceInv
  BY Begins
<1>2. ServiceInv /\ [Next]_vars => ServiceInv'
  BY StepsKeep
<1> QED BY <1>1, <1>2, PTL DEF Spec

(* The variables of the services keep their types, a link that waits to be
   accepted is somebody's, and a session has a link just while it is past its
   dial. *)
THEOREM ServiceTypes == Spec => []TypeOK
<1>1. ServiceInv => TypeOK
  BY DEF ServiceInv
<1> QED BY <1>1, ServiceInvariant, PTL

(* Once the loop has passed over what landed, whoever it knows and has a live
   session with is on its roster: reload in kernel/src/sync/service.rs ends the
   session of a peer that was removed, whatever that session was in the middle of. *)
THEOREM ServiceOnlyTheRoster == Spec => []OnlyTheRoster
<1>1. ServiceInv => OnlyTheRoster
  BY DEF ServiceInv, KnownIsIn, OnlyTheRoster
<1> QED BY <1>1, ServiceInvariant, PTL

(* With every note heard, the panel shows a peer connected if its session lives,
   and not if it has none: notes are keyed by device alone, sessions are replaced
   and ended while notes of older ones are queued, and the last note is always
   that of the session there is, unless an abort came too late to stop a note. *)
THEOREM ServicePanelTellsTruth == Spec => []PanelTellsTruth
<1>1. ServiceInv => PanelTellsTruth
  <2> SUFFICES ASSUME ServiceInv, NEW x \in Device, NEW y \in Device \ {x}, inbox[x] = <<>>, overrun[x] = {}
               PROVE  Tells(x, y)
    BY DEF PanelTellsTruth, Pairs
  <2>1. SoundAt(x, y) /\ Coherent(peers[x][y])
    BY Parts
  <2>2. \A kind : ~LastSays(inbox[x], y, kind)
    BY DEF LastSays
  <2>3. peers[x][y].phase = "live" => peers[x][y].connected
    BY <2>1, <2>2 DEF SoundAt, Sound, Coherent
  <2>4. peers[x][y].connected => peers[x][y].phase # "none"
    BY <2>1, <2>2 DEF SoundAt, Sound, Live
  <2> QED BY <2>3, <2>4 DEF Tells
<1> QED BY <1>1, ServiceInvariant, PTL
=============================================================================
