--------------------------- MODULE LastWriterWins ---------------------------
(***************************************************************************)
(* What device sync promises, with no wire in it: last-writer-wins cells    *)
(* under a hybrid clock (docs/book/src/device-sync.md, kernel/src/sync).    *)
(* Devices decide, and learn any of what was decided, in any order and as   *)
(* often as it comes; a device's view is the last words of what it knows.   *)
(* Nothing else moves a view.                                               *)
(***************************************************************************)
EXTENDS SyncOps

VARIABLES
    words,      \* everything any device ever decided
    view        \* per device, the last words it knows

lww == <<words, view>>

(* x has the last word over a view: it is after all that speaks for its     *)
(* cell there and all that it speaks for.                                   *)
Last(x, ops) ==
    \A y \in ops : SpeaksFor(x, y) \/ SpeaksFor(y, x) => After(x, y)

Init ==
    /\ words \subseteq Op
    /\ \A x, y \in words : ~Overtakes(x, y) \/ x.origin # y.origin
    /\ view = [d \in Device |-> {x \in words : x.origin = d}]

(* A decision here: new to everyone, the last word here, by this device.    *)
Decide(d) ==
    /\ words \subseteq words'
    /\ LET new == words' \ words
       IN  /\ new # {}
           /\ \A x \in new : x \in Op /\ x.origin = d /\ Last(x, view[d])
           /\ view' = [view EXCEPT ![d] = Compact(@ \union new)]

(* Some of what was decided anywhere reaches this device.                   *)
Learn(d) ==
    /\ \E ops \in SUBSET words : view' = [view EXCEPT ![d] = Compact(@ \union ops)]
    /\ UNCHANGED words

Next == \E d \in Device : Decide(d) \/ Learn(d)

Spec == Init /\ [][Next]_lww
=============================================================================
