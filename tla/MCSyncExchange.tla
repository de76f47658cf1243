--------------------------- MODULE MCSyncExchange ---------------------------
(***************************************************************************)
(* Small neighbourhoods of devices: two that are linked, and three in a     *)
(* line.  Values may be swapped for each other only where there is one      *)
(* column: then no cell ever shows Default without an op that says so.      *)
(***************************************************************************)
EXTENDS SyncExchange, TLC

CONSTANTS default, typed, null, tomb, absent, r1, c1, c2

MCVal == {default, typed}
ValSymmetry == Permutations(MCVal)
MCRow == {r1}
Two == 1..2
Three == 1..3
AllLinks == {l \in Device \X Device : l[1] # l[2]}
Line == {<<1, 2>>, <<2, 1>>, <<2, 3>>, <<3, 2>>}

Seq21 == <<2, 1>>
Seq32 == <<3, 2>>
Seq30 == <<3, 0>>
Seq201 == <<2, 0, 1>>

NoLegacy == [d \in Device |-> {}]
FirstHasLegacy == [d \in Device |-> IF d = 1 THEN Row ELSE {}]
MCLegacyVal == [r \in Row |-> [c \in Col |-> typed]]
MCLegacySeq ==
    [d \in Device |-> [c \in Row \X Col |-> IF c[2] = c1 THEN 1 ELSE 2]]
=============================================================================
