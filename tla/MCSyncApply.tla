---------------------------- MODULE MCSyncApply ----------------------------
(***************************************************************************)
(* Three ops of two other devices about one row: the columns, and the clock *)
(* of each, are chosen every way that a device could have issued them.      *)
(***************************************************************************)
EXTENDS SyncApply

CONSTANTS default, plain, refused, null, tomb, absent, r1, c1, c2, c3

MCDevice == 1..3
MCRow == {r1}
MCCol == {c1, c2, c3}
MCVal == {default, plain, refused}

MCOp(o, n, t, c, v) ==
    [origin |-> o, seq |-> n, hlc |-> t, row |-> r1, col |-> c,
     val |-> IF c = tomb THEN null ELSE v]

MCWorlds ==
    LET cols == {c1, c2, tomb}
        firsts  == {MCOp(1, 1, t, c, refused) : t \in 0..1, c \in cols}
        seconds == {MCOp(1, 2, t, c, plain) : t \in {0, 2}, c \in cols}
        others  == {MCOp(2, 1, t, c, plain) : t \in 0..3, c \in cols}
    IN  {{x, y, z} : x \in firsts, y \in seconds, z \in others}
MCGoodWorlds ==
    {w \in MCWorlds : \A x, y \in w : x # y =>
        (IF Before(x, y) THEN Issued(x, y) ELSE Issued(y, x))}
=============================================================================
