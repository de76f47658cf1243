---- MODULE MCSyncService ----
EXTENDS SyncService
(* Two devices, started as: both on the other's roster; neither, with 2 showing
   a ticket; neither, with 1 having pasted a ticket whose window is closed; and 1
   having removed 2, which pasted the ticket that 1 shows. *)
TwoDevices == {1, 2}
Rows(a, b) == [d \in TwoDevices |-> [p \in TwoDevices |-> IF d = p THEN "in" ELSE IF d = 1 THEN a ELSE b]]
Windows(w) == [d \in TwoDevices |-> IF d \in w THEN 1 ELSE 0]
Start(rows, windows, pasted) == [row |-> rows, showing |-> Windows(windows), pasted |-> pasted]
FourStarts == {Start(Rows("in", "in"), {}, {}),
               Start(Rows("none", "none"), {2}, {}),
               Start(Rows("none", "none"), {}, {<<1, 2>>}),
               Start(Rows("removed", "in"), {1}, {<<2, 1>>})}
====
