---- MODULE MCSessionWalks ----
(* One person's session of a handful of operations, the model being already
   free of sets to choose: only its bounds are given in the configurations. *)
EXTENDS SessionWalks
====
