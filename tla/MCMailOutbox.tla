---------------------------- MODULE MCMailOutbox -----------------------------
(* One letter for TLC: one worker, which may claim every submit job. *)
EXTENDS MailOutbox, TLC

SenderClaims == sender :> Job

Plain == {[walks |-> FALSE, honest |-> TRUE]}
Undoing == {[walks |-> TRUE, honest |-> TRUE]}
Rough == {[walks |-> TRUE, honest |-> FALSE]}
RoughOrPlain == Rough \union Plain
=============================================================================
