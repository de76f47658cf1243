---- MODULE MCAgentRun ----
(* The rounds a model may ask for, in the instances that are checked. *)
EXTENDS AgentRun

Small == {<<"read", "native">>, <<"asks">>}
Single == {<<"read">>}
All == {<<"read", "edit">>, <<"asks", "now">>, <<"native">>}
====
