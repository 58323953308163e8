-------------------------- MODULE MCGatewaySession --------------------------
(***************************************************************************)
(* GatewaySession on a small instance: one thing of each part, two where two   *)
(* matter, for the cap of the messages and for what THREAD_LIST_SYNC replaces.  *)
(***************************************************************************)
EXTENDS GatewaySession

OneOrTwo ==
    [p \in Parts |-> IF p \in {"message", "thread"} THEN {1, 2} ELSE {1}]

\* Two changes, such as a removal and a return; listeners that are behind when a
\* generation begins do so in every order for one change already.
Changes == [p \in Parts |-> IF p \in Overtaken THEN 1 ELSE 2]

\* The second thread comes and goes with the syncs: one event each is for the first.
SecondIsSynced == part = "thread" => truth.items[2] <= 1 /\ 2 \notin truth.gone
=============================================================================
