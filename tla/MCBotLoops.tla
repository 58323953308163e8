----------------------------- MODULE MCBotLoops -----------------------------
(***************************************************************************)
(* An instance of BotLoops: two extensions that stage a loop in common.      *)
(***************************************************************************)
EXTENDS BotLoops, TLC

CONSTANTS l1, l2, e1, e2

SharedStaging == (e1 :> {l1, l2}) @@ (e2 :> {l1})
TwoRunsAndOne == (l1 :> 2) @@ (l2 :> 1)

\* The extension that shares a loop comes and goes before any loop runs a second time.
SharedOrRestarted ==
    prepared[l1] = 2 => e2 \notin loaded /\ \A c \in Callers : e2 \notin names[c]

=============================================================================
