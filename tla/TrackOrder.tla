---------------------------- MODULE TrackOrder -----------------------------
(***************************************************************************)
(* What a voice Queue promises about the sources it was given, whoever      *)
(* calls it and however calls and playback interleave: sources are begun in *)
(* the order in which they were accepted, one at a time; a source is closed *)
(* before the next one begins; and a source that was closed, or taken out   *)
(* of the queue, is never begun.                                            *)
(***************************************************************************)
EXTENDS SequencesExt

CONSTANTS Sources, NoSource

VARIABLES
    accepted,   \* sources some Enqueue accepted
    waiting,    \* those that were neither begun nor withdrawn, in order
    playing,    \* the one that was begun and not ended
    closed      \* those whose Close has run

vars == <<accepted, waiting, playing, closed>>

Init == accepted = {} /\ waiting = <<>> /\ playing = NoSource /\ closed = {}

Accept(batch) ==
    /\ ToSet(batch) \cap accepted = {}
    /\ accepted' = accepted \cup ToSet(batch)
    /\ waiting' = waiting \o batch
    /\ UNCHANGED <<playing, closed>>

Begin ==
    /\ playing = NoSource /\ waiting # <<>> /\ Head(waiting) \notin closed
    /\ playing' = Head(waiting)
    /\ waiting' = Tail(waiting)
    /\ UNCHANGED <<accepted, closed>>

\* Everything that waits is taken out of the queue, to be closed.
Withdraw ==
    /\ waiting' = <<>>
    /\ UNCHANGED <<accepted, playing, closed>>

\* Only a source that has left the queue is closed.
Close(s) ==
    /\ s \in accepted \ ToSet(waiting)
    /\ closed' = closed \cup {s}
    /\ UNCHANGED <<accepted, waiting, playing>>

End ==
    /\ playing \in closed
    /\ playing' = NoSource
    /\ UNCHANGED <<accepted, waiting, closed>>

Next ==
    \/ \E s, t \in Sources : Accept(<<s>>) \/ (s # t /\ Accept(<<s, t>>))
    \/ Begin \/ Withdraw \/ End
    \/ \E s \in Sources : Close(s)

Spec == Init /\ [][Next]_vars
=============================================================================
