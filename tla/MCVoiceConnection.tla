-------------------------- MODULE MCVoiceConnection --------------------------
(* The instance of VoiceConnection that TLC checks. *)
EXTENDS VoiceConnection, TLC

\* Goroutines that open a websocket differ in nothing but their name.
Symmetry == Permutations(Openers)

\* Two of the joins, moves and leaves: a voice server is joined and left, or joined
\* again, or changed.
TwoCalls == spent.joins + spent.moves + spent.leaves <= 2
=============================================================================
