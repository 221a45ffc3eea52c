-------------------------- MODULE MCSessionHistory --------------------------
(* Two turns, one of which persists a key and has an empty reply, a third   *)
(* that follows them, and a restore.                                        *)
EXTENDS SessionHistory

MCTurns == 1 .. 3
MCKeepers == {2}
MCSilent == {2}
=============================================================================
