-------------------------- MODULE MCDatabaseReset --------------------------
(* Small instances of DatabaseReset. *)
EXTENDS DatabaseReset, TLC

CONSTANTS resetA, resetB, writer, starter

TwoResets == {resetA, resetB}
OneResetter == {resetA}
BothClients == {writer, starter}
OneStarter == {starter}

\* Resets are compared for equality only.
Alike == Permutations(TwoResets)
=============================================================================
