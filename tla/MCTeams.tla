------------------------------ MODULE MCTeams ------------------------------
(* An instance of Teams for TLC: the first teammate in the directory is      *)
(* staged --after the second, under one watch and one command at a time.     *)
EXTENDS Teams

CONSTANTS w, c

Pair == {1, 2}
Chain == [t \in Pair |-> IF t = 1 THEN {2} ELSE {}]
=============================================================================
