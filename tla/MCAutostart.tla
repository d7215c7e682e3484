---------------------------- MODULE MCAutostart ----------------------------
(* Small instances of Autostart: two processes that race for the start.     *)
EXTENDS Autostart

CONSTANTS ide, ui

TwoStarters == {ide, ui}

UpTo(n, kinds) == [what \in Mishaps |-> IF what \in kinds THEN n ELSE 0]

TwoOfEach == UpTo(2, Mishaps)
OneStop == UpTo(1, {"stops"})
=============================================================================
