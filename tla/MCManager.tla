------------------------------ MODULE MCManager ------------------------------
(* Small instances of Manager: callers and the health loop racing on one    *)
(* stdio server, or one stdio and one http server.                          *)
EXTENDS Manager, TLC

CONSTANTS c1, c2, files, web, health

TwoCallers == {c1, c2}
TwoServers == {files, web}
OneServer == {files}
OneCaller == {c1}
Stdio == {files}

CallerSymmetry == Permutations(TwoCallers)
=============================================================================
