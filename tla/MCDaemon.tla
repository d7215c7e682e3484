------------------------------ MODULE MCDaemon ------------------------------
(* Small instances of Daemon: two configured names, edits that create,      *)
(* replace, rename and delete them, some of which will not connect.         *)
EXTENDS Daemon, TLC

CONSTANTS a1, a2, ide1, main, x, y

OneAdmin == {a1}
TwoAdmins == {a1, a2}
OneIde == {ide1}
NoIde == {}
TwoNames == {x, y}
XBroken == {[n \in TwoNames |-> IF n = x THEN "bad" ELSE "absent"]}
OnlyX == [n \in TwoNames |-> IF n = x THEN "good" ELSE "absent"]

Upsert(orig, name, body) == [orig |-> orig, name |-> name, body |-> body]
Delete(name) == [orig |-> None, name |-> name, body |-> "absent"]

AllEdits == {Upsert(None, y, "good"), Upsert(None, y, "bad"),
             Upsert(x, x, "bad"), Upsert(x, y, "good"), Delete(x), Delete(y)}
AdminSymmetry == Permutations(TwoAdmins)
SomeEdits == {Upsert(None, y, "good"), Upsert(x, x, "bad")}
=============================================================================
