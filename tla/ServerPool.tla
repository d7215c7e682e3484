----------------------------- MODULE ServerPool -----------------------------
(* What downstream.Manager promises to the gateway, with no mutex, redial   *)
(* or program counter in sight.  Every server has at most one current       *)
(* session; it is replaced only once it is gone, and only by a session that *)
(* was never used before.  A call runs on the live current session of the   *)
(* server it names, at most twice, and a second time only when the session  *)
(* it first ran on is gone.                                                 *)
EXTENDS Integers, FiniteSets

CONSTANTS Servers, Sessions, Callers, None

VARIABLES
    current,    \* the session calls to a server go to
    up,         \* current sessions whose transport works
    past,       \* sessions that are or were current
    target,     \* the server a caller's call is for
    first,      \* the session on which the downstream ran that call,
    second      \* and the one on which it ran it again

runs == <<first, second>>
vars == <<current, up, past, target, runs>>

Init ==
    /\ current = [s \in Servers |-> None]
    /\ up = {}
    /\ past = {}
    /\ target = [c \in Callers |-> None]
    /\ first = [c \in Callers |-> None]
    /\ second = [c \in Callers |-> None]

(* A first session, or one for a server whose session is gone; it may break *)
(* before anyone uses it.                                                   *)
Install(s, k) ==
    /\ current[s] \notin up /\ k \notin past
    /\ current' = [current EXCEPT ![s] = k]
    /\ past' = past \union {k}
    /\ up' \in {up, up \union {k}}
    /\ UNCHANGED <<target, runs>>

Lose(k) ==
    /\ k \in up
    /\ up' = up \ {k}
    /\ UNCHANGED <<current, past, target, runs>>

Begin(c, s) ==
    /\ target[c] = None
    /\ target' = [target EXCEPT ![c] = s]
    /\ UNCHANGED <<current, up, past, runs>>

Run(c) ==
    /\ target[c] # None /\ current[target[c]] \in up
    /\ \/ /\ first[c] = None /\ second[c] = None
          /\ first' = [first EXCEPT ![c] = current[target[c]]]
          /\ UNCHANGED second
       \/ /\ first[c] \notin up /\ second[c] = None
          /\ second' = [second EXCEPT ![c] = current[target[c]]]
          /\ UNCHANGED first
    /\ UNCHANGED <<current, up, past, target>>

Return(c) ==
    /\ target[c] # None
    /\ target' = [target EXCEPT ![c] = None]
    /\ first' = [first EXCEPT ![c] = None]
    /\ second' = [second EXCEPT ![c] = None]
    /\ UNCHANGED <<current, up, past>>

Next ==
    \/ \E s \in Servers, k \in Sessions : Install(s, k)
    \/ \E k \in Sessions : Lose(k)
    \/ \E c \in Callers : Run(c) \/ Return(c) \/ \E s \in Servers : Begin(c, s)

Spec == Init /\ [][Next]_vars
=============================================================================
