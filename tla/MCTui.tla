-------------------------------- MODULE MCTui --------------------------------
(* Small instances of Tui: each form by itself, with every key of a form,   *)
(* and the lists with a few entries, ticks and replies in any order.        *)
EXTENDS Tui

Names == {"n", "m"}
OneSlot == {1}
TwoSlots == {1, 2}

Filled(kind) ==
  [k \in Keys(kind) |-> IF Blank(kind)[k] = "" THEN "good" ELSE Blank(kind)[k]]
Fetched == [k \in Kind |-> {[Filled(k) EXCEPT !["name"] = "n"]}]
With(kind, key, value) == [[Filled(kind) EXCEPT !["name"] = "n"] EXCEPT ![key] = value]
Variants == [Fetched EXCEPT
  !["server"] = {With("server", "transport", "sse"), With("server", "namespace", "false")},
  !["profile"] = {With("profile", "lazy_enabled", "true")},
  !["rule"] = {With("rule", "language", "python"), With("rule", "hook_pre", "true")}]

One(kind, names) == [k \in Kind |-> IF k = kind THEN names ELSE <<>>]
FormKeys == {"tab", "shift+tab", "left", "right", "enter", "esc", "ctrl+s", "text", "a", "e"}

Form(kind, digit, texts) ==
  [entries |-> One(kind, <<"n">>), stored |-> Variants, keys |-> FormKeys \cup {digit},
   texts |-> texts, names |-> {"n"}, poll |-> FALSE, requests |-> 1]
Forms == {Form("server", "2", {"name", "env"}),
          Form("profile", "3", {"stdio_arg", "lazy_limit"}),
          Form("rule", "4", {"name"})}

(* Two servers, edited and deleted while replies are on their way.          *)
Busy == [entries |-> One("server", <<"n", "m">>), stored |-> Fetched,
         keys |-> {"2", "up", "down", "e", "d", "y", "n", "ctrl+s", "esc"},
         texts |-> {}, names |-> {}, poll |-> TRUE, requests |-> 2]
(* Every tab.                                                               *)
Tabs == [entries |-> [k \in Kind |-> <<"n">>], stored |-> Fetched,
         keys |-> {"1", "2", "3", "4", "left", "right", "r", "d", "y", "esc", "q"},
         texts |-> {}, names |-> {}, poll |-> FALSE, requests |-> 1]

AllSetups == Forms \cup {Busy, Tabs}
Lists1 == {Busy}
=============================================================================
