------------------------------ MODULE MCGateway ------------------------------
(* Small instances of Gateway.  Names are strings; Joined gives a__x for    *)
(* tool x of server a, so that a tool a__x of another server meets it.      *)
EXTENDS Gateway

TwoServers == {"a", "b"}
SomeNames == {"x", "y", "a__x", "a__y", "b__x", "list_all_tools",
              "call_deferred_tool", "other"}
SomeJoined == [p \in TwoServers \X SomeNames |->
  CASE p = <<"a", "x">> -> "a__x" [] p = <<"a", "y">> -> "a__y"
    [] p = <<"b", "x">> -> "b__x" [] OTHER -> "other"]
TwoCalls == {"c1", "c2"}
FourRequests == TwoCalls \X {1, 2}

T(server, tool) == [server |-> server, tool |-> tool]
Ax == T("a", "x")
Ay == T("a", "y")
Bx == T("b", "x")

Any == [name |-> "p", path |-> "", allow |-> {SomeNames}, deny |-> {},
        lazy |-> FALSE, limit |-> 0]
LazyOne == [Any EXCEPT !.lazy = TRUE, !.limit = 1]
LazyUnset == [Any EXCEPT !.lazy = TRUE]
NoX == [Any EXCEPT !.deny = {{"x", "a__x", "b__x"}}]

Cfg(raw, bare, profile) ==
  [raw |-> raw, bare |-> bare, profiles |-> <<profile>>, rules |-> <<>>]
W(name) == [name |-> name, inner |-> "other"]
Deferred(name) == [name |-> "call_deferred_tool", inner |-> name]
Both(wants) == [c \in TwoCalls |-> wants]
Single(wants) == [c \in TwoCalls |-> IF c = "c1" THEN wants ELSE {}]

----------------------------------------------------------------------------
(* Two calls, no rules: the daemon crashes, or connections drop.            *)
Crashes == [configs |-> <<Cfg(<<Ax>>, {}, Any)>>, profile |-> "p",
            wants |-> Both({W("a__x")}), faults |-> {"crash", "disk"}]
Drops == [Crashes EXCEPT !.faults = {"drop", "connect"}]

(* One call that may be cancelled, while the IDE may end.                   *)
Cancels == [Crashes EXCEPT !.wants = Single({W("a__x")}),
                           !.faults = {"drop", "connect", "cancel", "stop", "call"}]

(* Rules: the default priority among others, ties, both hooks, both         *)
(* languages, both modes, one rule that does not apply.                     *)
R(name, hooks, priority, onError, language) ==
  [name |-> name, hooks |-> hooks, priority |-> priority, onError |-> onError,
   language |-> language, servers |-> {}, tools |-> {}]
Ruled(rules) ==
  [Crashes EXCEPT !.configs = <<[Cfg(<<Ax>>, {}, Any) EXCEPT !.rules = rules]>>,
                  !.wants = Single({W("a__x")}), !.faults = {"call"}]
Orders == Ruled(<<R("r1", {"pre"}, 0, "skip", "js"), R("r2", {"pre"}, 50, "skip", "python"),
                  R("r3", {"pre"}, 100, "", "js")>>)
Hooks == Ruled(<<R("r1", {"pre", "post"}, 7, "", "js"), R("r2", {"post"}, 0, "skip", "python"),
                 [R("r3", {"post"}, 3, "", "js") EXCEPT !.servers = {{"b"}}],
                 [R("r4", {"post"}, -1, "reject", "js") EXCEPT !.tools = {{"a__x"}, {"x"}}]>>)

(* A lazy profile: what was called most is listed when the session is       *)
(* opened again, or the tool is no longer allowed by then.                  *)
Lazy == [configs |-> <<Cfg(<<Ax, Ay, Bx>>, {}, LazyOne)>>, profile |-> "p",
         wants |-> Single({W("a__x"), Deferred("a__y"), Deferred("b__x"), Deferred("x"),
                           W("list_all_tools")}),
         faults |-> {"drop"}]
Denied == [Lazy EXCEPT !.configs =
             <<Cfg(<<Ax, Ay>>, {}, LazyUnset), Cfg(<<Ax, Ay>>, {}, [NoX EXCEPT !.lazy = TRUE])>>]

(* Names that collide: bare ones, bare ones with a namespaced one, one      *)
(* listed twice, and with the meta-tools.                                   *)
Named1(raw, bare, profile, names) ==
  [configs |-> <<Cfg(raw, bare, profile)>>, profile |-> "p",
   wants |-> Single({W(n) : n \in names} \cup {Deferred(n) : n \in names}), faults |-> {}]
Names1 == {"x", "a__x", "b__x"}
Collisions ==
  {Named1(<<Ax, Bx>>, {"a", "b"}, profile, Names1) : profile \in {Any, LazyOne}}
  \cup {Named1(<<Ax, Bx, T("b", "a__x")>>, {"a", "b"}, profile, Names1) : profile \in {Any, NoX}}
  \cup {Named1(<<Ax, Ax, Bx>>, {"b"}, profile, Names1) :
           profile \in {LazyOne, [LazyOne EXCEPT !.limit = 2]}}
  \cup {Named1(<<Ay, T("a", meta)>>, {"a"}, LazyOne, {"y", meta}) :
           meta \in {"list_all_tools", "call_deferred_tool"}}

(* Paths: the profile moves, another takes its path, or it is deleted; and  *)
(* a relay without a profile.                                               *)
Moved == [Any EXCEPT !.path = "elsewhere"]
Intruder == [NoX EXCEPT !.name = "q", !.path = "p"]
Two(p, q) == [Cfg(<<Ax, Ay>>, {}, p) EXCEPT !.profiles = <<p, q>>]
Paths == [configs |-> <<Two(Any, [NoX EXCEPT !.name = "q"]), Cfg(<<Ax, Ay>>, {}, Moved),
                        Two(Moved, Intruder)>>,
          profile |-> "p", wants |-> Single({W("a__x")}), faults |-> {"drop"}]
Other == [Moved EXCEPT !.name = "q"]
Unfiltered == [Paths EXCEPT !.profile = "", !.configs = <<Two(Any, Other), Two(NoX, Other)>>]

(* What the documents deny: a plain name that is the namespaced one of a    *)
(* tool that is forced to it.                                               *)
Forced == {Named1(<<Ax, Bx, T("b", "a__x")>>, {"a", "b"}, Any, Names1)}

AllSetups == {Crashes, Drops, Cancels, Orders, Hooks, Lazy, Denied, Paths, Unfiltered}
             \cup Collisions
==============================================================================
