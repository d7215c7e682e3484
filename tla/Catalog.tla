------------------------------- MODULE Catalog -------------------------------
(***************************************************************************)
(* What an IDE is offered: the tools of all downstream servers merged into *)
(* one catalog (aggregator.Build), filtered by the profile of the client   *)
(* (profile.FilterEntries) and, for a lazy profile, cut down to the tools  *)
(* used most, with two meta-tools for the rest (gateway/metatools.go).     *)
(*                                                                         *)
(* Names are not spelled out: Joined gives the name server__tool, and a    *)
(* pattern of a filter stands for the set of names it matches.             *)
(***************************************************************************)
EXTENDS Arrangement

CONSTANTS
  Server,               \* downstream servers
  Name,                 \* tool names, as a server gives them or as exposed
  Joined,               \* Joined[s, t]: the name of tool t namespaced by s
  ListAllTools,         \* "list_all_tools"
  CallDeferredTool,     \* "call_deferred_tool"
  DefaultLazyLoadLimit  \* tools of a lazy profile that sets no limit

ASSUME CatalogAssumption ==
  /\ Joined \in [Server \X Name -> Name]
  /\ {ListAllTools, CallDeferredTool} \subseteq Name
  /\ DefaultLazyLoadLimit \in Nat \ {0}

(* A raw tool is [server, tool]; an entry of the catalog adds the name it  *)
(* is exposed under.                                                       *)
RawTool == [server : Server, tool : Name]
Entry == [server : Server, tool : Name, exposed : Name]

Names(entries) == {entries[i].exposed : i \in DOMAIN entries}

----------------------------------------------------------------------------
(* aggregator.Build.  bare holds the servers that opted out of namespacing.*)

NamespacedName(raw) == Joined[raw.server, raw.tool]

CandidateName(raw, bare) ==
  IF raw.server \in bare THEN raw.tool ELSE NamespacedName(raw)

(* Mutant: the count is compared with one too many.                        *)
BuildToleratesPairs(raw, bare) ==
  LET Candidate(i) == CandidateName(raw[i], bare)
      Collides(i) == \E j, k \in DOMAIN raw \ {i} :
                        j # k /\ Candidate(j) = Candidate(i) /\ Candidate(k) = Candidate(i)
      Exposed(i) == IF Collides(i) THEN NamespacedName(raw[i]) ELSE Candidate(i)
  IN  [i \in DOMAIN raw |-> [server |-> raw[i].server, tool |-> raw[i].tool,
                             exposed |-> Exposed(i)]]

Build(raw, bare) ==
  LET Candidate(i) == CandidateName(raw[i], bare)
      Collides(i) == \E j \in DOMAIN raw \ {i} : Candidate(j) = Candidate(i)
      Exposed(i) == IF Collides(i) THEN NamespacedName(raw[i]) ELSE Candidate(i)
  IN  [i \in DOMAIN raw |-> [server |-> raw[i].server, tool |-> raw[i].tool,
                             exposed |-> Exposed(i)]]

----------------------------------------------------------------------------
(* profile.Allowed and FilterEntries: deny wins, an empty allow list       *)
(* permits nothing.                                                        *)

Matches(patterns, name) == \E p \in patterns : name \in p

(* Mutant: an allow pattern is looked at first.                            *)
AllowWins(profile, name) == Matches(profile.allow, name)

Allowed(profile, name) ==
  ~Matches(profile.deny, name) /\ Matches(profile.allow, name)

FilterEntries(entries, profile) ==
  Only(entries, {e \in Entry : Allowed(profile, e.exposed)})

----------------------------------------------------------------------------
(* mcp.Server.AddTool replaces a tool of the same name, and so does a Go   *)
(* map: of two entries with one name the later counts.                     *)
Latest(entries, name) ==
  entries[CHOOSE i \in DOMAIN entries :
            /\ entries[i].exposed = name
            /\ \A j \in DOMAIN entries : entries[j].exposed = name => j <= i]

ByName(entries) == [n \in Names(entries) |-> Latest(entries, n)]

(* A server for one IDE session: the tools registered on it, the meta-tools*)
(* registered, and what call_deferred_tool finds.                          *)
EmptyServer == [direct |-> <<>>, meta |-> {}, deferred |-> <<>>]

BuildServer(entries) == [EmptyServer EXCEPT !.direct = ByName(entries)]

(* Mutant: the sort is not stable, equals end up the other way round.      *)
SortByUsageUnstable(entries, counts) ==
  LET n == Len(entries)
      reversed == [i \in 1 .. n |-> entries[n + 1 - i]]
  IN  StableSort(reversed, [i \in 1 .. n |-> -counts[reversed[i].exposed]])

SortByUsage(entries, counts) ==
  StableSort(entries, [i \in DOMAIN entries |-> -counts[entries[i].exposed]])

(* A meta-tool whose name a tool of the profile bears is left out; without *)
(* call_deferred_tool nothing can be called that is not registered.        *)
AddMetaTools(server, entries) ==
  LET meta == {ListAllTools, CallDeferredTool} \ Names(entries)
  IN  [server EXCEPT
         !.meta = meta,
         !.deferred = IF CallDeferredTool \in meta THEN ByName(entries) ELSE <<>>]

(* Mutant: the meta-tools are given the tools registered only.             *)
BuildLazyServerOfVisible(entries, limit, counts) ==
  LET sorted == SortByUsage(entries, counts)
      visible == IF limit < Len(sorted) THEN SubSeq(sorted, 1, limit) ELSE sorted
  IN  AddMetaTools(BuildServer(visible), visible)

BuildLazyServer(entries, limit, counts) ==
  LET sorted == SortByUsage(entries, counts)
      visible == IF limit < Len(sorted) THEN SubSeq(sorted, 1, limit) ELSE sorted
  IN  AddMetaTools(BuildServer(visible), sorted)

EffectiveLimit(profile) ==
  IF profile.limit = 0 THEN DefaultLazyLoadLimit ELSE profile.limit

BuildProfileServer(entries, profile, counts) ==
  LET mine == FilterEntries(entries, profile)
  IN  IF profile.lazy
        THEN BuildLazyServer(mine, EffectiveLimit(profile), counts)
        ELSE BuildServer(mine)

(* What tools/list of a server returns.                                    *)
Listed(server) == DOMAIN server.direct \cup server.meta
=============================================================================
