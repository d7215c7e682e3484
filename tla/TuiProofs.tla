------------------------------ MODULE TuiProofs ------------------------------
(***************************************************************************)
(* Proofs about Tui: the field shown as the focused one is the one that is *)
(* typed into.                                                             *)
(*                                                                         *)
(* A field appears or vanishes only by the value of a field before it      *)
(* (ShownByEarlier, from the three lists of fields).  So a change of the   *)
(* value of the focused field, the only one a key changes, leaves the      *)
(* fields shown up to it as they were: it keeps its place, and the focus   *)
(* stays within what is shown (ValueOK).  The rest of the invariant says   *)
(* which form may be open at all: one of a kind there is, with a value for *)
(* each of its fields.                                                     *)
(***************************************************************************)
EXTENDS Tui, ArrangementProofs, TLAPS

Is(field, key, when) == field.key = key /\ field.when = when

(* Of the fields of a form one, that at gate, decides whether others are   *)
(* shown, and these come after it.                                         *)
Gate(s, n, gate, key) ==
  /\ n \in Nat /\ gate \in 1 .. n
  /\ s = [i \in 1 .. n |-> s[i]]
  /\ s[1].key = "name" /\ s[1].when = "always" /\ s[gate].key = key
  /\ \A i \in 1 .. n : s[i].key = key => i = gate
  /\ \A i \in 1 .. n : i <= gate => s[i].when = "always"
  /\ \A i \in 1 .. n : \A values, new :
       values[key] = new[key] => (Holds(s[i].when, values) <=> Holds(s[i].when, new))

LEMMA ServerFieldsAre == Gate(ServerFields, 10, 2, "transport")
<1>1. PICK s : s = ServerFields
  OBVIOUS
<1>2. s = [i \in 1 .. 10 |-> s[i]]
  BY <1>1 DEF ServerFields
<1>3. /\ Is(s[1], "name", "always")
      /\ Is(s[2], "transport", "always")
      /\ Is(s[3], "command", "stdio")
      /\ Is(s[4], "args", "stdio")
      /\ Is(s[5], "env", "stdio")
      /\ Is(s[6], "url", "http")
      /\ Is(s[7], "headers", "http")
      /\ Is(s[8], "connect_timeout", "always")
      /\ Is(s[9], "call_timeout", "always")
      /\ Is(s[10], "namespace", "always")
  BY <1>1 DEF ServerFields, F, If, Is
<1>4. ASSUME NEW i \in 1 .. 10
      PROVE  /\ s[i].when \in {"always", "stdio", "http"}
             /\ s[i].key = "transport" => i = 2
             /\ i <= 2 => s[i].when = "always"
  <2>1. i \in {1, 2, 3, 4, 5, 6, 7, 8, 9, 10}
    OBVIOUS
  <2>2. QED BY <1>3, <2>1 DEF Is
<1>5. ASSUME NEW i \in 1 .. 10, NEW values, NEW new, values["transport"] = new["transport"]
      PROVE  Holds(s[i].when, values) <=> Holds(s[i].when, new)
  BY <1>4, <1>5 DEF Holds
<1>6. s[1].key = "name" /\ s[1].when = "always" /\ s[2].key = "transport"
  BY <1>3 DEF Is
<1>7. Gate(s, 10, 2, "transport")
  BY <1>2, <1>4, <1>5, <1>6 DEF Gate
<1>8. QED BY <1>1, <1>7

LEMMA ProfileFieldsAre == Gate(ProfileFields, 7, 6, "lazy_enabled")
<1>1. PICK s : s = ProfileFields
  OBVIOUS
<1>2. s = [i \in 1 .. 7 |-> s[i]]
  BY <1>1 DEF ProfileFields
<1>3. /\ Is(s[1], "name", "always")
      /\ Is(s[2], "stdio_arg", "always")
      /\ Is(s[3], "http_path", "always")
      /\ Is(s[4], "allow", "always")
      /\ Is(s[5], "deny", "always")
      /\ Is(s[6], "lazy_enabled", "always")
      /\ Is(s[7], "lazy_limit", "lazy")
  BY <1>1 DEF ProfileFields, F, If, Is
<1>4. ASSUME NEW i \in 1 .. 7
      PROVE  /\ s[i].when \in {"always", "lazy"}
             /\ s[i].key = "lazy_enabled" => i = 6
             /\ i <= 6 => s[i].when = "always"
  <2>1. i \in {1, 2, 3, 4, 5, 6, 7}
    OBVIOUS
  <2>2. QED BY <1>3, <2>1 DEF Is
<1>5. ASSUME NEW i \in 1 .. 7, NEW values, NEW new, values["lazy_enabled"] = new["lazy_enabled"]
      PROVE  Holds(s[i].when, values) <=> Holds(s[i].when, new)
  BY <1>4, <1>5 DEF Holds
<1>6. s[1].key = "name" /\ s[1].when = "always" /\ s[6].key = "lazy_enabled"
  BY <1>3 DEF Is
<1>7. Gate(s, 7, 6, "lazy_enabled")
  BY <1>2, <1>4, <1>5, <1>6 DEF Gate
<1>8. QED BY <1>1, <1>7

LEMMA RuleFieldsAre == Gate(RuleFields, 11, 3, "language")
<1>1. PICK s : s = RuleFields
  OBVIOUS
<1>2. s = [i \in 1 .. 11 |-> s[i]]
  BY <1>1 DEF RuleFields
<1>3. /\ Is(s[1], "name", "always")
      /\ Is(s[2], "script", "always")
      /\ Is(s[3], "language", "always")
      /\ Is(s[4], "hook_pre", "always")
      /\ Is(s[5], "hook_post", "always")
      /\ Is(s[6], "applies_tools", "always")
      /\ Is(s[7], "applies_servers", "always")
      /\ Is(s[8], "priority", "always")
      /\ Is(s[9], "timeout", "always")
      /\ Is(s[10], "on_error", "always")
      /\ Is(s[11], "env", "python")
  BY <1>1 DEF RuleFields, F, If, Is
<1>4. ASSUME NEW i \in 1 .. 11
      PROVE  /\ s[i].when \in {"always", "python"}
             /\ s[i].key = "language" => i = 3
             /\ i <= 3 => s[i].when = "always"
  <2>1. i \in {1, 2, 3, 4, 5, 6, 7, 8, 9, 10, 11}
    OBVIOUS
  <2>2. QED BY <1>3, <2>1 DEF Is
<1>5. ASSUME NEW i \in 1 .. 11, NEW values, NEW new, values["language"] = new["language"]
      PROVE  Holds(s[i].when, values) <=> Holds(s[i].when, new)
  BY <1>4, <1>5 DEF Holds
<1>6. s[1].key = "name" /\ s[1].when = "always" /\ s[3].key = "language"
  BY <1>3 DEF Is
<1>7. Gate(s, 11, 3, "language")
  BY <1>2, <1>4, <1>5, <1>6 DEF Gate
<1>8. QED BY <1>1, <1>7

LEMMA FieldsAre ==
  ASSUME NEW kind \in Kind
  PROVE  \E n, gate, key : Gate(Fields(kind), n, gate, key)
<1>1. kind = "server" \/ kind = "profile" \/ kind = "rule"
  BY DEF Kind
<1>2. CASE kind = "server"
  <2>1. Fields(kind) = ServerFields
    BY <1>2 DEF Fields
  <2>2. QED BY <2>1, ServerFieldsAre
<1>3. CASE kind = "profile"
  <2>1. Fields(kind) = ProfileFields
    BY <1>3 DEF Fields
  <2>2. QED BY <2>1, ProfileFieldsAre
<1>4. CASE kind = "rule"
  <2>1. Fields(kind) = RuleFields
    BY <1>4 DEF Fields
  <2>2. QED BY <2>1, RuleFieldsAre
<1>5. QED BY <1>1, <1>2, <1>3, <1>4

(* A field is shown or not by the value of a field before it.              *)
LEMMA ShownByEarlier ==
  ASSUME NEW kind \in Kind, NEW i \in DOMAIN Fields(kind), NEW j \in 1 .. i,
         NEW values, NEW new,
         \A k \in Keys(kind) : k # Fields(kind)[i].key => new[k] = values[k]
  PROVE  Holds(Fields(kind)[j].when, values) <=> Holds(Fields(kind)[j].when, new)
<1>1. PICK s : s = Fields(kind)
  OBVIOUS
<1>2. PICK n, gate, key : Gate(s, n, gate, key)
  BY <1>1, FieldsAre
<1>3. i \in 1 .. n /\ j \in 1 .. n /\ gate \in 1 .. n /\ n \in Nat /\ j <= i
  BY <1>1, <1>2 DEF Gate
<1>4. CASE j <= gate
  <2>1. s[j].when = "always"
    BY <1>2, <1>3, <1>4 DEF Gate
  <2>2. QED BY <1>1, <2>1 DEF Holds
<1>5. CASE j > gate
  <2>1. s[i].key # key
    BY <1>2, <1>3, <1>5 DEF Gate
  <2>2. key \in Keys(kind)
    BY <1>1, <1>2, <1>3 DEF Gate, Keys, FieldsOf
  <2>3. values[key] = new[key]
    BY <1>1, <2>1, <2>2
  <2>4. QED BY <1>1, <1>2, <1>3, <2>3 DEF Gate
<1>6. QED BY <1>3, <1>4, <1>5

----------------------------------------------------------------------------
FormOK(f) ==
  /\ f = [kind |-> f.kind, original |-> f.original, values |-> f.values, focus |-> f.focus,
          typing |-> f.typing, submitting |-> f.submitting]
  /\ f.kind \in Kind
  /\ f.values = [k \in Keys(f.kind) |-> f.values[k]]
  /\ f.focus \in 1 .. Visible(f)
  /\ Current(f).type = "text" => f.typing = Current(f).key

LEMMA SequenceOfFields ==
  ASSUME NEW kind \in Kind
  PROVE  /\ Fields(kind) \in Seq(FieldsOf(kind))
         /\ \E n \in Nat \ {0} : DOMAIN Fields(kind) = 1 .. n
         /\ Fields(kind)[1].key = "name" /\ Fields(kind)[1].when = "always"
<1>1. PICK s : s = Fields(kind)
  OBVIOUS
<1>2. PICK n, gate, key : Gate(s, n, gate, key)
  BY <1>1, FieldsAre
<1>3. s = [i \in 1 .. n |-> s[i]] /\ n \in Nat \ {0}
  BY <1>2 DEF Gate
<1>4. PICK S : S = FieldsOf(kind)
  OBVIOUS
<1>5. \A i \in 1 .. n : s[i] \in S
  BY <1>1, <1>3, <1>4 DEF FieldsOf
<1>6. s \in Seq(S)
  BY <1>3, <1>5
<1>7. s[1].key = "name" /\ s[1].when = "always"
  BY <1>2 DEF Gate
<1>8. QED BY <1>1, <1>3, <1>4, <1>6, <1>7

LEMMA ShownIs ==
  ASSUME NEW f, f.kind \in Kind, NEW i \in DOMAIN Fields(f.kind)
  PROVE  Fields(f.kind)[i] \in Shown(f) <=> Holds(Fields(f.kind)[i].when, f.values)
BY DEF Shown, FieldsOf

(* What is shown, and where: at[k] is the field shown as the k-th.         *)
LEMMA VisibleIs ==
  ASSUME NEW f, f.kind \in Kind
  PROVE  /\ Visible(f) \in Nat \ {0}
         /\ VisibleFields(f)[1].key = "name"
<1>1. PICK s : s = Fields(f.kind)
  OBVIOUS
<1>2. PICK S : S = FieldsOf(f.kind)
  OBVIOUS
<1>3. PICK T : T = Shown(f)
  OBVIOUS
<1>4. s \in Seq(S) /\ s[1].key = "name" /\ s[1].when = "always" /\ 1 \in DOMAIN s
        /\ DOMAIN s = 1 .. Len(s) /\ Len(s) \in Nat
  BY <1>1, <1>2, SequenceOfFields
<1>5. 1 \in Where(s, T)
  <2>1. s[1] \in T
    BY <1>1, <1>3, <1>4, ShownIs DEF Holds
  <2>2. QED BY <1>4, <2>1 DEF Where
<1>6. PICK I : I = Where(s, T)
  OBVIOUS
<1>7. I \subseteq DOMAIN s
  BY <1>6 DEF Where
<1>8. IsFiniteSet(I)
  BY <1>4, <1>7, PositionsAreFinite
<1>9. Cardinality(I) \in Nat \ {0}
  BY <1>5, <1>6, <1>8, FS_CardinalityType, FS_EmptySet
<1>10. PlaceOf(1, s, T) = 1
  <2>1. Ahead(1, I, AsListed(s)) = {}
    BY <1>4, <1>7 DEF Ahead, AsListed
  <2>2. Cardinality(Ahead(1, I, AsListed(s))) = 0
    BY <2>1, FS_EmptySet
  <2>3. QED BY <1>6, <2>2 DEF PlaceOf, Rank
<1>11. Only(s, T)[PlaceOf(1, s, T)] = s[1]
  BY <1>4, <1>5, OnlyIs
<1>12. QED BY <1>1, <1>3, <1>4, <1>6, <1>9, <1>10, <1>11 DEF Visible, VisibleFields

LEMMA SameShown ==
  ASSUME NEW f, NEW g, f.kind = g.kind, f.values = g.values
  PROVE  Visible(f) = Visible(g) /\ VisibleFields(f) = VisibleFields(g)
BY DEF Visible, VisibleFields, Shown

LEMMA FocusIs ==
  ASSUME NEW f, f.kind \in Kind, f.focus \in 1 .. Visible(f)
  PROVE  Focus(f) = f.focus /\ Current(f) = VisibleFields(f)[f.focus]
<1>1. Visible(f) \in Nat
  BY VisibleIs
<1>2. Focus(f) = f.focus
  BY <1>1 DEF Focus
<1>3. QED BY <1>2 DEF Current

LEMMA NewFormOK ==
  ASSUME NEW kind \in Kind, NEW original, NEW values,
         values = [k \in Keys(kind) |-> values[k]]
  PROVE  FormOK(NewForm(kind, original, values))
<1>1. PICK f : f = NewForm(kind, original, values)
  OBVIOUS
<1>2. /\ f.kind = kind /\ f.values = values /\ f.focus = 1 /\ f.typing = "name"
      /\ f = [kind |-> f.kind, original |-> f.original, values |-> f.values,
              focus |-> f.focus, typing |-> f.typing, submitting |-> f.submitting]
  BY <1>1 DEF NewForm
<1>3. Visible(f) \in Nat \ {0} /\ VisibleFields(f)[1].key = "name"
  BY <1>2, VisibleIs
<1>4. f.focus \in 1 .. Visible(f)
  BY <1>2, <1>3
<1>5. Current(f).key = "name"
  BY <1>2, <1>3, <1>4, FocusIs
<1>6. FormOK(f)
  BY <1>2, <1>4, <1>5 DEF FormOK
<1>7. QED BY <1>1, <1>6

LEMMA Modulo ==
  ASSUME NEW n \in Nat \ {0}, NEW x \in Int
  PROVE  (x % n) + 1 \in 1 .. n
OBVIOUS

LEMMA MoveFocusOK ==
  ASSUME NEW f, FormOK(f), NEW delta \in {-1, 1}
  PROVE  FormOK(MoveFocus(f, delta))
<1>1. PICK g : g = MoveFocus(f, delta)
  OBVIOUS
<1>2. PICK n : n = Visible(f)
  OBVIOUS
<1>3. /\ f.kind \in Kind /\ f.focus \in 1 .. n /\ n \in Nat \ {0}
      /\ Focus(f) = f.focus
  BY <1>2, FocusIs, VisibleIs DEF FormOK
<1>4. PICK to : to = ((f.focus - 1 + delta) % n) + 1
  OBVIOUS
<1>5. to \in 1 .. n
  <2>1. f.focus - 1 + delta \in Int
    BY <1>3
  <2>2. QED BY <1>3, <1>4, <2>1, Modulo
<1>6. PICK visible : visible = VisibleFields(f)
  OBVIOUS
<1>7. g = [f EXCEPT !.focus = to,
                    !.typing = IF visible[to].type = "text" THEN visible[to].key ELSE "none"]
  BY <1>1, <1>2, <1>3, <1>4, <1>6 DEF MoveFocus
<1>8. /\ g.kind = f.kind /\ g.values = f.values /\ g.focus = to
      /\ visible[to].type = "text" => g.typing = visible[to].key
      /\ g = [kind |-> g.kind, original |-> g.original, values |-> g.values,
              focus |-> g.focus, typing |-> g.typing, submitting |-> g.submitting]
  BY <1>7 DEF FormOK
<1>9. Visible(g) = n /\ VisibleFields(g) = visible
  BY <1>2, <1>6, <1>8, SameShown
<1>10. Current(g) = visible[to]
  BY <1>3, <1>5, <1>8, <1>9, FocusIs
<1>11. FormOK(g)
  BY <1>3, <1>5, <1>8, <1>9, <1>10 DEF FormOK
<1>12. QED BY <1>1, <1>11

LEMMA SubmittingOK ==
  ASSUME NEW f, FormOK(f), NEW now
  PROVE  FormOK([f EXCEPT !.submitting = now])
<1>1. PICK g : g = [f EXCEPT !.submitting = now]
  OBVIOUS
<1>2. /\ g.kind = f.kind /\ g.values = f.values /\ g.focus = f.focus /\ g.typing = f.typing
      /\ g = [kind |-> g.kind, original |-> g.original, values |-> g.values,
              focus |-> g.focus, typing |-> g.typing, submitting |-> g.submitting]
  BY <1>1 DEF FormOK
<1>3. Visible(g) = Visible(f) /\ VisibleFields(g) = VisibleFields(f)
  BY <1>2, SameShown
<1>4. Current(g) = Current(f)
  BY <1>2, <1>3 DEF Current, Focus
<1>5. FormOK(g)
  BY <1>2, <1>3, <1>4 DEF FormOK
<1>6. QED BY <1>1, <1>5

(* The value of the field that has the focus changes: it keeps its place.  *)
LEMMA ValueOK ==
  ASSUME NEW f, FormOK(f), NEW value
  PROVE  FormOK([f EXCEPT !.values[Current(f).key] = value])
<1>1. PICK g : g = [f EXCEPT !.values[Current(f).key] = value]
  OBVIOUS
<1>2. PICK key : key = Current(f).key
  OBVIOUS
<1>3. /\ g.kind = f.kind /\ g.focus = f.focus /\ g.typing = f.typing
      /\ g.values = [f.values EXCEPT ![key] = value]
      /\ g = [kind |-> g.kind, original |-> g.original, values |-> g.values,
              focus |-> g.focus, typing |-> g.typing, submitting |-> g.submitting]
  BY <1>1, <1>2 DEF FormOK
<1>4. PICK kind \in Kind : kind = f.kind
  BY DEF FormOK
<1>5. PICK s : s = Fields(kind)
  OBVIOUS
<1>6. PICK S : S = FieldsOf(kind)
  OBVIOUS
<1>7. PICK T : T = Shown(f)
  OBVIOUS
<1>8. PICK U : U = Shown(g)
  OBVIOUS
<1>9. s \in Seq(S) /\ DOMAIN s = 1 .. Len(s) /\ Len(s) \in Nat
  BY <1>5, <1>6, SequenceOfFields
<1>10. Visible(f) = Cardinality(Where(s, T)) /\ VisibleFields(f) = Only(s, T)
         /\ Visible(g) = Cardinality(Where(s, U)) /\ VisibleFields(g) = Only(s, U)
  BY <1>3, <1>4, <1>5, <1>7, <1>8 DEF Visible, VisibleFields
<1>11. PICK k : k = f.focus
  OBVIOUS
<1>12. k \in 1 .. Visible(f) /\ Current(f) = VisibleFields(f)[k]
  BY <1>4, <1>11, FocusIs DEF FormOK
<1>13. PICK i : i = Positions(s, T)[k]
  OBVIOUS
<1>14. i \in Where(s, T) /\ Only(s, T)[k] = s[i] /\ PlaceOf(i, s, T) = k
  <2>1. k \in DOMAIN Only(s, T)
    BY <1>9, <1>10, <1>12, OnlyIs
  <2>2. QED BY <1>9, <1>13, <2>1, OnlyIs
<1>15. i \in DOMAIN s /\ s[i] \in T /\ key = s[i].key
  BY <1>2, <1>10, <1>12, <1>14 DEF Where
<1>16. ASSUME NEW j \in 1 .. i
       PROVE  s[j] \in T <=> s[j] \in U
  <2>1. \A l \in Keys(kind) : l # key => g.values[l] = f.values[l]
    BY <1>3, <1>4 DEF FormOK
  <2>2. Holds(s[j].when, f.values) <=> Holds(s[j].when, g.values)
    BY <1>5, <1>15, <2>1, ShownByEarlier
  <2>3. j \in DOMAIN s
    BY <1>9, <1>15
  <2>4. QED BY <1>3, <1>4, <1>5, <1>7, <1>8, <2>2, <2>3, ShownIs
<1>17. i \in Where(s, U) /\ PlaceOf(i, s, U) = k
  <2>1. s \in Seq(S) /\ i \in DOMAIN s /\ s[i] \in T
    BY <1>9, <1>15
  <2>2. \A j \in 1 .. i : s[j] \in T <=> s[j] \in U
    BY <1>16
  <2>3. i \in Where(s, U) /\ PlaceOf(i, s, T) = PlaceOf(i, s, U)
    BY <2>1, <2>2, OnlyPrefix
  <2>4. QED BY <1>14, <2>3
<1>18. k \in 1 .. Visible(g) /\ Only(s, U)[k] = s[i]
  BY <1>9, <1>10, <1>17, OnlyIs
<1>19. Current(g) = Current(f)
  BY <1>3, <1>4, <1>10, <1>11, <1>12, <1>14, <1>18, FocusIs
<1>20. g.values = [l \in Keys(g.kind) |-> g.values[l]]
  BY <1>3 DEF FormOK
<1>21. FormOK(g)
  BY <1>3, <1>11, <1>18, <1>19, <1>20 DEF FormOK
<1>22. QED BY <1>1, <1>21

----------------------------------------------------------------------------
(* A request for an entry, and its answer, say of which kind it is.        *)
SlotOK(request) == request.op \in {"fetch", "editFetchedMsg"} => request.kind \in Kind

IInv ==
  /\ setup \in Setup /\ tab \in Tab
  /\ form = None \/ FormOK(form)
  /\ mode = "form" => FormOK(form)
  /\ slot = [i \in Slots |-> slot[i]]
  /\ \A i \in Slots : SlotOK(slot[i])

LEMMA SlotsFollow ==
  ASSUME IInv, NEW i \in Slots, NEW message, SlotOK(message),
         slot' = [slot EXCEPT ![i] = message]
  PROVE  slot' = [j \in Slots |-> slot'[j]] /\ \A j \in Slots : SlotOK(slot'[j])
<1>1. slot = [j \in Slots |-> slot[j]] /\ \A j \in Slots : SlotOK(slot[j])
  BY DEF IInv
<1>2. slot' = [j \in Slots |-> slot'[j]]
  BY <1>1
<1>3. ASSUME NEW j \in Slots PROVE SlotOK(slot'[j])
  <2>1. slot'[j] = slot[j] \/ slot'[j] = message
    BY <1>1
  <2>2. QED BY <1>1, <2>1
<1>4. QED BY <1>2, <1>3

(* Without a change of the form and of what shows it.                      *)
LEMMA SlotsOnly ==
  ASSUME IInv, UNCHANGED <<setup, tab, form>>, mode' = mode \/ mode' # "form",
         slot' = [i \in Slots |-> slot'[i]], \A i \in Slots : SlotOK(slot'[i])
  PROVE  IInv'
BY DEF IInv

LEMMA Same ==
  ASSUME IInv, UNCHANGED <<setup, form, slot>>, mode' = mode \/ mode' # "form", tab' \in Tab
  PROVE  IInv'
BY DEF IInv

LEMMA SendOK ==
  ASSUME IInv, NEW request, SlotOK(request), Send(request)
  PROVE  slot' = [i \in Slots |-> slot'[i]] /\ \A i \in Slots : SlotOK(slot'[i])
<1>1. PICK i \in Slots : slot' = [slot EXCEPT ![i] = request]
  BY DEF Send
<1>2. QED BY <1>1, SlotsFollow

LEMMA AtATab ==
  ASSUME IInv, tab # 0
  PROVE  KindOf[tab] \in Kind
<1>1. tab \in {1, 2, 3}
  BY DEF IInv, Tab
<1>2. KindOf[1] = "server" /\ KindOf[2] = "profile" /\ KindOf[3] = "rule"
  BY DEF KindOf
<1>3. QED BY <1>1, <1>2 DEF Kind

LEMMA OnAnswer ==
  ASSUME IInv, NEW i \in Slots, Answer(i)
  PROVE  IInv'
<1>1. \E message : SlotOK(message) /\ slot' = [slot EXCEPT ![i] = message]
  <2>1. CASE AnswerRead(i)
    <3>1. CASE slot[i].op = "fetchAll" /\ (Reply(i, DataMsg(entries)) \/ Reply(i, ErrMsg))
      <4>1. SlotOK(DataMsg(entries)) /\ SlotOK(ErrMsg)
        BY DEF SlotOK, DataMsg, ErrMsg
      <4>2. QED BY <3>1, <4>1 DEF Reply
    <3>2. CASE slot[i].op = "fetch"
                 /\ (Reply(i, EditFetchedMsg(slot[i].kind, slot[i].name)) \/ Reply(i, ErrMsg))
      <4>1. slot[i].kind \in Kind
        BY <3>2 DEF IInv, SlotOK
      <4>2. SlotOK(EditFetchedMsg(slot[i].kind, slot[i].name)) /\ SlotOK(ErrMsg)
        BY <4>1 DEF SlotOK, EditFetchedMsg, ErrMsg
      <4>3. QED BY <3>2, <4>2 DEF Reply
    <3>3. QED BY <2>1, <3>1, <3>2 DEF AnswerRead
  <2>2. CASE AnswerEdit(i)
    <3>1. SlotOK(FormResultMsg(TRUE)) /\ SlotOK(FormResultMsg(FALSE))
      BY DEF SlotOK, FormResultMsg
    <3>2. QED BY <2>2, <3>1 DEF AnswerEdit, Reply
  <2>3. QED BY <2>1, <2>2 DEF Answer
<1>2. slot' = [j \in Slots |-> slot'[j]] /\ \A j \in Slots : SlotOK(slot'[j])
  BY <1>1, SlotsFollow
<1>3. UNCHANGED <<setup, tab, form, mode>>
  BY DEF Answer, AnswerRead, AnswerEdit
<1>4. QED BY <1>2, <1>3, SlotsOnly

LEMMA FreeOK == SlotOK(Free) /\ SlotOK(FetchAll)
BY DEF SlotOK, Free, FetchAll

LEMMA OnData ==
  ASSUME IInv, NEW i \in Slots, OnDataMsg(i) \/ OnErrMsg(i)
  PROVE  IInv'
<1>1. slot' = [slot EXCEPT ![i] = Free] /\ UNCHANGED <<setup, tab, form, mode>>
  BY DEF OnDataMsg, OnErrMsg, Done
<1>2. slot' = [j \in Slots |-> slot'[j]] /\ \A j \in Slots : SlotOK(slot'[j])
  BY <1>1, FreeOK, SlotsFollow
<1>3. QED BY <1>1, <1>2, SlotsOnly

LEMMA OnEditFetched ==
  ASSUME IInv, NEW i \in Slots, OnEditFetchedMsg(i)
  PROVE  IInv'
<1>1. PICK kind : kind = slot[i].kind
  OBVIOUS
<1>2. kind \in Kind
  BY <1>1 DEF OnEditFetchedMsg, Take, IInv, SlotOK
<1>3. PICK values \in setup.stored[kind] :
        form' = NewForm(kind, slot[i].name, [values EXCEPT !["name"] = slot[i].name])
  BY <1>1 DEF OnEditFetchedMsg
<1>4. values \in [Keys(kind) -> STRING]
  <2>1. kind = "server" \/ kind = "profile" \/ kind = "rule"
    BY <1>2 DEF Kind
  <2>2. setup.stored \in Stored
    BY DEF IInv, Setup
  <2>3. setup.stored[kind] \subseteq Values(kind)
    BY <2>1, <2>2 DEF Stored
  <2>4. QED BY <1>3, <2>3 DEF Values
<1>5. PICK new : new = [values EXCEPT !["name"] = slot[i].name]
  OBVIOUS
<1>6. new = [k \in Keys(kind) |-> new[k]]
  BY <1>4, <1>5
<1>7. FormOK(form')
  BY <1>2, <1>3, <1>5, <1>6, NewFormOK
<1>8. slot' = [slot EXCEPT ![i] = Free] /\ UNCHANGED <<setup, tab>>
  BY DEF OnEditFetchedMsg, Done
<1>9. slot' = [j \in Slots |-> slot'[j]] /\ \A j \in Slots : SlotOK(slot'[j])
  BY <1>8, FreeOK, SlotsFollow
<1>10. QED BY <1>7, <1>8, <1>9 DEF IInv

LEMMA OnFormResult ==
  ASSUME IInv, NEW i \in Slots, OnFormResultMsg(i)
  PROVE  IInv'
<1>1. UNCHANGED <<setup, tab>>
  BY DEF OnFormResultMsg
<1>2. slot' = [slot EXCEPT ![i] = Free] \/ slot' = [slot EXCEPT ![i] = FetchAll]
  BY DEF OnFormResultMsg, ShowFormError, Done
<1>3. slot' = [j \in Slots |-> slot'[j]] /\ \A j \in Slots : SlotOK(slot'[j])
  BY <1>2, FreeOK, SlotsFollow
<1>4. CASE ShowFormError(i)
  <2>1. \/ form' = None /\ form = None
        \/ form' = [form EXCEPT !.submitting = FALSE] /\ form # None
    BY <1>4 DEF ShowFormError
  <2>2. mode' = mode
    BY <1>4 DEF ShowFormError
  <2>3. CASE form = None /\ form' = None
    BY <1>1, <1>3, <2>2, <2>3 DEF IInv
  <2>4. CASE form # None /\ form' = [form EXCEPT !.submitting = FALSE]
    <3>1. FormOK(form)
      BY <2>4 DEF IInv
    <3>2. FormOK(form')
      BY <2>4, <3>1, SubmittingOK
    <3>3. QED BY <1>1, <1>3, <2>2, <3>2 DEF IInv
  <2>5. QED BY <2>1, <2>3, <2>4
<1>5. CASE mode' = "list" /\ form' = None
  BY <1>1, <1>3, <1>5 DEF IInv
<1>6. QED BY <1>4, <1>5 DEF OnFormResultMsg

LEMMA OnSwitchTab == ASSUME IInv, SwitchTab PROVE IInv'
<1>1. tab \in 0 .. 3
  BY DEF IInv, Tab
<1>2. (tab - 1) % 4 \in 0 .. 3 /\ (tab + 1) % 4 \in 0 .. 3
  BY <1>1
<1>3. tab' \in Tab
  BY <1>2 DEF SwitchTab, Tab
<1>4. UNCHANGED <<setup, mode, form, slot>>
  BY DEF SwitchTab
<1>5. QED BY <1>3, <1>4, Same

LEMMA OnSending ==
  ASSUME IInv, Tick \/ Refresh \/ OpenEditForm
  PROVE  IInv'
<1>1. UNCHANGED <<setup, tab, form, mode>>
  BY DEF Tick, Refresh, OpenEditForm
<1>2. \E request : SlotOK(request) /\ Send(request)
  <2>1. CASE Tick \/ Refresh
    BY <2>1, FreeOK DEF Tick, Refresh
  <2>2. CASE OpenEditForm
    <3>1. tab # 0
      BY <2>2 DEF OpenEditForm, Rows
    <3>2. KindOf[tab] \in Kind
      BY <3>1, AtATab
    <3>3. SlotOK(Fetch(KindOf[tab], Selected))
      BY <3>2 DEF SlotOK, Fetch
    <3>4. QED BY <2>2, <3>3 DEF OpenEditForm
  <2>3. QED BY <2>1, <2>2
<1>3. slot' = [i \in Slots |-> slot'[i]] /\ \A i \in Slots : SlotOK(slot'[i])
  BY <1>2, SendOK
<1>4. QED BY <1>1, <1>3, SlotsOnly

LEMMA OnList ==
  ASSUME IInv, Quit \/ MoveCursor \/ OpenConfirmDelete \/ Panic
  PROVE  IInv'
<1>1. UNCHANGED <<setup, tab, form, slot>> /\ (mode' = mode \/ mode' # "form")
  BY DEF Quit, MoveCursor, OpenConfirmDelete, Panic
<1>2. tab' \in Tab
  BY <1>1 DEF IInv
<1>3. QED BY <1>1, <1>2, Same

LEMMA OnOpenNewForm == ASSUME IInv, OpenNewForm PROVE IInv'
<1>1. PICK kind : kind = KindOf[tab]
  OBVIOUS
<1>2. kind \in Kind
  BY <1>1, AtATab DEF OpenNewForm
<1>3. PICK values : values = Blank(kind)
  OBVIOUS
<1>4. values = [k \in Keys(kind) |-> values[k]]
  BY <1>3 DEF Blank
<1>5. form' = NewForm(kind, None, values)
  BY <1>1, <1>3 DEF OpenNewForm
<1>6. FormOK(form')
  BY <1>2, <1>4, <1>5, NewFormOK
<1>7. UNCHANGED <<setup, tab, slot>>
  BY DEF OpenNewForm
<1>8. QED BY <1>6, <1>7 DEF IInv

LEMMA OnConfirmDelete == ASSUME IInv, UpdateConfirmDelete PROVE IInv'
<1>1. UNCHANGED <<setup, tab, form>> /\ mode' = "list"
  BY DEF UpdateConfirmDelete
<1>2. SlotOK(Delete(pending.kind, pending.name))
  BY DEF SlotOK, Delete
<1>3. CASE Send(Delete(pending.kind, pending.name))
  <2>1. slot' = [i \in Slots |-> slot'[i]] /\ \A i \in Slots : SlotOK(slot'[i])
    BY <1>2, <1>3, SendOK
  <2>2. QED BY <1>1, <2>1, SlotsOnly
<1>4. CASE UNCHANGED slot
  BY <1>1, <1>4 DEF IInv
<1>5. QED BY <1>3, <1>4 DEF UpdateConfirmDelete

LEMMA OnCancelForm == ASSUME IInv, CancelForm PROVE IInv'
BY DEF CancelForm, IInv

LEMMA Changed ==
  ASSUME IInv, UNCHANGED <<setup, tab, mode>>, FormOK(form'),
         slot' = [i \in Slots |-> slot'[i]], \A i \in Slots : SlotOK(slot'[i])
  PROVE  IInv'
BY DEF IInv

LEMMA OnSubmitForm == ASSUME IInv, SubmitForm PROVE IInv'
<1>1. FormOK(form)
  BY DEF SubmitForm, InForm, Pressed, IInv
<1>2. form' = [form EXCEPT !.submitting = TRUE] /\ Send(Submit(form))
        /\ UNCHANGED <<setup, tab, mode>>
  BY DEF SubmitForm
<1>3. FormOK(form')
  BY <1>1, <1>2, SubmittingOK
<1>4. SlotOK(Submit(form))
  BY DEF SlotOK, Submit
<1>5. slot' = [i \in Slots |-> slot'[i]] /\ \A i \in Slots : SlotOK(slot'[i])
  BY <1>2, <1>4, SendOK
<1>6. QED BY <1>2, <1>3, <1>5, Changed

LEMMA OnEnterIntoField == ASSUME IInv, EnterIntoField PROVE IInv'
<1>1. mode = "form"
  BY DEF EnterIntoField, InForm, Pressed
<1>2. FormOK(form)
  BY <1>1 DEF IInv
<1>3. \E value : form' = [form EXCEPT !.values[Current(form).key] = value]
  BY DEF EnterIntoField
<1>4. FormOK(form')
  BY <1>2, <1>3, ValueOK
<1>5. UNCHANGED <<setup, tab, mode, slot>>
  BY DEF EnterIntoField
<1>6. QED BY <1>4, <1>5 DEF IInv

LEMMA OnChangeField == ASSUME IInv, ChangeField PROVE IInv'
<1>1. mode = "form"
  BY DEF ChangeField, InForm, Pressed
<1>2. FormOK(form)
  BY <1>1 DEF IInv
<1>3. form' = MoveFocus(form, -1) \/ form' = MoveFocus(form, 1)
  BY DEF ChangeField
<1>4. FormOK(form')
  BY <1>2, <1>3, MoveFocusOK
<1>5. UNCHANGED <<setup, tab, mode, slot>>
  BY DEF ChangeField
<1>6. QED BY <1>4, <1>5 DEF IInv

LEMMA Stays == ASSUME IInv, UNCHANGED vars PROVE IInv'
BY DEF IInv, vars

LEMMA IInvNext == IInv /\ [Next]_vars => IInv'
<1> SUFFICES ASSUME IInv, [Next]_vars PROVE IInv'
  OBVIOUS
<1>1. CASE KeyMsg
  BY <1>1, OnSwitchTab, OnSending, OnList, OnOpenNewForm, OnConfirmDelete, OnCancelForm,
     OnSubmitForm, OnEnterIntoField, OnChangeField DEF KeyMsg
<1>2. CASE Tick
  BY <1>2, OnSending
<1>3. CASE \E i \in Slots : Answer(i) \/ Deliver(i)
  BY <1>3, OnAnswer, OnData, OnEditFetched, OnFormResult DEF Deliver
<1>4. CASE UNCHANGED vars
  BY <1>4, Stays
<1>5. QED BY <1>1, <1>2, <1>3, <1>4 DEF Next

LEMMA IInvInit == Init => IInv
<1> SUFFICES ASSUME Init PROVE IInv
  OBVIOUS
<1>1. setup \in Setup
  BY TuiAssumption DEF Init
<1>2. tab \in Tab /\ form = None /\ mode = "list"
  BY DEF Init, Tab
<1>3. slot = [i \in Slots |-> slot[i]]
        /\ \A i \in Slots : slot[i] = FetchAll \/ slot[i] = Free
  BY DEF Init
<1>4. \A i \in Slots : SlotOK(slot[i])
  BY <1>3, FreeOK
<1>5. QED BY <1>1, <1>2, <1>3, <1>4 DEF IInv

LEMMA IInvTyping == IInv => TypingGoesToTheField
BY DEF IInv, FormOK, TypingGoesToTheField

(* In every form, whatever is fetched into it and whichever keys are       *)
(* pressed, the focus is on a field that is shown, and if it takes text it *)
(* is the one that entryForm.update passes the text to.                    *)
THEOREM TypingIsSeen == Spec => []TypingGoesToTheField
<1>1. Spec => []IInv
  BY IInvInit, IInvNext, PTL DEF Spec
<1>2. QED BY <1>1, IInvTyping, PTL
=============================================================================
