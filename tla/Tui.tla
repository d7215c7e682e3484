--------------------------------- MODULE Tui ---------------------------------
(***************************************************************************)
(* The terminal interface (internal/tui): bubbletea calls Update with one  *)
(* message after the other - keys, ticks and the replies to the requests   *)
(* sent to the daemon.  Every request runs in a goroutine of its own, so   *)
(* replies come in any order, and whatever the user has done since.        *)
(*                                                                         *)
(* An entry is its name.  Of the text of a field it matters whether there  *)
(* is any and whether it parses; layout, colours and the size of the       *)
(* window are left out.                                                    *)
(***************************************************************************)
EXTENDS Arrangement

CONSTANTS
  Name,    \* names of entries
  Slots,   \* bound: 1 .. the requests on their way at one time
  Setups,  \* initial situations, see Setup
  None

Kind == {"server", "profile", "rule"}
Tab == 0 .. 3                     \* Status, Servers, Profiles, Rules
KindOf == <<"server", "profile", "rule">>
Lists == [Kind -> Seq(Name)]

VARIABLES
  setup,
  tab, mode, cursor, form,  \* of tui.model
  cfg,      \* model.cfg: the names listed
  pending,  \* model.pendingDeleteKind and -Name
  slot,     \* the requests on their way, and their replies
  entries   \* the configuration of the daemon

vars == <<setup, tab, mode, cursor, form, cfg, pending, slot, entries>>

Modes == {"list", "form", "confirm", "quit", "panicked"}

----------------------------------------------------------------------------
(* The fields of the three forms: [key, type, when], shown if when holds   *)
(* of the values of the others.                                            *)
F(key, type) == [key |-> key, type |-> type, when |-> "always"]
If(when, field) == [field EXCEPT !.when = when]

ServerFields ==
  <<F("name", "text"), F("transport", "enum"),
    If("stdio", F("command", "text")), If("stdio", F("args", "text")),
    If("stdio", F("env", "text")), If("http", F("url", "text")),
    If("http", F("headers", "text")), F("connect_timeout", "text"),
    F("call_timeout", "text"), F("namespace", "bool")>>

ProfileFields ==
  <<F("name", "text"), F("stdio_arg", "text"), F("http_path", "text"),
    F("allow", "text"), F("deny", "text"), F("lazy_enabled", "bool"),
    If("lazy", F("lazy_limit", "text"))>>

(* Mutant: a field comes before the one that shows it.                     *)
RuleFieldsLanguageLast ==
  <<F("name", "text"), F("script", "text"), F("hook_pre", "bool"),
    F("hook_post", "bool"), F("applies_tools", "text"), F("applies_servers", "text"),
    F("priority", "text"), F("timeout", "text"), F("on_error", "enum"),
    If("python", F("env", "text")), F("language", "enum")>>

RuleFields ==
  <<F("name", "text"), F("script", "text"), F("language", "enum"),
    F("hook_pre", "bool"), F("hook_post", "bool"), F("applies_tools", "text"),
    F("applies_servers", "text"), F("priority", "text"), F("timeout", "text"),
    F("on_error", "enum"), If("python", F("env", "text"))>>

Fields(kind) ==
  IF kind = "server" THEN ServerFields
  ELSE IF kind = "profile" THEN ProfileFields ELSE RuleFields

Options(key) ==
  IF key = "transport" THEN <<"stdio", "http", "sse">>
  ELSE IF key = "language" THEN <<"js", "python">> ELSE <<"reject", "skip">>

FieldsOf(kind) == {Fields(kind)[i] : i \in DOMAIN Fields(kind)}
Keys(kind) == {field.key : field \in FieldsOf(kind)}

Values(kind) == [Keys(kind) -> STRING]

(* entries: the configuration of the daemon; stored: what the fields of an *)
(* entry fetched for editing may hold.  The rest are bounds: the keys the  *)
(* user presses, the fields he types text into and the names he gives,     *)
(* whether the ticker runs, how many requests are on their way at one time.*)
Key == {"left", "right", "tab", "shift+tab", "up", "down", "enter", "esc", "ctrl+s",
        " ", "text", "1", "2", "3", "4", "q", "r", "a", "e", "d", "y", "n"}

Stored == [server : SUBSET Values("server"), profile : SUBSET Values("profile"),
           rule : SUBSET Values("rule")]

Setup == [entries : Lists, stored : Stored,
          keys : SUBSET Key, texts : SUBSET STRING,
          names : SUBSET Name, poll : BOOLEAN, requests : Nat]

ASSUME TuiAssumption == None \notin Name /\ Setups \subseteq Setup

(* A new entry: no text but for the numbers that have a default.           *)
Blank(kind) ==
  [k \in Keys(kind) |->
     IF k \in {"transport", "language", "on_error"} THEN Options(k)[1]
     ELSE IF k = "namespace" THEN "true"
     ELSE IF k \in {"lazy_enabled", "hook_pre", "hook_post"} THEN "false"
     ELSE IF k \in {"lazy_limit", "priority"} THEN "good" ELSE ""]

Holds(when, values) ==
  \/ when = "always"
  \/ when = "stdio" /\ values["transport"] = "stdio"
  \/ when = "http" /\ values["transport"] \in {"http", "sse"}
  \/ when = "lazy" /\ values["lazy_enabled"] = "true"
  \/ when = "python" /\ values["language"] = "python"

Shown(f) == {field \in FieldsOf(f.kind) : Holds(field.when, f.values)}
VisibleFields(f) == Only(Fields(f.kind), Shown(f))
Visible(f) == Cardinality(Where(Fields(f.kind), Shown(f)))   \* how many

(* newServerForm and its like, and init: the first field has the focus, and*)
(* typing is the text field whose input has it.                            *)
NewForm(kind, original, values) ==
  [kind |-> kind, original |-> original, values |-> values, focus |-> 1,
   typing |-> "name", submitting |-> FALSE]

(* update brings a focus beyond the visible fields back to the last one.   *)
Focus(f) ==
  IF f.focus > Visible(f) THEN Visible(f) ELSE f.focus

Current(f) == VisibleFields(f)[Focus(f)]

(* setFocus(false) on the current field, setFocus(true) on another.        *)
MoveFocus(f, delta) ==
  LET visible == VisibleFields(f)
      to == ((Focus(f) - 1 + delta) % Visible(f)) + 1
  IN  [f EXCEPT !.focus = to,
                !.typing = IF visible[to].type = "text" THEN visible[to].key ELSE "none"]

Step(options, value, delta) ==
  LET i == CHOOSE j \in DOMAIN options : options[j] = value
  IN  options[((i - 1 + delta) % Len(options)) + 1]

(* formField.handleKey: the keys a field takes for itself.                 *)
Handles(field, key) ==
  \/ field.type = "bool" /\ key \in {" ", "enter", "left", "right"}
  \/ field.type = "enum" /\ key \in {" ", "left", "right"}
  \/ field.type = "text" /\ key \notin {"tab", "shift+tab", "enter", "esc", "up", "down"}

Texts(key) ==
  IF key = "name" THEN setup.names
  ELSE IF key \in {"env", "headers", "connect_timeout", "call_timeout", "lazy_limit",
                   "priority", "timeout"} THEN {"good", "bad"} ELSE {"good"}

(* What the field may hold afterwards; an input without the focus ignores  *)
(* the key.                                                                *)
Entered(f, field, key) ==
  LET value == f.values[field.key] IN
  CASE field.type = "bool" -> {IF value = "true" THEN "false" ELSE "true"}
    [] field.type = "enum" -> {Step(Options(field.key), value, IF key = "left" THEN -1 ELSE 1)}
    [] OTHER -> IF key = "text" /\ f.typing = field.key /\ field.key \in setup.texts THEN Texts(field.key) ELSE {value}

(* collectServer, collectProfile, collectRule: hidden fields count as well.*)
Collects(f) ==
  LET Bad(key) == f.values[key] = "bad"
      Given(key) == f.values[key] # ""
  IN  /\ Given("name")
      /\ f.kind = "server" =>
           ~\E k \in {"env", "headers", "connect_timeout", "call_timeout"} : Bad(k)
      /\ f.kind = "profile" =>
           /\ Given("stdio_arg") \/ Given("http_path")
           /\ f.values["lazy_enabled"] = "true" => ~Bad("lazy_limit")
      /\ f.kind = "rule" =>
           /\ Given("script")
           /\ f.values["hook_pre"] = "true" \/ f.values["hook_post"] = "true"
           /\ ~Bad("priority") /\ ~Bad("timeout")

----------------------------------------------------------------------------
(* Requests: a slot holds the request, then the reply.                     *)
Free == [op |-> "free"]
FetchAll == [op |-> "fetchAll"]
Fetch(kind, name) == [op |-> "fetch", kind |-> kind, name |-> name]
Submit(f) == [op |-> "submit", kind |-> f.kind, original |-> f.original,
              name |-> f.values["name"]]
Delete(kind, name) == [op |-> "delete", kind |-> kind, name |-> name]

DataMsg(lists) == [op |-> "dataMsg", cfg |-> lists]
EditFetchedMsg(kind, name) == [op |-> "editFetchedMsg", kind |-> kind, name |-> name]
FormResultMsg(ok) == [op |-> "formResultMsg", ok |-> ok]
ErrMsg == [op |-> "errMsg"]   \* a dataMsg or an editFetchedMsg with an error

Send(request) ==
  \E i \in Slots :
    /\ i <= setup.requests /\ slot[i] = Free
    /\ \A j \in Slots : j < i => slot[j] # Free
    /\ slot' = [slot EXCEPT ![i] = request]

Empty == [k \in Kind |-> <<>>]

Init ==
  /\ setup \in Setups
  /\ tab = 0 /\ mode = "list" /\ cursor = [t \in Tab |-> 0]
  /\ form = None /\ pending = None
  /\ cfg = Empty
  /\ entries = setup.entries
  /\ slot = [i \in Slots |-> IF i = 1 THEN FetchAll ELSE Free]

----------------------------------------------------------------------------
(* The daemon answers (adminclient).  An edit may fail for its own reasons;*)
(* and when the client's ten seconds are over the user reads of an error   *)
(* whether or not the daemon has done it.                                  *)
Has(kind, name) == \E i \in DOMAIN entries[kind] : entries[kind][i] = name

(* An edit of an entry that has been deleted since makes it again.         *)
Applied(request) ==
  LET list == entries[request.kind]
      Put(s) == [entries EXCEPT ![request.kind] = s]
  IN  IF request.op = "delete"
        THEN Put(Only(list, Name \ {request.name}))
      ELSE IF ~Has(request.kind, request.original) THEN Put(Append(list, request.name))
      ELSE Put([i \in DOMAIN list |->
                  IF list[i] = request.original THEN request.name ELSE list[i]])

Legal(request) ==
  IF request.op = "delete" THEN Has(request.kind, request.name)
  ELSE Has(request.kind, request.name) => request.name = request.original

Reply(i, reply) == slot' = [slot EXCEPT ![i] = reply]

AnswerRead(i) ==
  /\ \/ /\ slot[i].op = "fetchAll"
        /\ Reply(i, DataMsg(entries)) \/ Reply(i, ErrMsg)
     \/ /\ slot[i].op = "fetch"
        /\ \/ Has(slot[i].kind, slot[i].name)
              /\ Reply(i, EditFetchedMsg(slot[i].kind, slot[i].name))
           \/ Reply(i, ErrMsg)
  /\ UNCHANGED <<setup, tab, mode, cursor, form, cfg, pending, entries>>

AnswerEdit(i) ==
  /\ slot[i].op \in {"submit", "delete"}
  /\ \/ /\ Legal(slot[i])
        /\ entries' = Applied(slot[i])
        /\ Reply(i, FormResultMsg(TRUE)) \/ Reply(i, FormResultMsg(FALSE))
     \/ Reply(i, FormResultMsg(FALSE)) /\ UNCHANGED entries
  /\ UNCHANGED <<setup, tab, mode, cursor, form, cfg, pending>>

Answer(i) == AnswerRead(i) \/ AnswerEdit(i)

----------------------------------------------------------------------------
(* Update: replies.                                                        *)
Running == mode \notin {"quit", "panicked"}

Take(i, op) == Running /\ slot[i].op = op
Done(i) == slot' = [slot EXCEPT ![i] = Free]

OnDataMsg(i) ==
  /\ Take(i, "dataMsg")
  /\ cfg' = slot[i].cfg
  /\ Done(i)
  /\ UNCHANGED <<setup, tab, mode, cursor, form, pending, entries>>

OnErrMsg(i) ==
  /\ Take(i, "errMsg")
  /\ Done(i)
  /\ UNCHANGED <<setup, tab, mode, cursor, form, cfg, pending, entries>>

(* The form opens whatever is on the screen by now.                        *)
OnEditFetchedMsg(i) ==
  /\ Take(i, "editFetchedMsg")
  /\ \E values \in setup.stored[slot[i].kind] :
       form' = NewForm(slot[i].kind, slot[i].name, [values EXCEPT !["name"] = slot[i].name])
  /\ mode' = "form"
  /\ Done(i)
  /\ UNCHANGED <<setup, tab, cursor, cfg, pending, entries>>

(* Mutant: the form is not given back to the user.                         *)
KeepSubmitting(i) ==
  /\ form' = form /\ mode' = mode /\ Done(i)

(* A result with an error goes to the form there is, if there is one.      *)
ShowFormError(i) ==
  /\ form' = IF form = None THEN None ELSE [form EXCEPT !.submitting = FALSE]
  /\ mode' = mode /\ Done(i)

OnFormResultMsg(i) ==
  /\ Take(i, "formResultMsg")
  /\ \/ ~slot[i].ok /\ ShowFormError(i)
     \/ /\ slot[i].ok
        /\ mode' = "list" /\ form' = None
        /\ slot' = [slot EXCEPT ![i] = FetchAll]
  /\ UNCHANGED <<setup, tab, cursor, cfg, pending, entries>>

Deliver(i) ==
  OnDataMsg(i) \/ OnErrMsg(i) \/ OnEditFetchedMsg(i) \/ OnFormResultMsg(i)

Tick ==
  /\ Running /\ setup.poll
  /\ Send(FetchAll)
  /\ UNCHANGED <<setup, tab, mode, cursor, form, cfg, pending, entries>>

----------------------------------------------------------------------------
(* Update: keys, in the list.                                              *)
Pressed(keys, where) == mode = where /\ keys \cap setup.keys # {}

Rows == IF tab = 0 THEN <<>> ELSE cfg[KindOf[tab]]

SwitchTab ==
  /\ mode = "list"
  /\ \/ Pressed({"left", "shift+tab"}, "list") /\ tab' = (tab - 1) % 4
     \/ Pressed({"right", "tab"}, "list") /\ tab' = (tab + 1) % 4
     \/ Pressed({"1"}, "list") /\ tab' = 0
     \/ Pressed({"2"}, "list") /\ tab' = 1
     \/ Pressed({"3"}, "list") /\ tab' = 2
     \/ Pressed({"4"}, "list") /\ tab' = 3
  /\ UNCHANGED <<setup, mode, cursor, form, cfg, pending, slot, entries>>

Refresh ==
  /\ Pressed({"r"}, "list") /\ Send(FetchAll)
  /\ UNCHANGED <<setup, tab, mode, cursor, form, cfg, pending, entries>>

Quit ==
  /\ Pressed({"q"}, "list") /\ mode' = "quit"
  /\ UNCHANGED <<setup, tab, cursor, form, cfg, pending, slot, entries>>

Clamp(c, n) == IF n = 0 \/ c < 0 THEN 0 ELSE IF c >= n THEN n - 1 ELSE c

MoveCursor ==
  /\ \E delta \in {-1, 1} :
       /\ Pressed(IF delta = -1 THEN {"up"} ELSE {"down"}, "list")
       /\ cursor' = [cursor EXCEPT ![tab] = Clamp(@ + delta, Len(Rows))]
  /\ UNCHANGED <<setup, tab, mode, form, cfg, pending, slot, entries>>

OpenNewForm ==
  /\ Pressed({"a"}, "list") /\ tab # 0
  /\ form' = NewForm(KindOf[tab], None, Blank(KindOf[tab]))
  /\ mode' = "form"
  /\ UNCHANGED <<setup, tab, cursor, cfg, pending, slot, entries>>

(* The row at the cursor; an index past the end of the list panics.        *)
OutOfRange == Rows # <<>> /\ cursor[tab] >= Len(Rows)
Selected == Rows[cursor[tab] + 1]

OpenEditForm ==
  /\ Pressed({"e", "enter"}, "list") /\ Rows # <<>> /\ ~OutOfRange
  /\ Send(Fetch(KindOf[tab], Selected))
  /\ UNCHANGED <<setup, tab, mode, cursor, form, cfg, pending, entries>>

OpenConfirmDelete ==
  /\ Pressed({"d"}, "list") /\ Rows # <<>> /\ ~OutOfRange
  /\ pending' = [kind |-> KindOf[tab], name |-> Selected]
  /\ mode' = "confirm"
  /\ UNCHANGED <<setup, tab, cursor, form, cfg, slot, entries>>

Panic ==
  /\ Pressed({"e", "enter", "d"}, "list") /\ OutOfRange
  /\ mode' = "panicked"
  /\ UNCHANGED <<setup, tab, cursor, form, cfg, pending, slot, entries>>

UpdateConfirmDelete ==
  /\ \/ Pressed({"y", "enter"}, "confirm") /\ Send(Delete(pending.kind, pending.name))
     \/ Pressed({"n", "esc"}, "confirm") /\ UNCHANGED slot
  /\ mode' = "list"
  /\ UNCHANGED <<setup, tab, cursor, form, cfg, pending, entries>>

----------------------------------------------------------------------------
(* Update: keys, in a form.  While it is submitting they are ignored.      *)
InForm(keys) == Pressed(keys, "form") /\ ~form.submitting

CancelForm ==
  /\ InForm({"esc"})
  /\ mode' = "list" /\ form' = None
  /\ UNCHANGED <<setup, tab, cursor, cfg, pending, slot, entries>>

(* ctrl+s, or enter on a last field that does not take it for itself.      *)
SubmitForm ==
  /\ \/ InForm({"ctrl+s"})
     \/ InForm({"enter"}) /\ ~Handles(Current(form), "enter")
          /\ Focus(form) = Visible(form)
  /\ Collects(form)
  /\ form' = [form EXCEPT !.submitting = TRUE]
  /\ Send(Submit(form))
  /\ UNCHANGED <<setup, tab, mode, cursor, cfg, pending, entries>>

EnterIntoField ==
  /\ LET field == Current(form)
     IN  \E key \in setup.keys \ {"esc", "ctrl+s"} :
           /\ InForm({key}) /\ Handles(field, key)
           /\ \E value \in Entered(form, field, key) :
                form' = [form EXCEPT !.values[field.key] = value]
  /\ UNCHANGED <<setup, tab, mode, cursor, cfg, pending, slot, entries>>

ChangeField ==
  /\ LET field == Current(form)
     IN  \E key \in {"tab", "down", "enter", "shift+tab", "up"} :
           /\ InForm({key}) /\ ~Handles(field, key)
           /\ key = "enter" => Focus(form) < Visible(form)
           /\ form' = MoveFocus(form, IF key \in {"shift+tab", "up"} THEN -1 ELSE 1)
  /\ UNCHANGED <<setup, tab, mode, cursor, cfg, pending, slot, entries>>

KeyMsg ==
  \/ SwitchTab \/ Refresh \/ Quit \/ MoveCursor \/ OpenNewForm \/ OpenEditForm
  \/ OpenConfirmDelete \/ Panic \/ UpdateConfirmDelete
  \/ CancelForm \/ SubmitForm \/ EnterIntoField \/ ChangeField

Next == KeyMsg \/ Tick \/ \E i \in Slots : Answer(i) \/ Deliver(i)

Spec == Init /\ [][Next]_vars

(* A request ends - the client gives up after ten seconds - and bubbletea  *)
(* hands every message to Update.  Nothing is assumed of the user.         *)
Fairness == \A i \in Slots : WF_vars(Answer(i)) /\ WF_vars(Deliver(i))
FairSpec == Spec /\ Fairness

----------------------------------------------------------------------------
(* A form that is being submitted ignores every key, escape too: so it is  *)
(* given back or closed in the end, whichever replies come meanwhile and in*)
(* whatever order, unless the user has quit (formResultMsg in Update).     *)
FormReleased ==
  (form # None /\ form.submitting) ~> (form = None \/ ~form.submitting)

(* The keys go to the field shown as the focused one: the focus is within  *)
(* the fields visible now, although they come and go with the values of    *)
(* others, and a text field that has it also has the focus of its input    *)
(* (entryForm.update, moveFocus, formField.setFocus, and the order of the  *)
(* fields in form_convert.go).                                             *)
TypingGoesToTheField ==
  form # None =>
    /\ form.focus \in 1 .. Visible(form)
    /\ LET field == Current(form)
       IN  field.type = "text" => form.typing = field.key

(* No sequence of keys and replies takes the cursor out of the list that is*)
(* shown, so that pressing e or d never panics (the test of the navigation:*)
(* "should clamp, not wrap or go out of range").                           *)
NeverPanics == mode # "panicked"
=============================================================================
