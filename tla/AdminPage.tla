----------------------------- MODULE AdminPage ------------------------------
(***************************************************************************)
(* The admin page (public/js/admin.js) and the server it talks to through  *)
(* public/js/api.js.  The page runs in one thread, but every await lets    *)
(* the admin click on, and the answers of the calls in flight arrive in    *)
(* any order, or as an error when the connection breaks, whether or not    *)
(* the server had done its work.                                           *)
(*                                                                         *)
(* A problem is abstracted to its row in problems: its text (title,        *)
(* difficulty, description and solution, of which the table shows the      *)
(* first two) and its code template.  Its test cases are in ProblemStore.  *)
(***************************************************************************)
EXTENDS Naturals, FiniteSets

CONSTANTS
    Problems,  \* the ids the server may give
    Texts,     \* what an admin may write
    Slots,     \* bound: the calls in flight at a time
    MaxClicks, \* bound: the clicks that start a call
    None       \* null, and a slot without a call

\* What the server keeps of a problem, a row of the table, the fields of the form,
\* and the calls.
Stored == [text : Texts, template : BOOLEAN]
Row    == [id : Problems, text : Texts]
Fields == [text : Texts \cup {None}, template : BOOLEAN]
Calls ==
    [kind : {"get", "list", "update", "create", "delete"},
     id : Problems \cup {None}, fields : Fields, source : Problems \cup {None},
     answer : {"none", "ok", "error"}, got : SUBSET (Row \cup Stored \cup {None})]

ASSUME PageAssumption == None \notin Problems \cup Texts /\ IsFiniteSet(Slots)
ASSUME NoneAssumption == None \notin Stored \cup Calls
ASSUME SlotAssumption == Slots \subseteq Nat /\ Slots # {}
ASSUME ClickAssumption == MaxClicks \in Nat

VARIABLES
    store,     \* the problems on the server: [text, template], or None
    rows,      \* the rows the table shows
    editing,   \* editingProblemId
    form,      \* the fields of the form: [text, template]
    from,      \* history: the problem the fields were read from, or None
    disabled,  \* btnCreate.disabled
    calls,     \* the call in each slot
    clicks,    \* the clicks so far
    disturbed  \* history: an answer got lost, a list could not be read, or two lists
               \* were in flight at a time

page == <<rows, editing, form, from, disabled>>
vars == <<store, page, calls, clicks, disturbed>>

Empty == [text |-> None, template |-> FALSE]

\* A call: what it asks, of which problem, with which fields (read from which
\* problem), and how it was answered.
Call(kind, id, fields, source) ==
    [kind |-> kind, id |-> id, fields |-> fields, source |-> source,
     answer |-> "none", got |-> {}]

InFlight(kinds) == {s \in Slots : calls[s] # None /\ calls[s].kind \in kinds}

\* The lowest free slot gets the call: slots have no meaning of their own.
Send(cs, call) ==
    \E s \in Slots :
        /\ cs[s] = None /\ \A r \in Slots : cs[r] = None => s <= r
        /\ calls' = [cs EXCEPT ![s] = call]

\* init(): an empty form, and the list is asked for.
Init ==
    /\ store \in [Problems -> [text : Texts, template : {TRUE}] \cup {None}]
    /\ rows = {} /\ editing = None /\ form = Empty /\ from = None /\ disabled = FALSE
    /\ clicks = 0 /\ disturbed = FALSE
    /\ calls = [s \in Slots |->
                  IF \A r \in Slots : s <= r
                  THEN Call("list", None, Empty, None)
                  ELSE None]
-----------------------------------------------------------------------------
(* The admin.                                                              *)

Click(call) ==
    /\ clicks < MaxClicks
    /\ clicks' = clicks + 1
    /\ Send(calls, call)

\* startEdit(): nothing changes before the problem has come.  The mutant notes at
\* once which problem is edited.
EditAtOnce(id) == editing' = id /\ UNCHANGED <<rows, form, from, disabled>>
EditLater(id)  == UNCHANGED page

StartEdit(id) ==
    /\ \E row \in rows : row.id = id
    /\ Click(Call("get", id, Empty, None))
    /\ EditLater(id)
    /\ UNCHANGED <<store, disturbed>>

Retry ==
    /\ InFlight({"list"}) = {}
    /\ Click(Call("list", None, Empty, None))
    /\ UNCHANGED <<store, page, disturbed>>

\* confirmDelete() and deleteProblem()
Delete(id) ==
    /\ \E row \in rows : row.id = id
    /\ Click(Call("delete", id, Empty, None))
    /\ UNCHANGED <<store, page, disturbed>>

Write(text) ==
    /\ form' = [form EXCEPT !.text = text]
    /\ form' # form
    /\ UNCHANGED <<store, rows, editing, from, disabled, calls, clicks, disturbed>>

\* exitEditMode()
ExitEditMode == editing' = None /\ form' = Empty /\ from' = None

Cancel ==
    /\ editing # None
    /\ ExitEditMode
    /\ UNCHANGED <<store, rows, disabled, calls, clicks, disturbed>>

\* The title and the description have to be filled in; a mutant forgets the check.
Unchecked == TRUE
Filled    == form.text # None

\* setCreateLoading(TRUE), and a mutant that leaves the button alone.
LeaveButton   == UNCHANGED disabled
DisableButton == disabled' = TRUE

\* The submit handler up to its await; the browser submits nothing while the
\* button is disabled.
Submit ==
    /\ ~disabled /\ Filled
    /\ Click(Call(IF editing # None THEN "update" ELSE "create", editing, form, from))
    /\ DisableButton
    /\ UNCHANGED <<store, rows, editing, form, from, disturbed>>
-----------------------------------------------------------------------------
(* The server: one call, whose answer may get lost on the way back.        *)

Existing == {p \in Problems : store[p] # None}

Answer(s, ok, got) ==
    calls' = [calls EXCEPT ![s].answer = IF ok THEN "ok" ELSE "error", ![s].got = got]

Get(s) ==
    /\ calls[s].kind = "get"
    /\ Answer(s, calls[s].id \in Existing, {store[calls[s].id]})
    /\ UNCHANGED store

\* What a list holds.
Listed == {[id |-> p, text |-> store[p].text] : p \in Existing}

List(s) ==
    /\ calls[s].kind = "list"
    /\ Answer(s, TRUE, Listed)
    /\ UNCHANGED store

\* The database counts a row as affected only when a column changes; if none does,
\* the answer is that there is no such problem.
Changes(s) == store[calls[s].id] \notin {None, calls[s].fields}

Update(s) ==
    /\ calls[s].kind = "update"
    /\ Answer(s, Changes(s), {})
    /\ store' = IF Changes(s) THEN [store EXCEPT ![calls[s].id] = calls[s].fields] ELSE store

Create(s) ==
    /\ calls[s].kind = "create"
    /\ \E p \in Problems \ Existing :
          store' = [store EXCEPT ![p] = calls[s].fields] /\ Answer(s, TRUE, {})

Remove(s) ==
    /\ calls[s].kind = "delete"
    /\ Answer(s, calls[s].id \in Existing, {})
    /\ store' = [store EXCEPT ![calls[s].id] = None]

Serve(s) ==
    /\ calls[s] # None /\ calls[s].answer = "none"
    /\ Get(s) \/ List(s) \/ Update(s) \/ Create(s) \/ Remove(s)
    /\ UNCHANGED <<page, clicks, disturbed>>

\* The connection breaks before or after the server did its work.
Break(s) ==
    /\ calls[s] # None /\ calls[s].answer # "error"
    /\ Answer(s, FALSE, {})
    /\ disturbed' = TRUE
    /\ UNCHANGED <<store, page, clicks>>

\* The database fails: the server answers that there are no problems.  To the other
\* calls it answers an error then, which for the page is Break.
ListFails(s) ==
    /\ calls[s] # None /\ calls[s].kind = "list" /\ calls[s].answer = "none"
    /\ Answer(s, TRUE, {})
    /\ disturbed' = TRUE
    /\ UNCHANGED <<store, page, clicks>>
-----------------------------------------------------------------------------
(* The page when an answer comes.                                          *)

Comes(s, kinds, answer) == s \in InFlight(kinds) /\ calls[s].answer = answer
Freed(s) == [calls EXCEPT ![s] = None]
Forget(s) == calls' = Freed(s)

\* loadAdminProblems() in the step that s ends, and a mutant without it.
LeaveTable(s) == Forget(s) /\ UNCHANGED disturbed
Reload(s) ==
    /\ disturbed' = (disturbed \/ InFlight({"list"}) # {})
    /\ Send(Freed(s), Call("list", None, Empty, None))

\* populateEditForm(): every field, but it reads the template from code_template,
\* which the server calls template, so that the field is empty.
ShowProblem(s) ==
    /\ Comes(s, {"get"}, "ok")
    /\ editing' = calls[s].id /\ from' = calls[s].id
    /\ \E problem \in calls[s].got : form' = [problem EXCEPT !.template = FALSE]
    /\ Forget(s)
    /\ UNCHANGED <<store, rows, disabled, clicks, disturbed>>

\* The rest of the submit handler; a mutant enables the button only on success.
KeepDisabled == UNCHANGED disabled
EnableButton == disabled' = FALSE

Saved(s) ==
    /\ Comes(s, {"update", "create"}, "ok")
    /\ ExitEditMode
    /\ EnableButton
    /\ Reload(s)
    /\ UNCHANGED <<store, rows, clicks>>

NotSaved(s) ==
    /\ Comes(s, {"update", "create"}, "error")
    /\ EnableButton
    /\ Forget(s)
    /\ UNCHANGED <<store, rows, editing, form, from, clicks, disturbed>>

Deleted(s) ==
    /\ Comes(s, {"delete"}, "ok")
    /\ Reload(s)
    /\ UNCHANGED <<store, page, clicks>>

\* alert(), or the error panel in place of the table.
Failed(s) ==
    /\ Comes(s, {"get", "delete", "list"}, "error")
    /\ rows' = IF calls[s].kind = "list" THEN {} ELSE rows
    /\ Forget(s)
    /\ UNCHANGED <<store, editing, form, from, disabled, clicks, disturbed>>

ShowList(s) ==
    /\ Comes(s, {"list"}, "ok")
    /\ rows' = calls[s].got
    /\ Forget(s)
    /\ UNCHANGED <<store, editing, form, from, disabled, clicks, disturbed>>
-----------------------------------------------------------------------------
Admin ==
    \/ \E p \in Problems : StartEdit(p) \/ Delete(p)
    \/ \E t \in Texts : Write(t)
    \/ Retry \/ Cancel \/ Submit

Come(s) == ShowProblem(s) \/ Saved(s) \/ NotSaved(s) \/ Deleted(s) \/ Failed(s) \/ ShowList(s)

Next == Admin \/ \E s \in Slots : Serve(s) \/ Break(s) \/ ListFails(s) \/ Come(s)

\* A call is answered or its connection breaks, and the page gets the event.
Spec ==
    /\ Init /\ [][Next]_vars
    /\ \A s \in Slots : WF_vars(Serve(s) \/ Break(s) \/ ListFails(s) \/ Come(s)) /\ WF_vars(Come(s))
-----------------------------------------------------------------------------
(* Properties.                                                             *)

\* Every variable has its type, and what is saved has a title and a description.
TypeOK ==
    /\ store \in [Problems -> Stored \cup {None}]
    /\ rows \subseteq Row /\ editing \in Problems \cup {None}
    /\ form \in Fields /\ from \in Problems \cup {None}
    /\ disabled \in BOOLEAN /\ disturbed \in BOOLEAN /\ clicks \in 0..MaxClicks
    /\ calls \in [Slots -> Calls \cup {None}]

\* An update goes to the problem whose fields the admin saw, and a new problem is
\* made of fields that were read from none: whichever edits, cancels, saves and
\* answers come in between, in whatever order.
SavesGoToTheirProblem ==
    \A s \in InFlight({"update", "create"}) : calls[s].id = calls[s].source

\* One click saves once: while a save is in flight the button is disabled, and it
\* is disabled no longer than that.
OneSaveAtATime ==
    /\ Cardinality(InFlight({"update", "create"})) <= 1
    /\ disabled <=> InFlight({"update", "create"}) # {}

\* The page comes to rest with the rows the server has, neither a problem that is
\* gone nor the title a problem had before, as long as no answer got lost, every
\* list could be read, and no two lists were in flight, which may come in the wrong
\* order.
TableSettles == InFlight({"get", "list", "update", "create", "delete"}) = {} /\ ~disturbed
                    => rows = Listed

\* The button of the form always comes back, also when the connection breaks.
SaveEnds == disabled ~> ~disabled
=============================================================================
