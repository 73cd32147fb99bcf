-------------------------- MODULE AdminPageProofs ---------------------------
(* What AdminPage promises, for every number of problems, texts, clicks and  *)
(* calls in flight, and whatever order the answers come in.                  *)
EXTENDS AdminPage, DataTheorems

USE DEF page

\* What a call knows: a get, an update or a delete has a problem, a save has a
\* title, the answer of a get is a problem and the one of a list rows of the table.
CallOK(s) ==
    calls[s] # None =>
        /\ calls[s].kind \in {"get", "update", "delete"} => calls[s].id \in Problems
        /\ calls[s].kind \in {"update", "create"} =>
              calls[s].fields \in Stored /\ calls[s].id = calls[s].source
        /\ calls[s].kind = "get" /\ calls[s].answer = "ok" => calls[s].got \subseteq Stored
        /\ calls[s].kind = "list" => calls[s].got \subseteq Row

\* The problem that is edited is the one the form was filled with.
FormOK == editing = from

\* The button is disabled while there is a save in flight, and there is one.
Saves == InFlight({"update", "create"})
ButtonOK ==
    /\ disabled <=> Saves # {}
    /\ \A s, r \in Saves : s = r

Inv == TypeOK /\ (\A s \in Slots : CallOK(s)) /\ FormOK /\ ButtonOK

\* A problem was made, changed or deleted, and the page is still to hear of it: it
\* will then ask for the list.
Changed == \E s \in InFlight({"update", "create", "delete"}) : calls[s].answer = "ok"

\* While nothing was disturbed one list at most is on its way.  Whatever the table
\* lacks is about to be asked for, is on its way, or was on the server when the
\* list was read.
Lists == InFlight({"list"})
TableOK ==
    ~disturbed =>
        /\ \A s, r \in Lists : s = r
        /\ \A s \in Lists : calls[s].answer # "error"
        /\ \/ Changed
           \/ \E s \in Lists : calls[s].answer = "ok" => calls[s].got = Listed
           \/ Lists = {} /\ rows = Listed
-----------------------------------------------------------------------------
(* What the helpers do to the calls.                                        *)

\* A call that is made is one, and is told apart from a free slot.
LEMMA NewCall ==
    ASSUME NEW kind \in {"get", "list", "update", "create", "delete"},
           NEW id \in Problems \cup {None}, NEW fields \in Fields,
           NEW source \in Problems \cup {None}
    PROVE  /\ Call(kind, id, fields, source) \in Calls
           /\ Call(kind, id, fields, source) # None
BY NoneAssumption DEF Call, Calls

LEMMA EmptyForm == Empty \in Fields
BY DEF Empty, Fields

\* An answer keeps everything else of its call, and all other calls.
LEMMA AnswerKeeps ==
    ASSUME TypeOK, NEW s \in Slots, calls[s] # None, NEW ok \in BOOLEAN,
           NEW got \in SUBSET (Row \cup Stored \cup {None}), Answer(s, ok, got)
    PROVE  /\ calls' \in [Slots -> Calls \cup {None}]
           /\ \A r \in Slots \ {s} : calls'[r] = calls[r]
           /\ calls'[s] # None /\ calls'[s].kind = calls[s].kind
           /\ calls'[s].id = calls[s].id /\ calls'[s].source = calls[s].source
           /\ calls'[s].fields = calls[s].fields
           /\ calls'[s].answer = (IF ok THEN "ok" ELSE "error") /\ calls'[s].got = got
           /\ Saves' = Saves
<1> DEFINE c == [calls[s] EXCEPT !.answer = IF ok THEN "ok" ELSE "error", !.got = got]
<1>1. calls[s] \in Calls
  BY DEF TypeOK
<1>2. /\ c \in Calls /\ c.kind = calls[s].kind /\ c.id = calls[s].id
      /\ c.source = calls[s].source /\ c.fields = calls[s].fields
      /\ c.answer = (IF ok THEN "ok" ELSE "error") /\ c.got = got
  BY <1>1 DEF Calls
<1>3. calls' = [calls EXCEPT ![s] = c]
  BY DEF Answer
<1>4. c # None
  BY <1>2, NoneAssumption
<1> HIDE DEF c
<1>5. /\ calls' \in [Slots -> Calls \cup {None}]
      /\ \A r \in Slots \ {s} : calls'[r] = calls[r]
      /\ calls'[s] = c
  BY <1>2, <1>3 DEF TypeOK
<1>6. Saves' = Saves
  BY <1>2, <1>4, <1>5 DEF Saves, InFlight
<1> QED BY <1>2, <1>4, <1>5, <1>6

\* A click sends one call into a free slot.
LEMMA SendAdds ==
    ASSUME NEW cs \in [Slots -> Calls \cup {None}], NEW call \in Calls, Send(cs, call)
    PROVE  /\ calls' \in [Slots -> Calls \cup {None}]
           /\ \E s \in Slots : /\ cs[s] = None /\ calls'[s] = call
                               /\ \A r \in Slots \ {s} : calls'[r] = cs[r]
BY DEF Send

LEMMA FreedType ==
    ASSUME TypeOK, NEW s \in Slots
    PROVE  /\ Freed(s) \in [Slots -> Calls \cup {None}]
           /\ Freed(s)[s] = None /\ \A r \in Slots \ {s} : Freed(s)[r] = calls[r]
BY DEF TypeOK, Freed
\* What the server lists are rows of the table.
LEMMA ListedType ==
    ASSUME store \in [Problems -> Stored \cup {None}]
    PROVE  Listed \subseteq Row
BY DEF Listed, Existing, Row, Stored
-----------------------------------------------------------------------------
LEMMA InvInit == Init => Inv
<1> SUFFICES ASSUME Init PROVE Inv
  OBVIOUS
<1> DEFINE c == Call("list", None, Empty, None)
<1>1. c \in Calls /\ c # None /\ c.kind = "list" /\ c.got = {}
  BY EmptyForm, NewCall DEF Call
<1> HIDE DEF c
<1>2. \A s \in Slots : calls[s] \in {c, None}
  BY DEF Init, c
<1>3. calls \in [Slots -> Calls \cup {None}]
  BY <1>1 DEF Init, c
<1>4. TypeOK
  <2>1. store \in [Problems -> Stored \cup {None}]
    BY DEF Init, Stored
  <2>2. rows \subseteq Row /\ editing \in Problems \cup {None} /\ from \in Problems \cup {None}
    BY DEF Init
  <2>3. form \in Fields /\ disabled \in BOOLEAN /\ disturbed \in BOOLEAN
    BY EmptyForm DEF Init
  <2>4. clicks \in 0..MaxClicks
    BY ClickAssumption DEF Init
  <2> QED BY <1>3, <2>1, <2>2, <2>3, <2>4 DEF TypeOK
<1>5. \A s \in Slots : CallOK(s)
  BY <1>1, <1>2 DEF CallOK
<1>6. FormOK /\ ButtonOK
  <2>1. Saves = {}
    BY <1>1, <1>2 DEF Saves, InFlight
  <2> QED BY <2>1 DEF Init, FormOK, ButtonOK
<1> QED BY <1>4, <1>5, <1>6 DEF Inv

\* A click of the admin that asks for something else than a save.
LEMMA InvAsk ==
    ASSUME Inv, NEW kind \in {"get", "list", "delete"}, NEW id \in Problems \cup {None},
           kind # "list" => id \in Problems,
           Click(Call(kind, id, Empty, None)), UNCHANGED <<store, page, disturbed>>
    PROVE  Inv'
<1> DEFINE c == Call(kind, id, Empty, None)
<1>1. c \in Calls /\ c # None /\ c.kind = kind /\ c.id = id /\ c.got = {} /\ c.answer = "none"
  BY EmptyForm, NewCall DEF Call
<1>2. Click(c)
  OBVIOUS
<1> HIDE DEF c
<1>3. calls \in [Slots -> Calls \cup {None}] /\ clicks' \in 0..MaxClicks
  BY <1>2, ClickAssumption DEF Inv, TypeOK, Click
<1>4. PICK s \in Slots : /\ calls' \in [Slots -> Calls \cup {None}]
                         /\ calls[s] = None /\ calls'[s] = c
                         /\ \A r \in Slots \ {s} : calls'[r] = calls[r]
  BY <1>1, <1>2, <1>3, SendAdds DEF Click
<1>5. TypeOK'
  BY <1>3, <1>4 DEF Inv, TypeOK
<1>6. \A r \in Slots : CallOK(r)'
  BY <1>1, <1>4 DEF Inv, CallOK
<1>7. Saves' = Saves
  BY <1>1, <1>4 DEF Saves, InFlight
<1> QED BY <1>5, <1>6, <1>7 DEF Inv, FormOK, ButtonOK

LEMMA InvSubmit ==
    ASSUME Inv, Submit
    PROVE  Inv'
<1> DEFINE kind == IF editing # None THEN "update" ELSE "create"
           c == Call(kind, editing, form, from)
<1>1. form \in Stored /\ form \in Fields
  BY DEF Inv, TypeOK, Fields, Stored, Submit, Filled
<1>2. /\ c \in Calls /\ c # None /\ c.kind = kind /\ c.id = editing
      /\ c.fields = form /\ c.source = from /\ c.answer = "none" /\ c.got = {}
  BY <1>1, NewCall DEF Call, Inv, TypeOK
<1>3. Click(c)
  BY DEF Submit
<1>4. kind \in {"update", "create"} /\ (kind = "update" => editing \in Problems)
  BY DEF Inv, TypeOK
<1> HIDE DEF c, kind
<1>5. calls \in [Slots -> Calls \cup {None}] /\ clicks' \in 0..MaxClicks
  BY <1>3, ClickAssumption DEF Inv, TypeOK, Click
<1>6. PICK s \in Slots : /\ calls' \in [Slots -> Calls \cup {None}]
                         /\ calls[s] = None /\ calls'[s] = c
                         /\ \A r \in Slots \ {s} : calls'[r] = calls[r]
  BY <1>2, <1>3, <1>5, SendAdds DEF Click
<1>7. TypeOK'
  BY <1>5, <1>6 DEF Inv, TypeOK, Submit, DisableButton
<1>8. \A r \in Slots : CallOK(r)'
  BY <1>1, <1>2, <1>4, <1>6 DEF Inv, CallOK, FormOK
<1>9. Saves' = {s}
  <2>1. Saves = {}
    BY DEF Inv, ButtonOK, Submit
  <2> QED BY <1>2, <1>4, <1>6, <2>1 DEF Saves, InFlight
<1>10. FormOK' /\ ButtonOK'
  BY <1>9 DEF Inv, FormOK, ButtonOK, Submit, DisableButton
<1> QED BY <1>7, <1>8, <1>10 DEF Inv

LEMMA InvServe ==
    ASSUME Inv, NEW s \in Slots, Serve(s)
    PROVE  Inv'
<1>1. TypeOK /\ calls[s] # None /\ calls[s] \in Calls /\ CallOK(s)
  BY DEF Inv, TypeOK, Serve
<1>2. store \in [Problems -> Stored \cup {None}] /\ Existing \subseteq Problems
  BY <1>1 DEF TypeOK, Existing
<1>3. PICK ok \in BOOLEAN, got \in SUBSET (Row \cup Stored \cup {None}) :
        /\ Answer(s, ok, got)
        /\ calls[s].kind = "get" /\ ok => got \subseteq Stored
        /\ calls[s].kind = "list" => got \subseteq Row
  <2>1. CASE Get(s)
    <3> DEFINE ok == calls[s].id \in Existing
               got == {store[calls[s].id]}
    <3>1. calls[s].id \in Problems
      BY <1>1, <2>1 DEF Get, CallOK
    <3>2. ok \in BOOLEAN /\ got \in SUBSET (Row \cup Stored \cup {None})
      BY <1>2, <3>1
    <3>3. ok => got \subseteq Stored
      BY <1>2, <3>1 DEF Existing
    <3>4. Answer(s, ok, got) /\ calls[s].kind = "get"
      BY <2>1 DEF Get
    <3> QED BY <3>2, <3>3, <3>4
  <2>2. CASE List(s)
    <3>1. Listed \subseteq Row
      BY <1>1, NoneAssumption, ListedType DEF TypeOK
    <3> QED BY <2>2, <3>1 DEF List
  <2>3. CASE Update(s)
    <3>1. Changes(s) \in BOOLEAN /\ {} \subseteq Stored /\ {} \subseteq Row
      BY DEF Changes
    <3> QED BY <2>3, <3>1 DEF Update
  <2>4. CASE Create(s)
    BY <1>2, <2>4 DEF Create
  <2>5. CASE Remove(s)
    <3>1. (calls[s].id \in Existing) \in BOOLEAN /\ {} \subseteq Stored /\ {} \subseteq Row
      OBVIOUS
    <3> QED BY <2>5, <3>1 DEF Remove
  <2> QED BY <2>1, <2>2, <2>3, <2>4, <2>5 DEF Serve
<1>4. /\ calls' \in [Slots -> Calls \cup {None}]
      /\ \A r \in Slots \ {s} : calls'[r] = calls[r]
      /\ calls'[s] # None /\ calls'[s].kind = calls[s].kind
      /\ calls'[s].id = calls[s].id /\ calls'[s].source = calls[s].source
      /\ calls'[s].fields = calls[s].fields
      /\ calls'[s].answer = (IF ok THEN "ok" ELSE "error") /\ calls'[s].got = got
      /\ Saves' = Saves
  BY <1>1, <1>3, AnswerKeeps
<1>5. store' \in [Problems -> Stored \cup {None}]
  <2>1. CASE Update(s)
    BY <1>1, <1>2, <2>1 DEF Update, Changes, CallOK
  <2>2. CASE Create(s)
    BY <1>1, <1>2, <2>2 DEF Create, CallOK
  <2>3. CASE Get(s) \/ List(s) \/ Remove(s)
    BY <1>2, <2>3 DEF Get, List, Remove
  <2> QED BY <2>1, <2>2, <2>3 DEF Serve
<1>6. TypeOK'
  BY <1>1, <1>4, <1>5 DEF TypeOK, Serve
<1>7. ASSUME NEW r \in Slots
      PROVE  CallOK(r)'
  <2>1. CASE r # s
    BY <1>4, <2>1 DEF Inv, CallOK
  <2>2. CASE r = s
    <3>1. calls'[s].answer = "ok" => ok
      BY <1>4
    <3> QED BY <1>1, <1>3, <1>4, <2>2, <3>1 DEF CallOK
  <2> QED BY <2>1, <2>2
<1> QED BY <1>4, <1>6, <1>7 DEF Inv, FormOK, ButtonOK, Serve

LEMMA InvBreak ==
    ASSUME Inv, NEW s \in Slots, Break(s)
    PROVE  Inv'
<1>1. TypeOK /\ calls[s] # None
  BY DEF Inv, Break
<1>2. /\ calls' \in [Slots -> Calls \cup {None}]
      /\ \A r \in Slots \ {s} : calls'[r] = calls[r]
      /\ calls'[s] # None /\ calls'[s].kind = calls[s].kind
      /\ calls'[s].id = calls[s].id /\ calls'[s].source = calls[s].source
      /\ calls'[s].fields = calls[s].fields
      /\ calls'[s].answer = "error" /\ calls'[s].got = {}
      /\ Saves' = Saves
  BY <1>1, AnswerKeeps DEF Break
<1>3. TypeOK'
  BY <1>1, <1>2 DEF TypeOK, Break
<1>4. ASSUME NEW r \in Slots
      PROVE  CallOK(r)'
  <2>1. CASE r # s
    BY <1>2, <2>1 DEF Inv, CallOK
  <2>2. CASE r = s
    BY <1>1, <1>2, <2>2 DEF Inv, CallOK
  <2> QED BY <2>1, <2>2
<1> QED BY <1>2, <1>3, <1>4 DEF Inv, FormOK, ButtonOK, Break

LEMMA InvListFails ==
    ASSUME Inv, NEW s \in Slots, ListFails(s)
    PROVE  Inv'
<1>1. TypeOK /\ calls[s] # None /\ calls[s].kind = "list"
  BY DEF Inv, ListFails
<1>2. /\ calls' \in [Slots -> Calls \cup {None}]
      /\ \A r \in Slots \ {s} : calls'[r] = calls[r]
      /\ calls'[s] # None /\ calls'[s].kind = "list" /\ calls'[s].got = {}
      /\ Saves' = Saves
  BY <1>1, AnswerKeeps DEF ListFails
<1>3. TypeOK'
  BY <1>1, <1>2 DEF TypeOK, ListFails
<1>4. \A r \in Slots : CallOK(r)'
  BY <1>2 DEF Inv, CallOK
<1> QED BY <1>2, <1>3, <1>4 DEF Inv, FormOK, ButtonOK, ListFails

\* A call is over, and the list may be asked for: what is left of the invariant is
\* what the handler of the answer did to the form.
LEMMA InvSettle ==
    ASSUME Inv, NEW s \in Slots, calls[s] # None, Forget(s) \/ Reload(s)
    PROVE  /\ calls' \in [Slots -> Calls \cup {None}]
           /\ \A r \in Slots : CallOK(r)'
           /\ Saves' = Saves \ {s}
<1>1. TypeOK
  BY DEF Inv
<1>2. /\ Freed(s) \in [Slots -> Calls \cup {None}]
      /\ Freed(s)[s] = None /\ \A r \in Slots \ {s} : Freed(s)[r] = calls[r]
  BY <1>1, FreedType
<1>3. CASE Forget(s)
  <2>1. calls' = Freed(s)
    BY <1>3 DEF Forget
  <2> QED BY <1>2, <2>1 DEF Inv, CallOK, Saves, InFlight
<1>4. CASE Reload(s)
  <2> DEFINE c == Call("list", None, Empty, None)
  <2>1. c \in Calls /\ c # None /\ c.kind = "list" /\ c.got = {}
    BY EmptyForm, NewCall DEF Call
  <2>2. Send(Freed(s), c)
    BY <1>4 DEF Reload
  <2> HIDE DEF c
  <2>3. PICK q \in Slots : /\ calls' \in [Slots -> Calls \cup {None}]
                           /\ Freed(s)[q] = None /\ calls'[q] = c
                           /\ \A r \in Slots \ {q} : calls'[r] = Freed(s)[r]
    BY <1>2, <2>1, <2>2, SendAdds
  <2>4. \A r \in Slots : \/ calls'[r] = c \/ calls'[r] = None
                         \/ r # s /\ calls'[r] = calls[r]
    BY <1>2, <2>3
  <2>5. \A r \in Slots : CallOK(r)'
    BY <2>1, <2>4 DEF Inv, CallOK
  <2>6. \A r \in Slots : r \in Saves' <=> r \in Saves \ {s}
    <3> SUFFICES ASSUME NEW r \in Slots PROVE r \in Saves' <=> r \in Saves \ {s}
      OBVIOUS
    <3>1. CASE r = q
      <4>1. q = s \/ calls[q] = None
        BY <1>2, <2>3
      <4> QED BY <2>1, <2>3, <3>1, <4>1 DEF Saves, InFlight
    <3>2. CASE r # q /\ r = s
      BY <1>2, <2>3, <3>2 DEF Saves, InFlight
    <3>3. CASE r # q /\ r # s
      BY <1>2, <2>3, <3>3 DEF Saves, InFlight
    <3> QED BY <3>1, <3>2, <3>3
  <2>7. Saves \subseteq Slots /\ Saves' \subseteq Slots
    BY DEF Saves, InFlight
  <2> QED BY <2>3, <2>5, <2>6, <2>7
<1> QED BY <1>3, <1>4

LEMMA InvCome ==
    ASSUME Inv, NEW s \in Slots, Come(s)
    PROVE  Inv'
<1>1. calls[s] # None /\ calls[s] \in Calls /\ CallOK(s) /\ (Forget(s) \/ Reload(s))
  BY DEF Inv, TypeOK, Come, ShowProblem, Saved, NotSaved, Deleted, Failed, ShowList, Comes, InFlight
<1>2. /\ calls' \in [Slots -> Calls \cup {None}]
      /\ \A r \in Slots : CallOK(r)'
      /\ Saves' = Saves \ {s}
  BY <1>1, InvSettle
<1>3. disturbed' \in BOOLEAN
  BY DEF Inv, TypeOK, Come, ShowProblem, Saved, NotSaved, Deleted, Failed, ShowList, Reload
<1>4. CASE ShowProblem(s)
  <2>1. calls[s].kind = "get" /\ calls[s].id \in Problems /\ calls[s].got \subseteq Stored
    BY <1>1, <1>4 DEF ShowProblem, Comes, InFlight, CallOK
  <2>2. form' \in Fields
    <3>1. PICK problem \in Stored : form' = [problem EXCEPT !.template = FALSE]
      BY <1>4, <2>1 DEF ShowProblem
    <3> QED BY <3>1 DEF Stored, Fields
  <2>3. s \notin Saves
    BY <2>1 DEF Saves, InFlight
  <2>4. TypeOK'
    BY <1>2, <1>3, <1>4, <2>1, <2>2 DEF Inv, TypeOK, ShowProblem
  <2> QED BY <1>2, <1>4, <2>3, <2>4 DEF Inv, FormOK, ButtonOK, ShowProblem
<1>5. CASE Saved(s) \/ NotSaved(s)
  <2>1. s \in Saves
    BY <1>5 DEF Saved, NotSaved, Comes, Saves
  <2>2. Saves' = {}
    BY <1>2, <2>1 DEF Inv, ButtonOK
  <2>3. TypeOK'
    BY <1>2, <1>3, <1>5, EmptyForm
       DEF Inv, TypeOK, Saved, NotSaved, ExitEditMode, EnableButton
  <2>4. disabled' = FALSE /\ FormOK'
    BY <1>5 DEF Inv, FormOK, Saved, NotSaved, ExitEditMode, EnableButton
  <2> QED BY <1>2, <2>2, <2>3, <2>4 DEF Inv, ButtonOK
<1>6. CASE Deleted(s) \/ Failed(s) \/ ShowList(s)
  <2>1. s \notin Saves
    BY <1>6 DEF Deleted, Failed, ShowList, Comes, Saves, InFlight
  <2>2. rows' \subseteq Row
    BY <1>1, <1>6 DEF Inv, TypeOK, CallOK, Deleted, Failed, ShowList, Comes, InFlight
  <2>3. UNCHANGED <<store, editing, form, from, disabled, clicks>>
    BY <1>6 DEF Deleted, Failed, ShowList
  <2>4. TypeOK'
    BY <1>2, <1>3, <2>2, <2>3 DEF Inv, TypeOK
  <2> QED BY <1>2, <2>1, <2>3, <2>4 DEF Inv, FormOK, ButtonOK
<1> QED BY <1>4, <1>5, <1>6 DEF Come

LEMMA InvNext == Inv /\ [Next]_vars => Inv'
<1> SUFFICES ASSUME Inv, [Next]_vars PROVE Inv'
  OBVIOUS
<1>1. ASSUME NEW p \in Problems, StartEdit(p) \/ Delete(p)
      PROVE  Inv'
  BY <1>1, InvAsk DEF StartEdit, EditLater, Delete
<1>2. CASE Retry
  BY <1>2, InvAsk DEF Retry
<1>3. ASSUME NEW t \in Texts, Write(t)
      PROVE  Inv'
  <2>1. form' \in Fields
    BY <1>3 DEF Inv, TypeOK, Fields, Write
  <2>2. TypeOK'
    BY <1>3, <2>1 DEF Inv, TypeOK, Write
  <2> QED BY <1>3, <2>2 DEF Inv, CallOK, FormOK, ButtonOK, Saves, InFlight, Write
<1>4. CASE Cancel
  <2>1. TypeOK'
    BY <1>4, EmptyForm DEF Inv, TypeOK, Cancel, ExitEditMode
  <2> QED BY <1>4, <2>1 DEF Inv, CallOK, FormOK, ButtonOK, Saves, InFlight, Cancel, ExitEditMode
<1>5. CASE UNCHANGED vars
  BY <1>5 DEF Inv, TypeOK, CallOK, FormOK, ButtonOK, Saves, InFlight, Existing, vars
<1> QED BY <1>1, <1>2, <1>3, <1>4, <1>5, InvSubmit, InvServe, InvBreak, InvListFails, InvCome
       DEF Next, Admin

LEMMA Invariant == Spec => []Inv
BY InvInit, InvNext, PTL DEF Spec
-----------------------------------------------------------------------------
(* The table.                                                               *)

\* The lowest slot, which the first list gets.
LEMMA LowestSlot == \E s \in Slots : \A r \in Slots : s <= r
BY SlotAssumption, Least

LEMMA TableInit == Init => TableOK
<1> SUFFICES ASSUME Init PROVE TableOK
  OBVIOUS
<1> DEFINE c == Call("list", None, Empty, None)
<1>1. c # None /\ c.kind = "list" /\ c.answer = "none"
  BY EmptyForm, NewCall DEF Call
<1> HIDE DEF c
<1>2. PICK s \in Slots : \A r \in Slots : s <= r
  BY LowestSlot
<1>3. \A r \in Slots : calls[r] = (IF \A q \in Slots : r <= q THEN c ELSE None)
  BY DEF Init, c
<1>4. \A r \in Slots : r <= s => r = s
  BY <1>2, SlotAssumption
<1>5. calls[s] = c /\ \A r \in Slots \ {s} : calls[r] = None
  BY <1>2, <1>3, <1>4
<1>6. Lists = {s} /\ calls[s].answer = "none"
  BY <1>1, <1>5 DEF Lists, InFlight
<1> QED BY <1>6 DEF TableOK

\* A step that leaves the store, the table and every call alone that is a list or
\* changed something keeps the invariant.
LEMMA TableFrame ==
    ASSUME TableOK, disturbed' = disturbed, Listed' = Listed, rows' = rows,
           Lists' = Lists, \A s \in Lists : calls'[s] = calls[s], Changed => Changed'
    PROVE  TableOK'
BY DEF TableOK

\* A list that was just asked for is the only one, and will tell everything.
LEMMA TableAsked ==
    ASSUME NEW s \in Slots, Lists' = {s}, calls'[s].answer = "none"
    PROVE  TableOK'
BY DEF TableOK

\* A call that is sent is there besides the others.
LEMMA TableAsk ==
    ASSUME Inv, TableOK, NEW call \in Calls, call.answer = "none", Click(call),
           UNCHANGED <<store, rows, disturbed>>, call.kind = "list" => Lists = {}
    PROVE  TableOK'
<1>1. calls \in [Slots -> Calls \cup {None}] /\ call # None
  BY NoneAssumption DEF Inv, TypeOK
<1>2. PICK s \in Slots : /\ calls[s] = None /\ calls'[s] = call
                         /\ \A r \in Slots \ {s} : calls'[r] = calls[r]
  BY <1>1, SendAdds DEF Click
<1>3. CASE call.kind = "list"
  <2>1. Lists' = {s}
    BY <1>1, <1>2, <1>3 DEF Lists, InFlight
  <2> QED BY <1>2, <2>1, TableAsked
<1>4. CASE call.kind # "list"
  <2>1. Lists' = Lists /\ \A r \in Lists : calls'[r] = calls[r]
    BY <1>1, <1>2, <1>4 DEF Lists, InFlight
  <2>2. Changed => Changed'
    BY <1>1, <1>2 DEF Changed, InFlight
  <2>3. Listed' = Listed
    BY DEF Listed, Existing
  <2> QED BY <2>1, <2>2, <2>3, TableFrame
<1> QED BY <1>3, <1>4

LEMMA TableServe ==
    ASSUME Inv, TableOK, NEW s \in Slots, Serve(s)
    PROVE  TableOK'
<1>1. TypeOK /\ calls[s] # None /\ calls[s] \in Calls /\ CallOK(s) /\ calls[s].answer = "none"
  BY DEF Inv, TypeOK, Serve
<1>2. PICK ok \in BOOLEAN, got \in SUBSET (Row \cup Stored \cup {None}) :
        /\ Answer(s, ok, got)
        /\ calls[s].kind = "list" => ok /\ got = Listed
        /\ \/ calls[s].kind \in {"update", "create", "delete"} /\ ok
           \/ Listed' = Listed
  <2>1. CASE Get(s)
    <3>1. /\ (calls[s].id \in Existing) \in BOOLEAN
          /\ {store[calls[s].id]} \in SUBSET (Row \cup Stored \cup {None})
      BY <1>1, <2>1 DEF Get, CallOK, TypeOK
    <3> QED BY <2>1, <3>1 DEF Get, Listed, Existing
  <2>2. CASE List(s)
    <3>1. Listed \in SUBSET (Row \cup Stored \cup {None})
      BY <1>1, ListedType DEF TypeOK
    <3>2. Listed' = Listed
      BY <2>2 DEF List, Listed, Existing
    <3> QED BY <2>2, <3>1, <3>2 DEF List
  <2>3. CASE Update(s)
    <3>1. ~Changes(s) => Listed' = Listed
      BY <2>3 DEF Update, Listed, Existing
    <3>2. Changes(s) \in BOOLEAN
      BY DEF Changes
    <3> QED BY <2>3, <3>1, <3>2 DEF Update
  <2>4. CASE Create(s)
    BY <2>4 DEF Create
  <2>5. CASE Remove(s)
    <3>1. calls[s].id \notin Existing => Listed' = Listed
      <4>1. calls[s].id \notin Existing => store' = store
        BY <1>1, <2>5 DEF Remove, CallOK, TypeOK, Existing
      <4> QED BY <4>1 DEF Listed, Existing
    <3>2. (calls[s].id \in Existing) \in BOOLEAN
      OBVIOUS
    <3> QED BY <2>5, <3>1, <3>2 DEF Remove
  <2> QED BY <2>1, <2>2, <2>3, <2>4, <2>5 DEF Serve
<1>3. /\ \A r \in Slots \ {s} : calls'[r] = calls[r]
      /\ calls'[s] # None /\ calls'[s].kind = calls[s].kind
      /\ calls'[s].answer = (IF ok THEN "ok" ELSE "error") /\ calls'[s].got = got
  BY <1>1, <1>2, AnswerKeeps
<1>4. Lists' = Lists
  BY <1>1, <1>3 DEF Lists, InFlight
<1>5. Changed => Changed'
  BY <1>1, <1>3 DEF Changed, InFlight
<1>6. disturbed' = disturbed /\ rows' = rows
  BY DEF Serve
<1>7. CASE calls[s].kind = "list"
  <2>1. s \in Lists /\ calls'[s].answer = "ok" /\ calls'[s].got = Listed'
    BY <1>1, <1>2, <1>3, <1>7 DEF Lists, InFlight
  <2> QED BY <1>4, <1>6, <2>1 DEF TableOK
<1>8. CASE calls[s].kind # "list"
  <2>1. \A r \in Lists : calls'[r] = calls[r]
    BY <1>3, <1>8 DEF Lists, InFlight
  <2>2. CASE Listed' = Listed
    BY <1>4, <1>5, <1>6, <2>1, <2>2, TableFrame
  <2>3. CASE calls[s].kind \in {"update", "create", "delete"} /\ ok
    <3>1. Changed'
      BY <1>3, <2>3 DEF Changed, InFlight
    <3> QED BY <1>4, <1>6, <2>1, <3>1 DEF TableOK
  <2> QED BY <1>2, <1>8, <2>2, <2>3
<1> QED BY <1>7, <1>8

\* The answer was heard: one that changed something asks for the list.
LEMMA TableCome ==
    ASSUME Inv, TableOK, NEW s \in Slots, Come(s)
    PROVE  TableOK'
<1>1. TypeOK /\ calls[s] # None
  BY DEF Inv, Come, ShowProblem, Saved, NotSaved, Deleted, Failed, ShowList, Comes, InFlight
<1>2. /\ Freed(s) \in [Slots -> Calls \cup {None}]
      /\ Freed(s)[s] = None /\ \A r \in Slots \ {s} : Freed(s)[r] = calls[r]
  BY <1>1, FreedType
<1>3. CASE Reload(s) /\ s \notin Lists
  <2> DEFINE c == Call("list", None, Empty, None)
  <2>1. c \in Calls /\ c # None /\ c.kind = "list" /\ c.answer = "none"
    BY EmptyForm, NewCall DEF Call
  <2>2. Send(Freed(s), c) /\ (~disturbed' => Lists = {})
    BY <1>3 DEF Reload, Lists
  <2> HIDE DEF c
  <2>3. PICK q \in Slots : /\ Freed(s)[q] = None /\ calls'[q] = c
                           /\ \A r \in Slots \ {q} : calls'[r] = Freed(s)[r]
    BY <1>2, <2>1, <2>2, SendAdds
  <2>4. ASSUME ~disturbed'
        PROVE  Lists' = {q}
    <3>1. \A r \in Slots \ {q} : calls'[r] = None \/ calls'[r] = calls[r]
      BY <1>2, <2>3
    <3> QED BY <2>1, <2>2, <2>3, <2>4, <3>1 DEF Lists, InFlight
  <2> QED BY <2>1, <2>3, <2>4, TableAsked DEF TableOK
<1>4. CASE Forget(s) /\ s \notin Lists /\ rows' = rows /\ store' = store
           /\ disturbed' = disturbed
           /\ ~(calls[s].kind \in {"update", "create", "delete"} /\ calls[s].answer = "ok")
  <2>1. calls'[s] = None /\ \A r \in Slots \ {s} : calls'[r] = calls[r]
    BY <1>2, <1>4 DEF Forget
  <2>2. Lists' = Lists /\ \A r \in Lists : calls'[r] = calls[r]
    BY <1>4, <2>1 DEF Lists, InFlight
  <2>3. Changed => Changed'
    BY <1>4, <2>1 DEF Changed, InFlight
  <2>4. Listed' = Listed
    BY <1>4 DEF Listed, Existing
  <2> QED BY <1>4, <2>2, <2>3, <2>4, TableFrame
<1>5. CASE ShowList(s)
  <2>1. /\ s \in Lists /\ calls[s].answer = "ok" /\ rows' = calls[s].got
        /\ disturbed' = disturbed /\ store' = store /\ Forget(s)
    BY <1>5 DEF ShowList, Comes, Lists
  <2>2. calls'[s] = None /\ \A r \in Slots \ {s} : calls'[r] = calls[r]
    BY <1>2, <2>1 DEF Forget
  <2>3. Listed' = Listed /\ (Changed => Changed')
    BY <2>1, <2>2 DEF Listed, Existing, Changed, Lists, InFlight
  <2>4. Lists' = Lists \ {s}
    BY <2>2 DEF Lists, InFlight
  <2> QED BY <2>1, <2>3, <2>4 DEF TableOK
<1>6. CASE Failed(s) /\ s \in Lists
  BY <1>6 DEF TableOK, Failed, Comes
<1>7. CASE ShowProblem(s)
  BY <1>4, <1>7 DEF ShowProblem, Comes, Lists, InFlight
<1>8. CASE Saved(s) \/ Deleted(s)
  BY <1>3, <1>8 DEF Saved, Deleted, Comes, Lists, InFlight
<1>9. CASE NotSaved(s) \/ (Failed(s) /\ s \notin Lists)
  BY <1>4, <1>9 DEF NotSaved, Failed, Comes, Lists, InFlight
<1> QED BY <1>5, <1>6, <1>7, <1>8, <1>9 DEF Come

LEMMA TableNext == Inv /\ TableOK /\ [Next]_vars => TableOK'
<1> SUFFICES ASSUME Inv, TableOK, [Next]_vars PROVE TableOK'
  OBVIOUS
<1>1. ASSUME NEW p \in Problems, StartEdit(p) \/ Delete(p)
      PROVE  TableOK'
  <2>1. PICK kind \in {"get", "delete"} : Click(Call(kind, p, Empty, None))
    BY <1>1 DEF StartEdit, Delete
  <2> DEFINE c == Call(kind, p, Empty, None)
  <2>2. c \in Calls /\ c.answer = "none" /\ c.kind # "list"
    BY EmptyForm, NewCall DEF Call
  <2> HIDE DEF c
  <2>3. UNCHANGED <<store, rows, disturbed>>
    BY <1>1 DEF StartEdit, EditLater, Delete
  <2>4. Click(c)
    BY <2>1 DEF c
  <2> QED BY <2>2, <2>3, <2>4, TableAsk
<1>2. CASE Retry
  <2> DEFINE c == Call("list", None, Empty, None)
  <2>1. c \in Calls /\ c.answer = "none"
    BY EmptyForm, NewCall DEF Call
  <2>2. Click(c) /\ Lists = {} /\ UNCHANGED <<store, rows, disturbed>>
    BY <1>2 DEF Retry, Lists
  <2> HIDE DEF c
  <2> QED BY <2>1, <2>2, TableAsk
<1>3. CASE Submit
  <2> DEFINE kind == IF editing # None THEN "update" ELSE "create"
             c == Call(kind, editing, form, from)
  <2>1. form \in Fields /\ editing \in Problems \cup {None} /\ from \in Problems \cup {None}
    BY DEF Inv, TypeOK
  <2>2. c \in Calls /\ c.answer = "none" /\ c.kind # "list"
    BY <2>1, NewCall DEF Call
  <2>3. Click(c) /\ UNCHANGED <<store, rows, disturbed>>
    BY <1>3 DEF Submit
  <2> HIDE DEF c
  <2> QED BY <2>2, <2>3, TableAsk
<1>4. CASE (\E t \in Texts : Write(t)) \/ Cancel \/ UNCHANGED vars
  BY <1>4 DEF Write, Cancel, vars, TableOK, Changed, Lists, InFlight, Listed, Existing
<1>5. ASSUME NEW s \in Slots, Break(s) \/ ListFails(s)
      PROVE  TableOK'
  BY <1>5 DEF Break, ListFails, TableOK
<1> QED BY <1>1, <1>2, <1>3, <1>4, <1>5, TableServe, TableCome DEF Next, Admin
-----------------------------------------------------------------------------
(* Theorems.                                                                *)

\* Every variable has its type: what the server stores, and so what the next admin
\* reads, always has a title and a description.
THEOREM TypeCorrect == Spec => []TypeOK
<1>1. Inv => TypeOK
  BY DEF Inv
<1> QED BY <1>1, Invariant, PTL

\* A save goes to the problem its fields were read from, whichever edits, cancels,
\* saves and answers come in between, however many and in whatever order.
THEOREM SavesAreAddressed == Spec => []SavesGoToTheirProblem
<1>1. Inv => SavesGoToTheirProblem
  BY DEF Inv, CallOK, SavesGoToTheirProblem, InFlight
<1> QED BY <1>1, Invariant, PTL

\* At most one save is in flight, and the button of the form is disabled exactly
\* as long: also when the connection breaks in the middle.
THEOREM OneClickOneSave == Spec => []OneSaveAtATime
<1>1. ASSUME Inv
      PROVE  OneSaveAtATime
  <2>1. CASE Saves = {}
    BY <1>1, <2>1, FS_EmptySet DEF Inv, ButtonOK, OneSaveAtATime, Saves
  <2>2. CASE Saves # {}
    <3>1. PICK s \in Saves : Saves = {s}
      BY <1>1, <2>2 DEF Inv, ButtonOK
    <3> QED BY <1>1, <2>2, <3>1, FS_Singleton DEF Inv, ButtonOK, OneSaveAtATime, Saves
  <2> QED BY <2>1, <2>2
<1> QED BY <1>1, Invariant, PTL

\* At rest the table shows the problems the server has, with their present titles,
\* however many calls were in flight, unless an answer got lost, a list could not be
\* read, or two lists were asked for at a time.
THEOREM TableIsCurrent == Spec => []TableSettles
<1>1. Inv /\ TableOK => TableSettles
  <2> SUFFICES ASSUME TableOK, ~disturbed, NEW kinds,
                      kinds = {"get", "list", "update", "create", "delete"},
                      InFlight(kinds) = {}
               PROVE  rows = Listed
    BY DEF TableSettles
  <2>1. Lists = {} /\ ~Changed
    BY DEF Lists, Changed, InFlight
  <2> QED BY <2>1 DEF TableOK
<1> QED BY <1>1, InvInit, InvNext, TableInit, TableNext, PTL DEF Spec
=============================================================================
