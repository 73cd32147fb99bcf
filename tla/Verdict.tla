------------------------------ MODULE Verdict -------------------------------
(***************************************************************************)
(* What a submission is answered, as functions of what was sent and of how *)
(* the program ended: handleSubmit() (src/handler/submit_handler.cc), and  *)
(* the end of runTestCase() (src/service/executor_service.cc), where the   *)
(* output of a program is compared with the expected one.                  *)
(*                                                                         *)
(* A text is a sequence of characters, of which the program knows three.   *)
(***************************************************************************)
EXTENDS Integers, Sequences

CONSTANTS
    NewLine, CarriageReturn, Space,  \* '\n', '\r', ' '
    IntSize                  \* an int holds -IntSize .. IntSize - 1

ASSUME IntAssumption == IntSize \in Nat \ {0}

Blank == {NewLine, CarriageReturn, Space}
-----------------------------------------------------------------------------
(* The end of runTestCase().                                               *)

\* readAll() of the output, and the line break that is added to its last line.
Actual(output) ==
    IF output # <<>> /\ output[Len(output)] # NewLine THEN Append(output, NewLine) ELSE output

\* trimTrailing(): how many of the first n characters are left when every blank at
\* their end is popped; a mutant pops one blank only.
TrimOne(s) ==
    IF s # <<>> /\ s[Len(s)] \in Blank THEN SubSeq(s, 1, Len(s) - 1) ELSE s

Kept(s) ==
    LET left[n \in 0..Len(s)] == IF n = 0 THEN 0 ELSE IF s[n] \in Blank THEN left[n - 1] ELSE n
    IN  left

TrimTrailing(s) == SubSeq(s, 1, Kept(s)[Len(s)])

\* How a program ends: by itself with a code, by a signal, or at the time limit.
Endings ==
    [how : {"exit"}, code : {"zero", "other"}]
        \cup [how : {"signal"}, code : {"SIGXCPU", "SIGALRM", "SIGSEGV", "SIGKILL"}]
        \cup [how : {"limit"}, code : {"zero"}]

TestStatus(ending, output, expected) ==
    CASE ending.how = "limit" -> "TLE"
      [] ending.how = "exit" /\ ending.code # "zero" -> "RE"
      [] ending.how = "signal" /\ ending.code \in {"SIGXCPU", "SIGALRM"} -> "TLE"
      [] ending.how = "signal" /\ ending.code \notin {"SIGXCPU", "SIGALRM"} -> "RE"
      [] OTHER -> IF TrimTrailing(Actual(output)) = TrimTrailing(expected) THEN "AC" ELSE "WA"
-----------------------------------------------------------------------------
(* handleSubmit().                                                         *)

\* get<int>() of an integer of any size keeps its low bits.
ToInt(n) == ((n + IntSize) % (2 * IntSize)) - IntSize

\* A body: does it parse, is it an object, and its two fields.  An id is absent, of
\* another type, or an integer <<n>>; a code is absent, of another type, or a text.
Field(present, type, value) == [present |-> present, type |-> type, value |-> value]

Absent == Field(FALSE, "none", <<>>)

BadRequest(why) == [status |-> 400, why |-> why, judged |-> 0]

\* The first check a body fails, in the order of the code.  The mutant leaves the
\* last one out.
RefusalOfFields(body) ==
    CASE ~body.parses -> "Invalid JSON"
      [] body.parses /\ ~(body.object /\ body.id.present /\ body.id.type = "integer")
            -> "problem_id"
      [] OTHER -> IF body.code.present /\ body.code.type = "string" THEN "none" ELSE "code"

Refusal(body) ==
    IF RefusalOfFields(body) = "none" /\ body.code.value = <<>> THEN "empty"
    ELSE RefusalOfFields(body)

\* The answer, when the texts of the result are valid UTF-8 or not: dump() throws on
\* a text that is not, and the server answers 500 instead of the verdict.
HandleSubmit(body, valid) ==
    IF Refusal(body) # "none" THEN BadRequest(Refusal(body))
    ELSE [status |-> IF valid THEN 200 ELSE 500, why |-> "none", judged |-> ToInt(body.id.value[1])]
=============================================================================
