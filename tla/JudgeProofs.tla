---------------------------- MODULE JudgeProofs -----------------------------
(* What Judge promises, for every number of submissions and test cases, any  *)
(* time limit and any behaviour of compilers and programs.                   *)
EXTENDS Judge, DataTheorems

\* The ends of a pipe of its test case that a worker has open at a place.
Open(place, kind, side) ==
    \/ kind = "err" /\ (place \in {"forkGxx", "closeErr"} \/ (place = "readErr" /\ side = "r"))
    \/ kind = "in" /\ (place \in {"pipeOut", "fork", "close"} \/ (place = "feed" /\ side = "w"))
    \/ kind = "out" /\ (place \in {"fork", "close"}
                          \/ (place \in {"feed", "poll", "read"} /\ side = "r"))

\* The server has an end open because its worker is at such a place, or because the
\* second pipe of its test case could not be made.
EndOK(end) ==
    \/ pc[end[1]] # "done" /\ end[2] = test[end[1]] /\ Open(pc[end[1]], end[3], end[4])
    \/ /\ end[2] \in DOMAIN results[end[1]] /\ end[3] = "in"
       /\ results[end[1]][end[2]].prog = "none"

\* Whoever keeps the write end of the input of the program s is at excuses s.
HeldOK(end) ==
    /\ end[2] <= test[end[1]]
    /\ end[2] = test[end[1]] /\ end[3] = "in" /\ end[4] = "w" /\ pc[end[1]] # "done"
          => excused[end[1]]

Compiling == {"new", "pipeErr", "forkGxx", "closeErr", "readErr", "waitGxx"}
Running   == {"pipeIn", "pipeOut", "fork", "close", "feed", "poll", "read"}

\* What a worker at a place has done so far.
WorkerOK(s) ==
    /\ pc[s] \in Compiling => test[s] = 0
    /\ test[s] <= Tests[s]
    /\ pc[s] \in Running => test[s] \in 1..Tests[s] /\ Len(results[s]) = test[s] - 1
    /\ Len(results[s]) <= test[s]
    /\ pc[s] = "done" => ~dir[s]
    /\ verdict[s] # "none" => pc[s] = "done"
    /\ child[s] # "none" =>
          pc[s] \in {"closeErr", "readErr", "waitGxx", "close", "feed", "poll"}
    /\ pc[s] \in {"close", "feed", "poll", "read"} => prog[s] \in Programs
    /\ (pc[s] = "read" \/ (pc[s] \in {"close", "feed", "poll"} /\ child[s] = "zombie"))
          => prog[s] # "stuck"
    /\ pc[s] \notin {"poll", "read"} => age[s] = 0
    /\ pc[s] = "poll" /\ age[s] > 0 /\ prog[s] \in GivesRight => excused[s]

\* A status says how the program ended, and never "CE".
ResultOK(r) ==
    /\ r.status \in {"AC", "WA", "TLE", "RE"}
    /\ r.status = "AC" => r.prog \in GivesRight
    /\ r.status = "WA" => r.prog = "wrong"

ResultsOK(s) == \A i \in DOMAIN results[s] : ResultOK(results[s][i])

\* AcceptedIsEarned, of one submission.
VerdictOK(s) ==
    /\ verdict[s] = "AC" => Len(results[s]) = Tests[s] /\
          \A i \in 1..Tests[s] : results[s][i].prog \in GivesRight
    /\ verdict[s] = "WA" => \A i \in DOMAIN results[s] :
          results[s][i].prog \notin {"none", "crash", "spin", "stuck"}

\* The types, with names.
Ends    == Subs \X Nat \X {"err", "in", "out"} \X {"r", "w"}
Results == [prog : Programs \cup {"none"}, status : Statuses]
Places  == Compiling \cup Running \cup {"done"}

TypesOK ==
    /\ pc \in [Subs -> Places] /\ test \in [Subs -> Nat]
    /\ dir \in [Subs -> BOOLEAN] /\ excused \in [Subs -> BOOLEAN]
    /\ child \in [Subs -> {"none", "running", "zombie"}]
    /\ prog \in [Subs -> Builds \cup Programs \cup {"none"}]
    /\ age \in [Subs -> 0..Limit]
    /\ results \in [Subs -> Seq(Results)]
    /\ verdict \in [Subs -> Statuses \cup {"none"}]
    /\ srv \subseteq Ends /\ fds \in [Subs -> SUBSET Ends] /\ orphans \subseteq SUBSET Ends

\* The processes other than the server that have this end open.
Held(end) == end \in UNION orphans \/ \E q \in Subs : end \in fds[q]

Inv ==
    /\ TypesOK
    /\ \A s \in Subs : WorkerOK(s) /\ ResultsOK(s) /\ VerdictOK(s)
    /\ \A end \in srv : EndOK(end)
    /\ \A end \in Ends : Held(end) => HeldOK(end)

LEMMA TypeParts == TypesOK /\ (\A s \in Subs : WorkerOK(s)) => TypeOK
<1> SUFFICES ASSUME TypesOK, \A s \in Subs : WorkerOK(s) PROVE TypeOK
  OBVIOUS
<1>1. ASSUME NEW s \in Subs
      PROVE  Len(results[s]) <= Tests[s]
  <2>1. Len(results[s]) \in Nat /\ Len(results[s]) <= test[s] /\ test[s] <= Tests[s]
        /\ test[s] \in Nat /\ Tests[s] \in Nat
    BY TestsAssumption DEF TypesOK, WorkerOK
  <2> QED BY <2>1
<1> QED BY <1>1 DEF TypesOK, TypeOK, WorkerOK, Ends, Results, Places, Compiling, Running
-----------------------------------------------------------------------------
(* The verdict.                                                             *)

\* "AC" says that every test case passed, and "WA" that none was stopped or crashed.
LEMMA OverallSays ==
    ASSUME NEW n \in Nat, NEW statuses \in [1..n -> Statuses]
    PROVE  /\ Overall(statuses) \in Statuses
           /\ Overall(statuses) = "AC" => \A i \in 1..n : statuses[i] = "AC"
           /\ Overall(statuses) = "WA" =>
                 \A i \in 1..n : statuses[i] \notin {"CE", "RE", "TLE"}
<1> DEFINE failures == {i \in DOMAIN statuses : statuses[i] \in {"CE", "RE", "TLE"}}
           first == CHOOSE i \in failures : \A j \in failures : i <= j
<1>1. CASE \A i \in DOMAIN statuses : statuses[i] = "AC"
  BY <1>1 DEF Overall, Statuses
<1>2. CASE (\E i \in DOMAIN statuses : statuses[i] # "AC") /\ failures # {}
  <2>1. failures \in SUBSET Nat
    OBVIOUS
  <2>2. first \in failures
    BY <1>2, <2>1, Least
  <2>3. statuses[first] \in {"CE", "RE", "TLE"}
    BY <2>2
  <2>4. Overall(statuses) = statuses[first]
    BY <1>2 DEF Overall
  <2> QED BY <2>3, <2>4 DEF Statuses
<1>3. CASE (\E i \in DOMAIN statuses : statuses[i] # "AC") /\ failures = {}
  <2>1. Overall(statuses) = "WA"
    BY <1>3 DEF Overall
  <2> QED BY <1>3, <2>1 DEF Statuses
<1> QED BY <1>1, <1>2, <1>3
-----------------------------------------------------------------------------
(* What a step of one worker leaves alone.                                  *)

Others(s) ==
    \A q \in Subs \ {s} :
        /\ pc'[q] = pc[q] /\ test'[q] = test[q] /\ dir'[q] = dir[q] /\ child'[q] = child[q]
        /\ prog'[q] = prog[q] /\ age'[q] = age[q] /\ results'[q] = results[q]
        /\ verdict'[q] = verdict[q] /\ (excused[q] => excused'[q])

SubOK(s) == WorkerOK(s) /\ ResultsOK(s) /\ VerdictOK(s)

LEMMA SubsFrame ==
    ASSUME Inv, NEW s \in Subs, Others(s), SubOK(s)'
    PROVE  \A q \in Subs : SubOK(q)'
<1> SUFFICES ASSUME NEW q \in Subs, q # s PROVE SubOK(q)'
  OBVIOUS
<1>1. WorkerOK(q)'
  BY DEF Inv, Others, WorkerOK
<1>2. ResultsOK(q)' /\ VerdictOK(q)'
  BY DEF Inv, Others, ResultsOK, VerdictOK
<1> QED BY <1>1, <1>2 DEF SubOK

\* The ends of the other workers.
LEMMA EndsFrame ==
    ASSUME Inv, NEW s \in Subs, Others(s),
           \A end \in srv' : end[1] # s => end \in srv,
           \A end \in srv' : end[1] = s => EndOK(end)'
    PROVE  \A end \in srv' : EndOK(end)'
<1> SUFFICES ASSUME NEW end \in srv, end[1] # s PROVE EndOK(end)'
  OBVIOUS
<1>1. end[1] \in Subs
  BY DEF Inv, TypesOK, Ends
<1> QED BY <1>1 DEF Inv, Others, EndOK

\* The ends children had already.
LEMMA HeldFrame ==
    ASSUME Inv, NEW s \in Subs, Others(s), test'[s] \in {test[s], test[s] + 1},
           test'[s] = test[s] /\ pc'[s] # "done" => pc[s] # "done" /\ (excused[s] => excused'[s]),
           \A end \in Ends : Held(end)' => Held(end) \/ HeldOK(end)'
    PROVE  \A end \in Ends : Held(end)' => HeldOK(end)'
<1> SUFFICES ASSUME NEW end \in Ends, Held(end) PROVE HeldOK(end)'
  OBVIOUS
<1>1. end \in Ends /\ HeldOK(end)
  BY DEF Inv
<1>2. end[1] \in Subs /\ end[2] \in Nat /\ test[end[1]] \in Nat /\ test[s] \in Nat
  BY <1>1, TestsAssumption DEF Inv, TypesOK, Ends
<1>3. CASE end[1] # s
  BY <1>1, <1>2, <1>3 DEF HeldOK, Others
<1>4. CASE end[1] = s /\ test'[s] = test[s]
  BY <1>1, <1>2, <1>4 DEF HeldOK
<1>5. CASE end[1] = s /\ test'[s] = test[s] + 1
  BY <1>1, <1>2, <1>5 DEF HeldOK
<1> QED BY <1>3, <1>4, <1>5

LEMMA StepFrame ==
    ASSUME Inv, NEW s \in Subs, Others(s), TypesOK', SubOK(s)',
           \A end \in srv' : end[1] # s => end \in srv,
           \A end \in srv' : end[1] = s => EndOK(end)',
           test'[s] \in {test[s], test[s] + 1},
           test'[s] = test[s] /\ pc'[s] # "done" => pc[s] # "done" /\ (excused[s] => excused'[s]),
           \A end \in Ends : Held(end)' => Held(end) \/ HeldOK(end)'
    PROVE  Inv'
<1>1. \A q \in Subs : SubOK(q)'
  BY SubsFrame
<1>2. \A end \in srv' : EndOK(end)'
  BY EndsFrame
<1>3. \A end \in Ends : Held(end)' => HeldOK(end)'
  BY HeldFrame
<1> QED BY <1>1, <1>2, <1>3 DEF Inv, SubOK

\* The ends of s that stay open when s goes on to another place of its test case.
LEMMA EndsStay ==
    ASSUME Inv, NEW s \in Subs, NEW end \in srv, end[1] = s, results' = results,
           test' = test,
           pc[s] # "done" /\ end[2] = test[s] /\ Open(pc[s], end[3], end[4]) =>
               pc'[s] # "done" /\ Open(pc'[s], end[3], end[4])
    PROVE  EndOK(end)'
BY DEF Inv, EndOK

LEMMA EndParts ==
    ASSUME TypesOK, NEW end \in Ends
    PROVE  end = <<end[1], end[2], end[3], end[4]>> /\ end[1] \in Subs /\ end[2] \in Nat
BY DEF Ends

\* The ends that End and Pipe name.
LEMMA PipeParts ==
    ASSUME TypesOK, NEW s \in Subs, NEW kind \in {"err", "in", "out"}
    PROVE  /\ Pipe(s, kind) \subseteq Ends
           /\ \A end \in Ends : end \in Pipe(s, kind)
                 <=> end[1] = s /\ end[2] = test[s] /\ end[3] = kind
           /\ \A side \in {"r", "w"} : \A end \in Ends : end = End(s, kind, side)
                 <=> end[1] = s /\ end[2] = test[s] /\ end[3] = kind /\ end[4] = side
<1>1. test[s] \in Nat
  BY DEF TypesOK
<1>2. \A side \in {"r", "w"} : End(s, kind, side) \in Ends
  BY <1>1 DEF End, Ends
<1>3. \A side \in {"r", "w"} : \A end \in Ends : end = End(s, kind, side)
        <=> end[1] = s /\ end[2] = test[s] /\ end[3] = kind /\ end[4] = side
  BY DEF End, Ends
<1>4. \A end \in Ends : end[4] \in {"r", "w"}
  BY DEF Ends
<1> QED BY <1>2, <1>3, <1>4 DEF Pipe
-----------------------------------------------------------------------------
(* Steps between the calls of the system, in order.                         *)


LEMMA ServerStep ==
    ASSUME Inv, NEW s \in Subs, UNCHANGED <<test, child, fds, orphans, prog, age, excused, results, verdict>>,
           NEW here \in Places, NEW next \in Places, At(s, here, next),
           \/ here = "new" /\ next = "pipeErr" /\ dir' = [dir EXCEPT ![s] = TRUE] /\ srv' = srv
           \/ here = "pipeErr" /\ next = "forkGxx" /\ srv' = srv \cup Pipe(s, "err") /\ dir' = dir
           \/ here = "closeErr" /\ next = "readErr" /\ srv' = srv \ {End(s, "err", "w")} /\ dir' = dir
           \/ here = "readErr" /\ next = "waitGxx" /\ srv' = srv \ {End(s, "err", "r")} /\ dir' = dir
           \/ here = "pipeIn" /\ next = "pipeOut" /\ srv' = srv \cup Pipe(s, "in") /\ dir' = dir
           \/ here = "pipeOut" /\ next = "fork" /\ srv' = srv \cup Pipe(s, "out") /\ dir' = dir
           \/ /\ here = "close" /\ next = "feed" /\ dir' = dir
              /\ srv' = srv \ {End(s, "in", "r"), End(s, "out", "w")}
           \/ here = "feed" /\ next = "poll" /\ srv' = srv \ {End(s, "in", "w")} /\ dir' = dir
    PROVE  Inv'
<1>1. TypesOK /\ WorkerOK(s) /\ ResultsOK(s) /\ VerdictOK(s)
  BY DEF Inv
<1>2. /\ pc[s] = here /\ pc'[s] = next /\ pc' \in [Subs -> Places]
      /\ \A q \in Subs \ {s} : pc'[q] = pc[q] /\ dir'[q] = dir[q]
      /\ dir' \in [Subs -> BOOLEAN]
  BY <1>1 DEF At, TypesOK
<1>3. Others(s)
  BY <1>2 DEF Others
<1>4. srv' \subseteq Ends
  BY <1>1, PipeParts DEF TypesOK
<1>5. TypesOK'
  BY <1>1, <1>2, <1>4 DEF TypesOK
<1>6. SubOK(s)'
  <2>1. WorkerOK(s)'
    BY <1>1, <1>2 DEF WorkerOK, Compiling, Running
  <2> QED BY <1>1, <2>1 DEF SubOK, ResultsOK, VerdictOK
<1>7. \A end \in srv' : end[1] # s => end \in srv
  BY <1>1, <1>4, PipeParts
<1>8. ASSUME NEW end \in srv', end[1] = s
      PROVE  EndOK(end)'
  <2>1. end \in Ends
    BY <1>4
  <2>2. CASE end \in srv
    <3>1. ASSUME end[2] = test[s], Open(here, end[3], end[4])
          PROVE  next # "done" /\ Open(next, end[3], end[4])
      <4>1. /\ end[4] \in {"r", "w"}
            /\ \A kind \in {"err", "in", "out"}, side \in {"r", "w"} :
                  end = End(s, kind, side) <=> end[3] = kind /\ end[4] = side
        BY <1>1, <1>8, <2>1, <3>1, PipeParts DEF Ends
      <4>2. CASE here \in {"new", "pipeErr", "pipeIn", "pipeOut"}
        BY <3>1, <4>2 DEF Open
      <4>3. CASE here = "closeErr" \/ here = "readErr"
        BY <3>1, <4>1, <4>3 DEF Open
      <4>4. CASE here = "close"
        BY <3>1, <4>1, <4>4 DEF Open
      <4>5. CASE here = "feed"
        BY <3>1, <4>1, <4>5 DEF Open
      <4> QED BY <4>2, <4>3, <4>4, <4>5
    <3> QED BY <1>2, <1>8, <2>2, <3>1, EndsStay
  <2>3. CASE end \notin srv
    <3>1. /\ end[2] = test[s] /\ pc'[s] # "done"
          /\ Open(pc'[s], end[3], end[4])
      BY <1>1, <1>2, <2>1, <2>3, PipeParts DEF Open
    <3> QED BY <1>8, <3>1 DEF EndOK
  <2> QED BY <2>2, <2>3
<1>9. pc[s] # "done" /\ \A end \in Ends : Held(end)' => Held(end)
  BY <1>2 DEF Held
<1> QED BY <1>3, <1>5, <1>6, <1>7, <1>8, <1>9, StepFrame

\* A program's end of its own input is closed at fork(), and so is everything that
\* the server had closed: whoever else got the input excuses the program.
LEMMA ForkStep ==
    ASSUME Inv, NEW s \in Subs, ForkGxx(s) \/ ForkRun(s)
    PROVE  Inv'
<1> DEFINE closed == IF pc[s] = "fork" THEN {End(s, "in", "w"), End(s, "out", "r")}
                     ELSE {End(s, "err", "r")}
           kinds == IF pc[s] = "fork" THEN Programs ELSE Builds
<1>1. TypesOK /\ WorkerOK(s) /\ ResultsOK(s) /\ VerdictOK(s)
  BY DEF Inv
<1>2. /\ Fork(s, closed, kinds)
      /\ UNCHANGED <<test, dir, srv, age, results, verdict>>
      /\ pc[s] \in {"fork", "forkGxx"}
      /\ pc' = [pc EXCEPT ![s] = IF pc[s] = "fork" THEN "close" ELSE "closeErr"]
  BY DEF ForkGxx, ForkRun, At
<1> HIDE DEF closed, kinds
<1>3. PICK k \in kinds : prog' = [prog EXCEPT ![s] = k]
  BY <1>2 DEF Fork
<1>4. kinds \subseteq Builds \cup Programs /\ (pc[s] = "fork" => kinds = Programs)
  BY DEF kinds
<1>5. /\ child' = [child EXCEPT ![s] = "running"]
      /\ fds' = [fds EXCEPT ![s] = srv \ closed]
      /\ excused' = [q \in Subs |-> excused[q] \/ (q # s /\ End(q, "in", "w") \in srv)]
  BY <1>2 DEF Fork
<1>6. TypesOK'
  <2>1. pc' \in [Subs -> Places]
    BY <1>1, <1>2 DEF TypesOK, Places, Compiling, Running
  <2>2. prog' \in [Subs -> Builds \cup Programs \cup {"none"}]
    BY <1>1, <1>3, <1>4 DEF TypesOK
  <2>3. excused' \in [Subs -> BOOLEAN]
    BY <1>1, <1>5, Zenon DEF TypesOK
  <2>4. child' \in [Subs -> {"none", "running", "zombie"}] /\ fds' \in [Subs -> SUBSET Ends]
    BY <1>1, <1>5 DEF TypesOK
  <2>5. orphans' = orphans
    BY <1>2 DEF Fork
  <2> QED BY <1>1, <1>2, <2>1, <2>2, <2>3, <2>4, <2>5 DEF TypesOK
<1>7. /\ pc'[s] = IF pc[s] = "fork" THEN "close" ELSE "closeErr"
      /\ \A q \in Subs \ {s} : pc'[q] = pc[q] /\ child'[q] = child[q] /\ prog'[q] = prog[q]
      /\ child'[s] = "running" /\ prog'[s] = k
      /\ \A q \in Subs \ {s} : fds'[q] = fds[q]
      /\ fds'[s] = srv \ closed
  BY <1>1, <1>2, <1>3, <1>5 DEF TypesOK
<1>8. \A q \in Subs : excused'[q] <=> excused[q] \/ (q # s /\ End(q, "in", "w") \in srv)
  BY <1>5, Zenon
<1>9. Others(s)
  BY <1>2, <1>7, <1>8 DEF Others
<1>10. SubOK(s)'
  <2>1. WorkerOK(s)'
    BY <1>1, <1>2, <1>4, <1>7 DEF WorkerOK, Compiling, Running
  <2> QED BY <1>1, <1>2, <2>1 DEF SubOK, ResultsOK, VerdictOK
<1>11. ASSUME NEW end \in srv', end[1] = s
       PROVE  EndOK(end)'
  <2>1. pc[s] # "done" /\ end[2] = test[s] /\ Open(pc[s], end[3], end[4]) =>
             pc'[s] # "done" /\ Open(pc'[s], end[3], end[4])
    BY <1>2, <1>7 DEF Open
  <2> QED BY <1>2, <1>11, <2>1, EndsStay
<1>12. ASSUME NEW end \in srv \ closed
       PROVE  HeldOK(end)'
  <2>1. end \in Ends /\ end[1] \in Subs /\ end[2] \in Nat /\ EndOK(end)
    BY <1>1, EndParts DEF TypesOK, Inv
  <2>2. test[end[1]] \in Nat /\ Len(results[end[1]]) \in Nat /\ WorkerOK(end[1])
        /\ DOMAIN results[end[1]] = 1..Len(results[end[1]])
    BY <1>1, <2>1, TestsAssumption DEF TypesOK, Inv
  <2>3. end[2] <= test[end[1]]
    <3>1. CASE end[2] = test[end[1]]
      BY <2>1, <2>2, <3>1
    <3>2. CASE end[2] \in DOMAIN results[end[1]]
      <4>1. Len(results[end[1]]) <= test[end[1]]
        BY <2>2 DEF WorkerOK
      <4>2. end[2] <= Len(results[end[1]]) /\ end[2] \in Nat
        BY <2>2, <3>2
      <4> QED BY <2>2, <4>1, <4>2
    <3> QED BY <2>1, <3>1, <3>2 DEF EndOK
  <2>4. ASSUME end[2] = test[end[1]], end[3] = "in", end[4] = "w", pc'[end[1]] # "done"
        PROVE  excused'[end[1]]
    <3>1. end = End(end[1], "in", "w")
      BY <1>1, <2>1, <2>4, PipeParts
    <3>2. CASE end[1] # s
      BY <1>8, <2>1, <3>1, <3>2
    <3>3. CASE end[1] = s /\ pc[s] = "fork"
      BY <3>1, <3>3 DEF closed
    <3>4. CASE end[1] = s /\ pc[s] = "forkGxx"
      <4>1. test[s] = 0 /\ Len(results[s]) <= 0 /\ Len(results[s]) \in Nat
        BY <1>1, <2>1, <2>2, <3>4 DEF WorkerOK, Compiling
      <4>2. 0 \notin DOMAIN results[s]
        BY <2>2, <3>4
      <4> QED BY <2>1, <2>4, <3>4, <4>1, <4>2 DEF EndOK, Open
    <3> QED BY <1>2, <3>2, <3>3, <3>4
  <2> QED BY <1>2, <2>3, <2>4 DEF HeldOK
<1>13. \A end \in Ends : Held(end)' => Held(end) \/ HeldOK(end)'
  BY <1>2, <1>7, <1>12 DEF Held, Fork
<1>14. /\ \A end \in srv' : end[1] # s => end \in srv
       /\ test'[s] = test[s] /\ pc[s] # "done" /\ (excused[s] => excused'[s])
  BY <1>2, <1>8
<1> QED BY <1>6, <1>9, <1>10, <1>11, <1>13, <1>14, StepFrame

\* What a child had open stays with its own children at most.
LEMMA DiesParts ==
    ASSUME TypesOK, NEW s \in Subs, Dies(s)
    PROVE  /\ fds' \in [Subs -> SUBSET Ends] /\ orphans' \subseteq SUBSET Ends
           /\ \A end \in Ends : Held(end)' => Held(end)
<1>1. fds' \in [Subs -> SUBSET Ends] /\ \A q \in Subs : fds'[q] \subseteq fds[q]
  BY DEF Dies, TypesOK
<1>2. orphans' \subseteq orphans \cup {fds[s]}
  BY DEF Dies
<1>3. orphans' \subseteq SUBSET Ends
  <2>1. fds[s] \in SUBSET Ends /\ orphans \subseteq SUBSET Ends
    BY DEF TypesOK
  <2> QED BY <1>2, <2>1
<1>4. \A end \in UNION orphans' : end \in UNION orphans \/ end \in fds[s]
  BY <1>2
<1> QED BY <1>1, <1>3, <1>4 DEF Held

LEMMA ChildExitStep ==
    ASSUME Inv, NEW s \in Subs, ChildExit(s)
    PROVE  Inv'
<1>1. TypesOK /\ WorkerOK(s) /\ ResultsOK(s) /\ VerdictOK(s)
  BY DEF Inv
<1>2. /\ child[s] = "running" /\ MayExit(s)
      /\ child' = [child EXCEPT ![s] = "zombie"] /\ Dies(s)
      /\ UNCHANGED <<pc, test, dir, srv, prog, age, excused, results, verdict>>
  BY DEF ChildExit
<1>3. TypesOK' /\ Others(s) /\ child'[s] = "zombie"
      /\ \A end \in Ends : Held(end)' => Held(end)
  BY <1>1, <1>2, DiesParts DEF TypesOK, Others
<1>4. prog[s] # "stuck"
  BY <1>2 DEF MayExit
<1>5. pc[s] # "done"
  BY <1>1, <1>2 DEF WorkerOK
<1>6. SubOK(s)'
  <2>1. WorkerOK(s)'
    BY <1>1, <1>2, <1>3, <1>4 DEF WorkerOK
  <2> QED BY <1>1, <1>2, <2>1 DEF SubOK, ResultsOK, VerdictOK
<1>7. \A end \in srv' : end[1] = s => EndOK(end)'
  BY <1>2, EndsStay
<1> QED BY <1>2, <1>3, <1>5, <1>6, <1>7, StepFrame

LEMMA PollExitedStep ==
    ASSUME Inv, NEW s \in Subs, PollExited(s)
    PROVE  Inv'
<1>1. TypesOK /\ WorkerOK(s) /\ ResultsOK(s) /\ VerdictOK(s)
  BY DEF Inv
<1>2. /\ pc[s] = "poll" /\ pc' = [pc EXCEPT ![s] = "read"] /\ child[s] = "zombie"
      /\ child' = [child EXCEPT ![s] = "none"]
      /\ UNCHANGED <<test, dir, srv, fds, orphans, prog, age, excused, results, verdict>>
  BY DEF PollExited, At
<1>3. /\ TypesOK' /\ pc'[s] = "read" /\ child'[s] = "none"
      /\ \A q \in Subs \ {s} : pc'[q] = pc[q] /\ child'[q] = child[q]
      /\ \A end \in Ends : Held(end)' => Held(end)
  BY <1>1, <1>2 DEF TypesOK, Places, Running, Held
<1>4. Others(s)
  BY <1>2, <1>3 DEF Others
<1>5. SubOK(s)'
  <2>1. WorkerOK(s)'
    BY <1>1, <1>2, <1>3 DEF WorkerOK, Compiling, Running
  <2> QED BY <1>1, <1>2, <2>1 DEF SubOK, ResultsOK, VerdictOK
<1>6. \A end \in srv' : end[1] = s => EndOK(end)'
  BY <1>2, <1>3, EndsStay DEF Open
<1> QED BY <1>2, <1>3, <1>4, <1>5, <1>6, StepFrame

\* g++ accepted the program: the first test case.
LEMMA AcceptedStep ==
    ASSUME Inv, NEW s \in Subs, WaitGxx(s), pc'[s] # "done"
    PROVE  Inv'
<1>1. TypesOK /\ WorkerOK(s) /\ ResultsOK(s) /\ VerdictOK(s)
  BY DEF Inv
<1>2. /\ pc[s] = "waitGxx" /\ child' = [child EXCEPT ![s] = "none"]
      /\ UNCHANGED <<srv, fds, orphans, prog, age, excused, results>>
      /\ pc' = [pc EXCEPT ![s] = "pipeIn"] /\ test' = [test EXCEPT ![s] = 1]
      /\ UNCHANGED <<dir, verdict>>
  BY <1>1 DEF WaitGxx, Finish, TypesOK
<1>3. 1 \in Nat /\ 1 \in 1..Tests[s] /\ 1 <= Tests[s]
  BY TestsAssumption
<1>4. /\ TypesOK' /\ pc'[s] = "pipeIn" /\ child'[s] = "none" /\ test'[s] = 1
      /\ \A q \in Subs \ {s} : pc'[q] = pc[q] /\ child'[q] = child[q] /\ test'[q] = test[q]
      /\ \A end \in Ends : Held(end)' => Held(end)
  BY <1>1, <1>2, <1>3 DEF TypesOK, Places, Running, Held
<1>5. Others(s)
  BY <1>2, <1>4 DEF Others
<1>6. test[s] = 0 /\ Len(results[s]) = 0 /\ DOMAIN results[s] = {}
  <2>1. test[s] = 0 /\ Len(results[s]) <= 0
    BY <1>1, <1>2 DEF WorkerOK, Compiling
  <2>2. Len(results[s]) \in Nat /\ DOMAIN results[s] = 1..Len(results[s])
    BY <1>1 DEF TypesOK
  <2> QED BY <2>1, <2>2
<1>7. SubOK(s)'
  <2>1. WorkerOK(s)'
    BY <1>1, <1>2, <1>3, <1>4, <1>6 DEF WorkerOK, Compiling, Running
  <2> QED BY <1>1, <1>2, <2>1 DEF SubOK, ResultsOK, VerdictOK
<1>8. ASSUME NEW end \in srv', end[1] = s
      PROVE  EndOK(end)'
  BY <1>2, <1>6, <1>8 DEF Inv, EndOK, Open
<1> QED BY <1>2, <1>4, <1>5, <1>6, <1>7, <1>8, StepFrame

\* execute() ends before the first test case.
LEMMA CompileErrorStep ==
    ASSUME Inv, NEW s \in Subs,
           Reject(s) \/ PipeErrFails(s) \/ ForkGxxFails(s) \/ (WaitGxx(s) /\ pc'[s] = "done")
    PROVE  Inv'
<1>1. TypesOK /\ WorkerOK(s) /\ ResultsOK(s) /\ VerdictOK(s)
  BY DEF Inv
<1>2. /\ pc[s] \in {"new", "pipeErr", "forkGxx", "waitGxx"} /\ Finish(s, "CE")
      /\ UNCHANGED <<test, fds, orphans, prog, age, excused, results>>
      /\ child' = IF pc[s] = "waitGxx" THEN [child EXCEPT ![s] = "none"] ELSE child
      /\ srv' = IF pc[s] = "forkGxx" THEN srv \ Pipe(s, "err") ELSE srv
  BY <1>1 DEF Reject, PipeErrFails, ForkGxxFails, WaitGxx, Finish, TypesOK
<1>3. /\ TypesOK' /\ pc'[s] = "done" /\ ~dir'[s] /\ verdict'[s] = "CE" /\ child'[s] = "none"
      /\ \A q \in Subs \ {s} : /\ pc'[q] = pc[q] /\ child'[q] = child[q]
                               /\ dir'[q] = dir[q] /\ verdict'[q] = verdict[q]
      /\ \A end \in Ends : Held(end)' => Held(end)
  BY <1>1, <1>2 DEF TypesOK, Places, Statuses, Finish, WorkerOK, Held
<1>4. Others(s)
  BY <1>2, <1>3 DEF Others
<1>5. SubOK(s)'
  <2>1. WorkerOK(s)'
    BY <1>1, <1>2, <1>3 DEF WorkerOK, Compiling, Running
  <2> QED BY <1>1, <1>2, <1>3, <2>1 DEF SubOK, ResultsOK, VerdictOK
<1>6. ASSUME NEW end \in srv', end[1] = s
      PROVE  EndOK(end)'
  <2>1. end \in srv /\ end \in Ends /\ (pc[s] = "forkGxx" => end \notin Pipe(s, "err"))
    BY <1>1, <1>2, <1>6 DEF TypesOK
  <2>2. ~(end[2] = test[s] /\ Open(pc[s], end[3], end[4]))
    BY <1>1, <1>2, <1>6, <2>1, PipeParts DEF Open
  <2> QED BY <1>2, <1>6, <2>1, <2>2 DEF Inv, EndOK
<1> QED BY <1>2, <1>3, <1>4, <1>5, <1>6, StepFrame
-----------------------------------------------------------------------------
(* The end of a test case.                                                  *)

\* What a result adds.
LEMMA ConcludeSub ==
    ASSUME Inv, NEW s \in Subs, pc[s] \in Running, child'[s] = "none",
           NEW p \in Programs \cup {"none"}, NEW status \in Statuses,
           ResultOK([prog |-> p, status |-> status]), Conclude(s, p, status)
    PROVE  /\ results' \in [Subs -> Seq(Results)] /\ pc' \in [Subs -> Places]
           /\ test' \in [Subs -> Nat] /\ dir' \in [Subs -> BOOLEAN]
           /\ excused' \in [Subs -> BOOLEAN] /\ age' \in [Subs -> 0..Limit]
           /\ verdict' \in [Subs -> Statuses \cup {"none"}]
           /\ \A q \in Subs \ {s} :
                 /\ pc'[q] = pc[q] /\ test'[q] = test[q] /\ dir'[q] = dir[q]
                 /\ age'[q] = age[q] /\ results'[q] = results[q]
                 /\ verdict'[q] = verdict[q] /\ (excused[q] => excused'[q])
           /\ SubOK(s)'
           /\ DOMAIN results'[s] = DOMAIN results[s] \cup {test[s]}
           /\ \A i \in DOMAIN results[s] : results'[s][i] = results[s][i]
           /\ results'[s][test[s]].prog = p
           /\ (pc'[s] = "done" /\ test'[s] = test[s]) \/ (pc'[s] = "pipeIn" /\ test'[s] = test[s] + 1)
<1> DEFINE r == [prog |-> p, status |-> status]
           done == Append(results[s], r)
           n == test[s]
           statuses == [i \in DOMAIN done |-> done[i].status]
<1>1. TypesOK /\ WorkerOK(s) /\ ResultsOK(s) /\ VerdictOK(s)
  BY DEF Inv
<1>2. /\ results[s] \in Seq(Results) /\ n \in 1..Tests[s] /\ Tests[s] \in Nat /\ Len(results[s]) = n - 1
      /\ n \in Nat /\ DOMAIN results[s] = 1..(n - 1)
  BY <1>1, TestsAssumption DEF TypesOK, WorkerOK
<1>3. r \in Results /\ r.prog = p /\ r.status = status
  BY DEF Results
<1>4. /\ done \in Seq(Results) /\ Len(done) = n /\ DOMAIN done = 1..n
      /\ done[n] = r /\ \A i \in 1..(n - 1) : done[i] = results[s][i]
  BY <1>2, <1>3
<1>5. ASSUME NEW i \in 1..n
      PROVE  done[i] \in Results /\ ResultOK(done[i])
  <2>1. CASE i = n
    BY <1>3, <1>4, <2>1
  <2>2. CASE i # n
    <3>1. i \in 1..(n - 1)
      BY <1>2, <2>2
    <3> QED BY <1>1, <1>2, <1>4, <3>1 DEF ResultsOK
  <2> QED BY <2>1, <2>2
<1>6. statuses \in [1..n -> Statuses] /\ \A i \in 1..n : statuses[i] = done[i].status
  BY <1>4, <1>5 DEF Results
<1>7. /\ Overall(statuses) \in Statuses
      /\ Overall(statuses) = "AC" => \A i \in 1..n : done[i].prog \in GivesRight
      /\ Overall(statuses) = "WA" =>
            \A i \in 1..n : done[i].prog \notin {"none", "crash", "spin", "stuck"}
  <2>1. /\ Overall(statuses) \in Statuses
        /\ Overall(statuses) = "AC" => \A i \in 1..n : statuses[i] = "AC"
        /\ Overall(statuses) = "WA" =>
              \A i \in 1..n : statuses[i] \notin {"CE", "RE", "TLE"}
    BY <1>2, <1>6, OverallSays
  <2>2. Overall(statuses) = "AC" => \A i \in 1..n : done[i].prog \in GivesRight
    BY <1>5, <1>6, <2>1 DEF ResultOK
  <2>3. ASSUME Overall(statuses) = "WA", NEW i \in 1..n
        PROVE  done[i].prog \notin {"none", "crash", "spin", "stuck"}
    <3>1. done[i].status \notin {"CE", "RE", "TLE"} /\ ResultOK(done[i])
      BY <1>5, <1>6, <2>1, <2>3
    <3>2. done[i].prog \in GivesRight \/ done[i].prog = "wrong"
      BY <3>1 DEF ResultOK
    <3> QED BY <3>2 DEF GivesRight
  <2> QED BY <2>1, <2>2, <2>3
<1>8. /\ results' = [results EXCEPT ![s] = done]
      /\ excused' = [excused EXCEPT ![s] = FALSE]
      /\ age' = [age EXCEPT ![s] = 0]
      /\ \/ /\ test[s] # Tests[s]
            /\ pc' = [pc EXCEPT ![s] = "pipeIn"]
            /\ test' = [test EXCEPT ![s] = n + 1]
            /\ UNCHANGED <<dir, verdict>>
         \/ /\ test[s] = Tests[s]
            /\ Finish(s, Overall(statuses))
            /\ UNCHANGED test
  BY DEF Conclude, LastTest
<1> HIDE DEF done, r, statuses, n
<1>9. /\ results' \in [Subs -> Seq(Results)] /\ results'[s] = done
      /\ excused' \in [Subs -> BOOLEAN] /\ age' \in [Subs -> 0..Limit] /\ age'[s] = 0
      /\ \A q \in Subs \ {s} : /\ age'[q] = age[q] /\ results'[q] = results[q]
                               /\ excused'[q] = excused[q]
  BY <1>1, <1>4, <1>8, LimitAssumption DEF TypesOK
<1>10. ResultsOK(s)'
  BY <1>4, <1>5, <1>9 DEF ResultsOK
<1>11. /\ DOMAIN results'[s] = DOMAIN results[s] \cup {test[s]}
       /\ \A i \in DOMAIN results[s] : results'[s][i] = results[s][i]
       /\ results'[s][test[s]].prog = p
  BY <1>2, <1>3, <1>4, <1>9 DEF n
<1>12. CASE test[s] # Tests[s]
  <2>1. n + 1 \in 1..Tests[s] /\ n + 1 \in Nat
    BY <1>2, <1>12, TestsAssumption DEF n
  <2>2. /\ pc' \in [Subs -> Places] /\ pc'[s] = "pipeIn" /\ test' \in [Subs -> Nat]
        /\ test'[s] = n + 1 /\ dir' = dir /\ verdict' = verdict
        /\ \A q \in Subs \ {s} : pc'[q] = pc[q] /\ test'[q] = test[q]
    <3>1. /\ pc' = [pc EXCEPT ![s] = "pipeIn"] /\ test' = [test EXCEPT ![s] = n + 1]
          /\ dir' = dir /\ verdict' = verdict
      BY <1>8, <1>12
    <3>2. pc \in [Subs -> Places] /\ test \in [Subs -> Nat] /\ "pipeIn" \in Places
      BY <1>1 DEF TypesOK, Places, Running
    <3>3. pc' \in [Subs -> Places] /\ pc'[s] = "pipeIn" /\ \A q \in Subs \ {s} : pc'[q] = pc[q]
      BY <3>1, <3>2
    <3>4. /\ test' \in [Subs -> Nat] /\ test'[s] = n + 1
          /\ \A q \in Subs \ {s} : test'[q] = test[q]
      BY <2>1, <3>1, <3>2
    <3> QED BY <3>1, <3>3, <3>4
  <2>3. verdict[s] = "none"
    BY <1>1 DEF WorkerOK, Running
  <2>4. WorkerOK(s)'
    BY <1>2, <1>4, <1>9, <2>1, <2>2, <2>3 DEF WorkerOK, Compiling, Running
  <2>5. VerdictOK(s)'
    BY <2>2, <2>3 DEF VerdictOK
  <2> QED BY <1>1, <1>9, <1>10, <1>11, <2>2, <2>4, <2>5 DEF SubOK, TypesOK, n
<1>13. CASE test[s] = Tests[s]
  <2>1. Finish(s, Overall(statuses)) /\ test' = test
    BY <1>8, <1>13
  <2>2. /\ pc' \in [Subs -> Places] /\ pc'[s] = "done" /\ dir' \in [Subs -> BOOLEAN] /\ ~dir'[s]
        /\ verdict' \in [Subs -> Statuses \cup {"none"}] /\ verdict'[s] = Overall(statuses)
        /\ \A q \in Subs \ {s} : pc'[q] = pc[q] /\ dir'[q] = dir[q] /\ verdict'[q] = verdict[q]
    BY <1>1, <1>7, <2>1 DEF TypesOK, Places, Finish
  <2>3. WorkerOK(s)'
    BY <1>2, <1>4, <1>9, <2>1, <2>2 DEF WorkerOK, Compiling, Running, n
  <2>4. VerdictOK(s)'
    BY <1>4, <1>7, <1>9, <1>13, <2>2 DEF VerdictOK, n
  <2> QED BY <1>1, <1>9, <1>10, <1>11, <2>1, <2>2, <2>3, <2>4 DEF SubOK, TypesOK
<1> QED BY <1>12, <1>13

\* The four ways a test case ends.
Ending(s, p, status) ==
    \/ pc[s] \in {"pipeIn", "pipeOut"} /\ p = "none" /\ status = "RE" /\ PipeFails(s)
    \/ pc[s] = "fork" /\ p = "none" /\ status = "RE" /\ ForkRunFails(s)
    \/ pc[s] = "poll" /\ p = prog[s] /\ status = "TLE" /\ TimeOut(s)
    \/ pc[s] = "read" /\ p = prog[s] /\ status = StatusOf(prog[s]) /\ ReadOutput(s)

LEMMA EndingIs ==
    ASSUME NEW s \in Subs, PipeFails(s) \/ ForkRunFails(s) \/ TimeOut(s) \/ ReadOutput(s)
    PROVE  \E p, status : Ending(s, p, status)
BY DEF Ending, PipeFails, ForkRunFails, TimeOut, ReadOutput

LEMMA EndingParts ==
    ASSUME Inv, NEW s \in Subs, NEW p, NEW status, Ending(s, p, status)
    PROVE  /\ pc[s] \in Running /\ Conclude(s, p, status) /\ prog' = prog
           /\ p \in Programs \cup {"none"} /\ status \in Statuses
           /\ ResultOK([prog |-> p, status |-> status])
           /\ child' \in [Subs -> {"none", "running", "zombie"}] /\ child'[s] = "none"
           /\ \A q \in Subs \ {s} : child'[q] = child[q]
           /\ fds' \in [Subs -> SUBSET Ends] /\ orphans' \subseteq SUBSET Ends
           /\ \A end \in Ends : Held(end)' => Held(end)
           /\ srv' \subseteq srv
           /\ \A end \in srv' : end[1] = s /\ end[2] = test[s] /\ Open(pc[s], end[3], end[4]) =>
                 p = "none" /\ end[3] = "in"
           /\ p \in GivesRight => status = "AC" \/ excused[s]
<1>1. TypesOK /\ WorkerOK(s)
  BY DEF Inv
<1>2. \A end \in srv : end \in Ends /\ end[4] \in {"r", "w"}
  BY <1>1 DEF TypesOK, Ends
<1>3. CASE pc[s] \in {"pipeIn", "pipeOut"} /\ p = "none" /\ status = "RE" /\ PipeFails(s)
  <2>1. UNCHANGED <<srv, child, fds, orphans, prog>> /\ Conclude(s, p, status) /\ child[s] = "none"
    BY <1>1, <1>3 DEF PipeFails, WorkerOK
  <2>2. \A end \in Ends : Held(end)' => Held(end)
    BY <2>1 DEF Held
  <2> QED BY <1>1, <1>3, <2>1, <2>2 DEF TypesOK, Running, Statuses, ResultOK, Open, GivesRight
<1>4. CASE pc[s] = "fork" /\ p = "none" /\ status = "RE" /\ ForkRunFails(s)
  <2>1. /\ UNCHANGED <<child, fds, orphans, prog>> /\ Conclude(s, p, status) /\ child[s] = "none"
        /\ srv' = srv \ (Pipe(s, "in") \cup Pipe(s, "out"))
    BY <1>1, <1>4 DEF ForkRunFails, WorkerOK
  <2>2. \A end \in srv' : ~(end[1] = s /\ end[2] = test[s] /\ Open(pc[s], end[3], end[4]))
    BY <1>1, <1>2, <1>4, <2>1, PipeParts DEF Open
  <2>3. \A end \in Ends : Held(end)' => Held(end)
    BY <2>1 DEF Held
  <2> QED BY <1>1, <1>4, <2>1, <2>2, <2>3 DEF TypesOK, Running, Statuses, ResultOK, GivesRight
<1>5. CASE pc[s] = "poll" /\ p = prog[s] /\ status = "TLE" /\ TimeOut(s)
  <2>1. /\ child' = [child EXCEPT ![s] = "none"] /\ Dies(s)
        /\ srv' = srv \ {End(s, "out", "r")} /\ prog' = prog /\ age[s] = Limit
        /\ Conclude(s, p, status)
    BY <1>5 DEF TimeOut
  <2>2. \A end \in srv' : ~(end[1] = s /\ end[2] = test[s] /\ Open(pc[s], end[3], end[4]))
    BY <1>1, <1>2, <1>5, <2>1, PipeParts DEF Open
  <2>3. p \in Programs /\ (p \in GivesRight => excused[s])
    BY <1>1, <1>5, <2>1, LimitAssumption DEF WorkerOK
  <2>4. /\ fds' \in [Subs -> SUBSET Ends] /\ orphans' \subseteq SUBSET Ends
        /\ \A end \in Ends : Held(end)' => Held(end)
    BY <1>1, <2>1, DiesParts
  <2> QED BY <1>1, <1>5, <2>1, <2>2, <2>3, <2>4 DEF TypesOK, Running, Statuses, ResultOK
<1>6. CASE pc[s] = "read" /\ p = prog[s] /\ status = StatusOf(prog[s]) /\ ReadOutput(s)
  <2>1. /\ UNCHANGED <<child, fds, orphans, prog>> /\ child[s] = "none"
        /\ srv' = srv \ {End(s, "out", "r")} /\ Conclude(s, p, status)
    BY <1>1, <1>6 DEF ReadOutput, WorkerOK
  <2>2. \A end \in srv' : ~(end[1] = s /\ end[2] = test[s] /\ Open(pc[s], end[3], end[4]))
    BY <1>1, <1>2, <1>6, <2>1, PipeParts DEF Open
  <2>3. p \in Programs /\ p \in GivesRight \cup {"wrong", "crash", "spin"}
    BY <1>1, <1>6, KindAssumption DEF WorkerOK, AllPrograms, GivesRight
  <2>4. /\ p \in GivesRight => status = "AC"
        /\ p = "wrong" => status = "WA"
        /\ p = "crash" => status = "RE"
        /\ p = "spin" => status = "TLE"
    BY <1>6 DEF StatusOf, GivesRight
  <2>5. status \in Statuses /\ ResultOK([prog |-> p, status |-> status])
    BY <2>3, <2>4 DEF Statuses, ResultOK, GivesRight
  <2>6. \A end \in Ends : Held(end)' => Held(end)
    BY <2>1 DEF Held
  <2> QED BY <1>1, <1>6, <2>1, <2>2, <2>3, <2>4, <2>5, <2>6 DEF TypesOK, Running
<1> QED BY <1>3, <1>4, <1>5, <1>6 DEF Ending

LEMMA EndingStep ==
    ASSUME Inv, NEW s \in Subs, NEW p, NEW status, Ending(s, p, status)
    PROVE  Inv'
<1>1. /\ pc[s] \in Running /\ Conclude(s, p, status) /\ prog' = prog
      /\ p \in Programs \cup {"none"} /\ status \in Statuses
      /\ ResultOK([prog |-> p, status |-> status])
      /\ child' \in [Subs -> {"none", "running", "zombie"}] /\ child'[s] = "none"
      /\ \A q \in Subs \ {s} : child'[q] = child[q]
      /\ fds' \in [Subs -> SUBSET Ends] /\ orphans' \subseteq SUBSET Ends
      /\ \A end \in Ends : Held(end)' => Held(end)
      /\ srv' \subseteq srv
      /\ \A end \in srv' : end[1] = s /\ end[2] = test[s] /\ Open(pc[s], end[3], end[4]) =>
            p = "none" /\ end[3] = "in"
  BY EndingParts
<1>2. /\ results' \in [Subs -> Seq(Results)] /\ pc' \in [Subs -> Places]
      /\ test' \in [Subs -> Nat] /\ dir' \in [Subs -> BOOLEAN]
      /\ excused' \in [Subs -> BOOLEAN] /\ age' \in [Subs -> 0..Limit]
      /\ verdict' \in [Subs -> Statuses \cup {"none"}]
      /\ \A q \in Subs \ {s} :
            /\ pc'[q] = pc[q] /\ test'[q] = test[q] /\ dir'[q] = dir[q]
            /\ age'[q] = age[q] /\ results'[q] = results[q]
            /\ verdict'[q] = verdict[q] /\ (excused[q] => excused'[q])
      /\ SubOK(s)'
      /\ DOMAIN results'[s] = DOMAIN results[s] \cup {test[s]}
      /\ \A i \in DOMAIN results[s] : results'[s][i] = results[s][i]
      /\ results'[s][test[s]].prog = p
      /\ (pc'[s] = "done" /\ test'[s] = test[s]) \/ (pc'[s] = "pipeIn" /\ test'[s] = test[s] + 1)
  BY <1>1, ConcludeSub
<1>3. Others(s) /\ TypesOK'
  BY <1>1, <1>2 DEF Others, TypesOK, Inv
<1>4. ASSUME NEW end \in srv', end[1] = s
      PROVE  EndOK(end)'
  <2>1. EndOK(end) /\ end \in srv
    BY <1>1 DEF Inv
  <2>2. CASE end[2] = test[s] /\ Open(pc[s], end[3], end[4])
    BY <1>1, <1>2, <1>4, <2>2 DEF EndOK
  <2>3. CASE end[2] \in DOMAIN results[s] /\ end[3] = "in" /\ results[s][end[2]].prog = "none"
    BY <1>2, <1>4, <2>3 DEF EndOK
  <2> QED BY <1>4, <2>1, <2>2, <2>3 DEF EndOK
<1>5. test'[s] = test[s] => pc'[s] = "done"
  <2>1. test[s] \in Nat
    BY TestsAssumption DEF Inv, TypesOK
  <2> QED BY <1>2, <2>1
<1> QED BY <1>1, <1>2, <1>3, <1>4, <1>5, StepFrame
-----------------------------------------------------------------------------
(* The clock.                                                               *)

\* A program that is at its end, or kept from it by another child, is excused.
LEMMA TickStep ==
    ASSUME Inv, Tick
    PROVE  Inv'
<1>1. TypesOK
  BY DEF Inv
<1>2. /\ age' = [s \in Subs |-> IF pc[s] = "poll" /\ age[s] < Limit THEN age[s] + 1 ELSE age[s]]
      /\ excused' = [s \in Subs |->
                       excused[s] \/ (pc[s] = "poll" /\ (child[s] = "zombie" \/ MayExit(s)))]
      /\ UNCHANGED <<pc, test, dir, srv, child, fds, orphans, prog, results, verdict>>
  BY DEF Tick
<1>3. \A s \in Subs : excused'[s] <=>
          excused[s] \/ (pc[s] = "poll" /\ (child[s] = "zombie" \/ MayExit(s)))
  BY <1>2, Zenon
<1>4. ASSUME NEW s \in Subs
      PROVE  /\ age'[s] = IF pc[s] = "poll" /\ age[s] < Limit THEN age[s] + 1 ELSE age[s]
             /\ age'[s] \in 0..Limit
  BY <1>1, <1>2, LimitAssumption DEF TypesOK
<1>5. TypesOK'
  <2>1. age' \in [Subs -> 0..Limit]
    BY <1>2, <1>4
  <2>2. excused' \in [Subs -> BOOLEAN]
    BY <1>1, <1>2, Zenon DEF TypesOK
  <2> QED BY <1>1, <1>2, <2>1, <2>2 DEF TypesOK
<1>6. ASSUME NEW s \in Subs
      PROVE  SubOK(s)'
  <2>1. WorkerOK(s) /\ ResultsOK(s) /\ VerdictOK(s)
    BY DEF Inv
  <2>2. ASSUME pc[s] = "poll", age'[s] > 0, prog[s] \in GivesRight
        PROVE  excused'[s]
    <3>1. CASE age[s] = Limit
      BY <1>3, <2>1, <2>2, <3>1, LimitAssumption DEF WorkerOK
    <3>2. CASE prog[s] # "reader" \/ Gone(End(s, "in", "w"))
      BY <1>3, <2>2, <3>2 DEF MayExit, GivesRight
    <3>3. CASE age[s] # Limit /\ ~Gone(End(s, "in", "w"))
      <4> DEFINE end == End(s, "in", "w")
      <4>1. end[1] = s /\ end[2] = test[s] /\ end[3] = "in" /\ end[4] = "w"
        BY DEF End
      <4>2. end \notin srv
        <5>1. Len(results[s]) = test[s] - 1 /\ test[s] \in Nat
              /\ DOMAIN results[s] = 1..Len(results[s])
          BY <1>1, <2>1, <2>2, TestsAssumption DEF WorkerOK, Running, TypesOK
        <5>2. end[2] \notin DOMAIN results[s]
          BY <4>1, <5>1
        <5> QED BY <2>2, <4>1, <5>2 DEF Inv, EndOK, Open
      <4>3. Held(end) /\ end \in Ends
        BY <1>1, <3>3, <4>2, PipeParts DEF Gone, Held, TypesOK, Pipe
      <4> QED BY <1>3, <2>2, <4>1, <4>3 DEF Inv, HeldOK
    <3> QED BY <2>2, <3>1, <3>2, <3>3
  <2>3. WorkerOK(s)'
    BY <1>2, <1>4, <2>1, <2>2 DEF WorkerOK
  <2> QED BY <1>2, <2>1, <2>3 DEF SubOK, ResultsOK, VerdictOK
<1>7. \A end \in srv' : EndOK(end)'
  BY <1>2 DEF Inv, EndOK
<1>8. \A end \in Ends : Held(end)' => HeldOK(end)'
  <2> SUFFICES ASSUME NEW end \in Ends, Held(end) PROVE HeldOK(end)'
    BY <1>2 DEF Held
  <2>1. HeldOK(end) /\ end[1] \in Subs
    BY <1>1 DEF Inv, Ends
  <2> QED BY <1>2, <1>3, <2>1 DEF HeldOK
<1> QED BY <1>5, <1>6, <1>7, <1>8 DEF Inv, SubOK
-----------------------------------------------------------------------------
LEMMA InvInit == Init => Inv
<1> SUFFICES ASSUME Init PROVE Inv
  OBVIOUS
<1>1. <<>> \in Seq(Results) /\ Len(<<>>) = 0 /\ 0 \in Nat /\ 0 \in 0..Limit
  BY TestsAssumption, LimitAssumption
<1>2. TypesOK /\ \A end \in Ends : ~Held(end)
  BY <1>1 DEF Init, TypesOK, Places, Compiling, Held
<1>3. ASSUME NEW s \in Subs
      PROVE  WorkerOK(s) /\ ResultsOK(s) /\ VerdictOK(s)
  <2>1. /\ pc[s] = "new" /\ test[s] = 0 /\ results[s] = <<>> /\ verdict[s] = "none"
        /\ child[s] = "none" /\ age[s] = 0 /\ 0 <= Tests[s]
    BY TestsAssumption DEF Init
  <2> QED BY <1>1, <2>1 DEF WorkerOK, ResultsOK, VerdictOK, Running
<1> QED BY <1>2, <1>3 DEF Init, Inv

LEMMA ServerSteps ==
    ASSUME Inv, NEW s \in Subs,
           \/ Prepare(s) \/ PipeErr(s) \/ CloseErr(s) \/ ReadErr(s) \/ PipeIn(s) \/ PipeOut(s)
           \/ CloseChildEnds(s) \/ Feed(s)
    PROVE  Inv'
<1> USE DEF Places, Compiling, Running
<1>1. CASE Prepare(s)
  BY <1>1, ServerStep DEF Prepare
<1>2. CASE PipeErr(s)
  BY <1>2, ServerStep DEF PipeErr
<1>3. CASE CloseErr(s)
  BY <1>3, ServerStep DEF CloseErr
<1>4. CASE ReadErr(s)
  BY <1>4, ServerStep DEF ReadErr
<1>5. CASE PipeIn(s)
  BY <1>5, ServerStep DEF PipeIn
<1>6. CASE PipeOut(s)
  BY <1>6, ServerStep DEF PipeOut
<1>7. CASE CloseChildEnds(s)
  BY <1>7, ServerStep DEF CloseChildEnds
<1>8. CASE Feed(s)
  BY <1>8, ServerStep DEF Feed
<1> QED BY <1>1, <1>2, <1>3, <1>4, <1>5, <1>6, <1>7, <1>8

LEMMA InvNext == Inv /\ [Next]_vars => Inv'
<1> SUFFICES ASSUME Inv, [Next]_vars PROVE Inv'
  OBVIOUS
<1>1. ASSUME NEW s \in Subs,
             \/ Prepare(s) \/ PipeErr(s) \/ CloseErr(s) \/ ReadErr(s) \/ PipeIn(s) \/ PipeOut(s)
             \/ CloseChildEnds(s) \/ Feed(s)
      PROVE  Inv'
  BY <1>1, ServerSteps
<1>2. ASSUME NEW s \in Subs, ForkGxx(s) \/ ForkRun(s)
      PROVE  Inv'
  BY <1>2, ForkStep
<1>3. ASSUME NEW s \in Subs, Reject(s) \/ PipeErrFails(s) \/ ForkGxxFails(s) \/ WaitGxx(s)
      PROVE  Inv'
  BY <1>3, AcceptedStep, CompileErrorStep
<1>4. ASSUME NEW s \in Subs, PipeFails(s) \/ ForkRunFails(s) \/ TimeOut(s) \/ ReadOutput(s)
      PROVE  Inv'
  BY <1>4, EndingIs, EndingStep
<1>5. ASSUME NEW s \in Subs, ChildExit(s) \/ PollExited(s)
      PROVE  Inv'
  BY <1>5, ChildExitStep, PollExitedStep
<1>6. CASE UNCHANGED vars
  <2>1. TypesOK'
    BY <1>6 DEF vars, Inv, TypesOK
  <2>2. \A s \in Subs : WorkerOK(s)' /\ ResultsOK(s)' /\ VerdictOK(s)'
    BY <1>6 DEF vars, Inv, WorkerOK, ResultsOK, VerdictOK
  <2>3. (\A end \in srv' : EndOK(end)') /\ (\A end \in Ends : Held(end)' => HeldOK(end)')
    BY <1>6 DEF vars, Inv, EndOK, HeldOK, Held
  <2> QED BY <2>1, <2>2, <2>3 DEF Inv
<1>7. CASE OrphanLetsGo
  <2>1. /\ UNCHANGED <<pc, test, dir, srv, child, fds, prog, age, excused, results, verdict>>
        /\ orphans' \subseteq orphans
    BY <1>7 DEF OrphanLetsGo
  <2>2. TypesOK'
    BY <2>1 DEF Inv, TypesOK
  <2>3. \A s \in Subs : WorkerOK(s)' /\ ResultsOK(s)' /\ VerdictOK(s)'
    BY <2>1 DEF Inv, WorkerOK, ResultsOK, VerdictOK
  <2>4. (\A end \in srv' : EndOK(end)') /\ (\A end \in Ends : Held(end)' => HeldOK(end)')
    BY <2>1 DEF Inv, EndOK, HeldOK, Held
  <2> QED BY <2>2, <2>3, <2>4 DEF Inv
<1> QED BY <1>1, <1>2, <1>3, <1>4, <1>5, <1>6, <1>7, TickStep
        DEF Next, Work, Compile, RunTestCase, ResourceError, Done

LEMMA Invariant == Spec => []Inv
BY InvInit, InvNext, PTL DEF Spec
-----------------------------------------------------------------------------
(* Theorems.                                                                *)

\* Every variable has its type: a worker never goes past the last test case, and
\* every status is one of the five.
THEOREM TypeCorrect == Spec => []TypeOK
<1>1. Inv => TypeOK
  BY TypeParts DEF Inv
<1> QED BY <1>1, Invariant, PTL

\* execute() answers "AC" only for programs that gave the right output on every test
\* case, and "WA" only when none crashed, was stopped or could not be run, however
\* many submissions share the descriptors and whatever fails.
THEOREM AcceptedWasEarned == Spec => []AcceptedIsEarned
<1>1. ASSUME Inv
      PROVE  AcceptedIsEarned
  BY <1>1 DEF Inv, VerdictOK, AcceptedIsEarned
<1> QED BY <1>1, Invariant, PTL

\* execute() leaves no directory, no process and, but for the input pipe of a test
\* case whose output pipe could not be made, no pipe end behind.
THEOREM LeavesNothing == Spec => []NothingLeftBehind
<1>1. ASSUME Inv
      PROVE  NothingLeftBehind
  <2>1. \A s \in Subs : pc[s] = "done" => ~dir[s] /\ child[s] = "none"
    BY <1>1 DEF Inv, WorkerOK
  <2>2. ASSUME NEW end \in srv, pc[end[1]] = "done" \/ test[end[1]] > end[2]
        PROVE  end[3] = "in" /\ results[end[1]][end[2]].prog = "none"
    <3>1. EndOK(end) /\ end \in Ends /\ end[2] \in Nat /\ end[1] \in Subs
      BY <1>1, TestsAssumption DEF Inv, TypesOK, Ends
    <3> QED BY <2>2, <3>1 DEF EndOK
  <2> QED BY <2>1, <2>2 DEF NothingLeftBehind
<1> QED BY <1>1, Invariant, PTL

\* A program that gives the right output is turned down only when it is excused: its
\* input was kept open by the child of another submission, or the machine was slow.
THEOREM RightIsHeard == Spec => RightIsAcceptedOrExcused
<1> DEFINE Fair(s) ==
        LET result == results'[s][Len(results'[s])]
        IN result.prog \in GivesRight => result.status = "AC" \/ excused[s]
<1>1. ASSUME Inv, [Next]_vars, NEW s \in Subs, results'[s] # results[s]
      PROVE  Fair(s)
  <2>1. ASSUME NEW q \in Subs, NEW p, NEW status, Ending(q, p, status)
        PROVE  Fair(s)
    <3>1. /\ Conclude(q, p, status)
          /\ p \in GivesRight => status = "AC" \/ excused[q]
          /\ results \in [Subs -> Seq(Results)]
          /\ p \in Programs \cup {"none"} /\ status \in Statuses
      BY <1>1, <2>1, EndingParts DEF Inv, TypesOK
    <3> DEFINE r == [prog |-> p, status |-> status]
    <3>2. results' = [results EXCEPT ![q] = Append(results[q], r)]
      BY <3>1 DEF Conclude
    <3>3. s = q /\ results'[s] = Append(results[s], r)
      BY <1>1, <3>1, <3>2
    <3>4. r \in Results
      BY <3>1 DEF Results
    <3>5. results'[s][Len(results'[s])] = r
      BY <3>1, <3>3, <3>4
    <3> QED BY <3>1, <3>3, <3>5
  <2>2. \/ results' = results
        \/ \E q \in Subs : PipeFails(q) \/ ForkRunFails(q) \/ TimeOut(q) \/ ReadOutput(q)
    BY <1>1 DEF Next, Work, Compile, RunTestCase, ResourceError, Done, vars, Reject, Prepare,
         PipeErr, PipeErrFails, ForkGxx, ForkGxxFails, CloseErr, ReadErr, WaitGxx, PipeIn,
         PipeOut, ForkRun, CloseChildEnds, Feed, PollExited, ChildExit, Tick, OrphanLetsGo
  <2> QED BY <1>1, <2>1, <2>2, EndingIs
<1>2. Inv /\ [Next]_vars => [\A s \in Subs : results'[s] # results[s] => Fair(s)]_vars
  BY <1>1
<1> QED BY <1>2, Invariant, PTL DEF Spec, RightIsAcceptedOrExcused
=============================================================================
