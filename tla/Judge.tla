------------------------------- MODULE Judge --------------------------------
(***************************************************************************)
(* The executor (src/service/executor_service.cc): execute() compiles a    *)
(* submission with a g++ child and runs it once per test case in a child   *)
(* of its own, talking to the children through pipes.                      *)
(*                                                                         *)
(* Worker threads of the HTTP server call execute() concurrently, in one   *)
(* process with one table of file descriptors.  fork() copies the whole    *)
(* table and the pipes are made without O_CLOEXEC, so a child also holds   *)
(* the ends of the pipes of other submissions that were open at that       *)
(* moment, until it exits.  A pipe gives EOF when nobody holds its write   *)
(* end.  A program may fork too: the worker waits for the program, not for *)
(* a process it leaves, which keeps what it inherited as long as it likes. *)
(*                                                                         *)
(* A program is abstracted to how it ends; output that fits a pipe and     *)
(* input (a TEXT column, smaller than a pipe) never block a writer.        *)
(***************************************************************************)
EXTENDS Naturals, Sequences

CONSTANTS
    Subs,       \* the calls of execute(), one worker thread each
    Tests,      \* Tests[s]: how many test cases the problem has that s is for
    Limit,      \* kDefaultTimeoutSec, in ticks of the clock
    Builds,     \* how g++ may take a submission
    Programs    \* how a program may behave on a test case

\* g++ accepts the program, rejects it, or rejects it with more messages than
\* readAll() takes (kMaxOutputBytes).
AllBuilds == {"accepts", "rejects", "floods"}

\* A program ends by itself with the right output, does so once it has read its
\* input to the end, ends with other output, fails, burns CPU for ever, or neither
\* ends nor burns CPU (it sleeps, or blocks on an output larger than a pipe).  A
\* "parent" ends with the right output and leaves a process of its own behind.
AllPrograms == {"right", "reader", "parent", "wrong", "crash", "spin", "stuck"}
GivesRight  == {"right", "reader", "parent"}

ASSUME TestsAssumption == Tests \in [Subs -> Nat \ {0}]
ASSUME LimitAssumption == Limit \in Nat \ {0}
ASSUME KindAssumption  == Builds \subseteq AllBuilds /\ Programs \subseteq AllPrograms

VARIABLES
    pc,       \* pc[s]: where the worker of s is in execute()
    test,     \* test[s]: the test case s is at, 0 while it compiles
    dir,      \* dir[s]: the temporary directory of s exists
    srv,      \* the pipe ends the server has open
    child,    \* child[s]: the process s forked last
    fds,      \* fds[s]: the pipe ends the child of s has open
    orphans,  \* the processes left by programs, each the set of pipe ends it has open
    prog,     \* prog[s]: how the child of s behaves
    age,      \* age[s]: ticks since s began to poll its child
    excused,  \* excused[s]: see below
    results,  \* results[s]: the program and the status of each test case so far
    verdict   \* verdict[s]: the status execute() returned

\* excused is history, which no step reads: what may fail the test case s is at
\* without the program's fault.  Another child was forked while the write end of
\* the program's input was open, and got it; or the clock ticked although the
\* program could have ended, or had ended, on a machine that is too slow.

vars == <<pc, test, dir, srv, child, fds, orphans, prog, age, excused, results, verdict>>

End(s, kind, side) == <<s, test[s], kind, side>>
Pipe(s, kind) == {End(s, kind, "r"), End(s, kind, "w")}

\* Nobody has this end open any more.
Gone(end) == end \notin srv \cup UNION orphans /\ \A q \in Subs : end \notin fds[q]

Statuses == {"AC", "WA", "TLE", "RE", "CE"}
-----------------------------------------------------------------------------
TypeOK ==
    LET Ends == Subs \X Nat \X {"err", "in", "out"} \X {"r", "w"}
    IN /\ pc \in [Subs -> {"new", "pipeErr", "forkGxx", "closeErr", "readErr", "waitGxx",
                           "pipeIn", "pipeOut", "fork", "close", "feed", "poll", "read",
                           "done"}]
       /\ test \in [Subs -> Nat]
       /\ \A s \in Subs : test[s] <= Tests[s] /\ Len(results[s]) <= Tests[s]
       /\ dir \in [Subs -> BOOLEAN]
       /\ srv \subseteq Ends
       /\ child \in [Subs -> {"none", "running", "zombie"}]
       /\ fds \in [Subs -> SUBSET Ends]
       /\ orphans \subseteq SUBSET Ends
       /\ prog \in [Subs -> Builds \cup Programs \cup {"none"}]
       /\ age \in [Subs -> 0..Limit]
       /\ excused \in [Subs -> BOOLEAN]
       /\ results \in [Subs -> Seq([prog : Programs \cup {"none"}, status : Statuses])]
       /\ verdict \in [Subs -> Statuses \cup {"none"}]

Init ==
    /\ pc = [s \in Subs |-> "new"]
    /\ test = [s \in Subs |-> 0]
    /\ dir = [s \in Subs |-> FALSE]
    /\ srv = {}
    /\ child = [s \in Subs |-> "none"]
    /\ fds = [s \in Subs |-> {}]
    /\ orphans = {}
    /\ prog = [s \in Subs |-> "none"]
    /\ age = [s \in Subs |-> 0]
    /\ excused = [s \in Subs |-> FALSE]
    /\ results = [s \in Subs |-> <<>>]
    /\ verdict = [s \in Subs |-> "none"]
-----------------------------------------------------------------------------
(* Steps the phases share.                                                 *)

At(s, here, next) == pc[s] = here /\ pc' = [pc EXCEPT ![s] = next]

\* fork(): the child has every end the server has, but those it closes at once.
Fork(s, closed, kinds) ==
    /\ UNCHANGED orphans
    /\ child' = [child EXCEPT ![s] = "running"]
    /\ fds' = [fds EXCEPT ![s] = srv \ closed]
    /\ \E k \in kinds : prog' = [prog EXCEPT ![s] = k]
    /\ excused' = [q \in Subs |-> excused[q] \/ (q # s /\ End(q, "in", "w") \in srv)]

\* execute() returns, having removed the files and the directory.
Finish(s, status) ==
    /\ pc' = [pc EXCEPT ![s] = "done"]
    /\ dir' = [dir EXCEPT ![s] = FALSE]
    /\ verdict' = [verdict EXCEPT ![s] = status]

\* The child of s is gone, or is killed; what it forked is not.
Dies(s) ==
    /\ fds' = [fds EXCEPT ![s] = {}]
    /\ orphans' = IF prog[s] = "parent" THEN orphans \cup {fds[s]} ELSE orphans

\* A child ends by itself.
MayExit(s) ==
    \/ prog[s] \in {"accepts", "rejects", "right", "parent", "wrong", "crash"}
    \/ prog[s] = "reader" /\ Gone(End(s, "in", "w"))
    \/ prog[s] = "floods" /\ Gone(End(s, "err", "r"))
    \/ prog[s] = "spin" /\ age[s] = Limit               \* SIGXCPU

ChildExit(s) ==
    /\ child[s] = "running"
    /\ MayExit(s)
    /\ child' = [child EXCEPT ![s] = "zombie"]
    /\ Dies(s)
    /\ UNCHANGED <<pc, test, dir, srv, prog, age, excused, results, verdict>>
-----------------------------------------------------------------------------
(* execute() up to the test cases, and compile().                          *)

\* No such problem, no test cases, no temporary directory, or no source file in
\* it: "CE" without a child, and without a directory left.
Reject(s) ==
    /\ pc[s] = "new"
    /\ Finish(s, "CE")
    /\ UNCHANGED <<test, srv, child, fds, orphans, prog, age, excused, results>>

Prepare(s) ==
    /\ At(s, "new", "pipeErr")
    /\ dir' = [dir EXCEPT ![s] = TRUE]
    /\ UNCHANGED <<test, srv, child, fds, orphans, prog, age, excused, results, verdict>>

PipeErr(s) ==
    /\ At(s, "pipeErr", "forkGxx")
    /\ srv' = srv \cup Pipe(s, "err")
    /\ UNCHANGED <<test, dir, child, fds, orphans, prog, age, excused, results, verdict>>

PipeErrFails(s) ==
    /\ pc[s] = "pipeErr"
    /\ Finish(s, "CE")
    /\ UNCHANGED <<test, srv, child, fds, orphans, prog, age, excused, results>>

ForkGxx(s) ==
    /\ At(s, "forkGxx", "closeErr")
    /\ Fork(s, {End(s, "err", "r")}, Builds)
    /\ UNCHANGED <<test, dir, srv, age, results, verdict>>

ForkGxxFails(s) ==
    /\ pc[s] = "forkGxx"
    /\ srv' = srv \ Pipe(s, "err")
    /\ Finish(s, "CE")
    /\ UNCHANGED <<test, child, fds, orphans, prog, age, excused, results>>

CloseErr(s) ==
    /\ At(s, "closeErr", "readErr")
    /\ srv' = srv \ {End(s, "err", "w")}
    /\ UNCHANGED <<test, dir, child, fds, orphans, prog, age, excused, results, verdict>>

\* readAll() returns at EOF, or once it has more than kMaxOutputBytes.
ReadErr(s) ==
    /\ At(s, "readErr", "waitGxx")
    /\ prog[s] = "floods" \/ Gone(End(s, "err", "w"))
    /\ srv' = srv \ {End(s, "err", "r")}
    /\ UNCHANGED <<test, dir, child, fds, orphans, prog, age, excused, results, verdict>>

\* waitpid() without a time limit, then the first test case or "CE".
WaitGxx(s) ==
    /\ pc[s] = "waitGxx"
    /\ child[s] = "zombie"
    /\ child' = [child EXCEPT ![s] = "none"]
    /\ \/ /\ prog[s] = "accepts"
          /\ pc' = [pc EXCEPT ![s] = "pipeIn"]
          /\ test' = [test EXCEPT ![s] = 1]
          /\ UNCHANGED <<dir, verdict>>
       \/ /\ prog[s] # "accepts"
          /\ Finish(s, "CE")
          /\ UNCHANGED test
    /\ UNCHANGED <<srv, fds, orphans, prog, age, excused, results>>

Compile(s) == PipeErr(s) \/ ForkGxx(s) \/ CloseErr(s) \/ ReadErr(s) \/ WaitGxx(s)
-----------------------------------------------------------------------------
(* runTestCase() and the loop of execute() around it.                      *)

\* Mutant: a wrong answer on any test case decides, whatever else went wrong, and
\* a result that did not pass is forgotten otherwise.
OverallOfLast(statuses) ==
    IF \E i \in DOMAIN statuses : statuses[i] = "WA" THEN "WA"
    ELSE statuses[Len(statuses)]

\* "AC" when every test case passed, else the first failure that is not a wrong
\* answer, else "WA".
Overall(statuses) ==
    LET failures == {i \in DOMAIN statuses : statuses[i] \in {"CE", "RE", "TLE"}}
    IN IF \A i \in DOMAIN statuses : statuses[i] = "AC" THEN "AC"
       ELSE IF failures # {} THEN statuses[CHOOSE i \in failures : \A j \in failures : i <= j]
       ELSE "WA"

\* Mutant: the loop runs once too often.
PastLastTest(s) == test[s] > Tests[s]

LastTest(s) == test[s] = Tests[s]

\* The next test case, or the end of execute().
Conclude(s, p, status) ==
    LET done == Append(results[s], [prog |-> p, status |-> status])
    IN /\ results' = [results EXCEPT ![s] = done]
       /\ excused' = [excused EXCEPT ![s] = FALSE]
       /\ age' = [age EXCEPT ![s] = 0]
       /\ \/ /\ ~LastTest(s)
             /\ pc' = [pc EXCEPT ![s] = "pipeIn"]
             /\ test' = [test EXCEPT ![s] = @ + 1]
             /\ UNCHANGED <<dir, verdict>>
          \/ /\ LastTest(s)
             /\ Finish(s, Overall([i \in DOMAIN done |-> done[i].status]))
             /\ UNCHANGED test

PipeIn(s) ==
    /\ At(s, "pipeIn", "pipeOut")
    /\ srv' = srv \cup Pipe(s, "in")
    /\ UNCHANGED <<test, dir, child, fds, orphans, prog, age, excused, results, verdict>>

PipeOut(s) ==
    /\ At(s, "pipeOut", "fork")
    /\ srv' = srv \cup Pipe(s, "out")
    /\ UNCHANGED <<test, dir, child, fds, orphans, prog, age, excused, results, verdict>>

\* "Failed to create pipes": when it is the second one, the first stays open.
PipeFails(s) ==
    /\ pc[s] \in {"pipeIn", "pipeOut"}
    /\ Conclude(s, "none", "RE")
    /\ UNCHANGED <<srv, child, fds, orphans, prog>>

ForkRun(s) ==
    /\ At(s, "fork", "close")
    /\ Fork(s, {End(s, "in", "w"), End(s, "out", "r")}, Programs)
    /\ UNCHANGED <<test, dir, srv, age, results, verdict>>

\* Mutant: the pipes stay open when fork() fails.
ForkRunFailsOpen(s) ==
    /\ pc[s] = "fork"
    /\ Conclude(s, "none", "RE")
    /\ UNCHANGED <<srv, child, fds, orphans, prog>>

ForkRunFails(s) ==
    /\ pc[s] = "fork"
    /\ srv' = srv \ (Pipe(s, "in") \cup Pipe(s, "out"))
    /\ Conclude(s, "none", "RE")
    /\ UNCHANGED <<child, fds, orphans, prog>>

CloseChildEnds(s) ==
    /\ At(s, "close", "feed")
    /\ srv' = srv \ {End(s, "in", "r"), End(s, "out", "w")}
    /\ UNCHANGED <<test, dir, child, fds, orphans, prog, age, excused, results, verdict>>

\* Mutant: the input is written but its pipe is not closed.
FeedOnly(s) ==
    /\ At(s, "feed", "poll")
    /\ UNCHANGED <<test, dir, srv, child, fds, orphans, prog, age, excused, results, verdict>>

\* The input is written, its pipe closed and the clock of the time limit read.
Feed(s) ==
    /\ At(s, "feed", "poll")
    /\ srv' = srv \ {End(s, "in", "w")}
    /\ UNCHANGED <<test, dir, child, fds, orphans, prog, age, excused, results, verdict>>

\* waitpid(WNOHANG) finds that the child has exited.  The branch w < 0 (kill, "RE")
\* has no step here, for it cannot be taken: the child is one of the server, only this
\* worker waits for it, it is waited for once, nothing ignores SIGCHLD, and WNOHANG is
\* not interrupted.
PollExited(s) ==
    /\ At(s, "poll", "read")
    /\ child[s] = "zombie"
    /\ child' = [child EXCEPT ![s] = "none"]
    /\ UNCHANGED <<test, dir, srv, fds, orphans, prog, age, excused, results, verdict>>

\* Mutant: the time limit is not looked at.
NeverTimeOut(s) == FALSE

\* The limit is over at a poll that found the child running.  It may have exited
\* since: kill() and waitpid() work on a zombie too, and the status is "TLE".
TimeOut(s) ==
    /\ pc[s] = "poll"
    /\ child[s] \in {"running", "zombie"}
    /\ age[s] = Limit
    /\ child' = [child EXCEPT ![s] = "none"]
    /\ Dies(s)
    /\ srv' = srv \ {End(s, "out", "r")}
    /\ Conclude(s, prog[s], "TLE")
    /\ UNCHANGED prog

StatusOf(p) ==
    CASE p \in GivesRight -> "AC"
      [] p = "wrong" -> "WA"
      [] p = "crash" -> "RE"
      [] p = "spin"  -> "TLE"

\* readAll() to EOF on the output of a child that has exited, then the status.  No
\* time limit is looked at any more: the read ends when the last process does that
\* has the output open.
ReadOutput(s) ==
    /\ pc[s] = "read"
    /\ Gone(End(s, "out", "w"))
    /\ srv' = srv \ {End(s, "out", "r")}
    /\ Conclude(s, prog[s], StatusOf(prog[s]))
    /\ UNCHANGED <<child, fds, orphans, prog>>

RunTestCase(s) ==
    PipeIn(s) \/ PipeOut(s) \/ ForkRun(s) \/ CloseChildEnds(s) \/ Feed(s)
        \/ PollExited(s) \/ ReadOutput(s)
-----------------------------------------------------------------------------
\* One tick of the clock; it matters to the workers that poll.
Tick ==
    /\ \E s \in Subs : pc[s] = "poll" /\ age[s] < Limit
    /\ age' = [s \in Subs |-> IF pc[s] = "poll" /\ age[s] < Limit THEN age[s] + 1
                              ELSE age[s]]
    /\ excused' = [s \in Subs |->
                     excused[s] \/ (pc[s] = "poll" /\ (child[s] = "zombie" \/ MayExit(s)))]
    /\ UNCHANGED <<pc, test, dir, srv, child, fds, orphans, prog, results, verdict>>

\* A process that a program left ends.
OrphanLetsGo ==
    /\ \E o \in orphans : orphans' = orphans \ {o}
    /\ UNCHANGED <<pc, test, dir, srv, child, fds, prog, age, excused, results, verdict>>

ResourceError(s) ==
    PipeErrFails(s) \/ ForkGxxFails(s) \/ PipeFails(s) \/ ForkRunFails(s)

Work(s) == Compile(s) \/ RunTestCase(s) \/ ChildExit(s)

Done == (\A s \in Subs : pc[s] = "done") /\ UNCHANGED vars

Next ==
    \/ \E s \in Subs : Reject(s) \/ Prepare(s) \/ Work(s) \/ TimeOut(s) \/ ResourceError(s)
    \/ Tick
    \/ OrphanLetsGo
    \/ Done

\* Each worker thread is scheduled, a child that can end does, and time passes.  A
\* process that a program left need not end.
Fairness ==
    /\ WF_vars(Tick)
    /\ \A s \in Subs :
        /\ WF_vars(Prepare(s))
        /\ WF_vars(Compile(s))
        /\ WF_vars(RunTestCase(s))
        /\ WF_vars(ChildExit(s))
        /\ WF_vars(TimeOut(s))

Spec == Init /\ [][Next]_vars /\ Fairness

\* The limit is long: the clock ticks only when everything else has come to rest,
\* and pipe() and fork() succeed.  What goes wrong here is not a matter of load.
TimelyNext ==
    \/ \E s \in Subs : Prepare(s) \/ Work(s) \/ TimeOut(s)
    \/ Tick /\ ~ENABLED (\E s \in Subs : Work(s))
    \/ Done

TimelySpec == Init /\ [][TimelyNext]_vars
-----------------------------------------------------------------------------
(* Properties.                                                             *)

\* "AC" is given only when the program of every test case gave the right output,
\* whatever other submissions, the clock and failing system calls do; and a failed
\* submission is not called wrong when it crashed or was stopped.
AcceptedIsEarned ==
    \A s \in Subs : verdict[s] # "none" =>
        /\ verdict[s] = "AC" =>
            /\ Len(results[s]) = Tests[s]
            /\ \A i \in 1..Tests[s] : results[s][i].prog \in GivesRight
        /\ verdict[s] = "WA" =>
            \A i \in DOMAIN results[s] : results[s][i].prog \notin {"none", "crash", "spin", "stuck"}

\* execute() leaves nothing behind: no directory, no child it did not wait for, and no
\* pipe end open in the server, but for the input pipe of a test case whose output
\* pipe could not be made.
NothingLeftBehind ==
    /\ \A s \in Subs : pc[s] = "done" => ~dir[s] /\ child[s] = "none"
    /\ \A end \in srv : pc[end[1]] = "done" \/ test[end[1]] > end[2] =>
        end[3] = "in" /\ results[end[1]][end[2]].prog = "none"

\* Somebody who may never let go has this end open: a process that a program left,
\* or a g++ that waits for room in the pipe of its messages.
Kept(end) ==
    \/ end \in UNION orphans
    \/ \E q \in Subs : prog[q] = "floods" /\ child[q] = "running" /\ end \in fds[q]

\* The waits of execute() that have no time limit: readAll() on the messages of g++
\* and waitpid() for it, and readAll() on the output of a program that has exited.
Blocked(s) ==
    \/ pc[s] = "readErr" /\ prog[s] # "floods" /\ Kept(End(s, "err", "w"))
    \/ pc[s] = "waitGxx" /\ prog[s] = "floods" /\ Kept(End(s, "err", "r"))
    \/ pc[s] = "read" /\ Kept(End(s, "out", "w"))

\* Every call of execute() returns, with these exceptions and no others: a pipe it
\* reads, or that its g++ writes, is kept open for ever by a process that a program
\* left, or by a g++ that itself waits for ever.  That children keep each other's
\* pipes open does not keep a call from returning by itself.
EveryVerdict ==
    \A s \in Subs : (pc[s] # "new" ~> pc[s] = "done") \/ <>[]Blocked(s)

\* A program that gives the right output is accepted, whatever fails elsewhere,
\* unless it is excused: nothing else in the code can turn it down.
RightIsAcceptedOrExcused ==
    [][\A s \in Subs : results'[s] # results[s] =>
          LET result == results'[s][Len(results'[s])]
          IN result.prog \in GivesRight => result.status = "AC" \/ excused[s]]_vars

\* A program is judged by what it does alone: the right output is "AC".
RightIsAccepted ==
    \A s \in Subs : \A i \in DOMAIN results[s] :
        results[s][i].prog \in GivesRight => results[s][i].status = "AC"
=============================================================================
