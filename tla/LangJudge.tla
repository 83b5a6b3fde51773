------------------------------ MODULE LangJudge -----------------------------
(***************************************************************************)
(* LangC::judge of lang.cpp and the file operations of Judge it calls: one *)
(* judge takes submissions one after the other through its work directory, *)
(* by way of shell commands whose failure is logged and otherwise ignored. *)
(* What launch() does in detail is in Launch, what compile() does in       *)
(* Compile; here each is one step with the outcomes they allow.  A judge   *)
(* is in one worker's hands (WorkDirsExclusive in JudgeManager), so nobody *)
(* else touches the directory.                                             *)
(***************************************************************************)
EXTENDS Naturals, Sequences

CONSTANTS Submissions,
          Compilable,   \* the submissions a compiler accepts
          MaxTests,     \* bound: the most test cases the problem may have
          Outputs,      \* what an output file may contain
          Expected,     \* what each test case's output file contains
          Prints,       \* what a program prints that is given a test case's
                        \* input, or none
          Absent,       \* no file, no submission
          MaxFailures   \* bound: how many shell commands may fail, and how
                        \* often NOJ may be started anew

ASSUME JudgingAssumption ==
    /\ Absent \notin Submissions \cup Nat
    /\ Compilable \subseteq Submissions
    /\ {MaxTests, MaxFailures} \subseteq Nat
    /\ Expected \in [1..MaxTests -> Outputs]
    /\ Prints \in [Submissions \X (1..MaxTests \cup {Absent}) -> Outputs]

VARIABLES
    pc,
    sbm,           \* the submission being judged
    prob,          \* how many test cases get_problem returns, 0 after a
                   \* query that failed
    i,             \* the test case of the loop
    res,           \* res.res_type
    flg_ac,
    sbm_results, sbm_res_type,
    dir,           \* the work directory: whose program, which test case's
                   \* input and what output are in its files
    ran,           \* history: program and input behind each of sbm_results
    failures,      \* history: the commands that failed, and restarts
    trouble,       \* history: whether the system failed this submission
    verdicts       \* history: each submission's final sbm_res_type

verdict == <<res, flg_ac, sbm_results, sbm_res_type>>
history == <<ran, failures, trouble, verdicts>>
vars    == <<pc, sbm, prob, i, verdict, dir, history>>

Files == {"code", "main.c", "main", "stdin.in", "stdout.out"}
Empty == [f \in Files |-> Absent]

\* The first start.  What an earlier NOJ left in the directory is Restart's.
Init ==
    /\ pc = "idle" /\ sbm = Absent /\ i = 1
    /\ prob \in 0..MaxTests
    /\ res = "Init" /\ flg_ac = TRUE
    /\ sbm_results = <<>> /\ sbm_res_type = "Init"
    /\ dir = Empty
    /\ ran = <<>> /\ failures = 0 /\ trouble = FALSE
    /\ verdicts = [s \in Submissions |-> "Init"]

Goto(from, to) == pc = from /\ pc' = to

\* A shell command does what it should to the directory, or fails.
Command(success) ==
    \/ dir' = success /\ UNCHANGED <<failures, trouble>>
    \/ /\ failures < MaxFailures
       /\ failures' = failures + 1 /\ trouble' = TRUE
       /\ UNCHANGED dir

With(f, content) == [dir EXCEPT ![f] = content]

-----------------------------------------------------------------------------
(* The submission and its program *)

\* JudgeTask::run gives the judge the next submission.
Start(s) ==
    /\ Goto("idle", "src")
    /\ verdicts[s] = "Init"
    /\ sbm' = s /\ i' = 1
    /\ res' = "Init" /\ flg_ac' = TRUE
    /\ sbm_results' = <<>> /\ sbm_res_type' = "Init"
    /\ ran' = <<>> /\ trouble' = FALSE
    /\ UNCHANGED <<prob, dir, failures, verdicts>>

\* copy_src.
CopySrc ==
    /\ Goto("src", "move")
    /\ Command(With("code", sbm))
    /\ UNCHANGED <<sbm, prob, i, verdict, ran, verdicts>>

\* The script moves code over main.c.  It does not look at mv's result, be it
\* that there is no code or that mv fails.
Moved == [dir EXCEPT !["main.c"] = dir["code"], !["code"] = Absent]

MoveCode ==
    /\ Goto("move", "compile")
    /\ IF dir["code"] # Absent THEN Command(Moved)
                               ELSE UNCHANGED <<dir, failures, trouble>>
    /\ UNCHANGED <<sbm, prob, i, verdict, ran, verdicts>>

\* Then it compiles main.c if there is one; the compiler may give up for other
\* reasons as well.
CompilePasses ==
    /\ Goto("compile", "input")
    /\ dir["main.c"] \in Compilable
    /\ dir' = With("main", dir["main.c"])
    /\ res' = "CompilePass" /\ sbm_res_type' = "CompilePass"
    /\ UNCHANGED <<sbm, prob, i, flg_ac, sbm_results, history>>

CompileFails ==
    /\ Goto("compile", "clear")
    /\ res' = "CompileError"
    /\ trouble' = (trouble \/ dir["main.c"] \in Compilable)
    /\ sbm_results' = <<"CompileError">> /\ sbm_res_type' = "CompileError"
    /\ UNCHANGED <<sbm, prob, i, flg_ac, dir, ran, failures, verdicts>>

\* No script, no pipe, no fork, or a child that ends before it runs the script:
\* the user is told CompileError whatever result is kept.
CompileCannotStart ==
    /\ Goto("move", "clear")
    /\ res' \in {"SystemError", "CompileError"} /\ trouble' = TRUE
    /\ sbm_results' = <<res'>> /\ sbm_res_type' = "CompileError"
    /\ UNCHANGED <<sbm, prob, i, flg_ac, dir, ran, failures, verdicts>>

-----------------------------------------------------------------------------
(* The loop over the test cases *)

CopyInput(wanted) ==
    /\ Goto("input", "launch")
    /\ i <= prob
    /\ Command(wanted)
    /\ UNCHANGED <<sbm, prob, i, verdict, ran, verdicts>>

\* Mutant: the input is copied for the first test case only.
CopyFirstInput == CopyInput(IF i = 1 THEN With("stdin.in", i) ELSE dir)

CopyTestcaseInput == CopyInput(With("stdin.in", i))

\* launch() runs main on stdin.in; opening stdout.out for writing empties it.
LaunchWith(type, output) ==
    /\ Goto("launch", IF type = "RunPass" THEN "check" ELSE "record")
    /\ res' = type
    /\ dir' = With("stdout.out", output)
    /\ ran' = Append(ran, <<dir["main"], dir["stdin.in"]>>)
    /\ UNCHANGED <<sbm, prob, i, flg_ac, sbm_results, sbm_res_type, failures, verdicts>>

Printed == Prints[<<dir["main"], dir["stdin.in"]>>]

RunPasses == LaunchWith("RunPass", Printed) /\ UNCHANGED trouble

\* Any unhappy end, with any part of an output.  A program that is right on a
\* test case ends well on it, unless the system fails it.
RunFails ==
    /\ \E part \in Outputs : LaunchWith("RuntimeError", part)
    /\ trouble' = (trouble \/ Printed = Expected[i])
LaunchCannotFork == LaunchWith("SystemError", dir["stdout.out"]) /\ trouble' = TRUE

\* diff with the expected output: equal, equal but for blanks and case, or not;
\* or diff fails, or is_special_judge, which nobody sets, says there is a
\* special judge.
CheckedAs(type) ==
    /\ Goto("check", "record")
    /\ res' = type
    /\ UNCHANGED <<sbm, prob, i, flg_ac, sbm_results, sbm_res_type, dir, ran,
                   failures, verdicts>>

Matches == dir["stdout.out"] = Expected[i]

Check ==
    \/ CheckedAs("CorrectAnswer") /\ Matches /\ UNCHANGED trouble
    \/ /\ CheckedAs("PresentationError") \/ CheckedAs("WrongAnswer")
       /\ ~Matches /\ UNCHANGED trouble
    \/ CheckedAs("SystemError") /\ trouble' = TRUE

\* The result is kept, and a wrong output moved out of the directory.
Kept == {"WrongAnswer", "PresentationError"}

RecordGiven(good) ==
    /\ Goto("record", "input")
    /\ flg_ac' = (flg_ac /\ res \in good)
    /\ IF res \in Kept THEN Command(With("stdout.out", Absent))
                       ELSE UNCHANGED <<dir, failures, trouble>>
    /\ sbm_results' = Append(sbm_results, res)
    /\ i' = i + 1
    /\ UNCHANGED <<sbm, prob, res, sbm_res_type, ran, verdicts>>

\* Mutant: only a wrong output is held against the submission.
RecordLeniently == RecordGiven({"CorrectAnswer", "RuntimeError", "SystemError"})

Record == RecordGiven({"CorrectAnswer"})

\* After the last test case.
Judged ==
    /\ Goto("input", "clear")
    /\ i > prob
    /\ sbm_res_type' = IF flg_ac THEN "Accept" ELSE "NotAccept"
    /\ UNCHANGED <<sbm, prob, i, res, flg_ac, sbm_results, dir, history>>

\* clear_work_dir, and the worker gives the judge back.
ClearThen(cleared) ==
    /\ Goto("clear", "idle")
    /\ Command(cleared)
    /\ verdicts' = [verdicts EXCEPT ![sbm] = sbm_res_type]
    /\ UNCHANGED <<sbm, prob, i, verdict, ran>>

\* Mutant: only the program is removed.
ClearProgram == ClearThen(With("main", Absent))

ClearWorkDir == ClearThen(Empty)

\* NOJ ends at any point, and init_work_dir of the next one keeps a directory
\* that is there, with all that is in it.  A submission without a verdict may be
\* fetched again.
Restart ==
    /\ failures < MaxFailures /\ failures' = failures + 1
    /\ pc' = "idle" /\ sbm' = Absent /\ i' = 1
    /\ res' = "Init" /\ flg_ac' = TRUE
    /\ sbm_results' = <<>> /\ sbm_res_type' = "Init"
    /\ ran' = <<>> /\ trouble' = FALSE
    /\ UNCHANGED <<prob, dir, verdicts>>

Next ==
    \/ \E s \in Submissions : Start(s)
    \/ CopySrc \/ MoveCode \/ CompilePasses \/ CompileFails \/ CompileCannotStart
    \/ CopyTestcaseInput \/ RunPasses \/ RunFails \/ LaunchCannotFork
    \/ Check \/ Record \/ Judged \/ ClearWorkDir \/ Restart

Spec == Init /\ [][Next]_vars

-----------------------------------------------------------------------------
(* Properties *)

\* The shape of judge()'s locals and of the work directory.
TypeOK ==
    /\ pc \in {"idle", "src", "move", "compile", "input", "launch", "check", "record", "clear"}
    /\ sbm \in Submissions \cup {Absent}
    /\ prob \in 0..MaxTests /\ i \in 1..(prob + 1)
    /\ flg_ac \in BOOLEAN
    /\ \A k \in 1..Len(sbm_results) :
          sbm_results[k] \in {"CompileError", "SystemError", "RuntimeError",
                              "CorrectAnswer"} \cup Kept
    /\ sbm_res_type \in {"Init", "CompileError", "CompilePass", "Accept", "NotAccept"}
    /\ \A f \in {"code", "main.c", "main"} : dir[f] \in Submissions \cup {Absent}
    /\ dir["stdin.in"] \in 1..prob \cup {Absent}
    /\ failures \in 0..MaxFailures /\ trouble \in BOOLEAN

\* One command that fails, or one NOJ that ends in the middle, never gets a
\* submission judged by another one's program: it takes a directory that was not
\* cleared and a source that was not copied or moved.
RunsOwnProgram == failures <= 1 => \A k \in 1..Len(ran) : ran[k][1] = sbm

\* A submission is accepted only if what was run, once for each test case, printed
\* what that test case expects.  If nothing failed meanwhile it was its own program
\* and the test case's own input; otherwise it may be right by accident, with the
\* input of another test case, or none, that happens to lead to the same output.
AcceptIsEarned ==
    sbm_res_type = "Accept" =>
        /\ Len(ran) = prob
        /\ \A k \in 1..prob :
              /\ Prints[ran[k]] = Expected[k]
              /\ ~trouble => ran[k] = <<sbm, k>>

\* A submission that compiles and is right on every test case is accepted,
\* unless trouble: a command failed, its program could not be compiled or run
\* through, or check() could not compare, be it for diff's sake or because
\* is_special_judge is not false.
RightIsAccepted ==
    /\ pc = "clear"
    /\ sbm \in Compilable /\ \A k \in 1..prob : Prints[<<sbm, k>>] = Expected[k]
    /\ ~trouble
    => sbm_res_type = "Accept"
=============================================================================
