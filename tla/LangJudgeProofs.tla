-------------------------- MODULE LangJudgeProofs --------------------------
(***************************************************************************)
(* Theorems about LangJudge: for any submissions and test cases, and any   *)
(* number of shell commands that fail and of restarts, whose program a     *)
(* judge runs and what a verdict is worth.  Over the common invariants     *)
(* Control and InPlace there is one for each of the three questions:       *)
(* Sources, Earnings and Rights.                                           *)
(***************************************************************************)
EXTENDS LangJudge, TLAPS

Programs == Submissions \cup {Absent}
Inputs   == (1..prob) \cup {Absent}
Runs     == Programs \X Inputs

Results == {"CompileError", "SystemError", "RuntimeError", "CorrectAnswer",
            "WrongAnswer", "PresentationError"}

\* Where judge() is, and how far its loop has come.
Locals ==
    /\ pc \in {"idle", "src", "move", "compile", "input", "launch", "check", "record",
               "clear"}
    /\ sbm \in Programs /\ (pc # "idle" => sbm \in Submissions)
    /\ prob \in 0..MaxTests /\ i \in 1..(prob + 1)
    /\ pc \in {"src", "move", "compile"} => i = 1 /\ flg_ac = TRUE
    /\ pc \in {"launch", "check", "record"} => i <= prob
    /\ pc = "record" => res \in Results
    /\ flg_ac \in BOOLEAN
    /\ sbm_res_type \in {"Init", "CompileError", "CompilePass", "Accept", "NotAccept"}
    /\ failures \in 0..MaxFailures /\ trouble \in BOOLEAN

\* What it has recorded.
Recorded ==
    /\ sbm_results \in Seq(Results)
    /\ ran \in Seq(Runs)
    /\ pc \in {"src", "move", "compile"} => ran = <<>>
    /\ pc \in {"input", "launch"} => Len(ran) = i - 1
    /\ pc \in {"check", "record"} => Len(ran) = i

\* What is in the work directory.
Directory ==
    /\ dir \in [Files -> Programs \cup Inputs \cup Outputs]
    /\ {dir["code"], dir["main.c"], dir["main"]} \subseteq Programs
    /\ pc \in {"input", "launch", "check", "record"} => dir["main"] \in Submissions
    /\ dir["stdin.in"] \in Inputs
    /\ dir["stdout.out"] \in Outputs \cup {Absent}

Control == Locals /\ Recorded /\ Directory

-----------------------------------------------------------------------------
(* The types *)

LEMMA ControlImpliesTypeOK == Control => TypeOK
  BY DEF Control, Locals, Recorded, Directory, TypeOK, Results, Kept, Programs, Inputs

LEMMA ControlInit == Init => Control
<1> SUFFICES ASSUME Init PROVE Control
  OBVIOUS
<1>1. Locals
  <2>1. prob \in 0..MaxTests /\ MaxTests \in Nat /\ 1 \in 1..(prob + 1)
    BY JudgingAssumption DEF Init
  <2>2. failures \in 0..MaxFailures
    BY JudgingAssumption DEF Init
  <2> QED BY <2>1, <2>2 DEF Init, Locals, Programs
<1>2. Recorded
  BY DEF Init, Recorded
<1>3. Directory
  BY DEF Init, Directory, Empty, Files, Programs, Inputs
<1> QED BY <1>1, <1>2, <1>3 DEF Control

\* A shell command leaves the directory as it is or as the command makes it.
LEMMA CommandOutcome ==
  ASSUME NEW success, Locals, Command(success)
  PROVE  /\ dir' \in {dir, success}
         /\ failures' \in 0..MaxFailures /\ trouble' \in BOOLEAN
         /\ \/ dir' = success /\ failures' = failures /\ trouble' = trouble
            \/ dir' = dir /\ failures' = failures + 1 /\ trouble' = TRUE
<1>1. failures \in 0..MaxFailures /\ trouble \in BOOLEAN /\ MaxFailures \in Nat
  BY JudgingAssumption DEF Locals
<1>2. CASE dir' = success /\ UNCHANGED <<failures, trouble>>
  BY <1>1, <1>2
<1>3. CASE /\ failures < MaxFailures
           /\ failures' = failures + 1 /\ trouble' = TRUE
           /\ UNCHANGED dir
  BY <1>1, <1>3
<1> QED BY <1>2, <1>3 DEF Command

LEMMA LocalsStep == Locals /\ [Next]_vars => Locals'
<1> SUFFICES ASSUME Locals, [Next]_vars PROVE Locals'
  OBVIOUS
<1> USE JudgingAssumption DEF Locals, Goto, verdict, history, Programs
<1>1. CASE UNCHANGED vars
  BY <1>1 DEF vars
<1>2. ASSUME NEW s \in Submissions, Start(s)
      PROVE  Locals'
  <2>1. 1 \in 1..(prob + 1)
    OBVIOUS
  <2> QED BY <1>2, <2>1 DEF Start
<1>3. CASE CopySrc \/ MoveCode
  BY <1>3, CommandOutcome DEF CopySrc, MoveCode
<1>4. CASE CompilePasses
  BY <1>4 DEF CompilePasses
<1>5. CASE CompileFails
  BY <1>5 DEF CompileFails
<1>6. CASE CompileCannotStart
  BY <1>6 DEF CompileCannotStart
<1>7. CASE CopyTestcaseInput
  BY <1>7, CommandOutcome DEF CopyTestcaseInput, CopyInput
<1>8. CASE RunPasses \/ RunFails \/ LaunchCannotFork
  BY <1>8 DEF RunPasses, RunFails, LaunchCannotFork, LaunchWith, Results
<1>9. CASE Check
  BY <1>9 DEF Check, CheckedAs, Results
<1>10. CASE Record
  <2>1. failures' \in 0..MaxFailures /\ trouble' \in BOOLEAN
    BY <1>10, CommandOutcome DEF Record, RecordGiven
  <2> QED BY <1>10, <2>1 DEF Record, RecordGiven
<1>11. CASE Judged
  BY <1>11 DEF Judged
<1>12. CASE ClearWorkDir
  BY <1>12, CommandOutcome DEF ClearWorkDir, ClearThen
<1>13. CASE Restart
  <2>1. 1 \in 1..(prob + 1) /\ failures + 1 \in 0..MaxFailures
    BY <1>13 DEF Restart
  <2> QED BY <1>13, <2>1 DEF Restart
<1> QED BY <1>1, <1>2, <1>3, <1>4, <1>5, <1>6, <1>7, <1>8, <1>9, <1>10, <1>11, <1>12,
           <1>13
        DEF Next

\* The number of test cases is the problem's.
LEMMA ProbStays == [Next]_vars => prob' = prob
  BY DEF Next, vars, Start, CopySrc, MoveCode, CompilePasses, CompileFails,
      CompileCannotStart, CopyTestcaseInput, CopyInput, RunPasses, RunFails,
      LaunchCannotFork, LaunchWith, Check, CheckedAs, Record, RecordGiven, Judged,
      ClearWorkDir, ClearThen, Restart

LEMMA RecordedStep == Control /\ [Next]_vars => Recorded'
<1> SUFFICES ASSUME Control, [Next]_vars PROVE Recorded'
  OBVIOUS
<1>0. UNCHANGED Runs /\ i \in Nat /\ <<dir["main"], dir["stdin.in"]>> \in Runs
  BY ProbStays, JudgingAssumption DEF Runs, Inputs, Control, Locals, Directory
<1> USE <1>0 DEF Control, Recorded, Goto, verdict, history
<1> HIDE DEF Runs
<1>1. CASE UNCHANGED vars
  BY <1>1 DEF vars
<1>2. ASSUME NEW s \in Submissions, Start(s)
      PROVE  Recorded'
  BY <1>2 DEF Start
<1>3. CASE CopySrc \/ MoveCode \/ CopyTestcaseInput \/ Judged \/ ClearWorkDir
  BY <1>3
  DEF CopySrc, MoveCode, CopyTestcaseInput, CopyInput, Judged, ClearWorkDir,
      ClearThen
<1>9. CASE Restart
  BY <1>9 DEF Restart
<1>4. CASE CompilePasses
  BY <1>4 DEF CompilePasses, Locals
<1>5. CASE CompileFails \/ CompileCannotStart
  <2>1. res' \in Results /\ sbm_results' = <<res'>> /\ pc' = "clear" /\ ran' = ran
    BY <1>5 DEF CompileFails, CompileCannotStart, Results
  <2> QED BY <2>1
<1>6. CASE RunPasses \/ RunFails \/ LaunchCannotFork
  <2>1. /\ ran' = Append(ran, <<dir["main"], dir["stdin.in"]>>)
        /\ UNCHANGED <<sbm_results, i>>
    BY <1>6 DEF RunPasses, RunFails, LaunchCannotFork, LaunchWith
  <2>2. pc = "launch" /\ pc' \in {"check", "record"}
    BY <1>6 DEF RunPasses, RunFails, LaunchCannotFork, LaunchWith
  <2> QED BY <2>1, <2>2
<1>7. CASE Check
  BY <1>7 DEF Check, CheckedAs
<1>8. CASE Record
  BY <1>8 DEF Record, RecordGiven, Locals
<1> QED BY <1>1, <1>2, <1>3, <1>4, <1>5, <1>6, <1>7, <1>8, <1>9 DEF Next

\* What is printed is an output.
LEMMA PrintedType ==
  ASSUME Control, dir["main"] \in Submissions
  PROVE  Printed \in Outputs
<1>1. 1..prob \subseteq 1..MaxTests
  BY JudgingAssumption DEF Control, Locals
<1>2. dir["stdin.in"] \in 1..MaxTests \cup {Absent}
  BY <1>1 DEF Control, Directory, Inputs
<1> QED BY <1>2, JudgingAssumption DEF Printed

LEMMA DirectoryStep == Control /\ [Next]_vars => Directory'
<1> SUFFICES ASSUME Control, [Next]_vars PROVE Directory'
  OBVIOUS
<1>0. UNCHANGED <<Inputs, Runs>> /\ <<dir["main"], dir["stdin.in"]>> \in Runs
  BY ProbStays DEF Runs, Inputs, Control, Locals, Directory
<1> USE <1>0 DEF Control, Directory, Files, verdict, history
<1> HIDE DEF Runs, Inputs
<1>1. CASE \/ UNCHANGED vars \/ CompileFails \/ CompileCannotStart \/ Check
           \/ Judged \/ Restart
  BY <1>1
  DEF vars, CompileFails, CompileCannotStart, Check, CheckedAs, Judged, Restart, Goto
<1>2. ASSUME NEW s \in Submissions, Start(s)
      PROVE  Directory'
  BY <1>2 DEF Start, Goto
<1>3. CASE CopySrc
  <2>1. dir' \in {dir, With("code", sbm)} /\ sbm \in Programs /\ pc' = "move"
    BY <1>3, CommandOutcome DEF CopySrc, Locals, Goto
  <2> QED BY <2>1 DEF With
<1>9. CASE MoveCode
  <2>1. dir' \in {dir, Moved} /\ pc' = "compile" /\ Absent \in Programs
    BY <1>9, CommandOutcome DEF MoveCode, Goto, Programs
  <2> QED BY <2>1 DEF Moved
<1>4. CASE CompilePasses
  <2>1. dir["main.c"] \in Submissions
    BY <1>4, JudgingAssumption DEF CompilePasses
  <2> QED BY <1>4, <2>1 DEF CompilePasses, With, Programs
<1>5. CASE CopyTestcaseInput
  <2>1. i \in Inputs
    BY <1>5 DEF CopyTestcaseInput, CopyInput, Locals, Inputs
  <2>2. dir' \in {dir, With("stdin.in", i)} /\ pc = "input"
    BY <1>5, CommandOutcome DEF CopyTestcaseInput, CopyInput, Goto
  <2> QED BY <2>1, <2>2 DEF With
<1>6. CASE RunPasses \/ RunFails \/ LaunchCannotFork
  <2>1. pc = "launch" /\ dir["main"] \in Submissions
    BY <1>6 DEF RunPasses, RunFails, LaunchCannotFork, LaunchWith, Goto
  <2>2. Printed \in Outputs
    BY <2>1, PrintedType
  <2>3. dir' = [dir EXCEPT !["stdout.out"] = dir'["stdout.out"]]
        /\ dir'["stdout.out"] \in Outputs \cup {Absent}
    BY <1>6, <2>2 DEF RunPasses, RunFails, LaunchCannotFork, LaunchWith, With
  <2>4. Absent \in Programs
    BY DEF Programs
  <2> QED BY <2>1, <2>3, <2>4
<1>7. CASE Record
  <2>1. dir' \in {dir, With("stdout.out", Absent)} /\ pc = "record"
    BY <1>7, CommandOutcome DEF Record, RecordGiven, Goto
  <2> QED BY <2>1 DEF Programs, With
<1>8. CASE ClearWorkDir
  <2>1. dir' \in {dir, Empty} /\ pc' = "idle"
    BY <1>8, CommandOutcome DEF ClearWorkDir, ClearThen, Goto
  <2> QED BY <2>1 DEF Empty, Programs, Inputs
<1> QED BY <1>1, <1>2, <1>3, <1>4, <1>5, <1>6, <1>7, <1>8, <1>9 DEF Next

LEMMA ControlAlways == Spec => []Control
<1>1. Control /\ [Next]_vars => Control'
  BY LocalsStep, RecordedStep, DirectoryStep DEF Control
<1> QED BY <1>1, ControlInit, PTL DEF Spec

-----------------------------------------------------------------------------
(* Whose program is run *)

\* As long as at most one command has failed, or NOJ was restarted once, a
\* directory that is still dirty gets its source, and one that misses its source
\* is clean.
Sources ==
    failures <= 1 =>
        /\ pc \in {"idle", "src"} /\ failures = 0
              => dir["code"] = Absent /\ dir["main.c"] = Absent
        /\ pc = "move"
              => \/ dir["code"] = sbm /\ (failures = 0 => dir["main.c"] = Absent)
                 \/ dir["code"] = Absent /\ dir["main.c"] = Absent
        /\ pc = "compile" => dir["main.c"] \in {sbm, Absent}
        /\ pc \in {"input", "launch", "check", "record"} => dir["main"] = sbm
        /\ \A k \in 1..Len(ran) : ran[k][1] = sbm

LEMMA SourcesInit == Init => Sources
  BY DEF Init, Sources, Empty, Files

LEMMA SourcesStep == Control /\ Sources /\ [Next]_vars => Sources'
<1> SUFFICES ASSUME Control, Sources, [Next]_vars PROVE Sources'
  OBVIOUS
<1>0. /\ DOMAIN dir = Files /\ failures \in Nat /\ ran \in Seq(Runs)
      /\ pc # "idle" => sbm \in Submissions
      /\ Absent \notin Submissions /\ Absent \notin Compilable
  BY JudgingAssumption DEF Control, Locals, Recorded, Directory
<1> USE <1>0 DEF Sources, Goto, verdict, history
<1>1. CASE UNCHANGED vars
  BY <1>1 DEF vars
<1>2. ASSUME NEW s \in Submissions, Start(s)
      PROVE  Sources'
  BY <1>2 DEF Start
<1>3. CASE CopySrc
  <2>1. /\ \/ dir' = With("code", sbm) /\ failures' = failures
           \/ dir' = dir /\ failures' = failures + 1
        /\ pc = "src" /\ pc' = "move" /\ UNCHANGED <<sbm, ran>>
    BY <1>3, CommandOutcome DEF CopySrc, Control
  <2> QED BY <2>1 DEF With, Files
<1>12. CASE MoveCode
  <2>1. /\ \/ dir["code"] = Absent /\ dir' = dir /\ failures' = failures
           \/ dir["code"] # Absent /\ dir' = Moved /\ failures' = failures
           \/ dir["code"] # Absent /\ dir' = dir /\ failures' = failures + 1
        /\ pc = "move" /\ pc' = "compile" /\ UNCHANGED <<sbm, ran>>
    BY <1>12, CommandOutcome DEF MoveCode, Control
  <2>2. Moved["main.c"] = dir["code"]
    BY DEF Moved, Files
  <2> QED BY <2>1, <2>2
<1>4. CASE CompilePasses
  <2>1. failures <= 1 => dir["main.c"] = sbm
    BY <1>4 DEF CompilePasses
  <2> QED BY <1>4, <2>1 DEF CompilePasses, With, Files
<1>5. CASE CompileFails \/ CompileCannotStart
  BY <1>5 DEF CompileFails, CompileCannotStart
<1>6. CASE CopyTestcaseInput
  <2>1. /\ \/ dir' = With("stdin.in", i) /\ failures' = failures
           \/ dir' = dir /\ failures' = failures + 1
        /\ pc = "input" /\ pc' = "launch" /\ UNCHANGED <<sbm, ran>>
    BY <1>6, CommandOutcome DEF CopyTestcaseInput, CopyInput, Control
  <2> QED BY <2>1 DEF With, Files
<1>7. CASE RunPasses \/ RunFails \/ LaunchCannotFork
  <2>1. /\ pc = "launch" /\ pc' \in {"check", "record"} /\ dir'["main"] = dir["main"]
        /\ ran' = Append(ran, <<dir["main"], dir["stdin.in"]>>)
        /\ UNCHANGED <<sbm, failures>>
    BY <1>7 DEF RunPasses, RunFails, LaunchCannotFork, LaunchWith, With, Files
  <2>2. \A k \in 1..Len(ran') :
           \/ k \in 1..Len(ran) /\ ran'[k] = ran[k]
           \/ ran'[k] = <<dir["main"], dir["stdin.in"]>>
    BY <2>1
  <2> QED BY <2>1, <2>2
<1>8. CASE Check
  BY <1>8 DEF Check, CheckedAs
<1>9. CASE Record
  <2>1. /\ dir' \in {dir, With("stdout.out", Absent)}
        /\ failures' \in {failures, failures + 1}
        /\ pc = "record" /\ pc' = "input" /\ UNCHANGED <<sbm, ran>>
    BY <1>9, CommandOutcome DEF Record, RecordGiven, Control
  <2> QED BY <2>1 DEF With, Files
<1>10. CASE Judged
  BY <1>10 DEF Judged
<1>11. CASE ClearWorkDir
  <2>1. /\ \/ dir' = Empty /\ failures' = failures
           \/ dir' = dir /\ failures' = failures + 1
        /\ pc = "clear" /\ pc' = "idle" /\ UNCHANGED <<sbm, ran>>
    BY <1>11, CommandOutcome DEF ClearWorkDir, ClearThen, Control
  <2> QED BY <2>1 DEF Empty, Files
<1>13. CASE Restart
  BY <1>13 DEF Restart
<1> QED BY <1>1, <1>2, <1>3, <1>4, <1>5, <1>6, <1>7, <1>8, <1>9, <1>10, <1>11, <1>12,
           <1>13
        DEF Next

-----------------------------------------------------------------------------
(* What is in place while nothing fails *)

\* The k-th run was of the submission's own program on that test case's input.
Own(k) == ran[k] = <<sbm, k>>

\* As long as no command has failed for this submission, its source, its program
\* and the input of the turn are where the next step looks for them.
InPlace ==
    trouble = FALSE =>
        /\ pc = "move" => dir["code"] = sbm
        /\ pc = "compile" => dir["main.c"] = sbm
        /\ pc \in {"input", "launch", "check", "record"} => dir["main"] = sbm
        /\ pc = "launch" => dir["stdin.in"] = i
        /\ \A k \in 1..Len(ran) : Own(k)

LEMMA InPlaceInit == Init => InPlace
  BY DEF Init, InPlace

LEMMA InPlaceStep == Control /\ InPlace /\ [Next]_vars => InPlace'
<1> SUFFICES ASSUME Control, InPlace, [Next]_vars PROVE InPlace'
  OBVIOUS
<1>0. /\ DOMAIN dir = Files /\ i \in Nat /\ 1 <= i /\ trouble \in BOOLEAN
      /\ ran \in Seq(Runs)
      /\ pc = "launch" => Len(ran) = i - 1
      /\ pc \notin {"idle", "clear"} => sbm \in Submissions
      /\ Absent \notin Submissions
  BY JudgingAssumption DEF Control, Locals, Recorded, Directory
<1> USE <1>0 DEF InPlace, Own, Goto, verdict, history
<1>1. CASE UNCHANGED vars
  BY <1>1 DEF vars
<1>2. ASSUME NEW s \in Submissions, Start(s)
      PROVE  InPlace'
  BY <1>2 DEF Start
<1>3. CASE CopySrc
  <2>1. /\ dir' = With("code", sbm) \/ trouble' = TRUE
        /\ trouble' = FALSE => trouble = FALSE
        /\ pc = "src" /\ pc' = "move" /\ UNCHANGED <<sbm, ran>>
    BY <1>3, CommandOutcome DEF CopySrc, Control
  <2> QED BY <2>1 DEF With, Files
<1>4. CASE MoveCode
  <2>1. /\ dir["code"] = Absent \/ dir' = Moved \/ trouble' = TRUE
        /\ trouble' = FALSE => trouble = FALSE
        /\ pc = "move" /\ pc' = "compile" /\ UNCHANGED <<sbm, ran>>
    BY <1>4, CommandOutcome DEF MoveCode, Control
  <2>2. Moved["main.c"] = dir["code"]
    BY DEF Moved, Files
  <2> QED BY <2>1, <2>2
<1>5. CASE CompilePasses
  BY <1>5 DEF CompilePasses, With, Files
<1>6. CASE CompileFails \/ CompileCannotStart
  BY <1>6 DEF CompileFails, CompileCannotStart
<1>7. CASE CopyTestcaseInput
  <2>1. /\ dir' = With("stdin.in", i) \/ trouble' = TRUE
        /\ trouble' = FALSE => trouble = FALSE
        /\ pc = "input" /\ pc' = "launch" /\ UNCHANGED <<sbm, i, ran>>
    BY <1>7, CommandOutcome DEF CopyTestcaseInput, CopyInput, Control
  <2> QED BY <2>1 DEF With, Files
<1>8. CASE RunPasses \/ RunFails \/ LaunchCannotFork
  <2>1. /\ pc = "launch" /\ pc' \in {"check", "record"} /\ dir'["main"] = dir["main"]
        /\ ran' = Append(ran, <<dir["main"], dir["stdin.in"]>>)
        /\ trouble' = FALSE => trouble = FALSE
        /\ UNCHANGED <<sbm, i>>
    BY <1>8 DEF RunPasses, RunFails, LaunchCannotFork, LaunchWith, With, Files
  <2>2. \A k \in 1..Len(ran') :
           \/ k \in 1..Len(ran) /\ ran'[k] = ran[k]
           \/ k = i /\ ran'[k] = <<dir["main"], dir["stdin.in"]>>
    <3> DEFINE run == <<dir["main"], dir["stdin.in"]>>
    <3>1. run \in Runs /\ ran' = Append(ran, run) /\ Len(ran) = i - 1
      BY <2>1 DEF Control, Directory, Runs
    <3> HIDE DEF run
    <3>2. Len(ran') = i /\ ran'[i] = run /\ \A k \in 1..(i - 1) : ran'[k] = ran[k]
      BY <3>1
    <3>3. \A k \in 1..i : k = i \/ k \in 1..(i - 1)
      OBVIOUS
    <3> QED BY <3>1, <3>2, <3>3 DEF run
  <2>3. ASSUME trouble' = FALSE, NEW k \in 1..Len(ran')
        PROVE  Own(k)'
    <3>1. CASE k \in 1..Len(ran) /\ ran'[k] = ran[k]
      BY <2>1, <2>3, <3>1
    <3>2. CASE k = i /\ ran'[k] = <<dir["main"], dir["stdin.in"]>>
      BY <2>1, <2>3, <3>2
    <3> QED BY <2>2, <3>1, <3>2
  <2> QED BY <2>1, <2>3
<1>9. CASE Check
  BY <1>9 DEF Check, CheckedAs
<1>10. CASE Record
  <2>1. /\ pc = "record" /\ pc' = "input" /\ UNCHANGED <<sbm, ran>>
        /\ dir' \in {dir, With("stdout.out", Absent)}
        /\ trouble' = FALSE => trouble = FALSE
    BY <1>10, CommandOutcome DEF Record, RecordGiven, Control
  <2> QED BY <2>1 DEF With, Files
<1>11. CASE Judged
  BY <1>11 DEF Judged
<1>12. CASE ClearWorkDir
  <2>1. /\ pc' = "idle" /\ UNCHANGED <<sbm, ran>>
        /\ trouble' = FALSE => trouble = FALSE
    BY <1>12, CommandOutcome DEF ClearWorkDir, ClearThen, Control
  <2> QED BY <2>1
<1>13. CASE Restart
  BY <1>13 DEF Restart
<1> QED BY <1>1, <1>2, <1>3, <1>4, <1>5, <1>6, <1>7, <1>8, <1>9, <1>10, <1>11, <1>12,
           <1>13
        DEF Next

LEMMA InPlaceAlways == Spec => []InPlace
  BY InPlaceInit, InPlaceStep, ControlAlways, PTL DEF Spec

-----------------------------------------------------------------------------
(* What Accept is worth *)

\* The k-th run printed what is expected.
Earned(k) == Prints[ran[k]] = Expected[k]

\* The flag stands only for runs that printed what is expected, and the output
\* that is checked is the last run's.
Earnings ==
    /\ pc \notin {"idle", "clear"} => sbm_res_type # "Accept"
    /\ pc \in {"input", "launch", "check", "record"} /\ flg_ac = TRUE
          => \A k \in 1..(i - 1) : Earned(k)
    /\ pc = "check" => dir["stdout.out"] = Prints[ran[i]]
    /\ pc = "record" /\ res = "CorrectAnswer" => Earned(i)
    /\ sbm_res_type = "Accept" => Len(ran) = prob /\ \A k \in 1..prob : Earned(k)

LEMMA EarningsInit == Init => Earnings
  BY DEF Init, Earnings

LEMMA EarningsStep == Control /\ Earnings /\ [Next]_vars => Earnings'
<1> SUFFICES ASSUME Control, Earnings, [Next]_vars PROVE Earnings'
  OBVIOUS
<1>0. /\ DOMAIN dir = Files /\ i \in Nat /\ prob \in Nat /\ i <= prob + 1 /\ 1 <= i
      /\ ran \in Seq(Runs) /\ flg_ac \in BOOLEAN
      /\ pc \in {"input", "launch"} => Len(ran) = i - 1
      /\ pc \in {"check", "record"} => Len(ran) = i
  BY JudgingAssumption DEF Control, Locals, Recorded, Directory
<1> USE <1>0 DEF Earnings, Earned, Goto, verdict, history
<1>1. CASE UNCHANGED vars
  BY <1>1 DEF vars
<1>2. ASSUME NEW s \in Submissions, Start(s)
      PROVE  Earnings'
  BY <1>2 DEF Start
<1>3. CASE CopySrc \/ MoveCode
  BY <1>3 DEF CopySrc, MoveCode
<1>4. CASE CompilePasses \/ CompileFails \/ CompileCannotStart
  BY <1>4 DEF CompilePasses, CompileFails, CompileCannotStart, Control, Locals
<1>5. CASE CopyTestcaseInput
  BY <1>5 DEF CopyTestcaseInput, CopyInput
<1>6. CASE RunPasses \/ RunFails \/ LaunchCannotFork
  <2> DEFINE run == <<dir["main"], dir["stdin.in"]>>
  <2>1. /\ pc = "launch" /\ pc' \in {"check", "record"}
        /\ ran' = Append(ran, run)
        /\ pc' = "check" => dir'["stdout.out"] = Prints[run]
        /\ res' # "CorrectAnswer"
        /\ UNCHANGED <<i, prob, flg_ac, sbm_res_type>>
    BY <1>6 DEF RunPasses, RunFails, LaunchCannotFork, LaunchWith, Printed, With, Files
  <2> HIDE DEF run
  <2>2. ran'[i] = run /\ \A k \in 1..(i - 1) : ran'[k] = ran[k]
    BY <2>1
  <2> QED BY <2>1, <2>2
<1>7. CASE Check
  <2>1. pc = "check" /\ pc' = "record" /\ UNCHANGED <<i, prob, flg_ac, sbm_res_type, ran>>
    BY <1>7 DEF Check, CheckedAs
  <2>2. ASSUME res' = "CorrectAnswer"
        PROVE  Earned(i)
    <3>1. Matches
      BY <1>7, <2>2 DEF Check, CheckedAs
    <3> QED BY <2>1, <3>1 DEF Matches
  <2> QED BY <2>1, <2>2
<1>8. CASE Record
  <2>1. /\ pc = "record" /\ pc' = "input" /\ i' = i + 1
        /\ flg_ac' = (flg_ac /\ res = "CorrectAnswer")
        /\ UNCHANGED <<prob, sbm_res_type, ran>>
    BY <1>8 DEF Record, RecordGiven
  <2>2. flg_ac' = TRUE => flg_ac = TRUE /\ res = "CorrectAnswer"
    BY <2>1
  <2>3. ASSUME flg_ac' = TRUE, NEW k \in 1..i
        PROVE  Earned(k)
    <3>1. CASE k = i
      BY <2>1, <2>2, <2>3, <3>1
    <3>2. CASE k \in 1..(i - 1)
      BY <2>1, <2>2, <2>3, <3>2
    <3> QED BY <3>1, <3>2
  <2>4. i' - 1 = i
    BY <2>1
  <2>5. \A k \in 1..(i' - 1) : flg_ac' = TRUE => Earned(k)
    BY <2>3, <2>4
  <2> QED BY <2>1, <2>5
<1>9. CASE Judged
  <2>1. /\ pc = "input" /\ pc' = "clear" /\ i = prob + 1
        /\ sbm_res_type' = IF flg_ac THEN "Accept" ELSE "NotAccept"
        /\ UNCHANGED <<prob, i, ran>>
    BY <1>9 DEF Judged
  <2>2. sbm_res_type' = "Accept" => flg_ac = TRUE
    BY <2>1
  <2> QED BY <2>1, <2>2
<1>10. CASE ClearWorkDir
  BY <1>10 DEF ClearWorkDir, ClearThen
<1>11. CASE Restart
  BY <1>11 DEF Restart
<1> QED BY <1>1, <1>2, <1>3, <1>4, <1>5, <1>6, <1>7, <1>8, <1>9, <1>10, <1>11 DEF Next

-----------------------------------------------------------------------------
(* What the system owes a right submission *)

RightOnAll == \A k \in 1..prob : Prints[<<sbm, k>>] = Expected[k]

\* The flag stands if the submission is right and nothing failed.
Rights ==
    trouble = FALSE /\ RightOnAll =>
        /\ pc \in {"input", "launch", "check", "record"} => flg_ac = TRUE
        /\ pc = "check" => dir["stdout.out"] = Expected[i]
        /\ pc = "record" => res = "CorrectAnswer"
        /\ pc = "clear" /\ sbm \in Compilable => sbm_res_type = "Accept"

LEMMA RightsInit == Init => Rights
  BY DEF Init, Rights

LEMMA RightsStep == Control /\ InPlace /\ Rights /\ [Next]_vars => Rights'
<1> SUFFICES ASSUME Control, InPlace, Rights, [Next]_vars PROVE Rights'
  OBVIOUS
<1>0. /\ DOMAIN dir = Files /\ i \in Nat /\ prob \in Nat /\ 1 <= i
      /\ flg_ac \in BOOLEAN /\ trouble \in BOOLEAN
      /\ pc \in {"src", "move", "compile"} => flg_ac = TRUE
      /\ pc \in {"launch", "check", "record"} => i \in 1..prob
  BY JudgingAssumption DEF Control, Locals, Directory
<1> USE <1>0 DEF Rights, RightOnAll, Goto, verdict, history
<1>1. CASE UNCHANGED vars
  BY <1>1 DEF vars
<1>2. ASSUME NEW s \in Submissions, Start(s)
      PROVE  Rights'
  BY <1>2 DEF Start
<1>3. CASE CopySrc \/ MoveCode
  BY <1>3 DEF CopySrc, MoveCode
<1>4. CASE CompilePasses
  BY <1>4 DEF CompilePasses
<1>5. CASE CompileFails
  <2>1. /\ pc = "compile" /\ pc' = "clear" /\ UNCHANGED <<sbm, prob>>
        /\ trouble' = (trouble \/ dir["main.c"] \in Compilable)
    BY <1>5 DEF CompileFails
  <2>2. trouble' = FALSE => trouble = FALSE /\ dir["main.c"] \notin Compilable
    BY <2>1
  <2> QED BY <2>1, <2>2 DEF InPlace
<1>6. CASE CompileCannotStart
  BY <1>6 DEF CompileCannotStart
<1>7. CASE CopyTestcaseInput
  <2>1. /\ trouble' = FALSE => trouble = FALSE
        /\ pc = "input" /\ pc' = "launch" /\ UNCHANGED <<sbm, prob, i, flg_ac>>
    BY <1>7, CommandOutcome DEF CopyTestcaseInput, CopyInput, Control
  <2> QED BY <2>1
<1>8. CASE RunPasses
  <2>1. /\ pc = "launch" /\ pc' = "check" /\ dir'["stdout.out"] = Printed
        /\ UNCHANGED <<sbm, prob, i, flg_ac, trouble>>
    BY <1>8 DEF RunPasses, LaunchWith, With, Files
  <2>2. trouble = FALSE => Printed = Prints[<<sbm, i>>]
    BY <2>1 DEF InPlace, Printed
  <2> QED BY <2>1, <2>2
<1>14. CASE LaunchCannotFork
  BY <1>14 DEF LaunchCannotFork
<1>9. CASE RunFails
  <2>1. /\ pc = "launch" /\ pc' = "record"
        /\ trouble' = (trouble \/ Printed = Expected[i])
        /\ UNCHANGED <<sbm, prob, i>>
    BY <1>9 DEF RunFails, LaunchWith
  <2>2. trouble' = FALSE => trouble = FALSE /\ Printed # Expected[i]
    BY <2>1
  <2>3. trouble = FALSE => Printed = Prints[<<sbm, i>>]
    BY <2>1 DEF InPlace, Printed
  <2>4. trouble' = FALSE => ~RightOnAll
    BY <2>1, <2>2, <2>3
  <2> QED BY <2>1, <2>4
<1>10. CASE Check
  <2>1. /\ pc = "check" /\ pc' = "record"
        /\ UNCHANGED <<sbm, prob, i, flg_ac, dir>>
        /\ trouble' = FALSE => trouble = FALSE
    BY <1>10 DEF Check, CheckedAs
  <2>2. trouble = FALSE /\ RightOnAll => Matches
    BY <2>1 DEF Matches
  <2>3. trouble' = FALSE /\ Matches => res' = "CorrectAnswer"
    BY <1>10 DEF Check, CheckedAs
  <2> QED BY <2>1, <2>2, <2>3
<1>11. CASE Record
  <2>1. /\ pc = "record" /\ pc' = "input" /\ UNCHANGED <<sbm, prob>>
        /\ flg_ac' = (flg_ac /\ res = "CorrectAnswer")
        /\ trouble' = FALSE => trouble = FALSE
    BY <1>11, CommandOutcome DEF Record, RecordGiven, Control
  <2>2. flg_ac = TRUE /\ res = "CorrectAnswer" => flg_ac' = TRUE
    BY <2>1
  <2> QED BY <2>1, <2>2
<1>12. CASE Judged
  <2>1. /\ pc = "input" /\ pc' = "clear" /\ UNCHANGED <<sbm, prob, trouble>>
        /\ flg_ac = TRUE => sbm_res_type' = "Accept"
    BY <1>12 DEF Judged
  <2> QED BY <2>1
<1>13. CASE ClearWorkDir \/ Restart
  BY <1>13 DEF ClearWorkDir, ClearThen, Restart
<1> QED BY <1>1, <1>2, <1>3, <1>4, <1>5, <1>6, <1>7, <1>8, <1>9, <1>10, <1>11, <1>12,
           <1>13, <1>14
        DEF Next

-----------------------------------------------------------------------------
(* The theorems *)

\* Type correctness of judge()'s locals and of the work directory, for any
\* submissions, test cases and failures.
THEOREM JudgingTypeCorrect == Spec => []TypeOK
  BY ControlAlways, ControlImpliesTypeOK, PTL

\* copy_src, mv and clear_work_dir back each other up: with one failed shell
\* command, or one restart of NOJ that finds the directory as it was left, no
\* submission is judged by the program of another one, whichever it is and
\* whenever it comes.
THEOREM OneFailureIsHarmless == Spec => []RunsOwnProgram
<1>1. Sources => RunsOwnProgram
  BY DEF Sources, RunsOwnProgram
<1> QED BY <1>1, SourcesInit, SourcesStep, ControlAlways, PTL DEF Spec

\* Whatever commands fail, and in whatever state they leave the directory, Accept
\* means that every test case was run and every run printed the bytes that were
\* expected; and unless something failed for this submission, each run was of its
\* own program on that test case's own input.
THEOREM AcceptIsWorthIt == Spec => []AcceptIsEarned
<1>1. Control /\ InPlace /\ Earnings => AcceptIsEarned
  BY DEF Control, Locals, InPlace, Own, Earnings, Earned, AcceptIsEarned
<1> QED BY <1>1, EarningsInit, EarningsStep, InPlaceAlways, ControlAlways, PTL DEF Spec

\* judge() accepts a submission that deserves it, unless the system had trouble
\* with that very submission: a failed command, a compiler or a program that could
\* not be started or was cut short, a diff that failed, or an is_special_judge that
\* is not false.  What failed earlier does not tell.
THEOREM RightGetsAccepted == Spec => []RightIsAccepted
<1>1. Control /\ Rights => RightIsAccepted
  BY DEF Control, Locals, Rights, RightOnAll, RightIsAccepted
<1> QED BY <1>1, RightsInit, RightsStep, InPlaceAlways, ControlAlways, PTL DEF Spec
=============================================================================
