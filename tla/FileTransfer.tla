---------------------------- MODULE FileTransfer ----------------------------
(***************************************************************************)
(* NetworkManager::fetch_file of network.cpp with the scripts it runs, for *)
(* the two files of a test case as JudgeManager::fetch_testcase_from_ftp   *)
(* fetches them.  The environment: a file server whose files the author of *)
(* the problem replaces, transfers that fail or break off, a shell that    *)
(* cannot run the script, and a NOJ that is stopped and started again,     *)
(* which finds the local files as they are.                                *)
(***************************************************************************)
EXTENDS Integers, Sequences

CONSTANTS Modes,       \* the settings of FTP_MODE to look at
          MaxVersion   \* bound: how often the author replaces a file

ASSUME TransferAssumption ==
    Modes \subseteq {"FTP", "SFTP"} /\ MaxVersion \in Nat \ {0}

Files == {"in", "out"}

VARIABLES
    m_mode,
    named,        \* for each file: its remote path is one word, as it comes
                  \* from the database
    id_readable,  \* the user noj can read m_id_file
    version,      \* of each file on the server
    began,        \* their versions when the fetching began
    local,        \* for each file: its version, and whether it is whole
    at,           \* "idle", where in the script, "answered", "done"
    which,        \* the one being fetched
    ret,          \* what system() returned
    stat,         \* for each file: what fetch_file returned
    before,       \* history: whether it was there before
    brought,      \* history: what the transfer brought: "none", "part", "whole"
    hitch         \* history: something outside failed

fetch == <<m_mode, named, id_readable, version, began, local, at, which, ret, stat,
           before, brought, hitch>>

None == [version |-> 0, whole |-> FALSE]
There(f) == local[f] # None

FetchInit ==
    /\ m_mode \in Modes
    /\ named \in [Files -> BOOLEAN]
    /\ id_readable \in BOOLEAN
    /\ version = [f \in Files |-> 1] /\ began = [f \in Files |-> 0]
    /\ local = [f \in Files |-> None]
    /\ at = "idle" /\ which = "in"
    /\ ret = 0 /\ stat = [f \in Files |-> "Unset"]
    /\ before = [f \in Files |-> FALSE] /\ brought = [f \in Files |-> "none"]
    /\ hitch = FALSE

-----------------------------------------------------------------------------
(* The command line *)

\* What fetch_file_from_ftp and fetch_file_from_sftp put behind the script ...
Arguments ==
    IF m_mode = "FTP"
    THEN <<"m_host", "m_username", "m_passwd", "ftp_loc", "local_dir">>
    ELSE <<"ftp_loc", "local_dir", "m_username", "m_host", "m_port", "m_id_file">>

\* ... and what the scripts say they want.
Usage ==
    IF m_mode = "FTP"
    THEN <<"ftp_loc", "local_dir", "m_username", "m_host", "m_id_file">>
    ELSE <<"ftp_loc", "local_dir", "m_username", "m_host", "m_port", "m_id_file">>

\* What a script finds where it expects an argument.
Given(name) == Arguments[CHOOSE n \in 1..Len(Usage) : Usage[n] = name]

\* [ -r ]: a host's name, a user's or a password is no file in noj's home.
CanRead(name) ==
    CASE Given(name) = "m_id_file" -> id_readable
      [] Given(name) = "local_dir" -> There(which)
      [] OTHER -> FALSE

\* The script for FTP takes its host from a variable nobody sets.
Connects == m_mode = "SFTP" /\ Given("m_host") = "m_host"
Meant == Given("ftp_loc") = "ftp_loc" /\ Given("local_dir") = "local_dir"

-----------------------------------------------------------------------------
(* fetch_file *)

Begin(f) ==
    /\ at' = "command" /\ which' = f
    /\ before' = [before EXCEPT ![f] = There(f)]
    /\ brought' = [brought EXCEPT ![f] = "none"]
    /\ ret' = 0

\* fetch_testcase_from_ftp, for the input.
FetchInput ==
    /\ at = "idle"
    /\ began' = version /\ hitch' = FALSE
    /\ Begin("in")
    /\ stat' = [f \in Files |-> "Unset"]
    /\ UNCHANGED <<m_mode, named, id_readable, version, local>>

\* The shell's part of the wait status of a command that exits with n.
ExitStatus(n) == 256 * n
WEXITSTATUS(status) == (status \div 256) % 256

ScriptEnds(status) ==
    /\ at' = "ended" /\ ret' = status
    /\ UNCHANGED <<m_mode, named, id_readable, version, began, local, which, stat,
                   before, brought>>

\* No fork; su refuses; the script cannot be run or is not found; the shell is
\* killed.
CommandFails ==
    /\ at = "command"
    /\ hitch' = TRUE
    /\ \E status \in {-1, 9} \cup {ExitStatus(n) : n \in {1, 126, 127}} : ScriptEnds(status)

\* The shell splits the line into words: a path that is empty, or is two words,
\* leaves the script with a wrong number of arguments, for which it exits with 50.
WrongCount ==
    /\ at = "command" /\ ~named[which]
    /\ ScriptEnds(ExitStatus(50)) /\ UNCHANGED hitch

IdUnreadable ==
    /\ at = "command" /\ named[which] /\ ~CanRead("m_id_file")
    /\ ScriptEnds(ExitStatus(2)) /\ UNCHANGED hitch

Sftp(what) ==
    /\ at = "command" /\ named[which] /\ CanRead("m_id_file")
    /\ at' = "check"
    /\ brought' = [brought EXCEPT ![which] = what]
    /\ IF what = "none" THEN UNCHANGED local
       ELSE local' = [local EXCEPT ![which] = [version |-> version[which],
                                               whole |-> what = "whole"]]
    /\ UNCHANGED <<m_mode, named, id_readable, version, began, which, ret, stat, before>>

\* Mutant: a file that is there already is not fetched again.
TransferIfMissing ==
    /\ Connects /\ Meant /\ UNCHANGED hitch
    /\ IF There(which) THEN Sftp("none") ELSE Sftp("whole")

\* The file is overwritten as it comes in; sftp's own status is not looked at.
Transfer == Connects /\ Meant /\ Sftp("whole") /\ UNCHANGED hitch
BreaksOff == Connects /\ Meant /\ Sftp("part") /\ hitch' = TRUE
NothingComes ==
    /\ Sftp("none")
    /\ hitch' = (hitch \/ (Connects /\ Meant))

\* The script looks whether there is a file, not whether it has just come.
CheckFile ==
    /\ at = "check"
    /\ ScriptEnds(IF Meant /\ There(which) THEN ExitStatus(0) ELSE ExitStatus(1))
    /\ UNCHANGED hitch

\* The script is killed, and su passes that on as a status above 128.
Interrupted ==
    /\ at = "check"
    /\ hitch' = TRUE
    /\ ScriptEnds(ExitStatus(137))

\* The switch of fetch_file_from_ftp is over the status as it is, that of
\* fetch_file_from_sftp over the number the script exited with.
VerdictOf(status) ==
    IF m_mode = "FTP"
    THEN IF status = 1 THEN "FileNotDownload" ELSE "Normal"
    ELSE CASE WEXITSTATUS(status) = 1 -> "FileNotDownload"
           [] WEXITSTATUS(status) = 2 -> "PermissionError"
           [] OTHER -> "Normal"

AnswerWith(verdict) ==
    /\ at = "ended"
    /\ at' = "answered"
    /\ stat' = [stat EXCEPT ![which] = verdict]
    /\ UNCHANGED <<m_mode, named, id_readable, version, began, local, which, ret, before,
                   brought, hitch>>

\* Mutant: both switches are over the raw status.
AnswerRaw ==
    AnswerWith(CASE ret = 1 -> "FileNotDownload" [] ret = 2 -> "PermissionError"
                 [] OTHER -> "Normal")

Answer == AnswerWith(VerdictOf(ret))

\* What came of the input is overwritten, not looked at.
FetchOutput ==
    /\ at = "answered" /\ which = "in"
    /\ Begin("out")
    /\ UNCHANGED <<m_mode, named, id_readable, version, began, local, stat, hitch>>

\* What came of the output is returned, and not looked at by
\* fetch_problem_from_db: the problem is cached with this test case.
Cache ==
    /\ at = "answered" /\ which = "out"
    /\ at' = "done"
    /\ UNCHANGED <<m_mode, named, id_readable, version, began, local, which, ret, stat,
                   before, brought, hitch>>

-----------------------------------------------------------------------------
(* The environment *)

\* The author of the problem replaces one file at a time.
Replace(f) ==
    /\ version[f] < MaxVersion
    /\ version' = [version EXCEPT ![f] = @ + 1]
    /\ UNCHANGED <<m_mode, named, id_readable, began, local, at, which, ret, stat, before,
                   brought, hitch>>

\* NOJ is stopped, with the script if one is running, and started again; its
\* cache of problems is gone, the data directory is not.
Restart ==
    /\ at # "idle"
    /\ at' = "idle" /\ which' = "in" /\ ret' = 0
    /\ stat' = [f \in Files |-> "Unset"]
    /\ id_readable' \in BOOLEAN
    /\ UNCHANGED <<m_mode, named, version, began, local, before, brought, hitch>>

FetchNext ==
    \/ FetchInput \/ CommandFails \/ WrongCount \/ IdUnreadable \/ Transfer
    \/ BreaksOff \/ NothingComes \/ CheckFile \/ Interrupted \/ Answer
    \/ FetchOutput \/ Cache \/ Restart
    \/ \E f \in Files : Replace(f)

FetchSpec == FetchInit /\ [][FetchNext]_fetch

-----------------------------------------------------------------------------
(* Properties *)

\* The script exited by itself, with one of the numbers it knows.
OwnStatus == WEXITSTATUS(ret) \in {0, 1, 2, 50} /\ ret % 256 = 0

\* What a Noj_Normal of fetch_file may hide over SFTP: a file that did not come
\* has an older one in its place, or a path that is not one word, which is the
\* script's exit with 50, or the command ended in a way that is not one of the
\* script's own.  The callers, which ignore the answer, could rely on no more.
NormalMeansFetched ==
    m_mode = "SFTP" /\ at = "answered" /\ stat[which] = "Normal" =>
        \/ brought[which] # "none" \/ before[which]
        \/ ~named[which]
        \/ ~OwnStatus

\* Over SFTP the input and the output of a cached test case belong together,
\* whatever was in the data directory before, unless something failed, a path is
\* not one word, or the author had not replaced both or replaced one meanwhile.
PairMatches ==
    /\ m_mode = "SFTP" /\ id_readable /\ named["in"] /\ named["out"]
    /\ at = "done" /\ ~hitch
    /\ version = began /\ version["in"] = version["out"]
    => local["in"] = local["out"] /\ local["in"].whole

\* The usage the scripts print: given its arguments in that order, a script
\* whose command, host and identity file are in order fetches the file.
UndisturbedFetchDelivers ==
    at = "answered" /\ named[which] /\ id_readable /\ ~hitch => There(which)
=============================================================================
