----------------------------- MODULE MCLifecycle -----------------------------
(***************************************************************************)
(* Constants for model checking Lifecycle: a proper file, and the same     *)
(* file with one or two lines changed or in another order.                 *)
(***************************************************************************)
EXTENDS Lifecycle

CONSTANTS w1, w2

Number(n) == [is |-> "number", of |-> n]
Text(kind) == [is |-> kind, of |-> "$NOJ_WORKDIR"]

Line(key, words) == [comment |-> FALSE, key |-> key, compact |-> FALSE, words |-> words]
Compact(line) == [line EXCEPT !.compact = TRUE]
Comment(line) == [line EXCEPT !.comment = TRUE]

Proper == <<
    Line("DB_PASS", <<Text("text")>>), Line("DB_PORT", <<Number(1)>>),
    Line("FTP_MODE", <<Text("SFTP")>>),
    Line("SFTP_HOST", <<Text("text")>>), Line("SFTP_PORT", <<Number(2)>>),
    Line("C_RELEASE_COMPILER", <<Text("path")>>), Line("JUDGES_NUM", <<Number(2)>>)>>

\* Line n without a value, before a line that is one word and before one that is not.
Emptied(n) ==
    {[Proper EXCEPT ![n].words = <<>>, ![n + 1].compact = compact] : compact \in BOOLEAN}

MCFiles ==
    {Missing, Proper}
    \cup UNION {Emptied(n) : n \in 1..(Len(Proper) - 1)}
    \* a line commented out, above or below the one that counts
    \cup {<<Comment(Line("DB_PORT", <<Number(3)>>))>> \o Proper,
          [Proper EXCEPT ![2].comment = TRUE]}
    \* the wrong kind of value, or two
    \cup {[Proper EXCEPT ![2].words = <<Text("text")>>],
          [Proper EXCEPT ![1].words = <<Text("text"), Text("text")>>],
          [Proper EXCEPT ![3].words = <<Text("text")>>],
          [Proper EXCEPT ![6].words = <<[is |-> "path", of |-> "$HOME"]>>]}
    \cup {[Proper EXCEPT ![7].words = <<Number(n)>>] : n \in {0, -1}}
    \* the other mode
    \cup {[Proper EXCEPT ![3].words = <<Text("FTP")>>, ![4].key = "FTP_HOST",
                         ![5].key = "FTP_PORT"]}

MCWorkers == <<w1, w2>>
=============================================================================
