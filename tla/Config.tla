------------------------------- MODULE Config -------------------------------
(***************************************************************************)
(* ConfigManager of config.cpp: what a setting is read as from the text of *)
(* /etc/noj.conf.  The file is the sequence of its lines that are not      *)
(* blank, a line KEY = value being a record                                *)
(*   comment  whether a # stands before it                                 *)
(*   key      the key, whatever its case                                   *)
(*   compact  whether it is written without spaces                         *)
(*   words    the values it gives, one in a proper line.                   *)
(* A value is a record of what it is ("number", "text", "path", "line", or *)
(* "SFTP", "FTP" for their prefixes) and its contents.                     *)
(***************************************************************************)
EXTENDS Integers, Sequences, FiniteSetsExt

CONSTANT Missing,  \* no file, or an empty one: m_buffer stays NULL
         WORD      \* 2^32: get_ulong's results are stored in unsigned int

\* A line that is one word to the regular expression.
OneWord(line) == line.compact /\ Len(line.words) <= 1

\* ^\s*KEY\s*=\s*(\S+)\s*$ : \s goes beyond the end of a line, so that a key
\* without a value is given the next line, if that is a single word.
Matches(file, key, n) ==
    /\ file[n].key = key /\ ~file[n].comment
    /\ \/ Len(file[n].words) = 1
       \/ file[n].words = <<>> /\ n < Len(file) /\ OneWord(file[n + 1])

MatchingLines(file, key) == {n \in 1..Len(file) : Matches(file, key, n)}

Found(file, key) == MatchingLines(file, key) # {}

\* The first match counts.
regex_get_value(file, key) ==
    LET n == Min(MatchingLines(file, key))
    IN IF file[n].words = <<>> THEN [is |-> "line", of |-> file[n + 1]] ELSE file[n].words[1]

\* Mutant: what strtoul makes of a word is not looked at.
FoundAnything(file, key) == Found(file, key)

\* get_long and get_ulong end the program over what does not start as a number;
\* strtoul takes a sign, and the caller an unsigned int.
FoundNumber(file, key) == Found(file, key) /\ regex_get_value(file, key).is = "number"
get_ulong(file, key) == regex_get_value(file, key).of % WORD

\* parse_real_path ends the program over a $ that is not $NOJ_WORKDIR's.
ParsesAsPath(value) == value.is = "path" => value.of = "$NOJ_WORKDIR"
=============================================================================
