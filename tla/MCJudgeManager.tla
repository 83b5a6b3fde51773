--------------------------- MODULE MCJudgeManager ---------------------------
(***************************************************************************)
(* Constants for model checking JudgeManager: s1 and s2 share a problem,   *)
(* and nothing judges the language of s3.                                  *)
(***************************************************************************)
EXTENDS JudgeManager, TLC

CONSTANTS s1, s2, s3, p1, p2

MCProblemOf == [s \in Submissions |-> IF s = s3 THEN p2 ELSE p1]

MCLanguageOf == [s \in Submissions |-> IF s = s1 THEN "C"
                                       ELSE IF s = s2 THEN "CPP" ELSE "Pascal"]

Symmetry == Permutations(Workers)
=============================================================================
