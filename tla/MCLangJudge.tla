----------------------------- MODULE MCLangJudge ----------------------------
(***************************************************************************)
(* Constants for model checking LangJudge: the first two test cases expect *)
(* the same output, the third another one.  `right` is right on each;      *)
(* `half` is not on the second, unless it is given the first one's input;  *)
(* `rejected` does not compile.                                            *)
(***************************************************************************)
EXTENDS LangJudge

CONSTANTS right, half, rejected

MCSubmissions == {right, half, rejected}
MCCompilable == {right, half}
MCOutputs == {"yes", "no"}
MCExpected == [k \in 1..MaxTests |-> IF k < 3 THEN "yes" ELSE "no"]
MCPrints ==
    [run \in MCSubmissions \X (1..MaxTests \cup {Absent}) |->
        IF run \in {<<right, 1>>, <<right, 2>>, <<half, 1>>} THEN "yes" ELSE "no"]
=============================================================================
