------------------------------ MODULE MCReport ------------------------------
(* Three configurations and two modules that report on two tests each, one of *)
(* them the same, so that a test may be reported twice.                       *)
EXTENDS Report

Test(name, category, expected, required) ==
    [name |-> name, category |-> category, expected |-> expected, required |-> required]

MCConfigs == {<<Test("a", "base", "must", "pass"), Test("b", "base", "should", "pass")>>,
              <<Test("c", "base", None, None), Test("b", None, "must", "gone"), Test("a", "base", "must", "pass")>>,
              <<Test("a", "base", "must", "info"), Test("c", "base", "must", "pass")>>}

MCModules == <<"m", "n">>
Line(test, result) == [test |-> test, result |-> result]
MCReportLines ==
    [m \in {"m", "n"} |->
        BoundedSeq({Line(t, r) : t \in (IF m = "m" THEN {"a", "b"} ELSE {"b", "c"}),
                                 r \in {"pass", "fail", "skip", "info"}}, 2)]
=============================================================================
