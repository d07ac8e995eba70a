------------------------------- MODULE Report -------------------------------
(***************************************************************************)
(* The report of a device: what the modules report is accumulated while the  *)
(* tests run (daq/report.py, accumulate) and turned into tables, a list of   *)
(* missing tests and the result that the runner sends to the controller      *)
(* (finalize and, in daq/runner.py, _calculate_device_result).               *)
(*                                                                         *)
(* A module's report is the sequence of its RESULT lines. A dictionary is a  *)
(* sequence of records where the order of its keys shows, and the results in *)
(* the JSON report are the ones of the tables (the same objects).            *)
(***************************************************************************)
EXTENDS Naturals, SequencesExt, BagsExt

CONSTANTS Configs,        \* the "tests" a module_config may have, in order
          enabled_tests,  \* the modules of the host, in the order they run
          ReportLines     \* [enabled_tests -> the reports a module may write]

VARIABLES tests,          \* _module_config["tests"]
          remaining,      \* the modules still to start
          running,        \* the module under way, or None
          repitems,       \* _repitems: what is accumulated for each module
          book,           \* _results, _categories, _expecteds and the headers
          md,             \* the markdown report
          device_result   \* what the runner sends

vars == <<tests, remaining, running, repitems, book, md, device_result>>

None == "none"
Results == {"pass", "fail", "skip", "info", "gone"}

-----------------------------------------------------------------------------
(* Accumulating                                                              *)

NoFields == [lines |-> <<>>, code |-> None, exception |-> FALSE]

\* _repitems.setdefault(test_name, {}).update(result_dict)
accumulate(items, name, field, value) ==
    LET known == IF \E k \in DOMAIN items : items[k].name = name THEN items
                 ELSE Append(items, NoFields @@ [name |-> name])
    IN  [k \in DOMAIN known |->
            IF known[k].name = name /\ field # None THEN [known[k] EXCEPT ![field] = value]
            ELSE known[k]]

-----------------------------------------------------------------------------
(* The results                                                               *)

\* _get_test_info
NoInfo == [name |-> None, category |-> None, expected |-> None, required |-> None]
get_test_info(test) ==
    IF \E k \in DOMAIN tests : tests[k].name = test
    THEN tests[CHOOSE k \in DOMAIN tests : tests[k].name = test] ELSE NoInfo

OrOther(value) == IF value = None THEN "Other" ELSE value
AppendNew(seq, x) == IF Contains(seq, x) THEN seq ELSE Append(seq, x)

\* _accumulate_result: a test that is reported twice raises.
accumulate_result(b, test, result, module) ==
    LET info == get_test_info(test)
        category == OrOther(info.category)
        expected == OrOther(info.expected)
    IN  IF b.raised \/ \E k \in DOMAIN b.results : b.results[k].test = test
        THEN [b EXCEPT !.raised = TRUE]
        ELSE [b EXCEPT
                !.result_headers = AppendNew(@, result),
                !.categories = AppendNew(@, category),
                !.expected_headers = AppendNew(@, expected),
                !.expecteds = BagAdd(@, <<expected, result>>),
                !.results = Append(@, [test |-> test, result |-> result, module |-> module,
                                       category |-> category, expected |-> expected])]

EmptyBook == [raised |-> FALSE, results |-> <<>>, result_headers |-> <<>>, categories |-> <<>>,
              expected_headers |-> <<>>, expecteds |-> EmptyBag, missing |-> <<>>]

missing_of_required_passes(b) ==
    FoldLeft(LAMBDA acc, info :
                IF info.required = "pass" /\ ~\E k \in DOMAIN acc.results : acc.results[k].test = info.name
                THEN [accumulate_result(acc, info.name, "gone", None) EXCEPT
                        !.missing = Append(@, info.name)]
                ELSE acc,
             b, tests)

\* _find_missing_test_results: a required test without a result is "gone".
find_missing_test_results(b) ==
    FoldLeft(LAMBDA acc, info :
                IF info.required # None /\ ~\E k \in DOMAIN acc.results : acc.results[k].test = info.name
                THEN [accumulate_result(acc, info.name, "gone", None) EXCEPT
                        !.missing = Append(@, info.name)]
                ELSE acc,
             b, tests)

\* _process_results
process_results(items) ==
    LET module_lines(acc, item) ==
            FoldLeft(LAMBDA b, line : accumulate_result(b, line.test, line.result, item.name),
                     acc, item.lines)
        reported == FoldLeft(module_lines, EmptyBook, items)
    IN  IF reported.raised THEN reported ELSE find_missing_test_results(reported)

-----------------------------------------------------------------------------
(* The tables                                                                *)

\* _analyse_and_write_results: a test with a required result must have it.
overall_result(b) ==
    IF \A k \in DOMAIN b.results :
            LET required == get_test_info(b.results[k].test).required
            IN  required # None => b.results[k].result = required
    THEN "PASS" ELSE "FAIL"

reports_gone(b) ==
    \E k \in DOMAIN b.results :
        /\ get_test_info(b.results[k].test).required # None
        /\ b.results[k].result = "gone"

Column(result) ==
    CASE result \in {"pass", "info"} -> "PASS" [] result = "skip" -> "SKIP" [] OTHER -> "FAIL"

rolling_last(verdict, result) == IF result = "info" /\ verdict # "n/a" THEN verdict ELSE result

\* The rolling result of a category, and what it does to the result it meets:
\* a later "info" is turned into "pass".
rolling_result(verdict, result) ==
    IF verdict \notin {result, "n/a"} THEN (IF result = "info" THEN verdict ELSE "fail") ELSE result
rolled_result(verdict, result) ==
    IF verdict \notin {result, "n/a"} /\ result = "info" THEN "pass" ELSE result

\* One row of _write_category_table: only tests with a required result count.
category_row(results, category) ==
    FoldLeft(LAMBDA row, k :
                LET r == row.results[k]
                IN  IF r.category = category /\ get_test_info(r.test).required # None
                    THEN [row EXCEPT !.total = @ + 1,
                                     !.cells = BagAdd(@, <<r.expected, Column(r.result)>>),
                                     !.verdict = rolling_result(@, r.result),
                                     !.results[k].result = rolled_result(row.verdict, r.result)]
                    ELSE row,
             [category |-> category, total |-> 0, cells |-> EmptyBag, verdict |-> "n/a",
              results |-> results],
             [k \in DOMAIN results |-> k])

\* The rows of all categories, each with the results the ones before it left.
category_table(b) ==
    FoldLeft(LAMBDA rows, category :
                Append(rows, category_row(IF rows = <<>> THEN b.results ELSE Last(rows).results,
                                          category)),
             <<>>, b.categories)

\* _write_md_report. The tables of expectations and results only print b.
write_md_report(b) ==
    LET rows == category_table(b)
    IN  [overall |-> overall_result(b), gone |-> reports_gone(b), rows |-> rows,
         results |-> IF rows = <<>> THEN b.results ELSE Last(rows).results]

NoReport == [overall |-> None, gone |-> FALSE, rows |-> <<>>, results |-> <<>>]

-----------------------------------------------------------------------------
(* The result of the device                                                  *)

\* The results that modules reported, as the tables left them: the tests that
\* are "gone" belong to no module.
module_tests(results, name) == {results[k].result : k \in {j \in DOMAIN results : results[j].module = name}}

device_result_of_reports(items, results) ==
    IF \E k \in DOMAIN items :
            \/ items[k].code = "nonzero"
            \/ \E r \in module_tests(results, items[k].name) : r \notin {"pass", "skip"}
    THEN "failed" ELSE "passed"

\* _calculate_device_result
calculate_device_result(items, results) ==
    LET failed(item) == \/ item.exception
                        \/ item.code = "nonzero"
                        \/ \E r \in module_tests(results, item.name) : r \notin {"pass", "skip"}
        processed == {k \in DOMAIN items : items[k].code # None}
    IN  IF \/ \E k \in DOMAIN items : failed(items[k])
           \/ Len(enabled_tests) # Cardinality(processed)
        THEN "failed" ELSE "passed"

-----------------------------------------------------------------------------
Init == /\ tests \in Configs
        /\ remaining = enabled_tests
        /\ running = None
        /\ repitems = <<>>
        /\ book = EmptyBook
        /\ md = NoReport
        /\ device_result = None

\* The host starts its next module: record_result accumulates its configuration.
start_test ==
    /\ device_result = None /\ running = None /\ remaining # <<>>
    /\ running' = Head(remaining)
    /\ remaining' = Tail(remaining)
    /\ repitems' = accumulate(repitems, Head(remaining), None, None)
    /\ UNCHANGED <<tests, book, md, device_result>>

\* _end_test: the report the module wrote, then its exception and its code.
end_test(lines, code, exception) ==
    /\ device_result = None /\ running # None
    /\ LET reported == accumulate(repitems, running, "lines", lines)
           excepted == IF exception THEN accumulate(reported, running, "exception", TRUE)
                       ELSE reported
       IN  repitems' = accumulate(excepted, running, "code", code)
    /\ running' = None
    /\ UNCHANGED <<tests, remaining, book, md, device_result>>

\* The host ends, at any time (terminate, _finalize_report): the PDF conversion
\* may fail after the markdown report was written. An exception is logged by
\* target_set_complete, and the result of the device is then not sent.
finalize(pdf_written) ==
    /\ device_result = None
    /\ book' = process_results(repitems)
    /\ md' = IF book'.raised THEN NoReport ELSE write_md_report(book')
    /\ device_result' = IF book'.raised \/ ~pdf_written THEN "unsent"
                        ELSE calculate_device_result(repitems, md'.results)
    /\ UNCHANGED <<tests, remaining, running, repitems>>

Next == \/ start_test
        \/ running # None /\ \E lines \in ReportLines[running], ending \in {<<"zero", FALSE>>, <<"nonzero", FALSE>>, <<None, TRUE>>} :
              end_test(lines, ending[1], ending[2])
        \/ \E pdf_written \in BOOLEAN : finalize(pdf_written)

Spec == Init /\ [][Next]_vars

-----------------------------------------------------------------------------
(* Properties of a report that was written                                   *)

Written == md # NoReport
Reported == UNION {{line.test : line \in ToSet(item.lines)} : item \in ToSet(repitems)}
Required == {tests[k].name : k \in {j \in DOMAIN tests : tests[j].required # None}}
Rows == ToSet(md.rows)

\* A required test is always in the report, once: with the result a module
\* reported or, when none did, as gone and in the list of missing tests.
RequiredIsTracked ==
    Written =>
        /\ \A test \in Required : Cardinality({k \in DOMAIN md.results : md.results[k].test = test}) = 1
        /\ ToSet(book.missing) = Required \ Reported
        /\ \A k \in DOMAIN md.results :
              md.results[k].result = "gone" <=> md.results[k].test \in ToSet(book.missing)
        /\ book.missing # <<>> => md.gone

\* The category table adds up: every test with a required result is counted in
\* exactly one cell, under a header of the table.
TablesAddUp ==
    Written =>
        /\ \A row \in Rows : row.total = BagCardinality(row.cells)
        /\ \A row \in Rows : \A cell \in DOMAIN row.cells : Contains(book.expected_headers, cell[1])
        /\ FoldLeft(LAMBDA n, row : n + row.total, 0, md.rows)
              = Cardinality({k \in DOMAIN book.results : book.results[k].test \in Required})

\* A category that the table calls PASS has no failed and no skipped test.
PassRowIsClean ==
    \A row \in Rows : row.verdict = "pass" => \A cell \in DOMAIN row.cells : cell[2] = "PASS"

\* Where every required result is "pass", a device that passes overall passes in
\* every category, and no test is gone.
OverallPassIsEverywhere ==
    (md.overall = "PASS" /\ \A k \in DOMAIN tests : tests[k].required \in {None, "pass"})
    => /\ \A row \in Rows : row.verdict \in {"pass", "n/a"}
       /\ ~md.gone

\* The tables of the report agree with each other, with the results and with the
\* overall result (_write_category_table, _analyse_and_write_results).
TablesAreSound == TablesAddUp /\ PassRowIsClean /\ OverallPassIsEverywhere

\* The controller is told that a device passed only when every enabled module
\* ran to a return code of zero without an exception, and no module reported a
\* failure.
PassedRanEverything ==
    device_result = "passed" =>
        /\ remaining = <<>> /\ running = None
        /\ \A k \in DOMAIN repitems :
              /\ repitems[k].code = "zero" /\ ~repitems[k].exception
              /\ \A j \in DOMAIN repitems[k].lines : repitems[k].lines[j].result # "fail"

\* The comment of _write_category_table (report.py:334): "Consider info and pass
\* alike". A category whose tests all passed or were informational does not fail.
InfoLikePass ==
    \A row \in Rows : (\A cell \in DOMAIN row.cells : cell[2] = "PASS") => row.verdict # "fail"
=============================================================================
