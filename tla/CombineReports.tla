--------------------------- MODULE CombineReports ---------------------------
(***************************************************************************)
(* Combining the reports of a device: which reports are taken, from the     *)
(* local directory or from the cloud (bin/python/combine_reports.py and      *)
(* daq/gcp.py, get_reports), and the counts over them; and the counting of   *)
(* ACL rules over the samples of a switch (daq/acl_state_collector.py).      *)
(***************************************************************************)
EXTENDS Integers, FiniteSetsExt, Functions, SequencesExt

Always == 0    \* start, end or count not given
DEFAULT_LIMIT == 100

Newest(reports) == SetToSortSeq(reports, LAMBDA r, s : r.timestamp > s.timestamp)
First(seq, count) == IF count = Always \/ Len(seq) <= count THEN seq ELSE SubSeq(seq, 1, count)
InTime(report, start, end) ==
    (start = Always \/ report.timestamp >= start) /\ (end = Always \/ report.timestamp <= end)

\* _get_local_reports: the newest `count` files, and of those the ones in time
get_local_reports(reports, start, end, count) ==
    SelectSeq(First(Newest(reports), count), LAMBDA r : InTime(r, start, end))

\* GcpManager.get_reports: the newest `count` runs in time, and of those the
\* ones that have a report
get_reports(reports, start, end, count) ==
    LET limit_count == IF count = Always THEN DEFAULT_LIMIT ELSE count
    IN  SelectSeq(First(Newest({r \in reports : InTime(r, start, end)}), limit_count), LAMBDA r : r.uploaded)

-----------------------------------------------------------------------------
(* Counting                                                                  *)

\* The results of a report, by module and test
Entries(report) == UNION {{m} \X DOMAIN report.modules[m] : m \in DOMAIN report.modules}

Count(counts, key) == IF key \in DOMAIN counts THEN counts[key] ELSE 0

\* setdefault and add
CountOne(counts, key) == [k \in DOMAIN counts \cup {key} |-> Count(counts, k) + (IF k = key THEN 1 ELSE 0)]

count_first(counts, key) == IF key \in DOMAIN counts THEN counts ELSE CountOne(counts, key)

count_category_once(aggregate, test, entry) ==
    [aggregate EXCEPT !.tests = CountOne(@, <<test, entry.result>>),
                      !.categories = count_first(@, <<entry.category, entry.result>>)]

\* A result counts for its test and for its category.
count_result(aggregate, test, entry) ==
    [aggregate EXCEPT !.tests = CountOne(@, <<test, entry.result>>),
                      !.categories = CountOne(@, <<entry.category, entry.result>>)]

count_report(aggregate, report) ==
    LET stamped == [aggregate EXCEPT !.reports = @ \cup {report.timestamp}]
        missed == FoldLeft(LAMBDA acc, test : [acc EXCEPT !.missing = CountOne(@, test)],
                           stamped, report.missing_tests)
    IN  FoldSet(LAMBDA at, acc : count_result(acc, at[2], report.modules[at[1]][at[2]]),
                missed, Entries(report))

NoCounts == [tests |-> <<>>, categories |-> <<>>, missing |-> <<>>, reports |-> {}]

\* main: the counts over the reports
combine(json_reports) == FoldLeft(count_report, NoCounts, json_reports)

\* The local directory gives the reports that the cloud would, the newest first,
\* when every run has uploaded one and no end is asked for: with an end, the
\* local count is taken before the reports that are too late are left out.
LocalLikeCloud(reports, start, count) ==
    (\A r \in reports : r.uploaded)
    => get_local_reports(reports, start, Always, count) = get_reports(reports, start, Always, count)

\* Each result is counted once for its test and once for its category: both
\* tables hold as many results as the reports do, however often one repeats.
CountsAddUp(reports) ==
    LET aggregate == combine(Newest(reports))
        results == MapThenSumSet(LAMBDA r : Cardinality(Entries(r)), reports)
    IN  SumFunction(aggregate.tests) = results /\ SumFunction(aggregate.categories) = results

-----------------------------------------------------------------------------
(* ACL rule counts of the devices on the secondary switch                    *)

SEC_SWITCH == "sec"

\* _update_device_placements: a device under test is where the last sample of
\* the secondary switch says.
device_placements(duts, learned) ==
    FoldLeft(LAMBDA acc, sample :
                IF sample.dp_name # SEC_SWITCH \/ sample.eth_src \notin duts THEN acc
                ELSE [mac \in DOMAIN acc \cup {sample.eth_src} |->
                        IF mac = sample.eth_src THEN sample.port ELSE acc[mac]],
             <<>>, learned)

\* _verify_port_acl_config: the one ACL of a port that has exactly one
verify_port_acl_config(config, switch, port) ==
    IF switch \in DOMAIN config /\ port \in DOMAIN config[switch] /\ Len(config[switch][port]) = 1
    THEN config[switch][port] ELSE <<>>

\* The first sample of a rule on a port; 0 is none.
sample_of(rule, switch, port, samples) ==
    SelectInSeq(samples, LAMBDA s : s.cookie = rule.cookie /\ s.dp_name = switch /\ s.in_port = port)

\* _get_port_rule_counts: a rule without a cookie or a description is left out, one
\* without a sample is an error.
port_rule_counts(config, switch, port, samples) ==
    LET acl == verify_port_acl_config(config, switch, port)
        rules == IF acl = <<>> THEN <<>> ELSE SelectSeq(acl[1], LAMBDA r : r.cookie # 0 /\ r.description # "")
        found(r) == sample_of(r, switch, port, samples)
    IN  [rules |-> FoldLeft(LAMBDA acc, r :
                              IF found(r) = 0 THEN acc
                              ELSE [d \in DOMAIN acc \cup {r.description} |->
                                      IF d = r.description THEN samples[found(r)].value ELSE acc[d]],
                            <<>>, rules),
         errors |-> IF acl = <<>> THEN 1 ELSE Len(SelectSeq(rules, LAMBDA r : found(r) = 0))]

\* get_device_rule_counts
device_rule_counts(config, duts, learned, samples) ==
    LET placements == device_placements(duts, learned)
    IN  [mac \in DOMAIN placements |-> port_rule_counts(config, SEC_SWITCH, placements[mac], samples)]

\* What is reported for a device are counts of samples of the port it is on, of the
\* rules of that port's ACL, though cookies are the same on every port.
CountsOfItsPort(config, duts, learned, samples) ==
    LET counts == device_rule_counts(config, duts, learned, samples)
    IN  \A mac \in DOMAIN counts :
            \E k \in DOMAIN learned :
                LET port == learned[k].port
                    rules == UNION {UNION {ToSet(acl) : acl \in ToSet(config[SEC_SWITCH][p])} :
                                    p \in {port} \cap DOMAIN config[SEC_SWITCH]}
                IN  /\ learned[k].eth_src = mac /\ learned[k].dp_name = SEC_SWITCH
                    /\ \A d \in DOMAIN counts[mac].rules :
                          \E s \in ToSet(samples), r \in rules :
                              /\ s.dp_name = SEC_SWITCH /\ s.in_port = port /\ s.cookie = r.cookie
                              /\ s.value = counts[mac].rules[d] /\ r.description = d
=============================================================================
