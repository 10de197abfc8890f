--------------------------- MODULE MCCorrelations ---------------------------
(* Instances of Correlations for TLC.                                       *)
EXTENDS Correlations, TLC

CONSTANTS one, two, three, four, c1, c2, d1, t1, t2, t3, r1, r2, note, logs,
          mine

First == <<"flaky_test_run", one>>
Second == <<"flaky_test_run", two>>
Third == <<"flaky_test_run", three>>
Pull == <<"pull_request", four>>

AllJobs == {First, Second, Third, Pull}
TwoRuns == {Second, Third}

\* The first run has a check run of its own, the others failed in the same
\* one, which an observation says is the pull request's, too.
CheckRuns == (First :> c1) @@ (Second :> c2) @@ (Third :> c2) @@ (Pull :> Null)
Deliveries == [j \in AllJobs |-> IF j = Pull THEN d1 ELSE Null]
Streams == [j \in AllJobs |-> Null]
\* The dispatch of the pull request is answered without an id.
Tasks == (First :> t1) @@ (Second :> t2) @@ (Third :> t3) @@ (Pull :> Null)

OfTask == [Blank EXCEPT !["github_check_run_id"] = c1,
                        !["task_id"] = t1,
                        !["cloudwatch_log_stream"] = mine]
OfPull == [Blank EXCEPT !["resource_type"] = "pull_request",
                        !["resource_id"] = four,
                        !["github_check_run_id"] = c2]

Mixed == {OfTask, OfPull}
Nothing == {}

\* A direct observation gives an entry of the sender's, besides those of the
\* context that all requests add.
Keys == {"request_id", "build"}
Given == {[NoNotes EXCEPT !["build"] = note]}
Ungiven == {NoNotes}

\* The first run is a subject of its own; the other resources and all that
\* their rows can be torn into are one.
SubjectOfName(name) ==
    IF name \in {First, <<"github_check_run", c1>>, <<"task", t1>>} THEN 1
    ELSE IF name \in (Types \X {two, three, four})
                     \cup {<<"github_check_run", c2>>, <<"delivery", d1>>,
                           <<"task", t2>>, <<"task", t3>>} THEN 2
    ELSE IF name[2] = one THEN 3 ELSE 4

Subjects == [name \in (Types \X Ids)
                      \cup ({"task", "delivery", "github_check_run"} \X Tags)
             |-> SubjectOfName(name)]

ASSUME SubjectsAssumption == OneSubjectEach(Subjects)

CheckRunsOfTwo == [j \in TwoRuns |-> CheckRuns[j]]
DeliveriesOfTwo == [j \in TwoRuns |-> Deliveries[j]]
StreamsOfTwo == [j \in TwoRuns |-> Null]
TasksOfTwo == [j \in TwoRuns |-> Tasks[j]]

SessionSymmetry == Permutations(Sessions) \cup Permutations(RequestIds)
=============================================================================
