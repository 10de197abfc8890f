---------------------------- MODULE MCSqsDispatch ----------------------------
(* A finite instance of SqsDispatch.                                         *)
EXTENDS SqsDispatch, FiniteSetsExt, TLC

CONSTANTS flaky, api, legacy, bare, forFlaky, forAll,
          MaxReceivesInAll  \* bound: how often messages are received, all told

WorkflowOf == [j \in {flaky} |-> "flaky_test_triage"]

Own(machine) == [w \in Workflows |->
                    IF w = "flaky_test_triage" THEN machine ELSE forAll]

\* One process with a machine for flaky runs, one that starts executions itself
\* with the machine for everything, and one that has none for flaky runs.
SettingsOf ==
    (api :> [backend |-> "sqs_step_functions", queue |-> TRUE,
             own |-> Own(forFlaky), shared |-> forAll])
    @@ (legacy :> [backend |-> "step_functions", queue |-> FALSE,
                   own |-> Own(Unset), shared |-> forAll])
    @@ (bare :> [backend |-> "sqs_step_functions", queue |-> TRUE,
                 own |-> Own(Unset), shared |-> Unset])

FewReceives == MapThenSumSet(LAMBDA m : receives[m], Messages) <= MaxReceivesInAll

Symmetry == Permutations(Lambdas)
=============================================================================
