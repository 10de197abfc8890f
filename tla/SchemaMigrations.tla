-------------------------- MODULE SchemaMigrations --------------------------
(***************************************************************************)
(* Alembic and its four revisions of the schema.  A run takes the database *)
(* from the revision it is stamped with to another one, statement by       *)
(* statement, and may be interrupted between two of them.  The schema is   *)
(* the set of what each table has: columns and unique indexes.  Types,     *)
(* defaults and indexes that only make queries faster are left out.        *)
(*                                                                         *)
(* A definition whose comment begins with "Slip" is not part of Next: it   *)
(* is its neighbour with a plausible mistake, and some property below      *)
(* fails when it takes its neighbour's place.                              *)
(***************************************************************************)
EXTENDS Naturals, Sequences

VARIABLES
    schema,   \* pairs <<table, what it has>>
    version,  \* alembic_version, 0 without one
    run       \* the run under way and what the database held before it

schemaVars == <<schema, version, run>>

HeadRevision == 4  \* the newest revision: 20260427_0004

Idle == [to |-> HeadRevision, at |-> 0, before |-> <<{}, 0>>]

\* Unique indexes, named for their columns.
UniqueDelivery == "unique delivery_id"
UniqueCorrelation == "unique correlation_id"

\* What app/models declares.
Models ==
    [flaky_test_runs |->
        {"id", "test_name", "suite_name", "branch_name", "ci_provider",
         "workflow_name", "job_name", "run_url", "commit_sha", "failure_log",
         "status", "error_message", "cluster_key", "suspected_root_cause",
         "suggested_fix", "created_at", "updated_at"},
     pull_requests |->
        {"id", "delivery_id", "installation_id", "repo_full_name",
         "pr_number", "title", "author", "diff_text", "status",
         "error_message", "created_at", "updated_at", UniqueDelivery},
     pull_request_analyses |->
        {"id", "pull_request_id", "summary", "risks", "suggested_tests",
         "model_provider", "created_at"},
     observability_correlations |->
        {"id", "correlation_id", "resource_type", "resource_id",
         "pull_request_id", "flaky_test_id", "repo_full_name", "commit_sha",
         "dispatch_backend", "task_id", "request_id", "delivery_id",
         "github_check_run_id", "github_check_run_name",
         "github_check_run_status", "github_check_run_conclusion",
         "github_check_run_url", "github_workflow_name", "github_job_name",
         "github_run_url", "cloudwatch_log_group", "cloudwatch_log_stream",
         "cloudwatch_log_url", "event_metadata", "created_at", "updated_at",
         UniqueCorrelation}]

Of(t, has) == {t} \X has

Declared == UNION {Of(t, Models[t]) : t \in DOMAIN Models}

\* Foreign keys.
References == {<<"pull_request_analyses", "pull_requests">>,
               <<"observability_correlations", "pull_requests">>,
               <<"observability_correlations", "flaky_test_runs">>}

Create(t, has) == [do |-> "create", table |-> t, has |-> has]
Drop(t) == [do |-> "drop", table |-> t, has |-> {}]
Add(t, c) == [do |-> "add", table |-> t, has |-> {c}]
Remove(t, c) == [do |-> "remove", table |-> t, has |-> {c}]

----------------------------------------------------------------------------
(* The revisions. *)

Core == <<
    Create("flaky_test_runs",
           {"id", "test_name", "suite_name", "branch_name", "failure_log",
            "status", "cluster_key", "suspected_root_cause", "suggested_fix",
            "created_at", "updated_at"}),
    Create("pull_requests",
           {"id", "delivery_id", "installation_id", "repo_full_name",
            "pr_number", "title", "author", "diff_text", "status",
            "created_at", "updated_at"}),
    Add("pull_requests", UniqueDelivery),
    Create("pull_request_analyses",
           {"id", "pull_request_id", "summary", "risks", "suggested_tests",
            "model_provider", "created_at"})>>

CoreDown == <<Drop("pull_request_analyses"),
              Remove("pull_requests", UniqueDelivery),
              Drop("pull_requests"), Drop("flaky_test_runs")>>

Errors == <<Add("pull_requests", "error_message"),
            Add("flaky_test_runs", "error_message")>>

ErrorsDown == <<Remove("flaky_test_runs", "error_message"),
                Remove("pull_requests", "error_message")>>

CiColumns == <<"ci_provider", "workflow_name", "job_name", "run_url",
               "commit_sha">>

Ci == [i \in 1..5 |-> Add("flaky_test_runs", CiColumns[i])]

CiDown == [i \in 1..5 |-> Remove("flaky_test_runs", CiColumns[6 - i])]

Tracing == <<
    Create("observability_correlations",
           {"id", "correlation_id", "resource_type", "resource_id",
            "pull_request_id", "flaky_test_id", "repo_full_name",
            "commit_sha", "dispatch_backend", "task_id", "request_id",
            "delivery_id", "github_check_run_id", "github_check_run_name",
            "github_check_run_status", "github_check_run_conclusion",
            "github_check_run_url", "github_workflow_name",
            "github_job_name", "github_run_url", "cloudwatch_log_group",
            "cloudwatch_log_stream", "cloudwatch_log_url", "event_metadata",
            "created_at", "updated_at"}),
    Add("observability_correlations", UniqueCorrelation)>>

TracingDown == <<Remove("observability_correlations", UniqueCorrelation),
                 Drop("observability_correlations")>>

Upgrade == <<Core, Errors, Ci, Tracing>>
Downgrade == <<CoreDown, ErrorsDown, CiDown, TracingDown>>

----------------------------------------------------------------------------
(* Statements. *)

TablesOf(s) == {x[1] : x \in s}

\* PostgreSQL accepts the statement.
Applies(st, s) ==
    CASE st.do = "create" ->
            /\ st.table \notin TablesOf(s)
            /\ \A r \in References : r[1] = st.table => r[2] \in TablesOf(s)
      [] st.do = "drop" ->
            /\ st.table \in TablesOf(s)
            /\ \A r \in References : r[2] = st.table => r[1] \notin TablesOf(s)
      [] st.do = "add" ->
            st.table \in TablesOf(s) /\ Of(st.table, st.has) \cap s = {}
      [] st.do = "remove" -> Of(st.table, st.has) \subseteq s

After(st, s) ==
    CASE st.do \in {"create", "add"} -> s \cup Of(st.table, st.has)
      [] st.do = "remove" -> s \ Of(st.table, st.has)
      [] st.do = "drop" -> {x \in s : x[1] # st.table}

\* The revision that is being applied or undone.
Script == IF version < run.to THEN Upgrade[version + 1] ELSE Downgrade[version]

Running == run.at # 0

SchemaInit == schema = {} /\ version = 0 /\ run = Idle

----------------------------------------------------------------------------
(* The actions. *)

\* alembic upgrade head, alembic downgrade <revision>
Begin(to) ==
    /\ ~Running
    /\ run' = [to |-> to, at |-> 1, before |-> <<schema, version>>]
    /\ UNCHANGED <<schema, version>>

Execute ==
    /\ Running
    /\ version # run.to
    /\ run.at <= Len(Script)
    /\ Applies(Script[run.at], schema)
    /\ schema' = After(Script[run.at], schema)
    /\ run' = [run EXCEPT !.at = @ + 1]
    /\ UNCHANGED version

\* The revision is done.
Stamp ==
    /\ Running
    /\ version # run.to
    /\ run.at > Len(Script)
    /\ version' = IF version < run.to THEN version + 1 ELSE version - 1
    /\ run' = [run EXCEPT !.at = 1]
    /\ UNCHANGED schema

\* The one transaction around all revisions is committed.
Finish ==
    /\ Running
    /\ version = run.to
    /\ run' = Idle
    /\ UNCHANGED <<schema, version>>

\* Slip: every statement is committed by itself.
InterruptCommitted ==
    /\ Running
    /\ run' = Idle
    /\ UNCHANGED <<schema, version>>

\* The process ends in between: PostgreSQL rolls its transaction back.
Interrupt ==
    /\ Running
    /\ schema' = run.before[1]
    /\ version' = run.before[2]
    /\ run' = Idle

----------------------------------------------------------------------------
(* Properties. *)

\* No statement of an upgrade or a downgrade is refused, whatever was applied,
\* undone and interrupted before.
StatementsApply ==
    Running /\ version # run.to /\ run.at <= Len(Script) =>
        Applies(Script[run.at], schema)
=============================================================================
