---------------------------- MODULE Correlations ----------------------------
(***************************************************************************)
(* The table observability_correlations: one row is to tie a pull request  *)
(* or a flaky test run to its check run, its task and its log group.       *)
(* Three kinds of requests write it: the two workflows, which store a job, *)
(* ingest it and record its dispatch, and the direct observations of check *)
(* runs.  Each write reads in one step and commits in a later one, so that *)
(* other requests run in between.                                          *)
(*                                                                         *)
(* Columns that only describe (names, URLs, the commit) are left out; the  *)
(* others hold Null or an abstract value.  event_metadata is a dictionary  *)
(* into which every observation merges the entries it gives and the log    *)
(* context of its request, key by key; an entry that is not there is Null. *)
(* An integer of a request may be Zero: "or" takes it for absent, "is not  *)
(* None" does not.                                                         *)
(*                                                                         *)
(* A definition whose comment begins with "Slip" is not part of Next: it   *)
(* is its neighbour with a plausible mistake, and some property below      *)
(* fails when it takes its neighbour's place.                              *)
(***************************************************************************)
EXTENDS Naturals, Sequences, FiniteSets

CONSTANTS
    Jobs,          \* pairs <<resource type, primary key>> the API may store
    Sessions,      \* request handlers that write the table at the same time
    Observations,  \* what direct observations say, and
    Metadata,      \* what they give for event_metadata
    RequestIds,    \* ids of requests: X-Request-ID repeats as senders please
    CheckRun,      \* the check run the triage request of a job names
    Delivery,      \* the delivery id a pull request job is stored with
    Stream,        \* the log stream the triage request of a job names
    Task,          \* the task id the dispatch of a job returns, or Null
    LogGroup,      \* settings.cloudwatch_log_group, Null if it is empty
    Ids,           \* the primary keys, and
    Tags,          \* every other value a column may hold
    NoteKeys,      \* the keys event_metadata may have
    Null, Zero,
    MaxRows        \* bound: rows the table may hold

Types == {"pull_request", "flaky_test_run"}

Columns == {"resource_type", "resource_id", "pull_request_id",
            "flaky_test_id", "task_id", "request_id", "delivery_id",
            "github_check_run_id", "dispatch_backend",
            "cloudwatch_log_group", "cloudwatch_log_stream"}

Values == Types \cup {"celery"} \cup Ids \cup Tags

\* What a column holds when it holds anything.
Kind == [c \in Columns |->
            CASE c = "resource_type" -> Types
              [] c = "dispatch_backend" -> {"celery"}
              [] c \in {"resource_id", "pull_request_id", "flaky_test_id"} -> Ids
              [] OTHER -> Tags]

Contents == {has \in [Columns -> Values \cup {Null}] :
                \A c \in Columns : has[c] \in Kind[c] \cup {Null}}

Blank == [c \in Columns |-> Null]

\* event_metadata, and what a request adds to it.
Notes == [NoteKeys -> Tags \cup {Null}]

NoNotes == [k \in NoteKeys |-> Null]

\* A primary key starts at one.
ASSUME JobsAssumption == Jobs \subseteq Types \X (Ids \ {Zero})
ASSUME NullAssumption == Null \notin Values
ASSUME ZeroAssumption == Zero \notin Types
ASSUME ObservationsAssumption ==
    \A o \in Observations :
       /\ o \in Contents
       /\ o["dispatch_backend"] = Null
       /\ \A c \in Columns : Kind[c] = Tags /\ o[c] = Zero =>
             c = "github_check_run_id"
ASSUME MetadataAssumption == Metadata \subseteq Notes
ASSUME RequestIdsAssumption == RequestIds \subseteq Tags
ASSUME CheckRunAssumption == CheckRun \in [Jobs -> Tags \cup {Null}]
ASSUME DeliveryAssumption == Delivery \in [Jobs -> Tags \cup {Null}]
ASSUME StreamAssumption == Stream \in [Jobs -> Tags \cup {Null}]
ASSUME TaskAssumption == Task \in [Jobs -> Tags \cup {Null}]
ASSUME LogGroupAssumption == LogGroup \in Tags \cup {Null}
ASSUME MaxRowsAssumption == MaxRows \in Nat

VARIABLES
    rows,      \* the table, in the order of the primary key
    stored,    \* the jobs that pull_requests and flaky_test_runs hold
    session,   \* where a request stands and the row it has loaded
    traced,    \* history: the jobs whose workflow was answered with success
    refused    \* history: the observations that ended in an error

history == <<traced, refused>>
vars == <<rows, stored, session, history>>

CorrelationIds ==
    (Types \cup {"request", "delivery", "task", "github_check_run", "correlation"})
        \X (Ids \cup Tags \cup Nat)

Rows == [id : CorrelationIds, has : Contents, notes : Notes]

NoJob == <<Null, Null>>

IdleSession == [at |-> "idle", job |-> NoJob, said |-> Blank,
                gives |-> NoNotes, row |-> 0, loaded |-> Blank,
                noted |-> NoNotes]

Init ==
    /\ rows = <<>>
    /\ stored = {}
    /\ session = [s \in Sessions |-> IdleSession]
    /\ traced = {}
    /\ refused = {}

----------------------------------------------------------------------------
(* Looking for the row that an observation is about. *)

NamesResource(o) == o["resource_type"] # Null /\ o["resource_id"] # Null

\* _build_correlation_id: the strongest token there is, else a fresh uuid.
CorrelationId(o) ==
    IF o["request_id"] # Null THEN <<"request", o["request_id"]>>
    ELSE IF o["delivery_id"] # Null THEN <<"delivery", o["delivery_id"]>>
    ELSE IF o["task_id"] # Null THEN <<"task", o["task_id"]>>
    ELSE IF NamesResource(o) THEN <<o["resource_type"], o["resource_id"]>>
    ELSE IF o["github_check_run_id"] # Null
    THEN <<"github_check_run", o["github_check_run_id"]>>
    ELSE <<"correlation", Len(rows) + 1>>

Newest(ns) == {n \in ns : \A m \in ns : m <= n}

ListForResource(type, id) ==
    {n \in DOMAIN rows : /\ rows[n].has["resource_type"] = type
                         /\ rows[n].has["resource_id"] = id}

ByResource(type, id) == Newest(ListForResource(type, id))

\* A query without an order: any of them may be the first.
ByCheckRun(check) ==
    {n \in DOMAIN rows : rows[n].has["github_check_run_id"] = check}

ByCorrelationId(id) == {n \in DOMAIN rows : rows[n].id = id}

\* _find_existing: a check run that is not found ends the search.
FindExisting(o) ==
    LET own == ByResource(o["resource_type"], o["resource_id"]) IN
    IF NamesResource(o) /\ own # {} THEN own
    ELSE IF o["github_check_run_id"] # Null
    THEN ByCheckRun(o["github_check_run_id"])
    ELSE ByCorrelationId(CorrelationId(o))

----------------------------------------------------------------------------
(* What is written into a row. *)

\* _apply_resource_pointer
Pointed(has, type, id) ==
    [c \in Columns |->
        CASE c = "pull_request_id" /\ type = "pull_request" -> id
          [] c = "flaky_test_id" /\ type = "flaky_test_run" -> id
          [] OTHER -> has[c]]

OrLogGroup(has) ==
    [has EXCEPT !["cloudwatch_log_group"] = IF @ = Null THEN LogGroup ELSE @]

\* Slip: what the observation does not mention is cleared.
AppliedPlainly(has, o) ==
    OrLogGroup([o EXCEPT !["dispatch_backend"] = has["dispatch_backend"]])

\* Slip: the pointer column is left to the sender of the observation.
AppliedUnpointed(has, o) ==
    OrLogGroup([c \in Columns |->
                  IF o[c] \notin {Null, Zero} THEN o[c] ELSE has[c]])

\* _apply_observation: what the observation does not mention is kept.
Applied(has, o) ==
    LET base == IF NamesResource(o)
                THEN Pointed(has, o["resource_type"], o["resource_id"])
                ELSE has
    IN  OrLogGroup([c \in Columns |->
                      IF o[c] \notin {Null, Zero} THEN o[c] ELSE base[c]])

\* Slip: task id and backend are passed in the wrong order.
DispatchedSwapped(has, job, new) ==
    [has EXCEPT !["task_id"] = "celery", !["dispatch_backend"] = Task[job]]

\* record_dispatch on a row that was found, or on a new one.
Dispatched(has, job, new) ==
    LET base == IF new
                THEN Pointed([has EXCEPT !["resource_type"] = job[1],
                                         !["resource_id"] = job[2]],
                             job[1], job[2])
                ELSE has
    IN  OrLogGroup([base EXCEPT !["task_id"] = Task[job],
                                !["dispatch_backend"] = "celery"])

\* Slip: the column is not declared unique.
UnindexedId(id) == TRUE

\* The unique index on correlation_id admits a new row.
UniqueId(id) == ByCorrelationId(id) = {}

\* The foreign keys of the two pointer columns.
Anchored(has) ==
    /\ has["pull_request_id"] # Null =>
          <<"pull_request", has["pull_request_id"]>> \in stored
    /\ has["flaky_test_id"] # Null =>
          <<"flaky_test_run", has["flaky_test_id"]>> \in stored

\* A commit's UPDATE names only the columns whose value in the session
\* differs from the value it loaded.
Flush(loaded, has, current) ==
    [c \in Columns |-> IF has[c] = loaded[c] THEN current[c] ELSE has[c]]

\* What session s is about to commit.
IdOf(s) ==
    IF session[s].at = "record" THEN session[s].job
    ELSE CorrelationId(session[s].said)

HasOf(s) ==
    LET q == session[s] IN
    IF q.at = "record" THEN Dispatched(q.loaded, q.job, q.row = 0)
    ELSE Applied(q.loaded, q.said)

\* {**older, **newer}
Merged(older, newer) ==
    [k \in NoteKeys |-> IF newer[k] # Null THEN newer[k] ELSE older[k]]

\* get_serialized_log_context: the middleware has bound the request, and a
\* webhook the delivery.
LogContextOf(j, request) ==
    [k \in NoteKeys |-> CASE k = "request_id" -> request
                         [] k = "delivery_id" /\ j # NoJob -> Delivery[j]
                         [] OTHER -> Null]

\* Slip: what the column holds is replaced, not merged.
NotesReplaced(s) ==
    IF session[s].at = "record" THEN session[s].noted ELSE session[s].gives

\* event_metadata is read, merged and assigned as a whole.
NotesOf(s) ==
    IF session[s].at = "record" THEN session[s].noted
    ELSE Merged(session[s].noted, session[s].gives)

\* Slip: the check run is declared unique, too.
AdmittedOncePerCheckRun(s) ==
    /\ Anchored(HasOf(s))
    /\ session[s].row = 0 =>
          /\ UniqueId(IdOf(s))
          /\ \/ HasOf(s)["github_check_run_id"] = Null
             \/ ByCheckRun(HasOf(s)["github_check_run_id"]) = {}

Admitted(s) == Anchored(HasOf(s)) /\ (session[s].row = 0 => UniqueId(IdOf(s)))

Commit(s) ==
    LET q == session[s] IN
    /\ Admitted(s)
    /\ rows' = IF q.row = 0
               THEN Append(rows, [id |-> IdOf(s), has |-> HasOf(s),
                                  notes |-> NotesOf(s)])
               ELSE [rows EXCEPT ![q.row] =
                       [id |-> @.id,
                        has |-> Flush(q.loaded, HasOf(s), @.has),
                        notes |-> IF NotesOf(s) = q.noted THEN @.notes
                                  ELSE NotesOf(s)]]

----------------------------------------------------------------------------
(* The requests. *)

\* What record_pull_request_ingest and record_flaky_triage_ingest say of j.
Ingested(j) ==
    [Pointed(Blank, j[1], j[2]) EXCEPT
        !["resource_type"] = j[1],
        !["resource_id"] = j[2],
        !["github_check_run_id"] = CheckRun[j],
        !["delivery_id"] = Delivery[j],
        !["cloudwatch_log_stream"] = Stream[j]]

\* Bound: no request starts that would need a row beyond MaxRows.
RoomForRequest ==
    Len(rows) + Cardinality({s \in Sessions : session[s].at # "idle"}) < MaxRows

\* The SELECT finds one of ns, or nothing.
Load(s, j, o, gives, ns, at) ==
    \E n \in IF ns = {} THEN {0} ELSE ns :
        session' = [session EXCEPT ![s] =
                      [at |-> at, job |-> j, said |-> o, gives |-> gives,
                       row |-> n,
                       loaded |-> IF n = 0 THEN Blank ELSE rows[n].has,
                       noted |-> IF n = 0 THEN NoNotes ELSE rows[n].notes]]

End(s) == session' = [session EXCEPT ![s] = IdleSession]

\* create_triage_job and create_analysis_job store the job first.
StoreJob(s, j, request) ==
    /\ session[s].at = "idle"
    /\ j \notin stored
    /\ RoomForRequest
    /\ stored' = stored \cup {j}
    /\ session' = [session EXCEPT ![s] =
                      [IdleSession EXCEPT !.at = "ingest", !.job = j,
                                   !.gives = LogContextOf(j, request)]]
    /\ UNCHANGED <<rows, history>>

Ingest(s) ==
    LET said == Ingested(session[s].job) IN
    /\ session[s].at = "ingest"
    /\ Load(s, session[s].job, said, session[s].gives, FindExisting(said),
            "observe")
    /\ UNCHANGED <<rows, stored, history>>

\* POST /observability/github-check-runs
Observe(s, o, given, request) ==
    /\ session[s].at = "idle"
    /\ RoomForRequest
    /\ Load(s, NoJob, o, Merged(given, LogContextOf(NoJob, request)),
            FindExisting(o), "observe")
    /\ UNCHANGED <<rows, stored, history>>

\* A workflow goes on to the dispatch, an observation is answered.
SaveObservation(s) ==
    /\ session[s].at = "observe"
    /\ Commit(s)
    /\ IF session[s].job = NoJob THEN End(s)
       ELSE session' = [session EXCEPT ![s] =
                          [IdleSession EXCEPT !.at = "dispatch",
                                       !.job = session[s].job]]
    /\ UNCHANGED <<stored, history>>

\* dispatch_* raised: mark_dispatch_failed does not touch this table.
DispatchFails(s) ==
    /\ session[s].at = "dispatch"
    /\ End(s)
    /\ UNCHANGED <<rows, stored, history>>

\* The job is on its way; record_dispatch looks for its row.
Dispatch(s) ==
    LET j == session[s].job IN
    /\ session[s].at = "dispatch"
    /\ Load(s, j, Blank, NoNotes, ByResource(j[1], j[2]), "record")
    /\ UNCHANGED <<rows, stored, history>>

SaveDispatch(s) ==
    /\ session[s].at = "record"
    /\ Commit(s)
    /\ traced' = traced \cup {session[s].job}
    /\ End(s)
    /\ UNCHANGED <<stored, refused>>

\* An index or a foreign key refuses the commit; nothing catches it.
Refused(s) ==
    /\ session[s].at \in {"observe", "record"}
    /\ ~Admitted(s)
    /\ refused' = refused \cup {session[s].said}
    /\ End(s)
    /\ UNCHANGED <<rows, stored, traced>>

\* The process ends, or the database is away, between two commits.
RequestDies(s) ==
    /\ session[s].at # "idle"
    /\ End(s)
    /\ UNCHANGED <<rows, stored, history>>

Next ==
    \E s \in Sessions :
        \/ \E j \in Jobs, request \in RequestIds : StoreJob(s, j, request)
        \/ \E o \in Observations, given \in Metadata, request \in RequestIds :
              Observe(s, o, given, request)
        \/ Ingest(s)
        \/ SaveObservation(s)
        \/ DispatchFails(s)
        \/ Dispatch(s)
        \/ SaveDispatch(s)
        \/ Refused(s)
        \/ RequestDies(s)

Spec == Init /\ [][Next]_vars

----------------------------------------------------------------------------
(* Reading the logs of a row (GET .../cloudwatch-events). *)

\* Slip: the tokens are tried from the weakest to the strongest.
SearchWeakest(row) ==
    IF row.has["github_check_run_id"] # Null THEN row.has["github_check_run_id"]
    ELSE IF row.has["delivery_id"] # Null THEN row.has["delivery_id"]
    ELSE IF row.has["task_id"] # Null THEN row.has["task_id"]
    ELSE row.id

\* _build_cloudwatch_filter_pattern: the strongest token of the row.
SearchToken(row) ==
    LET ranked == <<"task_id", "request_id", "delivery_id",
                    "github_check_run_id">>
        filled == {k \in DOMAIN ranked : row.has[ranked[k]] # Null}
    IN  IF filled = {} THEN row.id
        ELSE row.has[ranked[CHOOSE k \in filled : \A m \in filled : k <= m]]

\* CloudWatchLogsService.get_events: a stream is read from its end, a group
\* without one is searched.
GetEvents(group, stream, pattern) ==
    IF stream # Null THEN [group |-> group, stream |-> stream]
    ELSE [group |-> group, pattern |-> pattern]

\* get_cloudwatch_events: what CloudWatch is asked under a correlation id.
Lookup(id) ==
    IF ByCorrelationId(id) = {} THEN "not found"
    ELSE LET row == rows[CHOOSE n \in ByCorrelationId(id) : TRUE]
             group == OrLogGroup(row.has)["cloudwatch_log_group"]
         IN  IF group = Null THEN "no log group"
             ELSE GetEvents(group, row.has["cloudwatch_log_stream"],
                            SearchToken(row))

----------------------------------------------------------------------------
(* Properties. *)

SessionStates ==
    [at : {"idle", "ingest", "observe", "dispatch", "record"},
     job : Jobs \cup {NoJob}, said : Contents, gives : Notes, row : Nat,
     loaded : Contents, noted : Notes]

TypeOK ==
    /\ rows \in Seq(Rows)
    /\ stored \subseteq Jobs
    /\ session \in [Sessions -> SessionStates]
    /\ \A s \in Sessions : session[s].row <= Len(rows)
    /\ traced \subseteq stored

\* A correlation id leads to one row, whoever writes at the same time
\* (README: query the correlation by id).
CorrelationIdsAreUnique ==
    \A m, n \in DOMAIN rows : rows[m].id = rows[n].id => m = n

\* Session s commits to row n, or makes it, in this step (or is cut off there).
Commits(s, n) ==
    /\ session[s].at \in {"observe", "record"}
    /\ session[s].row = IF n \in DOMAIN rows THEN n ELSE 0
    /\ session'[s] # session[s]

\* What a request has recorded in a column is replaced at most, never erased:
\* not by an observation that does not mention it, and not by the commit of
\* a request that loaded the row before it was recorded.  Only a dispatch that
\* was given no task id takes away the one that is there.
NothingIsErased ==
    [][\A n \in DOMAIN rows, c \in Columns :
          rows[n].has[c] # Null /\ rows'[n].has[c] = Null =>
             /\ c = "task_id"
             /\ \E s \in Sessions : /\ Commits(s, n)
                                    /\ session[s].at = "record"
                                    /\ Task[session[s].job] = Null]_vars

\* The names a row can be found by, each with the kind of name it is.
Names(has) ==
    {name \in {<<"request", has["request_id"]>>,
               <<"delivery", has["delivery_id"]>>,
               <<"task", has["task_id"]>>,
               <<"github_check_run", has["github_check_run_id"]>>,
               <<has["resource_type"], has["resource_id"]>>} : name[2] # Null}

Resource(o) == <<o["resource_type"], o["resource_id"]>>

\* A resource is named by type and key, or not at all.
Paired(o) == o["resource_type"] = Null <=> o["resource_id"] = Null

\* A pointer is the key of the resource that is named.
WellNamed(o) ==
    /\ Paired(o)
    /\ o["pull_request_id"] # Null =>
          Resource(o) = <<"pull_request", o["pull_request_id"]>>
    /\ o["flaky_test_id"] # Null =>
          Resource(o) = <<"flaky_test_run", o["flaky_test_id"]>>

Sayings == Observations \cup {Ingested(j) : j \in Jobs}

\* No check run is said to be of j and of another resource.
Alone(j) ==
    \A o, p \in Sayings :
        /\ Resource(o) = j
        /\ o["github_check_run_id"] # Null
        /\ p["github_check_run_id"] = o["github_check_run_id"]
        /\ NamesResource(p)
        => Resource(p) = j

\* What LoneJobIsTraced assumes of the world: there is a subject to every
\* name, and whatever a request says is about one subject.  Resources that
\* share a check run share their subject, and with it every resource that a
\* row which has the type of one and the key of another seems to name.  A job
\* that is alone has a subject to itself.
OneSubjectEach(subject) ==
    /\ \A o \in Sayings : \A a, b \in Names(o) : subject[a] = subject[b]
    /\ \A j \in Jobs : Task[j] # Null =>
          subject[<<"task", Task[j]>>] = subject[j]
    /\ \A a, b \in Types \X Ids : subject[a] = subject[b] =>
          subject[<<a[1], b[2]>>] = subject[a]
    /\ \A j \in Jobs : Alone(j) =>
          /\ \A a \in (Types \X Ids) \ {j} : subject[a] # subject[j]
          /\ \A t \in Tags \ {Task[j]} : subject[<<"task", t>>] # subject[j]
    /\ \A o \in Observations : Paired(o) /\ o["resource_id"] # Zero

\* The columns that name the resource, twice over.
Pointing == {"resource_type", "resource_id", "pull_request_id", "flaky_test_id"}

\* The pointer of the row's own type is the resource's key, so that the
\* foreign key vouches for it.
Agrees(has) ==
    has["resource_id"] # Null =>
        /\ has["resource_type"] = "pull_request" =>
              has["pull_request_id"] = has["resource_id"]
        /\ has["resource_type"] = "flaky_test_run" =>
              has["flaky_test_id"] = has["resource_id"]

\* A row is torn, with the type of one resource and the key of another, only
\* by the commit of a request that had loaded another type, key or pointer
\* than the row has by now (two requests of a pull request and of flaky runs
\* overlap on a row their check run shares), or by an observation that itself
\* names type, key and pointer at odds: not by requests that take turns.
RowsTearInOverlapsOnly ==
    [][\A n \in DOMAIN rows' :
          ~Agrees(rows'[n].has) /\ (n \in DOMAIN rows => Agrees(rows[n].has)) =>
             \E s \in Sessions :
                /\ Commits(s, n)
                /\ \/ ~WellNamed(session[s].said)
                   \/ /\ n \in DOMAIN rows
                      /\ \E c \in Pointing :
                            session[s].loaded[c] # rows[n].has[c]]_vars

\* An entry of event_metadata changes only by the commit of an observation
\* that gives this key anew, as each does for request_id, or whose request had
\* loaded another entry than the row has by now (the dictionary is written
\* back as a whole): never by a dispatch, and never by an observation of other
\* keys that takes its turn.
EntriesAreLostInOverlapsOnly ==
    [][\A n \in DOMAIN rows, k \in NoteKeys :
          rows[n].notes[k] \notin {Null, rows'[n].notes[k]} =>
             \E s \in Sessions :
                /\ Commits(s, n)
                /\ session[s].at = "observe"
                /\ \/ session[s].gives[k] # Null
                   \/ session[s].noted[k] # rows[n].notes[k]]_vars

\* A query by the resource finds the task that was dispatched for it, and the
\* logs are searched for that task, unless the row names their stream.
Found(j) ==
    \E n \in ListForResource(j[1], j[2]) :
        LET has == rows[n].has IN
        /\ has["task_id"] = Task[j]
        /\ LogGroup # Null /\ has["cloudwatch_log_stream"] = Null =>
              Lookup(rows[n].id) = [group |-> has["cloudwatch_log_group"],
                                    pattern |-> Task[j]]

\* Once the request of such a job has been answered, its row is there to
\* stay, whatever is observed of its check run or its task and whatever tears
\* the rows of others, as long as no observation gives one of its names to
\* another resource (OneSubjectEach).
LoneJobIsTraced == \A j \in traced : Alone(j) /\ Task[j] # Null => Found(j)

\* README: flaky triage ingestion writes a row that ties together the check
\* run, the dispatch backend and the task id, of every run.
TriageIsTraced == \A j \in traced : Found(j)

NamesKey(o) ==
    \E c \in {"resource_id", "pull_request_id", "flaky_test_id"} : o[c] # Null

\* An observation is turned away only if the id it goes by leads to a row all
\* the same, or if it came from outside and names a resource, which may not
\* have been stored: the ingest of a job is never turned away otherwise.
RefusalsAreExplained ==
    \A o \in refused \ {Blank} :
        \/ ByCorrelationId(CorrelationId(o)) # {}
        \/ o \in Observations /\ NamesKey(o)
=============================================================================
