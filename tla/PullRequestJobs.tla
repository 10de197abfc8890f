--------------------------- MODULE PullRequestJobs ---------------------------
(***************************************************************************)
(* The life of pull request analysis jobs with the celery backend: API     *)
(* processes that store and dispatch jobs, the broker, and the workers     *)
(* that analyse them.  Every action is one database transaction, one call  *)
(* to the broker, or one answer of GitHub or of the LLM; between two of    *)
(* them every other actor may run.                                         *)
(*                                                                         *)
(* A job is the row of table pull_requests with that primary key.  What    *)
(* the row holds is reduced to what the code branches on: the status, the  *)
(* kind of the error message, whether diff_text is the webhook placeholder *)
(* or a patch, and the delivery id.                                        *)
(*                                                                         *)
(* A definition whose comment begins with "Slip" is not part of Next: it   *)
(* is its neighbour with a plausible mistake, and some property below      *)
(* fails when it takes its neighbour's place.                              *)
(***************************************************************************)
EXTENDS Naturals, FiniteSets, LlmClient

CONSTANTS
    Jobs,        \* primary keys the database may assign
    Deliveries,  \* X-GitHub-Delivery ids
    Loops,       \* event loops, one per API process: the async webhook route
    Threads,     \* thread pool slots: the synchronous routes
    Workers,     \* celery worker processes
    Readers,     \* clients of GET /pull-requests/{id}
    NoJob,
    NoDelivery,
    Event,       \* what GitHub sent under each delivery id
    Llm,         \* the LLM settings each worker was started with
    Faults,      \* the failures this instance exhibits
    MaxCopies    \* bound: messages ever put on the broker for one job

Handlers == Loops \cup Threads

FaultKinds == {"request", "unclear", "redelivery", "escape", "crash"}

Events == [pullRequest : BOOLEAN, signed : BOOLEAN,
           analyzable : BOOLEAN, wellFormed : BOOLEAN]

ASSUME NoJobAssumption == NoJob \notin Jobs
ASSUME NoDeliveryAssumption == NoDelivery \notin Deliveries
ASSUME HandlersAssumption == Loops \cap Threads = {}
ASSUME EventAssumption == Event \in [Deliveries -> Events]
ASSUME LlmAssumption == Llm \in [Workers -> LlmSettings]
ASSUME FaultsAssumption == Faults \subseteq FaultKinds
ASSUME MaxCopiesAssumption == MaxCopies \in Nat

VARIABLES
    pr,           \* the table pull_requests
    analyses,     \* how many rows pull_request_analyses holds for a job
    correlation,  \* the job's row of observability_correlations
    handler,      \* where a request handler stands
    broker,       \* messages waiting on the pr-analysis queue
    copies,       \* messages ever put there (for the bound)
    worker,       \* a worker's session: the row as loaded, the unsaved diff
    answer,       \* the last answer to a delivery
    mishaps,      \* history: what went wrong on the way of a job
    reader        \* where a GET request stands and what it returned

table == <<pr, analyses, correlation>>
queue == <<broker, copies>>
history == <<answer, mishaps>>
vars == <<table, handler, queue, worker, history, reader>>

----------------------------------------------------------------------------
Verdicts == {"completed", "failed", "dispatch_failed"}
Statuses == {"absent", "queued"} \cup Verdicts

Rows == [status : Statuses, error : {"none", "dispatch", "processing"},
         diff : {"none", "placeholder", "patch"},
         delivery : Deliveries \cup {NoDelivery}]

NoRow == [status |-> "absent", error |-> "none", diff |-> "none",
          delivery |-> NoDelivery]

IdleHandler == [at |-> "idle", job |-> NoJob, delivery |-> NoDelivery]

IdleWorker == [at |-> "idle", job |-> NoJob, row |-> NoRow, diff |-> "none"]

IdleReader == [at |-> "idle", job |-> NoJob, status |-> "absent",
               summary |-> FALSE]

HandlerStates ==
    [at : {"idle", "create", "ingest", "dispatch", "mark", "record"},
     job : Jobs \cup {NoJob}, delivery : Deliveries \cup {NoDelivery}]

Sessions ==
    [at : {"idle", "fetch", "llm"}, job : Jobs \cup {NoJob}, row : Rows,
     diff : {"none", "placeholder", "patch"}]

Views == [at : {"idle", "analyses"}, job : Jobs \cup {NoJob},
          status : Statuses, summary : BOOLEAN]

Answers == {"none", "accepted", "ignored", "unauthorized", "unprocessable",
            "unavailable", "error"}

Losses == {"request", "escape", "settings", "crash"}

Init ==
    /\ pr = [j \in Jobs |-> NoRow]
    /\ analyses = [j \in Jobs |-> 0]
    /\ correlation = [j \in Jobs |-> "none"]
    /\ handler = [h \in Handlers |-> IdleHandler]
    /\ broker = [j \in Jobs |-> 0]
    /\ copies = [j \in Jobs |-> 0]
    /\ worker = [w \in Workers |-> IdleWorker]
    /\ answer = [d \in Deliveries |-> "none"]
    /\ mishaps = [j \in Jobs |-> {}]
    /\ reader = [r \in Readers |-> IdleReader]

----------------------------------------------------------------------------
(* Receiving a request. *)

Exists(j) == pr[j].status # "absent"

\* The rows a lookup by delivery id finds.
Existing(d) == {j \in Jobs : Exists(j) /\ pr[j].delivery = d}

\* Slip: the column is not declared unique.
UnindexedDelivery(d) == TRUE

\* The unique index on delivery_id admits a new row; NULLs never collide.
UniqueDelivery(d) == d = NoDelivery \/ Existing(d) = {}

\* GitHubWebhookService.handle_event: the event name is looked at before the
\* signature, the signature before the action, the action before the fields.
Screened(d) ==
    LET e == Event[d] IN
    CASE ~e.pullRequest -> "ignored"
      [] e.pullRequest /\ ~e.signed -> "unauthorized"
      [] e.pullRequest /\ e.signed /\ ~e.analyzable -> "ignored"
      [] e.pullRequest /\ e.signed /\ e.analyzable /\ ~e.wellFormed ->
            "unprocessable"
      [] OTHER -> "analyze"

\* Bound: no request starts that would need a key beyond Jobs.
RoomForRequest ==
    Cardinality({h \in Handlers : handler[h].at = "create"})
        < Cardinality({j \in Jobs : ~Exists(j)})

\* Only webhooks have a delivery to answer; the direct route answers its
\* caller, who has no later request that depends on it.
Answered(h, a) ==
    [d \in Deliveries |-> IF d = handler[h].delivery THEN a ELSE answer[d]]

ReuseExisting(h, d) ==
    /\ h \in Loops
    /\ handler[h].at = "idle"
    /\ Existing(d) # {}
    /\ answer' = [answer EXCEPT ![d] = "accepted"]
    /\ UNCHANGED <<table, handler, queue, worker, mishaps, reader>>

RejectEvent(h, d) ==
    /\ h \in Loops
    /\ handler[h].at = "idle"
    /\ Existing(d) = {}
    /\ Screened(d) # "analyze"
    /\ answer' = [answer EXCEPT ![d] = Screened(d)]
    /\ UNCHANGED <<table, handler, queue, worker, mishaps, reader>>

\* Enter enqueue_analysis: the insert is a transaction of its own.
Enqueue(h, d) ==
    /\ handler[h].at = "idle"
    /\ RoomForRequest
    /\ handler' = [handler EXCEPT ![h] =
                     [at |-> "create", job |-> NoJob, delivery |-> d]]
    /\ UNCHANGED <<table, queue, worker, mishaps, reader>>

\* Slip: the answer is sent before the job is stored.
AcceptEventEarly(h, d) ==
    /\ h \in Loops
    /\ Existing(d) = {}
    /\ Screened(d) = "analyze"
    /\ Enqueue(h, d)
    /\ answer' = [answer EXCEPT ![d] = "accepted"]

\* Slip: the delivery id is not looked up first.
AcceptEventUnchecked(h, d) ==
    /\ h \in Loops
    /\ Screened(d) = "analyze"
    /\ Enqueue(h, d)
    /\ UNCHANGED answer

AcceptEvent(h, d) ==
    /\ h \in Loops
    /\ Existing(d) = {}
    /\ Screened(d) = "analyze"
    /\ Enqueue(h, d)
    /\ UNCHANGED answer

\* POST /pull-requests/analyze: no delivery id, the caller sends the diff.
DirectRequest(h) ==
    /\ h \in Threads
    /\ Enqueue(h, NoDelivery)
    /\ UNCHANGED answer

----------------------------------------------------------------------------
(* PullRequestAnalysisWorkflowService.enqueue_analysis, step by step. *)

Step(h, at) == handler' = [handler EXCEPT ![h] = [@ EXCEPT !.at = at]]

\* The request ends; a webhook is answered a.
End(h, a) ==
    /\ answer' = Answered(h, a)
    /\ handler' = [handler EXCEPT ![h] = IdleHandler]

InsertRow(h, j, at) ==
    LET d == handler[h].delivery IN
    /\ handler[h].at = "create"
    /\ ~Exists(j)
    /\ UniqueDelivery(d)
    /\ pr' = [pr EXCEPT ![j] =
                [status |-> "queued", error |-> "none",
                 diff |-> IF h \in Threads THEN "patch" ELSE "placeholder",
                 delivery |-> d]]
    /\ handler' = [handler EXCEPT ![h] = [at |-> at, job |-> j, delivery |-> d]]
    /\ UNCHANGED <<analyses, correlation, queue, worker, history, reader>>

\* Slip: the job is dispatched before its correlation is recorded.
CreateRecordUntraced(h, j) == InsertRow(h, j, "dispatch")

\* The first commit of create_analysis_job_with_delivery.
CreateRecord(h, j) == InsertRow(h, j, "ingest")

\* The unique index refuses the insert; nothing catches the IntegrityError.
DuplicateInsert(h) ==
    /\ handler[h].at = "create"
    /\ ~UniqueDelivery(handler[h].delivery)
    /\ End(h, "error")
    /\ UNCHANGED <<table, queue, worker, mishaps, reader>>

\* The second commit: record_pull_request_ingest.
RecordIngest(h) ==
    /\ handler[h].at = "ingest"
    /\ correlation' = [correlation EXCEPT ![handler[h].job] = "ingested"]
    /\ Step(h, "dispatch")
    /\ UNCHANGED <<pr, analyses, queue, worker, history, reader>>

Publish(j) ==
    /\ broker' = [broker EXCEPT ![j] = @ + 1]
    /\ copies' = [copies EXCEPT ![j] = @ + 1]

Dispatch(h) ==
    /\ handler[h].at = "dispatch"
    /\ Publish(handler[h].job)
    /\ Step(h, "record")
    /\ UNCHANGED <<table, worker, history, reader>>

\* Slip: the error is answered but not written to the row.
DispatchFailsUnmarked(h) ==
    /\ handler[h].at = "dispatch"
    /\ End(h, "unavailable")
    /\ UNCHANGED <<table, queue, worker, mishaps, reader>>

\* apply_async raised and the message is not on the broker.
DispatchFails(h) ==
    /\ handler[h].at = "dispatch"
    /\ Step(h, "mark")
    /\ UNCHANGED <<table, queue, worker, history, reader>>

\* apply_async raised after the broker had taken the message.
DispatchUnclear(h) ==
    /\ "unclear" \in Faults
    /\ handler[h].at = "dispatch"
    /\ Publish(handler[h].job)
    /\ mishaps' = [mishaps EXCEPT ![handler[h].job] = @ \cup {"unclear"}]
    /\ Step(h, "mark")
    /\ UNCHANGED <<table, worker, answer, reader>>

SaveDispatchFailure(h, error) ==
    LET j == handler[h].job IN
    /\ handler[h].at = "mark"
    /\ pr' = [pr EXCEPT ![j] = [@ EXCEPT !.status = "dispatch_failed",
                                         !.error = error]]
    /\ End(h, "unavailable")
    /\ UNCHANGED <<analyses, correlation, queue, worker, mishaps, reader>>

\* Slip: the text of the exception is not passed on.
MarkDispatchFailedSilently(h) == SaveDispatchFailure(h, "none")

\* The handler's session still holds the row as it was before the dispatch,
\* queued and without an error, so the UPDATE writes both columns.
MarkDispatchFailed(h) == SaveDispatchFailure(h, "dispatch")

RecordDispatch(h) ==
    /\ handler[h].at = "record"
    /\ correlation' = [correlation EXCEPT ![handler[h].job] = "dispatched"]
    /\ End(h, "accepted")
    /\ UNCHANGED <<pr, analyses, queue, worker, mishaps, reader>>

\* Slip: the try block of the dispatch also covers record_dispatch.
RequestDiesMarking(h) ==
    /\ "request" \in Faults
    /\ handler[h].at = "record"
    /\ Step(h, "mark")
    /\ UNCHANGED <<table, queue, worker, history, reader>>

\* A database error or the end of the process between two commits.  After
\* the row is stored and before the message is sent, nobody is left to send
\* it: a redelivery of the webhook only finds the row.
RequestDies(h) ==
    /\ "request" \in Faults
    /\ handler[h].at # "idle"
    /\ mishaps' = IF handler[h].at \in {"ingest", "dispatch", "mark"}
                    THEN [mishaps EXCEPT ![handler[h].job] =
                            @ \cup {"request"}]
                    ELSE mishaps
    /\ End(h, "error")
    /\ UNCHANGED <<table, queue, worker, reader>>

----------------------------------------------------------------------------
(* The worker: analyze_pull_request_task and process_analysis. *)

\* Two copies are out while a message that a worker holds but has not begun
\* outlives the broker's visibility timeout.
Redeliver(j) ==
    /\ "redelivery" \in Faults
    /\ broker[j] > 0
    /\ copies[j] < MaxCopies
    /\ Publish(j)
    /\ UNCHANGED <<table, handler, worker, history, reader>>

Take(j) == /\ broker[j] > 0
           /\ broker' = [broker EXCEPT ![j] = @ - 1]

\* PullRequestService(db) of a worker whose settings name no usable provider
\* raises before process_analysis begins; the message is already acknowledged.
ServiceNotBuilt(w, j) ==
    /\ worker[w].at = "idle"
    /\ ~Builds(Llm[w])
    /\ Take(j)
    /\ mishaps' = [mishaps EXCEPT ![j] = @ \cup {"settings"}]
    /\ UNCHANGED <<table, handler, copies, worker, answer, reader>>

\* db.get: the session's copy of the row, as it is at this moment.
Load(w, j) ==
    /\ worker[w].at = "idle"
    /\ Builds(Llm[w])
    /\ worker' = [worker EXCEPT ![w] =
                    [at |-> IF pr[j].diff = "placeholder"
                            THEN "fetch" ELSE "llm",
                     job |-> j, row |-> pr[j], diff |-> pr[j].diff]]
    /\ UNCHANGED <<table, handler, copies, history, reader>>

\* Slip: a task is begun that no message asks for.
StartTaskUnasked(w, j) ==
    /\ Exists(j)
    /\ broker' = [broker EXCEPT ![j] = @ - 1]
    /\ Load(w, j)

\* Slip: the message stays on the broker while the task runs.
StartTaskUnacknowledged(w, j) ==
    /\ broker[j] > 0
    /\ Load(w, j)
    /\ UNCHANGED broker

\* celery acknowledges the message as the task begins (acks_late is off).
StartTask(w, j) == Take(j) /\ Load(w, j)

\* The patch replaces diff_text in the session; the next commit saves it.
FetchPatch(w) ==
    /\ worker[w].at = "fetch"
    /\ worker' = [worker EXCEPT ![w] = [@ EXCEPT !.at = "llm", !.diff = "patch"]]
    /\ UNCHANGED <<table, handler, queue, history, reader>>

\* A transaction's UPDATE names only the columns whose value in the session
\* differs from the value it loaded; the rest keep what is in the table.
Flush(loaded, session, current) ==
    [status |-> IF session.status = loaded.status
                THEN current.status ELSE session.status,
     error |-> IF session.error = loaded.error
               THEN current.error ELSE session.error,
     diff |-> IF session.diff = loaded.diff
              THEN current.diff ELSE session.diff,
     delivery |-> current.delivery]

\* Slip: a failed attempt puts the placeholder back, for the next to fetch.
SavedUnfetched(w, status, error) ==
    LET loaded == worker[w].row IN
    Flush(loaded,
          [loaded EXCEPT !.status = status, !.error = error,
                         !.diff = IF status = "failed" THEN "placeholder"
                                  ELSE worker[w].diff],
          pr[worker[w].job])

\* The row after worker w commits this status and error.
Saved(w, status, error) ==
    LET loaded == worker[w].row IN
    Flush(loaded, [loaded EXCEPT !.status = status, !.error = error,
                                 !.diff = worker[w].diff],
          pr[worker[w].job])

EndTask(w) ==
    /\ worker' = [worker EXCEPT ![w] = IdleWorker]
    /\ UNCHANGED <<correlation, handler, queue, answer, reader>>

\* Slip: the verdict is committed without the analysis.
CompleteUnanalysed(w) ==
    /\ worker[w].at = "llm"
    /\ pr' = [pr EXCEPT ![worker[w].job] = Saved(w, "completed", "none")]
    /\ EndTask(w)
    /\ UNCHANGED <<analyses, mishaps>>

\* The analysis and the verdict are one commit.
Complete(w) ==
    /\ worker[w].at = "llm"
    /\ pr' = [pr EXCEPT ![worker[w].job] = Saved(w, "completed", "none")]
    /\ analyses' = [analyses EXCEPT ![worker[w].job] = @ + 1]
    /\ EndTask(w)
    /\ UNCHANGED mishaps

\* What the attempt waits for, GitHub or the LLM, can end in this way.
MayEnd(w, ending) ==
    \/ worker[w].at = "fetch"
    \/ worker[w].at = "llm" /\ ending \in Endings(Llm[w])

\* Slip: the exception is re-raised without mark_processing_failed.
ProcessingFailsUnmarked(w, sameText) ==
    /\ MayEnd(w, "refused")
    /\ EndTask(w)
    /\ UNCHANGED <<pr, analyses, mishaps>>

\* GitHub refused the patch or the LLM call failed with an error the code
\* names: mark_processing_failed.  When the message is, to the letter, the one
\* that was loaded, the error column is not written either.
ProcessingFails(w, sameText) ==
    LET saved == Saved(w, "failed", "processing") IN
    /\ MayEnd(w, "refused")
    /\ sameText => worker[w].row.error = "processing"
    /\ pr' = [pr EXCEPT ![worker[w].job] =
                IF sameText THEN saved
                ELSE [saved EXCEPT !.error = "processing"]]
    /\ EndTask(w)
    /\ UNCHANGED <<analyses, mishaps>>

LoseAttempt(w, reason) ==
    /\ reason \in Faults
    /\ worker[w].at # "idle"
    /\ mishaps' = [mishaps EXCEPT ![worker[w].job] = @ \cup {reason}]
    /\ EndTask(w)
    /\ UNCHANGED <<pr, analyses>>

\* An exception process_analysis does not name (a transport error of the
\* GitHub client, a body that is no JSON, an error of the LLM's library) ends
\* the task; the message is already acknowledged.
ErrorEscapes(w) == MayEnd(w, "escaped") /\ LoseAttempt(w, "escape")

WorkerDies(w) == LoseAttempt(w, "crash")

----------------------------------------------------------------------------
(* GET /pull-requests/{id}: one SELECT for the record, then one for its     *)
(* analyses (selectinload), each seeing what is committed when it runs.     *)

ReadRecord(r, j) ==
    /\ reader[r].at = "idle"
    /\ Exists(j)
    /\ reader' = [reader EXCEPT ![r] =
                    [at |-> "analyses", job |-> j, status |-> pr[j].status,
                     summary |-> FALSE]]
    /\ UNCHANGED <<table, handler, queue, worker, history>>

\* Slip: the record is read again last, so its analyses are read first.
ReadRecordLast(r) ==
    /\ reader[r].at = "analyses"
    /\ reader' = [reader EXCEPT ![r] =
                    [at |-> "idle", job |-> @.job,
                     status |-> pr[@.job].status, summary |-> @.summary]]
    /\ UNCHANGED <<table, handler, queue, worker, history>>

ReadAnalyses(r) ==
    /\ reader[r].at = "analyses"
    /\ reader' = [reader EXCEPT ![r] =
                    [at |-> "idle", job |-> @.job, status |-> @.status,
                     summary |-> analyses[@.job] > 0]]
    /\ UNCHANGED <<table, handler, queue, worker, history>>

----------------------------------------------------------------------------
Webhook(h) ==
    \E d \in Deliveries :
        ReuseExisting(h, d) \/ RejectEvent(h, d) \/ AcceptEvent(h, d)

\* What a handler does once it has begun, failures of others included.
Continue(h) ==
    \/ \E j \in Jobs : CreateRecord(h, j)
    \/ DuplicateInsert(h)
    \/ RecordIngest(h)
    \/ Dispatch(h)
    \/ DispatchFails(h)
    \/ DispatchUnclear(h)
    \/ MarkDispatchFailed(h)
    \/ RecordDispatch(h)

Start(w) == \E j \in Jobs : StartTask(w, j) \/ ServiceNotBuilt(w, j)

Finish(w) ==
    \/ FetchPatch(w)
    \/ Complete(w)
    \/ \E sameText \in BOOLEAN : ProcessingFails(w, sameText)

Next ==
    \/ \E h \in Handlers :
          Webhook(h) \/ DirectRequest(h) \/ Continue(h) \/ RequestDies(h)
    \/ \E j \in Jobs : Redeliver(j)
    \/ \E w \in Workers :
          \/ Start(w)
          \/ Finish(w)
          \/ ErrorEscapes(w)
          \/ WorkerDies(w)
    \/ \E r \in Readers : (\E j \in Jobs : ReadRecord(r, j)) \/ ReadAnalyses(r)

Spec == Init /\ [][Next]_vars

\* A handler that has begun is scheduled until it answers; a worker that is
\* free takes a waiting message, and an attempt is scheduled until it ends.
Fairness ==
    /\ \A h \in Handlers : WF_vars(Continue(h))
    /\ \A w \in Workers : WF_vars(Start(w) \/ Finish(w))

FairSpec == Spec /\ Fairness

----------------------------------------------------------------------------
(* Properties. *)

TypeOK ==
    /\ pr \in [Jobs -> Rows]
    /\ analyses \in [Jobs -> Nat]
    /\ correlation \in [Jobs -> {"none", "ingested", "dispatched"}]
    /\ handler \in [Handlers -> HandlerStates]
    /\ broker \in [Jobs -> Nat]
    /\ copies \in [Jobs -> Nat]
    /\ worker \in [Workers -> Sessions]
    /\ answer \in [Deliveries -> Answers]
    /\ mishaps \in [Jobs -> SUBSET (Losses \cup {"unclear"})]
    /\ reader \in [Readers -> Views]

\* However often GitHub delivers an event, and to however many API processes
\* at once, it is stored as one job (README: delivery-id deduplication).
OneRecordPerDelivery ==
    \A d \in Deliveries : \A i, j \in Existing(d) : i = j

Holds(h, j) ==
    handler[h].at \in {"ingest", "dispatch", "mark"} /\ handler[h].job = j

Attempts(w, j) == worker[w].at # "idle" /\ worker[w].job = j

Dispatching(j) == \E h \in Handlers : Holds(h, j)
Attempting(j) == \E w \in Workers : Attempts(w, j)

Lost(j) == mishaps[j] \cap Losses # {}

\* A job that says queued has someone who will settle it: the request that is
\* still dispatching it, a message, or an attempt.  The only ways to lose it
\* are the four failures recorded in mishaps; no interleaving does.
NoSilentLoss ==
    \A j \in Jobs : pr[j].status = "queued" =>
        Dispatching(j) \/ broker[j] > 0 \/ Attempting(j) \/ Lost(j)

\* By the time a worker can touch a job, or a verdict can be read, the row
\* that ties its logs together is there (README: observability).
TraceBeforeWork ==
    \A j \in Jobs :
        (broker[j] > 0 \/ Attempting(j) \/ pr[j].status \in Verdicts) =>
            correlation[j] # "none"

\* A patch that was fetched and saved is never replaced by the placeholder
\* again, not even by an attempt that loaded the row before it was saved.
PatchNeverReverts ==
    [][\A j \in Jobs : pr[j].diff = "patch" => pr'[j].diff = "patch"]_vars

\* What the sender of a webhook was told is true of the table: accepted means
\* stored, a refusal means not stored, and 503 means the job is not left
\* looking queued.
AnswersAreHonest ==
    \A d \in Deliveries :
        /\ answer[d] = "accepted" => Existing(d) # {}
        /\ answer[d] \in {"ignored", "unauthorized", "unprocessable"} =>
              Existing(d) = {}
        /\ answer[d] = "unavailable" =>
              \E j \in Existing(d) : pr[j].status # "queued"

\* A client is never shown a completed job without its summary, although the
\* two are read by different statements.
ReadersSeeTheSummary ==
    \A r \in Readers :
        reader[r].at = "idle" /\ reader[r].status = "completed" =>
            reader[r].summary

Status == [j \in Jobs |-> pr[j].status]
Analysed == [j \in Jobs |-> analyses[j] > 0]

\* Duplicates, late attempts and unclear dispatches may replace one verdict
\* by another, but they keep the rest of the contract.
Lenient == INSTANCE JobContract WITH
    Final <- FALSE, status <- Status, analysed <- Analysed
KeepsContract == Lenient!Spec

\* Without duplicates and unclear dispatches a verdict is the last word.
Strict == INSTANCE JobContract WITH
    Final <- TRUE, status <- Status, analysed <- Analysed
KeepsFinalContract == Strict!Spec

\* Published at most once, and the publish had a clear outcome.
Undisturbed(j) == copies[j] <= 1 /\ "unclear" \notin mishaps[j]

\* Whatever else fails, a settled job that was undisturbed is quiet: nothing
\* on the broker or in a worker will touch it again, and it was analysed once
\* exactly when it is completed.
SettledOnce ==
    \A j \in Jobs : Undisturbed(j) =>
        /\ pr[j].status \in Verdicts => broker[j] = 0 /\ ~Attempting(j)
        /\ analyses[j] = IF pr[j].status = "completed" THEN 1 ELSE 0

\* The error column of an undisturbed job tells the same story as its status.
ErrorMatchesStatus ==
    \A j \in Jobs : Undisturbed(j) =>
        /\ pr[j].error = "processing" <=> pr[j].status = "failed"
        /\ pr[j].error = "dispatch" <=> pr[j].status = "dispatch_failed"

\* The route is async and never awaits between the lookup and the insert, so
\* one API process cannot race with itself: the unique index is never hit.
NoConflict ==
    \A h \in Loops :
        handler[h].at = "create" => UniqueDelivery(handler[h].delivery)

\* Every accepted job gets a verdict, or is lost to one of the failures that
\* nothing in the code recovers from.
EveryJobSettles ==
    \A j \in Jobs :
        pr[j].status = "queued" ~> (pr[j].status \in Verdicts \/ Lost(j))

\* tests/test_api_pull_requests.py expects a completed job to carry no error.
CompletedHasNoError ==
    \A j \in Jobs : pr[j].status = "completed" => pr[j].error = "none"

\* README: background jobs persist failure status when the provider or the
\* retrieval of content fails, whichever error it fails with.
FailureIsPersisted ==
    \A j \in Jobs :
        mishaps[j] \cap {"escape", "settings"} # {} => pr[j].status # "queued"

----------------------------------------------------------------------------
(* The inductive invariant: why the properties above hold. *)

\* A request beyond the insert works on a stored row that carries its
\* delivery, and beyond the ingest on a row that has its correlation.
RequestInv(h) ==
    LET q == handler[h] IN
    /\ q.delivery # NoDelivery => Screened(q.delivery) = "analyze"
    /\ q.at \in {"ingest", "dispatch", "mark", "record"} =>
          q.job \in Jobs /\ Exists(q.job) /\ pr[q.job].delivery = q.delivery
    /\ q.at \in {"dispatch", "mark", "record"} => correlation[q.job] # "none"

MessageInv(j) == broker[j] > 0 => Exists(j) /\ correlation[j] # "none"

\* A session may be stale, but only forwards: a verdict it loaded has not
\* become queued since, and an analysis it saw is still there.
AttemptInv(w) ==
    LET s == worker[w] IN
    s.at # "idle" =>
        /\ s.job \in Jobs
        /\ Exists(s.job)
        /\ correlation[s.job] # "none"
        /\ s.row.status # "absent"
        /\ s.row.status # "queued" => pr[s.job].status # "queued"
        /\ s.row.status = "completed" => analyses[s.job] > 0
        /\ s.diff \in {s.row.diff, "patch"}

RowInv(j) ==
    /\ ~Exists(j) => pr[j] = NoRow /\ analyses[j] = 0
    /\ pr[j].delivery # NoDelivery => Screened(pr[j].delivery) = "analyze"
    /\ pr[j].status \in Verdicts => correlation[j] # "none"
    /\ pr[j].status = "completed" => analyses[j] > 0

AnswerInv(d) ==
    /\ answer[d] = "accepted" => Existing(d) # {}
    /\ answer[d] \in {"ignored", "unauthorized", "unprocessable"} =>
          Screened(d) # "analyze"
    /\ answer[d] = "unavailable" =>
          \E j \in Existing(d) : pr[j].status # "queued"

IInv ==
    /\ TypeOK
    /\ \A h \in Handlers : RequestInv(h)
    /\ \A j \in Jobs : MessageInv(j) /\ RowInv(j)
    /\ \A w \in Workers : AttemptInv(w)
    /\ \A d \in Deliveries : AnswerInv(d)
    /\ OneRecordPerDelivery
    /\ NoSilentLoss

\* Nothing was published for a job that is not stored, and one request at
\* most has yet to publish it.
OwnerInv(j) ==
    /\ copies[j] > 0 => Exists(j)
    /\ \A g, h \in Handlers : Holds(g, j) /\ Holds(h, j) => g = h

\* An undisturbed job is in one place: with the request that has not
\* published it, on the broker, or with one worker, whose session is current.
\* In each of them it is still queued.
QuietInv(j) ==
    Undisturbed(j) =>
        /\ broker[j] <= copies[j]
        /\ Dispatching(j) => copies[j] = 0 /\ pr[j].status = "queued"
        /\ copies[j] = 0 \/ broker[j] > 0 => ~Attempting(j)
        /\ broker[j] > 0 => pr[j].status = "queued"
        /\ \A v, w \in Workers : Attempts(v, j) /\ Attempts(w, j) => v = w
        /\ \A w \in Workers : Attempts(w, j) =>
              /\ pr[j].status = "queued"
              /\ worker[w].row.status = "queued"
              /\ worker[w].row.error = "none"

SettledInv ==
    /\ \A j \in Jobs : OwnerInv(j) /\ QuietInv(j)
    /\ SettledOnce
    /\ ErrorMatchesStatus
=============================================================================
