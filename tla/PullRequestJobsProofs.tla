------------------------ MODULE PullRequestJobsProofs ------------------------
(***************************************************************************)
(* Theorems about PullRequestJobs, for any number of jobs, deliveries, API *)
(* processes and workers and under every failure the specification knows.  *)
(***************************************************************************)
EXTENDS PullRequestJobs, TLAPS

\* An event is ignored, refused for one of two reasons, or analysed.
LEMMA ScreenedType ==
    ASSUME NEW d \in Deliveries
    PROVE  Screened(d) \in {"ignored", "unauthorized", "unprocessable", "analyze"}
  BY EventAssumption DEF Screened, Events

\* A commit leaves a row in the table, with the delivery id it had.
LEMMA FlushType ==
    ASSUME NEW loaded \in Rows, NEW session \in Rows, NEW current \in Rows
    PROVE  /\ Flush(loaded, session, current) \in Rows
           /\ Flush(loaded, session, current).delivery = current.delivery
  BY DEF Flush, Rows

\* A request that moves on keeps its job and its delivery.
LEMMA StepType ==
    ASSUME handler \in [Handlers -> HandlerStates], NEW h \in Handlers,
           NEW at \in {"dispatch", "mark", "record"}, Step(h, at)
    PROVE  handler' \in [Handlers -> HandlerStates]
  <1>1. [handler[h] EXCEPT !.at = at] \in HandlerStates
    BY DEF HandlerStates
  <1> QED
    BY <1>1 DEF Step

\* What a worker commits is a row.
LEMMA SavedType ==
    ASSUME TypeOK, NEW w \in Workers, worker[w].job \in Jobs,
           NEW status \in Statuses, NEW error \in {"none", "processing"}
    PROVE  /\ Saved(w, status, error) \in Rows
           /\ [Saved(w, status, error) EXCEPT !.error = error] \in Rows
           /\ Saved(w, status, error).delivery = pr[worker[w].job].delivery
  <1> DEFINE loaded == worker[w].row
             current == pr[worker[w].job]
             saved == Saved(w, status, error)
  <1>1. loaded \in Rows /\ current \in Rows
    BY DEF TypeOK, Sessions
  <1>2. worker[w].diff \in {"none", "placeholder", "patch"}
    BY DEF TypeOK, Sessions
  <1>3. [loaded EXCEPT !.status = status, !.error = error,
                       !.diff = worker[w].diff] \in Rows
    BY <1>1, <1>2 DEF Rows
  <1>4. saved \in Rows /\ saved.delivery = current.delivery
    BY <1>1, <1>3, FlushType DEF Saved
  <1>5. [saved EXCEPT !.error = error] \in Rows
    <2> HIDE DEF saved
    <2> QED BY <1>4 DEF Rows
  <1> QED
    BY <1>4, <1>5

\* Every step keeps the types.
LEMMA TypeStep ==
    ASSUME TypeOK, [Next]_vars
    PROVE  TypeOK'
  <1> USE DEF TypeOK, table, queue, history
  <1>1. ASSUME NEW h \in Handlers, NEW d \in Deliveries,
               ReuseExisting(h, d) \/ RejectEvent(h, d)
        PROVE  TypeOK'
    BY <1>1, ScreenedType DEF ReuseExisting, RejectEvent, Answers
  <1>2. ASSUME NEW h \in Handlers, NEW d \in Deliveries, AcceptEvent(h, d)
        PROVE  TypeOK'
    BY <1>2 DEF AcceptEvent, Enqueue, HandlerStates
  <1>3. ASSUME NEW h \in Handlers, DirectRequest(h)
        PROVE  TypeOK'
    BY <1>3 DEF DirectRequest, Enqueue, HandlerStates
  <1>4. ASSUME NEW h \in Handlers, NEW j \in Jobs, CreateRecord(h, j)
        PROVE  TypeOK'
    <2>1. pr' \in [Jobs -> Rows]
      BY <1>4 DEF CreateRecord, InsertRow, Rows, Statuses, HandlerStates
    <2> QED
      BY <1>4, <2>1 DEF CreateRecord, InsertRow, HandlerStates
  <1>5. ASSUME NEW h \in Handlers, DuplicateInsert(h)
        PROVE  TypeOK'
    BY <1>5 DEF DuplicateInsert, End, Answered, IdleHandler, HandlerStates,
                Answers
  <1>6. ASSUME NEW h \in Handlers, RecordIngest(h)
        PROVE  TypeOK'
    <2>1. handler' \in [Handlers -> HandlerStates]
      BY <1>6, StepType DEF RecordIngest
    <2> QED
      BY <1>6, <2>1 DEF RecordIngest
  <1>7. ASSUME NEW h \in Handlers,
               Dispatch(h) \/ DispatchFails(h) \/ DispatchUnclear(h)
        PROVE  TypeOK'
    <2>1. handler' \in [Handlers -> HandlerStates]
      BY <1>7, StepType DEF Dispatch, DispatchFails, DispatchUnclear
    <2>2. broker' \in [Jobs -> Nat] /\ copies' \in [Jobs -> Nat]
      BY <1>7 DEF Dispatch, DispatchFails, DispatchUnclear, Publish
    <2>3. mishaps' \in [Jobs -> SUBSET (Losses \cup {"unclear"})]
      BY <1>7 DEF Dispatch, DispatchFails, DispatchUnclear
    <2> QED
      BY <1>7, <2>1, <2>2, <2>3 DEF Dispatch, DispatchFails, DispatchUnclear
  <1>8. ASSUME NEW h \in Handlers, MarkDispatchFailed(h)
        PROVE  TypeOK'
    <2>1. ASSUME NEW j \in Jobs
          PROVE  [pr[j] EXCEPT !.status = "dispatch_failed",
                               !.error = "dispatch"] \in Rows
      BY DEF Rows, Statuses, Verdicts
    <2>2. pr' \in [Jobs -> Rows]
      BY <1>8, <2>1 DEF MarkDispatchFailed, SaveDispatchFailure
    <2> QED
      BY <1>8, <2>2 DEF MarkDispatchFailed, SaveDispatchFailure, End,
                        Answered, IdleHandler, HandlerStates, Answers
  <1>9. ASSUME NEW h \in Handlers, RecordDispatch(h)
        PROVE  TypeOK'
    BY <1>9 DEF RecordDispatch, End, Answered, IdleHandler, HandlerStates,
                Answers
  <1>10. ASSUME NEW h \in Handlers, RequestDies(h)
         PROVE  TypeOK'
    BY <1>10 DEF RequestDies, End, Answered, IdleHandler, HandlerStates,
                 Answers, Losses
  <1>11. ASSUME NEW j \in Jobs, Redeliver(j)
         PROVE  TypeOK'
    BY <1>11 DEF Redeliver, Publish
  <1>12. ASSUME NEW w \in Workers, NEW j \in Jobs, StartTask(w, j)
         PROVE  TypeOK'
    BY <1>12 DEF StartTask, Take, Load, Rows, Sessions
  <1>19. ASSUME NEW w \in Workers, NEW j \in Jobs, ServiceNotBuilt(w, j)
         PROVE  TypeOK'
    BY <1>19 DEF ServiceNotBuilt, Take, Losses
  <1>13. ASSUME NEW w \in Workers, FetchPatch(w)
         PROVE  TypeOK'
    <2>1. [worker[w] EXCEPT !.at = "llm", !.diff = "patch"] \in Sessions
      BY DEF Sessions
    <2> QED
      BY <1>13, <2>1 DEF FetchPatch
  <1>14. ASSUME NEW w \in Workers,
                \/ Complete(w)
                \/ \E sameText \in BOOLEAN : ProcessingFails(w, sameText)
         PROVE  TypeOK'
    <2>1. pr' \in [Jobs -> Rows]
      <3>1. CASE worker[w].job \in Jobs
        <4>1. /\ Saved(w, "completed", "none") \in Rows
              /\ Saved(w, "failed", "processing") \in Rows
              /\ [Saved(w, "failed", "processing")
                    EXCEPT !.error = "processing"] \in Rows
          BY <3>1, SavedType DEF Statuses, Verdicts
        <4> QED
          BY <1>14, <3>1, <4>1 DEF Complete, ProcessingFails
      <3>2. CASE worker[w].job \notin Jobs
        BY <1>14, <3>2 DEF Complete, ProcessingFails
      <3> QED
        BY <3>1, <3>2
    <2>2. IdleWorker \in Sessions
      BY DEF IdleWorker, Sessions, NoRow, Rows, Statuses
    <2>3. analyses' \in [Jobs -> Nat]
      BY <1>14 DEF Complete, ProcessingFails
    <2> QED
      BY <1>14, <2>1, <2>2, <2>3 DEF Complete, ProcessingFails, EndTask
  <1>15. ASSUME NEW w \in Workers, ErrorEscapes(w) \/ WorkerDies(w)
         PROVE  TypeOK'
    <2>1. IdleWorker \in Sessions
      BY DEF IdleWorker, Sessions, NoRow, Rows, Statuses
    <2>2. mishaps' \in [Jobs -> SUBSET (Losses \cup {"unclear"})]
      BY <1>15 DEF ErrorEscapes, WorkerDies, LoseAttempt, Losses
    <2> QED
      BY <1>15, <2>1, <2>2 DEF ErrorEscapes, WorkerDies, LoseAttempt, EndTask
  <1>16. ASSUME NEW r \in Readers, NEW j \in Jobs, ReadRecord(r, j)
         PROVE  TypeOK'
    BY <1>16 DEF ReadRecord, Rows, Views
  <1>17. ASSUME NEW r \in Readers, ReadAnalyses(r)
         PROVE  TypeOK'
    BY <1>17 DEF ReadAnalyses, Views
  <1>18. CASE UNCHANGED vars
    BY <1>18 DEF vars
  <1> QED
    BY <1>1, <1>2, <1>3, <1>4, <1>5, <1>6, <1>7, <1>8, <1>9, <1>10, <1>11,
       <1>12, <1>13, <1>14, <1>15, <1>16, <1>17, <1>18,
       <1>19
    DEF Next, Webhook, Continue, Start, Finish

\* Every variable keeps its type: the states the model reaches are states the
\* tables, queues and sessions of the code can hold.
THEOREM TypeCorrect == Spec => []TypeOK
  <1>1. Init => TypeOK
    BY DEF Init, TypeOK, NoRow, Rows, Statuses, Verdicts, IdleHandler,
           IdleWorker, IdleReader, HandlerStates, Sessions, Views, Answers
  <1>2. TypeOK /\ [Next]_vars => TypeOK'
    BY TypeStep
  <1> QED
    BY <1>1, <1>2, PTL DEF Spec

----------------------------------------------------------------------------
(* What a step may do to the tables. *)

\* Every other step leaves the three tables alone.
LEMMA TableWriters ==
    ASSUME [Next]_vars
    PROVE  \/ UNCHANGED table
           \/ \E h \in Handlers, j \in Jobs : CreateRecord(h, j)
           \/ \E h \in Handlers :
                 RecordIngest(h) \/ RecordDispatch(h) \/ MarkDispatchFailed(h)
           \/ \E w \in Workers :
                 \/ Complete(w)
                 \/ \E sameText \in BOOLEAN : ProcessingFails(w, sameText)
  BY DEF Next, Webhook, Continue, Start, Finish, ServiceNotBuilt, Take,
           ReuseExisting, RejectEvent,
         AcceptEvent, DirectRequest, Enqueue, DuplicateInsert, Dispatch,
         DispatchFails, DispatchUnclear, RequestDies, Redeliver, StartTask,
         Load, FetchPatch, ErrorEscapes, WorkerDies, LoseAttempt, EndTask,
         ReadRecord, ReadAnalyses, table, vars

\* Whatever an attempt loaded, the row it leaves has a verdict, keeps its
\* delivery and its patch, and is completed only if an analysis is stored.
LEMMA AttemptEnds ==
    ASSUME IInv, NEW w \in Workers,
           \/ Complete(w)
           \/ \E sameText \in BOOLEAN : ProcessingFails(w, sameText)
    PROVE  LET j == worker[w].job IN
           /\ j \in Jobs
           /\ \E r \in Rows :
                /\ pr' = [pr EXCEPT ![j] = r]
                /\ r.status \in Verdicts
                /\ r.delivery = pr[j].delivery
                /\ pr[j].diff = "patch" => r.diff = "patch"
                /\ analyses'[j] > 0
                     <=> (analyses[j] > 0 \/ r.status = "completed")
           /\ \A i \in Jobs : i # j => analyses'[i] = analyses[i]
           /\ UNCHANGED correlation
  <1> DEFINE j == worker[w].job
             loaded == worker[w].row
  <1>1. /\ j \in Jobs
        /\ Exists(j)
        /\ loaded.status # "queued" => pr[j].status # "queued"
        /\ loaded.status = "completed" => analyses[j] > 0
        /\ worker[w].diff \in {loaded.diff, "patch"}
    BY DEF IInv, AttemptInv, Complete, ProcessingFails, MayEnd
  <1>2. pr[j] \in Rows /\ loaded \in Rows /\ analyses[j] \in Nat
    BY <1>1 DEF IInv, TypeOK, Sessions
  <1>3. ASSUME NEW status \in {"completed", "failed"},
               NEW error \in {"none", "processing"}
        PROVE  /\ Saved(w, status, error) \in Rows
               /\ Saved(w, status, error).status =
                    IF status = loaded.status THEN pr[j].status ELSE status
               /\ Saved(w, status, error).status \in Verdicts
               /\ Saved(w, status, error).delivery = pr[j].delivery
               /\ pr[j].diff = "patch" => Saved(w, status, error).diff = "patch"
    <2>1. Saved(w, status, error) \in Rows
      BY <1>1, SavedType DEF IInv, Statuses, Verdicts
    <2> DEFINE session == [loaded EXCEPT !.status = status, !.error = error,
                                         !.diff = worker[w].diff]
    <2>2. session.status = status /\ session.diff = worker[w].diff
      <3> HIDE DEF loaded
      <3> QED BY <1>2 DEF Rows
    <2>3. /\ Saved(w, status, error).status =
                IF status = loaded.status THEN pr[j].status ELSE status
          /\ Saved(w, status, error).delivery = pr[j].delivery
          /\ Saved(w, status, error).diff =
                IF worker[w].diff = loaded.diff
                THEN pr[j].diff ELSE worker[w].diff
      BY <2>2 DEF Saved, Flush
    <2> QED
      BY <1>1, <1>2, <2>1, <2>3 DEF Exists, Rows, Statuses, Verdicts
  <1>4. CASE Complete(w)
    <2>1. /\ pr' = [pr EXCEPT ![j] = Saved(w, "completed", "none")]
          /\ analyses' = [analyses EXCEPT ![j] = @ + 1]
          /\ UNCHANGED correlation
      BY <1>4 DEF Complete, EndTask
    <2>2. analyses'[j] > 0 /\ \A i \in Jobs : i # j => analyses'[i] = analyses[i]
      BY <1>1, <1>2, <2>1 DEF IInv, TypeOK
    <2>3. analyses[j] > 0 \/ Saved(w, "completed", "none").status = "completed"
      BY <1>1, <1>3
    <2> QED
      BY <1>1, <1>3, <2>1, <2>2, <2>3
  <1>5. ASSUME NEW sameText \in BOOLEAN, ProcessingFails(w, sameText)
        PROVE  /\ \E r \in Rows :
                    /\ pr' = [pr EXCEPT ![j] = r]
                    /\ r.status \in Verdicts
                    /\ r.delivery = pr[j].delivery
                    /\ pr[j].diff = "patch" => r.diff = "patch"
                    /\ r.status = "completed" => pr[j].status = "completed"
               /\ UNCHANGED <<analyses, correlation>>
    <2> DEFINE saved == Saved(w, "failed", "processing")
               marked == [saved EXCEPT !.error = "processing"]
    <2>1. pr' = [pr EXCEPT ![j] = IF sameText THEN saved ELSE marked]
      BY <1>5 DEF ProcessingFails
    <2>2. UNCHANGED <<analyses, correlation>>
      BY <1>5 DEF ProcessingFails, EndTask
    <2>3. /\ saved \in Rows
          /\ saved.status \in Verdicts
          /\ saved.delivery = pr[j].delivery
          /\ pr[j].diff = "patch" => saved.diff = "patch"
          /\ saved.status = "completed" => pr[j].status = "completed"
      BY <1>3
    <2>4. /\ marked \in Rows
          /\ marked.status = saved.status
          /\ marked.delivery = saved.delivery
          /\ marked.diff = saved.diff
      <3> HIDE DEF saved
      <3> QED BY <2>3 DEF Rows
    <2> QED
      BY <2>1, <2>2, <2>3, <2>4
  <1>6. pr[j].status = "completed" => analyses[j] > 0
    BY <1>1 DEF IInv, RowInv
  <1> QED
    BY <1>1, <1>4, <1>5, <1>6

\* A step moves one handler at most: on, or back to idle when it answers.
LEMMA HandlerWriters ==
    ASSUME IInv, [Next]_vars, NEW h \in Handlers
    PROVE  \/ handler'[h] = handler[h]
           \/ \E d \in Deliveries : AcceptEvent(h, d)
           \/ DirectRequest(h)
           \/ \E j \in Jobs : CreateRecord(h, j)
           \/ RecordIngest(h)
           \/ Dispatch(h) \/ DispatchFails(h) \/ DispatchUnclear(h)
           \/ DuplicateInsert(h) \/ MarkDispatchFailed(h)
           \/ RecordDispatch(h) \/ RequestDies(h)
  <1>t. handler \in [Handlers -> HandlerStates]
    BY DEF IInv, TypeOK
  <1>1. CASE UNCHANGED handler
    BY <1>1
  <1>2. ASSUME NEW g \in Handlers, NEW d \in Deliveries, AcceptEvent(g, d)
        PROVE  g = h \/ handler'[h] = handler[h]
    BY <1>2, <1>t DEF AcceptEvent, Enqueue
  <1>3. ASSUME NEW g \in Handlers, DirectRequest(g)
        PROVE  g = h \/ handler'[h] = handler[h]
    BY <1>3, <1>t DEF DirectRequest, Enqueue
  <1>4. ASSUME NEW g \in Handlers, NEW j \in Jobs, CreateRecord(g, j)
        PROVE  g = h \/ handler'[h] = handler[h]
    BY <1>4, <1>t DEF CreateRecord, InsertRow
  <1>5. ASSUME NEW g \in Handlers,
               \/ RecordIngest(g)
               \/ Dispatch(g) \/ DispatchFails(g) \/ DispatchUnclear(g)
        PROVE  g = h \/ handler'[h] = handler[h]
    BY <1>5, <1>t DEF RecordIngest, Dispatch, DispatchFails, DispatchUnclear, Step
  <1>6. ASSUME NEW g \in Handlers,
               \/ DuplicateInsert(g) \/ MarkDispatchFailed(g)
               \/ RecordDispatch(g) \/ RequestDies(g)
        PROVE  g = h \/ handler'[h] = handler[h]
    BY <1>6, <1>t DEF DuplicateInsert, MarkDispatchFailed, SaveDispatchFailure,
                      RecordDispatch, RequestDies, End
  <1>7. \/ UNCHANGED handler
        \/ \E g \in Handlers :
              \/ \E d \in Deliveries : AcceptEvent(g, d)
              \/ DirectRequest(g)
              \/ \E j \in Jobs : CreateRecord(g, j)
              \/ RecordIngest(g)
              \/ Dispatch(g) \/ DispatchFails(g) \/ DispatchUnclear(g)
              \/ DuplicateInsert(g) \/ MarkDispatchFailed(g)
              \/ RecordDispatch(g) \/ RequestDies(g)
    BY DEF Next, Webhook, Continue, Start, Finish, ServiceNotBuilt, Take,
           ReuseExisting, RejectEvent,
           Redeliver, StartTask, Load, FetchPatch, Complete, ProcessingFails,
           ErrorEscapes, WorkerDies, LoseAttempt, EndTask, ReadRecord,
           ReadAnalyses, vars
  <1> QED
    BY <1>1, <1>2, <1>3, <1>4, <1>5, <1>6, <1>7

\* A step moves one worker at most: it loads a job whose message waits, saves
\* the fetched patch in its session, or ends its attempt.
LEMMA WorkerWriters ==
    ASSUME IInv, [Next]_vars, NEW w \in Workers
    PROVE  \/ worker'[w] = worker[w]
           \/ \E j \in Jobs : StartTask(w, j)
           \/ FetchPatch(w)
           \/ Complete(w)
           \/ \E sameText \in BOOLEAN : ProcessingFails(w, sameText)
           \/ ErrorEscapes(w) \/ WorkerDies(w)
  <1>t. worker \in [Workers -> Sessions]
    BY DEF IInv, TypeOK
  <1>1. CASE UNCHANGED worker
    BY <1>1
  <1>2. ASSUME NEW v \in Workers,
               (\E j \in Jobs : StartTask(v, j)) \/ FetchPatch(v)
        PROVE  v = w \/ worker'[w] = worker[w]
    BY <1>2, <1>t DEF StartTask, Load, FetchPatch
  <1>3. ASSUME NEW v \in Workers,
               \/ Complete(v)
               \/ \E sameText \in BOOLEAN : ProcessingFails(v, sameText)
               \/ ErrorEscapes(v) \/ WorkerDies(v)
        PROVE  v = w \/ worker'[w] = worker[w]
    BY <1>3, <1>t DEF Complete, ProcessingFails, ErrorEscapes, WorkerDies,
                      LoseAttempt, EndTask
  <1>4. \/ UNCHANGED worker
        \/ \E v \in Workers :
              \/ \E j \in Jobs : StartTask(v, j)
              \/ FetchPatch(v)
              \/ Complete(v)
              \/ \E sameText \in BOOLEAN : ProcessingFails(v, sameText)
              \/ ErrorEscapes(v) \/ WorkerDies(v)
    BY DEF Next, Webhook, Continue, Start, Finish, ServiceNotBuilt, Take,
           ReuseExisting, RejectEvent,
           AcceptEvent, DirectRequest, Enqueue, CreateRecord, InsertRow,
           DuplicateInsert, RecordIngest, Dispatch, DispatchFails,
           DispatchUnclear, MarkDispatchFailed, SaveDispatchFailure,
           RecordDispatch, RequestDies, Redeliver, ReadRecord, ReadAnalyses,
           vars
  <1> QED
    BY <1>1, <1>2, <1>3, <1>4

\* No step takes back a row, a verdict, a correlation, an analysis or a patch,
\* or moves a row to another delivery; only an insert makes a row.
TableProgress(j) ==
    /\ Exists(j) => pr'[j].status # "absent" /\ pr'[j].delivery = pr[j].delivery
    /\ pr[j].status \in Verdicts => pr'[j].status \in Verdicts
    /\ correlation[j] # "none" => correlation'[j] # "none"
    /\ analyses[j] > 0 => analyses'[j] > 0
    /\ pr[j].diff = "patch" => pr'[j].diff = "patch"
    /\ \/ Exists(j)
       \/ pr'[j] = pr[j]
       \/ \E h \in Handlers : CreateRecord(h, j)

\* Every step takes the row of a job forward only.
LEMMA TableStep ==
    ASSUME IInv, [Next]_vars, NEW j \in Jobs
    PROVE  TableProgress(j)
  <1> USE DEF TableProgress
  <1>t. /\ pr \in [Jobs -> Rows]
        /\ correlation \in [Jobs -> {"none", "ingested", "dispatched"}]
        /\ handler \in [Handlers -> HandlerStates]
    BY DEF IInv, TypeOK
  <1>1. CASE UNCHANGED table
    BY <1>1 DEF table, Exists
  <1>2. ASSUME NEW h \in Handlers, NEW i \in Jobs, CreateRecord(h, i)
        PROVE  TableProgress(j)
    <2>1. CASE i = j
      <3>1. ~Exists(j) /\ pr[j] = NoRow /\ analyses[j] = 0
        BY <1>2, <2>1 DEF CreateRecord, InsertRow, IInv, RowInv
      <3>2. UNCHANGED <<correlation, analyses>>
        BY <1>2 DEF CreateRecord, InsertRow
      <3> QED
        BY <1>2, <2>1, <3>1, <3>2 DEF NoRow, Verdicts
    <2>2. CASE i # j
      <3>1. pr'[j] = pr[j] /\ UNCHANGED <<correlation, analyses>>
        BY <1>2, <2>2, <1>t DEF CreateRecord, InsertRow
      <3> QED
        BY <3>1 DEF Exists
    <2> QED
      BY <2>1, <2>2
  <1>3. ASSUME NEW h \in Handlers, RecordIngest(h) \/ RecordDispatch(h)
        PROVE  TableProgress(j)
    <2>1. /\ UNCHANGED <<pr, analyses>>
          /\ correlation[j] # "none" => correlation'[j] # "none"
      BY <1>3, <1>t DEF RecordIngest, RecordDispatch
    <2> QED
      BY <2>1 DEF Exists
  <1>4. ASSUME NEW h \in Handlers, MarkDispatchFailed(h)
        PROVE  TableProgress(j)
    <2>1. UNCHANGED <<analyses, correlation>>
      BY <1>4 DEF MarkDispatchFailed, SaveDispatchFailure
    <2>2. CASE handler[h].job = j
      <3>1. pr'[j] = [pr[j] EXCEPT !.status = "dispatch_failed",
                                   !.error = "dispatch"]
        BY <1>4, <1>t, <2>2 DEF MarkDispatchFailed, SaveDispatchFailure
      <3>2. /\ pr'[j].status = "dispatch_failed"
            /\ pr'[j].delivery = pr[j].delivery
            /\ pr'[j].diff = pr[j].diff
        BY <3>1, <1>t DEF Rows
      <3>3. Exists(j)
        BY <1>4, <2>2 DEF MarkDispatchFailed, SaveDispatchFailure, IInv,
                          RequestInv
      <3> QED
        BY <2>1, <3>2, <3>3 DEF Verdicts
    <2>3. CASE handler[h].job # j
      <3>1. pr'[j] = pr[j]
        BY <1>4, <1>t, <2>3 DEF MarkDispatchFailed, SaveDispatchFailure
      <3> QED
        BY <2>1, <3>1 DEF Exists
    <2> QED
      BY <2>2, <2>3
  <1>5. ASSUME NEW w \in Workers,
               \/ Complete(w)
               \/ \E sameText \in BOOLEAN : ProcessingFails(w, sameText)
        PROVE  TableProgress(j)
    <2> DEFINE i == worker[w].job
    <2>1. PICK r \in Rows :
              /\ pr' = [pr EXCEPT ![i] = r]
              /\ r.status \in Verdicts
              /\ r.delivery = pr[i].delivery
              /\ pr[i].diff = "patch" => r.diff = "patch"
              /\ analyses'[i] > 0 <=> (analyses[i] > 0 \/ r.status = "completed")
      BY <1>5, AttemptEnds
    <2>2. /\ i # j => analyses'[j] = analyses[j]
          /\ UNCHANGED correlation
      BY <1>5, AttemptEnds
    <2>3. Exists(i)
      BY <1>5 DEF IInv, AttemptInv, Complete, ProcessingFails, MayEnd
    <2> HIDE DEF i
    <2> QED
      BY <1>t, <2>1, <2>2, <2>3 DEF Exists, Verdicts
  <1> QED
    BY <1>1, <1>2, <1>3, <1>4, <1>5, TableWriters

----------------------------------------------------------------------------
(* Each part of the inductive invariant is preserved. *)

\* The screening of a delivery is the same before and after any step.
LEMMA ScreenedConstant == \A d : Screened(d)' = Screened(d)
  BY DEF Screened

\* Every step keeps a row's columns consistent with each other.
LEMMA RowStep ==
    ASSUME IInv, [Next]_vars, NEW j \in Jobs
    PROVE  RowInv(j)'
  <1>t. /\ pr \in [Jobs -> Rows]
        /\ analyses \in [Jobs -> Nat]
        /\ handler \in [Handlers -> HandlerStates]
    BY DEF IInv, TypeOK
  <1>i. RowInv(j)
    BY DEF IInv
  <1>p. TableProgress(j)
    BY TableStep
  <1> USE ScreenedConstant DEF RowInv
  <1>1. CASE UNCHANGED table
    BY <1>1, <1>i DEF table, Exists
  <1>2. ASSUME NEW h \in Handlers, NEW i \in Jobs, CreateRecord(h, i)
        PROVE  RowInv(j)'
    <2>1. UNCHANGED <<correlation, analyses>>
      BY <1>2 DEF CreateRecord, InsertRow
    <2>2. CASE i = j
      <3>1. pr'[j].status = "queued" /\ pr'[j].delivery = handler[h].delivery
        BY <1>2, <1>t, <2>2 DEF CreateRecord, InsertRow
      <3>2. handler[h].delivery # NoDelivery =>
              Screened(handler[h].delivery) = "analyze"
        BY DEF IInv, RequestInv
      <3> QED
        BY <3>1, <3>2 DEF Exists, Verdicts
    <2>3. CASE i # j
      <3>1. pr'[j] = pr[j]
        BY <1>2, <1>t, <2>3 DEF CreateRecord, InsertRow
      <3> QED
        BY <1>i, <2>1, <3>1 DEF Exists
    <2> QED
      BY <2>2, <2>3
  <1>3. ASSUME NEW h \in Handlers, RecordIngest(h) \/ RecordDispatch(h)
        PROVE  RowInv(j)'
    <2>1. UNCHANGED <<pr, analyses>>
      BY <1>3 DEF RecordIngest, RecordDispatch
    <2> QED
      BY <1>i, <1>p, <2>1 DEF Exists, TableProgress
  <1>4. ASSUME NEW h \in Handlers, MarkDispatchFailed(h)
        PROVE  RowInv(j)'
    <2>1. UNCHANGED <<analyses, correlation>>
      BY <1>4 DEF MarkDispatchFailed, SaveDispatchFailure
    <2>2. CASE handler[h].job = j
      <3>1. pr'[j] = [pr[j] EXCEPT !.status = "dispatch_failed",
                                   !.error = "dispatch"]
        BY <1>4, <1>t, <2>2 DEF MarkDispatchFailed, SaveDispatchFailure
      <3>2. /\ pr'[j].status = "dispatch_failed"
            /\ pr'[j].delivery = pr[j].delivery
        BY <3>1, <1>t DEF Rows
      <3>3. correlation[j] # "none"
        BY <1>4, <2>2 DEF MarkDispatchFailed, SaveDispatchFailure, IInv,
                          RequestInv
      <3> QED
        BY <1>i, <2>1, <3>2, <3>3 DEF Exists
    <2>3. CASE handler[h].job # j
      <3>1. pr'[j] = pr[j]
        BY <1>4, <1>t, <2>3 DEF MarkDispatchFailed, SaveDispatchFailure
      <3> QED
        BY <1>i, <2>1, <3>1 DEF Exists
    <2> QED
      BY <2>2, <2>3
  <1>5. ASSUME NEW w \in Workers,
               \/ Complete(w)
               \/ \E sameText \in BOOLEAN : ProcessingFails(w, sameText)
        PROVE  RowInv(j)'
    <2> DEFINE i == worker[w].job
    <2>1. PICK r \in Rows :
              /\ pr' = [pr EXCEPT ![i] = r]
              /\ r.status \in Verdicts
              /\ r.delivery = pr[i].delivery
              /\ pr[i].diff = "patch" => r.diff = "patch"
              /\ analyses'[i] > 0 <=> (analyses[i] > 0 \/ r.status = "completed")
      BY <1>5, AttemptEnds
    <2>2. /\ i # j => analyses'[j] = analyses[j]
          /\ UNCHANGED correlation
      BY <1>5, AttemptEnds
    <2>3. correlation[i] # "none"
      BY <1>5 DEF IInv, AttemptInv, Complete, ProcessingFails, MayEnd
    <2> HIDE DEF i
    <2> QED
      BY <1>i, <1>t, <2>1, <2>2, <2>3 DEF Exists, Verdicts
  <1> QED
    BY <1>1, <1>2, <1>3, <1>4, <1>5, TableWriters

\* Requests, sessions and messages are about rows that only move forwards, so
\* it is enough to look at the step that changes the request, the session or
\* the message.
LEMMA RequestStep ==
    ASSUME IInv, [Next]_vars, NEW h \in Handlers
    PROVE  RequestInv(h)'
  <1>t. /\ pr \in [Jobs -> Rows]
        /\ correlation \in [Jobs -> {"none", "ingested", "dispatched"}]
        /\ handler \in [Handlers -> HandlerStates]
    BY DEF IInv, TypeOK
  <1>i. RequestInv(h)
    BY DEF IInv
  <1>p. \A j \in Jobs : TableProgress(j)
    BY TableStep
  <1> USE ScreenedConstant DEF RequestInv
  <1>1. CASE handler'[h] = handler[h]
    BY <1>1, <1>i, <1>p DEF Exists, TableProgress
  <1>2. ASSUME NEW d \in Deliveries, AcceptEvent(h, d)
        PROVE  RequestInv(h)'
    BY <1>2, <1>t DEF AcceptEvent, Enqueue
  <1>3. CASE DirectRequest(h)
    BY <1>3, <1>t DEF DirectRequest, Enqueue
  <1>4. ASSUME NEW j \in Jobs, CreateRecord(h, j)
        PROVE  RequestInv(h)'
    BY <1>4, <1>t, <1>i DEF CreateRecord, InsertRow, Exists
  <1>5. CASE RecordIngest(h)
    <2>1. /\ handler'[h].at = "dispatch"
          /\ handler'[h].job = handler[h].job
          /\ handler'[h].delivery = handler[h].delivery
          /\ handler[h].at = "ingest"
      BY <1>5, <1>t DEF RecordIngest, Step, HandlerStates
    <2>2. pr' = pr /\ correlation'[handler[h].job] # "none"
      BY <1>5, <1>t, <1>i DEF RecordIngest
    <2> QED
      BY <1>i, <2>1, <2>2 DEF Exists
  <1>6. CASE Dispatch(h) \/ DispatchFails(h) \/ DispatchUnclear(h)
    <2>1. /\ handler'[h].at \in {"mark", "record"}
          /\ handler'[h].job = handler[h].job
          /\ handler'[h].delivery = handler[h].delivery
          /\ handler[h].at = "dispatch"
      BY <1>6, <1>t DEF Dispatch, DispatchFails, DispatchUnclear, Step,
                        HandlerStates
    <2>2. UNCHANGED table
      BY <1>6 DEF Dispatch, DispatchFails, DispatchUnclear
    <2> QED
      BY <1>i, <2>1, <2>2 DEF Exists, table
  <1>7. CASE \/ DuplicateInsert(h) \/ MarkDispatchFailed(h)
             \/ RecordDispatch(h) \/ RequestDies(h)
    <2>1. handler'[h] = IdleHandler
      BY <1>7, <1>t DEF DuplicateInsert, MarkDispatchFailed,
                        SaveDispatchFailure, RecordDispatch, RequestDies, End
    <2> QED
      BY <2>1 DEF IdleHandler
  <1> QED
    BY <1>1, <1>2, <1>3, <1>4, <1>5, <1>6, <1>7, HandlerWriters

\* Every step keeps what a worker holds consistent with the row it loaded.
LEMMA AttemptStep ==
    ASSUME IInv, [Next]_vars, NEW w \in Workers
    PROVE  AttemptInv(w)'
  <1>t. /\ pr \in [Jobs -> Rows]
        /\ worker \in [Workers -> Sessions]
    BY DEF IInv, TypeOK
  <1>i. AttemptInv(w)
    BY DEF IInv
  <1>p. \A j \in Jobs : TableProgress(j)
    BY TableStep
  <1> USE DEF AttemptInv
  <1>1. CASE worker'[w] = worker[w]
    <2> SUFFICES ASSUME worker[w].at # "idle"
                 PROVE  AttemptInv(w)'
      BY <1>1
    <2>1. /\ worker[w].job \in Jobs
          /\ pr[worker[w].job].status \in Statuses
          /\ TableProgress(worker[w].job)
      BY <1>t, <1>i, <1>p DEF Rows
    <2> QED
      BY <1>1, <1>i, <2>1 DEF TableProgress, Exists, Statuses, Verdicts
  <1>2. CASE \/ Complete(w)
             \/ \E sameText \in BOOLEAN : ProcessingFails(w, sameText)
             \/ ErrorEscapes(w) \/ WorkerDies(w)
    <2>1. worker'[w] = IdleWorker
      BY <1>2, <1>t DEF Complete, ProcessingFails, ErrorEscapes, WorkerDies,
                        LoseAttempt, EndTask
    <2> QED
      BY <2>1 DEF IdleWorker
  <1>3. ASSUME NEW j \in Jobs, StartTask(w, j)
        PROVE  AttemptInv(w)'
    <2>1. /\ worker'[w].job = j
          /\ worker'[w].row = pr[j]
          /\ worker'[w].diff = pr[j].diff
          /\ UNCHANGED table
      BY <1>3, <1>t DEF StartTask, Load
    <2>2. Exists(j) /\ correlation[j] # "none"
      BY <1>3 DEF StartTask, Take, IInv, MessageInv
    <2>3. pr[j].status = "completed" => analyses[j] > 0
      BY DEF IInv, RowInv
    <2> QED
      BY <2>1, <2>2, <2>3 DEF Exists, table
  <1>4. CASE FetchPatch(w)
    <2>1. /\ worker[w].at # "idle"
          /\ worker'[w].job = worker[w].job
          /\ worker'[w].row = worker[w].row
          /\ worker'[w].diff = "patch"
          /\ UNCHANGED table
      BY <1>4, <1>t DEF FetchPatch, Sessions
    <2> QED
      BY <1>i, <2>1 DEF Exists, table
  <1> QED
    BY <1>1, <1>2, <1>3, <1>4, WorkerWriters

\* The steps that write the broker.
LEMMA BrokerWriters ==
    ASSUME [Next]_vars
    PROVE  \/ UNCHANGED broker
           \/ \E h \in Handlers : Dispatch(h) \/ DispatchUnclear(h)
           \/ \E i \in Jobs : Redeliver(i)
           \/ \E w \in Workers, i \in Jobs :
                 StartTask(w, i) \/ ServiceNotBuilt(w, i)
  BY DEF Next, Webhook, Continue, Start, Finish, ReuseExisting, RejectEvent,
         AcceptEvent, DirectRequest, Enqueue, CreateRecord, InsertRow,
         DuplicateInsert, RecordIngest, DispatchFails, MarkDispatchFailed,
         SaveDispatchFailure, RecordDispatch, RequestDies, FetchPatch,
         Complete, ProcessingFails, ErrorEscapes, WorkerDies, LoseAttempt,
         EndTask, ReadRecord, ReadAnalyses, queue, vars

\* Every step keeps messages to stored jobs only.
LEMMA MessageStep ==
    ASSUME IInv, [Next]_vars, NEW j \in Jobs
    PROVE  MessageInv(j)'
  <1>t. /\ pr \in [Jobs -> Rows]
        /\ broker \in [Jobs -> Nat]
        /\ handler \in [Handlers -> HandlerStates]
    BY DEF IInv, TypeOK
  <1>i. MessageInv(j) /\ TableProgress(j)
    BY TableStep DEF IInv
  <1> USE DEF MessageInv
  <1>1. CASE broker'[j] > 0 => broker[j] > 0
    BY <1>1, <1>i DEF TableProgress, Exists
  <1>2. ASSUME NEW h \in Handlers, Dispatch(h) \/ DispatchUnclear(h)
        PROVE  MessageInv(j)'
    <2>1. /\ Exists(handler[h].job)
          /\ correlation[handler[h].job] # "none"
      BY <1>2 DEF Dispatch, DispatchUnclear, IInv, RequestInv
    <2>2. j # handler[h].job => broker'[j] = broker[j]
      BY <1>2, <1>t DEF Dispatch, DispatchUnclear, Publish
    <2> QED
      BY <1>i, <2>1, <2>2 DEF TableProgress, Exists
  <1>3. ASSUME NEW i \in Jobs, Redeliver(i)
        PROVE  broker'[j] > 0 => broker[j] > 0
    BY <1>3, <1>t DEF Redeliver, Publish
  <1>4. ASSUME NEW w \in Workers, NEW i \in Jobs,
               StartTask(w, i) \/ ServiceNotBuilt(w, i)
        PROVE  broker'[j] > 0 => broker[j] > 0
    BY <1>4, <1>t DEF StartTask, ServiceNotBuilt, Take
  <1> QED
    BY <1>1, <1>2, <1>3, <1>4, BrokerWriters

\* The unique index: an insert never adds a second row for a delivery, and no
\* update moves a row to another delivery.
LEMMA OneRecordStep ==
    ASSUME IInv, [Next]_vars
    PROVE  OneRecordPerDelivery'
  <1>t. /\ pr \in [Jobs -> Rows]
        /\ handler \in [Handlers -> HandlerStates]
    BY DEF IInv, TypeOK
  <1>p. \A j \in Jobs : TableProgress(j)
    BY TableStep
  <1> SUFFICES ASSUME NEW d \in Deliveries, NEW i \in Jobs, NEW j \in Jobs,
                      pr'[i].status # "absent", pr'[i].delivery = d,
                      pr'[j].status # "absent", pr'[j].delivery = d,
                      i # j
               PROVE  FALSE
    BY DEF OneRecordPerDelivery, Existing, Exists
  <1>1. ASSUME NEW h \in Handlers, NEW k \in Jobs, CreateRecord(h, k)
        PROVE  FALSE
    <2>1. /\ UniqueDelivery(handler[h].delivery)
          /\ pr'[k].delivery = handler[h].delivery
          /\ \A l \in Jobs : l # k => pr'[l] = pr[l]
      BY <1>1, <1>t DEF CreateRecord, InsertRow
    <2>2. CASE i # k /\ j # k
      BY <2>1, <2>2 DEF IInv, OneRecordPerDelivery, Existing, Exists
    <2>3. CASE i = k \/ j = k
      <3>1. \E l \in Jobs : Exists(l) /\ pr[l].delivery = d
        BY <2>1, <2>3 DEF Exists
      <3>2. d = handler[h].delivery
        BY <2>1, <2>3
      <3> QED
        BY <2>1, <3>1, <3>2, NoDeliveryAssumption DEF UniqueDelivery, Existing
    <2> QED
      BY <2>2, <2>3
  <1>2. CASE ~\E h \in Handlers, k \in Jobs : CreateRecord(h, k)
    <2>1. /\ Exists(i) /\ pr[i].delivery = d
          /\ Exists(j) /\ pr[j].delivery = d
      BY <1>2, <1>p DEF TableProgress, Exists
    <2> QED
      BY <2>1 DEF IInv, OneRecordPerDelivery, Existing
  <1> QED
    BY <1>1, <1>2

\* What is recorded as lost stays recorded.
LEMMA MishapsStep ==
    ASSUME IInv, [Next]_vars, NEW j \in Jobs
    PROVE  mishaps[j] \subseteq mishaps'[j]
  <1>t. mishaps \in [Jobs -> SUBSET (Losses \cup {"unclear"})]
    BY DEF IInv, TypeOK
  <1>1. CASE UNCHANGED mishaps
    BY <1>1
  <1>2. ASSUME NEW h \in Handlers, RequestDies(h)
        PROVE  mishaps[j] \subseteq mishaps'[j]
    BY <1>2, <1>t DEF RequestDies
  <1>3. ASSUME NEW w \in Workers, ErrorEscapes(w) \/ WorkerDies(w)
        PROVE  mishaps[j] \subseteq mishaps'[j]
    BY <1>3, <1>t DEF ErrorEscapes, WorkerDies, LoseAttempt
  <1>4. ASSUME NEW h \in Handlers, DispatchUnclear(h)
        PROVE  mishaps[j] \subseteq mishaps'[j]
    BY <1>4, <1>t DEF DispatchUnclear
  <1>5. ASSUME NEW w \in Workers, NEW i \in Jobs, ServiceNotBuilt(w, i)
        PROVE  mishaps[j] \subseteq mishaps'[j]
    BY <1>5, <1>t DEF ServiceNotBuilt
  <1>6. \/ UNCHANGED mishaps
        \/ \E h \in Handlers : RequestDies(h) \/ DispatchUnclear(h)
        \/ \E w \in Workers :
              \/ ErrorEscapes(w) \/ WorkerDies(w)
              \/ \E i \in Jobs : ServiceNotBuilt(w, i)
    BY DEF Next, Webhook, Continue, Start, Finish, ReuseExisting, RejectEvent,
           AcceptEvent, DirectRequest, Enqueue, CreateRecord, InsertRow,
           DuplicateInsert, RecordIngest, Dispatch, DispatchFails,
           MarkDispatchFailed, SaveDispatchFailure,
           RecordDispatch, Redeliver, StartTask, Load, FetchPatch, Complete,
           ProcessingFails, ReadRecord, ReadAnalyses, history, vars
  <1> QED
    BY <1>1, <1>2, <1>3, <1>4, <1>5, <1>6

\* Only the start of its task takes a message from the broker.
LEMMA BrokerStep ==
    ASSUME IInv, [Next]_vars, NEW j \in Jobs, broker[j] > 0
    PROVE  \/ broker'[j] > 0
           \/ \E w \in Workers : StartTask(w, j) \/ ServiceNotBuilt(w, j)
  <1>t. broker \in [Jobs -> Nat] /\ handler \in [Handlers -> HandlerStates]
    BY DEF IInv, TypeOK
  <1>1. CASE UNCHANGED broker
    BY <1>1
  <1>2. ASSUME NEW h \in Handlers, Dispatch(h) \/ DispatchUnclear(h)
        PROVE  broker'[j] > 0
    BY <1>2, <1>t DEF Dispatch, DispatchUnclear, Publish
  <1>3. ASSUME NEW i \in Jobs, Redeliver(i)
        PROVE  broker'[j] > 0
    BY <1>3, <1>t DEF Redeliver, Publish
  <1>4. ASSUME NEW w \in Workers, NEW i \in Jobs,
               StartTask(w, i) \/ ServiceNotBuilt(w, i)
        PROVE  i = j \/ broker'[j] > 0
    BY <1>4, <1>t DEF StartTask, ServiceNotBuilt, Take
  <1> QED
    BY <1>1, <1>2, <1>3, <1>4, BrokerWriters

\* A queued job changes hands but is not dropped: the request hands it to the
\* broker, the broker to a worker, and whoever gives it up without a verdict
\* is recorded in mishaps.
LEMMA NoSilentLossStep ==
    ASSUME IInv, [Next]_vars
    PROVE  NoSilentLoss'
  <1>t. TypeOK
    BY DEF IInv
  <1> SUFFICES ASSUME NEW j \in Jobs, pr'[j].status = "queued"
               PROVE  \/ Dispatching(j)' \/ broker'[j] > 0
                      \/ Attempting(j)' \/ Lost(j)'
    BY DEF NoSilentLoss
  <1>p. TableProgress(j)
    BY TableStep
  <1>1. ASSUME NEW h \in Handlers, CreateRecord(h, j)
        PROVE  Dispatching(j)'
    BY <1>1, <1>t DEF CreateRecord, InsertRow, Dispatching, Holds, TypeOK
  <1>2. CASE ~\E h \in Handlers : CreateRecord(h, j)
    <2>1. pr[j].status = "queued"
      <3>1. pr[j].status \in Statuses
        BY <1>t DEF TypeOK, Rows
      <3> QED
        BY <1>2, <1>p, <3>1 DEF TableProgress, Exists, Statuses, Verdicts
    <2>2. CASE Lost(j)
      <3>1. mishaps[j] \subseteq mishaps'[j]
        BY <1>t, MishapsStep
      <3> QED
        BY <2>2, <3>1 DEF Lost
    <2>3. ASSUME NEW h \in Handlers, handler[h].job = j,
                 handler[h].at \in {"ingest", "dispatch", "mark"}
          PROVE  Dispatching(j)' \/ broker'[j] > 0 \/ Lost(j)'
      <3> USE <2>3 DEF Dispatching, Holds
      <3>1. CASE handler'[h] = handler[h]
        BY <3>1
      <3>2. CASE RecordIngest(h) \/ DispatchFails(h) \/ DispatchUnclear(h)
        BY <3>2, <1>t DEF RecordIngest, DispatchFails, DispatchUnclear, Step,
                          TypeOK, HandlerStates
      <3>3. CASE Dispatch(h)
        BY <3>3, <1>t DEF Dispatch, Publish, TypeOK
      <3>4. CASE MarkDispatchFailed(h)
        <4>1. pr'[j] = [pr[j] EXCEPT !.status = "dispatch_failed",
                                     !.error = "dispatch"]
          BY <3>4, <1>t DEF MarkDispatchFailed, SaveDispatchFailure, TypeOK
        <4>2. pr'[j].status = "dispatch_failed"
          BY <4>1, <1>t DEF TypeOK, Rows
        <4> QED
          BY <4>2
      <3>5. CASE RequestDies(h)
        BY <3>5, <1>t DEF RequestDies, TypeOK, Lost, Losses
      <3> QED
        BY <3>1, <3>2, <3>3, <3>4, <3>5, HandlerWriters
        DEF AcceptEvent, DirectRequest, Enqueue, CreateRecord, InsertRow,
            DuplicateInsert, RecordDispatch
    <2>4. CASE broker[j] > 0
      <3>1. ASSUME NEW w \in Workers, StartTask(w, j)
            PROVE  Attempting(j)'
        BY <3>1, <1>t DEF StartTask, Load, Attempting, Attempts, TypeOK
      <3>2. ASSUME NEW w \in Workers, ServiceNotBuilt(w, j)
            PROVE  Lost(j)'
        BY <3>2, <1>t DEF ServiceNotBuilt, TypeOK, Lost, Losses
      <3>3. CASE ~\E w \in Workers : StartTask(w, j) \/ ServiceNotBuilt(w, j)
        BY <3>3, <2>4, <1>t, BrokerStep
      <3> QED
        BY <3>1, <3>2, <3>3
    <2>5. ASSUME NEW w \in Workers, worker[w].at # "idle", worker[w].job = j
          PROVE  Attempting(j)' \/ Lost(j)'
      <3> USE <2>5 DEF Attempting, Attempts
      <3>1. CASE worker'[w] = worker[w]
        BY <3>1
      <3>2. CASE FetchPatch(w)
        BY <3>2, <1>t DEF FetchPatch, TypeOK, Sessions
      <3>3. CASE \/ Complete(w)
                 \/ \E sameText \in BOOLEAN : ProcessingFails(w, sameText)
        <4>1. pr'[j].status \in Verdicts
          BY <3>3, <1>t, AttemptEnds DEF TypeOK
        <4> QED
          BY <4>1 DEF Verdicts
      <3>4. CASE ErrorEscapes(w) \/ WorkerDies(w)
        <4>1. mishaps'[j] = mishaps[j] \cup {"escape"}
              \/ mishaps'[j] = mishaps[j] \cup {"crash"}
          BY <3>4, <1>t DEF ErrorEscapes, WorkerDies, LoseAttempt, TypeOK
        <4> QED
          BY <4>1 DEF Lost, Losses
      <3> QED
        BY <3>1, <3>2, <3>3, <3>4, WorkerWriters DEF StartTask, Load
    <2> QED
      BY <2>1, <2>2, <2>3, <2>4, <2>5
      DEF IInv, NoSilentLoss, Dispatching, Holds, Attempting, Attempts
  <1> QED
    BY <1>1, <1>2

\* An answer is given when it is true, and what it says stays true.
LEMMA AnswerStep ==
    ASSUME IInv, [Next]_vars, NEW d \in Deliveries
    PROVE  AnswerInv(d)'
  <1>t. TypeOK
    BY DEF IInv
  <1>i. AnswerInv(d)
    BY DEF IInv
  <1>1. ASSUME NEW j \in Existing(d)
        PROVE  /\ j \in Existing(d)'
               /\ pr[j].status # "queued" => pr'[j].status # "queued"
    <2>1. TableProgress(j) /\ j \in Jobs /\ pr[j].status \in Statuses
      BY <1>1, <1>t, TableStep DEF Existing, TypeOK, Rows
    <2> QED
      BY <1>1, <2>1 DEF TableProgress, Existing, Exists, Statuses, Verdicts
  <1> USE ScreenedConstant DEF AnswerInv
  <1>2. CASE answer'[d] = answer[d]
    BY <1>1, <1>2, <1>i
  <1>3. ASSUME NEW h \in Handlers, ReuseExisting(h, d)
        PROVE  AnswerInv(d)'
    BY <1>1, <1>3, <1>t DEF ReuseExisting, TypeOK
  <1>4. ASSUME NEW h \in Handlers, RejectEvent(h, d)
        PROVE  AnswerInv(d)'
    BY <1>4, <1>t, ScreenedType DEF RejectEvent, TypeOK
  <1>5. ASSUME NEW h \in Handlers, handler[h].delivery = d,
               DuplicateInsert(h) \/ RequestDies(h)
        PROVE  AnswerInv(d)'
    BY <1>5, <1>t DEF DuplicateInsert, RequestDies, End, Answered, TypeOK
  <1>6. ASSUME NEW h \in Handlers, handler[h].delivery = d,
               RecordDispatch(h) \/ MarkDispatchFailed(h)
        PROVE  AnswerInv(d)'
    <2> DEFINE j == handler[h].job
    <2>1. j \in Existing(d)
      BY <1>6 DEF RecordDispatch, MarkDispatchFailed, SaveDispatchFailure,
                  Existing, IInv, RequestInv
    <2>2. j \in Existing(d)'
      BY <1>1, <2>1
    <2>3. CASE RecordDispatch(h)
      <3>1. answer'[d] = "accepted"
        BY <1>6, <2>3, <1>t DEF RecordDispatch, End, Answered, TypeOK
      <3> QED
        BY <2>2, <3>1
    <2>4. CASE MarkDispatchFailed(h)
      <3>1. pr'[j] = [pr[j] EXCEPT !.status = "dispatch_failed",
                                   !.error = "dispatch"]
        BY <2>1, <2>4, <1>t DEF MarkDispatchFailed, SaveDispatchFailure,
                                Existing, TypeOK
      <3>2. pr'[j].status = "dispatch_failed"
        BY <2>1, <3>1, <1>t DEF Existing, TypeOK, Rows
      <3>3. answer'[d] = "unavailable"
        BY <1>6, <2>4, <1>t DEF MarkDispatchFailed, SaveDispatchFailure, End,
                                Answered, TypeOK
      <3> QED
        BY <2>2, <3>2, <3>3
    <2> QED
      BY <1>6, <2>3, <2>4
  <1>7. \/ UNCHANGED answer
        \/ \E h \in Handlers, e \in Deliveries :
              ReuseExisting(h, e) \/ RejectEvent(h, e)
        \/ \E h \in Handlers :
              \/ DuplicateInsert(h) \/ RequestDies(h)
              \/ RecordDispatch(h) \/ MarkDispatchFailed(h)
    BY DEF Next, Webhook, Continue, Start, Finish, ServiceNotBuilt, Take,
           AcceptEvent, DirectRequest,
           Enqueue, CreateRecord, InsertRow, RecordIngest, Dispatch,
           DispatchFails, DispatchUnclear, Redeliver, StartTask, Load,
           FetchPatch, Complete, ProcessingFails, ErrorEscapes, WorkerDies,
           LoseAttempt, EndTask, ReadRecord, ReadAnalyses, history, vars
  <1>8. ASSUME NEW h \in Handlers, NEW e \in Deliveries,
               ReuseExisting(h, e) \/ RejectEvent(h, e)
        PROVE  e = d \/ answer'[d] = answer[d]
    BY <1>8, <1>t DEF ReuseExisting, RejectEvent, TypeOK
  <1>9. ASSUME NEW h \in Handlers,
               \/ DuplicateInsert(h) \/ RequestDies(h)
               \/ RecordDispatch(h) \/ MarkDispatchFailed(h)
        PROVE  handler[h].delivery = d \/ answer'[d] = answer[d]
    BY <1>9, <1>t DEF DuplicateInsert, RequestDies, RecordDispatch,
                      MarkDispatchFailed, SaveDispatchFailure, End, Answered,
                      TypeOK
  <1> QED
    BY <1>2, <1>3, <1>4, <1>5, <1>6, <1>7, <1>8, <1>9

----------------------------------------------------------------------------
(* The theorems. *)

\* The inductive invariant holds in every reachable state.
THEOREM Invariance == Spec => []IInv
  <1>1. Init => IInv
    <2> SUFFICES ASSUME Init
                 PROVE  IInv
      OBVIOUS
    <2>1. TypeOK
      BY DEF Init, TypeOK, NoRow, Rows, Statuses, Verdicts, IdleHandler,
             IdleWorker, IdleReader, HandlerStates, Sessions, Views, Answers
    <2>2. /\ \A h \in Handlers : RequestInv(h)
          /\ \A w \in Workers : AttemptInv(w)
      BY DEF Init, RequestInv, AttemptInv, IdleHandler, IdleWorker
    <2>3. /\ \A j \in Jobs : MessageInv(j) /\ RowInv(j)
          /\ \A d \in Deliveries : AnswerInv(d)
      BY DEF Init, MessageInv, RowInv, AnswerInv, Exists, NoRow, Verdicts
    <2>4. OneRecordPerDelivery /\ NoSilentLoss
      BY DEF Init, OneRecordPerDelivery, NoSilentLoss, Existing, Exists, NoRow
    <2> QED
      BY <2>1, <2>2, <2>3, <2>4 DEF IInv
  <1>2. IInv /\ [Next]_vars => IInv'
    <2> SUFFICES ASSUME IInv, [Next]_vars
                 PROVE  IInv'
      OBVIOUS
    <2>1. TypeOK'
      BY TypeStep DEF IInv
    <2>2. \A h \in Handlers : RequestInv(h)'
      BY RequestStep
    <2>3. \A j \in Jobs : MessageInv(j)' /\ RowInv(j)'
      BY MessageStep, RowStep
    <2>4. \A w \in Workers : AttemptInv(w)'
      BY AttemptStep
    <2>5. \A d \in Deliveries : AnswerInv(d)'
      BY AnswerStep
    <2>6. OneRecordPerDelivery' /\ NoSilentLoss'
      BY OneRecordStep, NoSilentLossStep
    <2> QED
      BY <2>1, <2>2, <2>3, <2>4, <2>5, <2>6 DEF IInv
  <1> QED
    BY <1>1, <1>2, PTL DEF Spec

\* Under concurrent and repeated deliveries at any number of API processes, a
\* delivery id names at most one job.
THEOREM DeliveriesAreDeduplicated == Spec => []OneRecordPerDelivery
  <1>1. IInv => OneRecordPerDelivery
    BY DEF IInv
  <1> QED
    BY <1>1, Invariance, PTL

\* No interleaving drops a queued job: the request, the broker or a worker has
\* it, unless one of the recorded failures took its owner away.
THEOREM NoJobIsLostSilently == Spec => []NoSilentLoss
  <1>1. IInv => NoSilentLoss
    BY DEF IInv
  <1> QED
    BY <1>1, Invariance, PTL

\* The correlation of a job is stored before anybody else can work on it.
THEOREM JobsAreTraced == Spec => []TraceBeforeWork
  <1>1. IInv => TraceBeforeWork
    BY DEF IInv, TraceBeforeWork, MessageInv, AttemptInv, RowInv, Attempting,
                   Attempts
  <1> QED
    BY <1>1, Invariance, PTL

\* What a webhook's sender was told stays true of the table.
THEOREM AnswersHold == Spec => []AnswersAreHonest
  <1>1. IInv => AnswersAreHonest
    <2> SUFFICES ASSUME IInv, NEW d \in Deliveries
                 PROVE  AnswerInv(d) /\ (Existing(d) # {} => Screened(d) = "analyze")
      BY DEF AnswersAreHonest, AnswerInv
    <2>1. AnswerInv(d)
      BY DEF IInv
    <2>2. ASSUME NEW j \in Existing(d)
          PROVE  Screened(d) = "analyze"
      BY <2>2, NoDeliveryAssumption DEF Existing, IInv, RowInv
    <2> QED
      BY <2>1, <2>2
  <1> QED
    BY <1>1, Invariance, PTL

\* A saved patch survives every later commit, those of stale sessions too.
THEOREM PatchesAreKept == Spec => PatchNeverReverts
  <1>1. IInv /\ [Next]_vars =>
          [\A j \in Jobs : pr[j].diff = "patch" => pr'[j].diff = "patch"]_vars
    BY TableStep DEF TableProgress
  <1> QED
    BY <1>1, Invariance, PTL DEF Spec, PatchNeverReverts

----------------------------------------------------------------------------
(* The contract. *)

\* A step that gives one row a verdict is a Settle of the contract.
LEMMA SettleStep ==
    ASSUME IInv, NEW j \in Jobs, NEW r \in Rows,
           Exists(j), pr' = [pr EXCEPT ![j] = r], r.status \in Verdicts,
           analyses'[j] > 0 <=> (analyses[j] > 0 \/ r.status = "completed"),
           \A i \in Jobs : i # j => analyses'[i] = analyses[i]
    PROVE  Lenient!Next
  <1>1. Status' = [Status EXCEPT ![j] = r.status]
    BY DEF Status, IInv, TypeOK
  <1>2. Analysed' = [Analysed EXCEPT ![j] = @ \/ r.status = "completed"]
    <2>1. Analysed'[j] = (Analysed[j] \/ r.status = "completed")
      <3>1. (analyses'[j] > 0) = (analyses[j] > 0 \/ r.status = "completed")
        OBVIOUS
      <3>2. Analysed[j] = (analyses[j] > 0) /\ Analysed'[j] = (analyses'[j] > 0)
        BY Zenon DEF Analysed
      <3> QED
        BY <3>1, <3>2
    <2>2. \A i \in Jobs : i # j => Analysed'[i] = Analysed[i]
      BY DEF Analysed
    <2> QED
      BY <2>1, <2>2 DEF Analysed
  <1>3. Status[j] # "absent"
    BY DEF Status, Exists
  <1>4. Lenient!Settle(j, r.status)
    BY <1>1, <1>2, <1>3 DEF Lenient!Settle
  <1> QED
    BY <1>4 DEF Lenient!Next, Lenient!Verdicts, Verdicts

\* Whatever fails and however often a job is attempted, it goes from absent to
\* queued to a verdict, never back, and is completed only with an analysis.
THEOREM ContractIsKept == Spec => KeepsContract
  <1>1. Init => Lenient!Init
    <2> SUFFICES ASSUME Init
                 PROVE  /\ Status = [j \in Jobs |-> "absent"]
                        /\ Analysed = [j \in Jobs |-> FALSE]
      BY DEF Lenient!Init
    <2>1. Status = [j \in Jobs |-> "absent"]
      BY DEF Init, Status, NoRow
    <2>2. \A j \in Jobs : (analyses[j] > 0) = FALSE
      BY DEF Init
    <2> QED
      BY <2>1, <2>2, Zenon DEF Analysed
  <1>2. IInv /\ [Next]_vars => [Lenient!Next]_(Lenient!vars)
    <2> SUFFICES ASSUME IInv, [Next]_vars
                 PROVE  Lenient!Next \/ (Status' = Status /\ Analysed' = Analysed)
      BY DEF Lenient!vars
    <2>t. TypeOK
      BY DEF IInv
    <2>1. CASE UNCHANGED <<pr, analyses>>
      BY <2>1 DEF Status, Analysed
    <2>2. ASSUME NEW h \in Handlers, NEW j \in Jobs, CreateRecord(h, j)
          PROVE  Lenient!Next
      <3>1. Status' = [Status EXCEPT ![j] = "queued"]
        BY <2>2, <2>t DEF CreateRecord, InsertRow, Status, TypeOK
      <3>2. Status[j] = "absent" /\ Analysed' = Analysed
        BY <2>2 DEF CreateRecord, InsertRow, Exists, Status, Analysed
      <3> QED
        BY <3>1, <3>2 DEF Lenient!Next, Lenient!Accept
    <2>3. ASSUME NEW h \in Handlers, MarkDispatchFailed(h)
          PROVE  Lenient!Next
      <3> DEFINE j == handler[h].job
                 r == [pr[j] EXCEPT !.status = "dispatch_failed",
                                    !.error = "dispatch"]
      <3>1. j \in Jobs /\ Exists(j)
        BY <2>3 DEF MarkDispatchFailed, SaveDispatchFailure, IInv, RequestInv
      <3>2. r \in Rows /\ r.status = "dispatch_failed"
        <4> HIDE DEF j
        <4>1. pr[j] \in Rows
          BY <3>1, <2>t DEF TypeOK
        <4> QED
          BY <4>1 DEF Rows, Statuses, Verdicts
      <3>3. pr' = [pr EXCEPT ![j] = r] /\ analyses' = analyses
        BY <2>3 DEF MarkDispatchFailed, SaveDispatchFailure
      <3> HIDE DEF j, r
      <3> QED
        BY <3>1, <3>2, <3>3, SettleStep DEF Verdicts
    <2>4. ASSUME NEW w \in Workers,
                 \/ Complete(w)
                 \/ \E sameText \in BOOLEAN : ProcessingFails(w, sameText)
          PROVE  Lenient!Next
      <3> DEFINE j == worker[w].job
      <3>1. j \in Jobs /\ Exists(j)
        BY <2>4 DEF Complete, ProcessingFails, MayEnd, IInv, AttemptInv
      <3>2. PICK r \in Rows :
              /\ pr' = [pr EXCEPT ![j] = r]
              /\ r.status \in Verdicts
              /\ analyses'[j] > 0 <=> (analyses[j] > 0 \/ r.status = "completed")
        BY <2>4, AttemptEnds
      <3>3. \A i \in Jobs : i # j => analyses'[i] = analyses[i]
        BY <2>4, AttemptEnds
      <3> HIDE DEF j
      <3> QED
        BY <3>1, <3>2, <3>3, SettleStep
    <2> QED
      BY <2>1, <2>2, <2>3, <2>4, TableWriters
      DEF table, RecordIngest, RecordDispatch
  <1> QED
    BY <1>1, <1>2, Invariance, PTL DEF Spec, KeepsContract, Lenient!Spec
=============================================================================
