---------------------------- MODULE SettledProofs ----------------------------
(***************************************************************************)
(* A job that was published at most once, with a clear outcome, is worked  *)
(* on in one place at a time: SettledOnce and ErrorMatchesStatus, whatever *)
(* else fails, and the contract in which a verdict is the last word.       *)
(***************************************************************************)
EXTENDS PullRequestJobsProofs

Once(j) ==
    Undisturbed(j) =>
        /\ pr[j].status \in Verdicts => broker[j] = 0 /\ ~Attempting(j)
        /\ analyses[j] = IF pr[j].status = "completed" THEN 1 ELSE 0

Matches(j) ==
    Undisturbed(j) =>
        /\ pr[j].error = "processing" <=> pr[j].status = "failed"
        /\ pr[j].error = "dispatch" <=> pr[j].status = "dispatch_failed"

JobInv(j) == OwnerInv(j) /\ QuietInv(j) /\ Once(j) /\ Matches(j)

\* A step that leaves the row, its analyses and its messages alone, and gives
\* the job to nobody new.
Untouched(j) ==
    /\ pr'[j] = pr[j]
    /\ analyses'[j] = analyses[j]
    /\ broker'[j] = broker[j]
    /\ copies'[j] = copies[j]
    /\ mishaps[j] \subseteq mishaps'[j]
    /\ \A h \in Handlers : Holds(h, j)' => Holds(h, j)
    /\ \A w \in Workers : Attempts(w, j)' =>
          Attempts(w, j) /\ worker'[w].row = worker[w].row

\* A job that a step does not touch keeps its invariant.
LEMMA UntouchedStep ==
    ASSUME NEW j \in Jobs, JobInv(j), Untouched(j)
    PROVE  JobInv(j)'
  <1>1. Undisturbed(j)' => Undisturbed(j)
    BY DEF Untouched, Undisturbed
  <1>2. Dispatching(j)' => Dispatching(j)
    BY DEF Untouched, Dispatching
  <1>3. Attempting(j)' => Attempting(j)
    BY DEF Untouched, Attempting
  <1>4. OwnerInv(j)'
    BY DEF JobInv, OwnerInv, Untouched, Exists
  <1>5. QuietInv(j)'
    BY <1>1, <1>2, <1>3 DEF JobInv, QuietInv, Untouched
  <1>6. Once(j)' /\ Matches(j)'
    BY <1>1, <1>3 DEF JobInv, Once, Matches, Untouched
  <1> QED
    BY <1>4, <1>5, <1>6 DEF JobInv

\* The steps of requests that write no job and publish nothing.
LEMMA RequestsUntouched ==
    ASSUME IInv, NEW j \in Jobs, NEW h \in Handlers,
           \/ Webhook(h) \/ DirectRequest(h) \/ DuplicateInsert(h)
           \/ RecordIngest(h) \/ DispatchFails(h) \/ RecordDispatch(h)
           \/ RequestDies(h)
    PROVE  Untouched(j)
  <1>t. /\ handler \in [Handlers -> HandlerStates]
        /\ mishaps \in [Jobs -> SUBSET (Losses \cup {"unclear"})]
    BY DEF IInv, TypeOK
  <1>1. ASSUME NEW d \in Deliveries,
               \/ ReuseExisting(h, d) \/ RejectEvent(h, d)
        PROVE  UNCHANGED <<pr, analyses, broker, copies, mishaps, worker, handler>>
    BY <1>1 DEF ReuseExisting, RejectEvent, table, queue
  <1>2. ASSUME \/ \E d \in Deliveries : AcceptEvent(h, d)
               \/ DirectRequest(h) \/ DuplicateInsert(h)
               \/ RecordIngest(h) \/ DispatchFails(h) \/ RecordDispatch(h)
               \/ RequestDies(h)
        PROVE  /\ UNCHANGED <<pr, analyses, broker, copies, worker>>
               /\ mishaps[j] \subseteq mishaps'[j]
    BY <1>2, <1>t DEF AcceptEvent, DirectRequest, DuplicateInsert, Enqueue,
       RecordIngest, DispatchFails, RecordDispatch, RequestDies, table, queue,
       history
  <1>3. ASSUME \/ \E d \in Deliveries : AcceptEvent(h, d)
               \/ DirectRequest(h) \/ DuplicateInsert(h)
               \/ RecordDispatch(h) \/ RequestDies(h)
        PROVE  \A g \in Handlers : Holds(g, j)' => Holds(g, j)
    BY <1>3, <1>t DEF AcceptEvent, DirectRequest, DuplicateInsert, Enqueue,
       RecordDispatch, RequestDies, End, IdleHandler, Holds
  <1>4. ASSUME RecordIngest(h) \/ DispatchFails(h)
        PROVE  \A g \in Handlers : Holds(g, j)' => Holds(g, j)
    <2>1. /\ handler'[h].job = handler[h].job
          /\ handler[h].at \in {"ingest", "dispatch"}
          /\ \A g \in Handlers : g # h => handler'[g] = handler[g]
      BY <1>4, <1>t DEF RecordIngest, DispatchFails, Step, HandlerStates
    <2> QED
      BY <2>1 DEF Holds
  <1> QED
    BY <1>1, <1>2, <1>3, <1>4 DEF Webhook, Untouched, Holds, Attempts

\* An insert makes a job that no one else has heard of.
LEMMA InsertStep ==
    ASSUME IInv, NEW j \in Jobs, JobInv(j), NEW h \in Handlers, NEW i \in Jobs,
           CreateRecord(h, i)
    PROVE  JobInv(j)'
  <1>t. /\ pr \in [Jobs -> Rows]
        /\ analyses \in [Jobs -> Nat]
        /\ broker \in [Jobs -> Nat]
        /\ copies \in [Jobs -> Nat]
        /\ handler \in [Handlers -> HandlerStates]
    BY DEF IInv, TypeOK
  <1>1. /\ handler' = [handler EXCEPT ![h] = [at |-> "ingest", job |-> i,
                                       delivery |-> handler[h].delivery]]
        /\ handler[h].at = "create"
        /\ ~Exists(i)
        /\ pr' = [pr EXCEPT ![i] = pr'[i]]
        /\ pr'[i].status = "queued"
        /\ pr'[i].error = "none"
        /\ UNCHANGED <<analyses, broker, copies, mishaps, worker>>
    BY <1>t DEF CreateRecord, InsertRow, queue, history
  <1>2. CASE i # j
    <2>1. Untouched(j)
      BY <1>1, <1>2, <1>t DEF Untouched, Holds, Attempts
    <2> QED
      BY <2>1, UntouchedStep
  <1>3. CASE i = j
    <2>1. \A g \in Handlers : ~Holds(g, j)
      BY <1>1, <1>3 DEF Holds, IInv, RequestInv
    <2>2. \A w \in Workers : ~Attempts(w, j)
      BY <1>1, <1>3 DEF Attempts, IInv, AttemptInv
    <2>3. copies[j] = 0 /\ broker[j] = 0 /\ analyses[j] = 0
      BY <1>1, <1>3, <1>t DEF JobInv, OwnerInv, IInv, MessageInv, RowInv
    <2>4. \A g \in Handlers : Holds(g, j)' => g = h
      BY <1>1, <2>1, <1>t DEF Holds
    <2>5. \A w \in Workers : ~Attempts(w, j)'
      BY <1>1, <2>2 DEF Attempts
    <2>6. copies'[j] = 0 /\ broker'[j] = 0 /\ analyses'[j] = 0
      BY <1>1, <2>3
    <2>7. pr'[j].status = "queued" /\ pr'[j].error = "none"
      BY <1>1, <1>3
    <2> QED
      BY <2>4, <2>5, <2>6, <2>7
      DEF JobInv, OwnerInv, QuietInv, Once, Matches, Attempting, Verdicts
  <1> QED
    BY <1>2, <1>3

\* A publish hands the job to the broker; after an unclear one it is no longer
\* undisturbed.
LEMMA PublishStep ==
    ASSUME IInv, NEW j \in Jobs, JobInv(j), NEW h \in Handlers,
           Dispatch(h) \/ DispatchUnclear(h)
    PROVE  JobInv(j)'
  <1>t. /\ pr \in [Jobs -> Rows]
        /\ broker \in [Jobs -> Nat]
        /\ copies \in [Jobs -> Nat]
        /\ handler \in [Handlers -> HandlerStates]
        /\ mishaps \in [Jobs -> SUBSET (Losses \cup {"unclear"})]
    BY DEF IInv, TypeOK
  <1> DEFINE i == handler[h].job
  <1>1. /\ handler[h].at = "dispatch"
        /\ i \in Jobs /\ Exists(i)
        /\ broker' = [broker EXCEPT ![i] = @ + 1]
        /\ copies' = [copies EXCEPT ![i] = @ + 1]
        /\ UNCHANGED <<pr, analyses, worker>>
        /\ mishaps[j] \subseteq mishaps'[j]
    BY <1>t DEF Dispatch, DispatchUnclear, Publish, table, history, IInv,
                RequestInv
  <1>2. /\ handler'[h].job = i
        /\ handler'[h].at \in {"mark", "record"}
        /\ Dispatch(h) => handler'[h].at = "record"
        /\ \A g \in Handlers : g # h => handler'[g] = handler[g]
    BY <1>t DEF Dispatch, DispatchUnclear, Step, HandlerStates
  <1>3. \A g \in Handlers : Holds(g, j)' => Holds(g, j)
    BY <1>1, <1>2 DEF Holds
  <1>4. \A w \in Workers : Attempts(w, j)' <=> Attempts(w, j)
    BY <1>1 DEF Attempts
  <1>5. CASE i # j
    <2>1. Untouched(j)
      BY <1>1, <1>3, <1>4, <1>5, <1>t DEF Untouched
    <2> QED
      BY <2>1, UntouchedStep
  <1>6. CASE i = j
    <2>1. OwnerInv(j)'
      BY <1>1, <1>3, <1>6 DEF JobInv, OwnerInv, Exists
    <2>2. CASE DispatchUnclear(h)
      <3>1. "unclear" \in mishaps'[j]
        BY <1>6, <1>t, <2>2 DEF DispatchUnclear
      <3> QED
        BY <2>1, <3>1 DEF JobInv, QuietInv, Once, Matches, Undisturbed
    <2>3. CASE Dispatch(h)
      <3>1. Undisturbed(j)' => Undisturbed(j)
        BY <1>1, <1>6, <1>t DEF Undisturbed
      <3>2. Holds(h, j)
        BY <1>1, <1>6 DEF Holds
      <3>3. Undisturbed(j) =>
              /\ copies[j] = 0 /\ broker[j] = 0
              /\ pr[j].status = "queued"
              /\ ~Attempting(j)
        BY <1>t, <3>2 DEF JobInv, QuietInv, Dispatching
      <3>4. \A g \in Handlers : ~Holds(g, j)'
        BY <1>2, <1>3, <2>3, <3>2 DEF JobInv, OwnerInv, Holds
      <3>5. Undisturbed(j)' =>
              /\ copies'[j] = 1 /\ broker'[j] = 1
              /\ pr'[j].status = "queued"
              /\ \A w \in Workers : ~Attempts(w, j)'
        BY <1>1, <1>4, <1>6, <1>t, <3>1, <3>3 DEF Attempting
      <3>6. QuietInv(j)'
        BY <3>4, <3>5 DEF QuietInv, Dispatching, Attempting
      <3>7. Once(j)' /\ Matches(j)'
        BY <1>1, <3>1, <3>5 DEF JobInv, Once, Matches, Verdicts
      <3> QED
        BY <2>1, <3>6, <3>7 DEF JobInv
    <2> QED
      BY <2>2, <2>3
  <1> QED
    BY <1>5, <1>6

\* A message that is on the broker twice is a disturbance.
LEMMA RedeliverStep ==
    ASSUME IInv, NEW j \in Jobs, JobInv(j), NEW i \in Jobs, Redeliver(i)
    PROVE  JobInv(j)'
  <1>t. broker \in [Jobs -> Nat] /\ copies \in [Jobs -> Nat]
    BY DEF IInv, TypeOK
  <1>1. /\ broker[i] > 0
        /\ broker' = [broker EXCEPT ![i] = @ + 1]
        /\ copies' = [copies EXCEPT ![i] = @ + 1]
        /\ UNCHANGED <<pr, analyses, handler, worker, mishaps>>
    BY DEF Redeliver, Publish, table, history
  <1>2. CASE i # j
    <2>1. Untouched(j)
      BY <1>1, <1>2, <1>t DEF Untouched, Holds, Attempts
    <2> QED
      BY <2>1, UntouchedStep
  <1>3. CASE i = j
    <2>1. ~Undisturbed(j)'
      BY <1>1, <1>3, <1>t DEF JobInv, QuietInv, Undisturbed
    <2>2. OwnerInv(j)'
      BY <1>1, <1>3 DEF JobInv, OwnerInv, Exists, Holds, IInv, MessageInv
    <2> QED
      BY <2>1, <2>2 DEF JobInv, QuietInv, Once, Matches
  <1> QED
    BY <1>2, <1>3

\* What the mark of a failed dispatch leaves behind is quiet.
LEMMA MarkStep ==
    ASSUME IInv, NEW j \in Jobs, JobInv(j), NEW h \in Handlers,
           MarkDispatchFailed(h)
    PROVE  JobInv(j)'
  <1>t. /\ pr \in [Jobs -> Rows]
        /\ broker \in [Jobs -> Nat]
        /\ copies \in [Jobs -> Nat]
        /\ handler \in [Handlers -> HandlerStates]
    BY DEF IInv, TypeOK
  <1> DEFINE i == handler[h].job
  <1>1. /\ handler[h].at = "mark"
        /\ i \in Jobs
        /\ pr' = [pr EXCEPT ![i] = [@ EXCEPT !.status = "dispatch_failed",
                                             !.error = "dispatch"]]
        /\ UNCHANGED <<analyses, broker, copies, worker, mishaps>>
    BY DEF MarkDispatchFailed, SaveDispatchFailure, queue, IInv, RequestInv
  <1>2. /\ handler'[h].at = "idle"
        /\ \A g \in Handlers : g # h => handler'[g] = handler[g]
    BY <1>t DEF MarkDispatchFailed, SaveDispatchFailure, End, IdleHandler
  <1>3. \A g \in Handlers : Holds(g, j)' => Holds(g, j) /\ g # h
    BY <1>2 DEF Holds
  <1>4. \A w \in Workers : Attempts(w, j)' <=> Attempts(w, j)
    BY <1>1 DEF Attempts
  <1>5. CASE i # j
    <2>1. Untouched(j)
      BY <1>1, <1>3, <1>4, <1>5, <1>t DEF Untouched
    <2> QED
      BY <2>1, UntouchedStep
  <1>6. CASE i = j
    <2>1. Holds(h, j)
      BY <1>1, <1>6 DEF Holds
    <2>2. pr'[j].status = "dispatch_failed" /\ pr'[j].error = "dispatch"
      BY <1>1, <1>6, <1>t DEF Rows
    <2>3. Undisturbed(j) =>
            /\ copies[j] = 0 /\ broker[j] = 0
            /\ pr[j].status = "queued"
            /\ ~Attempting(j)
      BY <1>t, <2>1 DEF JobInv, QuietInv, Dispatching
    <2>4. \A g \in Handlers : ~Holds(g, j)'
      BY <1>3, <2>1 DEF JobInv, OwnerInv
    <2>5. Undisturbed(j)' =>
            /\ copies'[j] = 0 /\ broker'[j] = 0
            /\ analyses'[j] = 0
            /\ \A w \in Workers : ~Attempts(w, j)'
      BY <1>1, <1>4, <2>3 DEF JobInv, Once, Undisturbed, Attempting
    <2>6. OwnerInv(j)'
      BY <2>2, <2>4 DEF OwnerInv, Exists
    <2> QED
      BY <2>2, <2>4, <2>5, <2>6
      DEF JobInv, QuietInv, Once, Matches, Dispatching, Attempting
  <1> QED
    BY <1>5, <1>6

\* A worker takes the message, and for want of a provider loses it.
LEMMA StartStep ==
    ASSUME IInv, NEW j \in Jobs, JobInv(j), NEW w \in Workers, NEW i \in Jobs,
           StartTask(w, i) \/ ServiceNotBuilt(w, i)
    PROVE  JobInv(j)'
  <1>t. /\ pr \in [Jobs -> Rows]
        /\ broker \in [Jobs -> Nat]
        /\ copies \in [Jobs -> Nat]
        /\ worker \in [Workers -> Sessions]
        /\ mishaps \in [Jobs -> SUBSET (Losses \cup {"unclear"})]
    BY DEF IInv, TypeOK
  <1>1. /\ broker[i] > 0
        /\ broker' = [broker EXCEPT ![i] = @ - 1]
        /\ UNCHANGED <<pr, analyses, copies, handler>>
        /\ mishaps[j] \subseteq mishaps'[j]
        /\ worker[w].at = "idle"
        /\ \A v \in Workers : v # w => worker'[v] = worker[v]
        /\ worker'[w] # worker[w] =>
              worker'[w].job = i /\ worker'[w].row = pr[i]
    BY <1>t DEF StartTask, ServiceNotBuilt, Take, Load, table, history
  <1>2. CASE i # j
    <2>1. Untouched(j)
      BY <1>1, <1>2, <1>t DEF Untouched, Holds, Attempts
    <2> QED
      BY <2>1, UntouchedStep
  <1>3. CASE i = j
    <2>1. Undisturbed(j)' => Undisturbed(j)
      BY <1>1 DEF Undisturbed
    <2>2. /\ OwnerInv(j)'
          /\ Dispatching(j)' => Dispatching(j)
      BY <1>1 DEF JobInv, OwnerInv, Exists, Holds, Dispatching
    <2>3. Undisturbed(j) =>
            /\ copies[j] = 1 /\ broker[j] = 1
            /\ pr[j].status = "queued" /\ pr[j].error = "none"
            /\ ~Attempting(j)
            /\ ~Dispatching(j)
      <3>1. pr[j].error \in {"none", "dispatch", "processing"}
        BY <1>t DEF Rows
      <3> QED
        BY <1>1, <1>3, <1>t, <3>1
        DEF JobInv, QuietInv, Matches, Undisturbed
    <2>4. Undisturbed(j) => \A v \in Workers : Attempts(v, j)' =>
            v = w /\ worker'[v].row = pr[j]
      BY <1>1, <1>3, <2>3 DEF Attempting, Attempts
    <2>5. Undisturbed(j) =>
            copies'[j] = 1 /\ broker'[j] = 0 /\ pr'[j] = pr[j]
      BY <1>1, <1>3, <1>t, <2>3
    <2>6. QuietInv(j)'
      BY <2>1, <2>2, <2>3, <2>4, <2>5 DEF QuietInv
    <2>7. Once(j)' /\ Matches(j)'
      BY <1>1, <2>1, <2>3, <2>5 DEF JobInv, Once, Matches, Verdicts
    <2> QED
      BY <2>2, <2>6, <2>7 DEF JobInv
  <1> QED
    BY <1>2, <1>3

\* An attempt that goes on, or ends without a word, changes no job.
LEMMA AttemptsUntouched ==
    ASSUME IInv, NEW j \in Jobs, NEW w \in Workers,
           FetchPatch(w) \/ ErrorEscapes(w) \/ WorkerDies(w)
    PROVE  Untouched(j)
  <1>t. /\ worker \in [Workers -> Sessions]
        /\ mishaps \in [Jobs -> SUBSET (Losses \cup {"unclear"})]
    BY DEF IInv, TypeOK
  <1>1. CASE FetchPatch(w)
    <2>1. /\ worker[w].at = "fetch"
          /\ worker'[w].job = worker[w].job
          /\ worker'[w].row = worker[w].row
          /\ \A v \in Workers : v # w => worker'[v] = worker[v]
      BY <1>1, <1>t DEF FetchPatch, Sessions
    <2> QED
      BY <1>1, <2>1 DEF FetchPatch, Untouched, Holds, Attempts, table, queue,
                        history
  <1>2. CASE ErrorEscapes(w) \/ WorkerDies(w)
    <2>1. /\ worker'[w].at = "idle"
          /\ \A v \in Workers : v # w => worker'[v] = worker[v]
          /\ UNCHANGED <<pr, analyses, broker, copies, handler>>
      BY <1>2, <1>t DEF ErrorEscapes, WorkerDies, LoseAttempt, EndTask,
                        IdleWorker, queue
    <2>2. mishaps[j] \subseteq mishaps'[j]
      BY <1>2, <1>t DEF ErrorEscapes, WorkerDies, LoseAttempt
    <2> QED
      BY <2>1, <2>2 DEF Untouched, Holds, Attempts
  <1> QED
    BY <1>1, <1>2

\* An attempt whose session is current writes both columns, once.
LEMMA EndStep ==
    ASSUME IInv, NEW j \in Jobs, JobInv(j), NEW w \in Workers,
           \/ Complete(w)
           \/ \E sameText \in BOOLEAN : ProcessingFails(w, sameText)
    PROVE  JobInv(j)'
  <1>t. /\ pr \in [Jobs -> Rows]
        /\ analyses \in [Jobs -> Nat]
        /\ broker \in [Jobs -> Nat]
        /\ worker \in [Workers -> Sessions]
    BY DEF IInv, TypeOK
  <1> DEFINE i == worker[w].job
             loaded == worker[w].row
  <1>1. /\ worker[w].at # "idle"
        /\ i \in Jobs /\ Exists(i)
        /\ worker'[w].at = "idle"
        /\ \A v \in Workers : v # w => worker'[v] = worker[v]
        /\ UNCHANGED <<broker, copies, handler, mishaps>>
        /\ \A k \in Jobs : k # i => analyses'[k] = analyses[k] /\ pr'[k] = pr[k]
    BY <1>t DEF Complete, ProcessingFails, MayEnd, EndTask, IdleWorker, queue,
                IInv, AttemptInv
  <1>2. \A v \in Workers : Attempts(v, j)' => Attempts(v, j) /\ v # w
    BY <1>1 DEF Attempts
  <1>3. CASE i # j
    <2>1. Untouched(j)
      BY <1>1, <1>2, <1>3 DEF Untouched, Holds
    <2> QED
      BY <2>1, UntouchedStep
  <1>4. CASE i = j
    <2>1. Attempts(w, j)
      BY <1>1, <1>4 DEF Attempts
    <2>2. Undisturbed(j)' <=> Undisturbed(j)
      BY <1>1 DEF Undisturbed
    <2>3. Undisturbed(j) =>
            /\ copies[j] # 0 /\ broker[j] = 0 /\ broker[j] <= copies[j]
            /\ ~Dispatching(j)
            /\ pr[j].status = "queued"
            /\ loaded.status = "queued" /\ loaded.error = "none"
            /\ \A v \in Workers : Attempts(v, j) => v = w
      BY <1>t, <2>1 DEF JobInv, QuietInv, Attempting
    <2>4. Undisturbed(j) => pr[j].error = "none" /\ analyses[j] = 0
      <3>1. pr[j].error \in {"none", "dispatch", "processing"}
        BY <1>t DEF Rows
      <3> QED
        BY <2>3, <3>1 DEF JobInv, Once, Matches
    <2>5. Undisturbed(j) => \A v \in Workers : ~Attempts(v, j)'
      BY <1>2, <2>3
    <2>6. /\ OwnerInv(j)'
          /\ Dispatching(j)' <=> Dispatching(j)
      <3>1. \A g \in Handlers : Holds(g, j)' <=> Holds(g, j)
        BY <1>1 DEF Holds
      <3>2. Exists(j)'
        <4>1. TableProgress(j)
          BY TableStep DEF Next, Finish
        <4> QED
          BY <1>1, <1>4, <4>1 DEF TableProgress, Exists
      <3> QED
        BY <3>1, <3>2 DEF JobInv, OwnerInv, Dispatching
    <2>7. ASSUME Undisturbed(j)
          PROVE  \/ /\ pr'[j].status = "completed" /\ pr'[j].error = "none"
                    /\ analyses'[j] = 1
                 \/ /\ pr'[j].status = "failed" /\ pr'[j].error = "processing"
                    /\ analyses'[j] = 0
      <3> DEFINE session(s, e) == [loaded EXCEPT !.status = s, !.error = e,
                                                 !.diff = worker[w].diff]
      <3>1. ASSUME NEW s \in {"completed", "failed"}, NEW e \in {"none", "processing"}
            PROVE  /\ Saved(w, s, e).status = s
                   /\ Saved(w, s, e).error = e
                   /\ [Saved(w, s, e) EXCEPT !.error = e].status = s
                   /\ [Saved(w, s, e) EXCEPT !.error = e].error = e
        <4>1. loaded \in Rows
          BY <1>t DEF Sessions
        <4>2. session(s, e).status = s /\ session(s, e).error = e
          <5> HIDE DEF loaded
          <5> QED BY <4>1 DEF Rows
        <4>3. /\ Saved(w, s, e).status = s
              /\ Saved(w, s, e).error = e
          BY <1>4, <2>3, <2>4, <2>7, <4>2 DEF Saved, Flush
        <4>4. Saved(w, s, e) \in Rows
          BY <1>1, SavedType DEF IInv, Statuses, Verdicts
        <4>5. ASSUME NEW r \in Rows, r.status = s
              PROVE  /\ [r EXCEPT !.error = e].status = s
                     /\ [r EXCEPT !.error = e].error = e
          BY <4>5 DEF Rows
        <4> QED
          BY <4>3, <4>4, <4>5
      <3>2. CASE Complete(w)
        BY <1>4, <1>t, <2>4, <2>7, <3>1, <3>2 DEF Complete
      <3>3. ASSUME NEW sameText \in BOOLEAN, ProcessingFails(w, sameText)
            PROVE  /\ pr'[j].status = "failed" /\ pr'[j].error = "processing"
                   /\ analyses'[j] = 0
        <4>1. pr'[j] = [Saved(w, "failed", "processing")
                          EXCEPT !.error = "processing"]
          BY <1>4, <1>t, <2>3, <2>7, <3>3 DEF ProcessingFails
        <4>2. analyses'[j] = 0
          BY <2>4, <2>7, <3>3 DEF ProcessingFails
        <4> QED
          BY <3>1, <4>1, <4>2
      <3> QED
        BY <3>2, <3>3
    <2>8. QuietInv(j)'
      BY <1>1, <2>2, <2>3, <2>5, <2>6 DEF QuietInv, Attempting
    <2>9. Once(j)' /\ Matches(j)'
      BY <1>1, <2>2, <2>3, <2>5, <2>7 DEF Once, Matches, Attempting, Verdicts
    <2> QED
      BY <2>6, <2>8, <2>9 DEF JobInv
  <1> QED
    BY <1>3, <1>4

\* Every step keeps the invariant of every job.
LEMMA JobStep ==
    ASSUME IInv, [Next]_vars, NEW j \in Jobs, JobInv(j)
    PROVE  JobInv(j)'
  <1>1. CASE \E h \in Handlers :
               \/ Webhook(h) \/ DirectRequest(h) \/ DuplicateInsert(h)
               \/ RecordIngest(h) \/ DispatchFails(h) \/ RecordDispatch(h)
               \/ RequestDies(h)
    BY <1>1, RequestsUntouched, UntouchedStep
  <1>2. CASE \E h \in Handlers :
               \/ \E i \in Jobs : CreateRecord(h, i)
               \/ Dispatch(h) \/ DispatchUnclear(h) \/ MarkDispatchFailed(h)
    BY <1>2, InsertStep, PublishStep, MarkStep
  <1>3. CASE \/ \E i \in Jobs : Redeliver(i)
             \/ \E w \in Workers : Start(w)
    BY <1>3, RedeliverStep, StartStep DEF Start
  <1>4. CASE \E w \in Workers : FetchPatch(w) \/ ErrorEscapes(w) \/ WorkerDies(w)
    BY <1>4, AttemptsUntouched, UntouchedStep
  <1>5. CASE \E w \in Workers :
               \/ Complete(w)
               \/ \E sameText \in BOOLEAN : ProcessingFails(w, sameText)
    BY <1>5, EndStep
  <1>6. CASE \/ UNCHANGED vars
             \/ \E r \in Readers :
                   (\E i \in Jobs : ReadRecord(r, i)) \/ ReadAnalyses(r)
    <2>1. UNCHANGED <<pr, analyses, broker, copies, mishaps, handler, worker>>
      BY <1>6 DEF ReadRecord, ReadAnalyses, vars, table, queue, history
    <2>2. Untouched(j)
      BY <2>1 DEF Untouched, Holds, Attempts
    <2> QED
      BY <2>2, UntouchedStep
  <1> QED
    BY <1>1, <1>2, <1>3, <1>4, <1>5, <1>6 DEF Next, Continue, Finish

\* The invariant of every job holds in every reachable state.
LEMMA JobInvariance == Spec => [](\A j \in Jobs : JobInv(j))
  <1>1. Init => \A j \in Jobs : JobInv(j)
    BY DEF Init, JobInv, OwnerInv, QuietInv, Once, Matches, Undisturbed, Holds,
           Attempts, Dispatching, Attempting, NoRow, IdleHandler, IdleWorker,
           Verdicts
  <1>2. IInv /\ (\A j \in Jobs : JobInv(j)) /\ [Next]_vars
          => (\A j \in Jobs : JobInv(j))'
    BY JobStep
  <1> QED
    BY <1>1, <1>2, Invariance, PTL DEF Spec

\* A job published once, with a clear outcome, is analysed once at most, and
\* nothing touches it any more when it is settled.
THEOREM SettledJobsAreQuiet == Spec => []SettledOnce
  <1>1. (\A j \in Jobs : JobInv(j)) => SettledOnce
    BY DEF JobInv, Once, SettledOnce
  <1> QED
    BY <1>1, JobInvariance, PTL

\* Its error column agrees with its status.
THEOREM ErrorsAreConsistent == Spec => []ErrorMatchesStatus
  <1>1. (\A j \in Jobs : JobInv(j)) => ErrorMatchesStatus
    BY DEF JobInv, Matches, ErrorMatchesStatus
  <1> QED
    BY <1>1, JobInvariance, PTL

----------------------------------------------------------------------------
(* The contract in which a verdict is the last word. *)

\* Nothing writes the row of an undisturbed job that is settled.
LEMMA SettledStays ==
    ASSUME IInv, [Next]_vars, NEW j \in Jobs, JobInv(j), Undisturbed(j),
           pr[j].status \in Verdicts
    PROVE  pr'[j] = pr[j] /\ analyses'[j] = analyses[j]
  <1>t. /\ pr \in [Jobs -> Rows]
        /\ analyses \in [Jobs -> Nat]
    BY DEF IInv, TypeOK
  <1>1. CASE UNCHANGED table
    BY <1>1 DEF table
  <1>2. ASSUME NEW h \in Handlers, NEW i \in Jobs, CreateRecord(h, i)
        PROVE  pr'[j] = pr[j] /\ analyses'[j] = analyses[j]
    <2>1. i # j
      BY <1>2 DEF CreateRecord, InsertRow, Exists, Verdicts
    <2> QED
      BY <1>2, <1>t, <2>1 DEF CreateRecord, InsertRow
  <1>3. ASSUME NEW h \in Handlers, RecordIngest(h) \/ RecordDispatch(h)
        PROVE  UNCHANGED <<pr, analyses>>
    BY <1>3 DEF RecordIngest, RecordDispatch
  <1>4. ASSUME NEW h \in Handlers, MarkDispatchFailed(h)
        PROVE  pr'[j] = pr[j] /\ analyses'[j] = analyses[j]
    <2>1. ~Holds(h, j)
      BY DEF JobInv, QuietInv, Dispatching, Verdicts
    <2> QED
      BY <1>4, <1>t, <2>1 DEF MarkDispatchFailed, SaveDispatchFailure, Holds
  <1>5. ASSUME NEW w \in Workers,
               \/ Complete(w)
               \/ \E sameText \in BOOLEAN : ProcessingFails(w, sameText)
        PROVE  pr'[j] = pr[j] /\ analyses'[j] = analyses[j]
    <2>1. worker[w].at # "idle"
      BY <1>5 DEF Complete, ProcessingFails, MayEnd
    <2>2. worker[w].job # j
      BY <2>1 DEF JobInv, Once, Attempting, Attempts
    <2> QED
      BY <1>5, <1>t, <2>2 DEF Complete, ProcessingFails
  <1> QED
    BY <1>1, <1>2, <1>3, <1>4, <1>5, TableWriters

\* Where no fault can disturb a job, none is disturbed.
LEMMA UndisturbedStep ==
    ASSUME Faults \cap {"unclear", "redelivery"} = {},
           IInv, [Next]_vars, NEW j \in Jobs, JobInv(j), Undisturbed(j)
    PROVE  Undisturbed(j)'
  <1>t. /\ copies \in [Jobs -> Nat]
        /\ handler \in [Handlers -> HandlerStates]
        /\ mishaps \in [Jobs -> SUBSET (Losses \cup {"unclear"})]
    BY DEF IInv, TypeOK
  <1>1. copies'[j] <= 1
    <2>1. CASE UNCHANGED copies
      BY <2>1 DEF Undisturbed
    <2>2. ASSUME NEW h \in Handlers, Dispatch(h)
          PROVE  copies'[j] <= 1
      <3>1. handler[h].job = j => copies[j] = 0
        BY <2>2 DEF Dispatch, JobInv, QuietInv, Dispatching, Holds
      <3> QED
        BY <2>2, <1>t, <3>1 DEF Dispatch, Publish, Undisturbed
    <2>3. UNCHANGED copies \/ \E h \in Handlers : Dispatch(h)
      BY DEF Next, Webhook, Continue, Start, Finish, ServiceNotBuilt,
         ReuseExisting, RejectEvent, AcceptEvent, DirectRequest, Enqueue,
         CreateRecord, InsertRow, DuplicateInsert, RecordIngest, DispatchFails,
         DispatchUnclear, MarkDispatchFailed, SaveDispatchFailure,
         RecordDispatch, RequestDies, Redeliver, StartTask, Load, FetchPatch,
         Complete, ProcessingFails, ErrorEscapes, WorkerDies, LoseAttempt,
         EndTask, ReadRecord, ReadAnalyses, queue, vars
    <2> QED
      BY <2>1, <2>2, <2>3
  <1>2. "unclear" \notin mishaps'[j]
    <2>1. ASSUME NEW h \in Handlers, RequestDies(h)
          PROVE  "unclear" \notin mishaps'[j]
      BY <2>1, <1>t DEF RequestDies, Undisturbed
    <2>2. ASSUME NEW w \in Workers, ErrorEscapes(w) \/ WorkerDies(w)
          PROVE  "unclear" \notin mishaps'[j]
      BY <2>2, <1>t DEF ErrorEscapes, WorkerDies, LoseAttempt, Undisturbed
    <2>3. ASSUME NEW w \in Workers, NEW i \in Jobs, ServiceNotBuilt(w, i)
          PROVE  "unclear" \notin mishaps'[j]
      BY <2>3, <1>t DEF ServiceNotBuilt, Undisturbed
    <2>4. \/ UNCHANGED mishaps
          \/ \E h \in Handlers : RequestDies(h)
          \/ \E w \in Workers :
                \/ ErrorEscapes(w) \/ WorkerDies(w)
                \/ \E i \in Jobs : ServiceNotBuilt(w, i)
      BY DEF Next, Webhook, Continue, Start, Finish, ReuseExisting,
         RejectEvent, AcceptEvent, DirectRequest, Enqueue, CreateRecord,
         InsertRow, DuplicateInsert, RecordIngest, Dispatch, DispatchFails,
         DispatchUnclear, MarkDispatchFailed, SaveDispatchFailure,
         RecordDispatch, Redeliver, StartTask, Load, FetchPatch, Complete,
         ProcessingFails, EndTask, ReadRecord, ReadAnalyses, history, vars
    <2> QED
      BY <2>1, <2>2, <2>3, <2>4 DEF Undisturbed
  <1> QED
    BY <1>1, <1>2 DEF Undisturbed

\* Without duplicates and unclear publishes, PullRequestJobs implements the
\* contract in which a verdict is final, whatever else fails.
THEOREM VerdictsAreFinal ==
    ASSUME Faults \cap {"unclear", "redelivery"} = {}
    PROVE  Spec => KeepsFinalContract
  <1> DEFINE Inv == /\ IInv
                    /\ \A j \in Jobs : JobInv(j)
                    /\ \A j \in Jobs : Undisturbed(j)
  <1>1. Init => \A j \in Jobs : Undisturbed(j)
    BY DEF Init, Undisturbed
  <1>2. /\ IInv /\ (\A j \in Jobs : JobInv(j)) /\ [Next]_vars
        /\ \A j \in Jobs : Undisturbed(j)
        => (\A j \in Jobs : Undisturbed(j))'
    BY UndisturbedStep
  <1>3. Spec => []Inv
    BY <1>1, <1>2, Invariance, JobInvariance, PTL DEF Spec
  <1>4. Lenient!Init => Strict!Init
    BY DEF Lenient!Init, Strict!Init
  <1>5. Inv /\ [Next]_vars /\ [Lenient!Next]_(Lenient!vars)
          => [Strict!Next]_(Strict!vars)
    <2> SUFFICES ASSUME Inv, [Next]_vars, Lenient!Next
                 PROVE  Strict!Next \/ (Status' = Status /\ Analysed' = Analysed)
      BY DEF Lenient!vars, Strict!vars
    <2>1. ASSUME NEW j \in Jobs, Lenient!Accept(j)
          PROVE  Strict!Next
      BY <2>1 DEF Lenient!Accept, Strict!Accept, Strict!Next
    <2>2. ASSUME NEW j \in Jobs, NEW v \in Verdicts, Lenient!Settle(j, v)
          PROVE  Strict!Next \/ (Status' = Status /\ Analysed' = Analysed)
      <3>1. CASE Status[j] = "queued"
        BY <2>2, <3>1 DEF Lenient!Settle, Strict!Settle, Strict!Next,
                          Strict!Verdicts, Verdicts
      <3>2. CASE Status[j] # "queued"
        <4>1. pr[j].status \in Verdicts
          BY <2>2, <3>2 DEF Lenient!Settle, Status, IInv, TypeOK, Rows,
                            Statuses
        <4>2. pr'[j] = pr[j] /\ analyses'[j] = analyses[j]
          BY <4>1, SettledStays
        <4>3. Status'[j] = Status[j] /\ Analysed'[j] = Analysed[j]
          BY <4>2 DEF Status, Analysed
        <4>4. /\ Status' = [Status EXCEPT ![j] = v]
              /\ Analysed' = [Analysed EXCEPT ![j] = @ \/ v = "completed"]
          BY <2>2 DEF Lenient!Settle
        <4> QED
          BY <4>3, <4>4 DEF Status, Analysed
      <3> QED
        BY <3>1, <3>2
    <2> QED
      BY <2>1, <2>2 DEF Lenient!Next, Lenient!Verdicts, Verdicts
  <1>6. Spec => Lenient!Spec
    BY ContractIsKept DEF KeepsContract
  <1> HIDE DEF Inv
  <1> QED
    BY <1>3, <1>4, <1>5, <1>6, PTL
    DEF Spec, KeepsFinalContract, Lenient!Spec, Strict!Spec

----------------------------------------------------------------------------
(* Readers, and a single API process. *)

\* A reader that has read a completed record will find its analysis, and one
\* that has finished has found it.
ReaderInv(r) ==
    /\ reader[r].at = "analyses" => reader[r].job \in Jobs
    /\ reader[r].status = "completed" =>
          IF reader[r].at = "idle" THEN reader[r].summary
          ELSE analyses[reader[r].job] > 0

\* A client is never shown a completed job without its summary.
THEOREM ReadersAreServed == Spec => []ReadersSeeTheSummary
  <1>1. Init => \A r \in Readers : ReaderInv(r)
    BY DEF Init, ReaderInv, IdleReader
  <1>2. IInv /\ (\A r \in Readers : ReaderInv(r)) /\ [Next]_vars
          => (\A r \in Readers : ReaderInv(r))'
    <2> SUFFICES ASSUME IInv, [Next]_vars, NEW r \in Readers, ReaderInv(r)
                 PROVE  ReaderInv(r)'
      OBVIOUS
    <2>t. reader \in [Readers -> Views]
      BY DEF IInv, TypeOK
    <2>1. \A j \in Jobs : analyses[j] > 0 => analyses'[j] > 0
      BY TableStep DEF TableProgress
    <2>2. CASE reader'[r] = reader[r]
      <3>1. reader[r].at \in {"idle", "analyses"}
        BY <2>t DEF Views
      <3> QED
        BY <2>1, <2>2, <3>1 DEF ReaderInv
    <2>3. ASSUME NEW j \in Jobs, ReadRecord(r, j)
          PROVE  ReaderInv(r)'
      <3>1. /\ reader'[r] = [at |-> "analyses", job |-> j,
                             status |-> pr[j].status, summary |-> FALSE]
            /\ UNCHANGED analyses
        BY <2>3, <2>t DEF ReadRecord, table
      <3>2. pr[j].status = "completed" => analyses[j] > 0
        BY DEF IInv, RowInv
      <3> QED
        BY <3>1, <3>2 DEF ReaderInv
    <2>4. CASE ReadAnalyses(r)
      <3>1. reader[r].at = "analyses"
        BY <2>4 DEF ReadAnalyses
      <3>2. PICK found \in BOOLEAN :
              /\ found = (analyses[reader[r].job] > 0)
              /\ reader'[r] = [at |-> "idle", job |-> reader[r].job,
                               status |-> reader[r].status, summary |-> found]
        <4>1. reader'[r] = [at |-> "idle", job |-> reader[r].job,
                            status |-> reader[r].status,
                            summary |-> analyses[reader[r].job] > 0]
          BY <2>4, <2>t DEF ReadAnalyses
        <4>2. (analyses[reader[r].job] > 0) \in BOOLEAN
          OBVIOUS
        <4> QED
          BY <4>1, <4>2, Zenon
      <3>3. /\ reader'[r].at = "idle"
            /\ reader'[r].status = reader[r].status
            /\ reader'[r].summary = found
        BY <3>2
      <3>4. reader[r].status = "completed" => found
        BY <3>1, <3>2 DEF ReaderInv
      <3> QED
        BY <3>3, <3>4 DEF ReaderInv
    <2>5. \/ UNCHANGED reader
          \/ \E s \in Readers : (\E j \in Jobs : ReadRecord(s, j)) \/ ReadAnalyses(s)
      BY DEF Next, Webhook, Continue, Start, Finish, ServiceNotBuilt,
         ReuseExisting, RejectEvent, AcceptEvent, DirectRequest, Enqueue,
         CreateRecord, InsertRow, DuplicateInsert, RecordIngest, Dispatch,
         DispatchFails, DispatchUnclear, MarkDispatchFailed,
         SaveDispatchFailure, RecordDispatch, RequestDies, Redeliver,
         StartTask, Load, FetchPatch, Complete, ProcessingFails, ErrorEscapes,
         WorkerDies, LoseAttempt, EndTask, vars
    <2>6. ASSUME NEW s \in Readers, s # r,
                 (\E j \in Jobs : ReadRecord(s, j)) \/ ReadAnalyses(s)
          PROVE  reader'[r] = reader[r]
      BY <2>6, <2>t DEF ReadRecord, ReadAnalyses
    <2> QED
      BY <2>2, <2>3, <2>4, <2>5, <2>6
  <1>3. (\A r \in Readers : ReaderInv(r)) => ReadersSeeTheSummary
    BY DEF ReaderInv, ReadersSeeTheSummary
  <1> QED
    BY <1>1, <1>2, <1>3, Invariance, PTL DEF Spec

\* What the one event loop has looked up stays true until it inserts; requests
\* of the thread pool have no delivery.
LoopInv ==
    /\ \A h \in Threads : handler[h].delivery = NoDelivery
    /\ NoConflict

\* With one API process the unique index is never hit.
THEOREM OneProcessHasNoConflict ==
    ASSUME NEW l, Loops = {l}
    PROVE  Spec => []NoConflict
  <1>1. Init => LoopInv
    BY DEF Init, LoopInv, NoConflict, IdleHandler, Handlers
  <1>2. IInv /\ LoopInv /\ [Next]_vars => LoopInv'
    <2> SUFFICES ASSUME IInv, LoopInv, [Next]_vars
                 PROVE  LoopInv'
      OBVIOUS
    <2>t. handler \in [Handlers -> HandlerStates] /\ pr \in [Jobs -> Rows]
      BY DEF IInv, TypeOK
    <2>1. ASSUME NEW h \in Threads
          PROVE  handler'[h].delivery = NoDelivery
      <3>1. h \in Handlers /\ h \notin Loops /\ handler[h].delivery = NoDelivery
        BY <2>1, HandlersAssumption DEF Handlers, LoopInv
      <3>2. CASE handler'[h] = handler[h]
        BY <3>1, <3>2
      <3>3. CASE \/ \E d \in Deliveries : AcceptEvent(h, d)
                 \/ DirectRequest(h)
        BY <3>1, <3>3, <2>t DEF AcceptEvent, DirectRequest, Enqueue
      <3>4. CASE \/ \E j \in Jobs : CreateRecord(h, j)
                 \/ RecordIngest(h)
                 \/ Dispatch(h) \/ DispatchFails(h) \/ DispatchUnclear(h)
        BY <3>1, <3>4, <2>t DEF CreateRecord, InsertRow, RecordIngest, Dispatch,
           DispatchFails, DispatchUnclear, Step, HandlerStates
      <3>5. CASE \/ DuplicateInsert(h) \/ MarkDispatchFailed(h)
                 \/ RecordDispatch(h) \/ RequestDies(h)
        BY <3>1, <3>5, <2>t DEF DuplicateInsert, MarkDispatchFailed,
           SaveDispatchFailure, RecordDispatch, RequestDies, End, IdleHandler
      <3> QED
        BY <3>1, <3>2, <3>3, <3>4, <3>5, HandlerWriters
    <2>2. ASSUME NEW d, handler'[l].delivery = d, handler'[l].at = "create",
                 d # NoDelivery
          PROVE  \A j \in Jobs : ~(pr'[j].status # "absent" /\ pr'[j].delivery = d)
      <3>0. l \in Handlers
        BY DEF Handlers
      <3>1. /\ handler'[l] = handler[l]
               \/ \E e \in Deliveries : AcceptEvent(l, e)
            /\ Existing(d) = {}
        <4>1. CASE handler'[l] = handler[l]
          BY <2>2, <4>1 DEF LoopInv, NoConflict, UniqueDelivery
        <4>2. ASSUME NEW e \in Deliveries, AcceptEvent(l, e)
              PROVE  Existing(d) = {}
          BY <2>2, <3>0, <4>2, <2>t DEF AcceptEvent, Enqueue
        <4>3. ~DirectRequest(l)
          BY HandlersAssumption DEF DirectRequest
        <4>4. ~(\/ \E j \in Jobs : CreateRecord(l, j)
                \/ RecordIngest(l)
                \/ Dispatch(l) \/ DispatchFails(l) \/ DispatchUnclear(l))
          BY <2>2, <3>0, <2>t DEF CreateRecord, InsertRow, RecordIngest,
             Dispatch, DispatchFails, DispatchUnclear, Step, HandlerStates
        <4>5. ~(\/ DuplicateInsert(l) \/ MarkDispatchFailed(l)
                \/ RecordDispatch(l) \/ RequestDies(l))
          BY <2>2, <3>0, <2>t DEF DuplicateInsert, MarkDispatchFailed,
             SaveDispatchFailure, RecordDispatch, RequestDies, End, IdleHandler
        <4> QED
          BY <3>0, <4>1, <4>2, <4>3, <4>4, <4>5, HandlerWriters
      <3>2. ASSUME NEW j \in Jobs, pr'[j].status # "absent", pr'[j].delivery = d
            PROVE  FALSE
        <4>1. TableProgress(j) /\ ~(Exists(j) /\ pr[j].delivery = d)
          BY <3>1, TableStep DEF Existing
        <4>2. PICK h \in Handlers : CreateRecord(h, j)
          BY <3>2, <4>1 DEF TableProgress, Exists
        <4>3. pr'[j].delivery = handler[h].delivery /\ h # l
          BY <3>1, <2>2, <3>0, <4>2, <2>t
          DEF CreateRecord, InsertRow, AcceptEvent, Enqueue
        <4> QED
          BY <2>2, <3>2, <4>3 DEF LoopInv, Handlers
      <3> QED
        BY <3>2
    <2> QED
      BY <2>1, <2>2 DEF LoopInv, NoConflict, UniqueDelivery, Existing, Exists
  <1>3. LoopInv => NoConflict
    BY DEF LoopInv
  <1> QED
    BY <1>1, <1>2, <1>3, Invariance, PTL DEF Spec
=============================================================================
