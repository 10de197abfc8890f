----------------------------- MODULE ApiProcess -----------------------------
(***************************************************************************)
(* One API process from the inside, and the workers it hands jobs to.      *)
(* Webhooks are handled on the event loop, which does nothing else until   *)
(* the handler returns; the other endpoints run in threads.  Both take     *)
(* their database connections from one pool, give a connection back at     *)
(* every commit, take one again to refresh what they stored, and give the  *)
(* last one back when the loop closes the session of the request.  The     *)
(* context of the log lines goes from the request to the worker.           *)
(*                                                                         *)
(* The requests are those that store and dispatch a job: three commits,    *)
(* with the dispatch before the last one, which writes what came of it.    *)
(* What they store is the subject of PullRequestJobs, FlakyTriage and      *)
(* Correlations.  There are more threads than connections (40 and 15).     *)
(*                                                                         *)
(* A definition whose comment begins with "Slip" is not part of Next: it   *)
(* is its neighbour with a plausible mistake, and some property below      *)
(* fails when it takes its neighbour's place.                              *)
(***************************************************************************)
EXTENDS LogContext, FiniteSets

CONSTANTS
    Webhooks,   \* requests to the async endpoint
    Calls,      \* requests to the endpoints that run in threads
    Workers,    \* processes of the Celery worker
    PoolSize,   \* connections: pool_size plus max_overflow
    Free,       \* the loop, or a worker, has nothing to do
    Failing     \* bound: the requests whose dispatch may raise

Requests == Webhooks \cup Calls

ASSUME ActorsAssumption ==
    /\ Webhooks \cap Calls = {}
    /\ Requests \cap Workers = {}
    /\ Free \notin Requests
ASSUME PoolAssumption == PoolSize \in Nat \ {0}

VARIABLES
    phase,    \* how far a request is
    left,     \* the commits that it has yet to make
    loop,     \* the webhook that the event loop is busy with
    broker,   \* the messages under way: the request and its headers
    task,     \* the request whose job a worker runs
    flow,     \* the log context of every request and worker
    published,  \* the requests whose job the broker has taken
    raised,     \* the requests whose dispatch raised
    refused     \* history: the requests that got no connection in time

outcome == <<published, raised, refused>>
apiVars == <<phase, left, loop, broker, task, flow, outcome>>

Commits == 3

Phases == {"new", "ready", "wants", "holds", "returned", "refused", "done"}

ApiInit ==
    /\ phase = [r \in Requests |-> "new"]
    /\ left = [r \in Requests |-> Commits]
    /\ loop = Free
    /\ broker = {}
    /\ task = [w \in Workers |-> Free]
    /\ flow = [f \in Requests \cup Workers |-> NoContext]
    /\ published = {}
    /\ raised = {}
    /\ refused = {}

\* A session keeps its connection from its first statement after a commit
\* until the next commit, and to its end if there is none.
Holders == {r \in Requests : phase[r] \in {"holds", "returned"}}

Goes(r, to) == phase' = [phase EXCEPT ![r] = to]

----------------------------------------------------------------------------
(* A request. *)

\* attach_request_context
Arrive(r) ==
    /\ phase[r] = "new"
    /\ loop = Free
    /\ Goes(r, "ready")
    /\ flow' = Write(flow, r, Enter(Cleared(flow[r]), {<<"request_id", r>>}))
    /\ UNCHANGED <<left, loop, broker, task, outcome>>

\* The endpoint is entered: a webhook holds the loop from its last await on.
Handle(r) ==
    /\ phase[r] = "ready"
    /\ loop = Free
    /\ Goes(r, "wants")
    /\ IF r \in Webhooks
       THEN /\ loop' = r
            /\ flow' = Write(flow, r, Enter(flow[r], {<<"delivery_id", r>>}))
       ELSE UNCHANGED <<loop, flow>>
    /\ UNCHANGED <<left, broker, task, outcome>>

Connect(r) ==
    /\ phase[r] = "wants"
    /\ Cardinality(Holders) < PoolSize
    /\ Goes(r, "holds")
    /\ UNCHANGED <<left, loop, broker, task, flow, outcome>>

\* The broker takes the job, with the context there is.
Accepted(r) ==
    /\ published' = published \cup {r}
    /\ broker' = broker \cup {[of |-> r, headers |-> Serialized(flow[r])]}

\* The call to the broker was made, whatever came of it.
Dispatched(r) == r \in published \cup raised

\* Slip: the job is published before its second commit.
PublishEarly(r) ==
    /\ phase[r] = "holds"
    /\ left[r] <= 2
    /\ ~Dispatched(r)
    /\ Accepted(r)
    /\ UNCHANGED <<phase, left, loop, task, flow, raised, refused>>

\* Slip: the session is refreshed after the publish and not before it.
PublishUnconnected(r) ==
    /\ phase[r] \in {"wants", "holds"}
    /\ left[r] = 1
    /\ ~Dispatched(r)
    /\ Accepted(r)
    /\ UNCHANGED <<phase, left, loop, task, flow, raised, refused>>

\* The job is published after the second commit.
Publish(r) ==
    /\ phase[r] = "holds"
    /\ left[r] = 1
    /\ ~Dispatched(r)
    /\ Accepted(r)
    /\ UNCHANGED <<phase, left, loop, task, flow, raised, refused>>

\* The dispatcher raised, also where the broker has taken the job.
DispatchFails(r) ==
    /\ r \in Failing
    /\ phase[r] = "holds"
    /\ left[r] = 1
    /\ ~Dispatched(r)
    /\ raised' = raised \cup {r}
    /\ Accepted(r) \/ UNCHANGED <<published, broker>>
    /\ UNCHANGED <<phase, left, loop, task, flow, refused>>

\* db.commit() gives the connection back, db.refresh() asks for one.  The last
\* commit is that of record_dispatch or of mark_dispatch_failed.
Commit(r) ==
    /\ phase[r] = "holds"
    /\ left[r] > 0
    /\ left[r] = 1 => Dispatched(r)
    /\ left' = [left EXCEPT ![r] = @ - 1]
    /\ Goes(r, "wants")
    /\ UNCHANGED <<loop, broker, task, flow, outcome>>

\* The handler is over; a webhook leaves its bindings and the loop.
LeaveHandler(r) ==
    IF r \in Webhooks
    THEN loop' = Free /\ flow' = Write(flow, r, Leave(flow[r]))
    ELSE UNCHANGED <<loop, flow>>

Return(r) ==
    /\ phase[r] = "holds"
    /\ left[r] = 0
    /\ Goes(r, "returned")
    /\ LeaveHandler(r)
    /\ UNCHANGED <<left, broker, task, outcome>>

\* Slip: only the threads give up waiting.
PoolTimeoutOfCalls(r) ==
    /\ r \in Calls
    /\ phase[r] = "wants"
    /\ Cardinality(Holders) >= PoolSize
    /\ Goes(r, "refused")
    /\ refused' = refused \cup {r}
    /\ UNCHANGED <<left, loop, broker, task, flow, published, raised>>

\* No connection within 30 seconds: the request ends in an error.
PoolTimeout(r) ==
    /\ phase[r] = "wants"
    /\ Cardinality(Holders) >= PoolSize
    /\ Goes(r, "refused")
    /\ refused' = refused \cup {r}
    /\ LeaveHandler(r)
    /\ UNCHANGED <<left, broker, task, published, raised>>

\* The loop closes the session, a thread of its own being told to, and answers.
Close(r) ==
    /\ phase[r] \in {"returned", "refused"}
    /\ loop = Free
    /\ Goes(r, "done")
    /\ flow' = Write(flow, r, Cleared(Leave(flow[r])))
    /\ UNCHANGED <<left, loop, broker, task, outcome>>

----------------------------------------------------------------------------
(* A worker process. *)

\* What a task binds of its message.
Fields(m) ==
    {h \in m.headers : h[1] \in {"request_id", "delivery_id"}}
        \cup {<<"task_id", m.of>>}

Take(w, m) ==
    /\ task[w] = Free
    /\ m \in broker
    /\ task' = [task EXCEPT ![w] = m.of]
    /\ broker' = broker \ {m}
    /\ flow' = Write(flow, w, Enter(Cleared(flow[w]), Fields(m)))
    /\ UNCHANGED <<phase, left, loop, outcome>>

Done(w) ==
    /\ task[w] # Free
    /\ task' = [task EXCEPT ![w] = Free]
    /\ flow' = Write(flow, w, Cleared(Leave(flow[w])))
    /\ UNCHANGED <<phase, left, loop, broker, outcome>>

RequestStep(r) ==
    \/ Handle(r)
    \/ Connect(r)
    \/ Publish(r)
    \/ DispatchFails(r)
    \/ Commit(r)
    \/ Return(r)
    \/ PoolTimeout(r)
    \/ Close(r)

WorkerStep(w) == Done(w) \/ \E m \in broker : Take(w, m)

----------------------------------------------------------------------------
(* Properties. *)

\* The handler of a request is under way.
Handling(r) == phase[r] \in {"wants", "holds"}

ApiTypeOK ==
    /\ phase \in [Requests -> Phases]
    /\ left \in [Requests -> 0..Commits]
    /\ loop = Free \/ (loop \in Webhooks /\ Handling(loop))
    /\ task \in [Workers -> Requests \cup {Free}]
    /\ published \cup raised \cup refused \subseteq Requests
    /\ \A r \in Requests : Dispatched(r) => left[r] <= 1
    /\ \A r \in Requests : left[r] = 0 => Dispatched(r)
    /\ \A m \in broker : m.of \in published
    /\ \A w \in Workers : task[w] \in published \cup {Free}

\* The pool may be empty when any of its three commits has given the connection
\* back, but never between the call to the broker and the commit that says what
\* came of it: a request that is refused has not called the broker, so that no
\* worker has its job, or has recorded the outcome.
RefusedAreRecorded ==
    \A r \in refused : Dispatched(r) => left[r] = 0

\* What request r is logged under.
Names(r) ==
    {<<"request_id", r>>}
        \cup (IF r \in Webhooks THEN {<<"delivery_id", r>>} ELSE {})

\* A line that is logged for a request carries the ids of that request and of
\* no other, however the requests take turns on the loop and in the threads.
LinesBelong ==
    \A r \in Requests :
        /\ phase[r] \in {"new", "done"} => flow[r].now = EmptyContext
        /\ phase[r] \notin {"new", "done"} =>
              /\ <<"request_id", r>> \in flow[r].now
              /\ flow[r].now \subseteq Names(r)
        /\ Handling(r) => flow[r].now = Names(r)

\* The lines of a job carry the ids of the request that asked for it, and
\* nothing of the jobs that the same process ran before.
TraceArrives ==
    \A w \in Workers :
        flow[w].now = IF task[w] = Free THEN EmptyContext
                      ELSE Names(task[w]) \cup {<<"task_id", task[w]>>}
=============================================================================
