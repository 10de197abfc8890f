-------------------------- MODULE DeploymentProofs --------------------------
(***************************************************************************)
(* The log context of every request and of every job is its own, for any   *)
(* number of requests, workers and connections, and the services run on    *)
(* the schema that their models declare.                                   *)
(***************************************************************************)
EXTENDS Deployment, SchemaProofs, SequenceTheorems, TLAPS

----------------------------------------------------------------------------
(* The context of a flow. *)

\* Leaving a binding restores what was there when it was entered.
LEMMA LeaveUndoesEnter ==
    ASSUME NEW S, NEW f \in [now : S, saved : Seq(S)], NEW fields
    PROVE  Leave(Enter(f, fields)) = f
<1> DEFINE g == Enter(f, fields)
<1>1. g.saved = Append(f.saved, f.now)
  BY DEF Enter
<1>2. f.saved \in Seq(S) /\ f.now \in S
  OBVIOUS
<1> HIDE DEF g
<1>3. /\ Len(g.saved) = Len(f.saved) + 1
      /\ g.saved[Len(g.saved)] = f.now
      /\ g.saved \in Seq(S)
  BY <1>1, <1>2, AppendProperties
<1>4. SubSeq(g.saved, 1, Len(g.saved) - 1) = f.saved
  <2>1. SubSeq(g.saved, 1, Len(f.saved)) \in Seq(S)
        /\ Len(SubSeq(g.saved, 1, Len(f.saved))) = Len(f.saved)
        /\ \A i \in 1..Len(f.saved) :
              SubSeq(g.saved, 1, Len(f.saved))[i] = f.saved[i]
    BY <1>1, <1>2, <1>3
  <2>2. Len(g.saved) - 1 = Len(f.saved)
    BY <1>2, <1>3
  <2> QED BY <1>2, <2>1, <2>2, SeqEqual
<1>5. Leave(g) = [now |-> f.now, saved |-> f.saved]
  BY <1>3, <1>4 DEF Leave
<1> QED BY <1>5 DEF g

\* What a request is logged under outside of its handler,
AtRequest(r) == Enter(NoContext, {<<"request_id", r>>})

\* in the handler of a webhook,
InHandler(r) == Enter(AtRequest(r), {<<"delivery_id", r>>})

\* and what its job is logged under.
OfJob(r) == Names(r) \cup {<<"task_id", r>>}
InTask(r) == Enter(NoContext, OfJob(r))

\* The contexts that these bindings restore.
Restored == {EmptyContext} \cup {{<<"request_id", r>>} : r \in Requests}

\* What each binding of ids makes of the context, and what leaving it restores.
LEMMA Contexts ==
    ASSUME NEW r \in Requests
    PROVE  /\ AtRequest(r).now = {<<"request_id", r>>}
           /\ InHandler(r).now =
                 {<<"request_id", r>>, <<"delivery_id", r>>}
           /\ InTask(r).now = OfJob(r)
           /\ Cleared(NoContext) = NoContext
           /\ Leave(AtRequest(r)) = NoContext
           /\ Leave(InHandler(r)) = AtRequest(r)
           /\ Leave(InTask(r)) = NoContext
<1>1. NoContext \in [now : Restored, saved : Seq(Restored)]
  BY DEF NoContext, Restored, EmptyContext
<1>2. AtRequest(r).now = {<<"request_id", r>>}
  BY DEF AtRequest, Enter, Bound, NoContext, EmptyContext
<1>3. AtRequest(r) \in [now : Restored, saved : Seq(Restored)]
  <2>1. AtRequest(r).saved \in Seq(Restored)
    BY <1>1, AppendProperties DEF AtRequest, Enter
  <2> QED BY <1>2, <2>1 DEF AtRequest, Enter, Restored
<1>4. InHandler(r).now = {<<"request_id", r>>, <<"delivery_id", r>>}
  BY <1>2 DEF InHandler, Enter, Bound
<1>5. InTask(r).now = OfJob(r)
  BY DEF InTask, Enter, Bound, NoContext, EmptyContext
<1>6. Cleared(NoContext) = NoContext
  BY DEF Cleared, NoContext
<1>7. Leave(AtRequest(r)) = NoContext /\ Leave(InTask(r)) = NoContext
  BY <1>1, LeaveUndoesEnter DEF AtRequest, InTask
<1>8. Leave(InHandler(r)) = AtRequest(r)
  BY <1>3, LeaveUndoesEnter DEF InHandler
<1> QED BY <1>2, <1>4, <1>5, <1>6, <1>7, <1>8

----------------------------------------------------------------------------
(* The invariant: the context of every flow, and what messages carry. *)

RequestFlow(r) ==
    flow[r] = IF phase[r] \in {"new", "done"} THEN NoContext
              ELSE IF r \in Webhooks /\ Handling(r) THEN InHandler(r)
              ELSE AtRequest(r)

WorkerFlow(w) ==
    flow[w] = IF task[w] = Free THEN NoContext ELSE InTask(task[w])

FlowInv ==
    /\ phase \in [Requests -> Phases]
    /\ task \in [Workers -> Requests \cup {Free}]
    /\ DOMAIN flow = Requests \cup Workers
    /\ flow = [f \in DOMAIN flow |-> flow[f]]
    /\ \A m \in broker : m.of \in Requests /\ m.headers = Names(m.of)
    /\ \A r \in Requests : RequestFlow(r)
    /\ \A w \in Workers : WorkerFlow(w)

\* A step that writes no context and moves no request across a boundary.
LEMMA QuietStep ==
    ASSUME FlowInv, NEW r \in Requests, NEW to \in Phases, Goes(r, to),
           Handling(r) /\ to \in {"wants", "holds"},
           UNCHANGED <<broker, task, flow>>
    PROVE  FlowInv'
<1>1. \A q \in Requests : RequestFlow(q)'
  BY DEF FlowInv, RequestFlow, Goes, Handling, Phases
<1> QED BY <1>1 DEF FlowInv, Goes, WorkerFlow

\* A step that writes the context of one request.
LEMMA RequestFlowStep ==
    ASSUME FlowInv, NEW r \in Requests, NEW to \in Phases, Goes(r, to),
           NEW f, flow' = Write(flow, r, f),
           f = IF to \in {"new", "done"} THEN NoContext
               ELSE IF r \in Webhooks /\ to \in {"wants", "holds"}
               THEN InHandler(r) ELSE AtRequest(r),
           UNCHANGED <<broker, task>>
    PROVE  FlowInv'
<1>1. \A q \in Requests : RequestFlow(q)'
  BY DEF FlowInv, RequestFlow, Goes, Handling, Write
<1>2. \A w \in Workers : WorkerFlow(w)'
  BY ActorsAssumption DEF FlowInv, WorkerFlow, Write
<1> QED BY <1>1, <1>2 DEF FlowInv, Goes, Write

\* The steps of a request.
LEMMA RequestPreserves ==
    ASSUME FlowInv, NEW r \in Requests, Arrive(r) \/ RequestStep(r)
    PROVE  FlowInv'
<1>1. /\ RequestFlow(r)
      /\ Cleared(NoContext) = NoContext
      /\ Leave(AtRequest(r)) = NoContext
      /\ Leave(InHandler(r)) = AtRequest(r)
  BY Contexts DEF FlowInv
<1>2. CASE Arrive(r)
  <2>1. flow[r] = NoContext
    BY <1>1, <1>2 DEF Arrive, RequestFlow
  <2>2. flow' = Write(flow, r, AtRequest(r))
    BY <1>1, <1>2, <2>1 DEF Arrive, AtRequest
  <2> QED BY <1>2, <2>2, RequestFlowStep DEF Arrive, Phases
<1>3. CASE Handle(r)
  <2>1. flow[r] = AtRequest(r)
    BY <1>1, <1>3 DEF Handle, RequestFlow, Handling
  <2>2. CASE r \in Webhooks
    <3>1. flow' = Write(flow, r, InHandler(r))
      BY <1>3, <2>1, <2>2 DEF Handle, InHandler
    <3> QED BY <1>3, <2>2, <3>1, RequestFlowStep DEF Handle, Phases
  <2>3. CASE r \notin Webhooks
    <3>1. flow' = Write(flow, r, AtRequest(r))
      BY <1>3, <2>1, <2>3 DEF Handle, Write, FlowInv
    <3> QED BY <1>3, <2>3, <3>1, RequestFlowStep DEF Handle, Phases
  <2> QED BY <2>2, <2>3
<1>4. CASE Connect(r)
  BY <1>4, QuietStep DEF Connect, Handling, Phases
<1>5. CASE Commit(r)
  BY <1>5, QuietStep DEF Commit, Handling, Phases
<1>6. CASE Publish(r) \/ DispatchFails(r)
  <2>0. /\ phase[r] = "holds"
        /\ UNCHANGED <<phase, task, flow>>
        /\ Accepted(r) \/ broker' = broker
    BY <1>6 DEF Publish, DispatchFails
  <2>1. Serialized(flow[r]) = Names(r)
    <3>1. CASE r \in Webhooks
      BY <1>1, <2>0, <3>1, Contexts DEF RequestFlow, Handling, Serialized, Names
    <3>2. CASE r \notin Webhooks
      BY <1>1, <2>0, <3>2, Contexts DEF RequestFlow, Handling, Serialized, Names
    <3> QED BY <3>1, <3>2
  <2>2. \A m \in broker' : m.of \in Requests /\ m.headers = Names(m.of)
    BY <2>0, <2>1 DEF Accepted, FlowInv
  <2> QED BY <2>0, <2>2 DEF FlowInv, RequestFlow, WorkerFlow, Handling
<1>7. ASSUME Return(r) \/ PoolTimeout(r) PROVE FlowInv'
  <2>1. PICK to \in {"returned", "refused"} :
          Goes(r, to) /\ LeaveHandler(r) /\ UNCHANGED <<broker, task>>
    BY <1>7 DEF Return, PoolTimeout
  <2>2. Handling(r)
    BY <1>7 DEF Return, PoolTimeout, Handling
  <2>3. flow' = Write(flow, r, AtRequest(r))
    <3>1. CASE r \in Webhooks
      BY <1>1, <2>1, <2>2, <3>1 DEF LeaveHandler, RequestFlow, Handling
    <3>2. CASE r \notin Webhooks
      BY <1>1, <2>1, <2>2, <3>2
         DEF LeaveHandler, RequestFlow, Handling, Write, FlowInv
    <3> QED BY <3>1, <3>2
  <2> QED BY <2>1, <2>3, RequestFlowStep DEF Phases
<1>8. CASE Close(r)
  <2>1. flow[r] = AtRequest(r)
    BY <1>1, <1>8 DEF Close, RequestFlow, Handling
  <2>2. flow' = Write(flow, r, NoContext)
    BY <1>1, <1>8, <2>1 DEF Close
  <2> QED BY <1>8, <2>2, RequestFlowStep DEF Close, Phases
<1> QED BY <1>2, <1>3, <1>4, <1>5, <1>6, <1>7, <1>8 DEF RequestStep

\* The steps of a worker.
LEMMA WorkerPreserves ==
    ASSUME FlowInv, NEW w \in Workers, WorkerStep(w)
    PROVE  FlowInv'
<1>1. \A r \in Requests : RequestFlow(r)'
  BY ActorsAssumption
     DEF FlowInv, RequestFlow, Handling, WorkerStep, Take, Done, Write
<1>2. CASE Done(w)
  <2>1. task[w] \in Requests /\ flow[w] = InTask(task[w])
    BY <1>2 DEF Done, FlowInv, WorkerFlow
  <2>2. flow' = Write(flow, w, NoContext)
    BY <1>2, <2>1, Contexts DEF Done
  <2>3. \A v \in Workers : WorkerFlow(v)'
    BY <1>2, <2>2 DEF Done, FlowInv, WorkerFlow, Write
  <2>4. /\ task' \in [Workers -> Requests \cup {Free}]
        /\ DOMAIN flow' = Requests \cup Workers
        /\ flow' = [f \in DOMAIN flow' |-> flow'[f]]
        /\ UNCHANGED <<phase, broker>>
    BY <1>2, <2>2 DEF Done, FlowInv, Write
  <2> QED BY <1>1, <2>3, <2>4 DEF FlowInv
<1>3. ASSUME NEW m \in broker, Take(w, m) PROVE FlowInv'
  <2>1. m.of \in Requests /\ m.headers = Names(m.of) /\ m.of # Free
    BY ActorsAssumption DEF FlowInv
  <2>2. Fields(m) = OfJob(m.of)
    BY <2>1 DEF Fields, OfJob, Names
  <2>3. flow[w] = NoContext
    BY <1>3 DEF Take, FlowInv, WorkerFlow
  <2>4. flow' = Write(flow, w, InTask(m.of))
    BY <1>3, <2>1, <2>2, <2>3, Contexts DEF Take, InTask
  <2>5. \A v \in Workers : WorkerFlow(v)'
    BY <1>3, <2>1, <2>4 DEF Take, FlowInv, WorkerFlow, Write
  <2>6. task' \in [Workers -> Requests \cup {Free}]
    BY <1>3, <2>1 DEF Take, FlowInv
  <2>7. /\ DOMAIN flow' = Requests \cup Workers
        /\ flow' = [f \in DOMAIN flow' |-> flow'[f]]
    BY <2>4 DEF FlowInv, Write
  <2>8. phase' = phase /\ broker' \subseteq broker
    BY <1>3 DEF Take
  <2> QED BY <1>1, <2>5, <2>6, <2>7, <2>8 DEF FlowInv
<1> QED BY <1>2, <1>3 DEF WorkerStep

\* Contexts flow with their requests and tasks in every reachable state.
LEMMA FlowInvariance == Spec => []FlowInv
<1>1. Init => FlowInv
  BY DEF Init, ApiInit, FlowInv, RequestFlow, WorkerFlow, Phases
<1>2. FlowInv /\ [Next]_vars => FlowInv'
  <2> SUFFICES ASSUME FlowInv, [Next]_vars PROVE FlowInv'
    OBVIOUS
  <2>1. ASSUME UNCHANGED apiVars PROVE FlowInv'
    BY <2>1 DEF apiVars, FlowInv, RequestFlow, WorkerFlow, Handling
  <2>2. ASSUME NEW r \in Requests, ServeRequest(r) PROVE FlowInv'
    BY <2>2, RequestPreserves DEF ServeRequest
  <2>3. ASSUME NEW w \in Workers, ServeTask(w) PROVE FlowInv'
    BY <2>3, WorkerPreserves DEF ServeTask
  <2> QED BY <2>1, <2>2, <2>3
          DEF Next, vars, Up, MigrateByHand, RunMigration, EndMigration,
              Start, Down
<1> QED BY <1>1, <1>2, PTL DEF Spec

\* A line that is logged for a request carries the ids of that request and of
\* no other.
THEOREM LinesCarryTheirRequest == Spec => []LinesBelong
<1>1. FlowInv => LinesBelong
  <2> SUFFICES ASSUME FlowInv, NEW r \in Requests
               PROVE  /\ phase[r] \in {"new", "done"} =>
                            flow[r].now = EmptyContext
                      /\ phase[r] \notin {"new", "done"} =>
                            /\ <<"request_id", r>> \in flow[r].now
                            /\ flow[r].now \subseteq Names(r)
                      /\ Handling(r) => flow[r].now = Names(r)
    BY DEF LinesBelong
  <2>1. RequestFlow(r) /\ NoContext.now = EmptyContext
    BY DEF FlowInv, NoContext
  <2>2. CASE r \in Webhooks
    BY <2>1, <2>2, Contexts DEF RequestFlow, Handling, Names
  <2>3. CASE r \notin Webhooks
    BY <2>1, <2>3, Contexts DEF RequestFlow, Handling, Names
  <2> QED BY <2>2, <2>3
<1> QED BY <1>1, FlowInvariance, PTL

\* The lines of a job carry the ids of the request that asked for it, and
\* nothing of the jobs that its process ran before.
THEOREM TracesArrive == Spec => []TraceArrives
<1>1. FlowInv => TraceArrives
  <2> SUFFICES ASSUME FlowInv, NEW w \in Workers
               PROVE  flow[w].now = IF task[w] = Free THEN EmptyContext
                                    ELSE OfJob(task[w])
    BY DEF TraceArrives, OfJob
  <2>1. WorkerFlow(w) /\ NoContext.now = EmptyContext
    BY DEF FlowInv, NoContext
  <2>2. task[w] # Free => task[w] \in Requests
    BY DEF FlowInv
  <2> QED BY <2>1, <2>2, Contexts DEF WorkerFlow
<1> QED BY <1>1, FlowInvariance, PTL

----------------------------------------------------------------------------
(* The types of the API process and of its workers. *)

\* No step of a request leaves the types of the process.
LEMMA RequestTypes ==
    ASSUME ApiTypeOK, NEW r \in Requests, Arrive(r) \/ RequestStep(r)
    PROVE  ApiTypeOK'
<1>1. ASSUME NEW to \in Phases, Goes(r, to), UNCHANGED <<left, broker, task, outcome>>,
             \/ UNCHANGED loop /\ (loop = r => to \in {"wants", "holds"})
             \/ loop' = r /\ r \in Webhooks /\ to \in {"wants", "holds"}
             \/ loop' = Free
      PROVE  ApiTypeOK'
  <2>1. phase' \in [Requests -> Phases] /\ phase' = [phase EXCEPT ![r] = to]
    BY <1>1 DEF ApiTypeOK, Goes
  <2>2. loop' = Free \/ (loop' \in Webhooks /\ Handling(loop)')
    <3>1. CASE loop' = Free
      BY <3>1
    <3>2. CASE loop' = r /\ r \in Webhooks /\ to \in {"wants", "holds"}
      BY <2>1, <3>2 DEF ApiTypeOK, Handling
    <3>3. CASE UNCHANGED loop /\ loop # Free /\ loop # r
      BY <2>1, <3>3 DEF ApiTypeOK, Handling, Requests
    <3>4. CASE UNCHANGED loop /\ loop = r /\ loop # Free
      <4>1. Handling(r) /\ r \in Webhooks
        BY <3>4 DEF ApiTypeOK
      <4>2. to \in {"wants", "holds"}
        BY <1>1, <3>4, <4>1
      <4> QED BY <2>1, <3>4, <4>1, <4>2 DEF ApiTypeOK, Handling
    <3> QED BY <1>1, <3>1, <3>2, <3>3, <3>4
  <2> QED BY <1>1, <2>1, <2>2 DEF ApiTypeOK, outcome, Dispatched
<1>2. CASE Arrive(r)
  BY <1>1, <1>2 DEF Arrive, Phases
<1>3. CASE Handle(r)
  BY <1>1, <1>3 DEF Handle, Phases, Handling
<1>4. CASE Connect(r)
  BY <1>1, <1>4 DEF Connect, Phases, Handling
<1>5. CASE Close(r)
  BY <1>1, <1>5 DEF Close, Phases
<1>6. CASE Publish(r) \/ DispatchFails(r)
  <2>1. /\ UNCHANGED <<phase, left, loop, task, refused>>
        /\ published \subseteq published' /\ published' \subseteq published \cup {r}
        /\ raised \subseteq raised' /\ raised' \subseteq raised \cup {r}
        /\ left[r] = 1
    BY <1>6 DEF Publish, DispatchFails, Accepted
  <2>2. \A m \in broker' : m.of \in published'
    BY <1>6 DEF Publish, DispatchFails, Accepted, ApiTypeOK
  <2>3. \A q \in Requests :
          /\ Dispatched(q) => Dispatched(q)'
          /\ Dispatched(q)' => Dispatched(q) \/ q = r
    BY <2>1 DEF Dispatched
  <2>4. \A q \in Requests :
          /\ Dispatched(q)' => left'[q] <= 1
          /\ left'[q] = 0 => Dispatched(q)'
    BY <2>1, <2>3 DEF ApiTypeOK
  <2> QED BY <2>1, <2>2, <2>4 DEF ApiTypeOK, Handling
<1>7. CASE Commit(r)
  <2>1. left' = [left EXCEPT ![r] = left[r] - 1] /\ left[r] \in 1 .. Commits
    BY <1>7 DEF Commit, ApiTypeOK, Commits
  <2>2. /\ left' \in [Requests -> 0 .. Commits]
        /\ \A q \in Requests : Dispatched(q) => left'[q] <= 1
        /\ \A q \in Requests : left'[q] = 0 => Dispatched(q)
    BY <1>7, <2>1 DEF Commit, ApiTypeOK, Commits
  <2>3. phase' \in [Requests -> Phases] /\ (Handling(loop) => Handling(loop)')
    BY <1>7 DEF Commit, ApiTypeOK, Goes, Phases, Handling
  <2> QED BY <1>7, <2>2, <2>3 DEF Commit, ApiTypeOK, outcome, Handling, Dispatched
<1>8. CASE Return(r)
  <2>1. r \notin Webhooks => loop # r \/ loop = Free
    BY ActorsAssumption DEF ApiTypeOK
  <2> QED BY <1>1, <1>8, <2>1 DEF Return, LeaveHandler, Phases, Handling
<1>9. CASE PoolTimeout(r)
  <2>1. r \notin Webhooks => loop # r
    BY ActorsAssumption DEF ApiTypeOK
  <2>2. refused' \subseteq Requests
    BY <1>9 DEF PoolTimeout, ApiTypeOK
  <2>3. phase' \in [Requests -> Phases]
    BY <1>9 DEF PoolTimeout, ApiTypeOK, Goes, Phases
  <2>4. loop' = Free \/ (loop' \in Webhooks /\ Handling(loop)')
    BY <1>9, <2>1 DEF PoolTimeout, ApiTypeOK, Goes, LeaveHandler, Handling, Requests
  <2> QED BY <1>9, <2>2, <2>3, <2>4 DEF PoolTimeout, ApiTypeOK, Dispatched
<1> QED BY <1>2, <1>3, <1>4, <1>5, <1>6, <1>7, <1>8, <1>9 DEF RequestStep

\* No step of a worker leaves them either.
LEMMA WorkerTypes ==
    ASSUME ApiTypeOK, NEW w \in Workers, WorkerStep(w)
    PROVE  ApiTypeOK'
<1>1. CASE Done(w)
  BY <1>1 DEF Done, ApiTypeOK, outcome, Handling, Dispatched
<1>2. ASSUME NEW m \in broker, Take(w, m)
      PROVE  ApiTypeOK'
  <2>1. m.of \in published /\ m.of \in Requests
    BY DEF ApiTypeOK
  <2> QED BY <1>2, <2>1 DEF Take, ApiTypeOK, outcome, Handling, Dispatched
<1> QED BY <1>1, <1>2 DEF WorkerStep

\* A request that has called the broker keeps its connection until it has
\* committed what came of it, and one that was refused goes no further.
OutcomeInv ==
    \A r \in Requests :
        /\ Dispatched(r) => left[r] = 0 \/ phase[r] = "holds"
        /\ r \in refused => phase[r] \in {"refused", "done"}

\* Every step of a request keeps OutcomeInv.
LEMMA OutcomeStep ==
    ASSUME ApiTypeOK, OutcomeInv, NEW r \in Requests, Arrive(r) \/ RequestStep(r)
    PROVE  OutcomeInv'
<1>1. ASSUME NEW to \in Phases, Goes(r, to), UNCHANGED <<left, published, raised>>,
             phase[r] = "holds" => left[r] = 0,
             refused' \subseteq refused \cup {r},
             r \in refused' => to \in {"refused", "done"}
      PROVE  OutcomeInv'
  BY <1>1 DEF OutcomeInv, ApiTypeOK, Goes, Dispatched
<1>2. CASE Arrive(r) \/ Handle(r) \/ Connect(r)
  <2>1. PICK to \in {"ready", "wants", "holds"} : Goes(r, to)
    BY <1>2 DEF Arrive, Handle, Connect
  <2>2. phase[r] \notin {"refused", "done", "holds"}
    BY <1>2 DEF Arrive, Handle, Connect
  <2>3. r \notin refused
    BY <2>2 DEF OutcomeInv
  <2> QED BY <1>1, <1>2, <2>1, <2>2, <2>3 DEF Arrive, Handle, Connect, Phases, outcome
<1>3. CASE Publish(r) \/ DispatchFails(r)
  <2>1. /\ UNCHANGED <<phase, left, refused>>
        /\ phase[r] = "holds"
        /\ \A q \in Requests : Dispatched(q)' => Dispatched(q) \/ q = r
    BY <1>3 DEF Publish, DispatchFails, Accepted, Dispatched
  <2> QED BY <2>1 DEF OutcomeInv
<1>4. CASE Commit(r)
  <2>1. /\ left' = [left EXCEPT ![r] = left[r] - 1] /\ left[r] \in 1 .. Commits
        /\ phase' = [phase EXCEPT ![r] = "wants"]
        /\ phase[r] = "holds"
        /\ UNCHANGED <<published, raised, refused>>
    BY <1>4 DEF Commit, ApiTypeOK, Commits, Goes, outcome
  <2>2. Dispatched(r) => left'[r] = 0
    BY <2>1 DEF ApiTypeOK, Commits
  <2>3. r \notin refused
    BY <2>1 DEF OutcomeInv
  <2> QED BY <2>1, <2>2, <2>3 DEF OutcomeInv, ApiTypeOK, Dispatched
<1>5. CASE Return(r)
  <2>1. r \notin refused
    BY <1>5 DEF Return, OutcomeInv
  <2> QED BY <1>1, <1>5, <2>1 DEF Return, Phases, outcome
<1>6. CASE PoolTimeout(r) \/ Close(r)
  BY <1>1, <1>6 DEF PoolTimeout, Close, Phases, outcome
<1> QED BY <1>2, <1>3, <1>4, <1>5, <1>6 DEF RequestStep

----------------------------------------------------------------------------
(* The deployment. *)

\* Services run only on the newest schema; a migration that runs beside them
\* is one that has nothing to do.
ServingInv ==
    /\ serving \subseteq Services
    /\ migrate \in {"absent", "running", "completed", "failed"}
    /\ migrate = "completed" => ~Running /\ version = HeadRevision
    /\ migrate = "running" => Running /\ run.to = HeadRevision
    /\ serving # {} =>
          /\ version = HeadRevision
          /\ Running => migrate = "running" /\ run.before[2] = HeadRevision

DeploymentInv == ApiTypeOK /\ OutcomeInv /\ SchemaInv /\ ServingInv

\* The steps of the deployment and of the migrations.
LEMMA OperatorKeeps ==
    ASSUME SchemaInv, ServingInv,
           \/ Up
           \/ \E to \in 0 .. HeadRevision : MigrateByHand(to)
           \/ RunMigration
           \/ EndMigration
           \/ \E s \in Services : Start(s)
           \/ Down
    PROVE  SchemaInv' /\ ServingInv'
<1>1. CASE Up
  <2>1. Begin(HeadRevision) /\ HeadRevision \in 0 .. HeadRevision
    BY <1>1 DEF Up, HeadRevision
  <2>2. SchemaInv'
    BY <2>1, BeginKeeps
  <2>3. /\ run' = [to |-> HeadRevision, at |-> 1, before |-> <<schema, version>>]
        /\ UNCHANGED <<schema, version, serving>> /\ migrate' = "running"
    BY <1>1 DEF Up, Begin
  <2>4. run'.to = HeadRevision /\ run'.at = 1 /\ run'.before[2] = version
    BY <2>3
  <2>5. ServingInv'
    BY <2>3, <2>4 DEF ServingInv, Running
  <2> QED BY <2>2, <2>5
<1>2. ASSUME NEW to \in 0 .. HeadRevision, MigrateByHand(to)
      PROVE  SchemaInv' /\ ServingInv'
  <2>1. SchemaInv'
    BY <1>2, BeginKeeps DEF MigrateByHand
  <2>2. ServingInv'
    BY <1>2 DEF MigrateByHand, ServingInv
  <2> QED BY <2>1, <2>2
<1>3. CASE RunMigration
  <2>1. SchemaInv'
    BY <1>3, ExecuteKeeps, StampKeeps DEF RunMigration
  <2>2. /\ Running /\ version # run.to
        /\ UNCHANGED <<serving, migrate>>
        /\ \E k : run' = [run EXCEPT !.at = k]
    BY <1>3 DEF RunMigration, deploymentVars, Execute, Stamp
  <2>3. /\ run'.to = run.to
        /\ run \in [to : 0 .. HeadRevision, at : Nat,
                    before : (SUBSET Declared) \X (0 .. HeadRevision)]
    BY <2>2 DEF SchemaInv
  <2>4. serving = {}
    <3> SUFFICES ASSUME serving # {}
                 PROVE  FALSE
      OBVIOUS
    <3>1. version = HeadRevision /\ run.to = HeadRevision
      BY <2>2 DEF ServingInv
    <3> QED BY <2>2, <3>1
  <2>5. migrate = "running" => Running'
    <3>1. CASE Execute
      <4>1. run' = [run EXCEPT !.at = run.at + 1] /\ run.at \in Nat
        BY <2>3, <3>1 DEF Execute
      <4>2. run'.at = run.at + 1
        BY <2>3, <4>1
      <4> QED BY <4>1, <4>2 DEF Running
    <3>2. CASE Stamp
      <4>1. run'.at = 1
        BY <2>3, <3>2 DEF Stamp
      <4> QED BY <4>1 DEF Running
    <3> QED BY <1>3, <3>1, <3>2 DEF RunMigration
  <2>6. migrate # "completed"
    BY <2>2 DEF ServingInv
  <2>7. ServingInv'
    BY <2>2, <2>3, <2>4, <2>5, <2>6 DEF ServingInv
  <2> QED BY <2>1, <2>7
<1>4. CASE EndMigration
  <2>1. SchemaInv' /\ Running
    BY <1>4, EndKeeps DEF EndMigration, Finish, Interrupt
  <2>2. ~Running'
    <3>1. run' = Idle
      BY <1>4 DEF EndMigration, Finish, Interrupt
    <3> QED BY <3>1 DEF Idle, Running
  <2>3. CASE Finish /\ migrate' = IF migrate = "running" THEN "completed" ELSE migrate
    <3>1. version' = version /\ version = run.to /\ serving' = serving
      BY <1>4, <2>3 DEF EndMigration, Finish
    <3>2. ServingInv'
      BY <2>1, <2>2, <2>3, <3>1 DEF ServingInv
    <3> QED BY <2>1, <3>2
  <2>4. CASE Interrupt /\ migrate' = IF migrate = "running" THEN "failed" ELSE migrate
    <3>1. version' = run.before[2] /\ serving' = serving
      BY <1>4, <2>4 DEF EndMigration, Interrupt
    <3>2. ServingInv'
      BY <2>1, <2>2, <2>4, <3>1 DEF ServingInv
    <3> QED BY <2>1, <3>2
  <2> QED BY <1>4, <2>3, <2>4 DEF EndMigration
<1>5. ASSUME UNCHANGED schemaVars
      PROVE  SchemaInv' /\ Running' = Running
  BY <1>5 DEF schemaVars, SchemaInv, Running
<1>6. ASSUME NEW s \in Services, Start(s)
      PROVE  SchemaInv' /\ ServingInv'
  BY <1>5, <1>6 DEF Start, ServingInv, schemaVars
<1>7. CASE Down
  BY <1>5, <1>7 DEF Down, Quiet, ServingInv, schemaVars
<1> QED BY <1>1, <1>2, <1>3, <1>4, <1>6, <1>7

\* Requests and tasks leave the schema alone, and migrations the requests.
LEMMA DeploymentInvariance == Spec => []DeploymentInv
<1>1. Init => DeploymentInv
  <2> SUFFICES ASSUME Init
               PROVE  DeploymentInv
    OBVIOUS
  <2>1. SchemaInv
    BY InitSchemaInv DEF Init
  <2>2. ServingInv
    BY DEF Init, ServingInv
  <2>3. ApiTypeOK /\ OutcomeInv
    BY DEF Init, ApiInit, ApiTypeOK, OutcomeInv, Dispatched, Phases, Commits
  <2> QED BY <2>1, <2>2, <2>3 DEF DeploymentInv
<1>2. DeploymentInv /\ [Next]_vars => DeploymentInv'
  <2> SUFFICES ASSUME DeploymentInv, [Next]_vars
               PROVE  DeploymentInv'
    OBVIOUS
  <2>1. ASSUME UNCHANGED apiVars
        PROVE  ApiTypeOK' /\ OutcomeInv'
    BY <2>1 DEF apiVars, outcome, DeploymentInv, ApiTypeOK, OutcomeInv, Handling,
                Dispatched
  <2>2. ASSUME UNCHANGED <<schemaVars, deploymentVars>>
        PROVE  SchemaInv' /\ ServingInv'
    BY <2>2 DEF schemaVars, deploymentVars, DeploymentInv, SchemaInv, ServingInv,
                Running
  <2>3. CASE \/ Up
             \/ \E to \in 0 .. HeadRevision : MigrateByHand(to)
             \/ RunMigration
             \/ EndMigration
             \/ \E s \in Services : Start(s)
             \/ Down
    <3>1. UNCHANGED apiVars
      BY <2>3 DEF Up, MigrateByHand, RunMigration, EndMigration, Start, Down
    <3>2. SchemaInv' /\ ServingInv'
      BY <2>3, OperatorKeeps DEF DeploymentInv
    <3> QED BY <2>1, <3>1, <3>2 DEF DeploymentInv
  <2>4. ASSUME NEW r \in Requests, ServeRequest(r)
        PROVE  DeploymentInv'
    <3>1. ApiTypeOK'
      BY <2>4, RequestTypes DEF ServeRequest, DeploymentInv
    <3>2. OutcomeInv'
      BY <2>4, OutcomeStep DEF ServeRequest, DeploymentInv
    <3> QED BY <2>2, <2>4, <3>1, <3>2 DEF ServeRequest, DeploymentInv
  <2>5. ASSUME NEW w \in Workers, ServeTask(w)
        PROVE  DeploymentInv'
    <3>1. ApiTypeOK'
      BY <2>5, WorkerTypes DEF ServeTask, DeploymentInv
    <3>2. OutcomeInv'
      BY <2>5 DEF ServeTask, DeploymentInv, WorkerStep, Take, Done, outcome,
                  OutcomeInv, Dispatched
    <3> QED BY <2>2, <2>5, <3>1, <3>2 DEF ServeTask, DeploymentInv
  <2>6. CASE UNCHANGED vars
    BY <2>1, <2>2, <2>6 DEF vars, DeploymentInv
  <2> QED BY <2>3, <2>4, <2>5, <2>6 DEF Next
<1> QED BY <1>1, <1>2, PTL DEF Spec

\* Every variable has its type, and no row or index is there that the models
\* do not declare.
THEOREM TypeCorrect == Spec => []TypeOK
<1>1. DeploymentInv => TypeOK
  <2> SUFFICES ASSUME DeploymentInv
               PROVE  TypeOK
    OBVIOUS
  <2>1. schema \in SUBSET Declared
    BY SchemaFacts DEF DeploymentInv
  <2>2. ASSUME NEW x \in schema
        PROVE  x[1] \in DOMAIN Models /\ x[2] \in Models[x[1]]
    <3>1. PICK t \in Tables : \E c \in Models[t] : x = <<t, c>>
      BY <2>1, DeclaredTables
    <3>2. PICK c \in Models[t] : x = <<t, c>>
      BY <3>1
    <3> QED BY <3>2, DeclaredTables
  <2>3. version \in 0 .. HeadRevision /\ run.to \in 0 .. HeadRevision
    BY DEF DeploymentInv, SchemaInv
  <2> QED BY <2>2, <2>3 DEF DeploymentInv, ServingInv, TypeOK
<1> QED BY <1>1, DeploymentInvariance, PTL

\* No statement of a migration is refused, whatever was applied, undone and
\* interrupted before.
THEOREM MigrationsApply == Spec => []StatementsApply
<1>1. DeploymentInv => StatementsApply
  BY SchemaFacts DEF DeploymentInv
<1> QED BY <1>1, DeploymentInvariance, PTL

\* Where a service runs, the schema is the one that the models declare, also
\* while the container that migrates it is run again.
THEOREM ServicesSeeTheirSchema == Spec => []ServedSchemaIsCurrent
<1>1. DeploymentInv => ServedSchemaIsCurrent
  <2> SUFFICES ASSUME DeploymentInv, serving # {}
               PROVE  schema = Declared
    BY DEF ServedSchemaIsCurrent
  <2>1. version = HeadRevision /\ (Running => run.to = HeadRevision)
    BY DEF DeploymentInv, ServingInv
  <2>2. schema = At(End(version))
    BY <2>1 DEF DeploymentInv, SchemaInv
  <2> QED BY <2>1, <2>2, Ends, EndStates
<1> QED BY <1>1, DeploymentInvariance, PTL

\* A request that got no connection has not called the broker, or has committed
\* what came of the call.
THEOREM RefusalsComeInTime == Spec => []RefusedAreRecorded
<1>1. DeploymentInv => RefusedAreRecorded
  BY DEF DeploymentInv, ApiTypeOK, OutcomeInv, RefusedAreRecorded
<1> QED BY <1>1, DeploymentInvariance, PTL
=============================================================================
