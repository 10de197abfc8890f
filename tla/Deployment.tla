----------------------------- MODULE Deployment -----------------------------
(***************************************************************************)
(* docker-compose.yml: the API and the worker start once the container     *)
(* that migrates the database has ended well, and work on the schema that  *)
(* it left.  Between two lives of the deployment an operator may migrate   *)
(* the database by hand, in either direction.                              *)
(***************************************************************************)
EXTENDS ApiProcess, SchemaMigrations

VARIABLES
    serving,  \* the services that run
    migrate   \* the container of that name: "absent", "running" or how it ended

deploymentVars == <<serving, migrate>>
vars == <<apiVars, schemaVars, deploymentVars>>

Services == {"api", "worker"}

Init ==
    /\ ApiInit
    /\ SchemaInit
    /\ serving = {}
    /\ migrate = "absent"

----------------------------------------------------------------------------
(* The actions. *)

\* docker compose up runs the container again, also under running services.
Up ==
    /\ migrate # "running"
    /\ Begin(HeadRevision)
    /\ migrate' = "running"
    /\ UNCHANGED <<apiVars, serving>>

\* An operator's alembic upgrade or downgrade.
MigrateByHand(to) ==
    /\ serving = {}
    /\ migrate # "running"
    /\ Begin(to)
    /\ migrate' = "absent"
    /\ UNCHANGED <<apiVars, serving>>

RunMigration ==
    /\ Execute \/ Stamp
    /\ UNCHANGED <<apiVars, deploymentVars>>

\* How the container ended, if it was the container that ran.
EndMigration ==
    /\ \/ Finish /\ migrate' = IF migrate = "running" THEN "completed" ELSE migrate
       \/ Interrupt /\ migrate' = IF migrate = "running" THEN "failed" ELSE migrate
    /\ UNCHANGED <<apiVars, serving>>

\* Slip: depends_on without the condition service_completed_successfully.
StartWithMigration(s) ==
    /\ migrate \in {"running", "completed"}
    /\ s \notin serving
    /\ serving' = serving \cup {s}
    /\ UNCHANGED <<apiVars, schemaVars, migrate>>

Start(s) ==
    /\ migrate = "completed"
    /\ s \notin serving
    /\ serving' = serving \cup {s}
    /\ UNCHANGED <<apiVars, schemaVars, migrate>>

\* Bound: the deployment is taken down only when nothing is under way.
Quiet ==
    /\ \A r \in Requests : phase[r] \in {"new", "done"}
    /\ \A w \in Workers : task[w] = Free
    /\ ~Running

Down ==
    /\ serving # {}
    /\ Quiet
    /\ serving' = {}
    /\ migrate' = "absent"
    /\ UNCHANGED <<apiVars, schemaVars>>

ServeRequest(r) ==
    /\ "api" \in serving
    /\ Arrive(r) \/ RequestStep(r)
    /\ UNCHANGED <<schemaVars, deploymentVars>>

ServeTask(w) ==
    /\ "worker" \in serving
    /\ WorkerStep(w)
    /\ UNCHANGED <<schemaVars, deploymentVars>>

Next ==
    \/ Up
    \/ \E to \in 0..HeadRevision : MigrateByHand(to)
    \/ RunMigration
    \/ EndMigration
    \/ \E s \in Services : Start(s)
    \/ Down
    \/ \E r \in Requests : ServeRequest(r)
    \/ \E w \in Workers : ServeTask(w)

\* The loop and the threads go on with what has come in, a full pool refuses
\* after a while, and the worker runs its tasks.  Nothing is said of when
\* requests come in or of what operators do.
Fairness ==
    /\ \A r \in Requests :
          WF_vars(RequestStep(r) /\ "api" \in serving
                     /\ UNCHANGED <<schemaVars, deploymentVars>>)
    /\ \A w \in Workers : WF_vars(ServeTask(w))

Spec == Init /\ [][Next]_vars /\ Fairness

----------------------------------------------------------------------------
(* Properties. *)

TypeOK ==
    /\ ApiTypeOK
    /\ \A x \in schema : x[1] \in DOMAIN Models /\ x[2] \in Models[x[1]]
    /\ version \in 0..HeadRevision
    /\ run.to \in 0..HeadRevision
    /\ serving \subseteq Services
    /\ migrate \in {"absent", "running", "completed", "failed"}

\* Whatever was applied, undone and interrupted before, the services run on
\* the schema that their models declare.
ServedSchemaIsCurrent == serving # {} => schema = Declared

\* Every request that came in is answered, also when a webhook keeps the loop
\* while it waits for a connection that only the loop can free.
EveryRequestIsAnswered ==
    \A r \in Requests : phase[r] = "ready" ~> phase[r] = "done"
=============================================================================
