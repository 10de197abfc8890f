--------------------------- MODULE SchemaAdoption ---------------------------
(***************************************************************************)
(* How README.md adopts a database that was created before Alembic: the    *)
(* transitional SQL of infra/sql adds two columns to pull_requests, then   *)
(* the database is marked as current.                                      *)
(***************************************************************************)
EXTENDS SchemaMigrations

\* The schema of that time: the first revision, with or without what the SQL
\* adds to it.
AddedLater == Of("pull_requests", {"delivery_id", "installation_id",
                                   UniqueDelivery})

FirstRevision == UNION {Of(Core[i].table, Core[i].has) : i \in 1..Len(Core)}

LegacyInit ==
    /\ \E missing \in SUBSET AddedLater :
          /\ <<"pull_requests", "delivery_id">> \in missing =>
                <<"pull_requests", UniqueDelivery>> \in missing
          /\ schema = FirstRevision \ missing
    /\ version = 0
    /\ run = Idle

\* 001_add_pull_request_github_columns.sql: ADD COLUMN IF NOT EXISTS
ApplyTransitionalSql ==
    /\ version = 0
    /\ schema' = schema \cup AddedLater
    /\ UNCHANGED <<version, run>>

\* alembic stamp head
StampHead ==
    /\ version = 0
    /\ AddedLater \subseteq schema
    /\ version' = HeadRevision
    /\ UNCHANGED <<schema, run>>

\* alembic upgrade head, as every start of the deployment runs it.
AdoptionNext ==
    \/ ApplyTransitionalSql
    \/ StampHead
    \/ version # 0 /\ Begin(HeadRevision)
    \/ Execute
    \/ Stamp
    \/ Finish

AdoptionSpec == LegacyInit /\ [][AdoptionNext]_schemaVars

\* README: the database is marked as current, so it has what the models need.
StampedIsCurrent == version = HeadRevision => Declared \subseteq schema
=============================================================================
