------------------------- MODULE CorrelationsProofs -------------------------
(***************************************************************************)
(* What holds of the table observability_correlations for any number of    *)
(* jobs, sessions, observations and rows.                                  *)
(***************************************************************************)
EXTENDS Correlations, TLAPS

----------------------------------------------------------------------------
(* What the operators on a row's columns return. *)

\* The empty row is a row.
LEMMA BlankType == Blank \in Contents
BY DEF Blank, Contents

\* Setting the pointer of a resource keeps the columns typed.
LEMMA PointedType ==
    ASSUME NEW has \in Contents, NEW type \in Types, NEW id \in Ids
    PROVE  Pointed(has, type, id) \in Contents
<1> DEFINE p == Pointed(has, type, id)
<1>1. p \in [Columns -> Values \cup {Null}]
  BY DEF Pointed, Contents, Values
<1>2. ASSUME NEW c \in Columns PROVE p[c] \in Kind[c] \cup {Null}
  <2>1. CASE c = "pull_request_id"
    BY <2>1 DEF Pointed, Contents, Kind, Columns
  <2>2. CASE c = "flaky_test_id"
    BY <2>2 DEF Pointed, Contents, Kind, Columns
  <2>3. CASE c \notin {"pull_request_id", "flaky_test_id"}
    <3>1. p[c] = has[c]
      BY <2>3 DEF Pointed
    <3> QED BY <3>1 DEF Contents
  <2> QED BY <2>1, <2>2, <2>3
<1> QED BY <1>1, <1>2 DEF Contents

\* The log group of the settings is a value of its column.
LEMMA OrLogGroupType ==
    ASSUME NEW has \in Contents
    PROVE  OrLogGroup(has) \in Contents
<1> DEFINE p == OrLogGroup(has)
<1>1. p \in [Columns -> Values \cup {Null}]
  BY LogGroupAssumption DEF OrLogGroup, Contents, Values
<1>2. ASSUME NEW c \in Columns PROVE p[c] \in Kind[c] \cup {Null}
  <2>1. CASE c = "cloudwatch_log_group"
    <3>1. Kind[c] = Tags
      BY <2>1 DEF Kind, Columns
    <3>2. p[c] = IF has[c] = Null THEN LogGroup ELSE has[c]
      BY <2>1 DEF OrLogGroup, Contents, Columns
    <3> QED BY <3>1, <3>2, LogGroupAssumption DEF Contents
  <2>2. CASE c # "cloudwatch_log_group"
    <3>1. p[c] = has[c]
      BY <2>2 DEF OrLogGroup, Contents
    <3> QED BY <3>1 DEF Contents
  <2> QED BY <2>1, <2>2
<1> QED BY <1>1, <1>2 DEF Contents

\* Applying an observation keeps the columns typed.
LEMMA AppliedType ==
    ASSUME NEW has \in Contents, NEW o \in Contents
    PROVE  Applied(has, o) \in Contents
<1> DEFINE base == IF NamesResource(o)
                   THEN Pointed(has, o["resource_type"], o["resource_id"])
                   ELSE has
           merged == [c \in Columns |->
                        IF o[c] \notin {Null, Zero} THEN o[c] ELSE base[c]]
<1>1. base \in Contents
  <2>1. CASE NamesResource(o)
    <3>1. o["resource_type"] \in Types /\ o["resource_id"] \in Ids
      <4>1. "resource_type" \in Columns /\ "resource_id" \in Columns
        BY DEF Columns
      <4>2. Kind["resource_type"] = Types /\ Kind["resource_id"] = Ids
        BY DEF Kind, Columns
      <4> QED BY <2>1, <4>1, <4>2 DEF NamesResource, Contents
    <3> QED BY <2>1, <3>1, PointedType
  <2>2. CASE ~NamesResource(o)
    BY <2>2
  <2> QED BY <2>1, <2>2
<1> HIDE DEF base
<1>2. merged \in Contents
  BY <1>1 DEF Contents
<1>3. Applied(has, o) = OrLogGroup(merged)
  BY DEF Applied, base
<1> HIDE DEF merged
<1> QED BY <1>2, <1>3, OrLogGroupType

\* Recording a dispatch keeps the columns typed.
LEMMA DispatchedType ==
    ASSUME NEW has \in Contents, NEW j \in Jobs, NEW new \in BOOLEAN
    PROVE  Dispatched(has, j, new) \in Contents
<1> DEFINE named == [has EXCEPT !["resource_type"] = j[1],
                                !["resource_id"] = j[2]]
           base == IF new THEN Pointed(named, j[1], j[2]) ELSE has
           sent == [base EXCEPT !["task_id"] = Task[j],
                                !["dispatch_backend"] = "celery"]
<1>1. j[1] \in Types /\ j[2] \in Ids
  BY JobsAssumption
<1>2. named \in Contents
  BY <1>1 DEF Contents, Kind, Columns, Values
<1>3. base \in Contents
  BY <1>1, <1>2, PointedType
<1> HIDE DEF base
<1>4. sent \in Contents
  BY <1>3, TaskAssumption DEF Contents, Kind, Columns, Values
<1>5. Dispatched(has, j, new) = OrLogGroup(sent)
  BY DEF Dispatched, base
<1> HIDE DEF sent
<1> QED BY <1>4, <1>5, OrLogGroupType

\* What the ingest of a job says is an observation.
LEMMA IngestedType ==
    ASSUME NEW j \in Jobs
    PROVE  Ingested(j) \in Contents
<1> DEFINE base == Pointed(Blank, j[1], j[2])
<1>1. j[1] \in Types /\ j[2] \in Ids
  BY JobsAssumption
<1>2. base \in Contents
  BY <1>1, BlankType, PointedType
<1> HIDE DEF base
<1>3. [base EXCEPT !["resource_type"] = j[1],
                   !["resource_id"] = j[2],
                   !["github_check_run_id"] = CheckRun[j],
                   !["delivery_id"] = Delivery[j],
                   !["cloudwatch_log_stream"] = Stream[j]] \in Contents
  BY <1>1, <1>2, CheckRunAssumption, DeliveryAssumption, StreamAssumption
     DEF Contents, Kind, Columns, Values
<1> QED BY <1>3 DEF Ingested, base

\* An UPDATE takes every column from one of two rows.
LEMMA FlushType ==
    ASSUME NEW loaded \in Contents, NEW has \in Contents,
           NEW current \in Contents
    PROVE  Flush(loaded, has, current) \in Contents
BY DEF Flush, Contents

\* An entry of a merged dictionary is the newer one, if there are two.
LEMMA MergedType ==
    ASSUME NEW older \in Notes, NEW newer \in Notes
    PROVE  Merged(older, newer) \in Notes
BY DEF Merged, Notes

\* So is what the context of a request adds.
LEMMA LogContextType ==
    ASSUME NEW j \in Jobs \cup {NoJob}, NEW request \in RequestIds
    PROVE  LogContextOf(j, request) \in Notes
<1> DEFINE context == LogContextOf(j, request)
<1>1. ASSUME NEW k \in NoteKeys PROVE context[k] \in Tags \cup {Null}
  <2>1. CASE k = "request_id"
    BY <2>1, RequestIdsAssumption DEF LogContextOf
  <2>2. CASE k # "request_id" /\ k = "delivery_id" /\ j # NoJob
    BY <2>2, DeliveryAssumption DEF LogContextOf
  <2>3. CASE k # "request_id" /\ ~(k = "delivery_id" /\ j # NoJob)
    BY <2>3 DEF LogContextOf
  <2> QED BY <2>1, <2>2, <2>3
<1>2. context = [k \in NoteKeys |-> context[k]]
  BY DEF LogContextOf
<1> HIDE DEF context
<1> QED BY <1>1, <1>2 DEF Notes, context

\* The dictionary without entries is one.
LEMMA NoNotesType == NoNotes \in Notes
BY DEF NoNotes, Notes

----------------------------------------------------------------------------
(* Types. *)

\* A request past the first commit of a workflow works on a stored job.
SessionInv(s) ==
    /\ session[s].at \in {"ingest", "dispatch", "record"} =>
          session[s].job \in stored
    /\ session[s].job \in stored \cup {NoJob}

IInv ==
    /\ TypeOK
    /\ \A s \in Sessions : SessionInv(s)
    /\ CorrelationIdsAreUnique

\* The correlation id built for an observation is one.
LEMMA CorrelationIdType ==
    ASSUME rows \in Seq(Rows), NEW o \in Contents
    PROVE  CorrelationId(o) \in CorrelationIds
<1>1. /\ o["request_id"] # Null => o["request_id"] \in Tags
      /\ o["delivery_id"] # Null => o["delivery_id"] \in Tags
      /\ o["task_id"] # Null => o["task_id"] \in Tags
      /\ o["github_check_run_id"] # Null => o["github_check_run_id"] \in Tags
      /\ o["resource_type"] # Null => o["resource_type"] \in Types
      /\ o["resource_id"] # Null => o["resource_id"] \in Ids
  BY DEF Contents, Kind, Columns
<1>2. Len(rows) + 1 \in Nat
  OBVIOUS
<1> QED BY <1>1, <1>2 DEF CorrelationId, CorrelationIds, NamesResource

\* What a request is about to commit is a row.
LEMMA CommittedType ==
    ASSUME TypeOK, NEW s \in Sessions, SessionInv(s)
    PROVE  /\ IdOf(s) \in CorrelationIds
           /\ HasOf(s) \in Contents
           /\ NotesOf(s) \in Notes
<1> DEFINE q == session[s]
<1>1. /\ q.said \in Contents
      /\ q.loaded \in Contents
      /\ q.noted \in Notes
      /\ q.gives \in Notes
      /\ rows \in Seq(Rows)
  BY DEF TypeOK, SessionStates
<1>2. q.at = "record" => q.job \in Jobs
  BY DEF TypeOK, SessionInv
<1> HIDE DEF q
<1>3. IdOf(s) \in CorrelationIds
  <2>1. CASE q.at = "record"
    <3>1. q.job \in Types \X Ids
      BY <1>2, <2>1, JobsAssumption
    <3> QED BY <2>1, <3>1 DEF IdOf, CorrelationIds, q
  <2>2. CASE q.at # "record"
    BY <1>1, <2>2, CorrelationIdType DEF IdOf, q
  <2> QED BY <2>1, <2>2
<1>4. HasOf(s) \in Contents
  <2>1. CASE q.at = "record"
    <3>1. Dispatched(q.loaded, q.job, q.row = 0) \in Contents
      BY <1>1, <1>2, <2>1, DispatchedType
    <3> QED BY <2>1, <3>1 DEF HasOf, q
  <2>2. CASE q.at # "record"
    <3>1. Applied(q.loaded, q.said) \in Contents
      BY <1>1, AppliedType
    <3> QED BY <2>2, <3>1 DEF HasOf, q
  <2> QED BY <2>1, <2>2
<1>5. NotesOf(s) \in Notes
  BY <1>1, MergedType DEF NotesOf, q
<1> QED BY <1>3, <1>4, <1>5

\* A commit leaves the ids of the rows there are as they are, changes columns
\* by Flush only, and adds at most one row, under an id of its own.
LEMMA CommitEffect ==
    ASSUME TypeOK, NEW s \in Sessions, SessionInv(s), Commit(s)
    PROVE  /\ rows' \in Seq(Rows)
           /\ Len(rows') \in {Len(rows), Len(rows) + 1}
           /\ \A n \in DOMAIN rows :
                 /\ rows'[n].id = rows[n].id
                 /\ \/ rows'[n].has = rows[n].has
                    \/ rows'[n].has =
                          Flush(session[s].loaded, HasOf(s), rows[n].has)
                 /\ \/ rows'[n].notes = rows[n].notes
                    \/ /\ session[s].row = n
                       /\ rows'[n].notes = NotesOf(s)
                       /\ NotesOf(s) # session[s].noted
           /\ Len(rows') = Len(rows) + 1 =>
                 /\ rows'[Len(rows) + 1].id = IdOf(s)
                 /\ UniqueId(IdOf(s))
<1> DEFINE q == session[s]
<1>1. /\ IdOf(s) \in CorrelationIds
      /\ HasOf(s) \in Contents
      /\ NotesOf(s) \in Notes
  BY CommittedType
<1>2. /\ q.loaded \in Contents
      /\ q.row \in Nat
      /\ q.row <= Len(rows)
      /\ rows \in Seq(Rows)
  BY DEF TypeOK, SessionStates
<1>3. /\ Admitted(s)
      /\ rows' = IF q.row = 0
                 THEN Append(rows, [id |-> IdOf(s), has |-> HasOf(s),
                                    notes |-> NotesOf(s)])
                 ELSE [rows EXCEPT ![q.row] =
                         [id |-> @.id,
                          has |-> Flush(q.loaded, HasOf(s), @.has),
                          notes |-> IF NotesOf(s) = q.noted THEN @.notes
                                    ELSE NotesOf(s)]]
  BY DEF Commit
<1>4. q.row = 0 => UniqueId(IdOf(s))
  BY <1>3 DEF Admitted
<1> HIDE DEF q
<1>5. CASE q.row = 0
  <2> DEFINE new == [id |-> IdOf(s), has |-> HasOf(s), notes |-> NotesOf(s)]
  <2>1. new \in Rows
    BY <1>1 DEF Rows
  <2>2. rows' = Append(rows, new)
    BY <1>3, <1>5
  <2>3. new.id = IdOf(s)
    OBVIOUS
  <2> HIDE DEF new
  <2> QED BY <1>2, <1>4, <1>5, <2>1, <2>2, <2>3
<1>6. CASE q.row # 0
  <2> DEFINE flushed == Flush(q.loaded, HasOf(s), rows[q.row].has)
             notes == IF NotesOf(s) = q.noted THEN rows[q.row].notes
                      ELSE NotesOf(s)
             changed == [id |-> rows[q.row].id, has |-> flushed,
                         notes |-> notes]
  <2>1. q.row \in DOMAIN rows
    BY <1>2, <1>6
  <2>2. rows[q.row] \in Rows
    BY <1>2, <2>1
  <2>3. flushed \in Contents
    BY <1>1, <1>2, <2>2, FlushType DEF Rows
  <2>4. rows' = [rows EXCEPT ![q.row] = changed]
    BY <1>3, <1>6, <2>1, <1>2
  <2>5. /\ changed \in Rows
        /\ changed.id = rows[q.row].id
        /\ changed.has = flushed
        /\ \/ changed.notes = rows[q.row].notes
           \/ changed.notes = NotesOf(s) /\ NotesOf(s) # q.noted
    BY <1>1, <2>2, <2>3 DEF Rows
  <2> HIDE DEF changed
  <2>6. rows' \in Seq(Rows) /\ Len(rows') = Len(rows)
    BY <1>2, <2>1, <2>4, <2>5
  <2>7. ASSUME NEW n \in DOMAIN rows
        PROVE  /\ rows'[n].id = rows[n].id
               /\ rows'[n].has = rows[n].has \/ rows'[n].has =
                     Flush(q.loaded, HasOf(s), rows[n].has)
               /\ \/ rows'[n].notes = rows[n].notes
                  \/ /\ q.row = n
                     /\ rows'[n].notes = NotesOf(s)
                     /\ NotesOf(s) # q.noted
    BY <1>2, <2>1, <2>4, <2>5
  <2> QED BY <1>2, <2>6, <2>7 DEF q
<1> QED BY <1>5, <1>6

----------------------------------------------------------------------------
(* The invariant. *)

\* Only a commit changes the table; the other steps change their session.
LEMMA StoreJobStep ==
    ASSUME IInv, NEW s \in Sessions, NEW j \in Jobs,
           NEW request \in RequestIds, StoreJob(s, j, request)
    PROVE  IInv'
<1>1. [IdleSession EXCEPT !.at = "ingest", !.job = j,
                   !.gives = LogContextOf(j, request)] \in SessionStates
  BY BlankType, NoNotesType, LogContextType DEF IdleSession, SessionStates
<1>2. TypeOK'
  <2>1. session' \in [Sessions -> SessionStates]
    BY <1>1 DEF IInv, TypeOK, StoreJob
  <2>2. ASSUME NEW t \in Sessions PROVE session'[t].row <= Len(rows)
    <3>1. rows \in Seq(Rows) /\ session[t].row <= Len(rows)
          /\ session \in [Sessions -> SessionStates]
      BY DEF IInv, TypeOK
    <3>2. session'[t].row \in {0, session[t].row}
      BY <3>1 DEF StoreJob, IdleSession
    <3> QED BY <3>1, <3>2
  <2> QED BY <2>1, <2>2 DEF IInv, TypeOK, StoreJob, history
<1>3. ASSUME NEW t \in Sessions PROVE SessionInv(t)'
  BY DEF IInv, TypeOK, SessionInv, StoreJob, IdleSession
<1>4. CorrelationIdsAreUnique'
  BY DEF IInv, CorrelationIdsAreUnique, StoreJob
<1> QED BY <1>2, <1>3, <1>4 DEF IInv

\* A load changes one session, whatever it finds.
LEMMA LoadStep ==
    ASSUME IInv, NEW s \in Sessions, NEW j \in stored \cup {NoJob},
           NEW o \in Contents, NEW gives \in Notes,
           NEW ns, ns \subseteq DOMAIN rows,
           NEW at \in {"observe", "record"}, at = "record" => j \in stored,
           Load(s, j, o, gives, ns, at), UNCHANGED <<rows, stored, history>>
    PROVE  IInv'
<1>1. PICK n \in IF ns = {} THEN {0} ELSE ns :
        session' = [session EXCEPT ![s] =
                      [at |-> at, job |-> j, said |-> o, gives |-> gives,
                       row |-> n,
                       loaded |-> IF n = 0 THEN Blank ELSE rows[n].has,
                       noted |-> IF n = 0 THEN NoNotes ELSE rows[n].notes]]
  BY DEF Load
<1>2. rows \in Seq(Rows)
  BY DEF IInv, TypeOK
<1>3. n \in Nat /\ n <= Len(rows)
  BY <1>2
<1>4. /\ (IF n = 0 THEN Blank ELSE rows[n].has) \in Contents
      /\ (IF n = 0 THEN NoNotes ELSE rows[n].notes) \in Notes
  <2>1. CASE n = 0
    BY <2>1, BlankType, NoNotesType
  <2>2. CASE n # 0
    <3>1. n \in DOMAIN rows
      BY <1>1, <2>2
    <3>2. rows[n] \in Rows
      BY <1>2, <3>1
    <3> QED BY <2>2, <3>2 DEF Rows
  <2> QED BY <2>1, <2>2
<1>5. TypeOK'
  BY <1>1, <1>3, <1>4 DEF IInv, TypeOK, SessionStates, history
<1>6. ASSUME NEW t \in Sessions PROVE SessionInv(t)'
  BY <1>1 DEF IInv, TypeOK, SessionInv
<1>7. CorrelationIdsAreUnique'
  BY DEF IInv, CorrelationIdsAreUnique
<1> QED BY <1>5, <1>6, <1>7 DEF IInv

\* A row that a lookup finds is one of the table.
LEMMA Lookups ==
    ASSUME NEW o, NEW type, NEW id
    PROVE  /\ FindExisting(o) \subseteq DOMAIN rows
           /\ ByResource(type, id) \subseteq DOMAIN rows
BY DEF FindExisting, ByResource, ListForResource, ByCheckRun, ByCorrelationId,
       Newest

\* So does the end of a request.
LEMMA EndStep ==
    ASSUME IInv, NEW s \in Sessions, End(s), UNCHANGED <<rows, stored, traced>>
    PROVE  IInv'
<1>1. IdleSession \in SessionStates
  BY BlankType, NoNotesType DEF IdleSession, SessionStates
<1>2. TypeOK'
  <2>1. session' \in [Sessions -> SessionStates]
    BY <1>1 DEF End, IInv, TypeOK
  <2>2. ASSUME NEW t \in Sessions PROVE session'[t].row <= Len(rows)
    BY DEF End, IInv, TypeOK, IdleSession
  <2> QED BY <2>1, <2>2 DEF IInv, TypeOK
<1>3. ASSUME NEW t \in Sessions PROVE SessionInv(t)'
  BY DEF IInv, TypeOK, SessionInv, End, IdleSession
<1>4. CorrelationIdsAreUnique'
  BY DEF IInv, CorrelationIdsAreUnique
<1> QED BY <1>2, <1>3, <1>4 DEF IInv

\* A commit followed by the next state of its session.
LEMMA CommitStep ==
    ASSUME IInv, NEW s \in Sessions, Commit(s),
           session[s].at \in {"observe", "record"},
           NEW next \in SessionStates, next.row = 0,
           next.job \in stored \cup {NoJob},
           next.at # "idle" => next.job \in stored,
           session' = [session EXCEPT ![s] = next],
           UNCHANGED stored, traced' \subseteq stored
    PROVE  IInv'
<1>1. /\ rows' \in Seq(Rows)
      /\ Len(rows') \in {Len(rows), Len(rows) + 1}
      /\ \A n \in DOMAIN rows : rows'[n].id = rows[n].id
      /\ Len(rows') = Len(rows) + 1 =>
            /\ rows'[Len(rows) + 1].id = IdOf(s)
            /\ UniqueId(IdOf(s))
  BY CommitEffect DEF IInv
<1>2. rows \in Seq(Rows)
  BY DEF IInv, TypeOK
<1>3. TypeOK'
  <2>1. ASSUME NEW t \in Sessions PROVE session'[t].row <= Len(rows')
    <3>1. session[t].row \in Nat /\ session[t].row <= Len(rows)
      BY DEF IInv, TypeOK, SessionStates
    <3>2. session'[t].row \in {0, session[t].row}
      BY DEF IInv, TypeOK
    <3> QED BY <1>1, <1>2, <3>1, <3>2
  <2> QED BY <1>1, <2>1 DEF IInv, TypeOK
<1>4. ASSUME NEW t \in Sessions PROVE SessionInv(t)'
  BY DEF IInv, TypeOK, SessionInv
<1>5. CorrelationIdsAreUnique'
  <2> SUFFICES ASSUME NEW m \in DOMAIN rows', NEW n \in DOMAIN rows',
                      rows'[m].id = rows'[n].id, m # n
               PROVE  FALSE
    BY DEF CorrelationIdsAreUnique
  <2>1. CASE m \in DOMAIN rows /\ n \in DOMAIN rows
    BY <1>1, <2>1 DEF IInv, CorrelationIdsAreUnique
  <2>2. CASE ~(m \in DOMAIN rows /\ n \in DOMAIN rows)
    <3>1. /\ Len(rows') = Len(rows) + 1
          /\ \/ m = Len(rows) + 1 /\ n \in DOMAIN rows
             \/ n = Len(rows) + 1 /\ m \in DOMAIN rows
      BY <1>1, <1>2, <2>2
    <3>2. \E i \in DOMAIN rows : rows[i].id = IdOf(s)
      BY <1>1, <3>1
    <3> QED BY <1>1, <3>1, <3>2 DEF UniqueId, ByCorrelationId
  <2> QED BY <2>1, <2>2
<1> QED BY <1>3, <1>4, <1>5 DEF IInv

\* The invariant holds, for any constants.
THEOREM Invariance == Spec => []IInv
<1>1. Init => IInv
  <2> SUFFICES ASSUME Init PROVE IInv
    OBVIOUS
  <2>1. IdleSession \in SessionStates
    BY BlankType, NoNotesType DEF IdleSession, SessionStates
  <2>2. TypeOK
    BY <2>1 DEF Init, TypeOK, IdleSession
  <2>3. \A s \in Sessions : SessionInv(s)
    BY DEF Init, SessionInv, IdleSession
  <2>4. CorrelationIdsAreUnique
    BY DEF Init, CorrelationIdsAreUnique
  <2> QED BY <2>2, <2>3, <2>4 DEF IInv
<1>2. IInv /\ [Next]_vars => IInv'
  <2> SUFFICES ASSUME IInv, [Next]_vars PROVE IInv'
    OBVIOUS
  <2>1. ASSUME NEW s \in Sessions, NEW j \in Jobs, NEW request \in RequestIds,
               StoreJob(s, j, request)
        PROVE  IInv'
    BY <2>1, StoreJobStep
  <2>2. ASSUME NEW s \in Sessions, NEW o \in Observations,
               NEW given \in Metadata, NEW request \in RequestIds,
               Observe(s, o, given, request)
        PROVE  IInv'
    <3>1. /\ o \in Contents
          /\ Merged(given, LogContextOf(NoJob, request)) \in Notes
      BY ObservationsAssumption, MetadataAssumption, LogContextType, MergedType
    <3> QED BY <2>2, <3>1, Lookups, LoadStep DEF Observe
  <2>3. ASSUME NEW s \in Sessions, Ingest(s) PROVE IInv'
    <3>1. session[s].job \in stored /\ session[s].job \in Jobs
      BY <2>3 DEF Ingest, IInv, SessionInv, TypeOK
    <3>2. Ingested(session[s].job) \in Contents /\ session[s].gives \in Notes
      BY <3>1, IngestedType DEF IInv, TypeOK, SessionStates
    <3> QED BY <2>3, <3>1, <3>2, Lookups, LoadStep DEF Ingest
  <2>4. ASSUME NEW s \in Sessions, SaveObservation(s) PROVE IInv'
    <3>1. session[s].job \in stored \cup {NoJob} /\ traced \subseteq stored
          /\ stored \subseteq Jobs
      BY DEF IInv, SessionInv, TypeOK
    <3>2. CASE session[s].job = NoJob
      <4>1. IdleSession \in SessionStates /\ IdleSession.row = 0
            /\ IdleSession.at = "idle" /\ IdleSession.job = NoJob
        BY BlankType, NoNotesType DEF IdleSession, SessionStates
      <4> QED BY <2>4, <3>1, <3>2, <4>1, CommitStep
              DEF SaveObservation, End, history
    <3>3. CASE session[s].job # NoJob
      <4> DEFINE next == [IdleSession EXCEPT !.at = "dispatch",
                                             !.job = session[s].job]
      <4>1. next \in SessionStates /\ next.row = 0 /\ next.job \in stored
        BY <3>1, <3>3, BlankType, NoNotesType DEF IdleSession, SessionStates
      <4>2. session' = [session EXCEPT ![s] = next]
        BY <2>4, <3>3 DEF SaveObservation
      <4> HIDE DEF next
      <4> QED BY <2>4, <3>1, <4>1, <4>2, CommitStep
              DEF SaveObservation, history
    <3> QED BY <3>2, <3>3
  <2>5. ASSUME NEW s \in Sessions, DispatchFails(s) PROVE IInv'
    BY <2>5, EndStep DEF DispatchFails, history
  <2>6. ASSUME NEW s \in Sessions, Dispatch(s) PROVE IInv'
    <3>1. session[s].job \in stored
      BY <2>6 DEF Dispatch, IInv, SessionInv
    <3> QED BY <2>6, <3>1, BlankType, NoNotesType, Lookups, LoadStep DEF Dispatch
  <2>7. ASSUME NEW s \in Sessions, SaveDispatch(s) PROVE IInv'
    <3>1. session[s].job \in stored /\ traced \subseteq stored
      BY <2>7 DEF SaveDispatch, IInv, SessionInv, TypeOK
    <3>2. IdleSession \in SessionStates /\ IdleSession.row = 0
          /\ IdleSession.at = "idle" /\ IdleSession.job = NoJob
      BY BlankType, NoNotesType DEF IdleSession, SessionStates
    <3> QED BY <2>7, <3>1, <3>2, CommitStep DEF SaveDispatch, End
  <2>8. ASSUME NEW s \in Sessions, Refused(s) PROVE IInv'
    BY <2>8, EndStep DEF Refused
  <2>9. ASSUME NEW s \in Sessions, RequestDies(s) PROVE IInv'
    BY <2>9, EndStep DEF RequestDies, history
  <2>10. CASE UNCHANGED vars
    BY <2>10 DEF vars, history, IInv, TypeOK, SessionInv,
                 CorrelationIdsAreUnique
  <2> QED BY <2>1, <2>2, <2>3, <2>4, <2>5, <2>6, <2>7, <2>8, <2>9, <2>10
          DEF Next
<1> QED BY <1>1, <1>2, PTL DEF Spec

\* The table, the sessions and the history are well typed.
THEOREM TypeCorrect == Spec => []TypeOK
BY Invariance, PTL DEF IInv

\* A correlation id leads to one row, however many requests write at once.
THEOREM IdsLeadToOneRow == Spec => []CorrelationIdsAreUnique
BY Invariance, PTL DEF IInv

----------------------------------------------------------------------------
(* What is recorded stays recorded. *)

\* An observation fills or replaces columns, it empties none.
LEMMA AppliedKeeps ==
    ASSUME NEW has \in Contents, NEW o \in Contents, NEW c \in Columns,
           has[c] # Null
    PROVE  Applied(has, o)[c] # Null
<1> DEFINE base == IF NamesResource(o)
                   THEN Pointed(has, o["resource_type"], o["resource_id"])
                   ELSE has
           merged == [d \in Columns |->
                        IF o[d] \notin {Null, Zero} THEN o[d] ELSE base[d]]
<1>1. base[c] # Null
  BY DEF Pointed, NamesResource
<1> HIDE DEF base
<1>2. merged[c] # Null
  BY <1>1
<1>3. Applied(has, o)[c] = IF c = "cloudwatch_log_group" /\ merged[c] = Null
                           THEN LogGroup ELSE merged[c]
  BY DEF Applied, OrLogGroup, base
<1> QED BY <1>2, <1>3

\* Nor does the record of a dispatch, but for the task id that it may not have.
LEMMA DispatchedKeeps ==
    ASSUME NEW has \in Contents, NEW j \in Jobs, NEW c \in Columns,
           has[c] # Null, c = "task_id" => Task[j] # Null
    PROVE  Dispatched(has, j, FALSE)[c] # Null
<1> DEFINE sent == [has EXCEPT !["task_id"] = Task[j],
                               !["dispatch_backend"] = "celery"]
<1>1. "celery" # Null
  BY NullAssumption DEF Values
<1>2. sent[c] # Null /\ DOMAIN sent = Columns
  BY <1>1 DEF Contents
<1>3. Dispatched(has, j, FALSE) = OrLogGroup(sent)
  BY DEF Dispatched
<1> HIDE DEF sent
<1> QED BY <1>2, <1>3 DEF OrLogGroup

\* The request records a dispatch that was given no task id.
Nameless(s) == session[s].at = "record" /\ Task[session[s].job] = Null

\* What a column held when it was loaded is not committed as Null.
LEMMA LoadedKeeps ==
    ASSUME TypeOK, NEW s \in Sessions, SessionInv(s), session[s].row # 0,
           NEW c \in Columns, session[s].loaded[c] # Null,
           c = "task_id" => ~Nameless(s)
    PROVE  HasOf(s)[c] # Null
<1> DEFINE q == session[s]
<1>1. q.loaded \in Contents /\ q.said \in Contents
  BY DEF TypeOK, SessionStates
<1>2. CASE q.at = "record"
  <2>1. q.job \in Jobs
    BY <1>2 DEF TypeOK, SessionInv
  <2>2. HasOf(s) = Dispatched(q.loaded, q.job, FALSE)
    BY <1>2 DEF HasOf
  <2> QED BY <1>1, <1>2, <2>1, <2>2, DispatchedKeeps DEF Nameless
<1>3. CASE q.at # "record"
  <2>1. HasOf(s) = Applied(q.loaded, q.said)
    BY <1>3 DEF HasOf
  <2> QED BY <1>1, <2>1, AppliedKeeps
<1> QED BY <1>2, <1>3

\* So an UPDATE does not name a column that is committed empty.
LEMMA FlushKeeps ==
    ASSUME TypeOK, NEW s \in Sessions, SessionInv(s), session[s].row # 0,
           NEW current \in Contents, NEW c \in Columns, current[c] # Null,
           c = "task_id" => ~Nameless(s)
    PROVE  Flush(session[s].loaded, HasOf(s), current)[c] # Null
<1>1. session[s].loaded[c] # Null => HasOf(s)[c] # Null
  BY LoadedKeeps
<1> QED BY <1>1 DEF Flush

\* A commit adds one row, or writes into the one its request has loaded.
LEMMA CommitCases ==
    ASSUME TypeOK, NEW s \in Sessions, SessionInv(s), Commit(s)
    PROVE  \/ /\ session[s].row = 0
              /\ DOMAIN rows' = 1 .. Len(rows) + 1
              /\ \A n \in DOMAIN rows : rows'[n] = rows[n]
              /\ rows'[Len(rows) + 1].id = IdOf(s)
              /\ rows'[Len(rows) + 1].has = HasOf(s)
           \/ /\ session[s].row \in DOMAIN rows
              /\ DOMAIN rows' = DOMAIN rows
              /\ \A n \in DOMAIN rows : n # session[s].row => rows'[n] = rows[n]
              /\ rows'[session[s].row].id = rows[session[s].row].id
              /\ rows'[session[s].row].has =
                    Flush(session[s].loaded, HasOf(s), rows[session[s].row].has)
<1> DEFINE q == session[s]
<1>1. q.row \in Nat /\ q.row <= Len(rows) /\ rows \in Seq(Rows)
  BY DEF TypeOK, SessionStates
<1>2. rows' = IF q.row = 0
              THEN Append(rows, [id |-> IdOf(s), has |-> HasOf(s),
                                 notes |-> NotesOf(s)])
              ELSE [rows EXCEPT ![q.row] =
                      [id |-> @.id,
                       has |-> Flush(q.loaded, HasOf(s), @.has),
                       notes |-> IF NotesOf(s) = q.noted THEN @.notes
                                 ELSE NotesOf(s)]]
  BY DEF Commit
<1> HIDE DEF q
<1>3. CASE q.row = 0
  <2> DEFINE new == [id |-> IdOf(s), has |-> HasOf(s), notes |-> NotesOf(s)]
  <2>1. rows' = Append(rows, new)
    BY <1>2, <1>3
  <2>2. new.id = IdOf(s) /\ new.has = HasOf(s)
    OBVIOUS
  <2>3. new \in Rows
    BY CommittedType DEF Rows
  <2> HIDE DEF new
  <2> QED BY <1>1, <1>3, <2>1, <2>2, <2>3 DEF q
<1>4. CASE q.row # 0
  <2> DEFINE changed == [id |-> rows[q.row].id,
                         has |-> Flush(q.loaded, HasOf(s), rows[q.row].has),
                         notes |-> IF NotesOf(s) = q.noted
                                   THEN rows[q.row].notes ELSE NotesOf(s)]
  <2>1. q.row \in DOMAIN rows
    BY <1>1, <1>4
  <2>2. rows' = [rows EXCEPT ![q.row] = changed]
    BY <1>1, <1>2, <1>4, <2>1
  <2>3. /\ changed.id = rows[q.row].id
        /\ changed.has = Flush(q.loaded, HasOf(s), rows[q.row].has)
    OBVIOUS
  <2> HIDE DEF changed
  <2> QED BY <1>1, <2>1, <2>2, <2>3 DEF q
<1> QED BY <1>3, <1>4

\* Every step leaves the table alone or is the commit of an observation or of
\* a dispatch.
LEMMA TableSteps ==
    ASSUME [Next]_vars
    PROVE  \/ rows' = rows /\ traced' = traced
           \/ \E s \in Sessions :
                 /\ Commit(s)
                 /\ \/ session[s].at = "observe" /\ traced' = traced
                    \/ /\ session[s].at = "record"
                       /\ traced' = traced \cup {session[s].job}
BY DEF Next, vars, history, StoreJob, Observe, Ingest, SaveObservation,
       DispatchFails, Dispatch, SaveDispatch, Refused, RequestDies

\* No commit empties a column of a row, but for a dispatch without a task id.
LEMMA FilledStays ==
    ASSUME IInv, NEW s \in Sessions, Commit(s), NEW n \in DOMAIN rows,
           NEW c \in Columns, rows[n].has[c] # Null, rows'[n].has[c] = Null
    PROVE  session[s].row = n /\ c = "task_id" /\ Nameless(s)
<1>1. TypeOK /\ SessionInv(s) /\ rows \in Seq(Rows)
  BY DEF IInv, TypeOK
<1>2. rows[n].has \in Contents
  <2>1. rows[n] \in Rows
    BY <1>1
  <2> QED BY <2>1 DEF Rows
<1>3. /\ session[s].row = n
      /\ rows'[n].has = Flush(session[s].loaded, HasOf(s), rows[n].has)
  BY <1>1, CommitCases
<1>4. session[s].row # 0
  BY <1>1, <1>3
<1> QED BY <1>1, <1>2, <1>3, <1>4, FlushKeeps

\* A step that changes the table is a commit, after which its session has let
\* go of the row.
LEMMA CommitsOnly ==
    ASSUME IInv, Next, rows' # rows
    PROVE  \E s \in Sessions :
              /\ Commit(s)
              /\ session[s].at \in {"observe", "record"}
              /\ session'[s] # session[s]
<1>1. ASSUME NEW s \in Sessions, SaveObservation(s) \/ SaveDispatch(s)
      PROVE  /\ Commit(s)
             /\ session[s].at \in {"observe", "record"}
             /\ session'[s] # session[s]
  <2>1. /\ Commit(s)
        /\ session[s].at \in {"observe", "record"}
        /\ session \in [Sessions -> SessionStates]
    BY <1>1 DEF SaveObservation, SaveDispatch, IInv, TypeOK
  <2>2. PICK next \in {IdleSession,
                       [IdleSession EXCEPT !.at = "dispatch",
                                           !.job = session[s].job]} :
          session' = [session EXCEPT ![s] = next]
    BY <1>1 DEF SaveObservation, SaveDispatch, End
  <2>3. next.at \in {"idle", "dispatch"}
    <3>1. /\ IdleSession.at = "idle"
          /\ [IdleSession EXCEPT !.at = "dispatch",
                                 !.job = session[s].job].at = "dispatch"
      BY DEF IdleSession
    <3> QED BY <3>1
  <2>4. session'[s] = next
    BY <2>1, <2>2
  <2> QED BY <2>1, <2>3, <2>4
<1> QED BY <1>1 DEF Next, StoreJob, Observe, Ingest, DispatchFails, Dispatch,
                    Refused, RequestDies

\* No step erases what a column holds, not even the commit of a request that
\* loaded the row before the column was filled; but a dispatch that was given
\* no task id takes away the one that is there.
THEOREM RecordsAreKept == Spec => NothingIsErased
<1> DEFINE Kept == \A n \in DOMAIN rows, c \in Columns :
                      rows[n].has[c] # Null /\ rows'[n].has[c] = Null =>
                         /\ c = "task_id"
                         /\ \E s \in Sessions :
                               /\ Commits(s, n)
                               /\ session[s].at = "record"
                               /\ Task[session[s].job] = Null
<1>1. IInv /\ [Next]_vars => [Kept]_vars
  <2> SUFFICES ASSUME IInv, Next,
                      NEW n \in DOMAIN rows, NEW c \in Columns,
                      rows[n].has[c] # Null, rows'[n].has[c] = Null
               PROVE  /\ c = "task_id"
                      /\ \E s \in Sessions : /\ Commits(s, n)
                                             /\ session[s].at = "record"
                                             /\ Task[session[s].job] = Null
    OBVIOUS
  <2>1. PICK s \in Sessions : /\ Commit(s)
                              /\ session[s].at \in {"observe", "record"}
                              /\ session'[s] # session[s]
    BY CommitsOnly
  <2>2. session[s].row = n /\ c = "task_id" /\ Nameless(s)
    BY <2>1, FilledStays
  <2> QED BY <2>1, <2>2 DEF Commits, Nameless
<1>2. Spec => [][Kept]_vars
  BY <1>1, Invariance, PTL DEF Spec
<1> QED BY <1>2 DEF NothingIsErased

\* An entry of event_metadata changes only by the commit of an observation
\* that gives its key, or of one that had loaded another entry.
THEOREM EntriesAreKept == Spec => EntriesAreLostInOverlapsOnly
<1> DEFINE Kept ==
      \A n \in DOMAIN rows, k \in NoteKeys :
         rows[n].notes[k] \notin {Null, rows'[n].notes[k]} =>
            \E s \in Sessions :
               /\ Commits(s, n)
               /\ session[s].at = "observe"
               /\ \/ session[s].gives[k] # Null
                  \/ session[s].noted[k] # rows[n].notes[k]
<1>1. IInv /\ [Next]_vars => [Kept]_vars
  <2> SUFFICES ASSUME IInv, Next, NEW n \in DOMAIN rows, NEW k \in NoteKeys,
                      rows'[n].notes[k] # rows[n].notes[k]
               PROVE  \E s \in Sessions :
                         /\ Commits(s, n)
                         /\ session[s].at = "observe"
                         /\ \/ session[s].gives[k] # Null
                            \/ session[s].noted[k] # rows[n].notes[k]
    OBVIOUS
  <2>1. PICK s \in Sessions : /\ Commit(s)
                              /\ session[s].at \in {"observe", "record"}
                              /\ session'[s] # session[s]
    BY CommitsOnly
  <2>2. TypeOK /\ SessionInv(s) /\ rows \in Seq(Rows)
    BY DEF IInv, TypeOK
  <2>3. /\ session[s].row = n
        /\ rows'[n].notes = NotesOf(s)
        /\ NotesOf(s) # session[s].noted
    BY <2>1, <2>2, CommitEffect
  <2>4. session[s].at = "observe"
    BY <2>1, <2>3 DEF NotesOf
  <2>5. rows'[n].notes[k] = IF session[s].gives[k] # Null
                            THEN session[s].gives[k] ELSE session[s].noted[k]
    BY <2>3, <2>4 DEF NotesOf, Merged
  <2> QED BY <2>1, <2>3, <2>4, <2>5 DEF Commits
<1>2. Spec => [][Kept]_vars
  BY <1>1, Invariance, PTL DEF Spec
<1> QED BY <1>2 DEF EntriesAreLostInOverlapsOnly

----------------------------------------------------------------------------
(* Why an observation is turned away. *)

\* The id made up for an observation that names nothing is the row's number.
Numbered ==
    \A n \in DOMAIN rows : rows[n].id[1] = "correlation" => rows[n].id[2] = n

\* What a request says is what it was sent, or the ingest of a stored job, and
\* a row that is not there yet is blank.
SaidInv(s) ==
    LET q == session[s] IN
    /\ q.at = "observe" =>
          \/ q.job = NoJob /\ q.said \in Observations
          \/ q.job \in stored /\ q.said = Ingested(q.job)
    /\ q.at = "record" => q.said = Blank
    /\ q.at \in {"observe", "record"} /\ q.row = 0 => q.loaded = Blank

\* The pointers of the rows, and of the copies that requests have of them, lead
\* to stored jobs.
AnchorInv ==
    /\ \A n \in DOMAIN rows : Anchored(rows[n].has)
    /\ \A s \in Sessions : Anchored(session[s].loaded)

\* An id that is made up is never taken, so that what was refused has a name.
RefusedInv ==
    /\ refused \subseteq Contents
    /\ \A o \in refused \ {Blank} :
          \/ o \in Observations /\ NamesKey(o)
          \/ /\ CorrelationId(o)[1] # "correlation"
             /\ ByCorrelationId(CorrelationId(o)) # {}

RefusalInv ==
    /\ Numbered
    /\ \A s \in Sessions : SaidInv(s)
    /\ AnchorInv
    /\ RefusedInv

\* No kind of name is called "correlation", and no type of a resource either.
LEMMA NamedId ==
    ASSUME NEW o \in Contents, CorrelationId(o)[1] = "correlation"
    PROVE  /\ CorrelationId(o) = <<"correlation", Len(rows) + 1>>
           /\ o["request_id"] = Null
           /\ o["delivery_id"] = Null
           /\ o["task_id"] = Null
           /\ o["github_check_run_id"] = Null
           /\ ~NamesResource(o)
<1>1. o["resource_type"] # Null => o["resource_type"] \in Types
  BY DEF Contents, Kind, Columns
<1> QED BY <1>1 DEF CorrelationId, NamesResource, Types

\* The number of a row is its place in the table, which only grows.
LEMMA NumberedStep ==
    ASSUME IInv, Numbered, [Next]_vars
    PROVE  Numbered'
<1>1. CASE rows' = rows
  BY <1>1 DEF Numbered
<1>2. ASSUME NEW s \in Sessions, Commit(s) PROVE Numbered'
  <2>1. TypeOK /\ SessionInv(s) /\ session[s].said \in Contents
        /\ rows \in Seq(Rows)
    BY DEF IInv, TypeOK, SessionStates
  <2>2. IdOf(s)[1] = "correlation" => IdOf(s)[2] = Len(rows) + 1
    <3>1. CASE session[s].at = "record"
      <4>1. session[s].job \in Types \X Ids
        BY <2>1, <3>1, JobsAssumption DEF TypeOK, SessionInv
      <4> QED BY <3>1, <4>1 DEF IdOf, Types
    <3>2. CASE session[s].at # "record"
      BY <2>1, <3>2, NamedId DEF IdOf
    <3> QED BY <3>1, <3>2
  <2> SUFFICES ASSUME NEW n \in DOMAIN rows', rows'[n].id[1] = "correlation"
               PROVE  rows'[n].id[2] = n
    BY DEF Numbered
  <2>3. \/ n \in DOMAIN rows /\ rows'[n].id = rows[n].id
        \/ n = Len(rows) + 1 /\ rows'[n].id = IdOf(s)
    BY <1>2, <2>1, CommitCases
  <2> QED BY <2>2, <2>3 DEF Numbered
<1> QED BY <1>1, <1>2, TableSteps

\* Where the session of a request may go: a step leaves it alone, leaves it
\* without an observation, or loads a row for one.
LEMMA SessionSteps ==
    ASSUME IInv, NEW t \in Sessions, [Next]_vars
    PROVE  /\ stored \subseteq stored'
           /\ \/ session'[t] = session[t]
              \/ /\ session'[t].at \in {"idle", "ingest", "dispatch"}
                 /\ session'[t].loaded = Blank
              \/ /\ rows' = rows /\ stored' = stored
                 /\ \E j, o, gives, ns, at :
                       /\ Load(t, j, o, gives, ns, at)
                       /\ \/ /\ at = "observe" /\ ns = FindExisting(o)
                             /\ \/ j = NoJob /\ o \in Observations
                                \/ j \in stored /\ o = Ingested(j)
                          \/ /\ at = "record" /\ ns = ByResource(j[1], j[2])
                             /\ j \in stored /\ o = Blank
<1> DEFINE Goal ==
      /\ stored \subseteq stored'
      /\ \/ session'[t] = session[t]
         \/ /\ session'[t].at \in {"idle", "ingest", "dispatch"}
            /\ session'[t].loaded = Blank
         \/ /\ rows' = rows /\ stored' = stored
            /\ \E j, o, gives, ns, at :
                  /\ Load(t, j, o, gives, ns, at)
                  /\ \/ /\ at = "observe" /\ ns = FindExisting(o)
                        /\ \/ j = NoJob /\ o \in Observations
                           \/ j \in stored /\ o = Ingested(j)
                     \/ /\ at = "record" /\ ns = ByResource(j[1], j[2])
                        /\ j \in stored /\ o = Blank
<1>1. /\ session \in [Sessions -> SessionStates]
      /\ \A s \in Sessions : SessionInv(s)
  BY DEF IInv, TypeOK
<1>2. ASSUME NEW s \in Sessions,
             NEW new, new.at \in {"idle", "ingest", "dispatch"},
             new.loaded = Blank, session' = [session EXCEPT ![s] = new],
             stored \subseteq stored'
      PROVE  Goal
  BY <1>1, <1>2
<1>3. IdleSession.at = "idle" /\ IdleSession.loaded = Blank
  BY DEF IdleSession
<1>4. ASSUME NEW s \in Sessions, NEW j, NEW o, NEW gives, NEW ns, NEW at,
             Load(s, j, o, gives, ns, at),
             rows' = rows, stored' = stored,
             \/ /\ at = "observe" /\ ns = FindExisting(o)
                /\ \/ j = NoJob /\ o \in Observations
                   \/ j \in stored /\ o = Ingested(j)
             \/ /\ at = "record" /\ ns = ByResource(j[1], j[2])
                /\ j \in stored /\ o = Blank
      PROVE  Goal
  <2>1. CASE s = t
    BY <1>4, <2>1
  <2>2. CASE s # t
    BY <1>1, <1>4, <2>2 DEF Load
  <2> QED BY <2>1, <2>2
<1> HIDE DEF Goal
<1> SUFFICES Goal
  BY DEF Goal
<1>5. ASSUME NEW s \in Sessions, NEW j \in Jobs, NEW request \in RequestIds,
             StoreJob(s, j, request)
      PROVE  Goal
  <2> DEFINE next == [IdleSession EXCEPT !.at = "ingest", !.job = j,
                                         !.gives = LogContextOf(j, request)]
  <2>1. next.at = "ingest" /\ next.loaded = Blank
    BY DEF IdleSession
  <2>2. session' = [session EXCEPT ![s] = next] /\ stored \subseteq stored'
    BY <1>5 DEF StoreJob
  <2> HIDE DEF next
  <2>3. session'[s] = next
    BY <1>1, <2>2
  <2>4. CASE s = t
    BY <2>1, <2>2, <2>3, <2>4 DEF Goal
  <2>5. CASE s # t
    BY <1>1, <2>2, <2>5 DEF Goal
  <2> QED BY <2>4, <2>5
<1>6. ASSUME NEW s \in Sessions, NEW o \in Observations, NEW given,
             NEW request, Observe(s, o, given, request)
      PROVE  Goal
  BY <1>4, <1>6 DEF Observe
<1>7. ASSUME NEW s \in Sessions, Ingest(s) PROVE Goal
  <2>1. session[s].job \in stored
    BY <1>1, <1>7 DEF Ingest, SessionInv
  <2> QED BY <1>4, <1>7, <2>1 DEF Ingest
<1>8. ASSUME NEW s \in Sessions, SaveObservation(s) PROVE Goal
  <2> DEFINE next == [IdleSession EXCEPT !.at = "dispatch",
                                         !.job = session[s].job]
  <2>1. next.at = "dispatch" /\ next.loaded = Blank
    BY DEF IdleSession
  <2>2. /\ \/ session' = [session EXCEPT ![s] = next]
           \/ session' = [session EXCEPT ![s] = IdleSession]
        /\ stored \subseteq stored'
    BY <1>8 DEF SaveObservation, End
  <2> HIDE DEF next
  <2> QED BY <1>2, <1>3, <2>1, <2>2
<1>9. ASSUME NEW s \in Sessions, Dispatch(s) PROVE Goal
  <2>1. session[s].job \in stored
    BY <1>1, <1>9 DEF Dispatch, SessionInv
  <2> QED BY <1>4, <1>9, <2>1 DEF Dispatch
<1>10. ASSUME NEW s \in Sessions,
              \/ DispatchFails(s)
              \/ SaveDispatch(s)
              \/ Refused(s)
              \/ RequestDies(s)
       PROVE  Goal
  BY <1>2, <1>3, <1>10
     DEF DispatchFails, SaveDispatch, Refused, RequestDies, End
<1>11. CASE UNCHANGED vars
  BY <1>11 DEF vars, Goal
<1> QED BY <1>5, <1>6, <1>7, <1>8, <1>9, <1>10, <1>11 DEF Next

\* What a load leaves in the session.
LEMMA Loaded ==
    ASSUME IInv, NEW t \in Sessions, NEW j, NEW o, NEW gives, NEW ns, NEW at,
           Load(t, j, o, gives, ns, at), ns \subseteq DOMAIN rows
    PROVE  /\ session'[t].at = at
           /\ session'[t].job = j
           /\ session'[t].said = o
           /\ \/ session'[t].row = 0 /\ session'[t].loaded = Blank /\ ns = {}
              \/ /\ session'[t].row \in ns /\ session'[t].row # 0
                 /\ session'[t].loaded = rows[session'[t].row].has
<1>1. PICK n \in IF ns = {} THEN {0} ELSE ns :
        session' = [session EXCEPT ![t] =
                      [at |-> at, job |-> j, said |-> o, gives |-> gives,
                       row |-> n,
                       loaded |-> IF n = 0 THEN Blank ELSE rows[n].has,
                       noted |-> IF n = 0 THEN NoNotes ELSE rows[n].notes]]
  BY DEF Load
<1>2. session'[t] = [at |-> at, job |-> j, said |-> o, gives |-> gives,
                     row |-> n,
                     loaded |-> IF n = 0 THEN Blank ELSE rows[n].has,
                     noted |-> IF n = 0 THEN NoNotes ELSE rows[n].notes]
  BY <1>1 DEF IInv, TypeOK
<1>3. n # 0 <=> ns # {}
  BY <1>1 DEF IInv, TypeOK
<1> QED BY <1>1, <1>2, <1>3

\* Where what a request says comes from.
LEMMA SaidStep ==
    ASSUME IInv, NEW t \in Sessions, SaidInv(t), [Next]_vars
    PROVE  SaidInv(t)'
<1>1. stored \subseteq stored'
  BY SessionSteps
<1>2. CASE session'[t] = session[t]
  BY <1>1, <1>2 DEF SaidInv
<1>3. CASE session'[t].at \in {"idle", "ingest", "dispatch"}
  BY <1>3 DEF SaidInv
<1>4. ASSUME NEW j, NEW o, NEW gives, NEW ns, NEW at, Load(t, j, o, gives, ns, at),
             ns \subseteq DOMAIN rows,
             \/ /\ at = "observe"
                /\ \/ j = NoJob /\ o \in Observations
                   \/ j \in stored /\ o = Ingested(j)
             \/ at = "record" /\ o = Blank
      PROVE  SaidInv(t)'
  BY <1>1, <1>4, Loaded DEF SaidInv
<1> QED BY <1>2, <1>3, <1>4, SessionSteps, Lookups

\* What the columns hold once an observation is applied.
LEMMA AppliedColumns ==
    ASSUME NEW has \in Contents, NEW o \in Contents, NEW c \in Columns
    PROVE  Applied(has, o)[c] =
              IF o[c] \notin {Null, Zero} THEN o[c]
              ELSE IF NamesResource(o) /\ c = "pull_request_id"
                      /\ o["resource_type"] = "pull_request"
              THEN o["resource_id"]
              ELSE IF NamesResource(o) /\ c = "flaky_test_id"
                      /\ o["resource_type"] = "flaky_test_run"
              THEN o["resource_id"]
              ELSE IF c = "cloudwatch_log_group" /\ has[c] = Null
              THEN LogGroup ELSE has[c]
<1> DEFINE base == IF NamesResource(o)
                   THEN Pointed(has, o["resource_type"], o["resource_id"])
                   ELSE has
           merged == [d \in Columns |->
                        IF o[d] \notin {Null, Zero} THEN o[d] ELSE base[d]]
<1>1. Applied(has, o)[c] = IF c = "cloudwatch_log_group" /\ merged[c] = Null
                           THEN LogGroup ELSE merged[c]
  BY DEF Applied, OrLogGroup
<1>2. base[c] = IF NamesResource(o) /\ c = "pull_request_id"
                   /\ o["resource_type"] = "pull_request"
                THEN o["resource_id"]
                ELSE IF NamesResource(o) /\ c = "flaky_test_id"
                        /\ o["resource_type"] = "flaky_test_run"
                THEN o["resource_id"] ELSE has[c]
  <2>1. CASE c = "pull_request_id"
    BY <2>1 DEF Pointed
  <2>2. CASE c = "flaky_test_id"
    BY <2>2 DEF Pointed
  <2>3. CASE c \notin {"pull_request_id", "flaky_test_id"}
    BY <2>3 DEF Pointed
  <2> QED BY <2>1, <2>2, <2>3
<1> HIDE DEF base
<1>3. merged[c] = IF o[c] \notin {Null, Zero} THEN o[c] ELSE base[c]
  OBVIOUS
<1> HIDE DEF merged
<1> QED BY <1>1, <1>2, <1>3

\* What the ingest of a job says.
LEMMA IngestedColumns ==
    ASSUME NEW j \in Jobs
    PROVE  /\ Ingested(j)["resource_type"] = j[1]
           /\ Ingested(j)["resource_id"] = j[2]
           /\ Ingested(j)["pull_request_id"] =
                 IF j[1] = "pull_request" THEN j[2] ELSE Null
           /\ Ingested(j)["flaky_test_id"] =
                 IF j[1] = "flaky_test_run" THEN j[2] ELSE Null
           /\ j[1] \in Types /\ j[1] # Null
           /\ j[2] \in Ids /\ j[2] \notin {Null, Zero}
           /\ NamesResource(Ingested(j))
<1>1. /\ j[1] \in Types /\ j[1] # Null
      /\ j[2] \in Ids /\ j[2] \notin {Null, Zero}
  BY JobsAssumption, NullAssumption DEF Values
<1> DEFINE base == Pointed(Blank, j[1], j[2])
<1>2. /\ base["pull_request_id"] =
            IF j[1] = "pull_request" THEN j[2] ELSE Null
      /\ base["flaky_test_id"] =
            IF j[1] = "flaky_test_run" THEN j[2] ELSE Null
      /\ DOMAIN base = Columns
  BY DEF Pointed, Blank, Columns
<1> HIDE DEF base
<1>3. Ingested(j) = [base EXCEPT !["resource_type"] = j[1],
                                 !["resource_id"] = j[2],
                                 !["github_check_run_id"] = CheckRun[j],
                                 !["delivery_id"] = Delivery[j],
                                 !["cloudwatch_log_stream"] = Stream[j]]
  BY DEF Ingested, base
<1>4. /\ Ingested(j)["resource_type"] = j[1]
      /\ Ingested(j)["resource_id"] = j[2]
      /\ Ingested(j)["pull_request_id"] = base["pull_request_id"]
      /\ Ingested(j)["flaky_test_id"] = base["flaky_test_id"]
  BY <1>2, <1>3 DEF Columns
<1> QED BY <1>1, <1>2, <1>4 DEF NamesResource

\* An observation moves a pointer to a resource that is not stored only if it
\* names a key, and the ingest of a stored job never does.
LEMMA AppliedAnchored ==
    ASSUME NEW has \in Contents, Anchored(has), NEW o \in Contents,
           ~NamesKey(o) \/ \E j \in stored : j \in Jobs /\ o = Ingested(j)
    PROVE  Anchored(Applied(has, o))
<1> DEFINE new == Applied(has, o)
<1>1. "pull_request_id" \in Columns /\ "flaky_test_id" \in Columns
  BY DEF Columns
<1>2. CASE ~NamesKey(o)
  <2>1. /\ o["resource_id"] = Null
        /\ o["pull_request_id"] = Null
        /\ o["flaky_test_id"] = Null
    BY <1>2 DEF NamesKey
  <2>2. /\ new["pull_request_id"] = has["pull_request_id"]
        /\ new["flaky_test_id"] = has["flaky_test_id"]
    BY <1>1, <2>1, AppliedColumns DEF NamesResource
  <2> QED BY <2>2 DEF Anchored
<1>3. ASSUME NEW j \in stored, j \in Jobs, o = Ingested(j)
      PROVE  Anchored(new)
  <2>1. j = <<j[1], j[2]>> /\ j[1] \in {"pull_request", "flaky_test_run"}
    BY <1>3, JobsAssumption DEF Types
  <2>2. /\ o["resource_type"] = j[1]
        /\ o["resource_id"] = j[2]
        /\ o["pull_request_id"] = IF j[1] = "pull_request" THEN j[2] ELSE Null
        /\ o["flaky_test_id"] = IF j[1] = "flaky_test_run" THEN j[2] ELSE Null
        /\ j[2] \notin {Null, Zero}
    BY <1>3, IngestedColumns
  <2>3. /\ new["pull_request_id"] =
              IF j[1] = "pull_request" THEN j[2] ELSE has["pull_request_id"]
        /\ new["flaky_test_id"] =
              IF j[1] = "flaky_test_run" THEN j[2] ELSE has["flaky_test_id"]
    BY <1>1, <2>1, <2>2, AppliedColumns
  <2> HIDE DEF new
  <2> QED BY <2>1, <2>3 DEF Anchored
<1> QED BY <1>2, <1>3

\* An UPDATE whose columns are anchored, of a row that is, leaves it so.
LEMMA FlushAnchored ==
    ASSUME NEW loaded, NEW has, NEW current, Anchored(has), Anchored(current)
    PROVE  Anchored(Flush(loaded, has, current))
<1>1. \A c \in {"pull_request_id", "flaky_test_id"} :
         Flush(loaded, has, current)[c] \in {has[c], current[c]}
  BY DEF Flush, Columns
<1> QED BY <1>1 DEF Anchored

\* A row that is not there yet points to nothing.
LEMMA BlankAnchored == Anchored(Blank)
BY DEF Anchored, Blank, Columns

\* No row, and no copy of one, ever points to a resource that is not stored.
LEMMA AnchorStep ==
    ASSUME IInv, AnchorInv, [Next]_vars
    PROVE  AnchorInv'
<1>1. stored \subseteq stored'
  BY DEF Next, vars, history, StoreJob, Observe, Ingest, SaveObservation,
         DispatchFails, Dispatch, SaveDispatch, Refused, RequestDies
<1>2. ASSUME NEW n \in DOMAIN rows' PROVE Anchored(rows'[n].has)
  <2>1. CASE rows' = rows
    BY <2>1 DEF AnchorInv
  <2>2. ASSUME NEW s \in Sessions, Commit(s) PROVE Anchored(rows'[n].has)
    <3>1. TypeOK /\ SessionInv(s) /\ rows \in Seq(Rows)
      BY DEF IInv, TypeOK
    <3>2. Anchored(HasOf(s))
      BY <2>2 DEF Commit, Admitted
    <3>3. \/ n \in DOMAIN rows /\ rows'[n] = rows[n]
          \/ rows'[n].has = HasOf(s)
          \/ /\ n \in DOMAIN rows
             /\ rows'[n].has = Flush(session[s].loaded, HasOf(s), rows[n].has)
      BY <2>2, <3>1, CommitCases
    <3> QED BY <3>2, <3>3, FlushAnchored DEF AnchorInv
  <2> QED BY <2>1, <2>2, TableSteps
<1>3. ASSUME NEW t \in Sessions PROVE Anchored(session'[t].loaded)
  <2>1. CASE session'[t] = session[t] \/ session'[t].loaded = Blank
    BY <2>1, BlankAnchored DEF AnchorInv
  <2>2. ASSUME NEW j, NEW o, NEW gives, NEW ns, NEW at, Load(t, j, o, gives, ns, at),
               ns \subseteq DOMAIN rows
        PROVE  Anchored(session'[t].loaded)
    BY <2>2, Loaded, BlankAnchored DEF AnchorInv
  <2> QED BY <2>1, <2>2, SessionSteps, Lookups
<1> QED BY <1>1, <1>2, <1>3 DEF AnchorInv, Anchored

\* An id that is taken stays taken.
LEMMA IdsStay ==
    ASSUME IInv, [Next]_vars, NEW id, ByCorrelationId(id) # {}
    PROVE  ByCorrelationId(id)' # {}
<1>1. CASE rows' = rows
  BY <1>1 DEF ByCorrelationId
<1>2. ASSUME NEW s \in Sessions, Commit(s) PROVE ByCorrelationId(id)' # {}
  <2>1. TypeOK /\ SessionInv(s) /\ rows \in Seq(Rows)
    BY DEF IInv, TypeOK
  <2>2. \A n \in DOMAIN rows : n \in DOMAIN rows' /\ rows'[n].id = rows[n].id
    BY <1>2, <2>1, CommitCases
  <2> QED BY <2>2 DEF ByCorrelationId
<1> QED BY <1>1, <1>2, TableSteps

\* So is what explains a refusal.
LEMMA RefusedStep ==
    ASSUME IInv, RefusalInv, [Next]_vars
    PROVE  RefusedInv'
<1> DEFINE Explained(o) ==
      \/ o \in Observations /\ NamesKey(o)
      \/ /\ CorrelationId(o)[1] # "correlation"
         /\ ByCorrelationId(CorrelationId(o)) # {}
<1>1. ASSUME NEW o \in Contents, Explained(o)
      PROVE  Explained(o)'
  <2>1. CASE o \in Observations /\ NamesKey(o)
    BY <2>1
  <2>2. CASE /\ CorrelationId(o)[1] # "correlation"
             /\ ByCorrelationId(CorrelationId(o)) # {}
    <3>1. CorrelationId(o)' = CorrelationId(o)
      BY <2>2 DEF CorrelationId
    <3>2. PICK id : id = CorrelationId(o)
      OBVIOUS
    <3>3. ByCorrelationId(id)' # {}
      BY <2>2, <3>2, IdsStay
    <3>4. ByCorrelationId(CorrelationId(o))' # {}
      BY <3>1, <3>2, <3>3 DEF ByCorrelationId
    <3> QED BY <2>2, <3>1, <3>4
  <2> QED BY <1>1, <2>1, <2>2
<1>2. ASSUME NEW s \in Sessions, Refused(s), session[s].said # Blank
      PROVE  session[s].said \in Contents /\ Explained(session[s].said)
  <2> DEFINE q == session[s]
  <2>1. /\ TypeOK /\ SessionInv(s) /\ SaidInv(s)
        /\ q.said \in Contents /\ q.loaded \in Contents
        /\ Anchored(q.loaded) /\ stored \subseteq Jobs /\ Numbered
        /\ rows \in Seq(Rows)
    BY DEF IInv, TypeOK, SessionStates, RefusalInv, AnchorInv
  <2>2. q.at = "observe"
    BY <1>2, <2>1 DEF Refused, SaidInv
  <2>3. /\ HasOf(s) = Applied(q.loaded, q.said)
        /\ IdOf(s) = CorrelationId(q.said)
    BY <2>2 DEF HasOf, IdOf
  <2>4. \/ q.said \in Observations
        \/ \E j \in stored : j \in Jobs /\ q.said = Ingested(j)
    BY <2>1, <2>2 DEF SaidInv
  <2>5. \/ ~Anchored(Applied(q.loaded, q.said))
        \/ ByCorrelationId(CorrelationId(q.said)) # {}
    BY <1>2, <2>3 DEF Refused, Admitted, UniqueId
  <2>6. CASE ~Anchored(Applied(q.loaded, q.said))
    BY <2>1, <2>4, <2>6, AppliedAnchored
  <2>7. CASE ByCorrelationId(CorrelationId(q.said)) # {}
    <3> SUFFICES ASSUME CorrelationId(q.said)[1] = "correlation" PROVE FALSE
      BY <2>1, <2>7
    <3>1. CorrelationId(q.said) = <<"correlation", Len(rows) + 1>>
      BY <2>1, NamedId
    <3>2. PICK n \in DOMAIN rows : rows[n].id = <<"correlation", Len(rows) + 1>>
      BY <2>7, <3>1 DEF ByCorrelationId
    <3>3. n = Len(rows) + 1
      BY <2>1, <3>2 DEF Numbered
    <3> QED BY <2>1, <3>3
  <2> QED BY <2>1, <2>5, <2>6, <2>7
<1>3. \A o \in refused \ {Blank} : o \in Contents /\ Explained(o)
  BY DEF RefusalInv, RefusedInv
<1>4. refused' = refused \/ \E s \in Sessions :
                   Refused(s) /\ refused' = refused \cup {session[s].said}
  BY DEF Next, vars, history, StoreJob, Observe, Ingest, SaveObservation,
         DispatchFails, Dispatch, SaveDispatch, Refused, RequestDies
<1>5. \A o \in refused' \ {Blank} : o \in Contents /\ Explained(o)
  BY <1>2, <1>3, <1>4
<1>6. \A o \in refused' \ {Blank} : Explained(o)'
  BY <1>1, <1>5
<1> HIDE DEF Explained
<1>7. refused' \subseteq Contents
  BY <1>5, BlankType
<1> QED BY <1>6, <1>7 DEF RefusedInv, Explained

\* What explains a refusal is always there.
THEOREM RefusalInvariance == Spec => []RefusalInv
<1>1. Init => RefusalInv
  BY BlankAnchored
     DEF Init, RefusalInv, Numbered, SaidInv, AnchorInv, RefusedInv, IdleSession
<1>2. IInv /\ RefusalInv /\ [Next]_vars => RefusalInv'
  BY NumberedStep, SaidStep, AnchorStep, RefusedStep DEF RefusalInv
<1> QED BY <1>1, <1>2, Invariance, PTL DEF Spec

\* An observation is turned away only because its id was taken at that moment,
\* or because it came from outside and names a resource: the foreign keys never
\* turn away what a workflow says of the job that it stored.
THEOREM RefusalsHaveReasons == Spec => []RefusalsAreExplained
<1>1. RefusalInv => RefusalsAreExplained
  BY DEF RefusalInv, RefusedInv, RefusalsAreExplained
<1> QED BY <1>1, RefusalInvariance, PTL

----------------------------------------------------------------------------
(* Type, key and pointer of a row. *)

\* An observation that names type, key and pointer alike leaves them so, and
\* one that names the key Zero is turned away for the pointer it would set.
LEMMA AppliedAgrees ==
    ASSUME NEW has \in Contents, Agrees(has), NEW o \in Contents, WellNamed(o),
           stored \subseteq Jobs, Anchored(Applied(has, o))
    PROVE  Agrees(Applied(has, o))
<1> DEFINE new == Applied(has, o)
<1>1. Pointing \subseteq Columns
  BY DEF Pointing, Columns
<1>2. /\ o["resource_type"] \in Types \cup {Null}
      /\ o["resource_type"] \in Types => o["resource_type"] \notin {Null, Zero}
      /\ "pull_request" # Null /\ "flaky_test_run" # Null
  BY <1>1, NullAssumption, ZeroAssumption
     DEF Contents, Kind, Columns, Pointing, Values, Types
<1>3. CASE ~NamesResource(o)
  <2>1. \A c \in Pointing : o[c] = Null
    BY <1>2, <1>3 DEF WellNamed, Paired, NamesResource, Resource, Pointing
  <2>2. \A c \in Pointing : new[c] = has[c]
    BY <1>1, <1>3, <2>1, AppliedColumns DEF Pointing
  <2> HIDE DEF new
  <2> QED BY <2>2 DEF Agrees, Pointing, new
<1>4. CASE NamesResource(o)
  <2> DEFINE type == o["resource_type"]
             id == o["resource_id"]
  <2>1. type \in Types /\ type \notin {Null, Zero} /\ id # Null
    BY <1>2, <1>4 DEF NamesResource
  <2>2. new["resource_type"] = type
    BY <1>1, <2>1, AppliedColumns DEF Pointing
  <2>3. /\ type = "pull_request" => new["pull_request_id"] = id
        /\ type = "flaky_test_run" => new["flaky_test_id"] = id
    BY <1>1, <1>4, AppliedColumns DEF WellNamed, Resource, Pointing
  <2>4. id # Zero
    <3> HIDE DEF new
    <3>1. ASSUME id = Zero PROVE <<type, Zero>> \in Jobs
      BY <2>1, <2>3, <3>1 DEF Anchored, Types, new
    <3> QED BY <3>1, JobsAssumption
  <2>5. new["resource_id"] = id
    BY <1>1, <2>1, <2>4, AppliedColumns DEF Pointing
  <2> HIDE DEF new
  <2> QED BY <2>2, <2>3, <2>5 DEF Agrees, new
<1> QED BY <1>3, <1>4

\* What the columns hold once a dispatch is recorded.
LEMMA DispatchedColumns ==
    ASSUME NEW has \in Contents, NEW j \in Jobs, NEW new \in BOOLEAN
    PROVE  LET d == Dispatched(has, j, new) IN
           /\ d["task_id"] = Task[j]
           /\ d["resource_type"] = IF new THEN j[1] ELSE has["resource_type"]
           /\ d["resource_id"] = IF new THEN j[2] ELSE has["resource_id"]
           /\ d["pull_request_id"] = IF new /\ j[1] = "pull_request" THEN j[2]
                                     ELSE has["pull_request_id"]
           /\ d["flaky_test_id"] = IF new /\ j[1] = "flaky_test_run" THEN j[2]
                                   ELSE has["flaky_test_id"]
           /\ \A c \in {"request_id", "delivery_id", "github_check_run_id"} :
                 d[c] = has[c]
           /\ d["cloudwatch_log_group"] =
                 IF has["cloudwatch_log_group"] = Null THEN LogGroup
                 ELSE has["cloudwatch_log_group"]
<1> DEFINE named == [has EXCEPT !["resource_type"] = j[1],
                                !["resource_id"] = j[2]]
           base == IF new THEN Pointed(named, j[1], j[2]) ELSE has
           sent == [base EXCEPT !["task_id"] = Task[j],
                                !["dispatch_backend"] = "celery"]
           d == Dispatched(has, j, new)
           All == {"resource_type", "resource_id", "pull_request_id",
                   "flaky_test_id", "request_id", "delivery_id",
                   "github_check_run_id", "task_id", "cloudwatch_log_group"}
<1>0. All \subseteq Columns /\ DOMAIN has = Columns
  BY DEF Columns, Contents
<1>1. /\ named["resource_type"] = j[1]
      /\ named["resource_id"] = j[2]
      /\ \A c \in All \ {"resource_type", "resource_id"} : named[c] = has[c]
  BY <1>0
<1> HIDE DEF named
<1>2. /\ DOMAIN base = Columns
      /\ base["resource_type"] = IF new THEN j[1] ELSE has["resource_type"]
      /\ base["resource_id"] = IF new THEN j[2] ELSE has["resource_id"]
      /\ base["pull_request_id"] = IF new /\ j[1] = "pull_request" THEN j[2]
                                   ELSE has["pull_request_id"]
      /\ base["flaky_test_id"] = IF new /\ j[1] = "flaky_test_run" THEN j[2]
                                 ELSE has["flaky_test_id"]
      /\ \A c \in {"request_id", "delivery_id", "github_check_run_id",
                   "cloudwatch_log_group"} : base[c] = has[c]
  <2>1. CASE new
    <3> DEFINE p == Pointed(named, j[1], j[2])
    <3>1. base = p
      BY <2>1
    <3>2. DOMAIN p = Columns
      BY DEF Pointed
    <3>3. p["pull_request_id"] = IF j[1] = "pull_request" THEN j[2]
                                 ELSE named["pull_request_id"]
      BY <1>0 DEF Pointed
    <3>4. p["flaky_test_id"] = IF j[1] = "flaky_test_run" THEN j[2]
                               ELSE named["flaky_test_id"]
      BY <1>0 DEF Pointed
    <3>5. \A c \in All \ {"pull_request_id", "flaky_test_id"} : p[c] = named[c]
      BY <1>0 DEF Pointed
    <3> HIDE DEF p, base
    <3> QED BY <1>1, <2>1, <3>1, <3>2, <3>3, <3>4, <3>5
  <2>2. CASE ~new
    BY <1>0, <2>2
  <2> QED BY <2>1, <2>2
<1> HIDE DEF base
<1>3. /\ DOMAIN sent = Columns
      /\ sent["task_id"] = Task[j]
      /\ \A c \in All \ {"task_id"} : sent[c] = base[c]
  BY <1>0, <1>2
<1>4. d = OrLogGroup(sent)
  BY DEF Dispatched, base, named
<1> HIDE DEF sent
<1>5. \A c \in All : d[c] = IF c = "cloudwatch_log_group" /\ sent[c] = Null
                            THEN LogGroup ELSE sent[c]
  BY <1>0, <1>3, <1>4 DEF OrLogGroup
<1> HIDE DEF d
<1> QED BY <1>2, <1>3, <1>5 DEF d

\* So does the record of a dispatch.
LEMMA DispatchedAgrees ==
    ASSUME NEW has \in Contents, Agrees(has), NEW j \in Jobs, NEW new \in BOOLEAN
    PROVE  Agrees(Dispatched(has, j, new))
<1> DEFINE d == Dispatched(has, j, new)
<1>1. /\ d["resource_type"] = IF new THEN j[1] ELSE has["resource_type"]
      /\ d["resource_id"] = IF new THEN j[2] ELSE has["resource_id"]
      /\ d["pull_request_id"] = IF new /\ j[1] = "pull_request" THEN j[2]
                                ELSE has["pull_request_id"]
      /\ d["flaky_test_id"] = IF new /\ j[1] = "flaky_test_run" THEN j[2]
                              ELSE has["flaky_test_id"]
  BY DispatchedColumns
<1> HIDE DEF d
<1> QED BY <1>1 DEF Agrees, d

\* What a request commits agrees, if its copy of the row did.
LEMMA CommittedAgrees ==
    ASSUME IInv, NEW s \in Sessions, Commit(s), Agrees(session[s].loaded),
           WellNamed(session[s].said)
    PROVE  Agrees(HasOf(s))
<1> DEFINE q == session[s]
<1>1. /\ q.said \in Contents /\ q.loaded \in Contents /\ stored \subseteq Jobs
      /\ SessionInv(s) /\ Anchored(HasOf(s))
  BY DEF IInv, TypeOK, SessionStates, Commit, Admitted
<1>2. CASE q.at = "record"
  <2>1. q.job \in Jobs
    BY <1>1, <1>2 DEF SessionInv
  <2>2. PICK new \in BOOLEAN : HasOf(s) = Dispatched(q.loaded, q.job, new)
    BY <1>2 DEF HasOf
  <2> QED BY <1>1, <2>1, <2>2, DispatchedAgrees
<1>3. CASE q.at # "record"
  <2>1. HasOf(s) = Applied(q.loaded, q.said)
    BY <1>3 DEF HasOf
  <2> QED BY <1>1, <2>1, AppliedAgrees
<1> QED BY <1>2, <1>3

\* Whether they agree depends on these columns alone.
LEMMA AgreesByColumn ==
    ASSUME NEW a, NEW b, \A c \in Pointing : a[c] = b[c], Agrees(a)
    PROVE  Agrees(b)
BY DEF Agrees, Pointing

\* Requests that take turns on a row leave the pointer of its type with its
\* key: it takes the commit of a copy that is out of date in one of the four
\* columns, or an observation that is itself at odds, to tear them apart.
THEOREM TearsAreOfOverlaps == Spec => RowsTearInOverlapsOnly
<1> DEFINE Torn ==
      \A n \in DOMAIN rows' :
         ~Agrees(rows'[n].has) /\ (n \in DOMAIN rows => Agrees(rows[n].has)) =>
            \E s \in Sessions :
               /\ Commits(s, n)
               /\ \/ ~WellNamed(session[s].said)
                  \/ /\ n \in DOMAIN rows
                     /\ \E c \in Pointing :
                           session[s].loaded[c] # rows[n].has[c]
<1>1. IInv /\ RefusalInv /\ [Next]_vars => [Torn]_vars
  <2> SUFFICES ASSUME IInv, RefusalInv, Next, NEW n \in DOMAIN rows',
                      ~Agrees(rows'[n].has),
                      n \in DOMAIN rows => Agrees(rows[n].has)
               PROVE  \E s \in Sessions :
                         /\ Commits(s, n)
                         /\ \/ ~WellNamed(session[s].said)
                            \/ /\ n \in DOMAIN rows
                               /\ \E c \in Pointing :
                                     session[s].loaded[c] # rows[n].has[c]
    OBVIOUS
  <2>1. PICK s \in Sessions : /\ Commit(s)
                              /\ session[s].at \in {"observe", "record"}
                              /\ session'[s] # session[s]
    <3>1. rows' # rows
      OBVIOUS
    <3> QED BY <3>1, CommitsOnly
  <2> DEFINE q == session[s]
  <2>2. /\ TypeOK /\ SessionInv(s) /\ SaidInv(s) /\ rows \in Seq(Rows)
        /\ q.row \in Nat
    BY DEF IInv, TypeOK, SessionStates, RefusalInv
  <2>3. CASE /\ q.row = 0 /\ n \notin DOMAIN rows
             /\ rows'[n].has = HasOf(s)
    <3>1. q.loaded = Blank
      BY <2>1, <2>2, <2>3 DEF SaidInv
    <3>2. Agrees(q.loaded)
      BY <3>1 DEF Agrees, Blank, Columns
    <3>3. ~WellNamed(q.said)
      BY <2>1, <2>3, <3>2, CommittedAgrees
    <3> QED BY <2>1, <2>3, <3>3 DEF Commits
  <2>4. CASE /\ q.row = n /\ n \in DOMAIN rows
             /\ rows'[n].has = Flush(q.loaded, HasOf(s), rows[n].has)
    <3> SUFFICES ASSUME WellNamed(q.said),
                        \A c \in Pointing : q.loaded[c] = rows[n].has[c]
                 PROVE  FALSE
      BY <2>1, <2>4 DEF Commits
    <3>1. \A c \in Pointing : rows'[n].has[c] = HasOf(s)[c]
      BY <2>4 DEF Flush, Pointing, Columns
    <3>2. Agrees(rows[n].has)
      BY <2>4
    <3> HIDE DEF q
    <3>3. Agrees(q.loaded)
      BY <3>2, AgreesByColumn
    <3>4. Agrees(HasOf(s))
      BY <2>1, <3>3, CommittedAgrees DEF q
    <3> QED BY <3>1, <3>4, AgreesByColumn
  <2>5. \/ n \in DOMAIN rows /\ rows'[n] = rows[n]
        \/ /\ q.row = 0 /\ n \notin DOMAIN rows
           /\ rows'[n].has = HasOf(s)
        \/ /\ q.row = n /\ n \in DOMAIN rows
           /\ rows'[n].has = Flush(q.loaded, HasOf(s), rows[n].has)
    BY <2>1, <2>2, CommitCases
  <2> QED BY <2>3, <2>4, <2>5
<1>2. Spec => [][Torn]_vars
  BY <1>1, Invariance, RefusalInvariance, PTL DEF Spec
<1> QED BY <1>2 DEF RowsTearInOverlapsOnly

----------------------------------------------------------------------------
(* Every row has one subject. *)

\* All names of a row, or of an observation, are those of one subject.
One(subject, has, own) == \A name \in Names(has) : subject[name] = own

\* What a row of a subject can be torn into is of that subject.
Closed(subject) ==
    \A a, b \in Types \X Ids : subject[a] = subject[b] =>
        subject[<<a[1], b[2]>>] = subject[a]

\* The names of a row, column by column.
LEMMA OneByColumn ==
    ASSUME NEW subject, NEW has, NEW own
    PROVE  One(subject, has, own) <=>
              /\ has["request_id"] # Null =>
                    subject[<<"request", has["request_id"]>>] = own
              /\ has["delivery_id"] # Null =>
                    subject[<<"delivery", has["delivery_id"]>>] = own
              /\ has["task_id"] # Null =>
                    subject[<<"task", has["task_id"]>>] = own
              /\ has["github_check_run_id"] # Null =>
                    subject[<<"github_check_run",
                              has["github_check_run_id"]>>] = own
              /\ has["resource_id"] # Null =>
                    subject[<<has["resource_type"], has["resource_id"]>>] = own
BY DEF One, Names

\* The columns whose values are names, and of what kind these are.
LEMMA ResourceType ==
    ASSUME NEW has \in Contents, has["resource_type"] # Null,
           has["resource_id"] # Null
    PROVE  <<has["resource_type"], has["resource_id"]>> \in Types \X Ids
BY DEF Contents, Kind, Columns

\* An observation of the subject of a row leaves the row with one subject.
LEMMA AppliedOne ==
    ASSUME NEW subject, NEW own,
           NEW has \in Contents, One(subject, has, own), Paired(has),
           NEW o \in Contents, One(subject, o, own), Paired(o),
           o["resource_id"] # Zero
    PROVE  One(subject, Applied(has, o), own) /\ Paired(Applied(has, o))
<1> DEFINE new == Applied(has, o)
<1>1. \A c \in {"request_id", "delivery_id", "task_id", "github_check_run_id",
                "resource_type", "resource_id"} :
         new[c] = IF o[c] \notin {Null, Zero} THEN o[c] ELSE has[c]
  <2>1. {"request_id", "delivery_id", "task_id", "github_check_run_id",
         "resource_type", "resource_id"} \subseteq Columns
    BY DEF Columns
  <2> QED BY <2>1, AppliedColumns
<1>2. /\ new["resource_type"] = IF o["resource_type"] # Null
                                THEN o["resource_type"] ELSE has["resource_type"]
      /\ new["resource_id"] = IF o["resource_id"] # Null
                              THEN o["resource_id"] ELSE has["resource_id"]
  <2>1. o["resource_type"] \in Types \cup {Null}
    BY DEF Contents, Kind, Columns
  <2> QED BY <1>1, <2>1, ZeroAssumption
<1> HIDE DEF new
<1>3. Paired(new)
  BY <1>2 DEF Paired
<1>4. One(subject, new, own)
  <2>1. new["resource_id"] # Null =>
           \/ /\ new["resource_id"] = o["resource_id"]
              /\ new["resource_type"] = o["resource_type"]
              /\ o["resource_id"] # Null
           \/ /\ new["resource_id"] = has["resource_id"]
              /\ new["resource_type"] = has["resource_type"]
              /\ has["resource_id"] # Null
    BY <1>2 DEF Paired
  <2> QED BY <1>1, <2>1, OneByColumn
<1> QED BY <1>3, <1>4 DEF new

\* So does the record of the dispatch of its job.
LEMMA DispatchedOne ==
    ASSUME NEW subject, NEW own, NEW has \in Contents,
           NEW j \in Jobs, subject[j] = own,
           Task[j] # Null => subject[<<"task", Task[j]>>] = own,
           NEW new \in BOOLEAN, new => has = Blank,
           ~new => /\ One(subject, has, own)
                   /\ has["resource_type"] = j[1]
                   /\ has["resource_id"] = j[2]
    PROVE  /\ One(subject, Dispatched(has, j, new), own)
           /\ Paired(Dispatched(has, j, new))
<1> DEFINE d == Dispatched(has, j, new)
<1>1. /\ d["task_id"] = Task[j]
      /\ d["resource_type"] = j[1]
      /\ d["resource_id"] = j[2]
      /\ \A c \in {"request_id", "delivery_id", "github_check_run_id"} :
            d[c] = has[c]
  BY DispatchedColumns
<1>2. j = <<j[1], j[2]>> /\ j[1] # Null /\ j[2] # Null
  BY JobsAssumption, NullAssumption DEF Values
<1>3. new => /\ has["request_id"] = Null
             /\ has["delivery_id"] = Null
             /\ has["github_check_run_id"] = Null
  BY DEF Blank, Columns
<1> HIDE DEF d
<1>4. Paired(d)
  BY <1>1, <1>2 DEF Paired
<1>5. One(subject, d, own)
  <2>1. ~new => /\ has["request_id"] # Null =>
                      subject[<<"request", has["request_id"]>>] = own
                /\ has["delivery_id"] # Null =>
                      subject[<<"delivery", has["delivery_id"]>>] = own
                /\ has["github_check_run_id"] # Null =>
                      subject[<<"github_check_run",
                                has["github_check_run_id"]>>] = own
    BY OneByColumn
  <2> QED BY <1>1, <1>2, <1>3, <2>1, OneByColumn
<1> QED BY <1>4, <1>5 DEF d

\* And an UPDATE of a row of the subject, though it takes some columns from
\* one row and some from another: even what it tears type and key into is of
\* the subject, and they are written together where there were none.
LEMMA FlushOne ==
    ASSUME NEW subject, Closed(subject), NEW own,
           NEW loaded \in Contents, Paired(loaded),
           NEW has \in Contents, One(subject, has, own), Paired(has),
           NEW now \in Contents, One(subject, now, own), Paired(now),
           loaded["resource_type"] # Null =>
              has["resource_type"] # Null /\ now["resource_type"] # Null
    PROVE  /\ One(subject, Flush(loaded, has, now), own)
           /\ Paired(Flush(loaded, has, now))
<1> DEFINE f == Flush(loaded, has, now)
           All == {"request_id", "delivery_id", "task_id",
                   "github_check_run_id", "resource_type", "resource_id"}
<1>1. \A c \in All : f[c] = IF has[c] = loaded[c] THEN now[c] ELSE has[c]
  BY DEF Flush, Columns
<1> HIDE DEF f
<1>2. Paired(f)
  BY <1>1 DEF Paired
<1>3. ASSUME f["resource_id"] # Null
      PROVE  subject[<<f["resource_type"], f["resource_id"]>>] = own
  <2>1. PICK x \in {has, now}, y \in {has, now} :
           f["resource_type"] = x["resource_type"]
           /\ f["resource_id"] = y["resource_id"]
    BY <1>1
  <2>2. /\ x["resource_type"] # Null /\ x["resource_id"] # Null
        /\ y["resource_type"] # Null /\ y["resource_id"] # Null
    BY <1>2, <1>3, <2>1 DEF Paired
  <2>3. /\ <<x["resource_type"], x["resource_id"]>> \in Types \X Ids
        /\ <<y["resource_type"], y["resource_id"]>> \in Types \X Ids
    BY <2>1, <2>2, ResourceType
  <2>4. /\ subject[<<x["resource_type"], x["resource_id"]>>] = own
        /\ subject[<<y["resource_type"], y["resource_id"]>>] = own
    BY <2>2, OneByColumn
  <2> QED BY <2>1, <2>3, <2>4 DEF Closed
<1>4. One(subject, f, own)
  <2>1. /\ f["request_id"] # Null =>
              subject[<<"request", f["request_id"]>>] = own
        /\ f["delivery_id"] # Null =>
              subject[<<"delivery", f["delivery_id"]>>] = own
        /\ f["task_id"] # Null =>
              subject[<<"task", f["task_id"]>>] = own
        /\ f["github_check_run_id"] # Null =>
              subject[<<"github_check_run", f["github_check_run_id"]>>] = own
    BY <1>1, OneByColumn
  <2> QED BY <1>3, <2>1, OneByColumn
<1> QED BY <1>2, <1>4 DEF f

\* The subject of a row is that of its id.
SubjectOf(subject, n) == subject[rows[n].id]

\* A job of the subject may take the task id from a row.
Untasked(subject, own) == \E i \in Jobs : Task[i] = Null /\ subject[i] = own

\* What a request has loaded and says has the subject of its row, and the row
\* still has what was loaded from it, or something newer.
LoadedInv(subject, s) ==
    LET q == session[s] IN
    q.at \in {"observe", "record"} =>
       /\ q.row = 0 => q.loaded = Blank
       /\ q.row # 0 =>
             /\ One(subject, q.loaded, SubjectOf(subject, q.row))
             /\ Paired(q.loaded)
             /\ \A c \in Columns : q.loaded[c] # Null =>
                   \/ rows[q.row].has[c] # Null
                   \/ c = "task_id" /\ Untasked(subject, SubjectOf(subject, q.row))
             /\ q.at = "observe" =>
                   One(subject, q.said, SubjectOf(subject, q.row))
             /\ q.at = "record" =>
                   /\ subject[q.job] = SubjectOf(subject, q.row)
                   /\ q.loaded["resource_type"] = q.job[1]
                   /\ q.loaded["resource_id"] = q.job[2]

SubjectInv(subject) ==
    /\ \A n \in DOMAIN rows :
          /\ One(subject, rows[n].has, SubjectOf(subject, n))
          /\ Paired(rows[n].has)
    /\ \A s \in Sessions : LoadedInv(subject, s)

\* The row that is not there yet can be of any subject.
LEMMA BlankOne ==
    ASSUME NEW subject, NEW own
    PROVE  One(subject, Blank, own) /\ Paired(Blank)
<1>1. \A c \in Columns : Blank[c] = Null
  BY DEF Blank
<1>2. One(subject, Blank, own)
  BY <1>1, OneByColumn DEF Columns
<1>3. Paired(Blank)
  BY <1>1 DEF Paired, Columns
<1> QED BY <1>2, <1>3

\* What a request says has the subject of the id that it goes by.
LEMMA SaidOne ==
    ASSUME NEW subject, OneSubjectEach(subject), stored \subseteq Jobs,
           NEW o, o \in Observations \/ \E j \in stored : o = Ingested(j)
    PROVE  /\ o \in Contents
           /\ Paired(o)
           /\ o["resource_id"] # Zero
           /\ One(subject, o, subject[CorrelationId(o)])
<1>1. o \in Contents
  BY ObservationsAssumption, IngestedType
<1>2. Paired(o) /\ o["resource_id"] # Zero
  <2>1. CASE o \in Observations
    BY <2>1 DEF OneSubjectEach
  <2>2. ASSUME NEW j \in stored, o = Ingested(j)
        PROVE  Paired(o) /\ o["resource_id"] # Zero
    BY <2>2, IngestedColumns DEF Paired
  <2> QED BY <2>1, <2>2
<1>3. \A a, b \in Names(o) : subject[a] = subject[b]
  BY DEF OneSubjectEach, Sayings
<1>4. CASE CorrelationId(o)[1] = "correlation"
  <2>1. /\ o["request_id"] = Null
        /\ o["delivery_id"] = Null
        /\ o["task_id"] = Null
        /\ o["github_check_run_id"] = Null
        /\ o["resource_id"] = Null
    BY <1>1, <1>2, <1>4, NamedId DEF Paired, NamesResource
  <2> QED BY <1>1, <1>2, <2>1, OneByColumn
<1>5. CASE CorrelationId(o)[1] # "correlation"
  <2>1. CorrelationId(o) \in Names(o)
    <3>1. \/ /\ o["request_id"] # Null
             /\ CorrelationId(o) = <<"request", o["request_id"]>>
          \/ /\ o["delivery_id"] # Null
             /\ CorrelationId(o) = <<"delivery", o["delivery_id"]>>
          \/ /\ o["task_id"] # Null
             /\ CorrelationId(o) = <<"task", o["task_id"]>>
          \/ /\ o["resource_id"] # Null
             /\ CorrelationId(o) = <<o["resource_type"], o["resource_id"]>>
          \/ /\ o["github_check_run_id"] # Null
             /\ CorrelationId(o) =
                   <<"github_check_run", o["github_check_run_id"]>>
      BY <1>5 DEF CorrelationId, NamesResource
    <3> QED BY <3>1 DEF Names
  <2> QED BY <1>1, <1>2, <1>3, <2>1 DEF One
<1> QED BY <1>4, <1>5

\* The row that is found for it has this subject.
LEMMA FoundOne ==
    ASSUME NEW subject, SubjectInv(subject),
           NEW o, One(subject, o, subject[CorrelationId(o)]),
           NEW n \in FindExisting(o)
    PROVE  SubjectOf(subject, n) = subject[CorrelationId(o)]
<1>1. n \in DOMAIN rows
  BY Lookups
<1>2. One(subject, rows[n].has, SubjectOf(subject, n))
  BY <1>1 DEF SubjectInv
<1>3. CASE /\ NamesResource(o)
           /\ n \in ByResource(o["resource_type"], o["resource_id"])
  <2>1. /\ rows[n].has["resource_type"] = o["resource_type"]
        /\ rows[n].has["resource_id"] = o["resource_id"]
        /\ o["resource_id"] # Null
    BY <1>3 DEF ByResource, Newest, ListForResource, NamesResource
  <2> QED BY <1>2, <2>1, OneByColumn
<1>4. CASE /\ o["github_check_run_id"] # Null
           /\ n \in ByCheckRun(o["github_check_run_id"])
  <2>1. rows[n].has["github_check_run_id"] = o["github_check_run_id"]
    BY <1>4 DEF ByCheckRun
  <2> QED BY <1>2, <1>4, <2>1, OneByColumn
<1>5. CASE n \in ByCorrelationId(CorrelationId(o))
  BY <1>5 DEF ByCorrelationId, SubjectOf
<1> QED BY <1>3, <1>4, <1>5 DEF FindExisting

\* What a request is about to commit has the subject of its row.
LEMMA CommittedOne ==
    ASSUME NEW subject, OneSubjectEach(subject), SubjectInv(subject),
           TypeOK, NEW s \in Sessions, SessionInv(s), SaidInv(s),
           session[s].at \in {"observe", "record"},
           NEW own, own = IF session[s].row = 0 THEN subject[IdOf(s)]
                          ELSE SubjectOf(subject, session[s].row)
    PROVE  One(subject, HasOf(s), own) /\ Paired(HasOf(s))
<1> DEFINE q == session[s]
<1>1. /\ q.said \in Contents /\ q.loaded \in Contents /\ stored \subseteq Jobs
      /\ LoadedInv(subject, s)
  BY DEF TypeOK, SessionStates, SubjectInv
<1>2. /\ q.row = 0 => q.loaded = Blank
      /\ q.row # 0 => One(subject, q.loaded, own) /\ Paired(q.loaded)
      /\ One(subject, q.loaded, own) /\ Paired(q.loaded)
  BY <1>1, BlankOne DEF LoadedInv
<1>3. CASE q.at = "observe"
  <2>1. HasOf(s) = Applied(q.loaded, q.said) /\ IdOf(s) = CorrelationId(q.said)
    BY <1>3 DEF HasOf, IdOf
  <2>2. q.said \in Observations \/ \E j \in stored : q.said = Ingested(j)
    BY <1>3 DEF SaidInv
  <2>3. /\ Paired(q.said) /\ q.said["resource_id"] # Zero
        /\ One(subject, q.said, subject[CorrelationId(q.said)])
    BY <1>1, <2>2, SaidOne
  <2>4. One(subject, q.said, own)
    BY <1>1, <1>3, <2>1, <2>3 DEF LoadedInv
  <2> QED BY <1>1, <1>2, <2>1, <2>3, <2>4, AppliedOne
<1>4. CASE q.at = "record"
  <2>1. HasOf(s) = Dispatched(q.loaded, q.job, q.row = 0) /\ IdOf(s) = q.job
    BY <1>4 DEF HasOf, IdOf
  <2>2. q.job \in Jobs
    BY <1>1, <1>4 DEF SessionInv
  <2>3. /\ subject[q.job] = own
        /\ Task[q.job] # Null => subject[<<"task", Task[q.job]>>] = own
    BY <1>1, <1>4, <2>1, <2>2 DEF LoadedInv, OneSubjectEach
  <2>4. q.row # 0 => /\ q.loaded["resource_type"] = q.job[1]
                     /\ q.loaded["resource_id"] = q.job[2]
    BY <1>1, <1>4 DEF LoadedInv
  <2>5. CASE q.row = 0
    <3>1. HasOf(s) = Dispatched(q.loaded, q.job, TRUE)
      BY <2>1, <2>5
    <3>2. q.loaded = Blank
      BY <1>2, <2>5
    <3> QED BY <1>1, <2>2, <2>3, <3>1, <3>2, DispatchedOne
  <2>6. CASE q.row # 0
    <3>1. HasOf(s) = Dispatched(q.loaded, q.job, FALSE)
      BY <2>1, <2>6
    <3> QED BY <1>1, <1>2, <2>2, <2>3, <2>4, <2>6, <3>1, DispatchedOne
  <2> QED BY <2>5, <2>6
<1> QED BY <1>3, <1>4

\* What is there to say of the row that a commit leaves.
LEMMA RowsOne ==
    ASSUME NEW subject, OneSubjectEach(subject), SubjectInv(subject),
           IInv, RefusalInv, [Next]_vars, NEW n \in DOMAIN rows'
    PROVE  /\ One(subject, rows'[n].has, subject[rows'[n].id])
           /\ Paired(rows'[n].has)
<1> DEFINE Goal == /\ One(subject, rows'[n].has, subject[rows'[n].id])
                   /\ Paired(rows'[n].has)
<1>1. ASSUME n \in DOMAIN rows, rows'[n] = rows[n] PROVE Goal
  BY <1>1 DEF SubjectInv, SubjectOf
<1>2. ASSUME NEW s \in Sessions, Commit(s),
             session[s].at \in {"observe", "record"}
      PROVE  Goal
  <2> DEFINE q == session[s]
  <2>1. /\ TypeOK /\ SessionInv(s) /\ SaidInv(s) /\ LoadedInv(subject, s)
        /\ rows \in Seq(Rows) /\ q.loaded \in Contents
    BY DEF IInv, TypeOK, SessionStates, RefusalInv, SubjectInv
  <2>2. HasOf(s) \in Contents
    BY <2>1, CommittedType
  <2>3. CASE /\ q.row = 0
             /\ rows'[n].id = IdOf(s)
             /\ rows'[n].has = HasOf(s)
    BY <1>2, <2>1, <2>3, CommittedOne
  <2>4. CASE /\ q.row = n /\ n \in DOMAIN rows
             /\ rows'[n].id = rows[n].id
             /\ rows'[n].has = Flush(q.loaded, HasOf(s), rows[n].has)
    <3> DEFINE own == SubjectOf(subject, n)
    <3>1. n # 0 /\ rows[n].has \in Contents
      <4>1. n # 0 /\ rows[n] \in Rows
        BY <2>1, <2>4
      <4> QED BY <4>1 DEF Rows
    <3>2. One(subject, HasOf(s), own) /\ Paired(HasOf(s))
      BY <1>2, <2>1, <2>4, <3>1, CommittedOne
    <3>3. One(subject, q.loaded, own) /\ Paired(q.loaded)
      BY <1>2, <2>1, <2>4, <3>1 DEF LoadedInv
    <3>4. One(subject, rows[n].has, own) /\ Paired(rows[n].has)
      BY <2>4 DEF SubjectInv
    <3>5. q.loaded["resource_type"] # Null =>
             /\ HasOf(s)["resource_type"] # Null
             /\ rows[n].has["resource_type"] # Null
      <4>1. "resource_type" \in Columns
        BY DEF Columns
      <4> QED BY <1>2, <2>1, <2>4, <3>1, <4>1, LoadedKeeps DEF LoadedInv
    <3>6. Closed(subject)
      BY DEF OneSubjectEach, Closed
    <3>7. rows'[n].has = Flush(q.loaded, HasOf(s), rows[n].has)
          /\ subject[rows'[n].id] = own
      BY <2>4 DEF SubjectOf
    <3> HIDE DEF q, own
    <3>8. /\ One(subject, Flush(q.loaded, HasOf(s), rows[n].has), own)
          /\ Paired(Flush(q.loaded, HasOf(s), rows[n].has))
      BY <2>1, <2>2, <3>1, <3>2, <3>3, <3>4, <3>5, <3>6, FlushOne
    <3> QED BY <3>7, <3>8
  <2> QED BY <1>1, <1>2, <2>1, <2>3, <2>4, CommitCases
<1>3. CASE rows' = rows
  BY <1>1, <1>3
<1> QED BY <1>2, <1>3, TableSteps

\* A column of a row is emptied only of a task id, by a job of its subject.
LEMMA FilledOne ==
    ASSUME NEW subject, SubjectInv(subject), IInv, [Next]_vars,
           NEW n \in DOMAIN rows, NEW c \in Columns, rows[n].has[c] # Null
    PROVE  \/ rows'[n].has[c] # Null
           \/ c = "task_id" /\ Untasked(subject, SubjectOf(subject, n))
<1> SUFFICES ASSUME rows'[n].has[c] = Null
             PROVE  c = "task_id" /\ Untasked(subject, SubjectOf(subject, n))
  OBVIOUS
<1>1. PICK s \in Sessions : Commit(s)
  BY TableSteps
<1>2. session[s].row = n /\ c = "task_id" /\ Nameless(s)
  BY <1>1, FilledStays
<1>3. session[s].job \in Jobs /\ n # 0
  BY <1>2 DEF Nameless, IInv, TypeOK, SessionInv
<1>4. subject[session[s].job] = SubjectOf(subject, n)
  BY <1>2, <1>3 DEF SubjectInv, LoadedInv, Nameless
<1> QED BY <1>2, <1>3, <1>4 DEF Nameless, Untasked

\* What a request has loaded keeps its subject, whatever others commit.
LEMMA LoadedStep ==
    ASSUME NEW subject, OneSubjectEach(subject), SubjectInv(subject),
           IInv, RefusalInv, [Next]_vars, NEW t \in Sessions
    PROVE  LoadedInv(subject, t)'
<1>0. /\ rows \in Seq(Rows) /\ stored \subseteq Jobs
      /\ session[t].row \in Nat /\ session[t].row <= Len(rows)
  BY DEF IInv, TypeOK, SessionStates
<1>1. CASE session'[t] = session[t]
  <2> DEFINE q == session[t]
  <2> SUFFICES ASSUME q.at \in {"observe", "record"}, q.row # 0
               PROVE  LoadedInv(subject, t)'
    BY <1>1 DEF LoadedInv, SubjectInv
  <2>1. q.row \in DOMAIN rows
    BY <1>0
  <2>2. rows'[q.row].id = rows[q.row].id
    <3>1. ASSUME NEW s \in Sessions, Commit(s)
          PROVE  rows'[q.row].id = rows[q.row].id
      <4>1. TypeOK /\ SessionInv(s)
        BY DEF IInv
      <4> QED BY <2>1, <3>1, <4>1, CommitCases
    <3> QED BY <3>1, TableSteps
  <2>3. \A c \in Columns : q.loaded[c] # Null =>
           \/ rows'[q.row].has[c] # Null
           \/ c = "task_id" /\ Untasked(subject, SubjectOf(subject, q.row))
    BY <2>1, FilledOne DEF LoadedInv, SubjectInv
  <2> QED BY <1>1, <2>2, <2>3 DEF LoadedInv, SubjectInv, SubjectOf
<1>2. CASE session'[t].at \in {"idle", "ingest", "dispatch"}
  BY <1>2 DEF LoadedInv
<1>3. ASSUME rows' = rows,
             NEW j, NEW o, NEW gives, NEW ns, NEW at, Load(t, j, o, gives, ns, at),
             \/ /\ at = "observe" /\ ns = FindExisting(o)
                /\ o \in Observations \/ \E i \in stored : o = Ingested(i)
             \/ /\ at = "record" /\ ns = ByResource(j[1], j[2]) /\ j \in stored
      PROVE  LoadedInv(subject, t)'
  <2> DEFINE q == session'[t]
  <2>1. ns \subseteq DOMAIN rows
    BY <1>3, Lookups
  <2>2. /\ q.at = at /\ q.job = j /\ q.said = o
        /\ \/ q.row = 0 /\ q.loaded = Blank
           \/ /\ q.row \in ns /\ q.row # 0
              /\ q.loaded = rows[q.row].has
    BY <1>3, <2>1, Loaded
  <2>3. CASE q.row = 0
    BY <2>2, <2>3 DEF LoadedInv
  <2>4. CASE q.row # 0
    <3>1. q.row \in ns /\ q.row \in DOMAIN rows
      BY <2>1, <2>2, <2>4
    <3>2. /\ One(subject, q.loaded, SubjectOf(subject, q.row))
          /\ Paired(q.loaded)
      BY <2>2, <2>4, <3>1 DEF SubjectInv
    <3>3. at = "observe" => One(subject, o, SubjectOf(subject, q.row))
      <4>1. CASE /\ ns = FindExisting(o)
                 /\ o \in Observations \/ \E i \in stored : o = Ingested(i)
        <5>1. One(subject, o, subject[CorrelationId(o)])
          BY <1>0, <4>1, SaidOne
        <5>2. SubjectOf(subject, q.row) = subject[CorrelationId(o)]
          BY <3>1, <4>1, <5>1, FoundOne
        <5> QED BY <5>1, <5>2
      <4> QED BY <1>3, <4>1
    <3>4. at = "record" =>
             /\ subject[j] = SubjectOf(subject, q.row)
             /\ q.loaded["resource_type"] = j[1]
             /\ q.loaded["resource_id"] = j[2]
      <4>1. CASE at = "record" /\ ns = ByResource(j[1], j[2]) /\ j \in stored
        <5>1. /\ q.loaded["resource_type"] = j[1]
              /\ q.loaded["resource_id"] = j[2]
          BY <2>2, <2>4, <3>1, <4>1 DEF ByResource, Newest, ListForResource
        <5>2. j = <<j[1], j[2]>> /\ j[2] # Null
          BY <1>0, <4>1, JobsAssumption, NullAssumption DEF Values
        <5>3. subject[j] = SubjectOf(subject, q.row)
          BY <3>2, <5>1, <5>2, OneByColumn
        <5> QED BY <5>1, <5>3
      <4> QED BY <1>3, <4>1
    <3>5. \A c \in Columns : q.loaded[c] # Null => rows'[q.row].has[c] # Null
      BY <1>3, <2>2, <2>4
    <3>6. SubjectOf(subject, q.row) = subject[rows'[q.row].id]
      BY <1>3 DEF SubjectOf
    <3> QED BY <2>2, <2>4, <3>2, <3>3, <3>4, <3>5, <3>6 DEF LoadedInv, SubjectOf
  <2> QED BY <2>3, <2>4
<1> QED BY <1>1, <1>2, <1>3, SessionSteps

\* Rows, and the copies that requests have of them, have one subject.
LEMMA SubjectInvariance ==
    ASSUME NEW subject, OneSubjectEach(subject)
    PROVE  Spec => []SubjectInv(subject)
<1>1. Init => SubjectInv(subject)
  BY DEF Init, SubjectInv, LoadedInv, IdleSession
<1>2. IInv /\ RefusalInv /\ SubjectInv(subject) /\ [Next]_vars
         => SubjectInv(subject)'
  BY RowsOne, LoadedStep DEF SubjectInv, SubjectOf
<1> QED BY <1>1, <1>2, Invariance, RefusalInvariance, PTL DEF Spec

\* A row of a job that is alone is found by the job's key as soon as it names
\* any resource, and names the job's task as soon as it names any.
LEMMA AloneOne ==
    ASSUME NEW subject, OneSubjectEach(subject), NEW j \in Jobs, Alone(j),
           NEW has \in Contents, One(subject, has, subject[j]), Paired(has)
    PROVE  /\ has["resource_id"] # Null =>
                 has["resource_type"] = j[1] /\ has["resource_id"] = j[2]
           /\ has["task_id"] # Null => has["task_id"] = Task[j]
<1>1. ASSUME has["resource_id"] # Null
      PROVE  has["resource_type"] = j[1] /\ has["resource_id"] = j[2]
  <2>1. <<has["resource_type"], has["resource_id"]>> \in Types \X Ids
    BY <1>1, ResourceType DEF Paired
  <2>2. subject[<<has["resource_type"], has["resource_id"]>>] = subject[j]
    BY <1>1, OneByColumn
  <2>3. <<has["resource_type"], has["resource_id"]>> = j
    BY <2>1, <2>2 DEF OneSubjectEach
  <2> QED BY <2>3
<1>2. ASSUME has["task_id"] # Null PROVE has["task_id"] = Task[j]
  <2>1. has["task_id"] \in Tags
    BY <1>2 DEF Contents, Kind, Columns
  <2>2. subject[<<"task", has["task_id"]>>] = subject[j]
    BY <1>2, OneByColumn
  <2> QED BY <2>1, <2>2 DEF OneSubjectEach
<1> QED BY <1>1, <1>2

\* No other job takes the task id from it.
LEMMA AloneTasked ==
    ASSUME NEW subject, OneSubjectEach(subject), NEW j \in Jobs, Alone(j),
           Task[j] # Null
    PROVE  ~Untasked(subject, subject[j])
BY JobsAssumption DEF OneSubjectEach, Untasked

\* Every row that was committed names the log group of the settings.
GroupInv ==
    LogGroup # Null =>
       \A n \in DOMAIN rows : rows[n].has["cloudwatch_log_group"] # Null

\* A job that is alone has a row that says so much of it.
TracedInv ==
    \A j \in traced : Alone(j) /\ Task[j] # Null =>
       \E n \in DOMAIN rows : /\ rows[n].has["resource_type"] = j[1]
                              /\ rows[n].has["resource_id"] = j[2]
                              /\ rows[n].has["task_id"] = Task[j]

\* A commit fills in the log group of the settings.
LEMMA GroupStep ==
    ASSUME IInv, GroupInv, [Next]_vars
    PROVE  GroupInv'
<1>1. CASE rows' = rows
  BY <1>1 DEF GroupInv
<1>2. ASSUME NEW s \in Sessions, Commit(s),
             session[s].at \in {"observe", "record"}, LogGroup # Null,
             NEW n \in DOMAIN rows'
      PROVE  rows'[n].has["cloudwatch_log_group"] # Null
  <2> DEFINE q == session[s]
             c == "cloudwatch_log_group"
  <2>1. /\ TypeOK /\ SessionInv(s) /\ q.loaded \in Contents
        /\ q.said \in Contents /\ stored \subseteq Jobs /\ c \in Columns
    BY DEF IInv, TypeOK, SessionStates, Columns
  <2>2. HasOf(s)[c] # Null
    <3>1. CASE q.at = "observe"
      <4>1. HasOf(s) = Applied(q.loaded, q.said)
        BY <3>1 DEF HasOf
      <4>2. Applied(q.loaded, q.said)[c] =
               IF q.said[c] \notin {Null, Zero} THEN q.said[c]
               ELSE IF q.loaded[c] = Null THEN LogGroup ELSE q.loaded[c]
        BY <2>1, AppliedColumns
      <4> QED BY <1>2, <4>1, <4>2
    <3>2. CASE q.at = "record"
      <4>1. PICK new \in BOOLEAN : HasOf(s) = Dispatched(q.loaded, q.job, new)
        BY <3>2 DEF HasOf
      <4>2. q.job \in Jobs
        BY <2>1, <3>2 DEF SessionInv
      <4>3. HasOf(s)[c] = IF q.loaded[c] = Null THEN LogGroup ELSE q.loaded[c]
        BY <2>1, <4>1, <4>2, DispatchedColumns
      <4> QED BY <1>2, <4>3
    <3> QED BY <1>2, <3>1, <3>2
  <2>3. ASSUME n \in DOMAIN rows,
               rows'[n].has = Flush(q.loaded, HasOf(s), rows[n].has)
        PROVE  rows'[n].has[c] # Null
    BY <1>2, <2>1, <2>2, <2>3 DEF Flush, GroupInv
  <2>4. \/ n \in DOMAIN rows /\ rows'[n] = rows[n]
        \/ rows'[n].has = HasOf(s)
        \/ /\ n \in DOMAIN rows
           /\ rows'[n].has = Flush(q.loaded, HasOf(s), rows[n].has)
    BY <1>2, <2>1, CommitCases DEF IInv, TypeOK
  <2> QED BY <1>2, <2>2, <2>3, <2>4 DEF GroupInv
<1> QED BY <1>1, <1>2, TableSteps DEF GroupInv

\* No commit takes from a job that is alone what its row says of it.
LEMMA TracedStep ==
    ASSUME NEW subject, OneSubjectEach(subject), SubjectInv(subject),
           SubjectInv(subject)', IInv, IInv', RefusalInv, TracedInv,
           [Next]_vars
    PROVE  TracedInv'
<1> DEFINE Says(has, j) == /\ has["resource_type"] = j[1]
                           /\ has["resource_id"] = j[2]
                           /\ has["task_id"] = Task[j]
<1>1. /\ traced \subseteq Jobs /\ rows \in Seq(Rows) /\ rows' \in Seq(Rows)
  BY DEF IInv, TypeOK
<1>2. ASSUME NEW j \in Jobs, Alone(j), NEW n \in DOMAIN rows',
             subject[rows'[n].id] = subject[j],
             rows'[n].has["resource_id"] # Null,
             rows'[n].has["task_id"] # Null
      PROVE  Says(rows'[n].has, j)
  <2>1. rows'[n].has \in Contents
    <3>1. rows'[n] \in Rows
      BY <1>1
    <3> QED BY <3>1 DEF Rows
  <2>2. One(subject, rows'[n].has, subject[j]) /\ Paired(rows'[n].has)
    BY <1>2 DEF SubjectInv, SubjectOf
  <2> QED BY <1>2, <2>1, <2>2, AloneOne
<1>3. ASSUME NEW j \in traced, Alone(j), Task[j] # Null
      PROVE  \E n \in DOMAIN rows' : Says(rows'[n].has, j)
  <2>1. PICK n \in DOMAIN rows : Says(rows[n].has, j)
    BY <1>3 DEF TracedInv
  <2>2. j = <<j[1], j[2]>> /\ j[2] # Null
    BY <1>1, JobsAssumption, NullAssumption DEF Values
  <2>3. n \in DOMAIN rows' /\ rows'[n].id = rows[n].id
    <3>1. ASSUME NEW s \in Sessions, Commit(s)
          PROVE  n \in DOMAIN rows' /\ rows'[n].id = rows[n].id
      <4>1. TypeOK /\ SessionInv(s)
        BY DEF IInv
      <4> QED BY <1>1, <3>1, <4>1, CommitCases
    <3> QED BY <3>1, TableSteps
  <2>4. subject[rows[n].id] = subject[j]
    <3>1. One(subject, rows[n].has, subject[rows[n].id])
      BY DEF SubjectInv, SubjectOf
    <3> QED BY <2>1, <2>2, <3>1, OneByColumn
  <2>5. ~Untasked(subject, SubjectOf(subject, n))
    BY <1>1, <1>3, <2>4, AloneTasked DEF SubjectOf
  <2>6. rows'[n].has["resource_id"] # Null /\ rows'[n].has["task_id"] # Null
    BY <1>3, <2>1, <2>2, <2>5, FilledOne DEF Columns
  <2> QED BY <1>1, <1>2, <1>3, <2>3, <2>4, <2>6
<1>4. ASSUME NEW s \in Sessions, Commit(s), session[s].at = "record",
             Alone(session[s].job), Task[session[s].job] # Null
      PROVE  \E n \in DOMAIN rows' : Says(rows'[n].has, session[s].job)
  <2> DEFINE q == session[s]
             j == session[s].job
             d == HasOf(s)
  <2>1. /\ TypeOK /\ SessionInv(s) /\ q.loaded \in Contents /\ j \in Jobs
        /\ LoadedInv(subject, s)
    BY <1>4 DEF IInv, TypeOK, SessionStates, SessionInv, SubjectInv
  <2>2. j = <<j[1], j[2]>> /\ j[2] # Null
    BY <2>1, JobsAssumption, NullAssumption DEF Values
  <2>3. CASE q.row = 0 /\ Len(rows) + 1 \in DOMAIN rows'
             /\ rows'[Len(rows) + 1].has = d
    <3>1. PICK new \in BOOLEAN : new /\ d = Dispatched(q.loaded, j, new)
      BY <1>4, <2>3 DEF HasOf
    <3> HIDE DEF q, j, d
    <3>2. Says(d, j)
      BY <2>1, <3>1, DispatchedColumns
    <3> QED BY <2>3, <3>2 DEF j
  <2>4. CASE /\ q.row \in DOMAIN rows /\ DOMAIN rows' = DOMAIN rows
             /\ rows'[q.row].id = rows[q.row].id
             /\ rows'[q.row].has = Flush(q.loaded, d, rows[q.row].has)
    <3>1. q.row # 0
      BY <1>1, <2>4
    <3>2. /\ q.loaded["resource_id"] = j[2]
          /\ subject[rows[q.row].id] = subject[j]
          /\ ~Untasked(subject, SubjectOf(subject, q.row))
      BY <1>4, <2>1, <3>1, AloneTasked DEF LoadedInv, SubjectOf
    <3>3. \A c \in Columns : q.loaded[c] # Null => rows[q.row].has[c] # Null
      BY <1>4, <2>1, <3>1, <3>2 DEF LoadedInv
    <3>4. rows'[q.row].has["resource_id"] # Null
      BY <2>2, <2>4, <3>2, <3>3, FilledOne DEF Columns
    <3>5. rows'[q.row].has["task_id"] # Null
      <4>1. PICK new \in BOOLEAN : d = Dispatched(q.loaded, j, new)
        BY <1>4 DEF HasOf
      <4>2. d["task_id"] = Task[j]
        <5> HIDE DEF q, j, d
        <5> QED BY <2>1, <4>1, DispatchedColumns
      <4>3. rows'[q.row].has["task_id"] =
               IF d["task_id"] = q.loaded["task_id"]
               THEN rows[q.row].has["task_id"] ELSE d["task_id"]
        BY <2>4 DEF Flush, Columns
      <4> QED BY <1>4, <3>3, <4>2, <4>3 DEF Columns
    <3> HIDE DEF q, j
    <3> QED BY <1>2, <1>4, <2>1, <2>4, <3>2, <3>4, <3>5 DEF q, j
  <2>5. Len(rows) + 1 \in 1 .. Len(rows) + 1
    BY <1>1
  <2> QED BY <1>4, <2>1, <2>3, <2>4, <2>5, CommitCases
<1> HIDE DEF Says
<1>5. \A j \in traced' :
         Alone(j) /\ Task[j] # Null =>
            \E n \in DOMAIN rows' : Says(rows'[n].has, j)
  <2>1. CASE traced' = traced
    BY <1>3, <2>1
  <2>2. ASSUME NEW s \in Sessions, Commit(s), session[s].at = "record",
               traced' = traced \cup {session[s].job}
        PROVE  \A j \in traced' : Alone(j) /\ Task[j] # Null =>
                  \E n \in DOMAIN rows' : Says(rows'[n].has, j)
    BY <1>3, <1>4, <2>2
  <2> QED BY <2>1, <2>2, TableSteps
<1> QED BY <1>5 DEF TracedInv, Says

\* So the row of such a job is there to stay.
LEMMA TracedInvariance ==
    ASSUME NEW subject, OneSubjectEach(subject)
    PROVE  Spec => [](GroupInv /\ TracedInv)
<1>1. Init => GroupInv /\ TracedInv
  BY DEF Init, GroupInv, TracedInv
<1>2. IInv /\ IInv' /\ RefusalInv /\ SubjectInv(subject) /\ SubjectInv(subject)'
      /\ GroupInv /\ TracedInv /\ [Next]_vars => (GroupInv /\ TracedInv)'
  BY GroupStep, TracedStep
<1> QED BY <1>1, <1>2, Invariance, RefusalInvariance, SubjectInvariance, PTL
        DEF Spec

\* A row that names a task is searched for it.
LEMMA TaskIsSought ==
    ASSUME NEW row, row.has["task_id"] # Null
    PROVE  SearchToken(row) = row.has["task_id"]
<1> DEFINE ranked == <<"task_id", "request_id", "delivery_id",
                       "github_check_run_id">>
           filled == {k \in DOMAIN ranked : row.has[ranked[k]] # Null}
<1>1. DOMAIN ranked = 1 .. 4 /\ ranked[1] = "task_id"
  OBVIOUS
<1>2. 1 \in filled /\ filled \subseteq 1 .. 4
  BY <1>1
<1>3. SearchToken(row) =
         IF filled = {} THEN row.id
         ELSE row.has[ranked[CHOOSE k \in filled : \A m \in filled : k <= m]]
  BY DEF SearchToken
<1> HIDE DEF ranked, filled
<1>4. (CHOOSE k \in filled : \A m \in filled : k <= m) = 1
  <2> DEFINE first == CHOOSE k \in filled : \A m \in filled : k <= m
  <2>1. \A m \in 1 .. 4 : 1 <= m /\ (m <= 1 => m = 1)
    OBVIOUS
  <2>2. \E k \in filled : \A m \in filled : k <= m
    BY <1>2, <2>1, Zenon
  <2>3. first \in filled /\ \A m \in filled : first <= m
    BY <2>2, Zenon
  <2> HIDE DEF first
  <2>4. first = 1
    BY <1>2, <2>1, <2>3, Zenon
  <2> QED BY <2>4 DEF first
<1> QED BY <1>1, <1>2, <1>3, <1>4

\* A row of a job that is alone says all that is looked for under its key.
THEOREM LoneJobsAreTraced ==
    ASSUME NEW subject, OneSubjectEach(subject)
    PROVE  Spec => []LoneJobIsTraced
<1>1. IInv /\ GroupInv /\ TracedInv => LoneJobIsTraced
  <2> SUFFICES ASSUME IInv, GroupInv, TracedInv, NEW j \in traced, Alone(j),
                      Task[j] # Null
               PROVE  Found(j)
    BY DEF LoneJobIsTraced
  <2>1. PICK n \in DOMAIN rows : /\ rows[n].has["resource_type"] = j[1]
                                 /\ rows[n].has["resource_id"] = j[2]
                                 /\ rows[n].has["task_id"] = Task[j]
    BY DEF TracedInv
  <2> DEFINE row == rows[n]
             group == row.has["cloudwatch_log_group"]
  <2>2. n \in ListForResource(j[1], j[2])
    BY <2>1 DEF ListForResource
  <2>3. ASSUME LogGroup # Null, row.has["cloudwatch_log_stream"] = Null
        PROVE  Lookup(row.id) = [group |-> group, pattern |-> Task[j]]
    <3>1. ByCorrelationId(row.id) = {n}
      BY DEF ByCorrelationId, IInv, CorrelationIdsAreUnique
    <3>2. (CHOOSE m \in ByCorrelationId(row.id) : TRUE) = n
      BY <3>1
    <3>3. group # Null
      BY <2>3 DEF GroupInv
    <3>4. OrLogGroup(row.has)["cloudwatch_log_group"] = group
      <4>1. row.has \in Contents
        <5>1. row \in Rows
          BY DEF IInv, TypeOK
        <5> QED BY <5>1 DEF Rows
      <4> QED BY <3>3, <4>1 DEF OrLogGroup, Contents, Columns
    <3>5. SearchToken(row) = Task[j]
      BY <2>1, TaskIsSought
    <3> QED BY <2>3, <3>1, <3>2, <3>3, <3>4, <3>5 DEF Lookup, GetEvents
  <2> QED BY <2>1, <2>2, <2>3 DEF Found
<1> QED BY <1>1, Invariance, TracedInvariance, PTL
=============================================================================
