-------------------------- MODULE FlakyTriageProofs --------------------------
(***************************************************************************)
(* What holds of the triage for any tests, suites, keys, processes and     *)
(* workers, under every failure: clusters stay in their suite, a reuse is  *)
(* justified by the tokens, and the loop finds the best match.             *)
(* And what holds when nothing is done twice: the same answer leads a test *)
(* into the same cluster.                                                  *)
(***************************************************************************)
EXTENDS FlakyTriage, FiniteSetTheorems, SequenceTheorems, TLAPS

----------------------------------------------------------------------------
(* Similarities. *)

\* The two numbers that a similarity is made of.
LEMMA Numbers ==
    ASSUME NEW k \in AnyKey, NEW l \in AnyKey
    PROVE  /\ Common(k, l) \in Nat
           /\ All(k, l) \in Nat
           /\ Comparable(k, l) => All(k, l) > 0
<1>1. IsFiniteSet(Tokens[k]) /\ IsFiniteSet(Tokens[l])
  BY TokensAssumption DEF AnyKey
<1>2. IsFiniteSet(Tokens[k] \cap Tokens[l]) /\ IsFiniteSet(Tokens[k] \cup Tokens[l])
  BY <1>1, FS_Intersection, FS_Union
<1>3. Common(k, l) \in Nat /\ All(k, l) \in Nat
  BY <1>2, FS_CardinalityType DEF Common, All
<1>4. Comparable(k, l) => All(k, l) # 0
  BY <1>2, FS_EmptySet DEF Comparable, All
<1> QED BY <1>3, <1>4

\* A match shares half of the tokens at least, and is not the default.
LEMMA MatchesShareHalf ==
    ASSUME NEW c \in Keys, NEW k \in AnyKey,
           Reaches(c, k, 1, 2) \/ Reaches(c, k, 3, 5)
    PROVE  k \in Keys /\ 2 * Common(c, k) >= All(c, k) /\ All(c, k) > 0
<1>1. /\ Common(c, k) \in Nat
      /\ All(c, k) \in Nat
      /\ All(c, k) > 0
  BY Numbers DEF AnyKey, Reaches
<1>2. 2 * Common(c, k) >= All(c, k)
  BY <1>1 DEF Reaches
<1>3. k # Pending
  <2> SUFFICES ASSUME k = Pending PROVE FALSE
    OBVIOUS
  <2>1. Tokens[c] \cap Tokens[k] = {}
    BY TokensAssumption
  <2>2. Common(c, k) = 0
    BY <2>1, FS_EmptySet DEF Common
  <2> QED BY <1>1, <1>2, <2>2
<1> QED BY <1>1, <1>2, <1>3 DEF AnyKey

\* If b is as close as a, and c is closer than b, then c is closer than a.
\* A similarity is a number over a positive one.
LEMMA CloserThanAll ==
    ASSUME NEW a \in Nat, NEW b \in Nat, NEW c \in Nat,
           NEW x \in Nat, NEW y \in Nat, NEW z \in Nat,
           x > 0, y > 0, a * y <= b * x, c * y > b * z
    PROVE  c * x > a * z
<1>1. (a * y) * z <= (b * x) * z
  <2>1. \A p, q, r \in Nat : p <= q => p * r <= q * r
    OBVIOUS
  <2> QED BY <2>1
<1>2. (b * z) * x < (c * y) * x
  <2>1. \A p, q, r \in Nat : p < q /\ r > 0 => p * r < q * r
    OBVIOUS
  <2> QED BY <2>1
<1>3. y * (a * z) < y * (c * x)
  BY <1>1, <1>2
<1>4. ASSUME c * x <= a * z PROVE FALSE
  <2>1. \A p, q, r \in Nat : p <= q => r * p <= r * q
    OBVIOUS
  <2> QED BY <2>1, <1>3, <1>4
<1> QED BY <1>4

----------------------------------------------------------------------------
(* Steps go forwards. *)

\* Runs are added, keys are proposed, and no run loses its verdict or key.
Forward ==
    /\ proposed \subseteq proposed'
    /\ \A n \in DOMAIN runs :
          /\ n \in DOMAIN runs'
          /\ runs'[n].test = runs[n].test
          /\ runs[n].has.status # "queued" => runs'[n].has.status # "queued"
          /\ runs[n].has.key # Pending => runs'[n].has.key # Pending

\* What the model proposed for a suite stays proposed while the table only grows.
LEMMA ProposedForward ==
    ASSUME RowInv, Forward, NEW k, NEW suite, Proposed(k, suite)
    PROVE  Proposed(k, suite)'
BY DEF RowInv, Forward, Proposed

\* A key that fits a run goes on fitting it.
LEMMA FitsForward ==
    ASSUME RowInv, Forward, NEW n \in DOMAIN runs, NEW k, Fits(k, n)
    PROVE  Fits(k, n)'
<1>1. Proposed(k, Suite[runs[n].test])'
  <2>1. Proposed(k, Suite[runs[n].test])
    BY DEF Fits
  <2>2. runs'[n].test = runs[n].test
    BY DEF Forward
  <2> QED BY <2>1, <2>2 DEF RowInv, Forward, Proposed
<1>2. Justified(k, n)'
  BY DEF Fits, Forward, Justified
<1> QED BY <1>1, <1>2 DEF Fits

\* A session that does not move keeps what it knows.
LEMMA SessionForward ==
    ASSUME TypeOK, RowInv, Forward, NEW w \in Workers, worker'[w] = worker[w],
           SessionInv(w)
    PROVE  SessionInv(w)'
<1> DEFINE s == worker[w]
<1> SUFFICES ASSUME s.at # "idle" PROVE SessionInv(w)'
  BY DEF SessionInv
<1>1. s.run \in DOMAIN runs /\ s.run \in DOMAIN runs'
      /\ runs'[s.run].test = runs[s.run].test
  BY DEF SessionInv, Forward
<1>2. /\ s.loaded.status # "queued" => runs'[s.run].has.status # "queued"
      /\ s.loaded.key # Pending => runs'[s.run].has.key # Pending
      /\ s.loaded.status = "completed" => s.loaded.key # Pending
  BY <1>1 DEF SessionInv, Forward
<1>3. \A n \in DOMAIN s.held :
          /\ n \in DOMAIN runs'
          /\ Suite[runs'[n].test] = Suite[runs'[s.run].test]
          /\ s.held[n] # Pending =>
                Proposed(s.held[n], Suite[runs[s.run].test])'
  <2> SUFFICES ASSUME NEW n \in DOMAIN s.held
               PROVE  /\ n \in DOMAIN runs'
                      /\ Suite[runs'[n].test] = Suite[runs'[s.run].test]
                      /\ s.held[n] # Pending =>
                            Proposed(s.held[n], Suite[runs[s.run].test])'
    OBVIOUS
  <2>1. /\ n \in DOMAIN runs
        /\ Suite[runs[n].test] = Suite[runs[s.run].test]
        /\ s.held[n] # Pending => Proposed(s.held[n], Suite[runs[s.run].test])
    BY DEF SessionInv
  <2>2. n \in DOMAIN runs' /\ runs'[n].test = runs[n].test
    BY <2>1 DEF Forward
  <2>3. s.held[n] # Pending => Proposed(s.held[n], Suite[runs[s.run].test])'
    BY <2>1, <1>1 DEF RowInv, Forward, Proposed
  <2> QED BY <1>1, <2>1, <2>2, <2>3
<1>4. s.at \in {"test", "suite", "compare"} => <<s.run, s.key>> \in proposed'
  BY DEF SessionInv, Forward
<1>5. s.at = "save" => Fits(s.key, s.run)'
  <2>1. s.at = "save" => Fits(s.key, s.run)
    BY DEF SessionInv
  <2>2. \A k, n : n \in DOMAIN runs /\ Fits(k, n) => Fits(k, n)'
    BY FitsForward
  <2>3. worker'[w].key = s.key /\ worker'[w].run = s.run
    OBVIOUS
  <2> QED BY <2>1, <2>2, <2>3, <1>1 DEF Fits, Proposed, Justified
<1> QED BY <1>1, <1>2, <1>3, <1>4, <1>5 DEF SessionInv

\* The best match does not depend on anything but what the session holds.
LEMMA BestIsKept ==
    ASSUME NEW w \in Workers, NEW done, NEW best,
           done \subseteq DOMAIN worker[w].held,
           worker'[w].held = worker[w].held, worker'[w].key = worker[w].key,
           IsBest(w, done, best)
    PROVE  IsBest(w, done, best)'
<1>1. \A n \in done : Seen(w, n)' = Seen(w, n)
  BY DEF Seen
<1> QED BY <1>1 DEF IsBest

\* A worker that does not move keeps its place in the loop over candidates.
LEMMA LoopForward ==
    ASSUME NEW w \in Workers, worker'[w] = worker[w], LoopInv(w)
    PROVE  LoopInv(w)'
<1> SUFFICES ASSUME worker[w].at = "compare" PROVE LoopInv(w)'
  BY DEF LoopInv
<1>1. PICK done, best : done = worker[w].loop.listed \ worker[w].loop.todo
                        /\ best = worker[w].loop.best
  OBVIOUS
<1>2. done \subseteq DOMAIN worker[w].held /\ IsBest(w, done, best)
  BY <1>1 DEF LoopInv
<1>3. IsBest(w, done, best)'
  BY <1>2, BestIsKept
<1>4. IsBest(w, worker[w].loop.listed \ worker[w].loop.todo, worker[w].loop.best)'
  BY <1>1, <1>3 DEF IsBest
<1> QED BY <1>4 DEF LoopInv

\* A step of worker w leaves the others what they know.
LEMMA OthersForward ==
    ASSUME IInv, Forward, NEW w \in Workers,
           \A v \in Workers \ {w} : worker'[v] = worker[v],
           SessionInv(w)', LoopInv(w)'
    PROVE  \A v \in Workers : SessionInv(v)' /\ LoopInv(v)'
<1> SUFFICES ASSUME NEW v \in Workers \ {w}
             PROVE  SessionInv(v)' /\ LoopInv(v)'
  OBVIOUS
<1> QED BY SessionForward, LoopForward DEF IInv

\* Nobody moves.
LEMMA AllForward ==
    ASSUME IInv, Forward, UNCHANGED worker
    PROVE  \A v \in Workers : SessionInv(v)' /\ LoopInv(v)'
BY SessionForward, LoopForward DEF IInv

----------------------------------------------------------------------------
(* What writes the table. *)

\* Every stored run is a row, and its id is its place in the table.
LEMMA StoredRows ==
    ASSUME IInv
    PROVE  /\ runs \in Seq(Rows)
           /\ \A n \in DOMAIN runs :
                 /\ runs[n].test \in Tests
                 /\ runs[n].has \in Columns
                 /\ n \in Ids
<1>1. runs \in Seq(Rows) /\ Len(runs) <= MaxRuns
  BY DEF IInv, TypeOK, RowInv
<1>2. \A n \in DOMAIN runs : runs[n] \in Rows /\ n \in Ids
  BY <1>1, ElementOfSeq, BoundsAssumption DEF Ids
<1> QED BY <1>1, <1>2 DEF Rows

\* A commit that settles run n, or leaves its verdict, and loses no key.
LEMMA RowChange ==
    ASSUME IInv, NEW n \in DOMAIN runs, NEW has \in Columns,
           runs' = [runs EXCEPT ![n] = [test |-> runs[n].test, has |-> has]],
           UNCHANGED proposed,
           has.status # "queued",
           has.key # Pending => Fits(has.key, n),
           runs[n].has.key # Pending => has.key # Pending,
           has.status = "completed" => has.key # Pending
    PROVE  /\ runs' \in Seq(Rows)
           /\ DOMAIN runs' = DOMAIN runs
           /\ Forward
           /\ RowInv'
           /\ runs'[n].has = has
<1>1. runs \in Seq(Rows) /\ runs[n].test \in Tests
  BY StoredRows
<1>2. [test |-> runs[n].test, has |-> has] \in Rows
  BY <1>1 DEF Rows
<1>3. /\ runs' \in Seq(Rows)
      /\ DOMAIN runs' = DOMAIN runs
      /\ Len(runs') = Len(runs)
      /\ runs'[n] = [test |-> runs[n].test, has |-> has]
      /\ \A i \in DOMAIN runs : i # n => runs'[i] = runs[i]
  BY <1>1, <1>2, ExceptSeq
<1>4. Forward
  BY <1>3 DEF Forward
<1>5. \A i \in DOMAIN runs :
          runs'[i].has.key # Pending => Fits(runs[i].has.key, i)'
  <2> SUFFICES ASSUME NEW i \in DOMAIN runs, runs'[i].has.key # Pending
               PROVE  Fits(runs[i].has.key, i)'
    OBVIOUS
  <2>1. PICK k : k = runs'[i].has.key
    OBVIOUS
  <2>2. Fits(k, i)
    BY <1>3, <2>1 DEF IInv, RowInv
  <2>3. Fits(k, i)'
    BY <1>4, <2>2, FitsForward DEF IInv
  <2> QED BY <2>1, <2>3 DEF Fits, Proposed, Justified
<1>6. \A i \in DOMAIN runs :
          runs'[i].has.status = "completed" => runs'[i].has.key # Pending
  BY <1>3 DEF IInv, RowInv
<1>7. RowInv'
  BY <1>3, <1>5, <1>6 DEF IInv, RowInv
<1> QED BY <1>3, <1>4, <1>7

\* What a worker commits: a stale column is not written.
LEMMA Saved ==
    ASSUME IInv, NEW w \in Workers, worker[w].at # "idle",
           NEW has \in Columns, Save(w, has), UNCHANGED proposed,
           has.status # "queued",
           has.key # Pending /\ has.key # worker[w].loaded.key =>
               Fits(has.key, worker[w].run),
           has.key = Pending => worker[w].loaded.key = Pending,
           has.status = "completed" => has.key # Pending
    PROVE  /\ runs' \in Seq(Rows)
           /\ DOMAIN runs' = DOMAIN runs
           /\ Forward
           /\ RowInv'
           /\ runs'[worker[w].run].has =
                 Flush(worker[w].loaded, has, runs[worker[w].run].has)
<1> DEFINE n == worker[w].run
           s == worker[w]
           new == Flush(s.loaded, has, runs[n].has)
<1>1. /\ n \in DOMAIN runs
      /\ s.loaded.status # "queued" => runs[n].has.status # "queued"
      /\ s.loaded.key # Pending => runs[n].has.key # Pending
      /\ s.loaded.status = "completed" => s.loaded.key # Pending
  BY DEF IInv, SessionInv
<1>2. runs[n].has \in Columns
  BY <1>1, StoredRows
<1>3. /\ runs[n].has.key # Pending => Fits(runs[n].has.key, n)
      /\ runs[n].has.status = "completed" => runs[n].has.key # Pending
  BY <1>1 DEF IInv, RowInv
<1>4. /\ new \in Columns
      /\ new.status = (IF has.status = s.loaded.status
                       THEN runs[n].has.status ELSE has.status)
      /\ new.key = (IF has.key = s.loaded.key THEN runs[n].has.key ELSE has.key)
  BY <1>2 DEF Flush, Columns
<1>5. runs' = [runs EXCEPT ![n] = [test |-> runs[n].test, has |-> new]]
  BY DEF Save
<1> HIDE DEF new
<1>6. /\ new.status # "queued"
      /\ new.key # Pending => Fits(new.key, n)
      /\ runs[n].has.key # Pending => new.key # Pending
      /\ new.status = "completed" => new.key # Pending
  <2>1. new.status # "queued"
    BY <1>1, <1>4
  <2>2. new.key # Pending => Fits(new.key, n)
    BY <1>3, <1>4
  <2>3. runs[n].has.key # Pending => new.key # Pending
    BY <1>4
  <2>4. new.status = "completed" => new.key # Pending
    BY <1>1, <1>3, <1>4
  <2> QED BY <2>1, <2>2, <2>3, <2>4
<1>7. /\ runs' \in Seq(Rows)
      /\ DOMAIN runs' = DOMAIN runs
      /\ Forward
      /\ RowInv'
      /\ runs'[n].has = new
  BY <1>1, <1>4, <1>5, <1>6, RowChange
<1> QED BY <1>7 DEF new

----------------------------------------------------------------------------
(* The steps of requests and of the broker. *)

HandlerStates ==
    [at : {"idle", "ingest", "dispatch", "mark", "record"}, run : 0 .. MaxRuns]

\* A step that leaves the table and the workers alone.
LEMMA ElsewhereStep ==
    ASSUME IInv, UNCHANGED <<runs, worker, proposed>>,
           handler' \in [Threads -> HandlerStates],
           broker' \in [Ids -> Nat], copies' \in [Ids -> Nat], StoredInv'
    PROVE  IInv'
<1>1. Forward
  BY DEF Forward
<1>2. TypeOK'
  BY DEF IInv, TypeOK, HandlerStates
<1>3. RowInv'
  BY DEF IInv, RowInv, Fits, Proposed, Justified
<1>4. \A w \in Workers : SessionInv(w)' /\ LoopInv(w)'
  BY <1>1, AllForward
<1> QED BY <1>2, <1>3, <1>4 DEF IInv

\* Publishing a message of a stored run keeps the broker typed and of stored runs.
LEMMA Published ==
    ASSUME IInv, NEW n \in DOMAIN runs, Publish(n)
    PROVE  /\ broker' \in [Ids -> Nat] /\ copies' \in [Ids -> Nat]
           /\ \A i \in Ids : broker'[i] > 0 => i \in DOMAIN runs
<1>1. n \in Ids
  BY StoredRows
<1>2. broker \in [Ids -> Nat] /\ copies \in [Ids -> Nat]
  BY DEF IInv, TypeOK
<1>3. \A i \in Ids : broker[i] > 0 => i \in DOMAIN runs
  BY DEF IInv, StoredInv
<1> QED BY <1>1, <1>2, <1>3 DEF Publish

\* The steps of a request that leave the table alone keep the invariant.
LEMMA RequestPreserves ==
    ASSUME IInv, NEW h \in Threads,
           \/ RecordIngest(h) \/ Dispatch(h) \/ DispatchFails(h)
           \/ RecordDispatch(h) \/ RequestDies(h)
    PROVE  IInv'
<1>1. /\ handler \in [Threads -> HandlerStates]
      /\ broker \in [Ids -> Nat] /\ copies \in [Ids -> Nat]
  BY DEF IInv, TypeOK, HandlerStates
<1>2. \A g \in Threads : handler[g].at # "idle" => handler[g].run \in DOMAIN runs
  BY DEF IInv, StoredInv
<1>3. \A i \in Ids : broker[i] > 0 => i \in DOMAIN runs
  BY DEF IInv, StoredInv
<1>4. UNCHANGED <<runs, worker, proposed>>
  BY DEF RecordIngest, Dispatch, DispatchFails, RecordDispatch, RequestDies
<1>5. handler[h].at # "idle" /\ handler[h].run \in DOMAIN runs
  BY <1>2 DEF RecordIngest, Dispatch, DispatchFails, RecordDispatch, RequestDies
<1>6. \/ EndRequest(h)
      \/ \E at \in {"dispatch", "record", "mark"} : Step(h, at)
  BY DEF RecordIngest, Dispatch, DispatchFails, RecordDispatch, RequestDies
<1>7. /\ handler' \in [Threads -> HandlerStates]
      /\ \A g \in Threads : handler'[g].at # "idle" => handler'[g].run \in DOMAIN runs
  <2>1. CASE EndRequest(h)
    <3>1. IdleHandler \in HandlerStates
      BY BoundsAssumption DEF IdleHandler, HandlerStates
    <3> QED BY <1>1, <1>2, <2>1, <3>1 DEF EndRequest, IdleHandler
  <2>2. ASSUME NEW at \in {"dispatch", "record", "mark"}, Step(h, at)
        PROVE  /\ handler' \in [Threads -> HandlerStates]
               /\ \A g \in Threads :
                     handler'[g].at # "idle" => handler'[g].run \in DOMAIN runs
    <3>1. handler' = [handler EXCEPT ![h] = [at |-> at, run |-> handler[h].run]]
      <4>1. \A s \in HandlerStates : [s EXCEPT !.at = at] = [at |-> at, run |-> s.run]
        BY DEF HandlerStates
      <4>2. handler' = [handler EXCEPT ![h] = [handler[h] EXCEPT !.at = at]]
        BY <2>2 DEF Step
      <4> QED BY <1>1, <4>1, <4>2
    <3>2. [at |-> at, run |-> handler[h].run] \in HandlerStates
      BY <1>1 DEF HandlerStates
    <3> QED BY <1>1, <1>2, <1>5, <3>1, <3>2
  <2> QED BY <1>6, <2>1, <2>2
<1>8. UNCHANGED <<broker, copies>> \/ Publish(handler[h].run)
  BY DEF RecordIngest, Dispatch, DispatchFails, RecordDispatch, RequestDies
<1>9. /\ broker' \in [Ids -> Nat] /\ copies' \in [Ids -> Nat]
      /\ \A i \in Ids : broker'[i] > 0 => i \in DOMAIN runs
  BY <1>1, <1>3, <1>5, <1>8, Published
<1>10. StoredInv'
  BY <1>4, <1>7, <1>9 DEF StoredInv
<1> QED BY <1>4, <1>7, <1>9, <1>10, ElsewhereStep

\* A second delivery of a message keeps the invariant.
LEMMA RedeliverPreserves ==
    ASSUME IInv, NEW n \in Ids, Redeliver(n)
    PROVE  IInv'
<1>1. n \in DOMAIN runs
  BY DEF Redeliver, IInv, StoredInv
<1>2. handler \in [Threads -> HandlerStates]
  BY DEF IInv, TypeOK, HandlerStates
<1>3. /\ broker' \in [Ids -> Nat] /\ copies' \in [Ids -> Nat]
      /\ \A i \in Ids : broker'[i] > 0 => i \in DOMAIN runs
  BY <1>1, Published DEF Redeliver
<1>4. StoredInv'
  BY <1>3 DEF Redeliver, IInv, StoredInv
<1> QED BY <1>2, <1>3, <1>4, ElsewhereStep DEF Redeliver

\* A step that ends with these tables, and moves no worker.
LEMMA TablesStep ==
    ASSUME IInv, Forward, RowInv', runs' \in Seq(Rows),
           UNCHANGED <<broker, copies, worker, proposed>>,
           handler' \in [Threads -> HandlerStates],
           \A g \in Threads : handler'[g].at # "idle" => handler'[g].run \in DOMAIN runs'
    PROVE  IInv'
<1>1. TypeOK'
  BY DEF IInv, TypeOK, HandlerStates
<1>2. StoredInv'
  BY DEF IInv, StoredInv, Forward
<1>3. \A w \in Workers : SessionInv(w)' /\ LoopInv(w)'
  BY AllForward
<1> QED BY <1>1, <1>2, <1>3 DEF IInv

\* Storing a run keeps the invariant: the new row is the last and has no analysis.
LEMMA CreateRunPreserves ==
    ASSUME IInv, NEW h \in Threads, NEW t \in Tests, CreateRun(h, t)
    PROVE  IInv'
<1> DEFINE row == [test |-> t, has |-> Fresh]
<1>1. runs \in Seq(Rows) /\ Len(runs) < MaxRuns
  BY DEF IInv, TypeOK, CreateRun
<1>2. Fresh \in Columns /\ row \in Rows
  BY DEF Fresh, Columns, AnyKey, Rows
<1>3. /\ runs' \in Seq(Rows)
      /\ Len(runs') = Len(runs) + 1
      /\ runs'[Len(runs) + 1] = row
      /\ \A n \in DOMAIN runs : runs'[n] = runs[n]
      /\ DOMAIN runs' = DOMAIN runs \cup {Len(runs) + 1}
  BY <1>1, <1>2, AppendProperties DEF CreateRun
<1>4. Forward
  BY <1>3 DEF Forward, CreateRun
<1>5. RowInv'
  <2>1. \A n \in DOMAIN runs : runs'[n].has.key # Pending => Fits(runs[n].has.key, n)'
    <3> SUFFICES ASSUME NEW n \in DOMAIN runs, runs'[n].has.key # Pending
                 PROVE  Fits(runs[n].has.key, n)'
      OBVIOUS
    <3>1. PICK k : k = runs'[n].has.key
      OBVIOUS
    <3>2. Fits(k, n)
      BY <1>3, <3>1 DEF IInv, RowInv
    <3>3. Fits(k, n)'
      BY <1>4, <3>2, FitsForward DEF IInv
    <3> QED BY <3>1, <3>3 DEF Fits, Proposed, Justified
  <2>2. runs'[Len(runs) + 1].has = Fresh
    BY <1>3
  <2>3. \A p \in proposed' : p[1] \in DOMAIN runs'
    BY <1>3 DEF IInv, RowInv, CreateRun
  <2>4. Len(runs') <= MaxRuns
    BY <1>1, <1>3, BoundsAssumption
  <2>5. \A n \in DOMAIN runs' :
          runs'[n].has.status = "completed" => runs'[n].has.key # Pending
    BY <1>3, <2>2 DEF IInv, RowInv, Fresh
  <2> QED BY <1>3, <2>1, <2>2, <2>3, <2>4, <2>5 DEF RowInv, Fresh
<1>6. /\ handler' \in [Threads -> HandlerStates]
      /\ \A g \in Threads : handler'[g].at # "idle" => handler'[g].run \in DOMAIN runs'
  <2>1. handler \in [Threads -> HandlerStates]
    BY DEF IInv, TypeOK, HandlerStates
  <2>2. [at |-> "ingest", run |-> Len(runs) + 1] \in HandlerStates
    BY <1>1, BoundsAssumption DEF HandlerStates
  <2> QED BY <1>3, <2>1, <2>2 DEF CreateRun, IInv, StoredInv
<1> QED BY <1>3, <1>4, <1>5, <1>6, TablesStep DEF CreateRun

\* Marking a run whose dispatch failed keeps the invariant.
LEMMA MarkPreserves ==
    ASSUME IInv, NEW h \in Threads, MarkDispatchFailed(h)
    PROVE  IInv'
<1> DEFINE n == handler[h].run
           has == [status |-> "dispatch_failed", key |-> runs[n].has.key]
<1>1. n \in DOMAIN runs
  BY DEF MarkDispatchFailed, IInv, StoredInv
<1>2. runs[n].has \in Columns
  BY <1>1, StoredRows
<1>3. has \in Columns /\ [runs[n].has EXCEPT !.status = "dispatch_failed"] = has
  BY <1>2 DEF Columns, Verdicts
<1>4. runs' = [runs EXCEPT ![n] = [test |-> runs[n].test, has |-> has]]
  BY <1>3 DEF MarkDispatchFailed
<1>5. has.key # Pending => Fits(has.key, n)
  BY <1>1 DEF IInv, RowInv
<1>6. Forward /\ RowInv' /\ runs' \in Seq(Rows) /\ DOMAIN runs' = DOMAIN runs
  BY <1>1, <1>3, <1>4, <1>5, RowChange DEF MarkDispatchFailed
<1>7. /\ handler' \in [Threads -> HandlerStates]
      /\ \A g \in Threads : handler'[g].at # "idle" => handler'[g].run \in DOMAIN runs'
  <2>1. handler \in [Threads -> HandlerStates] /\ IdleHandler \in HandlerStates
    BY BoundsAssumption DEF IInv, TypeOK, HandlerStates, IdleHandler
  <2> QED BY <1>6, <2>1 DEF MarkDispatchFailed, EndRequest, IdleHandler, IInv, StoredInv
<1> QED BY <1>6, <1>7, TablesStep DEF MarkDispatchFailed

----------------------------------------------------------------------------
(* The steps of a worker that leave the table alone. *)

\* A worker that moves without writing the table, with its own state in order, keeps the invariant.
LEMMA MoveStep ==
    ASSUME IInv, NEW w \in Workers, NEW s \in Sessions,
           worker' = [worker EXCEPT ![w] = s],
           UNCHANGED <<runs, handler, copies>>,
           proposed \subseteq proposed', proposed' \subseteq Ids \X Keys,
           \A p \in proposed' : p[1] \in DOMAIN runs,
           broker' \in [Ids -> Nat],
           \A i \in Ids : broker'[i] > 0 => i \in DOMAIN runs,
           SessionInv(w)', LoopInv(w)'
    PROVE  IInv'
<1>1. worker \in [Workers -> Sessions]
  BY DEF IInv, TypeOK
<1>2. Forward
  BY DEF Forward
<1>3. TypeOK'
  BY <1>1 DEF IInv, TypeOK
<1>4. RowInv'
  <2>1. \A n \in DOMAIN runs : runs[n].has.key # Pending => Fits(runs[n].has.key, n)'
    <3> SUFFICES ASSUME NEW n \in DOMAIN runs, runs[n].has.key # Pending
                 PROVE  Fits(runs[n].has.key, n)'
      OBVIOUS
    <3>1. PICK k : k = runs[n].has.key
      OBVIOUS
    <3>2. Fits(k, n)
      BY <3>1 DEF IInv, RowInv
    <3>3. Fits(k, n)'
      BY <1>2, <3>2, FitsForward DEF IInv
    <3> QED BY <3>1, <3>3 DEF Fits, Proposed, Justified
  <2> QED BY <2>1 DEF IInv, RowInv
<1>5. StoredInv'
  BY DEF IInv, StoredInv
<1>6. \A v \in Workers : SessionInv(v)' /\ LoopInv(v)'
  BY <1>1, <1>2, OthersForward
<1> QED BY <1>3, <1>4, <1>5, <1>6 DEF IInv

\* What is known of worker w, which is not idle.
LEMMA Working ==
    ASSUME IInv, NEW w \in Workers, worker[w].at # "idle"
    PROVE  /\ worker[w] \in Sessions
           /\ worker[w].run \in DOMAIN runs
           /\ TestOf(w) \in Tests
           /\ DOMAIN worker[w].held \subseteq DOMAIN runs
           /\ \A n \in DOMAIN worker[w].held :
                 /\ worker[w].held[n] \in AnyKey
                 /\ Suite[runs[n].test] = Suite[TestOf(w)]
                 /\ worker[w].held[n] # Pending =>
                       Proposed(worker[w].held[n], Suite[TestOf(w)])
<1>1. worker[w] \in Sessions
  BY DEF IInv, TypeOK
<1>2. PICK ns \in SUBSET Ids : worker[w].held \in [ns -> AnyKey]
  BY <1>1 DEF Sessions
<1>3. worker[w].run \in DOMAIN runs
  BY DEF IInv, SessionInv
<1>4. \A n \in DOMAIN worker[w].held :
          /\ n \in DOMAIN runs
          /\ Suite[runs[n].test] = Suite[runs[worker[w].run].test]
          /\ worker[w].held[n] # Pending =>
                Proposed(worker[w].held[n], Suite[runs[worker[w].run].test])
  BY DEF IInv, SessionInv
<1> QED BY <1>1, <1>2, <1>3, <1>4, StoredRows DEF TestOf

\* The history holds stored runs of the suite, with keys of the suite.
LEMMA Histories ==
    ASSUME IInv, NEW w \in Workers, worker[w].at # "idle",
           NEW n \in DOMAIN worker[w].held \cup SuiteHistory(w) \cup TestHistory(w)
    PROVE  /\ n \in DOMAIN runs
           /\ Suite[runs[n].test] = Suite[TestOf(w)]
           /\ Seen(w, n) \in AnyKey
           /\ Seen(w, n) # Pending => Proposed(Seen(w, n), Suite[TestOf(w)])
<1>1. n \in DOMAIN worker[w].held \/ n \in Clustered(Suite[TestOf(w)])
  BY DEF SuiteHistory, TestHistory, Newest
<1>2. CASE n \in DOMAIN worker[w].held
  BY <1>2, Working DEF Seen
<1>3. CASE n \in Clustered(Suite[TestOf(w)]) /\ n \notin DOMAIN worker[w].held
  <2>1. n \in DOMAIN runs /\ Suite[runs[n].test] = Suite[TestOf(w)]
    BY <1>3 DEF Clustered
  <2>2. runs[n].has.key \in AnyKey
    BY <2>1, StoredRows DEF Columns
  <2>3. runs[n].has.key # Pending => Proposed(runs[n].has.key, Suite[runs[n].test])
    BY <2>1 DEF IInv, RowInv, Fits
  <2> QED BY <1>3, <2>1, <2>2, <2>3 DEF Seen
<1> QED BY <1>1, <1>2, <1>3

\* What a session loads, and keeps of what it had loaded.
LEMMA Loaded ==
    ASSUME IInv, NEW w \in Workers, worker[w].at # "idle",
           NEW ns \in {SuiteHistory(w), TestHistory(w)}
    PROVE  /\ Load(w, ns) \in UNION {[ms -> AnyKey] : ms \in SUBSET Ids}
           /\ DOMAIN Load(w, ns) = DOMAIN worker[w].held \cup ns
           /\ \A n \in DOMAIN Load(w, ns) :
                 /\ n \in DOMAIN runs
                 /\ Suite[runs[n].test] = Suite[TestOf(w)]
                 /\ Load(w, ns)[n] = Seen(w, n)
                 /\ Load(w, ns)[n] # Pending =>
                       Proposed(Load(w, ns)[n], Suite[TestOf(w)])
<1> DEFINE ms == DOMAIN worker[w].held \cup ns
<1>1. \A n \in ms :
          /\ n \in DOMAIN runs
          /\ Suite[runs[n].test] = Suite[TestOf(w)]
          /\ Seen(w, n) \in AnyKey
          /\ Seen(w, n) # Pending => Proposed(Seen(w, n), Suite[TestOf(w)])
  BY Histories
<1>2. ms \subseteq Ids
  BY <1>1, StoredRows
<1>3. Load(w, ns) = [n \in ms |-> Seen(w, n)]
  BY DEF Load
<1> HIDE DEF ms
<1>4. Load(w, ns) \in [ms -> AnyKey]
  BY <1>1, <1>3
<1> QED BY <1>1, <1>2, <1>3, <1>4 DEF ms

\* The broker is left alone.
LEMMA BrokerKept ==
    ASSUME IInv, UNCHANGED broker
    PROVE  broker' \in [Ids -> Nat] /\ \A i \in Ids : broker'[i] > 0 => i \in DOMAIN runs
BY DEF IInv, TypeOK, StoredInv

\* Taking a message keeps the invariant.
LEMMA StartTaskPreserves ==
    ASSUME IInv, NEW w \in Workers, NEW n \in Ids, StartTask(w, n)
    PROVE  IInv'
<1> DEFINE held == [i \in {n} |-> runs[n].has.key]
           s == [at |-> "llm", run |-> n, loaded |-> runs[n].has, held |-> held,
                 key |-> Pending, loop |-> NoHistory]
<1>1. n \in DOMAIN runs
  BY DEF StartTask, IInv, StoredInv
<1>2. runs[n].has \in Columns /\ runs[n].has.key \in AnyKey
  BY <1>1, StoredRows DEF Columns
<1>3. held \in [{n} -> AnyKey] /\ held[n] = runs[n].has.key
  BY <1>2
<1>4. NoHistory \in [listed : SUBSET Ids, todo : SUBSET Ids, best : 0 .. MaxRuns]
  BY BoundsAssumption DEF NoHistory
<1>5. worker' = [worker EXCEPT ![w] = s]
  BY DEF StartTask
<1> HIDE DEF held
<1>6. s \in Sessions
  BY <1>2, <1>3, <1>4, BoundsAssumption DEF Sessions, AnyKey, Ids
<1>7. worker \in [Workers -> Sessions] /\ broker \in [Ids -> Nat]
      /\ proposed \subseteq Ids \X Keys
  BY DEF IInv, TypeOK
<1>8. /\ runs[n].has.status = "completed" => runs[n].has.key # Pending
      /\ runs[n].has.key # Pending => Proposed(runs[n].has.key, Suite[runs[n].test])
      /\ \A p \in proposed : p[1] \in DOMAIN runs
  BY <1>1 DEF IInv, RowInv, Fits
<1>9. worker'[w] = s
  BY <1>5, <1>7
<1>10. SessionInv(w)'
  BY <1>1, <1>3, <1>8, <1>9 DEF SessionInv, StartTask, Proposed
<1>11. LoopInv(w)'
  BY <1>9 DEF LoopInv
<1>12. /\ broker' \in [Ids -> Nat]
       /\ \A i \in Ids : broker'[i] > 0 => i \in DOMAIN runs
  BY <1>7 DEF StartTask, IInv, StoredInv
<1> QED BY <1>5, <1>6, <1>7, <1>8, <1>10, <1>11, <1>12, MoveStep DEF StartTask

\* A session's fields, one by one.
LEMMA Fields ==
    ASSUME NEW r \in Sessions, NEW a, NEW h, NEW k, NEW l
    PROVE  /\ [r EXCEPT !.at = a, !.key = k] =
                 [at |-> a, run |-> r.run, loaded |-> r.loaded,
                  held |-> r.held, key |-> k, loop |-> r.loop]
           /\ [r EXCEPT !.at = a, !.held = h] =
                 [at |-> a, run |-> r.run, loaded |-> r.loaded,
                  held |-> h, key |-> r.key, loop |-> r.loop]
           /\ [r EXCEPT !.loop = l] =
                 [at |-> r.at, run |-> r.run, loaded |-> r.loaded,
                  held |-> r.held, key |-> r.key, loop |-> l]
<1> DEFINE q == [at |-> a, run |-> r.run, loaded |-> r.loaded, held |-> r.held,
                 key |-> r.key, loop |-> r.loop]
<1>1. [r EXCEPT !.at = a] = q
  BY DEF Sessions
<1>2. [r EXCEPT !.at = a, !.key = k] = [[r EXCEPT !.at = a] EXCEPT !.key = k]
  BY DEF Sessions
<1>3. [r EXCEPT !.at = a, !.held = h] = [[r EXCEPT !.at = a] EXCEPT !.held = h]
  BY DEF Sessions
<1>4. [q EXCEPT !.key = k] =
        [at |-> a, run |-> r.run, loaded |-> r.loaded, held |-> r.held,
         key |-> k, loop |-> r.loop]
  OBVIOUS
<1>5. [q EXCEPT !.held = h] =
        [at |-> a, run |-> r.run, loaded |-> r.loaded, held |-> h,
         key |-> r.key, loop |-> r.loop]
  OBVIOUS
<1>6. [r EXCEPT !.loop = l] =
        [at |-> r.at, run |-> r.run, loaded |-> r.loaded, held |-> r.held,
         key |-> r.key, loop |-> l]
  BY DEF Sessions
<1> HIDE DEF q
<1> QED BY <1>1, <1>2, <1>3, <1>4, <1>5, <1>6

\* A session with three fields replaced, written field by field.
LEMMA FieldsSettled ==
    ASSUME NEW r \in Sessions, NEW a, NEW k, NEW l
    PROVE  [r EXCEPT !.at = a, !.key = k, !.loop = l] =
              [at |-> a, run |-> r.run, loaded |-> r.loaded,
               held |-> r.held, key |-> k, loop |-> l]
<1>1. [r EXCEPT !.at = a, !.key = k, !.loop = l] =
        [[r EXCEPT !.at = a, !.key = k] EXCEPT !.loop = l]
  BY DEF Sessions
<1> DEFINE q == [at |-> a, run |-> r.run, loaded |-> r.loaded, held |-> r.held,
                 key |-> k, loop |-> r.loop]
<1>2. [r EXCEPT !.at = a, !.key = k] = q
  BY Fields
<1>3. [q EXCEPT !.loop = l] =
        [at |-> a, run |-> r.run, loaded |-> r.loaded, held |-> r.held,
         key |-> k, loop |-> l]
  OBVIOUS
<1> HIDE DEF q
<1> QED BY <1>1, <1>2, <1>3

\* The same for the fields that a search replaces.
LEMMA FieldsListed ==
    ASSUME NEW r \in Sessions, NEW a, NEW h, NEW l
    PROVE  [r EXCEPT !.at = a, !.held = h, !.loop = l] =
              [at |-> a, run |-> r.run, loaded |-> r.loaded,
               held |-> h, key |-> r.key, loop |-> l]
<1>1. [r EXCEPT !.at = a, !.held = h, !.loop = l] =
        [[r EXCEPT !.at = a, !.held = h] EXCEPT !.loop = l]
  BY DEF Sessions
<1> DEFINE q == [at |-> a, run |-> r.run, loaded |-> r.loaded, held |-> h,
                 key |-> r.key, loop |-> r.loop]
<1>2. [r EXCEPT !.at = a, !.held = h] = q
  BY Fields
<1>3. [q EXCEPT !.loop = l] =
        [at |-> a, run |-> r.run, loaded |-> r.loaded, held |-> h,
         key |-> r.key, loop |-> l]
  OBVIOUS
<1> HIDE DEF q
<1> QED BY <1>1, <1>2, <1>3

\* A session moves on: it keeps its run, and what it has is accounted for.
LEMMA SessionMoves ==
    ASSUME IInv, NEW w \in Workers, worker[w].at # "idle",
           NEW s \in Sessions, worker'[w] = s,
           UNCHANGED runs, proposed \subseteq proposed',
           s.run = worker[w].run, s.loaded = worker[w].loaded,
           \A n \in DOMAIN s.held :
               /\ n \in DOMAIN runs
               /\ Suite[runs[n].test] = Suite[TestOf(w)]
               /\ s.held[n] # Pending => Proposed(s.held[n], Suite[TestOf(w)]),
           s.at \in {"test", "suite", "compare"} => <<s.run, s.key>> \in proposed',
           s.at = "save" => \/ s.key \in Keys /\ <<s.run, s.key>> \in proposed'
                            \/ Fits(s.key, s.run)
    PROVE  SessionInv(w)'
<1>1. /\ s.run \in DOMAIN runs
      /\ s.loaded.status # "queued" => runs[s.run].has.status # "queued"
      /\ s.loaded.key # Pending => runs[s.run].has.key # Pending
      /\ s.loaded.status = "completed" => s.loaded.key # Pending
  BY DEF IInv, SessionInv
<1>2. \A n \in DOMAIN s.held : s.held[n] # Pending =>
          \E p \in proposed' : p[2] = s.held[n] /\ Suite[runs[p[1]].test] = Suite[runs[s.run].test]
  BY DEF Proposed, TestOf
<1>3. s.at = "save" =>
          /\ s.key \in Keys
          /\ \E p \in proposed' : p[2] = s.key /\ Suite[runs[p[1]].test] = Suite[runs[s.run].test]
          /\ \E p \in proposed' : p[1] = s.run
                /\ (s.key = p[2] \/ 2 * Common(p[2], s.key) >= All(p[2], s.key))
  <2>1. CASE s.key \in Keys /\ <<s.run, s.key>> \in proposed'
    BY <2>1
  <2>2. CASE Fits(s.key, s.run)
    BY <2>2 DEF Fits, Proposed, Justified
  <2> QED BY <2>1, <2>2
<1> QED BY <1>1, <1>2, <1>3 DEF SessionInv, Fits, Proposed, Justified, TestOf

\* The candidate of the search.
LEMMA ProposePreserves ==
    ASSUME IInv, NEW w \in Workers, NEW said \in Keys \cup {Placeholder},
           Propose(w, said)
    PROVE  IInv'
<1> DEFINE key == Canonical(TestOf(w), said)
           at == IF Tokens[key] = {} THEN "save" ELSE "test"
           old == worker[w]
           s == [at |-> at, run |-> old.run, loaded |-> old.loaded,
                 held |-> old.held, key |-> key, loop |-> old.loop]
<1>1. /\ old \in Sessions
      /\ old.at # "idle"
      /\ old.run \in DOMAIN runs
      /\ TestOf(w) \in Tests
      /\ \A n \in DOMAIN old.held :
            /\ n \in DOMAIN runs
            /\ Suite[runs[n].test] = Suite[TestOf(w)]
            /\ old.held[n] # Pending => Proposed(old.held[n], Suite[TestOf(w)])
  BY Working DEF Propose
<1>2. key \in Keys
  BY <1>1, NameKeyAssumption DEF Canonical
<1>3. /\ worker' = [worker EXCEPT ![w] = [old EXCEPT !.at = at, !.key = key]]
      /\ proposed' = proposed \cup {<<old.run, key>>}
      /\ UNCHANGED <<runs, handler, broker, copies>>
  BY DEF Propose
<1>4. at \in {"save", "test"}
  OBVIOUS
<1> HIDE DEF key, at
<1>5. s \in Sessions
  BY <1>1, <1>2, <1>4 DEF Sessions, AnyKey
<1>6. worker' = [worker EXCEPT ![w] = s]
  <2>1. [old EXCEPT !.at = at, !.key = key] = s
    BY <1>1, Fields
  <2> QED BY <1>3, <2>1
<1>7. /\ worker \in [Workers -> Sessions]
      /\ proposed \subseteq Ids \X Keys
      /\ \A p \in proposed : p[1] \in DOMAIN runs
  BY DEF IInv, TypeOK, RowInv
<1>8. worker'[w] = s
  BY <1>6, <1>7
<1>9. old.run \in Ids
  BY <1>1, StoredRows
<1>10. SessionInv(w)'
  BY <1>1, <1>2, <1>3, <1>5, <1>8, SessionMoves
<1>11. LoopInv(w)'
  BY <1>4, <1>8 DEF LoopInv
<1>12. /\ proposed' \subseteq Ids \X Keys
       /\ \A p \in proposed' : p[1] \in DOMAIN runs
  BY <1>1, <1>2, <1>3, <1>7, <1>9
<1> QED BY <1>3, <1>5, <1>6, <1>10, <1>11, <1>12, BrokerKept, MoveStep

\* A search ends with a key that fits the run.
LEMMA SettlePreserves ==
    ASSUME IInv, NEW w \in Workers, worker[w].at \in {"test", "compare"},
           NEW key \in Keys,
           worker' = [worker EXCEPT ![w] = [worker[w] EXCEPT
                        !.at = "save", !.key = key, !.loop = NoHistory]],
           UNCHANGED <<runs, handler, broker, copies, proposed>>,
           key # Pending => Proposed(key, Suite[TestOf(w)]),
           2 * Common(worker[w].key, key) >= All(worker[w].key, key)
             \/ key = worker[w].key
    PROVE  IInv'
<1> DEFINE old == worker[w]
           s == [at |-> "save", run |-> old.run, loaded |-> old.loaded,
                 held |-> old.held, key |-> key, loop |-> NoHistory]
<1>1. /\ old \in Sessions
      /\ old.at # "idle"
      /\ old.run \in DOMAIN runs
      /\ \A n \in DOMAIN old.held :
            /\ n \in DOMAIN runs
            /\ Suite[runs[n].test] = Suite[TestOf(w)]
            /\ old.held[n] # Pending => Proposed(old.held[n], Suite[TestOf(w)])
  BY Working
<1>2. <<old.run, old.key>> \in proposed
  BY <1>1 DEF IInv, SessionInv
<1>3. /\ worker \in [Workers -> Sessions]
      /\ proposed \subseteq Ids \X Keys
      /\ \A p \in proposed : p[1] \in DOMAIN runs
  BY DEF IInv, TypeOK, RowInv
<1>4. NoHistory \in [listed : SUBSET Ids, todo : SUBSET Ids, best : 0 .. MaxRuns]
  BY BoundsAssumption DEF NoHistory
<1>5. s \in Sessions
  BY <1>1, <1>4 DEF Sessions, AnyKey
<1>6. worker' = [worker EXCEPT ![w] = s]
  <2>1. old \in Sessions
    BY <1>1
  <2>2. [old EXCEPT !.at = "save", !.key = key, !.loop = NoHistory] = s
    BY <2>1, FieldsSettled
  <2> QED BY <2>2
<1>7. worker'[w] = s
  BY <1>3, <1>6
<1>8. Fits(s.key, s.run)
  BY <1>2, KeysAssumption DEF Fits, Justified, TestOf
<1>9. SessionInv(w)'
  BY <1>1, <1>5, <1>7, <1>8, SessionMoves
<1>10. LoopInv(w)'
  BY <1>7 DEF LoopInv
<1> QED BY <1>3, <1>5, <1>6, <1>9, <1>10, BrokerKept, MoveStep

\* Reading the earlier runs of the test keeps the invariant.
LEMMA SearchTestPreserves ==
    ASSUME IInv, NEW w \in Workers, SearchTest(w)
    PROVE  IInv'
<1> DEFINE old == worker[w]
<1>1. /\ old \in Sessions
      /\ old.at = "test"
      /\ old.run \in DOMAIN runs
      /\ \A n \in DOMAIN old.held :
            /\ n \in DOMAIN runs
            /\ Suite[runs[n].test] = Suite[TestOf(w)]
            /\ old.held[n] # Pending => Proposed(old.held[n], Suite[TestOf(w)])
  BY Working DEF SearchTest
<1>2. <<old.run, old.key>> \in proposed
  BY <1>1 DEF IInv, SessionInv
<1>3. /\ worker \in [Workers -> Sessions]
      /\ proposed \subseteq Ids \X Keys
      /\ \A p \in proposed : p[1] \in DOMAIN runs
  BY DEF IInv, TypeOK, RowInv
<1>4. old.key \in Keys
  BY <1>2, <1>3
<1>5. UNCHANGED <<runs, handler, broker, copies, proposed>>
  BY DEF SearchTest
<1>6. CASE \E n \in MatchOfTest(w) : Settle(w, Seen(w, n))
  <2>1. PICK n \in MatchOfTest(w) : Settle(w, Seen(w, n))
    BY <1>6
  <2>2. n \in TestHistory(w) /\ Reaches(old.key, Seen(w, n), 1, 2)
    BY DEF MatchOfTest
  <2> DEFINE key == Seen(w, n)
  <2>3. key \in AnyKey /\ (key # Pending => Proposed(key, Suite[TestOf(w)]))
    BY <1>1, <2>2, Histories
  <2>4. key \in Keys /\ 2 * Common(old.key, key) >= All(old.key, key)
    BY <1>4, <2>2, <2>3, MatchesShareHalf
  <2>5. worker' = [worker EXCEPT ![w] = [old EXCEPT !.at = "save", !.key = key,
                                                    !.loop = NoHistory]]
    BY <2>1 DEF Settle
  <2> HIDE DEF key
  <2> QED BY <1>1, <1>2, <1>5, <2>3, <2>4, <2>5, SettlePreserves
<1>7. CASE worker' = [worker EXCEPT ![w] = [old EXCEPT
                        !.at = "suite", !.held = Load(w, TestHistory(w))]]
  <2> DEFINE held == Load(w, TestHistory(w))
             s == [at |-> "suite", run |-> old.run, loaded |-> old.loaded,
                   held |-> held, key |-> old.key, loop |-> old.loop]
  <2>1. /\ held \in UNION {[ms -> AnyKey] : ms \in SUBSET Ids}
        /\ \A n \in DOMAIN held :
              /\ n \in DOMAIN runs
              /\ Suite[runs[n].test] = Suite[TestOf(w)]
              /\ held[n] # Pending => Proposed(held[n], Suite[TestOf(w)])
    BY <1>1, Loaded
  <2> HIDE DEF held
  <2>2. worker' = [worker EXCEPT ![w] = s]
    <3>1. [old EXCEPT !.at = "suite", !.held = held] = s
      BY <1>1, Fields
    <3> QED BY <1>7, <3>1 DEF held
  <2>3. s \in Sessions
    BY <1>1, <2>1 DEF Sessions
  <2>4. worker'[w] = s
    BY <1>3, <2>2
  <2>5. SessionInv(w)'
    BY <1>1, <1>2, <1>5, <2>1, <2>3, <2>4, SessionMoves
  <2>6. LoopInv(w)'
    BY <2>4 DEF LoopInv
  <2> QED BY <1>3, <1>5, <2>2, <2>3, <2>5, <2>6, BrokerKept, MoveStep
<1> QED BY <1>6, <1>7 DEF SearchTest

\* Reading the earlier runs of the suite keeps it.
LEMMA SearchSuitePreserves ==
    ASSUME IInv, NEW w \in Workers, SearchSuite(w)
    PROVE  IInv'
<1> DEFINE old == worker[w]
           ns == SuiteHistory(w)
           held == Load(w, ns)
           loop == [listed |-> ns, todo |-> ns, best |-> 0]
           s == [at |-> "compare", run |-> old.run, loaded |-> old.loaded,
                 held |-> held, key |-> old.key, loop |-> loop]
<1>1. /\ old \in Sessions
      /\ old.at = "suite"
      /\ old.run \in DOMAIN runs
  BY Working DEF SearchSuite
<1>2. <<old.run, old.key>> \in proposed
  BY <1>1 DEF IInv, SessionInv
<1>3. /\ worker \in [Workers -> Sessions]
      /\ proposed \subseteq Ids \X Keys
      /\ \A p \in proposed : p[1] \in DOMAIN runs
  BY DEF IInv, TypeOK, RowInv
<1>4. /\ UNCHANGED <<runs, handler, broker, copies, proposed>>
      /\ worker' = [worker EXCEPT ![w] =
                      [old EXCEPT !.at = "compare", !.held = held, !.loop = loop]]
  BY DEF SearchSuite
<1>5. /\ held \in UNION {[ms -> AnyKey] : ms \in SUBSET Ids}
      /\ ns \subseteq DOMAIN held
      /\ \A n \in DOMAIN held :
            /\ n \in DOMAIN runs
            /\ Suite[runs[n].test] = Suite[TestOf(w)]
            /\ held[n] # Pending => Proposed(held[n], Suite[TestOf(w)])
  BY <1>1, Loaded
<1>6. ns \subseteq Ids
  BY <1>5, StoredRows
<1> HIDE DEF held, ns
<1>7. loop \in [listed : SUBSET Ids, todo : SUBSET Ids, best : 0 .. MaxRuns]
  BY <1>6, BoundsAssumption
<1> HIDE DEF loop
<1>8. worker' = [worker EXCEPT ![w] = s]
  <2>1. old \in Sessions
    BY <1>1
  <2>2. [old EXCEPT !.at = "compare", !.held = held, !.loop = loop] = s
    BY <2>1, FieldsListed
  <2> QED BY <1>4, <2>2
<1>9. s \in Sessions
  BY <1>1, <1>5, <1>7 DEF Sessions
<1>10. worker'[w] = s
  BY <1>3, <1>8
<1>11. SessionInv(w)'
  BY <1>1, <1>2, <1>4, <1>5, <1>9, <1>10, SessionMoves
<1>12. LoopInv(w)'
  <2>1. worker'[w].loop = loop /\ worker'[w].held = held
    BY <1>10
  <2>2. loop.listed = ns /\ loop.todo = ns /\ loop.best = 0
    BY DEF loop
  <2>3. IsBest(w, worker[w].loop.listed \ worker[w].loop.todo, worker[w].loop.best)'
    BY <2>1, <2>2 DEF IsBest
  <2> QED BY <1>5, <2>1, <2>2, <2>3 DEF LoopInv
<1> QED BY <1>3, <1>4, <1>8, <1>9, <1>11, <1>12, BrokerKept, MoveStep

\* A round of the loop makes its best the best of the runs up to this one.
LEMMA Round ==
    ASSUME NEW w \in Workers, worker[w].key \in Keys,
           NEW done \in SUBSET Ids, NEW best, NEW n \in Ids,
           \A i \in done : n < i,
           \A i \in done \cup {n} : Seen(w, i) \in AnyKey,
           IsBest(w, done, best)
    PROVE  IsBest(w, done \cup {n}, IF Better(w, n, best) THEN n ELSE best)
<1> DEFINE c == worker[w].key
           Fit(ms) == {i \in ms : Reaches(c, Seen(w, i), 3, 5)}
           C(i) == Common(c, Seen(w, i))
           A(i) == All(c, Seen(w, i))
<1>1. \A i \in done \cup {n} : C(i) \in Nat /\ A(i) \in Nat
  BY Numbers DEF AnyKey
<1>2. \A i \in Fit(done \cup {n}) : A(i) > 0
  BY Numbers DEF AnyKey, Reaches
<1>3. n \in Nat \ {0} /\ \A i \in done : i \in Nat \ {0}
  BY BoundsAssumption DEF Ids
<1>4. \A i \in done \cup {n} : \A j \in done \cup {n} :
          Closer(c, Seen(w, i), Seen(w, j)) <=> C(i) * A(j) > C(j) * A(i)
  BY DEF Closer
<1>5. Better(w, n, best) <=>
          /\ n \in Fit(done \cup {n})
          /\ best # 0 => Closer(c, Seen(w, n), Seen(w, best))
  BY DEF Better
<1>6. \A ms, b : IsBest(w, ms, b) <=>
          IF Fit(ms) = {} THEN b = 0
          ELSE /\ b \in Fit(ms)
               /\ \A i \in Fit(ms) : ~Closer(c, Seen(w, i), Seen(w, b))
               /\ \A i \in Fit(ms) : i > b => Closer(c, Seen(w, b), Seen(w, i))
  BY DEF IsBest
<1>7. /\ Fit(done) \subseteq done
      /\ n \in Fit(done \cup {n}) => Fit(done \cup {n}) = Fit(done) \cup {n}
      /\ n \notin Fit(done \cup {n}) => Fit(done \cup {n}) = Fit(done)
  OBVIOUS
<1> HIDE DEF c, Fit, C, A
<1>8. CASE Fit(done) = {}
  <2>1. best = 0
    BY <1>6, <1>8
  <2>2. CASE n \in Fit(done \cup {n})
    <3>1. ~Closer(c, Seen(w, n), Seen(w, n))
      BY <1>1, <1>4
    <3>2. ~(n > n)
      BY <1>3
    <3>3. Fit(done \cup {n}) = {n}
      BY <1>7, <1>8, <2>2
    <3>4. IsBest(w, done \cup {n}, n)
      <4>1. \A i \in Fit(done \cup {n}) : i = n
        BY <3>3
      <4>2. Fit(done \cup {n}) # {}
        BY <3>3
      <4> QED BY <1>6, <2>2, <3>1, <3>2, <4>1, <4>2
    <3> QED BY <1>5, <2>1, <2>2, <3>4
  <2>3. CASE n \notin Fit(done \cup {n})
    <3>1. Fit(done \cup {n}) = {}
      BY <1>7, <1>8, <2>3
    <3>2. IsBest(w, done \cup {n}, best)
      BY <1>6, <2>1, <3>1
    <3> QED BY <1>5, <2>3, <3>2
  <2> QED BY <2>2, <2>3
<1>9. CASE Fit(done) # {}
  <2>1. /\ best \in Fit(done)
        /\ best \in done
        /\ \A i \in Fit(done) : ~Closer(c, Seen(w, i), Seen(w, best))
        /\ \A i \in Fit(done) : i > best => Closer(c, Seen(w, best), Seen(w, i))
    BY <1>6, <1>7, <1>9
  <2>2. best # 0 /\ ~(n > best)
    BY <1>3, <2>1
  <2>3. CASE Better(w, n, best)
    <3>1. n \in Fit(done \cup {n}) /\ Closer(c, Seen(w, n), Seen(w, best))
      BY <1>5, <2>2, <2>3
    <3>2. Fit(done \cup {n}) = Fit(done) \cup {n}
      BY <1>7, <3>1
    <3>3. ASSUME NEW i \in Fit(done)
          PROVE  C(n) * A(i) > C(i) * A(n)
      <4>1. /\ C(i) \in Nat /\ A(i) \in Nat /\ A(i) > 0
            /\ C(best) \in Nat /\ A(best) \in Nat /\ A(best) > 0
            /\ C(n) \in Nat /\ A(n) \in Nat
        BY <1>1, <1>2, <1>7, <2>1, <3>2
      <4>2. ~(C(i) * A(best) > C(best) * A(i))
        BY <1>4, <1>7, <2>1
      <4>3. C(n) * A(best) > C(best) * A(n)
        BY <1>4, <2>1, <3>1
      <4>4. C(i) * A(best) <= C(best) * A(i)
        BY <4>1, <4>2
      <4> QED BY <4>1, <4>3, <4>4, CloserThanAll
    <3>4. \A i \in Fit(done) : Closer(c, Seen(w, n), Seen(w, i))
      BY <1>4, <1>7, <3>3
    <3>5. \A i \in Fit(done) : ~Closer(c, Seen(w, i), Seen(w, n))
      <4> SUFFICES ASSUME NEW i \in Fit(done)
                   PROVE  ~(C(i) * A(n) > C(n) * A(i))
        BY <1>4, <1>7
      <4>1. C(n) * A(i) > C(i) * A(n)
        BY <3>3
      <4>2. C(i) \in Nat /\ A(i) \in Nat /\ C(n) \in Nat /\ A(n) \in Nat
        BY <1>1, <1>7
      <4> QED BY <4>1, <4>2
    <3>6. ~Closer(c, Seen(w, n), Seen(w, n)) /\ ~(n > n)
      BY <1>1, <1>3, <1>4
    <3>7. IsBest(w, done \cup {n}, n)
      <4>1. \A i \in Fit(done \cup {n}) : i = n \/ i \in Fit(done)
        BY <3>2
      <4>2. Fit(done \cup {n}) # {}
        BY <3>1
      <4> QED BY <1>6, <3>1, <3>4, <3>5, <3>6, <4>1, <4>2
    <3> QED BY <2>3, <3>7
  <2>4. CASE ~Better(w, n, best)
    <3>1. n \notin Fit(done \cup {n}) \/ ~Closer(c, Seen(w, n), Seen(w, best))
      BY <1>5, <2>4
    <3>2. IsBest(w, done \cup {n}, best)
      <4>1. CASE n \notin Fit(done \cup {n})
        BY <1>6, <1>7, <1>9, <2>1, <4>1
      <4>2. CASE /\ n \in Fit(done \cup {n})
                 /\ ~Closer(c, Seen(w, n), Seen(w, best))
        BY <1>6, <1>7, <2>1, <2>2, <4>2
      <4> QED BY <3>1, <4>1, <4>2
    <3> QED BY <2>4, <3>2
  <2> QED BY <2>3, <2>4
<1> QED BY <1>8, <1>9

\* Comparing one more candidate keeps it: the best so far is the best of those compared.
LEMMA ComparePreserves ==
    ASSUME IInv, NEW w \in Workers, Compare(w)
    PROVE  IInv'
<1> DEFINE old == worker[w]
           loop == old.loop
<1>1. /\ old \in Sessions
      /\ old.at = "compare"
      /\ old.run \in DOMAIN runs
      /\ DOMAIN old.held \subseteq DOMAIN runs
      /\ \A n \in DOMAIN old.held :
            /\ old.held[n] \in AnyKey
            /\ Suite[runs[n].test] = Suite[TestOf(w)]
            /\ old.held[n] # Pending => Proposed(old.held[n], Suite[TestOf(w)])
  BY Working DEF Compare
<1>2. <<old.run, old.key>> \in proposed
  BY <1>1 DEF IInv, SessionInv
<1>3. /\ worker \in [Workers -> Sessions]
      /\ proposed \subseteq Ids \X Keys
      /\ \A p \in proposed : p[1] \in DOMAIN runs
  BY DEF IInv, TypeOK, RowInv
<1>4. /\ loop.listed \subseteq DOMAIN old.held
      /\ loop.todo \subseteq loop.listed
      /\ \A i \in loop.listed \ loop.todo : \A m \in loop.todo : m < i
      /\ IsBest(w, loop.listed \ loop.todo, loop.best)
  BY <1>1 DEF IInv, LoopInv
<1>5. UNCHANGED <<runs, handler, broker, copies, proposed>>
  BY DEF Compare
<1>6. PICK n \in loop.todo :
        /\ \A m \in loop.todo : m <= n
        /\ worker' = [worker EXCEPT ![w].loop =
             [listed |-> loop.listed, todo |-> loop.todo \ {n},
              best |-> IF Better(w, n, loop.best) THEN n ELSE loop.best]]
  BY DEF Compare
<1> DEFINE best == IF Better(w, n, loop.best) THEN n ELSE loop.best
           next == [listed |-> loop.listed, todo |-> loop.todo \ {n}, best |-> best]
           s == [at |-> old.at, run |-> old.run, loaded |-> old.loaded,
                 held |-> old.held, key |-> old.key, loop |-> next]
<1>7. /\ loop.listed \subseteq Ids
      /\ n \in Ids
      /\ loop.best \in 0 .. MaxRuns
  BY <1>1, <1>4, <1>6, StoredRows DEF Sessions
<1>8. best \in 0 .. MaxRuns
  BY <1>7, BoundsAssumption DEF Ids
<1>9. next.listed \ next.todo = (loop.listed \ loop.todo) \cup {n}
  BY <1>4, <1>6
<1>10. IsBest(w, (loop.listed \ loop.todo) \cup {n}, best)
  <2>1. \A i \in (loop.listed \ loop.todo) \cup {n} : Seen(w, i) \in AnyKey
    BY <1>1, <1>4, <1>6 DEF Seen
  <2>2. old.key \in Keys
    BY <1>2, <1>3
  <2> HIDE DEF loop
  <2> QED BY <1>4, <1>6, <1>7, <2>1, <2>2, Round
<1> HIDE DEF best
<1>11. next \in [listed : SUBSET Ids, todo : SUBSET Ids, best : 0 .. MaxRuns]
  BY <1>4, <1>7, <1>8
<1>12. worker' = [worker EXCEPT ![w] = s]
  <2>1. [old EXCEPT !.loop = next] = s
    <3> HIDE DEF next
    <3> QED BY <1>1, Fields
  <2>2. worker' = [worker EXCEPT ![w] = [old EXCEPT !.loop = next]]
    BY <1>6 DEF best
  <2> QED BY <2>1, <2>2
<1>13. s \in Sessions
  BY <1>1, <1>11 DEF Sessions
<1>14. worker'[w] = s
  BY <1>3, <1>12
<1>15. SessionInv(w)'
  BY <1>1, <1>2, <1>5, <1>13, <1>14, SessionMoves
<1>16. LoopInv(w)'
  <2>1. PICK done : done = (loop.listed \ loop.todo) \cup {n}
    OBVIOUS
  <2>2. done \subseteq DOMAIN old.held
    BY <1>4, <1>6, <2>1
  <2>3. worker'[w].held = old.held /\ worker'[w].key = old.key
        /\ worker'[w].loop = next
    BY <1>14
  <2>4. PICK b : b = best
    OBVIOUS
  <2>5. IsBest(w, done, b)'
    BY <1>10, <2>1, <2>2, <2>3, <2>4, BestIsKept
  <2>6. IsBest(w, worker[w].loop.listed \ worker[w].loop.todo, worker[w].loop.best)'
    BY <1>9, <2>1, <2>3, <2>4, <2>5 DEF IsBest
  <2>7. \A i \in next.listed \ next.todo : \A m \in next.todo : m < i
    <3>1. \A m \in loop.todo \ {n} : m < n
      <4>1. \A m \in loop.todo : m \in Nat /\ m <= n
        BY <1>4, <1>6, <1>7, BoundsAssumption DEF Ids
      <4> QED BY <1>7, <4>1, BoundsAssumption DEF Ids
    <3> QED BY <1>4, <1>9, <3>1
  <2> QED BY <1>4, <2>3, <2>6, <2>7 DEF LoopInv
<1> QED BY <1>3, <1>5, <1>12, <1>13, <1>15, <1>16, BrokerKept, MoveStep

\* Leaving the loop keeps it.
LEMMA EndSearchPreserves ==
    ASSUME IInv, NEW w \in Workers, EndSearch(w)
    PROVE  IInv'
<1> DEFINE old == worker[w]
           best == old.loop.best
           key == IF best = 0 THEN old.key ELSE Seen(w, best)
<1>1. /\ old \in Sessions
      /\ old.at = "compare"
      /\ old.loop.todo = {}
      /\ old.run \in DOMAIN runs
  BY Working DEF EndSearch
<1>2. <<old.run, old.key>> \in proposed
  BY <1>1 DEF IInv, SessionInv
<1>3. /\ proposed \subseteq Ids \X Keys
      /\ \A p \in proposed : p[1] \in DOMAIN runs
  BY DEF IInv, TypeOK, RowInv
<1>4. old.key \in Keys /\ Proposed(old.key, Suite[TestOf(w)])
  BY <1>2, <1>3 DEF Proposed, TestOf
<1>5. /\ old.loop.listed \subseteq DOMAIN old.held
      /\ IsBest(w, old.loop.listed, best)
  <2>1. old.loop.listed \ old.loop.todo = old.loop.listed
    BY <1>1
  <2> QED BY <1>1, <2>1 DEF IInv, LoopInv
<1>6. /\ key \in Keys
      /\ Proposed(key, Suite[TestOf(w)])
      /\ 2 * Common(old.key, key) >= All(old.key, key) \/ key = old.key
  <2>1. CASE best = 0
    BY <1>4, <2>1
  <2>2. CASE best # 0
    <3>1. best \in old.loop.listed /\ Reaches(old.key, Seen(w, best), 3, 5)
      BY <1>5, <2>2 DEF IsBest
    <3>2. /\ Seen(w, best) \in AnyKey
          /\ Seen(w, best) # Pending => Proposed(Seen(w, best), Suite[TestOf(w)])
      BY <1>1, <1>5, <3>1, Histories
    <3>3. Seen(w, best) \in Keys
          /\ 2 * Common(old.key, Seen(w, best)) >= All(old.key, Seen(w, best))
      BY <1>4, <3>1, <3>2, MatchesShareHalf
    <3> QED BY <2>2, <3>2, <3>3, KeysAssumption
  <2> QED BY <2>1, <2>2
<1>7. /\ worker' = [worker EXCEPT ![w] = [old EXCEPT !.at = "save", !.key = key,
                                                     !.loop = NoHistory]]
      /\ UNCHANGED <<runs, handler, broker, copies, proposed>>
  BY DEF EndSearch, Settle
<1> HIDE DEF key
<1> QED BY <1>1, <1>6, <1>7, SettlePreserves

----------------------------------------------------------------------------
(* The steps that end a task. *)

\* A task ends, with or without a commit.
LEMMA EndStep ==
    ASSUME IInv, NEW w \in Workers, EndTask(w), Forward, RowInv',
           runs' \in Seq(Rows)
    PROVE  IInv'
<1>1. worker \in [Workers -> Sessions]
  BY DEF IInv, TypeOK
<1>2. IdleWorker \in Sessions
  <2>1. <<>> \in [{} -> AnyKey]
    OBVIOUS
  <2>2. NoHistory \in [listed : SUBSET Ids, todo : SUBSET Ids, best : 0 .. MaxRuns]
    BY BoundsAssumption DEF NoHistory
  <2>3. Fresh \in Columns
    BY DEF Fresh, Columns, AnyKey
  <2>4. <<>> \in UNION {[ns -> AnyKey] : ns \in SUBSET Ids}
    BY <2>1
  <2>5. PICK none \in UNION {[ns -> AnyKey] : ns \in SUBSET Ids} : none = <<>>
    BY <2>4
  <2>6. IdleWorker = [at |-> "idle", run |-> 0, loaded |-> Fresh, held |-> none,
                      key |-> Pending, loop |-> NoHistory]
    BY <2>5 DEF IdleWorker
  <2> QED BY <2>2, <2>3, <2>6, BoundsAssumption DEF Sessions, AnyKey
<1>3. /\ worker' \in [Workers -> Sessions]
      /\ worker'[w] = IdleWorker
      /\ \A v \in Workers \ {w} : worker'[v] = worker[v]
  BY <1>1, <1>2 DEF EndTask
<1>4. TypeOK'
  BY <1>3 DEF IInv, TypeOK, EndTask
<1>5. StoredInv'
  BY DEF IInv, StoredInv, EndTask, Forward
<1>6. SessionInv(w)' /\ LoopInv(w)'
  BY <1>3 DEF SessionInv, LoopInv, IdleWorker
<1>7. \A v \in Workers : SessionInv(v)' /\ LoopInv(v)'
  BY <1>3, <1>6, OthersForward
<1> QED BY <1>4, <1>5, <1>7 DEF IInv

\* Saving an analysis keeps it.
LEMMA CompletePreserves ==
    ASSUME IInv, NEW w \in Workers, Complete(w)
    PROVE  IInv'
<1> DEFINE s == worker[w]
           has == [status |-> "completed", key |-> s.key]
<1>1. s \in Sessions /\ s.at = "save"
  BY DEF Complete, IInv, TypeOK
<1>2. Fits(s.key, s.run)
  BY <1>1 DEF IInv, SessionInv
<1>3. s.key \in Keys /\ s.key # Pending
  BY <1>2, KeysAssumption DEF Fits
<1>4. has \in Columns
  BY <1>3 DEF Columns, Verdicts, AnyKey
<1>5. Save(w, has) /\ EndTask(w) /\ UNCHANGED proposed
  BY DEF Complete, EndTask
<1>6. Forward /\ RowInv' /\ runs' \in Seq(Rows)
  BY <1>1, <1>2, <1>3, <1>4, <1>5, Saved
<1> QED BY <1>5, <1>6, EndStep

\* Saving an error keeps it.
LEMMA TriageFailsPreserves ==
    ASSUME IInv, NEW w \in Workers, TriageFails(w)
    PROVE  IInv'
<1> DEFINE s == worker[w]
           has == [status |-> "failed", key |-> s.loaded.key]
<1>1. s \in Sessions /\ s.at = "llm"
  BY DEF TriageFails, IInv, TypeOK
<1>2. s.loaded \in Columns
  BY <1>1 DEF Sessions
<1>3. has \in Columns /\ [s.loaded EXCEPT !.status = "failed"] = has
  BY <1>2 DEF Columns, Verdicts
<1>4. Save(w, has) /\ EndTask(w) /\ UNCHANGED proposed
  BY <1>3 DEF TriageFails, EndTask
<1>5. Forward /\ RowInv' /\ runs' \in Seq(Rows)
  BY <1>1, <1>3, <1>4, Saved
<1> QED BY <1>4, <1>5, EndStep

\* A worker that dies keeps it: nothing was saved.
LEMMA TaskDiesPreserves ==
    ASSUME IInv, NEW w \in Workers, TaskDies(w)
    PROVE  IInv'
<1>1. Forward /\ RowInv' /\ runs' \in Seq(Rows)
  BY DEF TaskDies, EndTask, Forward, IInv, RowInv, TypeOK, Fits, Proposed, Justified
<1> QED BY <1>1, EndStep DEF TaskDies

----------------------------------------------------------------------------
(* The theorems. *)

\* The inductive invariant: types, what the table's keys are grounded in, and
\* what the sessions may still do to it.
THEOREM Invariance == Spec => []IInv
<1>1. Init => IInv
  <2> SUFFICES ASSUME Init PROVE IInv
    OBVIOUS
  <2>1. IdleWorker \in Sessions
    <3>1. PICK none \in UNION {[ns -> AnyKey] : ns \in SUBSET Ids} : none = <<>>
      <4>1. <<>> \in [{} -> AnyKey]
        OBVIOUS
      <4> QED BY <4>1
    <3>2. NoHistory \in [listed : SUBSET Ids, todo : SUBSET Ids, best : 0 .. MaxRuns]
      BY BoundsAssumption DEF NoHistory
    <3>3. IdleWorker = [at |-> "idle", run |-> 0, loaded |-> Fresh, held |-> none,
                        key |-> Pending, loop |-> NoHistory]
      BY <3>1 DEF IdleWorker
    <3> QED BY <3>2, <3>3, BoundsAssumption DEF Sessions, Fresh, Columns, AnyKey
  <2>2. /\ runs = <<>> /\ proposed = {}
        /\ handler = [h \in Threads |-> IdleHandler]
        /\ broker = [n \in Ids |-> 0] /\ copies = [n \in Ids |-> 0]
        /\ worker = [w \in Workers |-> IdleWorker]
    BY DEF Init
  <2>3. runs \in Seq(Rows) /\ Len(runs) = 0 /\ DOMAIN runs = {}
    BY <2>2
  <2>4. TypeOK
    BY <2>1, <2>2, <2>3, BoundsAssumption DEF TypeOK, IdleHandler
  <2>5. RowInv /\ StoredInv
    BY <2>2, <2>3, BoundsAssumption DEF RowInv, StoredInv, IdleHandler
  <2>6. \A w \in Workers : SessionInv(w) /\ LoopInv(w)
    BY <2>2 DEF SessionInv, LoopInv, IdleWorker
  <2> QED BY <2>4, <2>5, <2>6 DEF IInv
<1>2. IInv /\ [Next]_vars => IInv'
  <2> SUFFICES ASSUME IInv, [Next]_vars PROVE IInv'
    OBVIOUS
  <2>1. ASSUME NEW h \in Threads, NEW t \in Tests, CreateRun(h, t) PROVE IInv'
    BY <2>1, CreateRunPreserves
  <2>2. ASSUME NEW h \in Threads, Continue(h) \/ RequestDies(h) PROVE IInv'
    BY <2>2, RequestPreserves, MarkPreserves DEF Continue
  <2>3. ASSUME NEW n \in Ids, Redeliver(n) PROVE IInv'
    BY <2>3, RedeliverPreserves
  <2>4. ASSUME NEW w \in Workers, NEW n \in Ids, StartTask(w, n) PROVE IInv'
    BY <2>4, StartTaskPreserves
  <2>5. ASSUME NEW w \in Workers, Triage(w) PROVE IInv'
    BY <2>5, ProposePreserves, SearchTestPreserves, SearchSuitePreserves,
       ComparePreserves, EndSearchPreserves, CompletePreserves,
       TriageFailsPreserves DEF Triage
  <2>6. ASSUME NEW w \in Workers, TaskDies(w) PROVE IInv'
    BY <2>6, TaskDiesPreserves
  <2>7. CASE UNCHANGED vars
    BY <2>7, BrokerKept, ElsewhereStep DEF vars, IInv, TypeOK, StoredInv, HandlerStates
  <2> QED BY <2>1, <2>2, <2>3, <2>4, <2>5, <2>6, <2>7 DEF Next
<1> QED BY <1>1, <1>2, PTL DEF Spec

\* Type correctness of the triage.
THEOREM TypeCorrect == Spec => []TypeOK
<1>1. IInv => TypeOK
  BY DEF IInv
<1> QED BY <1>1, Invariance, PTL

\* No cluster of one suite reaches a run of another, along any chain of reuses
\* and with any number of workers.
THEOREM ClustersAreOfTheSuite == Spec => []ClustersStayInSuite
<1>1. IInv => ClustersStayInSuite
  BY DEF IInv, RowInv, Fits, Proposed, Completed, ClustersStayInSuite
<1> QED BY <1>1, Invariance, PTL

\* A reused cluster shares half of its tokens with what the LLM proposed.
THEOREM ReusesAreJustified == Spec => []ReuseIsJustified
<1>1. IInv => ReuseIsJustified
  BY DEF IInv, RowInv, Fits, Justified, Completed, ReuseIsJustified
<1> QED BY <1>1, Invariance, PTL

\* The loop over the history of a suite of any length finds its best match,
\* the newest of equals.
THEOREM TheBestIsFound == Spec => []BestMatchIsFound
<1>1. IInv => BestMatchIsFound
  <2> SUFFICES ASSUME IInv, NEW w \in Workers,
                      worker[w].at = "compare", worker[w].loop.todo = {}
               PROVE  IsBest(w, worker[w].loop.listed, worker[w].loop.best)
    BY DEF BestMatchIsFound
  <2>1. worker[w].loop.listed \ worker[w].loop.todo = worker[w].loop.listed
    OBVIOUS
  <2> QED BY <2>1 DEF IInv, LoopInv
<1> QED BY <1>1, Invariance, PTL

----------------------------------------------------------------------------
(* The contract of a job. *)

\* A commit that gives run n a verdict, and a key if it completes it.
LEMMA RowSettles ==
    ASSUME IInv, NEW n \in DOMAIN runs, NEW has \in Columns,
           runs' = [runs EXCEPT ![n] = [test |-> runs[n].test, has |-> has]],
           has.key # Pending <=>
               runs[n].has.key # Pending \/ has.status = "completed"
    PROVE  Lenient!Settle(n, has.status)
<1>1. /\ n \in Ids
      /\ runs \in Seq(Rows)
      /\ [test |-> runs[n].test, has |-> has] \in Rows
      /\ runs[n].has.status # "absent"
  BY StoredRows DEF Rows, Columns, Verdicts
<1>2. /\ DOMAIN runs' = DOMAIN runs
      /\ runs'[n].has = has
      /\ \A i \in DOMAIN runs : i # n => runs'[i] = runs[i]
  BY <1>1, ExceptSeq
<1>3. Status[n] # "absent"
  BY <1>1 DEF Status
<1>4. Status' = [Status EXCEPT ![n] = has.status]
  BY <1>1, <1>2 DEF Status
<1>5. Analysed' = [Analysed EXCEPT ![n] = @ \/ has.status = "completed"]
  <2>1. \A i \in Ids : i # n => Analysed'[i] = Analysed[i]
    BY <1>2 DEF Analysed
  <2>2. Analysed'[n] = (Analysed[n] \/ has.status = "completed")
    BY <1>1, <1>2 DEF Analysed
  <2> QED BY <1>1, <2>1, <2>2 DEF Analysed
<1> QED BY <1>3, <1>4, <1>5 DEF Lenient!Settle

\* To the abstract specification, what a worker saves is the settling of its run.
LEMMA SavedSettles ==
    ASSUME IInv, NEW w \in Workers, worker[w].at # "idle",
           NEW has \in Columns, Save(w, has), has.status # "queued",
           \/ has.status = "completed" /\ has.key # Pending
           \/ has.status = "failed" /\ has.key = worker[w].loaded.key
    PROVE  Lenient!Next
<1> DEFINE n == worker[w].run
           s == worker[w]
           new == Flush(s.loaded, has, runs[n].has)
<1>1. /\ n \in DOMAIN runs
      /\ s.loaded.status # "queued" => runs[n].has.status # "queued"
      /\ s.loaded.key # Pending => runs[n].has.key # Pending
      /\ s.loaded.status = "completed" => s.loaded.key # Pending
  BY DEF IInv, SessionInv
<1>2. /\ runs[n].has \in Columns
      /\ runs[n].has.status = "completed" => runs[n].has.key # Pending
      /\ n \in Ids
  BY <1>1, StoredRows DEF IInv, RowInv
<1>3. /\ new \in Columns
      /\ new.status = (IF has.status = s.loaded.status
                       THEN runs[n].has.status ELSE has.status)
      /\ new.key = (IF has.key = s.loaded.key THEN runs[n].has.key ELSE has.key)
  BY <1>2 DEF Flush, Columns
<1>4. runs' = [runs EXCEPT ![n] = [test |-> runs[n].test, has |-> new]]
  BY DEF Save
<1> HIDE DEF new
<1>5. new.status \in Verdicts
  BY <1>1, <1>2, <1>3 DEF Columns
<1>6. new.key # Pending <=> runs[n].has.key # Pending \/ new.status = "completed"
  BY <1>1, <1>2, <1>3
<1>7. Lenient!Settle(n, new.status)
  BY <1>1, <1>3, <1>4, <1>6, RowSettles
<1> QED BY <1>2, <1>5, <1>7 DEF Lenient!Next, Lenient!Verdicts, Verdicts

\* To the abstract specification, storing a run is accepting it.
LEMMA CreateAccepts ==
    ASSUME IInv, NEW h \in Threads, NEW t \in Tests, CreateRun(h, t)
    PROVE  Lenient!Next
<1> DEFINE row == [test |-> t, has |-> Fresh]
           n == Len(runs) + 1
<1>1. runs \in Seq(Rows) /\ Len(runs) < MaxRuns /\ row \in Rows
  BY DEF IInv, TypeOK, CreateRun, Fresh, Columns, AnyKey, Rows
<1>2. /\ runs'[n] = row
      /\ \A i \in DOMAIN runs : runs'[i] = runs[i]
      /\ DOMAIN runs' = DOMAIN runs \cup {n}
      /\ n \notin DOMAIN runs
      /\ n \in Ids
  BY <1>1, AppendProperties, BoundsAssumption DEF CreateRun, Ids
<1>3. row.has.status = "queued" /\ row.has.key = Pending
  BY DEF Fresh
<1> HIDE DEF row, n
<1>4. Status[n] = "absent"
  BY <1>2 DEF Status
<1>5. Status' = [Status EXCEPT ![n] = "queued"]
  BY <1>2, <1>3 DEF Status
<1>6. UNCHANGED Analysed
  BY <1>2, <1>3 DEF Analysed
<1>7. Lenient!Accept(n)
  BY <1>4, <1>5, <1>6 DEF Lenient!Accept
<1> QED BY <1>2, <1>7 DEF Lenient!Next

\* The triage implements the contract that pull request jobs keep: a run is
\* queued, then has verdicts, and is completed only with a cluster.
THEOREM ContractIsKept == Spec => KeepsContract
<1>1. Init => Lenient!Init
  <2> SUFFICES ASSUME runs = <<>>
               PROVE  /\ Status = [n \in Ids |-> "absent"]
                      /\ Analysed = [n \in Ids |-> FALSE]
    BY DEF Init, Lenient!Init
  <2>1. DOMAIN runs = {}
    OBVIOUS
  <2>2. Status = [n \in Ids |-> "absent"]
    BY <2>1 DEF Status
  <2>3. \A n \in Ids : (n \in DOMAIN runs /\ runs[n].has.key # Pending) = FALSE
    BY <2>1
  <2>4. Analysed = [n \in Ids |-> FALSE]
    BY <2>3, Zenon DEF Analysed
  <2> QED BY <2>2, <2>4
<1>2. IInv /\ [Next]_vars => [Lenient!Next]_(Lenient!vars)
  <2> SUFFICES ASSUME IInv, [Next]_vars
               PROVE  Lenient!Next \/ UNCHANGED runs
    BY DEF Lenient!vars, Status, Analysed
  <2>1. ASSUME NEW h \in Threads, NEW t \in Tests, CreateRun(h, t)
        PROVE  Lenient!Next
    BY <2>1, CreateAccepts
  <2>2. ASSUME NEW h \in Threads, MarkDispatchFailed(h)
        PROVE  Lenient!Next
    <3> DEFINE n == handler[h].run
               has == [status |-> "dispatch_failed", key |-> runs[n].has.key]
    <3>1. n \in DOMAIN runs
      BY <2>2 DEF MarkDispatchFailed, IInv, StoredInv
    <3>2. runs[n].has \in Columns /\ n \in Ids
      BY <3>1, StoredRows
    <3>3. has \in Columns /\ [runs[n].has EXCEPT !.status = "dispatch_failed"] = has
      BY <3>2 DEF Columns, Verdicts
    <3>4. runs' = [runs EXCEPT ![n] = [test |-> runs[n].test, has |-> has]]
      BY <2>2, <3>3 DEF MarkDispatchFailed
    <3>5. Lenient!Settle(n, "dispatch_failed")
      BY <3>1, <3>3, <3>4, RowSettles
    <3> QED BY <3>2, <3>5 DEF Lenient!Next, Lenient!Verdicts
  <2>3. ASSUME NEW w \in Workers, Complete(w)
        PROVE  Lenient!Next
    <3>1. worker[w].at = "save" /\ worker[w].key \in Keys
      BY <2>3 DEF Complete, IInv, SessionInv, Fits
    <3>2. [status |-> "completed", key |-> worker[w].key] \in Columns
      BY <3>1 DEF Columns, Verdicts, AnyKey
    <3> QED BY <2>3, <3>1, <3>2, KeysAssumption, SavedSettles DEF Complete
  <2>4. ASSUME NEW w \in Workers, TriageFails(w)
        PROVE  Lenient!Next
    <3> DEFINE has == [status |-> "failed", key |-> worker[w].loaded.key]
    <3>1. worker[w].at = "llm" /\ worker[w].loaded \in Columns
      BY <2>4 DEF TriageFails, IInv, TypeOK, Sessions
    <3>2. has \in Columns /\ [worker[w].loaded EXCEPT !.status = "failed"] = has
      BY <3>1 DEF Columns, Verdicts
    <3> QED BY <2>4, <3>1, <3>2, SavedSettles DEF TriageFails
  <2>5. \/ UNCHANGED runs
        \/ \E h \in Threads : \E t \in Tests : CreateRun(h, t)
        \/ \E h \in Threads : MarkDispatchFailed(h)
        \/ \E w \in Workers : Complete(w) \/ TriageFails(w)
    BY DEF Next, Continue, Triage, RecordIngest, Dispatch, DispatchFails,
           RecordDispatch, RequestDies, Redeliver, StartTask, Propose,
           SearchTest, SearchSuite, Compare, EndSearch, TaskDies, vars
  <2> QED BY <2>1, <2>2, <2>3, <2>4, <2>5
<1> QED BY <1>1, <1>2, Invariance, PTL DEF Spec, KeepsContract, Lenient!Spec

----------------------------------------------------------------------------
(* When nothing is done twice: one worker, and one message for a run. *)

\* One worker takes the tasks, no message is ever doubled, and the history of
\* a test is read at all.
Sequential ==
    /\ \A v \in Workers : \A w \in Workers : v = w
    /\ Faults \cap {"unclear", "redelivery"} = {}
    /\ TestLimit > 0

\* The request has stored its run and has not published it.
Asks(h) == handler[h].at \in {"ingest", "dispatch", "mark"}

\* Nothing has been proposed for run n.
Untried(n) == runs[n].has.key = Pending /\ \A p \in proposed : p[1] # n

Unworked(n) == \A w \in Workers : worker[w].at # "idle" => worker[w].run # n

AskInv(h) ==
    Asks(h) =>
        /\ Untried(handler[h].run)
        /\ Unworked(handler[h].run)
        /\ broker[handler[h].run] = 0
        /\ \A g \in Threads \ {h} : Asks(g) => handler[g].run # handler[h].run

MessageInv(n) == broker[n] > 0 => broker[n] = 1 /\ Untried(n) /\ Unworked(n)

WorkInv(w) ==
    /\ worker[w].at # "idle" => runs[worker[w].run].has.key = Pending
    /\ worker[w].at = "llm" => Untried(worker[w].run)

\* A run is worked on once, so it gets one answer.
OnceInv ==
    /\ \A h \in Threads : AskInv(h)
    /\ \A n \in Ids : MessageInv(n)
    /\ \A w \in Workers : WorkInv(w)
    /\ \A p \in proposed : \A q \in proposed : p[1] = q[1] => p = q

\* A step that leaves tests, keys and what is completed.
RowsKept ==
    /\ \A n \in DOMAIN runs : /\ n \in DOMAIN runs'
                              /\ runs'[n].test = runs[n].test
                              /\ runs'[n].has.key = runs[n].has.key
    /\ Completed' = Completed

\* A new row is not completed.
LEMMA CreateRunKeeps ==
    ASSUME IInv, NEW h \in Threads, NEW t \in Tests, CreateRun(h, t)
    PROVE  /\ RowsKept
           /\ DOMAIN runs' = DOMAIN runs \cup {Len(runs) + 1}
           /\ Len(runs) + 1 \notin DOMAIN runs
           /\ Len(runs) + 1 \in Ids
           /\ runs'[Len(runs) + 1].has = Fresh
<1> DEFINE row == [test |-> t, has |-> Fresh]
<1>1. runs \in Seq(Rows) /\ Len(runs) < MaxRuns
  BY DEF IInv, TypeOK, CreateRun
<1>2. row \in Rows
  BY DEF Fresh, Columns, AnyKey, Rows
<1>3. /\ runs'[Len(runs) + 1] = row
      /\ \A n \in DOMAIN runs : runs'[n] = runs[n]
      /\ DOMAIN runs' = DOMAIN runs \cup {Len(runs) + 1}
  BY <1>1, <1>2, AppendProperties DEF CreateRun
<1>4. runs'[Len(runs) + 1].has = Fresh /\ Fresh.status = "queued"
  BY <1>3 DEF Fresh
<1>5. Len(runs) + 1 \notin DOMAIN runs /\ Len(runs) + 1 \in Ids
  BY <1>1, BoundsAssumption DEF Ids
<1>6. Completed' = Completed
  BY <1>3, <1>4, <1>5 DEF Completed
<1> QED BY <1>3, <1>4, <1>5, <1>6 DEF RowsKept

\* A run whose dispatch failed was not completed.
LEMMA MarkKeeps ==
    ASSUME IInv, OnceInv, NEW h \in Threads, MarkDispatchFailed(h)
    PROVE  RowsKept
<1> DEFINE n == handler[h].run
           has == [status |-> "dispatch_failed", key |-> runs[n].has.key]
<1>1. n \in DOMAIN runs
  BY DEF MarkDispatchFailed, IInv, StoredInv
<1>2. runs[n].has \in Columns
  BY <1>1, StoredRows
<1>3. has \in Columns /\ [runs[n].has EXCEPT !.status = "dispatch_failed"] = has
  BY <1>2 DEF Columns, Verdicts
<1>4. runs' = [runs EXCEPT ![n] = [test |-> runs[n].test, has |-> has]]
  BY <1>3 DEF MarkDispatchFailed
<1>5. runs \in Seq(Rows) /\ [test |-> runs[n].test, has |-> has] \in Rows
  BY <1>1, <1>3, StoredRows DEF Rows
<1>6. /\ DOMAIN runs' = DOMAIN runs
      /\ runs'[n] = [test |-> runs[n].test, has |-> has]
      /\ \A i \in DOMAIN runs : i # n => runs'[i] = runs[i]
  BY <1>1, <1>4, <1>5, ExceptSeq
<1>7. runs[n].has.status # "completed"
  BY <1>1 DEF OnceInv, AskInv, Asks, Untried, MarkDispatchFailed, IInv, RowInv
<1>8. Completed' = Completed
  BY <1>6, <1>7 DEF Completed
<1> QED BY <1>6, <1>8 DEF RowsKept

\* Nor was a run whose triage fails.
LEMMA FailureKeeps ==
    ASSUME IInv, OnceInv, NEW w \in Workers, TriageFails(w)
    PROVE  RowsKept
<1> DEFINE s == worker[w]
           n == s.run
           has == [status |-> "failed", key |-> s.loaded.key]
           new == Flush(s.loaded, has, runs[n].has)
<1>1. s \in Sessions /\ s.at = "llm" /\ n \in DOMAIN runs
  BY DEF TriageFails, IInv, TypeOK, SessionInv
<1>2. s.loaded \in Columns /\ runs[n].has \in Columns
  BY <1>1, StoredRows DEF Sessions
<1>3. has \in Columns /\ [s.loaded EXCEPT !.status = "failed"] = has
  BY <1>2 DEF Columns, Verdicts
<1>4. runs' = [runs EXCEPT ![n] = [test |-> runs[n].test, has |-> new]]
  BY <1>3 DEF TriageFails, Save
<1>5. runs[n].has.status # "completed"
  BY <1>1 DEF OnceInv, WorkInv, Untried, IInv, RowInv
<1>6. new \in Columns /\ new.key = runs[n].has.key /\ new.status # "completed"
  BY <1>2, <1>3, <1>5 DEF Flush, Columns
<1> HIDE DEF new
<1>7. runs \in Seq(Rows) /\ [test |-> runs[n].test, has |-> new] \in Rows
  BY <1>1, <1>6, StoredRows DEF Rows
<1>8. /\ DOMAIN runs' = DOMAIN runs
      /\ runs'[n] = [test |-> runs[n].test, has |-> new]
      /\ \A i \in DOMAIN runs : i # n => runs'[i] = runs[i]
  BY <1>1, <1>4, <1>7, ExceptSeq
<1>9. Completed' = Completed
  BY <1>5, <1>6, <1>8 DEF Completed
<1> QED BY <1>6, <1>8, <1>9 DEF RowsKept

\* A step that gives nobody a new run, and leaves keys, messages and answers.
LEMMA NothingNew ==
    ASSUME IInv, OnceInv, RowsKept, UNCHANGED <<broker, proposed>>,
           \A h \in Threads :
              Asks(h)' => Asks(h) /\ handler'[h].run = handler[h].run,
           \A w \in Workers :
              worker'[w].at # "idle" =>
                 /\ worker[w].at # "idle"
                 /\ worker'[w].run = worker[w].run
                 /\ worker'[w].at = "llm" => worker[w].at = "llm"
    PROVE  OnceInv'
<1>1. ASSUME NEW n \in DOMAIN runs, Untried(n) PROVE Untried(n)'
  BY <1>1 DEF Untried, RowsKept
<1>2. ASSUME NEW n, Unworked(n) PROVE Unworked(n)'
  BY <1>2 DEF Unworked
<1>3. ASSUME NEW h \in Threads PROVE AskInv(h)'
  <2> SUFFICES ASSUME Asks(h)' PROVE AskInv(h)'
    BY DEF AskInv
  <2>1. Asks(h) /\ handler'[h].run = handler[h].run
    OBVIOUS
  <2>2. PICK n : n = handler[h].run
    OBVIOUS
  <2>3. n \in DOMAIN runs
    BY <2>1, <2>2 DEF IInv, StoredInv, Asks
  <2>4. /\ Untried(n) /\ Unworked(n) /\ broker[n] = 0
        /\ \A g \in Threads \ {h} : Asks(g) => handler[g].run # n
    BY <2>1, <2>2 DEF OnceInv, AskInv
  <2>5. Untried(n)' /\ Unworked(n)'
    BY <1>1, <1>2, <2>3, <2>4
  <2>6. n = handler'[h].run
    BY <2>1, <2>2
  <2>7. \A g \in Threads \ {h} : Asks(g)' => handler'[g].run # n
    BY <2>4
  <2>8. Untried(handler[h].run)' /\ Unworked(handler[h].run)'
    BY <2>5, <2>6 DEF Untried, Unworked
  <2> QED BY <2>4, <2>6, <2>7, <2>8 DEF AskInv
<1>4. ASSUME NEW n \in Ids PROVE MessageInv(n)'
  <2>1. broker'[n] > 0 => n \in DOMAIN runs
    BY DEF IInv, StoredInv
  <2>2. MessageInv(n)
    BY DEF OnceInv
  <2> QED BY <1>1, <1>2, <2>1, <2>2 DEF MessageInv
<1>5. ASSUME NEW w \in Workers PROVE WorkInv(w)'
  <2> SUFFICES ASSUME worker'[w].at # "idle" PROVE WorkInv(w)'
    BY DEF WorkInv
  <2>1. PICK n : n = worker[w].run
    OBVIOUS
  <2>2. /\ worker[w].at # "idle" /\ worker'[w].run = n
        /\ worker'[w].at = "llm" => worker[w].at = "llm"
    BY <2>1
  <2>3. n \in DOMAIN runs
    BY <2>1, <2>2 DEF IInv, SessionInv
  <2>4. runs[n].has.key = Pending /\ (worker[w].at = "llm" => Untried(n))
    BY <2>1, <2>2 DEF OnceInv, WorkInv
  <2>5. runs'[n].has.key = Pending /\ (worker'[w].at = "llm" => Untried(n)')
    BY <1>1, <2>2, <2>3, <2>4 DEF RowsKept
  <2> QED BY <2>2, <2>5 DEF WorkInv, Untried
<1> QED BY <1>3, <1>4, <1>5 DEF OnceInv

\* A run that has just been stored is known to its request alone.
LEMMA CreateRunOnce ==
    ASSUME IInv, OnceInv, NEW h \in Threads, NEW t \in Tests, CreateRun(h, t)
    PROVE  OnceInv'
<1>1. PICK n : n = Len(runs) + 1
  OBVIOUS
<1>2. /\ RowsKept /\ n \notin DOMAIN runs /\ n \in Ids
      /\ runs'[n].has = Fresh
  BY <1>1, CreateRunKeeps
<1>3. /\ UNCHANGED <<broker, worker, proposed>>
      /\ handler' = [handler EXCEPT ![h] = [at |-> "ingest", run |-> n]]
      /\ handler \in [Threads -> HandlerStates]
  BY <1>1 DEF CreateRun, IInv, TypeOK, HandlerStates
<1>4. /\ handler'[h].at = "ingest" /\ handler'[h].run = n
      /\ \A g \in Threads \ {h} : handler'[g] = handler[g]
  BY <1>3
<1>5. Untried(n)' /\ Unworked(n)' /\ broker[n] = 0
  <2>1. \A p \in proposed : p[1] # n
    BY <1>2 DEF IInv, RowInv
  <2>2. \A w \in Workers : worker[w].at # "idle" => worker[w].run # n
    BY <1>2 DEF IInv, SessionInv
  <2>3. broker[n] \in Nat /\ ~(broker[n] > 0)
    BY <1>2 DEF IInv, TypeOK, StoredInv
  <2>4. runs'[n].has.key = Pending
    BY <1>2 DEF Fresh
  <2> QED BY <1>3, <2>1, <2>2, <2>3, <2>4 DEF Untried, Unworked
<1>6. ASSUME NEW i \in DOMAIN runs, Untried(i) PROVE Untried(i)'
  BY <1>2, <1>3, <1>6 DEF Untried, RowsKept
<1>7. ASSUME NEW i, Unworked(i) PROVE Unworked(i)'
  BY <1>3, <1>7 DEF Unworked
<1>8. AskInv(h)'
  <2>1. \A g \in Threads \ {h} : Asks(g)' => handler'[g].run # n
    BY <1>2, <1>4 DEF Asks, IInv, StoredInv
  <2>2. Untried(handler[h].run)' /\ Unworked(handler[h].run)'
    BY <1>4, <1>5 DEF Untried, Unworked
  <2> QED BY <1>3, <1>4, <1>5, <2>1, <2>2 DEF AskInv
<1>9. ASSUME NEW g \in Threads \ {h} PROVE AskInv(g)'
  <2> SUFFICES ASSUME Asks(g)' PROVE AskInv(g)'
    BY DEF AskInv
  <2>1. PICK i : i = handler[g].run
    OBVIOUS
  <2>2. Asks(g) /\ handler'[g].run = i
    BY <1>4, <2>1 DEF Asks
  <2>3. i \in DOMAIN runs
    BY <2>1, <2>2 DEF IInv, StoredInv, Asks
  <2>4. /\ Untried(i) /\ Unworked(i) /\ broker[i] = 0
        /\ \A f \in Threads \ {g} : Asks(f) => handler[f].run # i
    BY <2>1, <2>2 DEF OnceInv, AskInv
  <2>5. Untried(i)' /\ Unworked(i)'
    BY <1>6, <1>7, <2>3, <2>4
  <2>6. ASSUME NEW f \in Threads \ {g}, Asks(f)' PROVE handler'[f].run # i
    BY <1>2, <1>4, <2>3, <2>4, <2>6 DEF Asks
  <2>7. Untried(handler[g].run)' /\ Unworked(handler[g].run)'
    BY <2>2, <2>5 DEF Untried, Unworked
  <2> QED BY <1>3, <2>2, <2>4, <2>6, <2>7 DEF AskInv
<1>10. ASSUME NEW i \in Ids PROVE MessageInv(i)'
  <2>1. broker[i] > 0 => i \in DOMAIN runs
    BY DEF IInv, StoredInv
  <2>2. MessageInv(i)
    BY DEF OnceInv
  <2> QED BY <1>3, <1>6, <1>7, <2>1, <2>2 DEF MessageInv
<1>11. ASSUME NEW w \in Workers PROVE WorkInv(w)'
  <2>1. PICK i : i = worker[w].run
    OBVIOUS
  <2>2. worker[w].at # "idle" => i \in DOMAIN runs
    BY <2>1 DEF IInv, SessionInv
  <2>3. /\ worker[w].at # "idle" => runs[i].has.key = Pending
        /\ worker[w].at = "llm" => Untried(i)
    BY <2>1 DEF OnceInv, WorkInv
  <2>4. /\ worker[w].at # "idle" => runs'[i].has.key = Pending
        /\ worker[w].at = "llm" => Untried(i)'
    BY <1>2, <1>6, <2>2, <2>3 DEF RowsKept
  <2> QED BY <1>3, <2>1, <2>4 DEF WorkInv, Untried
<1> QED BY <1>3, <1>8, <1>9, <1>10, <1>11 DEF OnceInv

\* A message is published once, for a run that has none.
LEMMA DispatchOnce ==
    ASSUME IInv, OnceInv, NEW h \in Threads, Dispatch(h)
    PROVE  OnceInv'
<1>1. PICK n : n = handler[h].run
  OBVIOUS
<1>2. /\ Asks(h) /\ Untried(n) /\ Unworked(n) /\ broker[n] = 0
      /\ \A g \in Threads \ {h} : Asks(g) => handler[g].run # n
  BY <1>1 DEF Dispatch, OnceInv, AskInv, Asks
<1>3. n \in DOMAIN runs /\ n \in Ids
  BY <1>1, StoredRows DEF Dispatch, IInv, StoredInv
<1>4. /\ UNCHANGED <<runs, worker, proposed>>
      /\ handler' = [handler EXCEPT ![h].at = "record"]
      /\ handler \in [Threads -> HandlerStates]
      /\ broker' = [broker EXCEPT ![n] = broker[n] + 1]
      /\ broker \in [Ids -> Nat]
  BY <1>1 DEF Dispatch, Step, Publish, IInv, TypeOK, HandlerStates
<1>5. /\ ~Asks(h)'
      /\ \A g \in Threads \ {h} : handler'[g] = handler[g]
      /\ broker'[n] = 1
      /\ \A i \in Ids \ {n} : broker'[i] = broker[i]
  BY <1>2, <1>3, <1>4 DEF Asks
<1>6. ASSUME NEW i, Untried(i) PROVE Untried(i)'
  BY <1>4, <1>6 DEF Untried
<1>7. ASSUME NEW i, Unworked(i) PROVE Unworked(i)'
  BY <1>4, <1>7 DEF Unworked
<1>8. ASSUME NEW g \in Threads \ {h}, Asks(g)' PROVE AskInv(g)'
  <2>1. PICK i : i = handler[g].run
    OBVIOUS
  <2>2. Asks(g) /\ handler'[g].run = i
    BY <1>5, <1>8, <2>1 DEF Asks
  <2>3. i \in Ids /\ i # n
    BY <1>2, <2>1, <2>2, StoredRows DEF IInv, StoredInv, Asks
  <2>4. /\ Untried(i) /\ Unworked(i) /\ broker[i] = 0
        /\ \A f \in Threads \ {g} : Asks(f) => handler[f].run # i
    BY <2>1, <2>2 DEF OnceInv, AskInv
  <2>5. Untried(i)' /\ Unworked(i)' /\ broker'[i] = 0
    BY <1>5, <1>6, <1>7, <2>3, <2>4
  <2>6. ASSUME NEW f \in Threads \ {g}, Asks(f)' PROVE handler'[f].run # i
    BY <1>5, <2>4, <2>6 DEF Asks
  <2>7. Untried(handler[g].run)' /\ Unworked(handler[g].run)'
    BY <2>2, <2>5 DEF Untried, Unworked
  <2> QED BY <2>2, <2>5, <2>6, <2>7 DEF AskInv
<1>9. \A g \in Threads : AskInv(g)'
  BY <1>5, <1>8 DEF AskInv
<1>10. ASSUME NEW i \in Ids PROVE MessageInv(i)'
  BY <1>2, <1>5, <1>6, <1>7 DEF MessageInv, OnceInv
<1>11. \A w \in Workers : WorkInv(w)'
  BY <1>4 DEF WorkInv, OnceInv, Untried
<1> QED BY <1>4, <1>9, <1>10, <1>11 DEF OnceInv

\* The message of a run is taken once, and by then its request has left it.
LEMMA StartTaskOnce ==
    ASSUME Sequential, IInv, OnceInv, NEW w \in Workers, NEW n \in Ids,
           StartTask(w, n)
    PROVE  OnceInv'
<1>1. /\ worker[w].at = "idle" /\ broker[n] = 1
      /\ Untried(n) /\ Unworked(n) /\ n \in DOMAIN runs
  BY DEF StartTask, OnceInv, MessageInv, IInv, StoredInv
<1>2. \A v \in Workers : v = w
  BY DEF Sequential
<1>3. /\ UNCHANGED <<runs, handler, proposed>>
      /\ worker'[w].at = "llm" /\ worker'[w].run = n
      /\ broker'[n] = 0
      /\ \A i \in Ids \ {n} : broker'[i] = broker[i]
  <2>1. worker \in [Workers -> Sessions] /\ broker \in [Ids -> Nat]
    BY DEF IInv, TypeOK
  <2> QED BY <1>1, <2>1 DEF StartTask
<1>4. ASSUME NEW i, Untried(i) PROVE Untried(i)'
  BY <1>3, <1>4 DEF Untried
<1>5. ASSUME NEW i, i # n PROVE Unworked(i)'
  BY <1>2, <1>3, <1>5 DEF Unworked
<1>6. ASSUME NEW h \in Threads, Asks(h)' PROVE AskInv(h)'
  <2>1. PICK i : i = handler[h].run
    OBVIOUS
  <2>2. Asks(h)
    BY <1>3, <1>6 DEF Asks
  <2>3. /\ i \in Ids
        /\ Untried(i) /\ broker[i] = 0
        /\ \A g \in Threads \ {h} : Asks(g) => handler[g].run # i
    BY <2>1, <2>2, StoredRows DEF OnceInv, AskInv, IInv, StoredInv, Asks
  <2>4. i # n
    BY <1>1, <2>3
  <2>5. Untried(i)' /\ Unworked(i)' /\ broker'[i] = 0
    BY <1>3, <1>4, <1>5, <2>3, <2>4
  <2>6. handler'[h].run = i /\ \A g \in Threads \ {h} : Asks(g)' => handler'[g].run # i
    BY <1>3, <2>1, <2>3 DEF Asks
  <2>7. Untried(handler[h].run)' /\ Unworked(handler[h].run)'
    BY <2>5, <2>6 DEF Untried, Unworked
  <2> QED BY <2>5, <2>6, <2>7 DEF AskInv
<1>7. \A h \in Threads : AskInv(h)'
  BY <1>6 DEF AskInv
<1>8. ASSUME NEW i \in Ids PROVE MessageInv(i)'
  BY <1>3, <1>4, <1>5 DEF MessageInv, OnceInv
<1>9. WorkInv(w)'
  BY <1>1, <1>3 DEF WorkInv, Untried
<1>10. \A v \in Workers : WorkInv(v)'
  BY <1>2, <1>9
<1> QED BY <1>3, <1>7, <1>8, <1>10 DEF OnceInv

\* What the step changes of run n alone, on which w works, is no one else's.
LEMMA OwnRun ==
    ASSUME Sequential, IInv, OnceInv, NEW w \in Workers, worker[w].at # "idle",
           NEW n, n = worker[w].run,
           UNCHANGED <<handler, broker>>,
           worker'[w].at # "idle" => worker'[w].run = n,
           \A i \in DOMAIN runs : i # n => runs'[i].has.key = runs[i].has.key,
           \A p \in proposed' : p \in proposed \/ p[1] = n
    PROVE  /\ \A h \in Threads : AskInv(h)'
           /\ \A i \in Ids : MessageInv(i)'
<1>1. \A v \in Workers : v = w
  BY DEF Sequential
<1>2. ASSUME NEW i \in DOMAIN runs, i # n PROVE Unworked(i)' /\ (Untried(i) => Untried(i)')
  BY <1>1, <1>2 DEF Unworked, Untried
<1>3. ASSUME NEW i, Unworked(i) PROVE i # n
  BY <1>3 DEF Unworked
<1>4. ASSUME NEW h \in Threads, Asks(h)' PROVE AskInv(h)'
  <2>1. PICK i : i = handler[h].run
    OBVIOUS
  <2>2. Asks(h)
    BY <1>4 DEF Asks
  <2>3. /\ i \in DOMAIN runs
        /\ Untried(i) /\ Unworked(i) /\ broker[i] = 0
        /\ \A g \in Threads \ {h} : Asks(g) => handler[g].run # i
    BY <2>1, <2>2 DEF OnceInv, AskInv, IInv, StoredInv, Asks
  <2>4. Untried(i)' /\ Unworked(i)'
    BY <1>2, <1>3, <2>3
  <2>5. handler'[h].run = i /\ \A g \in Threads \ {h} : Asks(g)' => handler'[g].run # i
    BY <2>1, <2>3 DEF Asks
  <2>6. Untried(handler[h].run)' /\ Unworked(handler[h].run)'
    BY <2>4, <2>5 DEF Untried, Unworked
  <2> QED BY <2>3, <2>5, <2>6 DEF AskInv
<1>5. ASSUME NEW i \in Ids PROVE MessageInv(i)'
  <2>1. broker[i] > 0 => i \in DOMAIN runs
    BY DEF IInv, StoredInv
  <2>2. MessageInv(i)
    BY DEF OnceInv
  <2> QED BY <1>2, <1>3, <2>1, <2>2 DEF MessageInv
<1> QED BY <1>4, <1>5 DEF AskInv

\* The LLM is asked once about a run.
LEMMA ProposeOnce ==
    ASSUME Sequential, IInv, OnceInv, NEW w \in Workers,
           NEW said \in Keys \cup {Placeholder}, Propose(w, said)
    PROVE  OnceInv'
<1>1. PICK n : n = worker[w].run
  OBVIOUS
<1>2. PICK key : key = Canonical(TestOf(w), said)
  OBVIOUS
<1>3. PICK a : a = IF Tokens[key] = {} THEN "save" ELSE "test"
  OBVIOUS
<1>4. /\ worker[w].at = "llm" /\ worker[w] \in Sessions
      /\ worker' = [worker EXCEPT ![w] = [worker[w] EXCEPT !.at = a, !.key = key]]
      /\ proposed' = proposed \cup {<<n, key>>}
      /\ UNCHANGED <<runs, handler, broker>>
      /\ worker \in [Workers -> Sessions]
  BY <1>1, <1>2, <1>3 DEF Propose, IInv, TypeOK
<1>5. /\ worker'[w].run = n /\ worker'[w].at = a /\ a # "llm" /\ a # "idle"
  <2>1. worker'[w] = [worker[w] EXCEPT !.at = a, !.key = key]
    BY <1>4
  <2>2. worker'[w] = [at |-> a, run |-> worker[w].run, loaded |-> worker[w].loaded,
                      held |-> worker[w].held, key |-> key, loop |-> worker[w].loop]
    BY <1>4, <2>1, Fields
  <2> QED BY <1>1, <1>3, <2>2
<1>6. Untried(n)
  BY <1>1, <1>4 DEF OnceInv, WorkInv
<1>7. \A p \in proposed' : p \in proposed \/ p[1] = n
  BY <1>4
<1>8. \A h \in Threads : AskInv(h)'
  BY <1>1, <1>4, <1>5, <1>7, OwnRun
<1>9. \A i \in Ids : MessageInv(i)'
  BY <1>1, <1>4, <1>5, <1>7, OwnRun
<1>10. \A v \in Workers : WorkInv(v)'
  <2>1. WorkInv(w)'
    BY <1>4, <1>5, <1>6 DEF WorkInv, Untried
  <2> QED BY <2>1 DEF Sequential
<1>11. \A p \in proposed' : \A q \in proposed' : p[1] = q[1] => p = q
  BY <1>4, <1>6 DEF Untried, OnceInv
<1> QED BY <1>8, <1>9, <1>10, <1>11 DEF OnceInv

\* The key of the run, as it is committed.
LEMMA Committed ==
    ASSUME IInv, OnceInv, NEW w \in Workers, Complete(w), NEW n, n = worker[w].run
    PROVE  /\ n \in DOMAIN runs /\ DOMAIN runs' = DOMAIN runs
           /\ runs'[n].has.key = worker[w].key
           /\ \A i \in DOMAIN runs : i # n => runs'[i] = runs[i]
           /\ worker'[w] = IdleWorker
<1> DEFINE s == worker[w]
           has == [status |-> "completed", key |-> s.key]
           new == Flush(s.loaded, has, runs[n].has)
<1>1. s \in Sessions /\ s.at = "save" /\ n \in DOMAIN runs
  BY DEF Complete, IInv, TypeOK, SessionInv
<1>2. Fits(s.key, s.run) /\ runs[n].has.key = Pending
  BY <1>1 DEF IInv, SessionInv, OnceInv, WorkInv
<1>3. s.key \in Keys /\ s.key # Pending /\ s.loaded.key = Pending
  BY <1>1, <1>2, KeysAssumption DEF Fits, IInv, SessionInv
<1>4. has \in Columns /\ s.loaded \in Columns /\ runs[n].has \in Columns
  BY <1>1, <1>3, StoredRows DEF Columns, Verdicts, AnyKey, Sessions
<1>5. new \in Columns /\ new.key = s.key
  BY <1>3, <1>4 DEF Flush, Columns
<1>6. runs' = [runs EXCEPT ![n] = [test |-> runs[n].test, has |-> new]]
  BY DEF Complete, Save
<1> HIDE DEF new
<1>7. runs \in Seq(Rows) /\ [test |-> runs[n].test, has |-> new] \in Rows
  BY <1>1, <1>5, StoredRows DEF Rows
<1>8. /\ DOMAIN runs' = DOMAIN runs
      /\ runs'[n] = [test |-> runs[n].test, has |-> new]
      /\ \A i \in DOMAIN runs : i # n => runs'[i] = runs[i]
  BY <1>1, <1>6, <1>7, ExceptSeq
<1>9. worker'[w] = IdleWorker
  <2>1. worker \in [Workers -> Sessions]
    BY DEF IInv, TypeOK
  <2> QED BY <2>1 DEF Complete, EndTask
<1> QED BY <1>1, <1>5, <1>8, <1>9

\* A run that has its key is asked about no more.
LEMMA CompleteOnce ==
    ASSUME Sequential, IInv, OnceInv, NEW w \in Workers, Complete(w)
    PROVE  OnceInv'
<1>1. PICK n : n = worker[w].run
  OBVIOUS
<1>2. worker[w].at # "idle" /\ UNCHANGED <<handler, broker, proposed>>
  BY DEF Complete, EndTask
<1>3. /\ \A i \in DOMAIN runs : i # n => runs'[i].has.key = runs[i].has.key
      /\ worker'[w].at = "idle"
  BY <1>1, Committed DEF IdleWorker
<1>4. \A h \in Threads : AskInv(h)'
  BY <1>1, <1>2, <1>3, OwnRun
<1>5. \A i \in Ids : MessageInv(i)'
  BY <1>1, <1>2, <1>3, OwnRun
<1>6. \A v \in Workers : WorkInv(v)'
  BY <1>3 DEF Sequential, WorkInv
<1> QED BY <1>2, <1>4, <1>5, <1>6 DEF OnceInv


\* A worker's step that ends its task, or goes on with the same run.
Onward(w) ==
    /\ worker[w].at # "idle"
    /\ worker'[w].at # "llm"
    /\ worker'[w].at # "idle" => worker'[w].run = worker[w].run

\* Where the searches of a worker lead.
LEMMA SearchesMove ==
    ASSUME IInv, NEW w \in Workers,
           SearchTest(w) \/ SearchSuite(w) \/ Compare(w) \/ EndSearch(w)
    PROVE  Onward(w) /\ UNCHANGED <<runs, handler, broker, proposed>>
<1>1. /\ worker \in [Workers -> Sessions] /\ worker[w] \in Sessions
      /\ worker[w].at \in {"test", "suite", "compare"}
  BY DEF IInv, TypeOK, SearchTest, SearchSuite, Compare, EndSearch
<1>2. UNCHANGED <<runs, handler, broker, proposed>>
  BY DEF SearchTest, SearchSuite, Compare, EndSearch
<1> SUFFICES Onward(w)
  BY <1>2
<1>3. ASSUME NEW s, s.at \in {"suite", "compare", "save"}, s.run = worker[w].run,
             worker'[w] = s
      PROVE  Onward(w)
  BY <1>1, <1>3 DEF Onward
<1>4. ASSUME NEW k, Settle(w, k) PROVE Onward(w)
  <2>1. [worker[w] EXCEPT !.at = "save", !.key = k, !.loop = NoHistory] =
           [at |-> "save", run |-> worker[w].run, loaded |-> worker[w].loaded,
            held |-> worker[w].held, key |-> k, loop |-> NoHistory]
    BY <1>1, FieldsSettled
  <2>2. worker'[w] = [worker[w] EXCEPT !.at = "save", !.key = k, !.loop = NoHistory]
    BY <1>1, <1>4 DEF Settle
  <2> QED BY <1>3, <2>1, <2>2
<1>5. CASE SearchTest(w)
  <2>1. CASE \E n \in MatchOfTest(w) : Settle(w, Seen(w, n))
    <3>1. PICK n \in MatchOfTest(w) : Settle(w, Seen(w, n))
      BY <2>1
    <3>2. PICK k : k = Seen(w, n)
      OBVIOUS
    <3>3. Settle(w, k)
      BY <3>1, <3>2 DEF Settle
    <3> QED BY <1>4, <3>3
  <2>2. CASE worker' = [worker EXCEPT ![w] = [worker[w] EXCEPT
                  !.at = "suite", !.held = Load(w, TestHistory(w))]]
    <3>1. PICK h : h = Load(w, TestHistory(w))
      OBVIOUS
    <3>2. [worker[w] EXCEPT !.at = "suite", !.held = h] =
             [at |-> "suite", run |-> worker[w].run, loaded |-> worker[w].loaded,
              held |-> h, key |-> worker[w].key, loop |-> worker[w].loop]
      BY <1>1, Fields
    <3>3. worker'[w] = [worker[w] EXCEPT !.at = "suite", !.held = h]
      BY <1>1, <2>2, <3>1
    <3> QED BY <1>3, <3>2, <3>3
  <2> QED BY <1>5, <2>1, <2>2 DEF SearchTest
<1>6. CASE SearchSuite(w)
  <2>1. PICK h, l : worker' = [worker EXCEPT ![w] = [worker[w] EXCEPT
                  !.at = "compare", !.held = h, !.loop = l]]
    BY <1>6 DEF SearchSuite
  <2>2. [worker[w] EXCEPT !.at = "compare", !.held = h, !.loop = l] =
           [at |-> "compare", run |-> worker[w].run, loaded |-> worker[w].loaded,
            held |-> h, key |-> worker[w].key, loop |-> l]
    BY <1>1, FieldsListed
  <2>3. worker'[w] = [worker[w] EXCEPT !.at = "compare", !.held = h, !.loop = l]
    BY <1>1, <2>1
  <2> QED BY <1>3, <2>2, <2>3
<1>7. CASE Compare(w)
  <2>1. PICK l : worker' = [worker EXCEPT ![w] = [worker[w] EXCEPT !.loop = l]]
    BY <1>7 DEF Compare
  <2>2. [worker[w] EXCEPT !.loop = l] =
           [at |-> worker[w].at, run |-> worker[w].run, loaded |-> worker[w].loaded,
            held |-> worker[w].held, key |-> worker[w].key, loop |-> l]
    BY <1>1, Fields
  <2>3. worker'[w] = [worker[w] EXCEPT !.loop = l]
    BY <1>1, <2>1
  <2> QED BY <1>3, <1>7, <2>2, <2>3 DEF Compare
<1>8. CASE EndSearch(w)
  <2>1. PICK k : k = IF worker[w].loop.best = 0 THEN worker[w].key
                     ELSE Seen(w, worker[w].loop.best)
    OBVIOUS
  <2>2. Settle(w, k)
    BY <1>8, <2>1 DEF EndSearch, Settle
  <2> QED BY <1>4, <2>2
<1> QED BY <1>5, <1>6, <1>7, <1>8

\* Every step keeps a run's answer its only one.
LEMMA OnceStep ==
    ASSUME Sequential, IInv, OnceInv, [Next]_vars
    PROVE  OnceInv'
<1>1. ASSUME NEW h \in Threads,
             RecordIngest(h) \/ DispatchFails(h) \/ MarkDispatchFailed(h)
               \/ RecordDispatch(h) \/ RequestDies(h)
      PROVE  OnceInv'
  <2>1. RowsKept
    <3>1. CASE UNCHANGED runs
      BY <3>1 DEF RowsKept, Completed
    <3>2. CASE MarkDispatchFailed(h)
      BY <3>2, MarkKeeps
    <3> QED BY <1>1, <3>1, <3>2
            DEF RecordIngest, DispatchFails, RecordDispatch, RequestDies
  <2>2. UNCHANGED <<broker, worker, proposed>>
    BY <1>1 DEF Sequential, RecordIngest, DispatchFails, MarkDispatchFailed,
                RecordDispatch, RequestDies
  <2>3. \A g \in Threads : Asks(g)' => Asks(g) /\ handler'[g].run = handler[g].run
    BY <1>1 DEF RecordIngest, DispatchFails, MarkDispatchFailed, RecordDispatch,
                RequestDies, EndRequest, Step, IdleHandler, Asks, IInv, TypeOK
  <2> QED BY <2>1, <2>2, <2>3, NothingNew
<1>2. ASSUME NEW n \in Ids, Redeliver(n) PROVE OnceInv'
  BY <1>2 DEF Redeliver, Sequential
<1>3. ASSUME NEW w \in Workers, RowsKept, Onward(w),
             UNCHANGED <<handler, broker, proposed>>
      PROVE  OnceInv'
  BY <1>3, NothingNew DEF Onward, Sequential, Asks
<1>4. ASSUME NEW w \in Workers, TriageFails(w) \/ TaskDies(w) PROVE OnceInv'
  <2>1. Onward(w) /\ UNCHANGED <<handler, broker, proposed>>
    BY <1>4 DEF TriageFails, TaskDies, EndTask, IdleWorker, IInv, TypeOK, Onward
  <2>2. RowsKept
    BY <1>4, FailureKeeps DEF TaskDies, RowsKept, Completed
  <2> QED BY <1>3, <2>1, <2>2
<1>5. ASSUME NEW w \in Workers, Triage(w) PROVE OnceInv'
  <2>1. CASE SearchTest(w) \/ SearchSuite(w) \/ Compare(w) \/ EndSearch(w)
    BY <1>3, <2>1, SearchesMove DEF RowsKept, Completed
  <2> QED BY <1>4, <1>5, <2>1, ProposeOnce, CompleteOnce DEF Triage
<1>6. CASE UNCHANGED vars
  BY <1>6, NothingNew DEF vars, RowsKept, Completed, Asks
<1> QED BY <1>1, <1>2, <1>4, <1>5, <1>6, CreateRunOnce, DispatchOnce,
           StartTaskOnce DEF Next, Continue

\* Half of the tokens is enough for the first query.
LEMMA HalfReaches ==
    ASSUME NEW c \in Keys, NEW k \in Keys, Tokens[c] # {},
           k = c \/ 2 * Common(c, k) >= All(c, k)
    PROVE  Reaches(c, k, 1, 2)
<1>1. IsFiniteSet(Tokens[c]) /\ IsFiniteSet(Tokens[k])
  BY TokensAssumption
<1>2. Common(c, k) \in Nat /\ All(c, k) \in Nat
  BY Numbers DEF AnyKey
<1>3. CASE k = c
  <2>1. Tokens[c] \cap Tokens[c] = Tokens[c] /\ Tokens[c] \cup Tokens[c] = Tokens[c]
    OBVIOUS
  <2>2. Common(c, c) = All(c, c)
    BY <2>1 DEF Common, All
  <2> QED BY <1>2, <1>3, <2>2 DEF Reaches, Comparable
<1>4. CASE 2 * Common(c, k) >= All(c, k)
  <2>1. All(c, k) # 0
    <3>1. Tokens[c] \cup Tokens[k] # {} /\ IsFiniteSet(Tokens[c] \cup Tokens[k])
      BY <1>1, FS_Union
    <3> QED BY <3>1, FS_EmptySet DEF All
  <2>2. Common(c, k) # 0
    BY <1>2, <1>4, <2>1
  <2>3. Tokens[k] # {}
    <3>1. CASE Tokens[k] = {}
      <4>1. Tokens[c] \cap Tokens[k] = {}
        BY <3>1
      <4> QED BY <2>2, <4>1, FS_EmptySet DEF Common
    <3> QED BY <3>1
  <2> QED BY <1>2, <1>4, <2>3 DEF Reaches, Comparable
<1> QED BY <1>3, <1>4

\* The previous run of the test, when the LLM gave both the answer k.
Repeats(n, k) ==
    {m \in Previous(n) : <<m, k>> \in proposed /\ <<n, k>> \in proposed}

\* A key without tokens is never exchanged for another.
NamelessInv ==
    \A p \in proposed :
        Tokens[p[2]] = {} => runs[p[1]].has.key \in {p[2], Pending}

\* What the search has established about a previous run with the same answer.
SearchInv(w) ==
    LET s == worker[w] IN
    /\ s.at \in {"llm", "test"} => DOMAIN s.held = {s.run}
    /\ s.at \in {"test", "suite", "compare"} => Tokens[s.key] # {}
    /\ s.at \in {"suite", "compare"} => \A k \in Keys : Repeats(s.run, k) = {}
    /\ s.at = "save" => \A k \in Keys :
          /\ \A m \in Repeats(s.run, k) : s.key = runs[m].has.key
          /\ <<s.run, k>> \in proposed /\ Tokens[k] = {} => s.key = k

RepeatInv == NamelessInv /\ \A w \in Workers : SearchInv(w)

\* Repetitions are a matter of tests, answers and what is completed.
LEMMA RepeatsKept ==
    ASSUME RowsKept, UNCHANGED proposed, NEW n \in DOMAIN runs, NEW k
    PROVE  Repeats(n, k)' = Repeats(n, k)
<1>1. \A i \in Completed : i \in DOMAIN runs
  BY DEF Completed
<1>2. Completed' = Completed /\ \A i \in DOMAIN runs : runs'[i].test = runs[i].test
  BY DEF RowsKept
<1> HIDE DEF RowsKept
<1>3. Previous(n)' = Previous(n)
  BY <1>1, <1>2 DEF Previous
<1> QED BY <1>3 DEF Repeats

\* Nor is the fate of a key without tokens.
LEMMA NamelessKept ==
    ASSUME IInv, RowsKept, NamelessInv, UNCHANGED proposed
    PROVE  NamelessInv'
BY DEF IInv, RowInv, RowsKept, NamelessInv

\* A step that leaves the worker where it is.
LEMMA WaitRepeat ==
    ASSUME IInv, RepeatInv, RowsKept, UNCHANGED <<worker, proposed>>
    PROVE  RepeatInv'
<1>1. NamelessInv'
  BY NamelessKept DEF RepeatInv
<1>2. ASSUME NEW w \in Workers PROVE SearchInv(w)'
  <2>1. CASE worker[w].at = "idle"
    BY <2>1 DEF SearchInv
  <2>2. CASE worker[w].at # "idle"
    <3>1. PICK n : n = worker[w].run
      OBVIOUS
    <3>2. n \in DOMAIN runs
      BY <2>2, <3>1 DEF IInv, SessionInv
    <3>3. \A k : Repeats(n, k)' = Repeats(n, k)
      BY <3>2, RepeatsKept
    <3>4. \A k : \A m \in Repeats(n, k) : runs'[m].has.key = runs[m].has.key
      BY DEF Repeats, Previous, Completed, RowsKept
    <3>5. SearchInv(w)
      BY DEF RepeatInv
    <3>6. /\ worker[w].at \in {"llm", "test"} => DOMAIN worker[w].held = {n}
          /\ worker[w].at \in {"test", "suite", "compare"} => Tokens[worker[w].key] # {}
          /\ worker[w].at \in {"suite", "compare"} => \A k \in Keys : Repeats(n, k) = {}
          /\ worker[w].at = "save" => \A k \in Keys :
                /\ \A m \in Repeats(n, k) : worker[w].key = runs[m].has.key
                /\ <<n, k>> \in proposed /\ Tokens[k] = {} => worker[w].key = k
      BY <3>1, <3>5 DEF SearchInv
    <3>7. /\ worker[w].at \in {"suite", "compare"} => \A k \in Keys : Repeats(n, k)' = {}
          /\ worker[w].at = "save" => \A k \in Keys :
                \A m \in Repeats(n, k)' : worker[w].key = runs'[m].has.key
      BY <3>3, <3>4, <3>6
    <3>8. \A k : Repeats(worker[w].run, k)' = Repeats(n, k)'
      BY <3>1 DEF Repeats, Previous
    <3> QED BY <3>1, <3>6, <3>7, <3>8 DEF SearchInv
  <2> QED BY <2>1, <2>2
<1> QED BY <1>1, <1>2 DEF RepeatInv

\* The first query finds the previous run, when it was given the same answer.
LEMMA PreviousIsFound ==
    ASSUME Sequential, IInv, OnceInv, RepeatInv, NEW w \in Workers,
           worker[w].at = "test", NEW n, n = worker[w].run,
           NEW k \in Keys, NEW m \in Repeats(n, k)
    PROVE  MatchOfTest(w) = {m} /\ Seen(w, m) = runs[m].has.key
<1>1. /\ m \in DOMAIN runs /\ m # n /\ runs[m].has.status = "completed"
      /\ runs[m].test = runs[n].test
      /\ \A i \in Completed \ {n} : runs[i].test = runs[n].test => i <= m
      /\ <<m, k>> \in proposed /\ <<n, k>> \in proposed
  BY DEF Repeats, Previous, Completed
<1>2. /\ n \in DOMAIN runs /\ runs[n].has.key = Pending
      /\ <<n, worker[w].key>> \in proposed
  BY DEF IInv, SessionInv, OnceInv, WorkInv
<1>3. k = worker[w].key
  <2>1. PICK p, q : p = <<n, k>> /\ q = <<n, worker[w].key>>
    OBVIOUS
  <2>2. p = q
    BY <1>1, <1>2, <2>1 DEF OnceInv
  <2> QED BY <2>1, <2>2
<1>4. Tokens[k] # {}
  BY <1>3 DEF RepeatInv, SearchInv
<1>5. PICK key : key = runs[m].has.key
  OBVIOUS
<1>6. key # Pending /\ Fits(key, m)
  BY <1>1, <1>5 DEF IInv, RowInv
<1>7. key = k \/ 2 * Common(k, key) >= All(k, key)
  <2>1. PICK p \in proposed :
           p[1] = m /\ (key = p[2] \/ 2 * Common(p[2], key) >= All(p[2], key))
    BY <1>6 DEF Fits, Justified
  <2>2. PICK q : q = <<m, k>>
    OBVIOUS
  <2>3. p = q
    BY <1>1, <2>1, <2>2 DEF OnceInv
  <2> QED BY <2>1, <2>2, <2>3
<1>8. Reaches(k, key, 1, 2)
  BY <1>4, <1>6, <1>7, HalfReaches DEF Fits
<1>9. Seen(w, m) = key
  <2>1. DOMAIN worker[w].held = {n}
    BY DEF RepeatInv, SearchInv
  <2> QED BY <1>1, <1>5, <2>1 DEF Seen
<1>10. PICK ns : ns = {i \in Clustered(Suite[TestOf(w)]) : runs[i].test = TestOf(w)}
  OBVIOUS
<1>11. \A i \in ns : i \in Nat /\ i <= m
  <2>1. \A i \in ns : /\ i \in DOMAIN runs /\ runs[i].has.status = "completed"
                      /\ runs[i].has.key # Pending /\ runs[i].test = runs[n].test
    BY <1>10 DEF Clustered, TestOf
  <2>2. \A i \in ns : i \in Completed /\ i # n
    BY <1>2, <2>1 DEF Completed
  <2> QED BY <1>1, <2>1, <2>2, StoredRows DEF Ids
<1>12. m \in ns /\ m \in Nat
  BY <1>1, <1>5, <1>6, <1>10, StoredRows DEF Clustered, TestOf, Ids
<1>13. m \in TestHistory(w)
  <2>1. {i \in ns : i > m} = {}
    <3>1. ASSUME NEW i \in ns PROVE ~(i > m)
      BY <1>11, <1>12
    <3> QED BY <3>1
  <2>2. Cardinality({}) < TestLimit
    BY FS_EmptySet, BoundsAssumption DEF Sequential
  <2>3. m \in Newest(ns, TestLimit)
    BY <1>12, <2>1, <2>2 DEF Newest
  <2> QED BY <1>10, <2>3 DEF TestHistory
<1>14. \A i \in TestHistory(w) : i \in ns
  BY <1>10 DEF TestHistory, Newest
<1>15. PICK similar : similar = {i \in TestHistory(w) : Reaches(worker[w].key, Seen(w, i), 1, 2)}
  OBVIOUS
<1>16. m \in similar /\ \A i \in similar : i \in Nat /\ i <= m
  BY <1>3, <1>8, <1>9, <1>11, <1>13, <1>14, <1>15
<1>17. {i \in similar : \A j \in similar : j <= i} = {m}
  <2>1. ASSUME NEW i \in similar PROVE (\A j \in similar : j <= i) <=> i = m
    <3>1. i \in Nat /\ i <= m /\ m \in similar /\ m \in Nat
      BY <1>12, <1>16
    <3>2. i = m => \A j \in similar : j <= i
      BY <1>16
    <3>3. (\A j \in similar : j <= i) => m <= i
      BY <3>1
    <3>4. m <= i => i = m
      BY <3>1
    <3> QED BY <3>2, <3>3, <3>4
  <2> QED BY <1>16, <2>1
<1> QED BY <1>5, <1>9, <1>15, <1>17 DEF MatchOfTest

\* A task begins with its own run alone in its session.
LEMMA StartTaskRepeat ==
    ASSUME Sequential, IInv, RepeatInv, NEW w \in Workers, NEW n \in Ids,
           StartTask(w, n)
    PROVE  RepeatInv'
<1>1. UNCHANGED <<runs, proposed>>
  BY DEF StartTask
<1>2. /\ worker'[w].at = "llm" /\ worker'[w].run = n
      /\ DOMAIN worker'[w].held = {n}
  BY DEF StartTask, IInv, TypeOK
<1>3. SearchInv(w)'
  BY <1>2 DEF SearchInv
<1>4. NamelessInv'
  BY <1>1 DEF NamelessInv, RepeatInv
<1> QED BY <1>3, <1>4 DEF RepeatInv, Sequential

\* An answer without tokens is what the previous run got for it.
LEMMA ProposeRepeat ==
    ASSUME Sequential, IInv, OnceInv, RepeatInv, NEW w \in Workers,
           NEW said \in Keys \cup {Placeholder}, Propose(w, said)
    PROVE  RepeatInv'
<1>1. PICK n : n = worker[w].run
  OBVIOUS
<1>2. PICK key : key = Canonical(TestOf(w), said)
  OBVIOUS
<1>3. PICK a : a = IF Tokens[key] = {} THEN "save" ELSE "test"
  OBVIOUS
<1>4. /\ worker[w].at = "llm" /\ worker[w] \in Sessions
      /\ worker' = [worker EXCEPT ![w] = [worker[w] EXCEPT !.at = a, !.key = key]]
      /\ proposed' = proposed \cup {<<n, key>>}
      /\ UNCHANGED runs
      /\ worker \in [Workers -> Sessions]
  BY <1>1, <1>2, <1>3 DEF Propose, IInv, TypeOK
<1>5. /\ worker'[w].run = n /\ worker'[w].at = a /\ worker'[w].key = key
      /\ worker'[w].held = worker[w].held
  <2>1. worker'[w] = [worker[w] EXCEPT !.at = a, !.key = key]
    BY <1>4
  <2>2. worker'[w] = [at |-> a, run |-> worker[w].run, loaded |-> worker[w].loaded,
                      held |-> worker[w].held, key |-> key, loop |-> worker[w].loop]
    BY <1>4, <2>1, Fields
  <2> QED BY <1>1, <2>2
<1>6. Untried(n) /\ n \in DOMAIN runs
  BY <1>1, <1>4 DEF OnceInv, WorkInv, IInv, SessionInv
<1>7. NamelessInv'
  BY <1>4, <1>6 DEF RepeatInv, NamelessInv, Untried
<1>8. DOMAIN worker'[w].held = {n}
  BY <1>1, <1>4, <1>5 DEF RepeatInv, SearchInv
<1>9. ASSUME a = "save", NEW k \in Keys, <<n, k>> \in proposed' PROVE k = key
  BY <1>4, <1>6, <1>9 DEF Untried
<1>10. ASSUME a = "save", NEW k \in Keys, NEW m \in Repeats(n, k)'
       PROVE  key = runs'[m].has.key
  <2>1. /\ <<n, k>> \in proposed' /\ <<m, k>> \in proposed' /\ m # n
        /\ m \in DOMAIN runs /\ runs[m].has.status = "completed"
    BY <1>4, <1>10 DEF Repeats, Previous, Completed
  <2>2. k = key /\ Tokens[key] = {}
    BY <1>3, <1>9, <1>10, <2>1
  <2>3. PICK p \in proposed : p = <<m, k>>
    BY <1>4, <2>1
  <2>4. p[1] = m /\ p[2] = key
    BY <2>2, <2>3
  <2>5. runs[m].has.key \in {key, Pending} /\ runs[m].has.key # Pending
    BY <2>1, <2>2, <2>4 DEF RepeatInv, NamelessInv, IInv, RowInv
  <2> QED BY <1>4, <2>5
<1>11. SearchInv(w)'
  <2>1. \A k : Repeats(worker[w].run, k)' = Repeats(n, k)'
    BY <1>1, <1>4, <1>5 DEF Repeats, Previous
  <2>2. a = "save" => \A k \in Keys :
           /\ \A m \in Repeats(worker[w].run, k)' : key = runs'[m].has.key
           /\ <<n, k>> \in proposed' /\ Tokens[k] = {} => key = k
    BY <1>9, <1>10, <2>1
  <2> QED BY <1>3, <1>5, <1>8, <2>2 DEF SearchInv
<1> QED BY <1>7, <1>11 DEF RepeatInv, Sequential

\* The answer that is being searched for is the only one of the run, and has
\* tokens.
LEMMA SearchedAnswer ==
    ASSUME IInv, OnceInv, RepeatInv, NEW w \in Workers,
           worker[w].at \in {"test", "suite", "compare"},
           NEW k, <<worker[w].run, k>> \in proposed
    PROVE  k = worker[w].key /\ Tokens[k] # {}
<1>1. PICK p, q : p = <<worker[w].run, k>> /\ q = <<worker[w].run, worker[w].key>>
  OBVIOUS
<1>2. q \in proposed /\ Tokens[worker[w].key] # {}
  BY <1>1 DEF IInv, SessionInv, RepeatInv, SearchInv
<1>3. p = q
  BY <1>1, <1>2 DEF OnceInv
<1> QED BY <1>1, <1>2, <1>3

\* A worker that settles on a key has the previous run's, if there is one with
\* the same answer.
LEMMA SettleRepeat ==
    ASSUME Sequential, IInv, OnceInv, RepeatInv, NEW w \in Workers,
           worker[w].at \in {"test", "suite", "compare"},
           UNCHANGED <<runs, proposed>>, NEW key, Settle(w, key),
           \A k \in Keys : \A m \in Repeats(worker[w].run, k) : key = runs[m].has.key
    PROVE  RepeatInv'
<1>1. PICK n : n = worker[w].run
  OBVIOUS
<1>2. /\ worker'[w].at = "save" /\ worker'[w].run = n /\ worker'[w].key = key
  <2>1. worker \in [Workers -> Sessions] /\ worker[w] \in Sessions
    BY DEF IInv, TypeOK
  <2>2. worker'[w] = [worker[w] EXCEPT !.at = "save", !.key = key, !.loop = NoHistory]
    BY <2>1 DEF Settle
  <2>3. [worker[w] EXCEPT !.at = "save", !.key = key, !.loop = NoHistory] =
           [at |-> "save", run |-> worker[w].run, loaded |-> worker[w].loaded,
            held |-> worker[w].held, key |-> key, loop |-> NoHistory]
    BY <2>1, FieldsSettled
  <2> QED BY <1>1, <2>2, <2>3
<1>3. \A k \in Keys : \A m \in Repeats(n, k)' : key = runs'[m].has.key
  BY <1>1 DEF Repeats, Previous, Completed
<1>4. \A k \in Keys : <<n, k>> \in proposed' => Tokens[k] # {}
  BY <1>1, SearchedAnswer
<1>5. \A k : Repeats(worker[w].run, k)' = Repeats(n, k)'
  BY <1>1, <1>2 DEF Repeats, Previous
<1>6. SearchInv(w)'
  BY <1>2, <1>3, <1>4, <1>5 DEF SearchInv
<1>7. NamelessInv'
  BY DEF NamelessInv, RepeatInv
<1> QED BY <1>6, <1>7 DEF RepeatInv, Sequential

\* A worker that searches on has not met a run with the same answer.
LEMMA GoOnRepeat ==
    ASSUME Sequential, IInv, OnceInv, RepeatInv, NEW w \in Workers,
           UNCHANGED <<runs, proposed>>,
           worker[w].at \in {"test", "suite", "compare"},
           worker'[w].at \in {"suite", "compare"},
           worker'[w].run = worker[w].run, worker'[w].key = worker[w].key,
           \A k \in Keys : Repeats(worker[w].run, k) = {}
    PROVE  RepeatInv'
<1>1. PICK n : n = worker[w].run
  OBVIOUS
<1>2. \A k \in Keys : Repeats(n, k)' = {}
  BY <1>1 DEF Repeats, Previous, Completed
<1>3. \A k : Repeats(worker[w].run, k)' = Repeats(n, k)'
  BY <1>1 DEF Repeats, Previous
<1>4. Tokens[worker[w].key] # {}
  BY DEF RepeatInv, SearchInv
<1>5. SearchInv(w)'
  BY <1>2, <1>3, <1>4 DEF SearchInv
<1>6. NamelessInv'
  BY DEF NamelessInv, RepeatInv
<1> QED BY <1>5, <1>6 DEF RepeatInv, Sequential

\* The searches pass on what they have established.
LEMMA SearchTestRepeat ==
    ASSUME Sequential, IInv, OnceInv, RepeatInv, NEW w \in Workers, SearchTest(w)
    PROVE  RepeatInv'
<1>1. /\ worker[w].at = "test" /\ UNCHANGED <<runs, proposed>>
      /\ worker \in [Workers -> Sessions] /\ worker[w] \in Sessions
  BY DEF SearchTest, IInv, TypeOK
<1>2. PICK n : n = worker[w].run
  OBVIOUS
<1>3. ASSUME NEW i \in MatchOfTest(w), Settle(w, Seen(w, i)) PROVE RepeatInv'
  <2>1. PICK key : key = Seen(w, i)
    OBVIOUS
  <2>2. Settle(w, key)
    BY <1>3, <2>1 DEF Settle
  <2>3. ASSUME NEW k \in Keys, NEW m \in Repeats(n, k)
        PROVE  key = runs[m].has.key
    <3>1. MatchOfTest(w) = {m} /\ Seen(w, m) = runs[m].has.key
      BY <1>1, <1>2, <2>3, PreviousIsFound
    <3>2. i = m
      BY <1>3, <3>1
    <3> QED BY <2>1, <3>1, <3>2
  <2> QED BY <1>1, <1>2, <2>2, <2>3, SettleRepeat
<1>4. ASSUME MatchOfTest(w) = {},
             worker' = [worker EXCEPT ![w] = [worker[w] EXCEPT
                  !.at = "suite", !.held = Load(w, TestHistory(w))]]
      PROVE  RepeatInv'
  <2>1. PICK h : h = Load(w, TestHistory(w))
    OBVIOUS
  <2>2. [worker[w] EXCEPT !.at = "suite", !.held = h] =
           [at |-> "suite", run |-> worker[w].run, loaded |-> worker[w].loaded,
            held |-> h, key |-> worker[w].key, loop |-> worker[w].loop]
    BY <1>1, Fields
  <2>3. worker'[w] = [worker[w] EXCEPT !.at = "suite", !.held = h]
    BY <1>1, <1>4, <2>1
  <2>4. \A k \in Keys : Repeats(worker[w].run, k) = {}
    <3> SUFFICES ASSUME NEW k \in Keys, NEW m \in Repeats(n, k) PROVE FALSE
      BY <1>2
    <3>1. MatchOfTest(w) = {m}
      BY <1>1, <1>2, PreviousIsFound
    <3> QED BY <1>4, <3>1
  <2>5. /\ worker'[w].at = "suite" /\ worker'[w].run = worker[w].run
        /\ worker'[w].key = worker[w].key
    BY <2>2, <2>3
  <2> QED BY <1>1, <2>4, <2>5, GoOnRepeat
<1> QED BY <1>3, <1>4 DEF SearchTest

\* The second query and the loop know of no previous run with the same answer.
LEMMA SearchSuiteRepeat ==
    ASSUME Sequential, IInv, OnceInv, RepeatInv, NEW w \in Workers,
           SearchSuite(w) \/ Compare(w)
    PROVE  RepeatInv'
<1>1. /\ worker[w].at \in {"suite", "compare"} /\ UNCHANGED <<runs, proposed>>
      /\ worker \in [Workers -> Sessions] /\ worker[w] \in Sessions
  BY DEF SearchSuite, Compare, IInv, TypeOK
<1>2. \A k \in Keys : Repeats(worker[w].run, k) = {}
  BY <1>1 DEF RepeatInv, SearchInv
<1>3. /\ worker'[w].at = "compare" /\ worker'[w].run = worker[w].run
      /\ worker'[w].key = worker[w].key
  <2>1. CASE SearchSuite(w)
    <3>1. PICK h, l : worker' = [worker EXCEPT ![w] = [worker[w] EXCEPT
                    !.at = "compare", !.held = h, !.loop = l]]
      BY <2>1 DEF SearchSuite
    <3>2. [worker[w] EXCEPT !.at = "compare", !.held = h, !.loop = l] =
             [at |-> "compare", run |-> worker[w].run, loaded |-> worker[w].loaded,
              held |-> h, key |-> worker[w].key, loop |-> l]
      BY <1>1, FieldsListed
    <3>3. worker'[w] = [worker[w] EXCEPT !.at = "compare", !.held = h, !.loop = l]
      BY <1>1, <3>1
    <3> QED BY <3>2, <3>3
  <2>2. CASE Compare(w)
    <3>1. PICK l : worker' = [worker EXCEPT ![w] = [worker[w] EXCEPT !.loop = l]]
      BY <2>2 DEF Compare
    <3>2. [worker[w] EXCEPT !.loop = l] =
             [at |-> worker[w].at, run |-> worker[w].run, loaded |-> worker[w].loaded,
              held |-> worker[w].held, key |-> worker[w].key, loop |-> l]
      BY <1>1, Fields
    <3>3. worker'[w] = [worker[w] EXCEPT !.loop = l] /\ worker[w].at = "compare"
      BY <1>1, <2>2, <3>1 DEF Compare
    <3> QED BY <3>2, <3>3
  <2> QED BY <2>1, <2>2
<1> QED BY <1>1, <1>2, <1>3, GoOnRepeat

\* So whatever the loop settles on contradicts none.
LEMMA EndSearchRepeat ==
    ASSUME Sequential, IInv, OnceInv, RepeatInv, NEW w \in Workers, EndSearch(w)
    PROVE  RepeatInv'
<1>1. worker[w].at = "compare" /\ UNCHANGED <<runs, proposed>>
  BY DEF EndSearch
<1>2. \A k \in Keys : Repeats(worker[w].run, k) = {}
  BY <1>1 DEF RepeatInv, SearchInv
<1>3. PICK key : key = IF worker[w].loop.best = 0 THEN worker[w].key
                       ELSE Seen(w, worker[w].loop.best)
  OBVIOUS
<1>4. Settle(w, key)
  BY <1>3 DEF EndSearch, Settle
<1> QED BY <1>1, <1>2, <1>4, SettleRepeat

\* The key that is committed for an answer without tokens is that answer.
LEMMA CompleteRepeat ==
    ASSUME Sequential, IInv, OnceInv, RepeatInv, NEW w \in Workers, Complete(w)
    PROVE  RepeatInv'
<1>1. PICK n : n = worker[w].run
  OBVIOUS
<1>2. /\ runs'[n].has.key = worker[w].key
      /\ \A i \in DOMAIN runs : i # n => runs'[i] = runs[i]
      /\ worker'[w].at = "idle" /\ UNCHANGED proposed /\ worker[w].at = "save"
  <2>1. UNCHANGED proposed /\ worker[w].at = "save"
    BY DEF Complete, EndTask
  <2>2. worker'[w].at = "idle"
    BY <1>1, Committed DEF IdleWorker
  <2> QED BY <1>1, <2>1, <2>2, Committed
<1>3. ASSUME NEW p \in proposed, Tokens[p[2]] = {}
      PROVE  runs'[p[1]].has.key \in {p[2], Pending}
  <2>1. p[1] \in DOMAIN runs /\ runs[p[1]].has.key \in {p[2], Pending}
        /\ p = <<p[1], p[2]>> /\ p[2] \in Keys
    <3>1. p \in Ids \X Keys
      BY DEF IInv, TypeOK
    <3>2. p[1] \in DOMAIN runs
      BY DEF IInv, RowInv
    <3>3. runs[p[1]].has.key \in {p[2], Pending}
      BY <1>3 DEF RepeatInv, NamelessInv
    <3> QED BY <3>1, <3>2, <3>3
  <2>2. CASE p[1] = n
    <3>1. PICK k \in Keys : k = p[2]
      BY <2>1
    <3>2. <<n, k>> \in proposed /\ Tokens[k] = {}
      BY <1>3, <2>1, <2>2, <3>1
    <3>3. worker[w].key = k
      BY <1>1, <1>2, <3>2 DEF RepeatInv, SearchInv
    <3> QED BY <1>2, <2>2, <3>1, <3>3
  <2> QED BY <1>2, <2>1, <2>2
<1>4. SearchInv(w)'
  BY <1>2 DEF SearchInv
<1> QED BY <1>2, <1>3, <1>4 DEF RepeatInv, NamelessInv, Sequential

\* A task that ends without a key leaves nothing to be said of it.
LEMMA LeaveRepeat ==
    ASSUME Sequential, IInv, RepeatInv, NEW w \in Workers, RowsKept, EndTask(w)
    PROVE  RepeatInv'
<1>1. worker'[w].at = "idle" /\ UNCHANGED proposed
  BY DEF EndTask, IdleWorker, IInv, TypeOK
<1>2. NamelessInv'
  BY <1>1, NamelessKept DEF RepeatInv
<1>3. SearchInv(w)'
  BY <1>1 DEF SearchInv
<1> QED BY <1>2, <1>3 DEF RepeatInv, Sequential

\* Every step keeps what the searches have established.
LEMMA RepeatStep ==
    ASSUME Sequential, IInv, OnceInv, RepeatInv, [Next]_vars
    PROVE  RepeatInv'
<1>1. ASSUME NEW h \in Threads, NEW t \in Tests, CreateRun(h, t) PROVE RepeatInv'
  BY <1>1, CreateRunKeeps, WaitRepeat DEF CreateRun
<1>2. ASSUME NEW h \in Threads, MarkDispatchFailed(h) PROVE RepeatInv'
  BY <1>2, MarkKeeps, WaitRepeat DEF MarkDispatchFailed
<1>3. CASE UNCHANGED <<runs, worker, proposed>>
  BY <1>3, WaitRepeat DEF RowsKept, Completed
<1>4. ASSUME NEW w \in Workers, TriageFails(w) \/ TaskDies(w) PROVE RepeatInv'
  <2>1. RowsKept
    BY <1>4, FailureKeeps DEF TaskDies, RowsKept, Completed
  <2> QED BY <1>4, <2>1, LeaveRepeat DEF TriageFails, TaskDies
<1>5. ASSUME NEW w \in Workers, Triage(w) PROVE RepeatInv'
  BY <1>4, <1>5, ProposeRepeat, SearchTestRepeat, SearchSuiteRepeat,
     EndSearchRepeat, CompleteRepeat DEF Triage
<1>6. ASSUME NEW h \in Threads, Continue(h) \/ RequestDies(h) PROVE RepeatInv'
  BY <1>2, <1>3, <1>6 DEF Continue, RequestDies, RecordIngest, Dispatch,
                          DispatchFails, RecordDispatch
<1>7. ASSUME NEW n \in Ids, Redeliver(n) PROVE RepeatInv'
  BY <1>3, <1>7 DEF Redeliver
<1>8. CASE UNCHANGED vars
  BY <1>3, <1>8 DEF vars
<1> QED BY <1>1, <1>4, <1>5, <1>6, <1>7, <1>8, StartTaskRepeat DEF Next

\* With one worker and no message twice, the same answer of the LLM leads a
\* test into the cluster it was in the last time: with any keys and tokens,
\* any number of runs and of requests that write them.
THEOREM SameAnswersMeet ==
    ASSUME Sequential
    PROVE  Spec => SameAnswerSameCluster
<1>1. Init => OnceInv /\ RepeatInv
  <2> SUFFICES ASSUME Init PROVE OnceInv /\ RepeatInv
    OBVIOUS
  <2>1. /\ proposed = {}
        /\ \A h \in Threads : handler[h].at = "idle"
        /\ \A n \in Ids : broker[n] = 0
        /\ \A w \in Workers : worker[w].at = "idle"
    BY DEF Init, IdleHandler, IdleWorker
  <2>2. OnceInv
    BY <2>1 DEF OnceInv, AskInv, MessageInv, WorkInv, Asks
  <2>3. RepeatInv
    BY <2>1 DEF RepeatInv, NamelessInv, SearchInv
  <2> QED BY <2>2, <2>3
<1>2. IInv /\ OnceInv /\ RepeatInv /\ [Next]_vars => OnceInv' /\ RepeatInv'
  BY OnceStep, RepeatStep
<1>3. IInv /\ OnceInv /\ RepeatInv /\ [Next]_vars =>
        [\A n \in DOMAIN runs :
            runs'[n].has.key # runs[n].has.key =>
              \A m \in Previous(n) : \A k \in Keys :
                  <<m, k>> \in proposed /\ <<n, k>> \in proposed =>
                      runs'[n].has.key = runs[m].has.key]_vars
  <2> SUFFICES ASSUME IInv, OnceInv, RepeatInv, [Next]_vars,
                      NEW n \in DOMAIN runs, runs'[n].has.key # runs[n].has.key,
                      NEW m \in Previous(n), NEW k \in Keys,
                      <<m, k>> \in proposed, <<n, k>> \in proposed
               PROVE  runs'[n].has.key = runs[m].has.key
    OBVIOUS
  <2>1. ~RowsKept
    BY DEF RowsKept
  <2>2. PICK w \in Workers : Complete(w)
    <3>1. ~UNCHANGED runs
      BY <2>1 DEF RowsKept, Completed
    <3> QED BY <2>1, <3>1, CreateRunKeeps, MarkKeeps, FailureKeeps
            DEF Next, Continue, Triage, RecordIngest, Dispatch, DispatchFails,
                RecordDispatch, RequestDies, Redeliver, StartTask, Propose,
                SearchTest, SearchSuite, Compare, EndSearch, TaskDies, vars
  <2>3. PICK i : i = worker[w].run
    OBVIOUS
  <2>4. /\ runs'[i].has.key = worker[w].key
        /\ \A j \in DOMAIN runs : j # i => runs'[j] = runs[j]
    BY <2>2, <2>3, Committed
  <2>5. n = i
    BY <2>4
  <2>6. m \in Repeats(i, k)
    BY <2>5 DEF Repeats
  <2>7. worker[w].key = runs[m].has.key
    BY <2>2, <2>3, <2>6 DEF Complete, RepeatInv, SearchInv
  <2> QED BY <2>4, <2>5, <2>7
<1> QED BY <1>1, <1>2, <1>3, Invariance, PTL DEF Spec, SameAnswerSameCluster
=============================================================================
