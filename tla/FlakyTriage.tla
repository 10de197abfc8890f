----------------------------- MODULE FlakyTriage -----------------------------
(***************************************************************************)
(* Triage of flaky test runs: the requests that store and dispatch a run,  *)
(* and the workers that give it a cluster key.  The key is the one the LLM *)
(* proposes unless a similar one is found in the history of the test or of *)
(* its suite.  Every SELECT of that search is a step of its own, so that   *)
(* other workers commit runs in between, and so is every round of the loop *)
(* over the history of the suite.                                          *)
(*                                                                         *)
(* A cluster key is an abstract value with a set of tokens; canonical keys *)
(* that differ in the order of their tokens are different keys with the    *)
(* same set.                                                               *)
(*                                                                         *)
(* A definition whose comment begins with "Slip" is not part of Next: it   *)
(* is its neighbour with a plausible mistake, and some property below      *)
(* fails when it takes its neighbour's place.                              *)
(***************************************************************************)
EXTENDS Naturals, Sequences, FiniteSets

CONSTANTS
    Tests,        \* the tests, each a name in a suite
    Suite,        \* the suite of each test
    Keys,         \* canonical cluster keys
    Tokens,       \* the tokens of each key, and of Pending
    NameKey,      \* the key made of a test's own name
    Pending,      \* the default of column cluster_key
    Placeholder,  \* an LLM answer that names no cluster
    Threads,      \* API threads that run the triage route
    Workers,      \* celery worker processes
    TestLimit,    \* rows read of a test's history (10 in the code)
    SuiteLimit,   \* rows read of a suite's history (50 in the code)
    Faults,       \* the failures this instance exhibits
    MaxRuns,      \* bound: rows of flaky_test_runs
    MaxCopies     \* bound: messages ever put on the broker for one run

ASSUME SuiteAssumption == Tests \subseteq DOMAIN Suite
ASSUME KeysAssumption == Pending \notin Keys /\ Placeholder \notin Keys
ASSUME TokensAssumption ==
    /\ DOMAIN Tokens = Keys \cup {Pending}
    /\ \A k \in DOMAIN Tokens : IsFiniteSet(Tokens[k])
    /\ \A k \in Keys : Tokens[k] \cap Tokens[Pending] = {}
ASSUME NameKeyAssumption == NameKey \in [Tests -> Keys]
ASSUME FaultsAssumption ==
    Faults \subseteq {"request", "unclear", "redelivery", "crash"}
ASSUME BoundsAssumption ==
    {TestLimit, SuiteLimit, MaxRuns, MaxCopies} \subseteq Nat

VARIABLES
    runs,      \* the table flaky_test_runs, in the order of the primary key
    handler,   \* where a request stands and the run it has stored
    broker,    \* messages waiting on the flaky-triage queue
    copies,    \* messages ever put there (for the bound)
    worker,    \* a worker's session, its key, and its loop over a history
    proposed   \* history: the canonical keys the LLM proposed for each run

vars == <<runs, handler, broker, copies, worker, proposed>>

Ids == 1 .. MaxRuns

Verdicts == {"completed", "failed", "dispatch_failed"}

AnyKey == Keys \cup {Pending}

\* The columns a worker may write and the triage reads.
Columns == [status : {"queued"} \cup Verdicts, key : AnyKey]

Fresh == [status |-> "queued", key |-> Pending]

Rows == [test : Tests, has : Columns]

IdleHandler == [at |-> "idle", run |-> 0]

NoHistory == [listed |-> {}, todo |-> {}, best |-> 0]

IdleWorker ==
    [at |-> "idle", run |-> 0, loaded |-> Fresh, held |-> <<>>, key |-> Pending,
     loop |-> NoHistory]

Init ==
    /\ runs = <<>>
    /\ handler = [h \in Threads |-> IdleHandler]
    /\ broker = [n \in Ids |-> 0]
    /\ copies = [n \in Ids |-> 0]
    /\ worker = [w \in Workers |-> IdleWorker]
    /\ proposed = {}

----------------------------------------------------------------------------
(* FlakyTestWorkflowService.enqueue_triage, step by step. *)

Step(h, at) == handler' = [handler EXCEPT ![h].at = at]

EndRequest(h) == handler' = [handler EXCEPT ![h] = IdleHandler]

CreateRun(h, t) ==
    /\ handler[h].at = "idle"
    /\ Len(runs) < MaxRuns
    /\ runs' = Append(runs, [test |-> t, has |-> Fresh])
    /\ handler' = [handler EXCEPT ![h] = [at |-> "ingest", run |-> Len(runs) + 1]]
    /\ UNCHANGED <<broker, copies, worker, proposed>>

\* record_flaky_triage_ingest writes another table.
RecordIngest(h) ==
    /\ handler[h].at = "ingest"
    /\ Step(h, "dispatch")
    /\ UNCHANGED <<runs, broker, copies, worker, proposed>>

Publish(n) ==
    /\ broker' = [broker EXCEPT ![n] = @ + 1]
    /\ copies' = [copies EXCEPT ![n] = @ + 1]

Dispatch(h) ==
    /\ handler[h].at = "dispatch"
    /\ Publish(handler[h].run)
    /\ Step(h, "record")
    /\ UNCHANGED <<runs, worker, proposed>>

\* The dispatcher raised, whether or not the broker has the message.
DispatchFails(h) ==
    /\ handler[h].at = "dispatch"
    /\ \/ UNCHANGED <<broker, copies>>
       \/ "unclear" \in Faults /\ Publish(handler[h].run)
    /\ Step(h, "mark")
    /\ UNCHANGED <<runs, worker, proposed>>

MarkDispatchFailed(h) ==
    /\ handler[h].at = "mark"
    /\ runs' = [runs EXCEPT ![handler[h].run] =
                  [test |-> @.test,
                   has |-> [@.has EXCEPT !.status = "dispatch_failed"]]]
    /\ EndRequest(h)
    /\ UNCHANGED <<broker, copies, worker, proposed>>

\* record_dispatch writes another table.
RecordDispatch(h) ==
    /\ handler[h].at = "record"
    /\ EndRequest(h)
    /\ UNCHANGED <<runs, broker, copies, worker, proposed>>

RequestDies(h) ==
    /\ "request" \in Faults
    /\ handler[h].at # "idle"
    /\ EndRequest(h)
    /\ UNCHANGED <<runs, broker, copies, worker, proposed>>

----------------------------------------------------------------------------
(* The similarity of two keys: common tokens over all tokens. *)

Common(k, l) == Cardinality(Tokens[k] \cap Tokens[l])

All(k, l) == Cardinality(Tokens[k] \cup Tokens[l])

Comparable(k, l) == Tokens[k] # {} /\ Tokens[l] # {}

\* Slip: containment instead of the share of all tokens.
Contained(k, l, part, whole) == Comparable(k, l) /\ Common(k, l) > 0

\* The similarity of k and l is part / whole or more.
Reaches(k, l, part, whole) ==
    Comparable(k, l) /\ whole * Common(k, l) >= part * All(k, l)

\* k is more similar to c than l is.
Closer(c, k, l) == Common(c, k) * All(c, l) > Common(c, l) * All(c, k)

----------------------------------------------------------------------------
(* The search of the history, as worker w sees it. *)

Newest(ns, limit) == {n \in ns : Cardinality({m \in ns : m > n}) < limit}

\* Slip: the filter on the suite is missing.
ClusteredAnywhere(suite) ==
    {n \in DOMAIN runs : /\ runs[n].has.status = "completed"
                         /\ runs[n].has.key # Pending}

\* The completed runs of a suite.
Clustered(suite) ==
    {n \in DOMAIN runs : /\ Suite[runs[n].test] = suite
                         /\ runs[n].has.status = "completed"
                         /\ runs[n].has.key # Pending}

\* A run that the session has loaded before keeps the key it had then, although
\* the query's filter reads the key it has now.
Seen(w, n) ==
    IF n \in DOMAIN worker[w].held THEN worker[w].held[n] ELSE runs[n].has.key

TestOf(w) == runs[worker[w].run].test

TestHistory(w) ==
    Newest({n \in Clustered(Suite[TestOf(w)]) : runs[n].test = TestOf(w)},
           TestLimit)

SuiteHistory(w) == Newest(Clustered(Suite[TestOf(w)]), SuiteLimit)

\* Slip: the oldest similar run of the test.
OldestOfTest(w) ==
    LET similar == {n \in TestHistory(w) : Reaches(worker[w].key, Seen(w, n), 1, 2)}
    IN  {n \in similar : \A m \in similar : n <= m}

\* The newest run of the test whose key is similar enough, if any.
MatchOfTest(w) ==
    LET similar == {n \in TestHistory(w) : Reaches(worker[w].key, Seen(w, n), 1, 2)}
    IN  {n \in similar : \A m \in similar : m <= n}

\* Slip: score >= best_score, an equally similar but older run takes over.
BetterOrEqual(w, n, best) ==
    LET c == worker[w].key IN
    /\ Reaches(c, Seen(w, n), 3, 5)
    /\ best # 0 => ~Closer(c, Seen(w, best), Seen(w, n))

\* One round of the loop over the suite's history: best is 0 or a run.
Better(w, n, best) ==
    LET c == worker[w].key IN
    /\ Reaches(c, Seen(w, n), 3, 5)
    /\ best # 0 => Closer(c, Seen(w, n), Seen(w, best))

----------------------------------------------------------------------------
(* The worker: triage_flaky_test_task and process_triage. *)

\* A message that is held but not begun may outlive the visibility timeout.
Redeliver(n) ==
    /\ "redelivery" \in Faults
    /\ broker[n] > 0
    /\ copies[n] < MaxCopies
    /\ Publish(n)
    /\ UNCHANGED <<runs, handler, worker, proposed>>

\* Slip: a task begins although no message asks for it.
StartTaskUnasked(w, n) ==
    /\ worker[w].at = "idle"
    /\ n \in DOMAIN runs
    /\ broker' = [broker EXCEPT ![n] = @ - 1]
    /\ worker' = [worker EXCEPT ![w] = [IdleWorker EXCEPT !.at = "llm", !.run = n]]
    /\ UNCHANGED <<runs, handler, copies, proposed>>

StartTask(w, n) ==
    /\ worker[w].at = "idle"
    /\ broker[n] > 0
    /\ broker' = [broker EXCEPT ![n] = @ - 1]
    /\ worker' = [worker EXCEPT ![w] =
                    [at |-> "llm", run |-> n, loaded |-> runs[n].has,
                     held |-> [i \in {n} |-> runs[n].has.key], key |-> Pending,
                     loop |-> NoHistory]]
    /\ UNCHANGED <<runs, handler, copies, proposed>>

\* _canonicalize_cluster_key: an answer that names no cluster is replaced by
\* the name of the test.
Canonical(t, said) == IF said = Placeholder THEN NameKey[t] ELSE said

\* The LLM answers; a key without tokens is not looked for in the history.
Propose(w, said) ==
    LET key == Canonical(TestOf(w), said) IN
    /\ worker[w].at = "llm"
    /\ worker' = [worker EXCEPT ![w] =
                    [@ EXCEPT !.at = IF Tokens[key] = {} THEN "save" ELSE "test",
                              !.key = key]]
    /\ proposed' = proposed \cup {<<worker[w].run, key>>}
    /\ UNCHANGED <<runs, handler, broker, copies>>

\* The search is over.
Settle(w, key) ==
    worker' = [worker EXCEPT ![w] = [@ EXCEPT !.at = "save", !.key = key,
                                              !.loop = NoHistory]]

Load(w, ns) == [n \in DOMAIN worker[w].held \cup ns |-> Seen(w, n)]

\* The first query, for the history of the test.
SearchTest(w) ==
    /\ worker[w].at = "test"
    /\ \/ \E n \in MatchOfTest(w) : Settle(w, Seen(w, n))
       \/ /\ MatchOfTest(w) = {}
          /\ worker' = [worker EXCEPT ![w] = [@ EXCEPT
                  !.at = "suite", !.held = Load(w, TestHistory(w))]]
    /\ UNCHANGED <<runs, handler, broker, copies, proposed>>

\* The second one, for the history of the suite.
SearchSuite(w) ==
    /\ worker[w].at = "suite"
    /\ worker' = [worker EXCEPT ![w] = [@ EXCEPT
            !.at = "compare",
            !.held = Load(w, SuiteHistory(w)),
            !.loop = [listed |-> SuiteHistory(w), todo |-> SuiteHistory(w),
                      best |-> 0]]]
    /\ UNCHANGED <<runs, handler, broker, copies, proposed>>

\* A round of the loop, which goes from the newest run to the oldest.
Compare(w) ==
    LET loop == worker[w].loop IN
    /\ worker[w].at = "compare"
    /\ \E n \in loop.todo :
          /\ \A m \in loop.todo : m <= n
          /\ worker' = [worker EXCEPT ![w].loop =
                  [listed |-> loop.listed, todo |-> loop.todo \ {n},
                   best |-> IF Better(w, n, loop.best) THEN n ELSE loop.best]]
    /\ UNCHANGED <<runs, handler, broker, copies, proposed>>

EndSearch(w) ==
    LET best == worker[w].loop.best IN
    /\ worker[w].at = "compare"
    /\ worker[w].loop.todo = {}
    /\ Settle(w, IF best = 0 THEN worker[w].key ELSE Seen(w, best))
    /\ UNCHANGED <<runs, handler, broker, copies, proposed>>

\* A commit's UPDATE names only the columns the session has changed.
Flush(loaded, has, current) ==
    [status |-> IF has.status = loaded.status THEN current.status ELSE has.status,
     key |-> IF has.key = loaded.key THEN current.key ELSE has.key]

\* The row of worker w's run after it commits these columns.
Save(w, has) ==
    runs' = [runs EXCEPT ![worker[w].run] =
               [test |-> @.test, has |-> Flush(worker[w].loaded, has, @.has)]]

EndTask(w) ==
    /\ worker' = [worker EXCEPT ![w] = IdleWorker]
    /\ UNCHANGED <<handler, broker, copies, proposed>>

\* Slip: the key is left to a later commit.
CompleteUnclustered(w) ==
    /\ worker[w].at = "save"
    /\ Save(w, [worker[w].loaded EXCEPT !.status = "completed"])
    /\ EndTask(w)

Complete(w) ==
    /\ worker[w].at = "save"
    /\ Save(w, [status |-> "completed", key |-> worker[w].key])
    /\ EndTask(w)

\* The LLM fails: mark_processing_failed.
TriageFails(w) ==
    /\ worker[w].at = "llm"
    /\ Save(w, [worker[w].loaded EXCEPT !.status = "failed"])
    /\ EndTask(w)

\* An exception that process_triage does not name, or the end of the process.
TaskDies(w) ==
    /\ "crash" \in Faults
    /\ worker[w].at # "idle"
    /\ UNCHANGED runs
    /\ EndTask(w)

----------------------------------------------------------------------------
Continue(h) ==
    \/ RecordIngest(h)
    \/ Dispatch(h)
    \/ DispatchFails(h)
    \/ MarkDispatchFailed(h)
    \/ RecordDispatch(h)

Triage(w) ==
    \/ \E said \in Keys \cup {Placeholder} : Propose(w, said)
    \/ SearchTest(w)
    \/ SearchSuite(w)
    \/ Compare(w)
    \/ EndSearch(w)
    \/ Complete(w)
    \/ TriageFails(w)

Next ==
    \/ \E h \in Threads :
          \/ \E t \in Tests : CreateRun(h, t)
          \/ Continue(h)
          \/ RequestDies(h)
    \/ \E n \in Ids : Redeliver(n)
    \/ \E w \in Workers :
          (\E n \in Ids : StartTask(w, n)) \/ Triage(w) \/ TaskDies(w)

Spec == Init /\ [][Next]_vars

----------------------------------------------------------------------------
(* Properties. *)

Sessions ==
    [at : {"idle", "llm", "test", "suite", "compare", "save"},
     run : 0 .. MaxRuns, loaded : Columns,
     held : UNION {[ns -> AnyKey] : ns \in SUBSET Ids}, key : AnyKey,
     loop : [listed : SUBSET Ids, todo : SUBSET Ids, best : 0 .. MaxRuns]]

TypeOK ==
    /\ runs \in Seq(Rows)
    /\ handler \in [Threads -> [at : {"idle", "ingest", "dispatch", "mark", "record"},
                                run : 0 .. MaxRuns]]
    /\ broker \in [Ids -> Nat]
    /\ copies \in [Ids -> Nat]
    /\ worker \in [Workers -> Sessions]
    /\ proposed \subseteq Ids \X Keys

Completed == {n \in DOMAIN runs : runs[n].has.status = "completed"}

\* A completed run is in a cluster that the LLM proposed for a run of its own
\* suite: clusters never leak from one suite into another, not even along a
\* chain of reuses.
ClustersStayInSuite ==
    \A n \in Completed : \E p \in proposed :
        p[2] = runs[n].has.key /\ Suite[runs[p[1]].test] = Suite[runs[n].test]

\* A run is only moved to a cluster that shares at least half of its tokens
\* with one the LLM proposed for it, however many reuses the cluster has seen.
ReuseIsJustified ==
    \A n \in Completed : \E p \in proposed :
        /\ p[1] = n
        /\ \/ runs[n].has.key = p[2]
           \/ 2 * Common(p[2], runs[n].has.key) >= All(p[2], runs[n].has.key)

\* "best" is what the loop over "done" is meant to find: the most similar key
\* of at least 3/5 and, of equally similar ones, the newest; 0 if there is none.
IsBest(w, done, best) ==
    LET c == worker[w].key
        fit == {n \in done : Reaches(c, Seen(w, n), 3, 5)}
    IN  IF fit = {} THEN best = 0
        ELSE /\ best \in fit
             /\ \A n \in fit : ~Closer(c, Seen(w, n), Seen(w, best))
             /\ \A n \in fit : n > best => Closer(c, Seen(w, best), Seen(w, n))

\* When the loop over the suite's history ends, it has the best match of all.
BestMatchIsFound ==
    \A w \in Workers : worker[w].at = "compare" /\ worker[w].loop.todo = {} =>
        IsBest(w, worker[w].loop.listed, worker[w].loop.best)

Status == [n \in Ids |-> IF n \in DOMAIN runs THEN runs[n].has.status ELSE "absent"]
Analysed == [n \in Ids |-> n \in DOMAIN runs /\ runs[n].has.key # Pending]

\* A run keeps the same contract as a pull request job: queued, then verdicts,
\* and completed only with a cluster.
Lenient == INSTANCE JobContract WITH
    Jobs <- Ids, Final <- FALSE, status <- Status, analysed <- Analysed
KeepsContract == Lenient!Spec

\* The run of the same test that was clustered last in the order of the keys.
Previous(n) ==
    {m \in Completed \ {n} : /\ runs[m].test = runs[n].test
                             /\ \A i \in Completed \ {n} :
                                   runs[i].test = runs[n].test => i <= m}

\* With one worker and without duplicates the same answer of the LLM leads a
\* test into the same cluster as the last time.
SameAnswerSameCluster ==
    [][\A n \in DOMAIN runs :
          runs'[n].has.key # runs[n].has.key =>
            \A m \in Previous(n) : \A k \in Keys :
                <<m, k>> \in proposed /\ <<n, k>> \in proposed =>
                    runs'[n].has.key = runs[m].has.key]_vars

----------------------------------------------------------------------------
(* The inductive invariant: why the properties above hold. *)

\* The LLM proposed k for a run of this suite.
Proposed(k, suite) ==
    \E p \in proposed : p[2] = k /\ Suite[runs[p[1]].test] = suite

\* The LLM proposed k, or a key half of which is in k, for run n.
Justified(k, n) ==
    \E p \in proposed :
        p[1] = n /\ (k = p[2] \/ 2 * Common(p[2], k) >= All(p[2], k))

\* Run n may have the key k.
Fits(k, n) == k \in Keys /\ Proposed(k, Suite[runs[n].test]) /\ Justified(k, n)

RowInv ==
    /\ Len(runs) <= MaxRuns
    /\ \A p \in proposed : p[1] \in DOMAIN runs
    /\ \A n \in DOMAIN runs :
          /\ runs[n].has.key # Pending => Fits(runs[n].has.key, n)
          /\ runs[n].has.status = "completed" => runs[n].has.key # Pending

\* Requests and messages are about runs that are stored.
StoredInv ==
    /\ \A h \in Threads : handler[h].at # "idle" => handler[h].run \in DOMAIN runs
    /\ \A n \in Ids : broker[n] > 0 => n \in DOMAIN runs

\* A session may be stale, but only forwards.  It holds keys of its own suite,
\* and what it is about to save fits its run.
SessionInv(w) ==
    LET s == worker[w] IN
    s.at # "idle" =>
        /\ s.run \in DOMAIN runs
        /\ s.loaded.status # "queued" => runs[s.run].has.status # "queued"
        /\ s.loaded.key # Pending => runs[s.run].has.key # Pending
        /\ s.loaded.status = "completed" => s.loaded.key # Pending
        /\ \A n \in DOMAIN s.held :
              /\ n \in DOMAIN runs
              /\ Suite[runs[n].test] = Suite[runs[s.run].test]
              /\ s.held[n] # Pending =>
                    Proposed(s.held[n], Suite[runs[s.run].test])
        /\ s.at \in {"test", "suite", "compare"} => <<s.run, s.key>> \in proposed
        /\ s.at = "save" => Fits(s.key, s.run)

\* The loop has the best of the runs it has been over, which are the newest.
LoopInv(w) ==
    LET loop == worker[w].loop IN
    worker[w].at = "compare" =>
        /\ loop.listed \subseteq DOMAIN worker[w].held
        /\ loop.todo \subseteq loop.listed
        /\ \A n \in loop.listed \ loop.todo : \A m \in loop.todo : m < n
        /\ IsBest(w, loop.listed \ loop.todo, loop.best)

IInv ==
    /\ TypeOK
    /\ RowInv
    /\ StoredInv
    /\ \A w \in Workers : SessionInv(w) /\ LoopInv(w)
=============================================================================
