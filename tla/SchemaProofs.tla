---------------------------- MODULE SchemaProofs ----------------------------
(***************************************************************************)
(* The statements of the four revisions, one after another, and what the   *)
(* schema is after each of them, upwards and downwards.                    *)
(***************************************************************************)
EXTENDS SchemaMigrations, Integers, TLAPS

Tables == {"flaky_test_runs", "pull_requests", "pull_request_analyses",
           "observability_correlations"}

\* The thirteen statements of an upgrade from nothing are numbered; this is the
\* one that creates a table,
First(t) ==
    IF t = "flaky_test_runs" THEN 1
    ELSE IF t = "pull_requests" THEN 2
    ELSE IF t = "pull_request_analyses" THEN 4
    ELSE 12

\* and the one that adds c to it.
Since(t, c) ==
    IF t = "flaky_test_runs" /\ c = "error_message" THEN 6
    ELSE IF t = "flaky_test_runs" /\ c = "ci_provider" THEN 7
    ELSE IF t = "flaky_test_runs" /\ c = "workflow_name" THEN 8
    ELSE IF t = "flaky_test_runs" /\ c = "job_name" THEN 9
    ELSE IF t = "flaky_test_runs" /\ c = "run_url" THEN 10
    ELSE IF t = "flaky_test_runs" /\ c = "commit_sha" THEN 11
    ELSE IF t = "pull_requests" /\ c = UniqueDelivery THEN 3
    ELSE IF t = "pull_requests" /\ c = "error_message" THEN 5
    ELSE IF t = "observability_correlations" /\ c = UniqueCorrelation THEN 13
    ELSE First(t)

\* What each of them adds, and the schema when the first i have been executed.
Added(i) == {x \in Declared : Since(x[1], x[2]) = i}
At(i) == {x \in Declared : Since(x[1], x[2]) <= i}

\* The last statement of a revision.
End(v) == IF v = 0 THEN 0 ELSE IF v = 1 THEN 4 ELSE IF v = 2 THEN 6
          ELSE IF v = 3 THEN 11 ELSE 13

\* The tables and the columns that the models declare.
LEMMA DeclaredTables ==
    /\ DOMAIN Models = Tables
    /\ \A x : x \in Declared <=>
          \E t \in Tables : \E c \in Models[t] : x = <<t, c>>
<1>1. DOMAIN Models = Tables
  BY DEF Models, Tables
<1>2. Declared = UNION {Of(t, Models[t]) : t \in Tables}
  BY <1>1 DEF Declared
<1>3. \A x : x \in Declared <=> \E t \in Tables : \E c \in Models[t] : x = <<t, c>>
  BY <1>2 DEF Of
<1> QED BY <1>1, <1>3

\* What a statement adds to a table, from the columns of that table alone.
LEMMA AddedToTable ==
    ASSUME NEW t \in Tables, NEW i, NEW has,
           \A c : c \in has <=> c \in Models[t] /\ Since(t, c) = i,
           \A u \in Tables : \A c : Since(u, c) = i => u = t
    PROVE  Of(t, has) = Added(i)
<1>1. ASSUME NEW x \in Added(i)
      PROVE  x \in Of(t, has)
  <2>1. PICK u \in Tables : \E c \in Models[u] : x = <<u, c>>
    BY DeclaredTables DEF Added
  <2>2. PICK c \in Models[u] : x = <<u, c>>
    BY <2>1
  <2>3. Since(u, c) = i
    BY <2>2 DEF Added
  <2> QED BY <2>2, <2>3 DEF Of
<1>2. ASSUME NEW x \in Of(t, has)
      PROVE  x \in Added(i)
  <2>1. PICK c \in has : x = <<t, c>>
    BY DEF Of
  <2>2. x \in Declared
    BY <2>1, DeclaredTables
  <2> QED BY <2>1, <2>2 DEF Added
<1> QED BY <1>1, <1>2

\* No other table is touched by statement i.
LEMMA OneTableEach ==
    ASSUME NEW u \in Tables, NEW c
    PROVE  /\ u = "flaky_test_runs" => Since(u, c) \in {1, 6, 7, 8, 9, 10, 11}
           /\ u = "pull_requests" => Since(u, c) \in {2, 3, 5}
           /\ u = "pull_request_analyses" => Since(u, c) = 4
           /\ u = "observability_correlations" => Since(u, c) \in {12, 13}
           /\ Since(u, c) \in 1 .. 13
           /\ Since(u, c) >= First(u)
           /\ Since(u, "id") = First(u)
           /\ "id" \in Models[u]
<1>1. /\ UniqueDelivery # "id" /\ UniqueCorrelation # "id"
  BY DEF UniqueDelivery, UniqueCorrelation
<1>2. "id" \in Models[u]
  BY DEF Models, Tables
<1>3. CASE u = "flaky_test_runs"
  BY <1>1, <1>2, <1>3 DEF Since, First
<1>4. CASE u = "pull_requests"
  BY <1>1, <1>2, <1>4 DEF Since, First
<1>5. CASE u = "pull_request_analyses"
  BY <1>1, <1>2, <1>5 DEF Since, First
<1>6. CASE u = "observability_correlations"
  BY <1>1, <1>2, <1>6 DEF Since, First
<1> QED BY <1>3, <1>4, <1>5, <1>6 DEF Tables

\* When the columns of each table come in.
LEMMA SinceInTable ==
    ASSUME NEW c
    PROVE  /\ Since("pull_requests", c) =
                IF c = UniqueDelivery THEN 3 ELSE IF c = "error_message" THEN 5 ELSE 2
           /\ Since("pull_request_analyses", c) = 4
           /\ Since("observability_correlations", c) =
                IF c = UniqueCorrelation THEN 13 ELSE 12
BY DEF Since, First

----------------------------------------------------------------------------
(* The statements. *)

\* u is statement i, and d is the statement that undoes it.
Matches(i, u, d) ==
    /\ u.table \in Tables
    /\ d.table = u.table
    /\ Of(u.table, u.has) = Added(i)
    /\ \/ /\ First(u.table) = i
          /\ u.do = "create" /\ d.do = "drop"
       \/ /\ First(u.table) < i
          /\ u.do = "add" /\ d.do = "remove" /\ d.has = u.has
          /\ \E c : u.has = {c}

\* A create_table and the drop_table of its downgrade are one numbered statement.
LEMMA CreateMatches ==
    ASSUME NEW t \in Tables, NEW i, First(t) = i, NEW has,
           Of(t, has) = Added(i)
    PROVE  Matches(i, Create(t, has), Drop(t))
BY DEF Matches, Create, Drop

\* An add_column and the drop_column of its downgrade are one numbered statement.
LEMMA AddMatches ==
    ASSUME NEW t \in Tables, NEW i, First(t) < i, NEW c,
           Of(t, {c}) = Added(i)
    PROVE  Matches(i, Add(t, c), Remove(t, c))
BY DEF Matches, Add, Remove

\* Which statement a revision has at which place, in both directions.
LEMMA Statements ==
    /\ Matches(1, Upgrade[1][1], Downgrade[1][4])
    /\ Matches(2, Upgrade[1][2], Downgrade[1][3])
    /\ Matches(3, Upgrade[1][3], Downgrade[1][2])
    /\ Matches(4, Upgrade[1][4], Downgrade[1][1])
    /\ Matches(5, Upgrade[2][1], Downgrade[2][2])
    /\ Matches(6, Upgrade[2][2], Downgrade[2][1])
    /\ Matches(7, Upgrade[3][1], Downgrade[3][5])
    /\ Matches(8, Upgrade[3][2], Downgrade[3][4])
    /\ Matches(9, Upgrade[3][3], Downgrade[3][3])
    /\ Matches(10, Upgrade[3][4], Downgrade[3][2])
    /\ Matches(11, Upgrade[3][5], Downgrade[3][1])
    /\ Matches(12, Upgrade[4][1], Downgrade[4][2])
    /\ Matches(13, Upgrade[4][2], Downgrade[4][1])
<1>1. Matches(1, Upgrade[1][1], Downgrade[1][4])
  <2> DEFINE has == Core[1].has
  <2>1. Upgrade[1][1] = Create("flaky_test_runs", has) /\ Downgrade[1][4] = Drop("flaky_test_runs")
    BY DEF Upgrade, Downgrade, Core, CoreDown, Create
  <2>2. \A c : c \in has <=> c \in Models["flaky_test_runs"] /\ Since("flaky_test_runs", c) = 1
    BY DEF Models, Since, First, Core, Create, UniqueDelivery, UniqueCorrelation
  <2> HIDE DEF has
  <2>3. Of("flaky_test_runs", has) = Added(1)
    BY <2>2, AddedToTable, OneTableEach DEF Tables
  <2> QED BY <2>1, <2>3, CreateMatches DEF First, Tables
<1>2. Matches(2, Upgrade[1][2], Downgrade[1][3])
  <2> DEFINE has == Core[2].has
  <2>1. Upgrade[1][2] = Create("pull_requests", has) /\ Downgrade[1][3] = Drop("pull_requests")
    BY DEF Upgrade, Downgrade, Core, CoreDown, Create
  <2>2. \A c : c \in has <=> c \in Models["pull_requests"] /\ Since("pull_requests", c) = 2
    <3>1. \A c : Since("pull_requests", c) = 2 <=> c # UniqueDelivery /\ c # "error_message"
      BY SinceInTable
    <3>2. \A c : c \in has <=> c \in Models["pull_requests"] /\ c # UniqueDelivery /\ c # "error_message"
      BY DEF Models, Core, Create, UniqueDelivery
    <3> HIDE DEF has
    <3> QED BY <3>1, <3>2
  <2> HIDE DEF has
  <2>3. Of("pull_requests", has) = Added(2)
    BY <2>2, AddedToTable, OneTableEach DEF Tables
  <2> QED BY <2>1, <2>3, CreateMatches DEF First, Tables
<1>3. Matches(3, Upgrade[1][3], Downgrade[1][2])
  <2>1. /\ Upgrade[1][3] = Add("pull_requests", UniqueDelivery)
        /\ Downgrade[1][2] = Remove("pull_requests", UniqueDelivery)
    BY DEF Upgrade, Downgrade, Core, CoreDown
  <2>2. \A c : c \in {UniqueDelivery} <=> c \in Models["pull_requests"] /\ Since("pull_requests", c) = 3
    <3>1. \A c : Since("pull_requests", c) = 3 <=> c = UniqueDelivery
      BY SinceInTable
    <3>2. UniqueDelivery \in Models["pull_requests"]
      BY DEF Models, UniqueDelivery, UniqueCorrelation
    <3> QED BY <3>1, <3>2
  <2>3. Of("pull_requests", {UniqueDelivery}) = Added(3)
    BY <2>2, AddedToTable, OneTableEach DEF Tables
  <2> QED BY <2>1, <2>3, AddMatches DEF First, Tables
<1>4. Matches(4, Upgrade[1][4], Downgrade[1][1])
  <2> DEFINE has == Core[4].has
  <2>1. Upgrade[1][4] = Create("pull_request_analyses", has) /\ Downgrade[1][1] = Drop("pull_request_analyses")
    BY DEF Upgrade, Downgrade, Core, CoreDown, Create
  <2>2. \A c : c \in has <=> c \in Models["pull_request_analyses"] /\ Since("pull_request_analyses", c) = 4
    BY SinceInTable DEF Models, Core, Create, UniqueDelivery, UniqueCorrelation
  <2> HIDE DEF has
  <2>3. Of("pull_request_analyses", has) = Added(4)
    BY <2>2, AddedToTable, OneTableEach DEF Tables
  <2> QED BY <2>1, <2>3, CreateMatches DEF First, Tables
<1>5. Matches(5, Upgrade[2][1], Downgrade[2][2])
  <2>1. /\ Upgrade[2][1] = Add("pull_requests", "error_message")
        /\ Downgrade[2][2] = Remove("pull_requests", "error_message")
    BY DEF Upgrade, Downgrade, Errors, ErrorsDown
  <2>2. \A c : c \in {"error_message"} <=> c \in Models["pull_requests"] /\ Since("pull_requests", c) = 5
    <3>1. \A c : Since("pull_requests", c) = 5 <=> c = "error_message"
      <4>1. UniqueDelivery # "error_message"
        BY DEF UniqueDelivery
      <4> QED BY <4>1, SinceInTable
    <3>2. "error_message" \in Models["pull_requests"]
      BY DEF Models, UniqueDelivery, UniqueCorrelation
    <3> QED BY <3>1, <3>2
  <2>3. Of("pull_requests", {"error_message"}) = Added(5)
    BY <2>2, AddedToTable, OneTableEach DEF Tables
  <2> QED BY <2>1, <2>3, AddMatches DEF First, Tables
<1>6. Matches(6, Upgrade[2][2], Downgrade[2][1])
  <2>1. /\ Upgrade[2][2] = Add("flaky_test_runs", "error_message")
        /\ Downgrade[2][1] = Remove("flaky_test_runs", "error_message")
    BY DEF Upgrade, Downgrade, Errors, ErrorsDown
  <2>2. \A c : c \in {"error_message"} <=> c \in Models["flaky_test_runs"] /\ Since("flaky_test_runs", c) = 6
    BY DEF Models, Since, First, UniqueDelivery, UniqueCorrelation
  <2>3. Of("flaky_test_runs", {"error_message"}) = Added(6)
    BY <2>2, AddedToTable, OneTableEach DEF Tables
  <2> QED BY <2>1, <2>3, AddMatches DEF First, Tables
<1>7. Matches(7, Upgrade[3][1], Downgrade[3][5])
  <2>1. /\ Upgrade[3][1] = Add("flaky_test_runs", "ci_provider")
        /\ Downgrade[3][5] = Remove("flaky_test_runs", "ci_provider")
    BY DEF Upgrade, Downgrade, Ci, CiDown, CiColumns
  <2>2. \A c : c \in {"ci_provider"} <=> c \in Models["flaky_test_runs"] /\ Since("flaky_test_runs", c) = 7
    BY DEF Models, Since, First, UniqueDelivery, UniqueCorrelation
  <2>3. Of("flaky_test_runs", {"ci_provider"}) = Added(7)
    BY <2>2, AddedToTable, OneTableEach DEF Tables
  <2> QED BY <2>1, <2>3, AddMatches DEF First, Tables
<1>8. Matches(8, Upgrade[3][2], Downgrade[3][4])
  <2>1. /\ Upgrade[3][2] = Add("flaky_test_runs", "workflow_name")
        /\ Downgrade[3][4] = Remove("flaky_test_runs", "workflow_name")
    BY DEF Upgrade, Downgrade, Ci, CiDown, CiColumns
  <2>2. \A c : c \in {"workflow_name"} <=> c \in Models["flaky_test_runs"] /\ Since("flaky_test_runs", c) = 8
    BY DEF Models, Since, First, UniqueDelivery, UniqueCorrelation
  <2>3. Of("flaky_test_runs", {"workflow_name"}) = Added(8)
    BY <2>2, AddedToTable, OneTableEach DEF Tables
  <2> QED BY <2>1, <2>3, AddMatches DEF First, Tables
<1>9. Matches(9, Upgrade[3][3], Downgrade[3][3])
  <2>1. /\ Upgrade[3][3] = Add("flaky_test_runs", "job_name")
        /\ Downgrade[3][3] = Remove("flaky_test_runs", "job_name")
    BY DEF Upgrade, Downgrade, Ci, CiDown, CiColumns
  <2>2. \A c : c \in {"job_name"} <=> c \in Models["flaky_test_runs"] /\ Since("flaky_test_runs", c) = 9
    BY DEF Models, Since, First, UniqueDelivery, UniqueCorrelation
  <2>3. Of("flaky_test_runs", {"job_name"}) = Added(9)
    BY <2>2, AddedToTable, OneTableEach DEF Tables
  <2> QED BY <2>1, <2>3, AddMatches DEF First, Tables
<1>10. Matches(10, Upgrade[3][4], Downgrade[3][2])
  <2>1. /\ Upgrade[3][4] = Add("flaky_test_runs", "run_url")
        /\ Downgrade[3][2] = Remove("flaky_test_runs", "run_url")
    BY DEF Upgrade, Downgrade, Ci, CiDown, CiColumns
  <2>2. \A c : c \in {"run_url"} <=> c \in Models["flaky_test_runs"] /\ Since("flaky_test_runs", c) = 10
    BY DEF Models, Since, First, UniqueDelivery, UniqueCorrelation
  <2>3. Of("flaky_test_runs", {"run_url"}) = Added(10)
    BY <2>2, AddedToTable, OneTableEach DEF Tables
  <2> QED BY <2>1, <2>3, AddMatches DEF First, Tables
<1>11. Matches(11, Upgrade[3][5], Downgrade[3][1])
  <2>1. /\ Upgrade[3][5] = Add("flaky_test_runs", "commit_sha")
        /\ Downgrade[3][1] = Remove("flaky_test_runs", "commit_sha")
    BY DEF Upgrade, Downgrade, Ci, CiDown, CiColumns
  <2>2. \A c : c \in {"commit_sha"} <=> c \in Models["flaky_test_runs"] /\ Since("flaky_test_runs", c) = 11
    BY DEF Models, Since, First, UniqueDelivery, UniqueCorrelation
  <2>3. Of("flaky_test_runs", {"commit_sha"}) = Added(11)
    BY <2>2, AddedToTable, OneTableEach DEF Tables
  <2> QED BY <2>1, <2>3, AddMatches DEF First, Tables
<1>12. Matches(12, Upgrade[4][1], Downgrade[4][2])
  <2> DEFINE has == Tracing[1].has
  <2>1. Upgrade[4][1] = Create("observability_correlations", has) /\ Downgrade[4][2] = Drop("observability_correlations")
    BY DEF Upgrade, Downgrade, Tracing, TracingDown, Create
  <2>2. \A c : c \in has <=> c \in Models["observability_correlations"] /\ Since("observability_correlations", c) = 12
    <3>1. \A c : Since("observability_correlations", c) = 12 <=> c # UniqueCorrelation
      BY SinceInTable
    <3>2. \A c : c \in has <=> c \in Models["observability_correlations"] /\ c # UniqueCorrelation
      <4>1. \A c \in has : c \in Models["observability_correlations"]
        BY DEF Models, Tracing, Create
      <4>2. UniqueCorrelation \notin has
        BY DEF Tracing, Create, UniqueCorrelation
      <4>3. \A c \in Models["observability_correlations"] :
                c = UniqueCorrelation \/ c \in has
        BY DEF Models, Tracing, Create
      <4> HIDE DEF has
      <4> QED BY <4>1, <4>2, <4>3
    <3> HIDE DEF has
    <3> QED BY <3>1, <3>2
  <2> HIDE DEF has
  <2>3. Of("observability_correlations", has) = Added(12)
    BY <2>2, AddedToTable, OneTableEach DEF Tables
  <2> QED BY <2>1, <2>3, CreateMatches DEF First, Tables
<1>13. Matches(13, Upgrade[4][2], Downgrade[4][1])
  <2>1. /\ Upgrade[4][2] = Add("observability_correlations", UniqueCorrelation)
        /\ Downgrade[4][1] = Remove("observability_correlations", UniqueCorrelation)
    BY DEF Upgrade, Downgrade, Tracing, TracingDown
  <2>2. \A c : c \in {UniqueCorrelation} <=> c \in Models["observability_correlations"] /\ Since("observability_correlations", c) = 13
    <3>1. \A c : Since("observability_correlations", c) = 13 <=> c = UniqueCorrelation
      BY SinceInTable
    <3>2. UniqueCorrelation \in Models["observability_correlations"]
      BY DEF Models, UniqueDelivery, UniqueCorrelation
    <3> QED BY <3>1, <3>2
  <2>3. Of("observability_correlations", {UniqueCorrelation}) = Added(13)
    BY <2>2, AddedToTable, OneTableEach DEF Tables
  <2> QED BY <2>1, <2>3, AddMatches DEF First, Tables
<1> QED BY <1>1, <1>2, <1>3, <1>4, <1>5, <1>6, <1>7, <1>8, <1>9, <1>10, <1>11, <1>12, <1>13

----------------------------------------------------------------------------
(* What the statements do. *)

\* What each kind of statement asks of the schema and what it makes of it.
LEMMA Meaning ==
    ASSUME NEW st, NEW s
    PROVE  /\ st.do = "create" =>
                /\ Applies(st, s) <=>
                      /\ st.table \notin TablesOf(s)
                      /\ \A r \in References :
                            r[1] = st.table => r[2] \in TablesOf(s)
                /\ After(st, s) = s \cup Of(st.table, st.has)
           /\ st.do = "drop" =>
                /\ Applies(st, s) <=>
                      /\ st.table \in TablesOf(s)
                      /\ \A r \in References :
                            r[2] = st.table => r[1] \notin TablesOf(s)
                /\ After(st, s) = {x \in s : x[1] # st.table}
           /\ st.do = "add" =>
                /\ Applies(st, s) <=>
                      /\ st.table \in TablesOf(s)
                      /\ Of(st.table, st.has) \cap s = {}
                /\ After(st, s) = s \cup Of(st.table, st.has)
           /\ st.do = "remove" =>
                /\ Applies(st, s) <=> Of(st.table, st.has) \subseteq s
                /\ After(st, s) = s \ Of(st.table, st.has)
<1>1. ASSUME st.do = "create"
      PROVE  /\ Applies(st, s) <=>
                   /\ st.table \notin TablesOf(s)
                   /\ \A r \in References :
                         r[1] = st.table => r[2] \in TablesOf(s)
             /\ After(st, s) = s \cup Of(st.table, st.has)
  BY <1>1, Zenon DEF Applies, After
<1>2. ASSUME st.do = "drop"
      PROVE  /\ Applies(st, s) <=>
                   /\ st.table \in TablesOf(s)
                   /\ \A r \in References :
                         r[2] = st.table => r[1] \notin TablesOf(s)
             /\ After(st, s) = {x \in s : x[1] # st.table}
  BY <1>2, Zenon DEF Applies, After
<1>3. ASSUME st.do = "add"
      PROVE  /\ Applies(st, s) <=>
                   /\ st.table \in TablesOf(s)
                   /\ Of(st.table, st.has) \cap s = {}
             /\ After(st, s) = s \cup Of(st.table, st.has)
  BY <1>3, Zenon DEF Applies, After
<1>4. ASSUME st.do = "remove"
      PROVE  /\ Applies(st, s) <=> Of(st.table, st.has) \subseteq s
             /\ After(st, s) = s \ Of(st.table, st.has)
  BY <1>4, Zenon DEF Applies, After
<1> QED BY <1>1, <1>2, <1>3, <1>4

\* What is declared belongs to a table and comes in with a statement.
LEMMA DeclaredSince ==
    ASSUME NEW x \in Declared
    PROVE  /\ x[1] \in Tables
           /\ Since(x[1], x[2]) \in 1 .. 13
           /\ Since(x[1], x[2]) >= First(x[1])
<1>1. PICK t \in Tables : \E c \in Models[t] : x = <<t, c>>
  BY DeclaredTables
<1>2. PICK c \in Models[t] : x = <<t, c>>
  BY <1>1
<1> QED BY <1>2, OneTableEach

\* The tables there are when the first i statements have been executed.
LEMMA TablesAt ==
    ASSUME NEW i \in Int, NEW t
    PROVE  t \in TablesOf(At(i)) <=> t \in Tables /\ First(t) <= i
<1>0. \A u : First(u) \in Int
  BY DEF First
<1>1. ASSUME t \in TablesOf(At(i))
      PROVE  t \in Tables /\ First(t) <= i
  <2>1. PICK x \in At(i) : t = x[1]
    BY <1>1 DEF TablesOf
  <2>2. x \in Declared /\ Since(x[1], x[2]) <= i
    BY DEF At
  <2>3. /\ x[1] \in Tables
        /\ Since(x[1], x[2]) \in 1 .. 13
        /\ Since(x[1], x[2]) >= First(x[1])
    BY <2>2, DeclaredSince
  <2> QED BY <1>0, <2>1, <2>2, <2>3
<1>2. ASSUME t \in Tables, First(t) <= i
      PROVE  t \in TablesOf(At(i))
  <2>1. "id" \in Models[t] /\ Since(t, "id") = First(t)
    BY <1>2, OneTableEach
  <2>2. <<t, "id">> \in Declared
    BY <1>2, <2>1, DeclaredTables
  <2>3. <<t, "id">> \in At(i)
    BY <1>2, <2>1, <2>2 DEF At
  <2> QED BY <2>3 DEF TablesOf
<1> QED BY <1>1, <1>2

\* Every statement is accepted where it stands, and does what its number says.
LEMMA StatementSteps ==
    ASSUME NEW i \in 1 .. 13, NEW u, NEW d, Matches(i, u, d)
    PROVE  /\ Applies(u, At(i - 1)) /\ After(u, At(i - 1)) = At(i)
           /\ Applies(d, At(i)) /\ After(d, At(i)) = At(i - 1)
<1> DEFINE t == u.table
<1>1. /\ t \in Tables /\ d.table = t
      /\ Of(t, u.has) = Added(i)
      /\ i \in Int /\ i - 1 \in Int
  BY DEF Matches
<1>2. /\ \A x \in At(i) : x \in Declared /\ Since(x[1], x[2]) <= i
      /\ \A x \in At(i - 1) : x \in Declared /\ Since(x[1], x[2]) <= i - 1
      /\ \A x \in Added(i) : x \in Declared /\ Since(x[1], x[2]) = i
      /\ \A x \in Declared : Since(x[1], x[2]) \in Int
  BY DeclaredSince DEF At, Added
<1>3. At(i) = At(i - 1) \cup Added(i)
  <2>1. \A x \in Declared :
            Since(x[1], x[2]) <= i <=>
               Since(x[1], x[2]) <= i - 1 \/ Since(x[1], x[2]) = i
    BY <1>1, <1>2
  <2> QED BY <2>1 DEF At, Added
<1>4. At(i - 1) \cap Added(i) = {}
  BY <1>1, <1>2
<1>5. \A r \in References :
          r[1] \in Tables /\ r[2] \in Tables /\ First(r[2]) < First(r[1])
  BY DEF References, Tables, First
<1>6. \A v : First(v) \in Int
  BY DEF First
<1>7. \A x \in Added(i) : x[1] = t
  BY <1>1 DEF Of
<1>8. CASE First(t) = i /\ u.do = "create" /\ d.do = "drop"
  <2>1. t \notin TablesOf(At(i - 1)) /\ t \in TablesOf(At(i))
    BY <1>1, <1>8, TablesAt
  <2>2. ASSUME NEW r \in References, r[1] = t
        PROVE  r[2] \in TablesOf(At(i - 1))
    BY <1>1, <1>5, <1>6, <1>8, <2>2, TablesAt
  <2>3. ASSUME NEW r \in References, r[2] = t
        PROVE  r[1] \notin TablesOf(At(i))
    BY <1>1, <1>5, <1>6, <1>8, <2>3, TablesAt
  <2>4. {x \in At(i) : x[1] # t} = At(i - 1)
    <3>1. \A x \in At(i - 1) : x[1] # t
      BY <2>1 DEF TablesOf
    <3> QED BY <1>3, <1>7, <3>1
  <2>5. /\ Applies(u, At(i - 1))
        /\ After(u, At(i - 1)) = At(i - 1) \cup Of(t, u.has)
    BY <1>8, <2>1, <2>2, Meaning
  <2>6. /\ Applies(d, At(i))
        /\ After(d, At(i)) = {x \in At(i) : x[1] # t}
    BY <1>1, <1>8, <2>1, <2>3, Meaning
  <2> QED BY <1>1, <1>3, <2>4, <2>5, <2>6
<1>9. CASE /\ First(t) < i
           /\ u.do = "add" /\ d.do = "remove" /\ d.has = u.has
  <2>1. t \in TablesOf(At(i - 1))
    BY <1>1, <1>6, <1>9, TablesAt
  <2>2. /\ Applies(u, At(i - 1))
        /\ After(u, At(i - 1)) = At(i - 1) \cup Of(t, u.has)
    BY <1>1, <1>4, <1>9, <2>1, Meaning
  <2>3. /\ Applies(d, At(i))
        /\ After(d, At(i)) = At(i) \ Of(t, u.has)
    BY <1>1, <1>3, <1>9, Meaning
  <2> QED BY <1>1, <1>3, <1>4, <2>2, <2>3
<1> QED BY <1>8, <1>9 DEF Matches

\* The statements of a revision follow those of the one before it.
LEMMA Scripts ==
    ASSUME NEW v \in 1 .. HeadRevision
    PROVE  /\ End(v - 1) \in 0 .. 13 /\ End(v) \in 0 .. 13
           /\ Len(Upgrade[v]) = End(v) - End(v - 1)
           /\ Len(Downgrade[v]) = End(v) - End(v - 1)
           /\ \A k \in 1 .. End(v) - End(v - 1) :
                 Matches(End(v - 1) + k, Upgrade[v][k],
                         Downgrade[v][End(v) - End(v - 1) + 1 - k])
<1>1. v \in {1, 2, 3, 4}
  BY DEF HeadRevision
<1>2. CASE v = 1
  <2>1. End(v - 1) = 0 /\ End(v) = 4
    BY <1>2 DEF End
  <2>2. Len(Upgrade[v]) = 4 /\ Len(Downgrade[v]) = 4
    BY <1>2 DEF Upgrade, Downgrade, Core, CoreDown
  <2>3. ASSUME NEW k \in 1 .. 4
        PROVE  Matches(0 + k, Upgrade[1][k], Downgrade[1][5 - k])
    BY Statements
  <2> QED BY <1>2, <2>1, <2>2, <2>3
<1>3. CASE v = 2
  <2>1. End(v - 1) = 4 /\ End(v) = 6
    BY <1>3 DEF End
  <2>2. Len(Upgrade[v]) = 2 /\ Len(Downgrade[v]) = 2
    BY <1>3 DEF Upgrade, Downgrade, Errors, ErrorsDown
  <2>3. ASSUME NEW k \in 1 .. 2
        PROVE  Matches(4 + k, Upgrade[2][k], Downgrade[2][3 - k])
    BY Statements
  <2> QED BY <1>3, <2>1, <2>2, <2>3
<1>4. CASE v = 3
  <2>1. End(v - 1) = 6 /\ End(v) = 11
    BY <1>4 DEF End
  <2>2. Len(Upgrade[v]) = 5 /\ Len(Downgrade[v]) = 5
    BY <1>4 DEF Upgrade, Downgrade, Ci, CiDown
  <2>3. ASSUME NEW k \in 1 .. 5
        PROVE  Matches(6 + k, Upgrade[3][k], Downgrade[3][6 - k])
    BY Statements
  <2> QED BY <1>4, <2>1, <2>2, <2>3
<1>5. CASE v = 4
  <2>1. End(v - 1) = 11 /\ End(v) = 13
    BY <1>5 DEF End
  <2>2. Len(Upgrade[v]) = 2 /\ Len(Downgrade[v]) = 2
    BY <1>5 DEF Upgrade, Downgrade, Tracing, TracingDown
  <2>3. ASSUME NEW k \in 1 .. 2
        PROVE  Matches(11 + k, Upgrade[4][k], Downgrade[4][3 - k])
    BY Statements
  <2> QED BY <1>5, <2>1, <2>2, <2>3
<1> QED BY <1>1, <1>2, <1>3, <1>4, <1>5

----------------------------------------------------------------------------
(* The invariant: how far the schema is, seen from the revision it is      *)
(* stamped with and from the statements of the run under way.              *)

SchemaInv ==
    /\ version \in 0 .. HeadRevision
    /\ run \in [to : 0 .. HeadRevision, at : Nat,
                before : (SUBSET Declared) \X (0 .. HeadRevision)]
    /\ ~Running => schema = At(End(version))
    /\ Running =>
          /\ run.before[1] = At(End(run.before[2]))
          /\ version = run.to => run.at = 1 /\ schema = At(End(version))
          /\ version < run.to =>
                /\ run.at <= End(version + 1) - End(version) + 1
                /\ schema = At(End(version) + (run.at - 1))
          /\ version > run.to =>
                /\ run.at <= End(version) - End(version - 1) + 1
                /\ schema = At(End(version) - (run.at - 1))

\* The revisions are numbered upwards.
LEMMA Ends ==
    /\ \A v \in 0 .. HeadRevision : End(v) \in 0 .. 13
    /\ \A v \in 0 .. HeadRevision : v + 1 \in 0 .. HeadRevision => End(v) < End(v + 1)
    /\ \A v \in 0 .. HeadRevision : v - 1 \in 0 .. HeadRevision => End(v - 1) < End(v)
    /\ End(0) = 0 /\ End(HeadRevision) = 13
<1>1. \A v \in 0 .. 4 : v \in {0, 1, 2, 3, 4}
  OBVIOUS
<1> QED BY <1>1 DEF End, HeadRevision

\* Nothing is there before the first statement, and all of it after the last.
LEMMA EndStates ==
    /\ At(0) = {}
    /\ At(13) = Declared
    /\ \A i : At(i) \in SUBSET Declared
<1>1. At(0) = {}
  BY DeclaredSince DEF At
<1>2. At(13) = Declared
  BY DeclaredSince DEF At
<1> QED BY <1>1, <1>2 DEF At

\* Where statement k of a revision is whose statements come after a, up to b.
LEMMA Places ==
    ASSUME NEW a \in 0 .. 13, NEW b \in 0 .. 13, NEW k \in 1 .. b - a
    PROVE  /\ a + k \in 1 .. 13 /\ (a + k) - 1 = a + (k - 1)
           /\ b + 1 - k \in 1 .. 13 /\ b + 1 - k = b - (k - 1)
           /\ (b + 1 - k) - 1 = b - k
           /\ b - a + 1 - k \in 1 .. b - a
           /\ b - a + 1 - (b - a + 1 - k) = k
           /\ a + (b - a + 1 - k) = b + 1 - k
OBVIOUS

\* The statement that comes next, in terms of its number.
LEMMA NextStatement ==
    ASSUME SchemaInv, Running, version # run.to, run.at <= Len(Script)
    PROVE  /\ Applies(Script[run.at], schema)
           /\ version < run.to =>
                 After(Script[run.at], schema) = At(End(version) + run.at)
           /\ version > run.to =>
                 After(Script[run.at], schema) = At(End(version) - run.at)
<1>1. /\ version \in 0 .. 4 /\ run.to \in 0 .. 4 /\ run.at \in Nat /\ run.at >= 1
      /\ End(version) \in 0 .. 13
  BY Ends DEF SchemaInv, Running, HeadRevision
<1>2. CASE version < run.to
  <2> DEFINE v == version + 1
             i == End(version) + run.at
  <2>1. v \in 1 .. HeadRevision /\ v - 1 = version
    BY <1>1, <1>2 DEF HeadRevision
  <2>2. Script = Upgrade[v]
    BY <1>2 DEF Script
  <2> HIDE DEF v
  <2>3. /\ Len(Upgrade[v]) = End(v) - End(version)
        /\ End(v) \in 0 .. 13
        /\ \A k \in 1 .. End(v) - End(version) :
              Matches(End(version) + k, Upgrade[v][k],
                      Downgrade[v][End(v) - End(version) + 1 - k])
    BY <2>1, Scripts
  <2>4. run.at \in 1 .. End(v) - End(version)
    BY <1>1, <2>2, <2>3
  <2>5. PICK d : Matches(i, Upgrade[v][run.at], d)
    BY <2>3, <2>4
  <2>6. i \in 1 .. 13 /\ i - 1 = End(version) + (run.at - 1)
    <3>1. /\ End(version) \in 0 .. 13 /\ End(v) \in 0 .. 13
          /\ run.at \in 1 .. End(v) - End(version)
      BY <1>1, <2>3, <2>4
    <3> QED BY <3>1, Places
  <2>7. schema = At(i - 1)
    BY <1>2, <2>6 DEF SchemaInv
  <2> HIDE DEF i
  <2>8. /\ Applies(Upgrade[v][run.at], At(i - 1))
        /\ After(Upgrade[v][run.at], At(i - 1)) = At(i)
    BY <2>5, <2>6, StatementSteps
  <2> QED BY <1>1, <1>2, <2>2, <2>7, <2>8 DEF i
<1>3. CASE version > run.to
  <2> DEFINE i == End(version) + 1 - run.at
             k == End(version) - End(version - 1) + 1 - run.at
  <2>1. version \in 1 .. HeadRevision
    BY <1>1, <1>3 DEF HeadRevision
  <2>2. Script = Downgrade[version]
    BY <1>1, <1>3 DEF Script
  <2>3. /\ Len(Downgrade[version]) = End(version) - End(version - 1)
        /\ End(version - 1) \in 0 .. 13
        /\ \A l \in 1 .. End(version) - End(version - 1) :
              Matches(End(version - 1) + l, Upgrade[version][l],
                      Downgrade[version][End(version) - End(version - 1) + 1 - l])
    BY <2>1, Scripts
  <2>4. run.at \in 1 .. End(version) - End(version - 1)
    BY <1>1, <2>2, <2>3
  <2>5. /\ k \in 1 .. End(version) - End(version - 1)
        /\ End(version) - End(version - 1) + 1 - k = run.at
        /\ End(version - 1) + k = i
    <3>1. /\ End(version) \in 0 .. 13 /\ End(version - 1) \in 0 .. 13
          /\ run.at \in 1 .. End(version) - End(version - 1)
      BY <1>1, <2>3, <2>4
    <3> QED BY <3>1, Places
  <2> HIDE DEF k, i
  <2>6. Matches(i, Upgrade[version][k], Downgrade[version][run.at])
    BY <2>3, <2>5
  <2>7. /\ i \in 1 .. 13
        /\ i = End(version) - (run.at - 1)
        /\ i - 1 = End(version) - run.at
    <3>1. /\ End(version) \in 0 .. 13 /\ End(version - 1) \in 0 .. 13
          /\ run.at \in 1 .. End(version) - End(version - 1)
      BY <1>1, <2>3, <2>4
    <3> QED BY <3>1, Places DEF i
  <2>8. schema = At(i)
    BY <1>3, <2>7 DEF SchemaInv
  <2>9. /\ Applies(Downgrade[version][run.at], At(i))
        /\ After(Downgrade[version][run.at], At(i)) = At(i - 1)
    BY <2>6, <2>7, StatementSteps
  <2>10. ~(version < run.to)
    BY <1>1, <1>3
  <2>11. /\ Applies(Script[run.at], schema)
         /\ After(Script[run.at], schema) = At(End(version) - run.at)
    BY <2>2, <2>7, <2>8, <2>9
  <2> QED BY <2>10, <2>11
<1> QED BY <1>1, <1>2, <1>3

\* The length of the script of the run.
LEMMA ScriptLength ==
    ASSUME SchemaInv, Running
    PROVE  /\ version < run.to => Len(Script) = End(version + 1) - End(version)
           /\ version > run.to => Len(Script) = End(version) - End(version - 1)
<1>1. version \in 0 .. 4 /\ run.to \in 0 .. 4
  BY DEF SchemaInv, HeadRevision
<1>2. CASE version < run.to
  <2>1. version + 1 \in 1 .. HeadRevision /\ (version + 1) - 1 = version
    BY <1>1, <1>2 DEF HeadRevision
  <2>2. Len(Upgrade[version + 1]) = End(version + 1) - End(version)
    BY <2>1, Scripts
  <2> QED BY <1>1, <1>2, <2>2 DEF Script
<1>3. CASE version > run.to
  <2>1. version \in 1 .. HeadRevision
    BY <1>1, <1>3 DEF HeadRevision
  <2>2. Len(Downgrade[version]) = End(version) - End(version - 1)
    BY <2>1, Scripts
  <2> QED BY <1>1, <1>3, <2>2 DEF Script
<1> QED BY <1>1, <1>2, <1>3

----------------------------------------------------------------------------
(* Every step of a run keeps the invariant. *)

\* A database starts at the first numbered schema.
LEMMA InitSchemaInv == SchemaInit => SchemaInv
<1> SUFFICES ASSUME SchemaInit
             PROVE  SchemaInv
  OBVIOUS
<1>1. run = [to |-> 4, at |-> 0, before |-> <<{}, 0>>] /\ version = 0 /\ schema = {}
  BY DEF SchemaInit, Idle, HeadRevision
<1>2. run \in [to : 0 .. 4, at : Nat, before : (SUBSET Declared) \X (0 .. 4)]
  BY <1>1
<1>3. ~Running
  BY <1>1 DEF Running
<1> QED BY <1>1, <1>2, <1>3, Ends, EndStates DEF SchemaInv, HeadRevision

\* A run that begins stands at the end of a revision, before its first statement.
LEMMA BeginKeeps ==
    ASSUME SchemaInv, NEW to \in 0 .. HeadRevision, Begin(to)
    PROVE  SchemaInv'
<1> DEFINE r == [to |-> to, at |-> 1, before |-> <<schema, version>>]
<1>1. run' = r /\ version' = version /\ schema' = schema
  BY DEF Begin
<1>2. schema = At(End(version)) /\ version \in 0 .. 4 /\ to \in 0 .. 4
  BY DEF Begin, SchemaInv, HeadRevision
<1>3. /\ r.to = to /\ r.at = 1 /\ r.before[1] = schema /\ r.before[2] = version
      /\ r \in [to : 0 .. 4, at : Nat, before : (SUBSET Declared) \X (0 .. 4)]
  BY <1>2, EndStates
<1> HIDE DEF r
<1>4. /\ End(version) \in 0 .. 13
      /\ End(version) + (1 - 1) = End(version)
      /\ End(version) - (1 - 1) = End(version)
      /\ version < to => 1 <= End(version + 1) - End(version) + 1
      /\ version > to => 1 <= End(version) - End(version - 1) + 1
  <2>1. /\ version < to => version + 1 \in 0 .. 4
        /\ version > to => version - 1 \in 0 .. 4
    BY <1>2
  <2> QED BY <1>2, <2>1, Ends DEF HeadRevision
<1> QED BY <1>1, <1>2, <1>3, <1>4 DEF SchemaInv, Running, HeadRevision

\* A statement that is executed takes the schema one number on.
LEMMA ExecuteKeeps ==
    ASSUME SchemaInv, Execute
    PROVE  SchemaInv'
<1> DEFINE r == [run EXCEPT !.at = @ + 1]
<1>1. /\ Running /\ version # run.to /\ run.at <= Len(Script)
      /\ schema' = After(Script[run.at], schema)
      /\ run' = r
      /\ version' = version
  BY DEF Execute
<1>2. /\ version \in 0 .. 4 /\ run.to \in 0 .. 4 /\ run.at \in Nat
      /\ run \in [to : 0 .. 4, at : Nat, before : (SUBSET Declared) \X (0 .. 4)]
  BY DEF SchemaInv, HeadRevision
<1>3. /\ r.to = run.to /\ r.at = run.at + 1 /\ r.before = run.before
      /\ r \in [to : 0 .. 4, at : Nat, before : (SUBSET Declared) \X (0 .. 4)]
  BY <1>2
<1> HIDE DEF r
<1>4. /\ End(version) \in 0 .. 13
      /\ (run.at + 1) - 1 = run.at
      /\ run.at + 1 # 0
  BY <1>2, Ends DEF HeadRevision
<1>5. run.before[1] = At(End(run.before[2]))
  BY <1>1 DEF SchemaInv
<1>6. CASE version < run.to
  <2>1. schema' = At(End(version) + run.at)
    BY <1>1, <1>6, NextStatement
  <2>2. Len(Script) = End(version + 1) - End(version)
    BY <1>1, <1>6, ScriptLength
  <2>3. version + 1 \in 0 .. 4 /\ End(version + 1) \in 0 .. 13
    BY <1>2, <1>6, Ends DEF HeadRevision
  <2>4. run.at + 1 <= End(version + 1) - End(version) + 1
    BY <1>1, <1>2, <1>4, <2>2, <2>3
  <2> QED BY <1>1, <1>2, <1>3, <1>4, <1>5, <1>6, <2>1, <2>4
          DEF SchemaInv, Running, HeadRevision
<1>7. CASE version > run.to
  <2>1. schema' = At(End(version) - run.at)
    BY <1>1, <1>7, NextStatement
  <2>2. Len(Script) = End(version) - End(version - 1)
    BY <1>1, <1>7, ScriptLength
  <2>3. version - 1 \in 0 .. 4 /\ End(version - 1) \in 0 .. 13
    BY <1>2, <1>7, Ends DEF HeadRevision
  <2>4. run.at + 1 <= End(version) - End(version - 1) + 1
    BY <1>1, <1>2, <1>4, <2>2, <2>3
  <2> QED BY <1>1, <1>2, <1>3, <1>4, <1>5, <1>7, <2>1, <2>4
          DEF SchemaInv, Running, HeadRevision
<1> QED BY <1>1, <1>2, <1>6, <1>7

\* A revision is stamped when its last statement has been executed.
LEMMA StampKeeps ==
    ASSUME SchemaInv, Stamp
    PROVE  SchemaInv'
<1> DEFINE r == [run EXCEPT !.at = 1]
<1>1. /\ Running /\ version # run.to /\ run.at > Len(Script)
      /\ version' = IF version < run.to THEN version + 1 ELSE version - 1
      /\ run' = r
      /\ schema' = schema
  BY DEF Stamp
<1>2. /\ version \in 0 .. 4 /\ run.to \in 0 .. 4 /\ run.at \in Nat
      /\ run \in [to : 0 .. 4, at : Nat, before : (SUBSET Declared) \X (0 .. 4)]
  BY DEF SchemaInv, HeadRevision
<1>3. /\ r.to = run.to /\ r.at = 1 /\ r.before = run.before
      /\ r \in [to : 0 .. 4, at : Nat, before : (SUBSET Declared) \X (0 .. 4)]
  BY <1>2
<1> HIDE DEF r
<1>4. run.before[1] = At(End(run.before[2]))
  BY <1>1 DEF SchemaInv
<1>5. version' \in 0 .. 4
  BY <1>1, <1>2
<1>6. schema = At(End(version'))
  <2>1. End(version) \in 0 .. 13 /\ End(version') \in 0 .. 13
    BY <1>2, <1>5, Ends DEF HeadRevision
  <2>2. CASE version < run.to
    <3>1. /\ Len(Script) = End(version') - End(version)
          /\ run.at <= End(version') - End(version) + 1
          /\ schema = At(End(version) + (run.at - 1))
      BY <1>1, <2>2, ScriptLength DEF SchemaInv
    <3>2. End(version) + (run.at - 1) = End(version')
      <4>1. /\ End(version) \in 0 .. 13 /\ End(version') \in 0 .. 13 /\ run.at \in Nat
            /\ run.at > End(version') - End(version)
            /\ run.at <= End(version') - End(version) + 1
        BY <1>1, <1>2, <2>1, <3>1
      <4>2. run.at = End(version') - End(version) + 1
        BY <4>1
      <4> QED BY <4>1, <4>2
    <3> QED BY <3>1, <3>2
  <2>3. CASE version > run.to
    <3>1. version' = version - 1
      BY <1>1, <1>2, <2>3
    <3>2. /\ Len(Script) = End(version) - End(version')
          /\ run.at <= End(version) - End(version') + 1
          /\ schema = At(End(version) - (run.at - 1))
      BY <1>1, <2>3, <3>1, ScriptLength DEF SchemaInv
    <3>3. End(version) - (run.at - 1) = End(version')
      <4>1. /\ End(version) \in 0 .. 13 /\ End(version') \in 0 .. 13 /\ run.at \in Nat
            /\ run.at > End(version) - End(version')
            /\ run.at <= End(version) - End(version') + 1
        BY <1>1, <1>2, <2>1, <3>2
      <4>2. run.at = End(version) - End(version') + 1
        BY <4>1
      <4> QED BY <4>1, <4>2
    <3> QED BY <3>2, <3>3
  <2> QED BY <1>1, <1>2, <2>2, <2>3
<1> DEFINE w == version'
<1>7. w \in 0 .. 4 /\ schema = At(End(w))
  BY <1>5, <1>6
<1> HIDE DEF w
<1>8. /\ End(w) \in 0 .. 13
      /\ End(w) + (1 - 1) = End(w)
      /\ End(w) - (1 - 1) = End(w)
      /\ w < run.to => 1 <= End(w + 1) - End(w) + 1
      /\ w > run.to => 1 <= End(w) - End(w - 1) + 1
  <2>1. /\ w < run.to => w + 1 \in 0 .. 4
        /\ w > run.to => w - 1 \in 0 .. 4
    BY <1>2, <1>7
  <2> QED BY <1>7, <2>1, Ends DEF HeadRevision
<1>9. w = version'
  BY DEF w
<1> QED BY <1>1, <1>3, <1>4, <1>7, <1>8, <1>9 DEF SchemaInv, Running, HeadRevision

\* A run that ends, committed or rolled back, leaves the schema of a revision.
LEMMA EndKeeps ==
    ASSUME SchemaInv, Finish \/ Interrupt
    PROVE  SchemaInv'
<1>1. /\ run' = [to |-> 4, at |-> 0, before |-> <<{}, 0>>]
      /\ Running
  BY DEF Finish, Interrupt, Idle, HeadRevision
<1>2. /\ run' \in [to : 0 .. 4, at : Nat, before : (SUBSET Declared) \X (0 .. 4)]
      /\ run'.at = 0
  BY <1>1
<1>3. version' \in 0 .. 4 /\ schema' = At(End(version'))
  <2>1. CASE Finish
    BY <1>1, <2>1 DEF Finish, SchemaInv, HeadRevision
  <2>2. CASE Interrupt
    BY <1>1, <2>2 DEF Interrupt, SchemaInv, HeadRevision
  <2> QED BY <2>1, <2>2
<1> QED BY <1>2, <1>3 DEF SchemaInv, Running, HeadRevision

\* The invariant says all that is needed of the schema.
LEMMA SchemaFacts ==
    ASSUME SchemaInv
    PROVE  /\ StatementsApply
           /\ schema \in SUBSET Declared
           /\ ~Running /\ version = HeadRevision => schema = Declared
<1>1. StatementsApply
  BY NextStatement DEF StatementsApply
<1>2. schema \in SUBSET Declared
  <2>1. \E i : schema = At(i)
    <3>1. version \in 0 .. 4 /\ run.to \in 0 .. 4
      BY DEF SchemaInv, HeadRevision
    <3>2. version < run.to \/ version = run.to \/ version > run.to
      BY <3>1
    <3> QED BY <3>2 DEF SchemaInv
  <2> QED BY <2>1, EndStates
<1>3. ~Running /\ version = HeadRevision => schema = Declared
  BY Ends, EndStates DEF SchemaInv
<1> QED BY <1>1, <1>2, <1>3
=============================================================================
