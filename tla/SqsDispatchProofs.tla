-------------------------- MODULE SqsDispatchProofs --------------------------
(***************************************************************************)
(* What holds of the dispatch through AWS for any number of jobs, API      *)
(* processes, stray messages, invocations and deliveries, and for batches  *)
(* of any size.                                                            *)
(***************************************************************************)
EXTENDS SqsDispatch, FiniteSetTheorems, TLAPS

----------------------------------------------------------------------------
(* The inductive invariant. *)

\* What was sent names a machine, and what was received was sent.
SentInv ==
    /\ \A m \in Sends : queue[m] # "absent" => body[m[1]] \in Machines
    /\ \A l \in Lambdas : \A m \in Held(l) : queue[m] # "absent"

\* AWS knows nothing of m.
Unsent(m) == queue[m] = "absent" /\ executions[m] = <<>>

\* A job is dispatched by one request, which starts with nothing sent.
RequestInv ==
    /\ \A h \in Handlers : handler[h].at # "idle" =>
          handler[h].job \in Jobs /\ status[handler[h].job] # "absent"
    /\ \A h \in Handlers, m \in Sends :
          handler[h].at = "dispatch" /\ m[1] = handler[h].job => Unsent(m)
    /\ \A h, g \in Handlers :
          /\ handler[h].at = "dispatch"
          /\ handler[g].at = "dispatch"
          /\ handler[h].job = handler[g].job
          => h = g
    /\ \A m \in Sends : status[m[1]] = "absent" => Unsent(m)

\* An invocation has started what comes before its next record.
BatchInv ==
    \A l \in Lambdas :
        /\ lambda[l].next <= Len(lambda[l].batch) + 1
        /\ \A i, k \in DOMAIN lambda[l].batch :
              lambda[l].batch[i] = lambda[l].batch[k] => i = k
        /\ \A i \in DOMAIN lambda[l].batch : i < lambda[l].next =>
              /\ lambda[l].batch[i] \in Sends
              /\ executions[lambda[l].batch[i]] # <<>>

\* The invocations that may still start m.
Open(m) ==
    {l \in Lambdas : \E i \in DOMAIN lambda[l].batch :
        i >= lambda[l].next /\ lambda[l].batch[i] = m}

\* Every receipt is good for one execution, and what a call started beyond the
\* first has been counted.
StartInv ==
    \A m \in Sends :
        IF queue[m] = "absent"
        THEN Len(executions[m]) <= 1
        ELSE Len(executions[m]) + Cardinality(Open(m)) <= receives[m] + retried[m]

\* Every receipt but the one that is being worked on has been spoilt.
SpoiltInv ==
    \A m \in Messages :
        /\ receives[m] <= spoilt[m] + 1
        /\ queue[m] \in {"absent", "waiting"} => receives[m] <= spoilt[m]
        /\ queue[m] = "hidden" /\ Holders(m) = {} => receives[m] <= spoilt[m]

IInv ==
    /\ TypeOK
    /\ SentInv
    /\ RequestInv
    /\ BatchInv
    /\ NothingAcceptedIsDropped
    /\ StartInv
    /\ SpoiltInv

----------------------------------------------------------------------------
(* What the helpers return. *)

\* resolve_state_machine_arn answers with a machine or with nothing.
LEMMA MachineType ==
    ASSUME NEW h \in Handlers, NEW j \in Jobs
    PROVE  Machine(h, j) \in Machines \cup {Unset}
BY SettingsAssumption, WorkflowAssumption DEF Machine, Workflows

\* A batch is a sequence of different messages that were waiting.
LEMMA BatchType ==
    ASSUME NEW b \in Batches(Waiting)
    PROVE  /\ b \in Seq(Messages)
           /\ b # <<>>
           /\ \A i \in DOMAIN b : b[i] \in Messages /\ queue[b[i]] = "waiting"
           /\ \A i, k \in DOMAIN b : b[i] = b[k] => i = k
<1>1. PICK n \in 1 .. BatchSize : b \in [1 .. n -> Waiting]
  BY DEF Batches
<1>2. n \in Nat /\ n > 0
  BY BoundsAssumption
<1>3. b \in Seq(Waiting) /\ DOMAIN b = 1 .. n
  BY <1>1, <1>2
<1>4. \A i \in DOMAIN b : b[i] \in Messages /\ queue[b[i]] = "waiting"
  BY <1>1 DEF Waiting
<1>5. b # <<>>
  BY <1>2, <1>3
<1>6. \A i, k \in DOMAIN b : b[i] = b[k] => i = k
  BY DEF Batches
<1> QED BY <1>3, <1>4, <1>5, <1>6

\* The next record of an invocation is one of the messages it holds.
LEMMA RecordHeld ==
    ASSUME TypeOK, NEW l \in Lambdas, HasNext(l)
    PROVE  /\ Record(l) \in Held(l)
           /\ Held(l) \subseteq Messages
           /\ lambda[l].next \in DOMAIN lambda[l].batch
BY DEF TypeOK, Record, HasNext, Held

\* What is held is a set of messages.
LEMMA HeldType ==
    ASSUME TypeOK, NEW l \in Lambdas
    PROVE  Held(l) \subseteq Messages
BY DEF TypeOK, Held

----------------------------------------------------------------------------
(* Types. *)

\* A send is a message, and a job's.
LEMMA SendType ==
    /\ Sends \subseteq Messages
    /\ \A m \in Sends : m[1] \in Jobs
BY DEF Sends, Messages

\* AWS takes at least one attempt of a call that it takes.
LEMMA EffectsType == Effects \subseteq Nat \ {0}
BY AttemptsAssumption DEF Effects

\* A request that writes to AWS keeps the types of what it writes.
LEMMA AcceptedType ==
    ASSUME TypeOK, NEW h \in Handlers, NEW j \in Jobs, NEW n \in Effects,
           Configured(h, j), Accepted(h, j, n)
    PROVE  /\ queue' \in [Messages -> {"absent", "waiting", "hidden", "deleted"}]
           /\ body' \in [Jobs -> Machines \cup {Unset}]
           /\ receives' \in [Messages -> Nat]
           /\ executions' \in [Sends -> Seq(Machines)]
<1>1. Machine(h, j) \in Machines
  BY MachineType DEF Configured
<1>2. <<Machine(h, j)>> \in Seq(Machines)
  BY <1>1
<1>3. CASE Settings[h].backend = "sqs_step_functions"
  BY <1>1, <1>3 DEF Accepted, TypeOK
<1>4. CASE Settings[h].backend # "sqs_step_functions"
  BY <1>2, <1>4 DEF Accepted, TypeOK
<1> QED BY <1>3, <1>4

\* A call starts executions with the machine that the message names: one, and
\* those that are counted as retried.
LEMMA StartType ==
    ASSUME TypeOK, SentInv, NEW l \in Lambdas, HasNext(l), StartRecord(l)
    PROVE  /\ Record(l) \in Sends
           /\ queue[Record(l)] # "absent"
           /\ executions' \in [Sends -> Seq(Machines)]
           /\ retried' \in [Sends -> Nat]
           /\ executions'[Record(l)] # <<>>
           /\ Len(executions'[Record(l)]) - retried'[Record(l)]
                = Len(executions[Record(l)]) - retried[Record(l)] + 1
           /\ \A m \in Sends \ {Record(l)} :
                 executions'[m] = executions[m] /\ retried'[m] = retried[m]
<1> DEFINE m == Record(l)
<1>1. PICK n \in Effects : Start(m, n)
  BY DEF StartRecord
<1>2. m \in Sends /\ n \in Nat \ {0}
  BY EffectsType DEF StartRecord
<1>3. queue[m] # "absent" /\ body[m[1]] \in Machines
  BY <1>2, RecordHeld DEF SentInv
<1>4. executions[m] \in Seq(Machines) /\ retried[m] \in Nat
  BY <1>2 DEF TypeOK
<1> HIDE DEF m
<1> DEFINE new == [k \in 1 .. n |-> body[m[1]]]
<1>5. new \in Seq(Machines) /\ Len(new) = n
  BY <1>2, <1>3
<1> HIDE DEF new
<1>6. /\ executions[m] \o new \in Seq(Machines)
      /\ Len(executions[m] \o new) = Len(executions[m]) + n
  BY <1>4, <1>5
<1>7. executions[m] \o new # <<>>
  BY <1>2, <1>4, <1>6
<1>8. /\ executions' = [executions EXCEPT ![m] = executions[m] \o new]
      /\ retried' = [retried EXCEPT ![m] = retried[m] + (n - 1)]
  BY <1>1 DEF Start, new
<1>9. /\ executions'[m] = executions[m] \o new
      /\ retried'[m] = retried[m] + (n - 1)
      /\ \A x \in Sends \ {m} : executions'[x] = executions[x] /\ retried'[x] = retried[x]
  BY <1>2, <1>8 DEF TypeOK
<1>10. executions' \in [Sends -> Seq(Machines)] /\ retried' \in [Sends -> Nat]
  BY <1>2, <1>4, <1>6, <1>8 DEF TypeOK
<1>11. Len(executions'[m]) - retried'[m] = Len(executions[m]) - retried[m] + 1
  <2>1. Len(executions[m]) \in Nat
    BY <1>4
  <2> QED BY <1>2, <1>4, <1>6, <1>9, <2>1
<1> QED BY <1>2, <1>3, <1>7, <1>9, <1>10, <1>11 DEF m

\* An invocation that is over is idle.
LEMMA SpoilType ==
    ASSUME TypeOK, NEW l \in Lambdas, Spoil(l)
    PROVE  /\ spoilt' \in [Messages -> Nat]
           /\ \A m \in Messages : spoilt'[m] >= spoilt[m]
           /\ lambda' \in [Lambdas -> [batch : Seq(Messages), next : Nat \ {0},
                                       receipt : [Messages -> Nat]]]
<1>1. spoilt' \in [Messages -> Nat] /\ \A m \in Messages : spoilt'[m] >= spoilt[m]
  BY DEF Spoil, TypeOK
<1>2. IdleLambda \in [batch : Seq(Messages), next : Nat \ {0},
                      receipt : [Messages -> Nat]]
  BY DEF IdleLambda
<1>3. lambda' \in [Lambdas -> [batch : Seq(Messages), next : Nat \ {0},
                               receipt : [Messages -> Nat]]]
  BY <1>2 DEF Spoil, TypeOK
<1> QED BY <1>1, <1>3

\* An invocation goes on to its next record.
LEMMA NextEffect ==
    ASSUME TypeOK, NEW l \in Lambdas, ConsumeRecord(l)
    PROVE  /\ lambda' \in [Lambdas -> [batch : Seq(Messages), next : Nat \ {0},
                                       receipt : [Messages -> Nat]]]
           /\ lambda'[l].batch = lambda[l].batch
           /\ lambda'[l].next = lambda[l].next + 1
           /\ lambda'[l].receipt = lambda[l].receipt
           /\ \A k \in Lambdas \ {l} : lambda'[k] = lambda[k]
<1> DEFINE r == [lambda[l] EXCEPT !.next = @ + 1]
<1>0. ASSUME NEW c \in [batch : Seq(Messages), next : Nat \ {0}, receipt : [Messages -> Nat]]
      PROVE  /\ [c EXCEPT !.next = @ + 1] \in [batch : Seq(Messages), next : Nat \ {0},
                                               receipt : [Messages -> Nat]]
             /\ [c EXCEPT !.next = @ + 1].batch = c.batch
             /\ [c EXCEPT !.next = @ + 1].next = c.next + 1
             /\ [c EXCEPT !.next = @ + 1].receipt = c.receipt
  OBVIOUS
<1>1. lambda[l] \in [batch : Seq(Messages), next : Nat \ {0}, receipt : [Messages -> Nat]]
  BY DEF TypeOK
<1>2. /\ r \in [batch : Seq(Messages), next : Nat \ {0}, receipt : [Messages -> Nat]]
      /\ r.batch = lambda[l].batch
      /\ r.next = lambda[l].next + 1
      /\ r.receipt = lambda[l].receipt
  BY <1>0, <1>1
<1>3. lambda' = [lambda EXCEPT ![l] = r]
  BY DEF ConsumeRecord
<1> HIDE DEF r
<1> QED BY <1>2, <1>3 DEF TypeOK

\* Every step keeps the types.
LEMMA TypeStep ==
    ASSUME TypeOK, SentInv, RequestInv, [Next]_vars
    PROVE  TypeOK'
<1>1. ASSUME NEW h \in Handlers, NEW j \in Jobs, StoreJob(h, j)
      PROVE  TypeOK'
  BY <1>1 DEF StoreJob, TypeOK, aws, history
<1>2. ASSUME NEW h \in Handlers, Dispatch(h)
      PROVE  TypeOK'
  <2>1. handler[h].job \in Jobs
    BY <1>2 DEF Dispatch, RequestInv
  <2>2. PICK n \in Effects : Accepted(h, handler[h].job, n)
    BY <1>2 DEF Dispatch
  <2>3. /\ queue' \in [Messages -> {"absent", "waiting", "hidden", "deleted"}]
        /\ body' \in [Jobs -> Machines \cup {Unset}]
        /\ receives' \in [Messages -> Nat]
        /\ executions' \in [Sends -> Seq(Machines)]
    BY <1>2, <2>1, <2>2, AcceptedType DEF Dispatch
  <2> QED BY <1>2, <2>3 DEF Dispatch, TypeOK, IdleHandler, history
<1>3. ASSUME NEW h \in Handlers, DispatchFails(h)
      PROVE  TypeOK'
  <2>1. handler[h].job \in Jobs
    BY <1>3 DEF DispatchFails, RequestInv
  <2>2. /\ queue' \in [Messages -> {"absent", "waiting", "hidden", "deleted"}]
        /\ body' \in [Jobs -> Machines \cup {Unset}]
        /\ receives' \in [Messages -> Nat]
        /\ executions' \in [Sends -> Seq(Machines)]
    <3>1. CASE UNCHANGED aws
      BY <3>1 DEF TypeOK, aws
    <3>2. CASE ~UNCHANGED aws
      <4>1. PICK n \in Effects : Accepted(h, handler[h].job, n)
        BY <1>3, <3>2 DEF DispatchFails
      <4>2. Configured(h, handler[h].job)
        BY <1>3, <3>2 DEF DispatchFails
      <4> QED BY <2>1, <4>1, <4>2, AcceptedType
    <3> QED BY <3>1, <3>2
  <2> QED BY <1>3, <2>2 DEF DispatchFails, TypeOK, history
<1>4. ASSUME NEW h \in Handlers, MarkDispatchFailed(h)
      PROVE  TypeOK'
  BY <1>4 DEF MarkDispatchFailed, TypeOK, IdleHandler, aws, history
<1>5. ASSUME NEW h \in Handlers, RequestDies(h)
      PROVE  TypeOK'
  BY <1>5 DEF RequestDies, TypeOK, IdleHandler, aws, history
<1>13. ASSUME NEW m \in Messages, Redeliver(m)
       PROVE  TypeOK'
  BY <1>13 DEF Redeliver, TypeOK
<1>6. ASSUME NEW m \in Messages, Expire(m)
      PROVE  TypeOK'
  <2>1. IsFiniteSet(Holders(m))
    BY LambdasAssumption, FS_Subset DEF Holders
  <2>2. Cardinality(Holders(m)) \in Nat
    BY <2>1, FS_CardinalityType
  <2> QED BY <1>6, <2>2 DEF Expire, TypeOK
<1>7. ASSUME NEW l \in Lambdas, NEW b \in Batches(Waiting), Receive(l, b)
      PROVE  TypeOK'
  <2>1. b \in Seq(Messages)
    BY BatchType
  <2>2. [m \in Messages |-> IF m \in {b[i] : i \in DOMAIN b} THEN receives[m] + 1 ELSE 0]
          \in [Messages -> Nat]
    BY DEF TypeOK
  <2>3. lambda' \in [Lambdas -> [batch : Seq(Messages), next : Nat \ {0},
                                 receipt : [Messages -> Nat]]]
    BY <1>7, <2>1, <2>2 DEF Receive, TypeOK
  <2>4. /\ queue' \in [Messages -> {"absent", "waiting", "hidden", "deleted"}]
        /\ receives' \in [Messages -> Nat]
    BY <1>7 DEF Receive, TypeOK
  <2> QED BY <1>7, <2>3, <2>4 DEF Receive, TypeOK, history
<1>8. ASSUME NEW l \in Lambdas, ConsumeRecord(l)
      PROVE  TypeOK'
  <2>1. executions' \in [Sends -> Seq(Machines)] /\ retried' \in [Sends -> Nat]
    BY <1>8, StartType DEF ConsumeRecord
  <2> QED BY <1>8, <2>1, NextEffect DEF ConsumeRecord, TypeOK
<1>9. ASSUME NEW l \in Lambdas, ConsumeFails(l)
      PROVE  TypeOK'
  <2>1. executions' \in [Sends -> Seq(Machines)] /\ retried' \in [Sends -> Nat]
    BY <1>9, StartType DEF ConsumeFails, TypeOK
  <2> QED BY <1>9, <2>1, SpoilType DEF ConsumeFails, TypeOK
<1>10. ASSUME NEW l \in Lambdas, LambdaDies(l)
       PROVE  TypeOK'
  BY <1>10, SpoilType DEF LambdaDies, TypeOK, aws
<1>11. ASSUME NEW l \in Lambdas, NEW kept \in SUBSET Held(l), Return(l, kept)
       PROVE  TypeOK'
  <2>1. IdleLambda \in [batch : Seq(Messages), next : Nat \ {0},
                        receipt : [Messages -> Nat]]
    BY DEF IdleLambda
  <2>2. lambda' \in [Lambdas -> [batch : Seq(Messages), next : Nat \ {0},
                                 receipt : [Messages -> Nat]]]
    BY <1>11, <2>1 DEF Return, TypeOK
  <2> QED BY <1>11, <2>2 DEF Return, TypeOK, history
<1>12. CASE UNCHANGED vars
  BY <1>12 DEF vars, aws, history, TypeOK
<1> QED
  BY <1>1, <1>2, <1>3, <1>4, <1>5, <1>6, <1>7, <1>8, <1>9, <1>10, <1>11, <1>12, <1>13
  DEF Next, Invocation

----------------------------------------------------------------------------
(* Steps, by what they do to the batches. *)

\* What a request does to AWS: nothing, or the messages or the executions of a
\* job that had none.
LEMMA RequestEffect ==
    ASSUME TypeOK, RequestInv, NEW h \in Handlers, NEW j \in Jobs,
           \/ StoreJob(h, j)
           \/ Dispatch(h)
           \/ DispatchFails(h)
           \/ MarkDispatchFailed(h)
           \/ RequestDies(h)
    PROVE  /\ UNCHANGED <<lambda, receives, spoilt, retried>>
           /\ \/ UNCHANGED aws
              \/ /\ handler[h].at = "dispatch"
                 /\ handler'[h].at # "dispatch"
                 /\ \A m \in Messages :
                       \/ queue'[m] = queue[m]
                       \/ /\ m \in Sends /\ m[1] = handler[h].job
                          /\ queue'[m] = "waiting"
                 /\ \A m \in Sends :
                       \/ executions'[m] = executions[m]
                       \/ m[1] = handler[h].job /\ Len(executions'[m]) = 1
                 /\ queue' = queue \/ executions' = executions
                 /\ \A k \in Jobs \ {handler[h].job} : body'[k] = body[k]
                 /\ queue' # queue => body'[handler[h].job] \in Machines
                 /\ queue' = queue => body' = body
<1>1. CASE StoreJob(h, j) \/ MarkDispatchFailed(h) \/ RequestDies(h)
  BY <1>1 DEF StoreJob, MarkDispatchFailed, RequestDies, aws, history
<1> DEFINE job == handler[h].job
           Changed ==
              /\ receives' = receives
              /\ \A m \in Messages :
                    \/ queue'[m] = queue[m]
                    \/ m \in Sends /\ m[1] = job /\ queue'[m] = "waiting"
              /\ \A m \in Sends :
                    \/ executions'[m] = executions[m]
                    \/ m[1] = job /\ Len(executions'[m]) = 1
              /\ queue' = queue \/ executions' = executions
              /\ \A k \in Jobs \ {job} : body'[k] = body[k]
              /\ queue' # queue => body'[job] \in Machines
              /\ queue' = queue => body' = body
<1>2. ASSUME handler[h].at = "dispatch", Configured(h, job), NEW n \in Effects,
             Accepted(h, job, n)
      PROVE  Changed
  <2>1. job \in Jobs /\ \A m \in Sends : m[1] = job => Unsent(m)
    BY <1>2 DEF RequestInv
  <2>2. Machine(h, job) \in Machines
    BY <1>2, <2>1, MachineType DEF Configured
  <2>3. n \in 1 .. Attempts
    BY <1>2, AttemptsAssumption DEF Effects
  <2> DEFINE taken == {job} \X (1 .. n)
  <2>4. taken \subseteq Sends /\ \A m \in taken : m[1] = job
    BY <2>1, <2>3, AttemptsAssumption DEF Sends
  <2>5. <<job, 1>> \in taken
    BY <2>3
  <2> HIDE DEF taken, job
  <2>6. CASE Settings[h].backend = "sqs_step_functions"
    <3>1. /\ queue' = [m \in Messages |-> IF m \in taken THEN "waiting" ELSE queue[m]]
          /\ body' = [body EXCEPT ![job] = Machine(h, job)]
          /\ UNCHANGED <<receives, executions>>
      BY <1>2, <2>6 DEF Accepted, taken
    <3>2. /\ body'[job] \in Machines
          /\ \A k \in Jobs \ {job} : body'[k] = body[k]
      BY <2>1, <2>2, <3>1 DEF TypeOK
    <3>3. queue' # queue
      <4>1. /\ <<job, 1>> \in Sends /\ <<job, 1>> \in Messages
            /\ <<job, 1>>[1] = job
        BY <2>4, <2>5, SendType
      <4>2. queue[<<job, 1>>] = "absent"
        BY <2>1, <4>1 DEF Unsent
      <4>3. queue'[<<job, 1>>] = "waiting"
        BY <2>5, <3>1, <4>1
      <4> QED BY <4>2, <4>3
    <3>4. \A m \in Messages :
            \/ queue'[m] = queue[m]
            \/ m \in Sends /\ m[1] = job /\ queue'[m] = "waiting"
      BY <2>4, <3>1
    <3>5. \A m \in Sends : executions'[m] = executions[m]
      BY <3>1
    <3> QED BY <3>1, <3>2, <3>3, <3>4, <3>5
  <2>7. CASE Settings[h].backend # "sqs_step_functions"
    <3>1. /\ executions' = [m \in Sends |-> IF m \in taken THEN <<Machine(h, job)>>
                                           ELSE executions[m]]
          /\ UNCHANGED <<queue, body, receives>>
      BY <1>2, <2>7 DEF Accepted, taken
    <3>2. Len(<<Machine(h, job)>>) = 1
      OBVIOUS
    <3>3. \A m \in Sends :
          \/ executions'[m] = executions[m]
          \/ m[1] = job /\ Len(executions'[m]) = 1
      BY <2>4, <3>1, <3>2
    <3> QED BY <3>1, <3>3
  <2> QED BY <2>6, <2>7
<1>3. CASE Dispatch(h)
  <2>1. handler'[h].at # "dispatch"
    BY <1>3 DEF Dispatch, IdleHandler, TypeOK
  <2>2. PICK n \in Effects : Accepted(h, job, n)
    BY <1>3 DEF Dispatch
  <2>3. Changed
    BY <1>2, <1>3, <2>2 DEF Dispatch
  <2> QED BY <1>3, <2>1, <2>3 DEF Dispatch, history
<1>4. CASE DispatchFails(h)
  <2>1. handler'[h].at # "dispatch"
    BY <1>4 DEF DispatchFails, TypeOK
  <2>2. CASE UNCHANGED aws
    BY <1>4, <2>2 DEF DispatchFails, history, aws
  <2>3. CASE ~UNCHANGED aws
    <3>1. PICK n \in Effects : Accepted(h, job, n)
      BY <1>4, <2>3 DEF DispatchFails
    <3>2. Changed
      BY <1>2, <1>4, <2>3, <3>1 DEF DispatchFails
    <3> QED BY <1>4, <2>1, <3>2 DEF DispatchFails, history
  <2> QED BY <2>2, <2>3
<1> QED BY <1>1, <1>3, <1>4

\* An invocation that is over holds nothing.
LEMMA OverEffect ==
    ASSUME TypeOK, NEW l \in Lambdas, lambda' = [lambda EXCEPT ![l] = IdleLambda]
    PROVE  /\ lambda'[l].batch = <<>>
           /\ lambda'[l].next = 1
           /\ \A k \in Lambdas \ {l} : lambda'[k] = lambda[k]
           /\ Held(l)' = {}
           /\ \A k \in Lambdas \ {l} : Held(k)' = Held(k)
           /\ \A m : Open(m)' = Open(m) \ {l}
<1>1. /\ lambda'[l] = IdleLambda
      /\ \A k \in Lambdas \ {l} : lambda'[k] = lambda[k]
  BY DEF TypeOK
<1>2. lambda'[l].batch = <<>> /\ lambda'[l].next = 1
  BY <1>1 DEF IdleLambda
<1>3. Held(l)' = {}
  BY <1>2 DEF Held
<1>4. \A k \in Lambdas \ {l} : Held(k)' = Held(k)
  BY <1>1 DEF Held
<1>5. ASSUME NEW m PROVE Open(m)' = Open(m) \ {l}
  <2>1. l \notin Open(m)'
    BY <1>2 DEF Open
  <2>2. ASSUME NEW k \in Lambdas \ {l} PROVE k \in Open(m)' <=> k \in Open(m)
    BY <1>1 DEF Open
  <2>3. Open(m) \subseteq Lambdas /\ Open(m)' \subseteq Lambdas
    BY DEF Open
  <2> QED BY <2>1, <2>2, <2>3
<1> QED BY <1>1, <1>2, <1>3, <1>4, <1>5

\* An invocation that begins holds the messages it was given, all of them open.
LEMMA ReceiveEffect ==
    ASSUME TypeOK, NEW l \in Lambdas, NEW b \in Batches(Waiting), Receive(l, b)
    PROVE  /\ lambda'[l].batch = b
           /\ lambda'[l].next = 1
           /\ \A m \in Held(l)' :
                 /\ m \in Messages
                 /\ queue[m] = "waiting"
                 /\ queue'[m] = "hidden"
                 /\ receives'[m] = receives[m] + 1
                 /\ lambda'[l].receipt[m] = receives'[m]
           /\ \A m \in Messages \ Held(l)' :
                 queue'[m] = queue[m] /\ receives'[m] = receives[m]
           /\ Held(l) = {}
           /\ \A k \in Lambdas \ {l} : lambda'[k] = lambda[k] /\ Held(k)' = Held(k)
           /\ \A m \in Held(l)' : Open(m)' = Open(m) \cup {l}
           /\ \A m \in Messages \ Held(l)' : Open(m)' = Open(m)
<1> DEFINE taken == {b[i] : i \in DOMAIN b}
<1>1. /\ lambda'[l].batch = b
      /\ lambda'[l].next = 1
      /\ lambda'[l].receipt =
            [m \in Messages |-> IF m \in taken THEN receives[m] + 1 ELSE 0]
      /\ \A k \in Lambdas \ {l} : lambda'[k] = lambda[k]
  BY DEF Receive, TypeOK
<1>2. Held(l)' = taken
  BY <1>1 DEF Held
<1>3. taken \subseteq Messages /\ \A m \in taken : queue[m] = "waiting"
  BY BatchType
<1>4. /\ queue' = [m \in Messages |-> IF m \in taken THEN "hidden" ELSE queue[m]]
      /\ receives' = [m \in Messages |->
                        IF m \in taken THEN receives[m] + 1 ELSE receives[m]]
  BY DEF Receive
<1>5. lambda[l].batch = <<>>
  BY DEF Receive, Running
<1>6. Held(l) = {}
  BY <1>5 DEF Held
<1>7. \A k \in Lambdas \ {l} : Held(k)' = Held(k)
  BY <1>1 DEF Held
<1>8. \A m : l \notin Open(m)
  BY <1>5 DEF Open
<1>9. \A m : l \in Open(m)' <=> m \in taken
  <2>1. b \in Seq(Messages)
    BY BatchType
  <2> QED BY <1>1, <2>1 DEF Open
<1>10. \A m : \A k \in Lambdas \ {l} : k \in Open(m)' <=> k \in Open(m)
  BY <1>1 DEF Open
<1>11. \A m : Open(m) \subseteq Lambdas /\ Open(m)' \subseteq Lambdas
  BY DEF Open
<1>12. \A m \in taken : Open(m)' = Open(m) \cup {l}
  BY <1>9, <1>10, <1>11
<1>13. \A m \in Messages \ taken : Open(m)' = Open(m)
  BY <1>8, <1>9, <1>10, <1>11
<1> HIDE DEF taken
<1> QED BY <1>1, <1>2, <1>3, <1>4, <1>6, <1>7, <1>12, <1>13

\* The record that is next is open, and is not once it has been started.
LEMMA ConsumeEffect ==
    ASSUME TypeOK, BatchInv, NEW l \in Lambdas, ConsumeRecord(l),
           NEW j, j = Record(l)
    PROVE  /\ \A k \in Lambdas : Held(k)' = Held(k)
           /\ l \in Open(j)
           /\ Open(j)' = Open(j) \ {l}
           /\ \A m : m # j => Open(m)' = Open(m)
<1>1. /\ lambda'[l].batch = lambda[l].batch
      /\ lambda'[l].next = lambda[l].next + 1
      /\ \A k \in Lambdas \ {l} : lambda'[k] = lambda[k]
  BY NextEffect
<1>2. \A k \in Lambdas : Held(k)' = Held(k)
  BY <1>1 DEF Held
<1>3. /\ lambda[l].next \in DOMAIN lambda[l].batch
      /\ j = lambda[l].batch[lambda[l].next]
      /\ lambda[l].next \in Nat
      /\ DOMAIN lambda[l].batch \subseteq Nat
  BY DEF ConsumeRecord, HasNext, Record, TypeOK
<1>4. l \in Open(j)
  BY <1>3 DEF Open
<1>5. \A i \in DOMAIN lambda[l].batch :
        lambda[l].batch[i] = j => i = lambda[l].next
  BY <1>3 DEF BatchInv
<1>6. l \notin Open(j)'
  BY <1>1, <1>3, <1>5 DEF Open
<1>7. \A m : m # j => (l \in Open(m)' <=> l \in Open(m))
  <2> TAKE m
  <2> HAVE m # j
  <2>1. ASSUME NEW i \in DOMAIN lambda[l].batch, lambda[l].batch[i] = m
        PROVE  i >= lambda[l].next <=> i >= lambda[l].next + 1
    BY <1>3, <2>1
  <2> QED BY <1>1, <2>1 DEF Open
<1>8. \A m : \A k \in Lambdas \ {l} : k \in Open(m)' <=> k \in Open(m)
  BY <1>1 DEF Open
<1>9. \A m : Open(m) \subseteq Lambdas /\ Open(m)' \subseteq Lambdas
  BY DEF Open
<1>10. Open(j)' = Open(j) \ {l}
  BY <1>6, <1>8, <1>9
<1>11. \A m : m # j => Open(m)' = Open(m)
  BY <1>7, <1>8, <1>9
<1> QED BY <1>2, <1>4, <1>10, <1>11

----------------------------------------------------------------------------
(* The parts of the invariant. *)

\* A request, whichever of its steps it takes.
RequestStep(h) ==
    \/ \E j \in Jobs : StoreJob(h, j)
    \/ Dispatch(h)
    \/ DispatchFails(h)
    \/ MarkDispatchFailed(h)
    \/ RequestDies(h)

\* Every step keeps SentInv.
LEMMA SentStep ==
    ASSUME TypeOK, SentInv, RequestInv, [Next]_vars
    PROVE  SentInv'
<1>1. ASSUME NEW h \in Handlers, RequestStep(h)
      PROVE  SentInv'
  <2>1. PICK j \in Jobs : \/ StoreJob(h, j)
                          \/ Dispatch(h)
                          \/ DispatchFails(h)
                          \/ MarkDispatchFailed(h)
                          \/ RequestDies(h)
    BY <1>1 DEF RequestStep, RequestInv, Dispatch, DispatchFails,
                MarkDispatchFailed, RequestDies
  <2>2. UNCHANGED lambda
    BY <2>1, RequestEffect
  <2>3. \A l \in Lambdas : Held(l)' = Held(l) /\ Held(l) \subseteq Messages
    BY <2>2, HeldType DEF Held
  <2>4. CASE UNCHANGED aws
    BY <2>3, <2>4 DEF SentInv, aws
  <2>5. CASE ~UNCHANGED aws
    <3> DEFINE job == handler[h].job
    <3>1. /\ job \in Jobs
          /\ \A m \in Messages :
                \/ queue'[m] = queue[m]
                \/ m \in Sends /\ m[1] = job /\ queue'[m] = "waiting"
          /\ \A k \in Jobs \ {job} : body'[k] = body[k]
          /\ queue' # queue => body'[job] \in Machines
          /\ queue' = queue => body' = body
          /\ \A m \in Sends : m[1] = job => Unsent(m)
      BY <2>1, <2>5, RequestEffect DEF RequestInv
    <3> HIDE DEF job
    <3>2. \A m \in Messages : queue[m] # "absent" => queue'[m] # "absent"
      BY <3>1
    <3>3. ASSUME NEW m \in Sends, queue'[m] # "absent"
          PROVE  body'[m[1]] \in Machines
      <4>1. m \in Messages /\ m[1] \in Jobs
        BY SendType
      <4>2. CASE m[1] = job
        <5>1. queue[m] = "absent"
          BY <3>1, <4>2 DEF Unsent
        <5> QED BY <3>1, <3>3, <4>2, <5>1
      <4>3. CASE m[1] # job
        <5>1. queue'[m] = queue[m]
          BY <3>1, <4>1, <4>3
        <5> QED BY <3>1, <3>3, <4>1, <4>3, <5>1 DEF SentInv
      <4> QED BY <4>2, <4>3
    <3> QED BY <2>3, <3>2, <3>3 DEF SentInv
  <2> QED BY <2>4, <2>5
<1>2. ASSUME NEW m \in Messages, Expire(m)
      PROVE  SentInv'
  <2>1. \A l \in Lambdas : Held(l)' = Held(l) /\ Held(l) \subseteq Messages
    BY <1>2, HeldType DEF Held, Expire
  <2>2. \A x \in Messages : queue'[x] # "absent" <=> queue[x] # "absent"
    BY <1>2 DEF Expire, TypeOK
  <2> QED BY <1>2, <2>1, <2>2, SendType DEF SentInv, Expire
<1>9. ASSUME NEW m \in Messages, Redeliver(m)
      PROVE  SentInv'
  <2>1. \A l \in Lambdas : Held(l)' = Held(l) /\ Held(l) \subseteq Messages
    BY <1>9, HeldType DEF Held, Redeliver
  <2>2. \A x \in Messages : queue'[x] # "absent" <=> queue[x] # "absent"
    BY <1>9 DEF Redeliver, TypeOK
  <2> QED BY <1>9, <2>1, <2>2, SendType DEF SentInv, Redeliver
<1>3. ASSUME NEW l \in Lambdas, NEW b \in Batches(Waiting), Receive(l, b)
      PROVE  SentInv'
  <2>1. \A x \in Messages : queue'[x] # "absent" <=> queue[x] # "absent"
    BY <1>3, ReceiveEffect
  <2>2. \A m \in Held(l)' : queue'[m] # "absent"
    BY <1>3, ReceiveEffect
  <2>3. \A k \in Lambdas \ {l} : Held(k)' = Held(k) /\ Held(k) \subseteq Messages
    BY <1>3, ReceiveEffect, HeldType
  <2>4. body' = body
    BY <1>3 DEF Receive
  <2> QED BY <2>1, <2>2, <2>3, <2>4, SendType DEF SentInv
<1>4. ASSUME NEW l \in Lambdas, ConsumeRecord(l)
      PROVE  SentInv'
  <2>1. \A k \in Lambdas : Held(k)' = Held(k)
    <3>1. \A k \in Lambdas : lambda'[k].batch = lambda[k].batch
      BY <1>4, NextEffect
    <3> QED BY <3>1 DEF Held
  <2> QED BY <1>4, <2>1 DEF SentInv, ConsumeRecord
<1>5. ASSUME NEW l \in Lambdas, lambda' = [lambda EXCEPT ![l] = IdleLambda],
             \A x \in Messages : queue[x] # "absent" => queue'[x] # "absent",
             \A x \in Sends : queue'[x] # "absent" => queue[x] # "absent",
             body' = body
      PROVE  SentInv'
  <2>1. \A k \in Lambdas : Held(k)' \subseteq Held(k) /\ Held(k) \subseteq Messages
    BY <1>5, OverEffect, HeldType
  <2> QED BY <1>5, <2>1 DEF SentInv
<1>6. ASSUME NEW l \in Lambdas, ConsumeFails(l) \/ LambdaDies(l)
      PROVE  SentInv'
  BY <1>5, <1>6 DEF ConsumeFails, LambdaDies, Spoil, aws
<1>7. ASSUME NEW l \in Lambdas, NEW kept \in SUBSET Held(l), Return(l, kept)
      PROVE  SentInv'
  <2>1. \A x \in Messages : queue[x] # "absent" => queue'[x] # "absent"
    BY <1>7 DEF Return
  <2>2. \A x \in Sends : queue'[x] # "absent" => queue[x] # "absent"
    BY <1>7, SendType DEF Return, SentInv
  <2> QED BY <1>5, <1>7, <2>1, <2>2 DEF Return
<1>8. CASE UNCHANGED vars
  BY <1>8 DEF vars, aws, SentInv, Held
<1> QED
  BY <1>1, <1>2, <1>3, <1>4, <1>6, <1>7, <1>8, <1>9 DEF Next, Invocation, RequestStep

\* Every step keeps RequestInv.
LEMMA RequestsStep ==
    ASSUME TypeOK, SentInv, RequestInv, [Next]_vars
    PROVE  RequestInv'
<1>1. ASSUME NEW h \in Handlers, NEW j \in Jobs, StoreJob(h, j)
      PROVE  RequestInv'
  <2>1. /\ handler'[h] = [at |-> "dispatch", job |-> j]
        /\ \A g \in Handlers \ {h} : handler'[g] = handler[g]
        /\ status'[j] = "queued"
        /\ \A k \in Jobs \ {j} : status'[k] = status[k]
        /\ status[j] = "absent"
        /\ queue' = queue /\ executions' = executions
    BY <1>1 DEF StoreJob, TypeOK, aws, history
  <2>2. \A g \in Handlers : handler[g].at # "idle" => handler[g].job # j
    BY <2>1 DEF RequestInv
  <2>3. \A m \in Sends : m[1] \in Jobs /\ (Unsent(m) => Unsent(m)')
    BY <2>1, SendType DEF Unsent
  <2>4. /\ handler'[h].at = "dispatch"
        /\ handler'[h].job = j
    BY <2>1
  <2>5. ASSUME NEW g \in Handlers, NEW m \in Sends,
               handler'[g].at = "dispatch", m[1] = handler'[g].job
        PROVE  Unsent(m)'
    <3>1. CASE g = h
      BY <2>1, <2>3, <2>4, <2>5, <3>1 DEF RequestInv
    <3>2. CASE g # h
      BY <2>1, <2>3, <2>5, <3>2 DEF RequestInv
    <3> QED BY <3>1, <3>2
  <2>6. \A m \in Sends : status'[m[1]] = "absent" => Unsent(m)'
    BY <2>1, <2>3 DEF RequestInv
  <2> QED BY <2>1, <2>2, <2>4, <2>5, <2>6 DEF RequestInv
<1>2. ASSUME NEW h \in Handlers, Dispatch(h) \/ DispatchFails(h)
                                 \/ MarkDispatchFailed(h) \/ RequestDies(h)
      PROVE  RequestInv'
  <2> DEFINE job == handler[h].job
  <2>1. /\ handler'[h].at # "dispatch"
        /\ handler'[h].at # "idle" => handler[h].at # "idle" /\ handler'[h].job = job
        /\ \A g \in Handlers \ {h} : handler'[g] = handler[g]
    BY <1>2 DEF Dispatch, DispatchFails, MarkDispatchFailed, RequestDies,
                IdleHandler, TypeOK
  <2>2. \A k \in Jobs : status'[k] = "absent" <=> status[k] = "absent"
    BY <1>2 DEF Dispatch, DispatchFails, MarkDispatchFailed, RequestDies,
                TypeOK, RequestInv
  <2>3. job \in Jobs /\ status[job] # "absent"
    BY <1>2 DEF Dispatch, DispatchFails, MarkDispatchFailed, RequestDies, RequestInv
  <2>4. ASSUME NEW m \in Sends, Unsent(m), handler[h].at = "dispatch" => m[1] # job
        PROVE  Unsent(m)'
    <3>1. \/ UNCHANGED aws
          \/ /\ handler[h].at = "dispatch"
             /\ \A x \in Messages : queue'[x] = queue[x] \/ x[1] = job
             /\ \A x \in Sends : executions'[x] = executions[x] \/ x[1] = job
      BY <1>2, <2>3, RequestEffect
    <3> HIDE DEF job
    <3> QED BY <2>4, <3>1, SendType DEF Unsent, aws
  <2>5. ASSUME NEW g \in Handlers, NEW m \in Sends,
               handler'[g].at = "dispatch", m[1] = handler'[g].job
        PROVE  Unsent(m)'
    <3>1. g # h /\ handler'[g] = handler[g]
      BY <2>1, <2>5
    <3>2. handler[g].job \in Jobs /\ Unsent(m)
      BY <2>5, <3>1 DEF RequestInv
    <3>3. handler[h].at = "dispatch" => m[1] # job
      BY <2>5, <3>1 DEF RequestInv
    <3> QED BY <2>4, <3>2, <3>3
  <2>6. ASSUME NEW m \in Sends, status'[m[1]] = "absent"
        PROVE  Unsent(m)'
    <3>1. m[1] \in Jobs /\ status[m[1]] = "absent" /\ m[1] # job
      BY <2>2, <2>3, <2>6, SendType
    <3>2. Unsent(m)
      BY <3>1 DEF RequestInv
    <3> QED BY <2>4, <3>1, <3>2
  <2>7. \A g \in Handlers : handler'[g].at # "idle" =>
          /\ handler'[g].job \in Jobs
          /\ status'[handler'[g].job] # "absent"
    BY <2>1, <2>2, <2>3 DEF RequestInv
  <2>8. \A g \in Handlers : handler'[g].at = "dispatch" => handler'[g] = handler[g]
    BY <2>1
  <2>9. \A g1, g2 \in Handlers :
          /\ handler'[g1].at = "dispatch"
          /\ handler'[g2].at = "dispatch"
          /\ handler'[g1].job = handler'[g2].job
          => g1 = g2
    BY <2>8 DEF RequestInv
  <2> HIDE DEF job
  <2> QED BY <2>5, <2>6, <2>7, <2>9 DEF RequestInv
<1>3. ASSUME UNCHANGED <<handler, status>>,
             \A m \in Sends : queue[m] = "absent" /\ executions[m] = <<>> =>
                queue'[m] = "absent" /\ executions'[m] = <<>>
      PROVE  RequestInv'
  <2>1. \A m \in Sends : Unsent(m) => Unsent(m)'
    BY <1>3 DEF Unsent
  <2> QED BY <1>3, <2>1 DEF RequestInv
<1>4. ASSUME NEW m \in Messages, Expire(m)
      PROVE  RequestInv'
  <2>1. \A x \in Sends : queue[x] = "absent" => queue'[x] = "absent"
    BY <1>4, SendType DEF Expire, TypeOK
  <2> QED BY <1>3, <1>4, <2>1 DEF Expire
<1>10. ASSUME NEW m \in Messages, Redeliver(m)
       PROVE  RequestInv'
  <2>1. \A x \in Sends : queue[x] = "absent" => queue'[x] = "absent"
    BY <1>10, SendType DEF Redeliver, TypeOK
  <2> QED BY <1>3, <1>10, <2>1 DEF Redeliver
<1>5. ASSUME NEW l \in Lambdas, NEW b \in Batches(Waiting), Receive(l, b)
      PROVE  RequestInv'
  <2>1. \A m \in Sends : queue[m] = "absent" => queue'[m] = "absent"
    BY <1>5, ReceiveEffect, SendType
  <2> QED BY <1>3, <1>5, <2>1 DEF Receive
<1>6. ASSUME NEW l \in Lambdas, ConsumeRecord(l) \/ ConsumeFails(l)
      PROVE  RequestInv'
  <2>1. \/ executions' = executions
        \/ HasNext(l) /\ StartRecord(l)
    BY <1>6 DEF ConsumeRecord, ConsumeFails
  <2>2. \A m \in Sends : queue[m] = "absent" => executions'[m] = executions[m]
    BY <2>1, StartType
  <2> QED BY <1>3, <1>6, <2>2 DEF ConsumeRecord, ConsumeFails
<1>7. ASSUME NEW l \in Lambdas, LambdaDies(l)
      PROVE  RequestInv'
  BY <1>3, <1>7 DEF LambdaDies, aws
<1>8. ASSUME NEW l \in Lambdas, NEW kept \in SUBSET Held(l), Return(l, kept)
      PROVE  RequestInv'
  <2>1. \A m \in Sends : queue[m] = "absent" => queue'[m] = "absent"
    BY <1>8, SendType DEF Return, SentInv
  <2> QED BY <1>3, <1>8, <2>1 DEF Return
<1>9. CASE UNCHANGED vars
  BY <1>3, <1>9 DEF vars, aws
<1> QED
  BY <1>1, <1>2, <1>4, <1>5, <1>6, <1>7, <1>8, <1>9, <1>10 DEF Next, Invocation

\* An execution is never taken back.
LEMMA ExecutionsStay ==
    ASSUME TypeOK, SentInv, RequestInv, [Next]_vars
    PROVE  \A m \in Sends : executions[m] # <<>> => executions'[m] # <<>>
<1> DEFINE Stay == \A m \in Sends : executions[m] # <<>> => executions'[m] # <<>>
<1>1. ASSUME NEW h \in Handlers, RequestStep(h)
      PROVE  Stay
  <2>1. PICK k \in Jobs : \/ StoreJob(h, k)
                          \/ Dispatch(h)
                          \/ DispatchFails(h)
                          \/ MarkDispatchFailed(h)
                          \/ RequestDies(h)
    BY <1>1 DEF RequestStep, RequestInv, Dispatch, DispatchFails,
                MarkDispatchFailed, RequestDies
  <2>2. \A m \in Sends : executions'[m] = executions[m] \/ Len(executions'[m]) = 1
    BY <2>1, RequestEffect DEF aws
  <2> QED BY <2>2
<1>2. ASSUME NEW l \in Lambdas, HasNext(l), StartRecord(l)
      PROVE  Stay
  BY <1>2, StartType
<1>3. ASSUME NEW l \in Lambdas, Invocation(l)
      PROVE  Stay
  BY <1>2, <1>3 DEF Invocation, Receive, ConsumeRecord, ConsumeFails, LambdaDies,
                    Return, aws
<1>4. ASSUME NEW m \in Messages, Expire(m) \/ Redeliver(m)
      PROVE  Stay
  BY <1>4 DEF Expire, Redeliver
<1>5. CASE UNCHANGED vars
  BY <1>5 DEF vars, aws
<1> QED BY <1>1, <1>3, <1>4, <1>5 DEF Next, RequestStep

\* Every step keeps BatchInv.
LEMMA BatchStep ==
    ASSUME TypeOK, SentInv, RequestInv, BatchInv, [Next]_vars
    PROVE  BatchInv'
<1> DEFINE Good(l) ==
      /\ lambda[l].next <= Len(lambda[l].batch) + 1
      /\ \A i, k \in DOMAIN lambda[l].batch :
            lambda[l].batch[i] = lambda[l].batch[k] => i = k
      /\ \A i \in DOMAIN lambda[l].batch : i < lambda[l].next =>
            /\ lambda[l].batch[i] \in Sends
            /\ executions[lambda[l].batch[i]] # <<>>
<1>1. \A m \in Sends : executions[m] # <<>> => executions'[m] # <<>>
  BY ExecutionsStay
<1>2. ASSUME NEW l \in Lambdas, lambda'[l] = lambda[l]
      PROVE  Good(l)'
  BY <1>1, <1>2 DEF BatchInv
<1>3. ASSUME lambda' = lambda
      PROVE  BatchInv'
  BY <1>2, <1>3 DEF BatchInv
<1>4. ASSUME NEW h \in Handlers, RequestStep(h)
      PROVE  BatchInv'
  <2>1. PICK k \in Jobs : \/ StoreJob(h, k)
                          \/ Dispatch(h)
                          \/ DispatchFails(h)
                          \/ MarkDispatchFailed(h)
                          \/ RequestDies(h)
    BY <1>4 DEF RequestStep, RequestInv, Dispatch, DispatchFails,
                MarkDispatchFailed, RequestDies
  <2> QED BY <1>3, <2>1, RequestEffect
<1>5. ASSUME NEW m \in Messages, Expire(m) \/ Redeliver(m)
      PROVE  BatchInv'
  BY <1>3, <1>5 DEF Expire, Redeliver
<1>6. ASSUME NEW l \in Lambdas, NEW b \in Batches(Waiting), Receive(l, b)
      PROVE  BatchInv'
  <2>1. /\ lambda'[l].batch = b
        /\ lambda'[l].next = 1
        /\ \A k \in Lambdas \ {l} : lambda'[k] = lambda[k]
    BY <1>6, ReceiveEffect
  <2>2. b \in Seq(Messages) /\ \A i, k \in DOMAIN b : b[i] = b[k] => i = k
    BY BatchType
  <2>3. Good(l)'
    BY <2>1, <2>2
  <2> QED BY <1>2, <2>1, <2>3 DEF BatchInv
<1>7. ASSUME NEW l \in Lambdas, lambda' = [lambda EXCEPT ![l] = IdleLambda]
      PROVE  BatchInv'
  <2>1. /\ lambda'[l].batch = <<>>
        /\ lambda'[l].next = 1
        /\ \A k \in Lambdas \ {l} : lambda'[k] = lambda[k]
    BY <1>7, OverEffect
  <2>2. Good(l)'
    BY <2>1
  <2> QED BY <1>2, <2>1, <2>2 DEF BatchInv
<1>8. ASSUME NEW l \in Lambdas, ConsumeRecord(l)
      PROVE  BatchInv'
  <2>1. /\ lambda'[l].batch = lambda[l].batch
        /\ lambda'[l].next = lambda[l].next + 1
        /\ \A k \in Lambdas \ {l} : lambda'[k] = lambda[k]
    BY <1>8, NextEffect
  <2>2. /\ lambda[l].next \in DOMAIN lambda[l].batch
        /\ lambda[l].batch[lambda[l].next] = Record(l)
        /\ lambda[l].batch \in Seq(Messages)
        /\ lambda[l].next \in Nat
    BY <1>8 DEF ConsumeRecord, HasNext, Record, TypeOK
  <2>3. Record(l) \in Sends /\ executions'[Record(l)] # <<>>
    BY <1>8, StartType DEF ConsumeRecord
  <2>4. \A i \in DOMAIN lambda[l].batch : i < lambda[l].next + 1 =>
          i < lambda[l].next \/ i = lambda[l].next
    BY <2>2
  <2>5. Good(l)
    BY DEF BatchInv
  <2>6. lambda[l].next + 1 <= Len(lambda[l].batch) + 1
    BY <2>2
  <2>7. ASSUME NEW i \in DOMAIN lambda[l].batch, i < lambda[l].next + 1
        PROVE  /\ lambda[l].batch[i] \in Sends
               /\ executions'[lambda[l].batch[i]] # <<>>
    BY <1>1, <2>2, <2>3, <2>4, <2>5, <2>7
  <2>8. Good(l)'
    BY <2>1, <2>5, <2>6, <2>7
  <2> QED BY <1>2, <2>1, <2>8 DEF BatchInv
<1>9. ASSUME NEW l \in Lambdas, Invocation(l)
      PROVE  BatchInv'
  BY <1>6, <1>7, <1>8, <1>9 DEF Invocation, ConsumeFails, LambdaDies, Spoil, Return
<1>10. CASE UNCHANGED vars
  BY <1>3, <1>10 DEF vars
<1> QED BY <1>4, <1>5, <1>9, <1>10 DEF Next, RequestStep

\* A message is deleted only by an invocation that has started all it held.
LEMMA DroppedStep ==
    ASSUME TypeOK, SentInv, RequestInv, BatchInv, NothingAcceptedIsDropped, [Next]_vars
    PROVE  NothingAcceptedIsDropped'
<1>1. \A m \in Sends : executions[m] # <<>> => executions'[m] # <<>>
  BY ExecutionsStay
<1>2. ASSUME \A m \in Messages : queue'[m] = "deleted" => queue[m] = "deleted"
      PROVE  NothingAcceptedIsDropped'
  BY <1>1, <1>2 DEF NothingAcceptedIsDropped
<1>3. ASSUME NEW h \in Handlers, RequestStep(h)
      PROVE  NothingAcceptedIsDropped'
  <2>1. PICK k \in Jobs : \/ StoreJob(h, k)
                          \/ Dispatch(h)
                          \/ DispatchFails(h)
                          \/ MarkDispatchFailed(h)
                          \/ RequestDies(h)
    BY <1>3 DEF RequestStep, RequestInv, Dispatch, DispatchFails,
                MarkDispatchFailed, RequestDies
  <2>2. \A m \in Messages : queue'[m] = queue[m] \/ queue'[m] = "waiting"
    BY <2>1, RequestEffect DEF aws
  <2> QED BY <1>2, <2>2
<1>4. ASSUME NEW m \in Messages, Expire(m) \/ Redeliver(m)
      PROVE  NothingAcceptedIsDropped'
  BY <1>2, <1>4 DEF Expire, Redeliver, TypeOK
<1>5. ASSUME NEW l \in Lambdas, NEW b \in Batches(Waiting), Receive(l, b)
      PROVE  NothingAcceptedIsDropped'
  BY <1>2, <1>5 DEF Receive
<1>6. ASSUME NEW l \in Lambdas, ConsumeRecord(l) \/ ConsumeFails(l) \/ LambdaDies(l)
      PROVE  NothingAcceptedIsDropped'
  BY <1>2, <1>6 DEF ConsumeRecord, ConsumeFails, LambdaDies, aws
<1>7. ASSUME NEW l \in Lambdas, NEW kept \in SUBSET Held(l), Return(l, kept)
      PROVE  NothingAcceptedIsDropped'
  <2>1. /\ lambda[l].batch \in Seq(Messages)
        /\ lambda[l].next \in Nat \ {0}
        /\ lambda[l].next <= Len(lambda[l].batch) + 1
        /\ lambda[l].next \notin DOMAIN lambda[l].batch
    BY <1>7 DEF Return, HasNext, BatchInv, TypeOK
  <2>2. \A i \in DOMAIN lambda[l].batch : i < lambda[l].next
    BY <2>1
  <2>3. \A m \in Held(l) : m \in Sends /\ executions[m] # <<>>
    BY <2>2 DEF Held, BatchInv
  <2>4. /\ \A m \in Messages : queue'[m] = "deleted" =>
             m \in Held(l) \/ queue[m] = "deleted"
        /\ executions' = executions
    BY <1>7 DEF Return
  <2> QED BY <2>3, <2>4 DEF NothingAcceptedIsDropped
<1>8. CASE UNCHANGED vars
  BY <1>2, <1>8 DEF vars, aws
<1> QED
  BY <1>3, <1>4, <1>5, <1>6, <1>7, <1>8 DEF Next, Invocation, RequestStep

----------------------------------------------------------------------------
(* Counting. *)

\* Sets of invocations are finite, and one invocation more or less counts one.
LEMMA Counting ==
    ASSUME NEW S \in SUBSET Lambdas, NEW l \in Lambdas
    PROVE  /\ IsFiniteSet(S)
           /\ Cardinality(S) \in Nat
           /\ Cardinality(S \ {l}) \in Nat
           /\ Cardinality(S \cup {l}) \in Nat
           /\ Cardinality(S \ {l}) <= Cardinality(S)
           /\ l \in S => Cardinality(S \ {l}) + 1 = Cardinality(S)
           /\ Cardinality(S \cup {l}) <= Cardinality(S) + 1
<1>1. IsFiniteSet(S)
  BY LambdasAssumption, FS_Subset
<1>2. Cardinality(S) \in Nat
  BY <1>1, FS_CardinalityType
<1>3. /\ IsFiniteSet(S \ {l})
      /\ Cardinality(S \ {l}) = IF l \in S THEN Cardinality(S) - 1 ELSE Cardinality(S)
  BY <1>1, FS_RemoveElement
<1>4. /\ IsFiniteSet(S \cup {l})
      /\ Cardinality(S \cup {l}) = IF l \in S THEN Cardinality(S) ELSE Cardinality(S) + 1
  BY <1>1, FS_AddElement
<1>5. Cardinality(S \ {l}) \in Nat /\ Cardinality(S \cup {l}) \in Nat
  BY <1>3, <1>4, FS_CardinalityType
<1> QED BY <1>1, <1>2, <1>3, <1>4, <1>5

\* What may still start m is a set of invocations.
LEMMA OpenType == \A m : Open(m) \in SUBSET Lambdas
BY DEF Open

\* What is open is held.
LEMMA OpenHeld ==
    ASSUME NEW m, NEW l \in Open(m)
    PROVE  l \in Lambdas /\ m \in Held(l)
BY DEF Open, Held

\* Every step keeps StartInv.
LEMMA StartStep ==
    ASSUME TypeOK, SentInv, RequestInv, BatchInv, StartInv, [Next]_vars
    PROVE  StartInv'
<1> DEFINE Good(m) ==
      IF queue[m] = "absent"
      THEN Len(executions[m]) <= 1
      ELSE Len(executions[m]) + Cardinality(Open(m)) <= receives[m] + retried[m]
<1>1. \A m \in Sends : /\ m \in Messages
                       /\ Len(executions[m]) \in Nat
                       /\ receives[m] \in Nat
                       /\ retried[m] \in Nat
                       /\ Cardinality(Open(m)) \in Nat
                       /\ Good(m)
  <2>1. \A m \in Sends : Cardinality(Open(m)) \in Nat
    BY OpenType, LambdasAssumption, FS_Subset, FS_CardinalityType
  <2> QED BY <2>1, SendType DEF TypeOK, StartInv
<1>2. ASSUME NEW m \in Sends, executions'[m] = executions[m], Open(m)' = Open(m),
             queue'[m] = "absent" <=> queue[m] = "absent",
             receives'[m] = receives[m], retried'[m] = retried[m]
      PROVE  Good(m)'
  BY <1>1, <1>2
<1>3. ASSUME NEW h \in Handlers, RequestStep(h)
      PROVE  StartInv'
  <2> DEFINE job == handler[h].job
  <2>1. PICK k \in Jobs : \/ StoreJob(h, k)
                          \/ Dispatch(h)
                          \/ DispatchFails(h)
                          \/ MarkDispatchFailed(h)
                          \/ RequestDies(h)
    BY <1>3 DEF RequestStep, RequestInv, Dispatch, DispatchFails,
                MarkDispatchFailed, RequestDies
  <2>2. /\ UNCHANGED <<lambda, receives, retried>>
        /\ \/ UNCHANGED aws
           \/ /\ handler[h].at = "dispatch"
              /\ \A m \in Messages :
                    \/ queue'[m] = queue[m]
                    \/ m \in Sends /\ m[1] = job /\ queue'[m] = "waiting"
              /\ \A m \in Sends :
                    \/ executions'[m] = executions[m]
                    \/ m[1] = job /\ Len(executions'[m]) = 1
              /\ queue' = queue \/ executions' = executions
    BY <2>1, RequestEffect
  <2>3. \A m : Open(m)' = Open(m)
    BY <2>2 DEF Open
  <2>4. CASE UNCHANGED aws
    BY <1>2, <2>2, <2>3, <2>4 DEF aws, StartInv
  <2>5. ASSUME ~UNCHANGED aws, NEW m \in Sends
        PROVE  Good(m)'
    <3>1. CASE queue'[m] = queue[m] /\ executions'[m] = executions[m]
      BY <1>2, <2>2, <2>3, <3>1
    <3>2. CASE queue'[m] # queue[m] \/ executions'[m] # executions[m]
      <4>1. m[1] = job /\ Unsent(m)
        BY <1>1, <2>2, <2>5, <3>2 DEF RequestInv
      <4>2. queue[m] = "absent" /\ executions[m] = <<>>
        BY <4>1 DEF Unsent
      <4>3. Open(m) = {}
        BY <4>2, OpenType, OpenHeld DEF SentInv
      <4>4. Cardinality(Open(m)') = 0
        BY <2>3, <4>3, FS_EmptySet
      <4>5. CASE executions'[m] = executions[m] /\ queue'[m] = "waiting"
        <5>1. Len(executions'[m]) = 0
          BY <4>2, <4>5
        <5> QED BY <1>1, <2>2, <4>4, <4>5, <5>1
      <4>6. CASE queue'[m] = queue[m] /\ Len(executions'[m]) = 1
        BY <4>2, <4>6
      <4> HIDE DEF job
      <4> QED BY <1>1, <2>2, <2>5, <3>2, <4>5, <4>6
    <3> QED BY <3>1, <3>2
  <2> QED BY <2>4, <2>5 DEF StartInv
<1>4. ASSUME NEW m \in Messages, Expire(m) \/ Redeliver(m)
      PROVE  StartInv'
  <2>1. \A x : Open(x)' = Open(x)
    BY <1>4 DEF Open, Expire, Redeliver
  <2>2. \A x \in Sends : queue'[x] = "absent" <=> queue[x] = "absent"
    BY <1>4, SendType DEF Expire, Redeliver, TypeOK
  <2> QED BY <1>2, <1>4, <2>1, <2>2 DEF Expire, Redeliver, StartInv
<1>5. ASSUME NEW l \in Lambdas, NEW b \in Batches(Waiting), Receive(l, b)
      PROVE  StartInv'
  <2>1. executions' = executions /\ retried' = retried
    BY <1>5 DEF Receive, history
  <2>2. ASSUME NEW m \in Sends, m \in Held(l)' PROVE Good(m)'
    <3>1. /\ Open(m)' = Open(m) \cup {l}
          /\ queue[m] = "waiting"
          /\ queue'[m] = "hidden"
          /\ receives'[m] = receives[m] + 1
      BY <1>5, <2>2, ReceiveEffect
    <3>2. /\ Cardinality(Open(m)') \in Nat
          /\ Cardinality(Open(m)') <= Cardinality(Open(m)) + 1
      BY <3>1, OpenType, Counting
    <3>3. Len(executions[m]) + Cardinality(Open(m)) <= receives[m] + retried[m]
      BY <1>1, <3>1
    <3> QED BY <1>1, <2>1, <3>1, <3>2, <3>3
  <2>3. ASSUME NEW m \in Sends, m \notin Held(l)' PROVE Good(m)'
    BY <1>1, <1>2, <1>5, <2>1, <2>3, ReceiveEffect
  <2> QED BY <2>2, <2>3 DEF StartInv
<1>6. ASSUME NEW l \in Lambdas, HasNext(l), StartRecord(l),
             NEW j \in Sends, j = Record(l),
             l \in Open(j), Open(j)' = Open(j) \ {l},
             \A m \in Sends \ {j} : Open(m)' = Open(m) \/ Open(m)' = Open(m) \ {l},
             UNCHANGED <<queue, receives>>
      PROVE  StartInv'
  <2>1. /\ Len(executions'[j]) - retried'[j] = Len(executions[j]) - retried[j] + 1
        /\ queue[j] # "absent"
        /\ executions'[j] \in Seq(Machines) /\ retried'[j] \in Nat
        /\ \A m \in Sends \ {j} : executions'[m] = executions[m] /\ retried'[m] = retried[m]
    BY <1>6, StartType
  <2>2. Len(executions'[j]) \in Nat
    BY <2>1
  <2>3. Cardinality(Open(j)') + 1 = Cardinality(Open(j)) /\ Cardinality(Open(j)') \in Nat
    BY <1>6, OpenType, Counting
  <2>4. Len(executions[j]) + Cardinality(Open(j)) <= receives[j] + retried[j]
    BY <1>1, <2>1
  <2>5. Good(j)'
    <3>1. queue'[j] # "absent" /\ receives'[j] = receives[j]
      BY <1>6, <2>1
    <3>2. Len(executions'[j]) + Cardinality(Open(j)') <= receives[j] + retried'[j]
      <4> DEFINE started == Len(executions'[j])
                 open == Cardinality(Open(j)')
                 before == Len(executions[j])
                 wasOpen == Cardinality(Open(j))
      <4>1. /\ started - retried'[j] = before - retried[j] + 1
            /\ open + 1 = wasOpen
            /\ before + wasOpen <= receives[j] + retried[j]
            /\ started \in Nat /\ open \in Nat /\ retried'[j] \in Nat
        BY <2>1, <2>2, <2>3, <2>4
      <4>2. /\ before \in Nat /\ wasOpen \in Nat
            /\ receives[j] \in Nat /\ retried[j] \in Nat
        BY <1>1
      <4> HIDE DEF started, open, before, wasOpen
      <4>3. started + open <= receives[j] + retried'[j]
        BY <4>1, <4>2
      <4> QED BY <4>3 DEF started, open
    <3> QED BY <3>1, <3>2
  <2>6. ASSUME NEW m \in Sends \ {j} PROVE Good(m)'
    <3>1. /\ Cardinality(Open(m)') <= Cardinality(Open(m))
          /\ Cardinality(Open(m)') \in Nat
      <4>1. Open(m)' = Open(m) \/ Open(m)' = Open(m) \ {l}
        BY <1>6
      <4>2. CASE Open(m)' = Open(m)
        BY <1>1, <4>2
      <4>3. CASE Open(m)' = Open(m) \ {l}
        BY <4>3, OpenType, Counting
      <4> QED BY <4>1, <4>2, <4>3
    <3>2. /\ queue'[m] = queue[m]
          /\ receives'[m] = receives[m]
          /\ executions'[m] = executions[m]
          /\ retried'[m] = retried[m]
      BY <1>6, <2>1
    <3> QED BY <1>1, <3>1, <3>2
  <2> QED BY <2>5, <2>6 DEF StartInv
<1>7. ASSUME NEW l \in Lambdas, ConsumeRecord(l)
      PROVE  StartInv'
  <2>1. /\ HasNext(l)
        /\ StartRecord(l)
        /\ UNCHANGED <<queue, receives>>
    BY <1>7 DEF ConsumeRecord
  <2>2. PICK j \in Sends : j = Record(l)
    BY <2>1 DEF StartRecord
  <2>3. /\ l \in Open(j)
        /\ Open(j)' = Open(j) \ {l}
        /\ \A m : m # j => Open(m)' = Open(m)
    BY <1>7, <2>2, ConsumeEffect
  <2> QED BY <1>6, <2>1, <2>2, <2>3
<1>8. ASSUME NEW l \in Lambdas, HasNext(l), StartRecord(l),
             lambda' = [lambda EXCEPT ![l] = IdleLambda], UNCHANGED <<queue, receives>>
      PROVE  StartInv'
  <2>1. \A m : Open(m)' = Open(m) \ {l}
    BY <1>8, OverEffect
  <2>0. PICK j \in Sends : j = Record(l)
    BY <1>8 DEF StartRecord
  <2>2. l \in Open(j)
    <3>1. /\ lambda[l].next \in DOMAIN lambda[l].batch
          /\ lambda[l].next \in Nat
          /\ lambda[l].batch[lambda[l].next] = j
      BY <1>8, <2>0 DEF HasNext, Record, TypeOK
    <3>2. lambda[l].next >= lambda[l].next
      BY <3>1
    <3> QED BY <3>1, <3>2 DEF Open
  <2> QED BY <1>6, <1>8, <2>0, <2>1, <2>2
<1>9. ASSUME NEW l \in Lambdas, lambda' = [lambda EXCEPT ![l] = IdleLambda],
             UNCHANGED <<receives, executions, retried>>,
             \A m \in Sends : queue'[m] = "absent" <=> queue[m] = "absent"
      PROVE  StartInv'
  <2>1. ASSUME NEW m \in Sends PROVE Good(m)'
    <3>1. Open(m)' = Open(m) \ {l}
      BY <1>9, OverEffect
    <3>2. /\ Cardinality(Open(m)') <= Cardinality(Open(m))
          /\ Cardinality(Open(m)') \in Nat
      BY <3>1, OpenType, Counting
    <3> QED BY <1>1, <1>9, <3>2
  <2> QED BY <2>1 DEF StartInv
<1>10. ASSUME NEW l \in Lambdas, ConsumeFails(l) \/ LambdaDies(l)
       PROVE  StartInv'
  <2>1. /\ lambda' = [lambda EXCEPT ![l] = IdleLambda]
        /\ UNCHANGED <<queue, receives>>
        /\ \/ UNCHANGED <<executions, retried>>
           \/ HasNext(l) /\ StartRecord(l)
    BY <1>10 DEF ConsumeFails, LambdaDies, Spoil, aws
  <2> QED BY <1>8, <1>9, <2>1
<1>11. ASSUME NEW l \in Lambdas, NEW kept \in SUBSET Held(l), Return(l, kept)
       PROVE  StartInv'
  <2>1. \A m \in Sends : queue'[m] = "absent" <=> queue[m] = "absent"
    BY <1>11, SendType DEF Return, SentInv
  <2> QED BY <1>9, <1>11, <2>1 DEF Return, history
<1>12. CASE UNCHANGED vars
  <2>1. \A m : Open(m)' = Open(m)
    BY <1>12 DEF Open, vars
  <2> QED BY <1>2, <1>12, <2>1 DEF vars, aws, history, StartInv
<1> QED
  BY <1>3, <1>4, <1>5, <1>7, <1>10, <1>11, <1>12 DEF Next, Invocation, RequestStep

\* Who holds the newest receipt of a message is a set of invocations.
LEMMA HoldersType == \A m : Holders(m) \in SUBSET Lambdas
BY DEF Holders

\* When an invocation ends, it alone ceases to be a holder.
LEMMA HoldersOver ==
    ASSUME TypeOK, NEW l \in Lambdas, lambda' = [lambda EXCEPT ![l] = IdleLambda],
           receives' = receives, NEW m
    PROVE  Holders(m)' = Holders(m) \ {l}
<1>1. l \notin Holders(m)'
  BY OverEffect DEF Holders
<1>2. \A k \in Lambdas \ {l} : k \in Holders(m)' <=> k \in Holders(m)
  BY OverEffect DEF Holders
<1>3. Holders(m) \subseteq Lambdas /\ Holders(m)' \subseteq Lambdas
  BY DEF Holders
<1> QED BY <1>1, <1>2, <1>3

\* Every step keeps SpoiltInv.
LEMMA SpoiltStep ==
    ASSUME TypeOK, SentInv, RequestInv, BatchInv, SpoiltInv, [Next]_vars
    PROVE  SpoiltInv'
<1> DEFINE Good(m) ==
      /\ receives[m] <= spoilt[m] + 1
      /\ queue[m] \in {"absent", "waiting"} => receives[m] <= spoilt[m]
      /\ queue[m] = "hidden" /\ Holders(m) = {} => receives[m] <= spoilt[m]
<1>1. \A m \in Messages : receives[m] \in Nat /\ spoilt[m] \in Nat /\ Good(m)
  BY DEF TypeOK, SpoiltInv
<1>2. ASSUME NEW m \in Messages, receives'[m] = receives[m], spoilt'[m] = spoilt[m],
             Holders(m)' = Holders(m),
             \/ queue'[m] = queue[m]
             \/ queue'[m] = "deleted"
             \/ queue[m] = "absent" /\ queue'[m] = "waiting"
      PROVE  Good(m)'
  BY <1>1, <1>2
<1>3. ASSUME NEW h \in Handlers, RequestStep(h)
      PROVE  SpoiltInv'
  <2>1. PICK k \in Jobs : \/ StoreJob(h, k)
                          \/ Dispatch(h)
                          \/ DispatchFails(h)
                          \/ MarkDispatchFailed(h)
                          \/ RequestDies(h)
    BY <1>3 DEF RequestStep, RequestInv, Dispatch, DispatchFails,
                MarkDispatchFailed, RequestDies
  <2>2. /\ UNCHANGED <<lambda, receives, spoilt>>
        /\ \A m \in Messages :
              \/ queue'[m] = queue[m]
              \/ /\ handler[h].at = "dispatch"
                 /\ m \in Sends
                 /\ m[1] = handler[h].job
                 /\ queue'[m] = "waiting"
    BY <2>1, RequestEffect DEF aws
  <2>3. \A m : Holders(m)' = Holders(m)
    BY <2>2 DEF Holders, Held
  <2>4. \A m \in Messages : \/ queue'[m] = queue[m]
                            \/ queue[m] = "absent" /\ queue'[m] = "waiting"
    BY <2>2 DEF RequestInv, Unsent
  <2> QED BY <1>2, <2>2, <2>3, <2>4 DEF SpoiltInv
<1>4. ASSUME NEW m \in Messages, Expire(m)
      PROVE  SpoiltInv'
  <2>1. /\ queue[m] = "hidden"
        /\ queue'[m] = "waiting"
        /\ spoilt'[m] = spoilt[m] + Cardinality(Holders(m))
        /\ receives' = receives
        /\ \A k \in Messages \ {m} : queue'[k] = queue[k] /\ spoilt'[k] = spoilt[k]
    BY <1>4 DEF Expire, TypeOK
  <2>2. \A k : Holders(k)' = Holders(k)
    BY <1>4 DEF Expire, Holders, Held
  <2>3. IsFiniteSet(Holders(m))
    BY HoldersType, LambdasAssumption, FS_Subset
  <2>4. Cardinality(Holders(m)) \in Nat /\ (Cardinality(Holders(m)) = 0 <=> Holders(m) = {})
    BY <2>3, FS_CardinalityType, FS_EmptySet
  <2>5. receives[m] <= spoilt[m] + Cardinality(Holders(m))
    BY <1>1, <2>1, <2>4
  <2>6. receives'[m] <= spoilt'[m] + 1
    BY <1>1, <2>1, <2>4, <2>5
  <2>7. Good(m)'
    BY <2>1, <2>5, <2>6
  <2>8. ASSUME NEW k \in Messages \ {m} PROVE Good(k)'
    BY <1>2, <2>1, <2>2
  <2> QED BY <2>7, <2>8 DEF SpoiltInv
<1>11. ASSUME NEW m \in Messages, Redeliver(m)
       PROVE  SpoiltInv'
  <2>1. /\ queue'[m] = "waiting"
        /\ spoilt'[m] = spoilt[m] + 1
        /\ receives' = receives
        /\ \A k \in Messages \ {m} : queue'[k] = queue[k] /\ spoilt'[k] = spoilt[k]
    BY <1>11 DEF Redeliver, TypeOK
  <2>2. \A k : Holders(k)' = Holders(k)
    BY <1>11 DEF Redeliver, Holders, Held
  <2>3. Good(m)'
    BY <1>1, <2>1
  <2>4. ASSUME NEW k \in Messages \ {m} PROVE Good(k)'
    BY <1>2, <2>1, <2>2
  <2> QED BY <2>3, <2>4 DEF SpoiltInv
<1>5. ASSUME NEW l \in Lambdas, NEW b \in Batches(Waiting), Receive(l, b)
      PROVE  SpoiltInv'
  <2>1. spoilt' = spoilt
    BY <1>5 DEF Receive, history
  <2>2. ASSUME NEW m \in Messages, m \in Held(l)' PROVE Good(m)'
    <3>1. /\ queue[m] = "waiting"
          /\ queue'[m] = "hidden"
          /\ receives'[m] = receives[m] + 1
          /\ l \in Holders(m)'
      BY <1>5, <2>2, ReceiveEffect DEF Holders
    <3> QED BY <1>1, <2>1, <3>1
  <2>3. ASSUME NEW m \in Messages, m \notin Held(l)' PROVE Good(m)'
    <3>1. queue'[m] = queue[m] /\ receives'[m] = receives[m]
      BY <1>5, <2>3, ReceiveEffect
    <3>2. \A k \in Lambdas : m \in Held(k)' <=> m \in Held(k)
      BY <1>5, <2>3, ReceiveEffect
    <3>3. \A k \in Lambdas : m \in Held(k)' => lambda'[k] = lambda[k]
      BY <1>5, <2>3, ReceiveEffect
    <3>4. Holders(m)' = Holders(m)
      BY <3>1, <3>2, <3>3 DEF Holders
    <3> QED BY <1>2, <2>1, <3>1, <3>4
  <2> QED BY <2>2, <2>3 DEF SpoiltInv
<1>6. ASSUME NEW l \in Lambdas, ConsumeRecord(l)
      PROVE  SpoiltInv'
  <2>1. /\ \A k \in Lambdas : Held(k)' = Held(k)
        /\ \A k \in Lambdas : lambda'[k].receipt = lambda[k].receipt
    <3>1. \A k \in Lambdas : /\ lambda'[k].batch = lambda[k].batch
                             /\ lambda'[k].receipt = lambda[k].receipt
      BY <1>6, NextEffect
    <3> QED BY <3>1 DEF Held
  <2>2. receives' = receives /\ spoilt' = spoilt /\ queue' = queue
    BY <1>6 DEF ConsumeRecord
  <2>3. \A m : Holders(m)' = Holders(m)
    BY <2>1, <2>2 DEF Holders
  <2> QED BY <1>2, <2>2, <2>3 DEF SpoiltInv
<1>7. ASSUME NEW l \in Lambdas, Spoil(l), queue' = queue, receives' = receives
      PROVE  SpoiltInv'
  <2>1. ASSUME NEW m \in Messages PROVE Good(m)'
    <3>1. spoilt'[m] = IF m \in Held(l) /\ l \in Holders(m) /\ queue[m] # "waiting"
                       THEN spoilt[m] + 1 ELSE spoilt[m]
      BY <1>7 DEF Spoil
    <3>2. Holders(m)' = Holders(m) \ {l}
      BY <1>7, HoldersOver DEF Spoil
    <3>3. l \in Holders(m) => m \in Held(l)
      BY DEF Holders
    <3>4. queue'[m] = queue[m] /\ receives'[m] = receives[m]
      BY <1>7
    <3>5. CASE l \in Holders(m) /\ queue[m] # "waiting"
      <4>1. spoilt'[m] = spoilt[m] + 1
        BY <3>1, <3>3, <3>5
      <4> QED BY <1>1, <3>4, <4>1
    <3>6. CASE queue[m] = "waiting"
      <4>1. spoilt'[m] = spoilt[m]
        BY <3>1, <3>6
      <4> QED BY <1>1, <3>4, <3>6, <4>1
    <3>7. CASE l \notin Holders(m)
      <4>1. spoilt'[m] = spoilt[m] /\ Holders(m)' = Holders(m)
        BY <3>1, <3>2, <3>7
      <4> QED BY <1>2, <3>4, <4>1
    <3> QED BY <3>5, <3>6, <3>7
  <2> QED BY <2>1 DEF SpoiltInv
<1>8. ASSUME NEW l \in Lambdas, ConsumeFails(l) \/ LambdaDies(l)
      PROVE  SpoiltInv'
  BY <1>7, <1>8 DEF ConsumeFails, LambdaDies, aws
<1>9. ASSUME NEW l \in Lambdas, NEW kept \in SUBSET Held(l), Return(l, kept)
      PROVE  SpoiltInv'
  <2>1. /\ lambda' = [lambda EXCEPT ![l] = IdleLambda]
        /\ receives' = receives
        /\ spoilt' = spoilt
    BY <1>9 DEF Return, history
  <2>2. ASSUME NEW m \in Messages PROVE Good(m)'
    <3>1. Holders(m)' = Holders(m) \ {l}
      BY <2>1, HoldersOver
    <3>2. queue'[m] = IF m \in Held(l) \ kept THEN "deleted" ELSE queue[m]
      BY <1>9 DEF Return
    <3>3. CASE m \in Held(l) \ kept
      BY <1>1, <2>1, <3>2, <3>3
    <3>4. CASE m \notin Held(l) \ kept
      <4>1. l \notin Holders(m)
        BY <1>9, <3>4 DEF Return, Holders
      <4>2. Holders(m)' = Holders(m) /\ queue'[m] = queue[m]
        BY <3>1, <3>2, <3>4, <4>1
      <4> QED BY <1>2, <2>1, <4>2
    <3> QED BY <3>3, <3>4
  <2> QED BY <2>2 DEF SpoiltInv
<1>10. CASE UNCHANGED vars
  <2>1. \A m : Holders(m)' = Holders(m)
    BY <1>10 DEF Holders, Held, vars, aws
  <2> QED BY <1>2, <1>10, <2>1 DEF vars, aws, history, SpoiltInv
<1> QED
  BY <1>3, <1>4, <1>5, <1>6, <1>8, <1>9, <1>10, <1>11 DEF Next, Invocation, RequestStep

----------------------------------------------------------------------------
(* The theorems. *)

\* In the beginning nothing was sent, received or started.
LEMMA InitIInv == Init => IInv
<1> SUFFICES ASSUME Init PROVE IInv
  OBVIOUS
<1>1. TypeOK
  <2>1. lambda \in [Lambdas -> [batch : Seq(Messages), next : Nat \ {0},
                                receipt : [Messages -> Nat]]]
    BY DEF Init, IdleLambda
  <2> QED BY <2>1 DEF Init, TypeOK, IdleHandler, Messages
<1>2. \A l \in Lambdas : Held(l) = {} /\ lambda[l].batch = <<>> /\ lambda[l].next = 1
  BY DEF Init, Held, IdleLambda
<1>3. SentInv
  BY <1>2, StraysAssumption, SendType DEF Init, SentInv
<1>4. RequestInv
  BY StraysAssumption, SendType DEF Init, RequestInv, Unsent, IdleHandler
<1>5. BatchInv
  BY <1>2 DEF BatchInv
<1>6. NothingAcceptedIsDropped
  BY DEF Init, NothingAcceptedIsDropped
<1>7. StartInv
  BY StraysAssumption, SendType DEF Init, StartInv
<1>8. SpoiltInv
  BY DEF Init, SpoiltInv
<1> QED BY <1>1, <1>3, <1>4, <1>5, <1>6, <1>7, <1>8 DEF IInv

\* The invariant holds in every state: what each actor may rely on.
THEOREM Invariance == Spec => []IInv
<1>1. IInv /\ [Next]_vars => IInv'
  BY TypeStep, SentStep, RequestsStep, BatchStep, DroppedStep, StartStep, SpoiltStep
  DEF IInv
<1> QED BY InitIInv, <1>1, PTL DEF Spec

\* Every variable keeps its type.
THEOREM TypeCorrect == Spec => []TypeOK
<1>1. IInv => TypeOK
  BY DEF IInv
<1> QED BY Invariance, <1>1, PTL

\* No message leaves the queue before an invocation has started its execution.
THEOREM AcceptedIsStarted == Spec => []NothingAcceptedIsDropped
<1>1. IInv => NothingAcceptedIsDropped
  BY DEF IInv
<1> QED BY Invariance, <1>1, PTL

\* A message is started once, and once more for what its invocations failed at,
\* what SQS delivered again and what the client repeated.
THEOREM DuplicatesAreCounted == Spec => []DuplicatesAreExplained
<1>1. IInv => DuplicatesAreExplained
  <2> SUFFICES ASSUME IInv, NEW m \in Sends
               PROVE  /\ Len(executions[m]) <= 1 + spoilt[m] + retried[m]
                      /\ queue[m] = "absent" => Len(executions[m]) <= 1
    BY DEF DuplicatesAreExplained
  <2>1. /\ Len(executions[m]) \in Nat
        /\ spoilt[m] \in Nat
        /\ retried[m] \in Nat
        /\ receives[m] \in Nat
        /\ receives[m] <= spoilt[m] + 1
    BY SendType DEF IInv, TypeOK, SpoiltInv
  <2>2. Cardinality(Open(m)) \in Nat
    BY OpenType, LambdasAssumption, FS_Subset, FS_CardinalityType
  <2>3. IF queue[m] = "absent"
        THEN Len(executions[m]) <= 1
        ELSE Len(executions[m]) + Cardinality(Open(m)) <= receives[m] + retried[m]
    BY DEF IInv, StartInv
  <2> QED BY <2>1, <2>2, <2>3
<1> QED BY Invariance, <1>1, PTL
=============================================================================
