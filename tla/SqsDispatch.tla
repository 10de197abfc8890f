----------------------------- MODULE SqsDispatch -----------------------------
(***************************************************************************)
(* Dispatch through AWS: API processes send a start-execution message to   *)
(* SQS, or start the Step Functions execution themselves, and a Lambda     *)
(* function takes messages in batches and starts one execution for each.   *)
(* SQS keeps what a failed invocation held and delivers it again, the      *)
(* records already started included; the queue is a standard one, which    *)
(* may also deliver a message again for no reason; and the AWS client      *)
(* tries a call again that was not answered in time, so that one call may  *)
(* leave several messages or start several executions.  An execution has   *)
(* no name, so nothing recognises a second one.                            *)
(*                                                                         *)
(* A definition whose comment begins with "Slip" is not part of Next: it   *)
(* is its neighbour with a plausible mistake, and some property below      *)
(* fails when it takes its neighbour's place.                              *)
(***************************************************************************)
EXTENDS Naturals, Sequences, FiniteSets

CONSTANTS
    Jobs,        \* pull requests and flaky runs that may be dispatched
    Workflow,    \* the workflow of each
    Handlers,    \* API requests, each in a process with its own settings
    Settings,    \* the settings of each
    Machines,    \* ARNs of state machines
    Unset,       \* the empty string
    Strays,      \* messages whose body is not a dispatch message
    Lambdas,     \* concurrent invocations of the Lambda function
    BatchSize,   \* records in one invocation at most
    Attempts,    \* how often the AWS client tries a call that is not answered
    Faults,      \* the failures this instance exhibits
    MaxReceives  \* bound: how often one message is received

Workflows == {"pull_request_analysis", "flaky_test_triage"}

\* What the attempts of the request's one call leave with AWS: a message or an
\* execution each.
Sends == Jobs \X (1 .. Attempts)

Messages == Sends \cup Strays

ASSUME WorkflowAssumption == Workflow \in [Jobs -> Workflows]
ASSUME SettingsAssumption ==
    Settings \in [Handlers ->
        [backend : {"step_functions", "sqs_step_functions"}, queue : BOOLEAN,
         own : [Workflows -> Machines \cup {Unset}],
         shared : Machines \cup {Unset}]]
ASSUME UnsetAssumption == Unset \notin Machines
ASSUME StraysAssumption == Sends \cap Strays = {}
ASSUME LambdasAssumption == IsFiniteSet(Lambdas)
ASSUME AttemptsAssumption == Attempts \in Nat \ {0}
ASSUME FaultsAssumption ==
    Faults \subseteq {"request", "unclear", "crash", "slow", "again"}
ASSUME BoundsAssumption == BatchSize \in Nat /\ MaxReceives \in Nat

VARIABLES
    status,      \* the job's row, as far as the dispatch writes it
    handler,     \* where a request stands
    queue,       \* each message: not sent, waiting, hidden or deleted
    body,        \* the state machine a job's message names
    receives,    \* how often a message was received
    lambda,      \* the batch of an invocation and the next record of it
    executions,  \* the state machines started for each, in order
    spoilt,      \* history: how often an invocation with the message failed,
                 \* died or outlived the visibility timeout, or SQS delivered
                 \* the message again
    retried      \* history: the starts beyond the first of one call

aws == <<queue, body, receives, executions>>
history == <<spoilt, retried>>
vars == <<status, handler, aws, lambda, history>>

IdleHandler == [at |-> "idle", job |-> Unset]

IdleLambda == [batch |-> <<>>, next |-> 1, receipt |-> [m \in Messages |-> 0]]

Init ==
    /\ status = [j \in Jobs |-> "absent"]
    /\ handler = [h \in Handlers |-> IdleHandler]
    /\ queue = [m \in Messages |-> IF m \in Strays THEN "waiting" ELSE "absent"]
    /\ body = [j \in Jobs |-> Unset]
    /\ receives = [m \in Messages |-> 0]
    /\ lambda = [l \in Lambdas |-> IdleLambda]
    /\ executions = [m \in Sends |-> <<>>]
    /\ spoilt = [m \in Messages |-> 0]
    /\ retried = [m \in Sends |-> 0]

----------------------------------------------------------------------------
(* The request. *)

\* resolve_state_machine_arn: the workflow's own machine, else the shared one.
Machine(h, j) ==
    LET own == Settings[h].own[Workflow[j]] IN
    IF own # Unset THEN own ELSE Settings[h].shared

\* Slip: the answer of resolve_state_machine_arn is not looked at.
ConfiguredUnchecked(h, j) ==
    Settings[h].backend = "sqs_step_functions" => Settings[h].queue

\* The dispatcher's own checks, before it calls AWS.
Configured(h, j) ==
    /\ Machine(h, j) # Unset
    /\ Settings[h].backend = "sqs_step_functions" => Settings[h].queue

StoreJob(h, j) ==
    /\ handler[h].at = "idle"
    /\ status[j] = "absent"
    /\ status' = [status EXCEPT ![j] = "queued"]
    /\ handler' = [handler EXCEPT ![h] = [at |-> "dispatch", job |-> j]]
    /\ UNCHANGED <<aws, lambda, history>>

\* How many attempts of a call AWS may take, if it takes any.
Effects == IF "unclear" \in Faults THEN 1 .. Attempts ELSE {1}

\* send_message, or start_execution: AWS takes n attempts of the call.
Accepted(h, j, n) ==
    LET taken == {j} \X (1 .. n) IN
    IF Settings[h].backend = "sqs_step_functions"
    THEN /\ queue' = [m \in Messages |-> IF m \in taken THEN "waiting" ELSE queue[m]]
         /\ body' = [body EXCEPT ![j] = Machine(h, j)]
         /\ UNCHANGED <<receives, executions>>
    ELSE /\ executions' = [m \in Sends |-> IF m \in taken THEN <<Machine(h, j)>>
                                          ELSE executions[m]]
         /\ UNCHANGED <<queue, body, receives>>

Dispatch(h) ==
    LET j == handler[h].job IN
    /\ handler[h].at = "dispatch"
    /\ Configured(h, j)
    /\ \E n \in Effects : Accepted(h, j, n)
    /\ handler' = [handler EXCEPT ![h] = IdleHandler]
    /\ UNCHANGED <<status, lambda, history>>

\* The dispatcher raised, in its checks or in a call that AWS may have heard.
DispatchFails(h) ==
    LET j == handler[h].job IN
    /\ handler[h].at = "dispatch"
    /\ \/ UNCHANGED aws
       \/ /\ "unclear" \in Faults
          /\ Configured(h, j)
          /\ \E n \in Effects : Accepted(h, j, n)
    /\ handler' = [handler EXCEPT ![h].at = "mark"]
    /\ UNCHANGED <<status, lambda, history>>

MarkDispatchFailed(h) ==
    /\ handler[h].at = "mark"
    /\ status' = [status EXCEPT ![handler[h].job] = "dispatch_failed"]
    /\ handler' = [handler EXCEPT ![h] = IdleHandler]
    /\ UNCHANGED <<aws, lambda, history>>

RequestDies(h) ==
    /\ "request" \in Faults
    /\ handler[h].at # "idle"
    /\ handler' = [handler EXCEPT ![h] = IdleHandler]
    /\ UNCHANGED <<status, aws, lambda, history>>

----------------------------------------------------------------------------
(* SQS and the invocations of the Lambda function. *)

Held(l) == {lambda[l].batch[i] : i \in DOMAIN lambda[l].batch}

Running(l) == lambda[l].batch # <<>>

\* The batches that can be made of these messages, in any order.
Batches(ms) ==
    {b \in UNION {[1 .. n -> ms] : n \in 1 .. BatchSize} :
        \A i, k \in DOMAIN b : b[i] = b[k] => i = k}

Waiting == {m \in Messages : queue[m] = "waiting" /\ receives[m] < MaxReceives}

Receive(l, b) ==
    LET taken == {b[i] : i \in DOMAIN b} IN
    /\ ~Running(l)
    /\ queue' = [m \in Messages |-> IF m \in taken THEN "hidden" ELSE queue[m]]
    /\ receives' = [m \in Messages |->
                      IF m \in taken THEN receives[m] + 1 ELSE receives[m]]
    /\ lambda' = [lambda EXCEPT ![l] =
                    [batch |-> b, next |-> 1,
                     receipt |-> [m \in Messages |->
                                    IF m \in taken THEN receives[m] + 1 ELSE 0]]]
    /\ UNCHANGED <<status, handler, body, executions, history>>

\* The holders of m that have its newest receipt.
Holders(m) ==
    {l \in Lambdas : m \in Held(l) /\ lambda[l].receipt[m] = receives[m]}

\* The visibility timeout ends: of a message an ended invocation has left, or,
\* when an invocation is slow, of one it is still working on.
Expire(m) ==
    /\ queue[m] = "hidden"
    /\ Holders(m) # {} => "slow" \in Faults
    /\ queue' = [queue EXCEPT ![m] = "waiting"]
    /\ spoilt' = [spoilt EXCEPT ![m] = @ + Cardinality(Holders(m))]
    /\ UNCHANGED <<status, handler, body, receives, lambda, executions, retried>>

\* At least once: SQS delivers a message that is being worked on, or one that
\* was deleted.
Redeliver(m) ==
    /\ "again" \in Faults
    /\ queue[m] \in {"hidden", "deleted"}
    /\ queue' = [queue EXCEPT ![m] = "waiting"]
    /\ spoilt' = [spoilt EXCEPT ![m] = @ + 1]
    /\ UNCHANGED <<status, handler, body, receives, lambda, executions, retried>>

Record(l) == lambda[l].batch[lambda[l].next]

HasNext(l) == lambda[l].next \in DOMAIN lambda[l].batch

\* start_execution takes the message's input and machine, but no name: n
\* attempts that AWS took are n executions.
Start(m, n) ==
    /\ executions' = [executions EXCEPT ![m] = @ \o [k \in 1 .. n |-> body[m[1]]]]
    /\ retried' = [retried EXCEPT ![m] = @ + (n - 1)]

StartRecord(l) == Record(l) \in Sends /\ \E n \in Effects : Start(Record(l), n)

\* Slip: a record that fails is skipped and the batch goes on.
ConsumeRecordOrSkip(l) ==
    /\ HasNext(l)
    /\ StartRecord(l) \/ UNCHANGED <<executions, retried>>
    /\ lambda' = [lambda EXCEPT ![l].next = @ + 1]
    /\ UNCHANGED <<status, handler, queue, body, receives, spoilt>>

ConsumeRecord(l) ==
    /\ HasNext(l)
    /\ StartRecord(l)
    /\ lambda' = [lambda EXCEPT ![l].next = @ + 1]
    /\ UNCHANGED <<status, handler, queue, body, receives, spoilt>>

\* The invocation ends with its messages hidden; a message that had expired
\* before is not spoilt twice.
Spoil(l) ==
    /\ spoilt' = [m \in Messages |->
                    IF m \in Held(l) /\ l \in Holders(m) /\ queue[m] # "waiting"
                    THEN spoilt[m] + 1 ELSE spoilt[m]]
    /\ lambda' = [lambda EXCEPT ![l] = IdleLambda]

\* Slip: when a record fails, the event is consumed from its beginning again.
ConsumeAfresh(l) ==
    /\ HasNext(l)
    /\ lambda' = [lambda EXCEPT ![l].next = 1]
    /\ UNCHANGED <<status, handler, aws, history>>

\* A body that does not validate, or a start_execution that raised or answered
\* without an ARN, whether or not AWS started the execution: the exception
\* ends the whole invocation.
ConsumeFails(l) ==
    /\ HasNext(l)
    /\ \/ UNCHANGED <<executions, retried>>
       \/ "unclear" \in Faults /\ StartRecord(l)
    /\ Spoil(l)
    /\ UNCHANGED <<status, handler, queue, body, receives>>

LambdaDies(l) ==
    /\ "crash" \in Faults
    /\ Running(l)
    /\ Spoil(l)
    /\ UNCHANGED <<status, handler, aws, retried>>

\* The handler returns and the messages are deleted.  With a receipt that is
\* not the newest, SQS may delete the message or not.
Return(l, kept) ==
    /\ Running(l)
    /\ ~HasNext(l)
    /\ \A m \in kept : l \notin Holders(m)
    /\ queue' = [m \in Messages |->
                   IF m \in Held(l) \ kept THEN "deleted" ELSE queue[m]]
    /\ lambda' = [lambda EXCEPT ![l] = IdleLambda]
    /\ UNCHANGED <<status, handler, body, receives, executions, history>>

Invocation(l) ==
    \/ \E b \in Batches(Waiting) : Receive(l, b)
    \/ ConsumeRecord(l)
    \/ ConsumeFails(l)
    \/ LambdaDies(l)
    \/ \E kept \in SUBSET Held(l) : Return(l, kept)

Next ==
    \/ \E h \in Handlers :
          \/ \E j \in Jobs : StoreJob(h, j)
          \/ Dispatch(h)
          \/ DispatchFails(h)
          \/ MarkDispatchFailed(h)
          \/ RequestDies(h)
    \/ \E m \in Messages : Expire(m) \/ Redeliver(m)
    \/ \E l \in Lambdas : Invocation(l)

Spec == Init /\ [][Next]_vars

----------------------------------------------------------------------------
(* Properties. *)

TypeOK ==
    /\ status \in [Jobs -> {"absent", "queued", "dispatch_failed"}]
    /\ handler \in [Handlers -> [at : {"idle", "dispatch", "mark"},
                                 job : Jobs \cup {Unset}]]
    /\ queue \in [Messages -> {"absent", "waiting", "hidden", "deleted"}]
    /\ body \in [Jobs -> Machines \cup {Unset}]
    /\ receives \in [Messages -> Nat]
    /\ lambda \in [Lambdas -> [batch : Seq(Messages), next : Nat \ {0},
                               receipt : [Messages -> Nat]]]
    /\ executions \in [Sends -> Seq(Machines)]
    /\ spoilt \in [Messages -> Nat]
    /\ retried \in [Sends -> Nat]

\* What a message that has left the queue asked for has been started, whichever
\* of its invocations failed, died or was late, and whatever else was in its
\* batches; a message that means nothing is never thrown away with the others.
NothingAcceptedIsDropped ==
    \A m \in Messages : queue[m] = "deleted" =>
        m \in Sends /\ executions[m] # <<>>

\* A message starts one execution, and one more for each of these only: an
\* invocation that held it failed, died or was late, SQS delivered it again of
\* its own, or the client repeated a start that was not answered.  The failures
\* of a batch neighbour count for every message of the batch, but only once,
\* and what overlapping invocations do with old receipts adds nothing.  An
\* execution that a request starts itself is never started by anyone else.
DuplicatesAreExplained ==
    \A m \in Sends :
        /\ Len(executions[m]) <= 1 + spoilt[m] + retried[m]
        /\ queue[m] = "absent" => Len(executions[m]) <= 1
=============================================================================
