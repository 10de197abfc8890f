----------------------------- MODULE LogContext -----------------------------
(***************************************************************************)
(* The context of the log lines: a dictionary in a ContextVar, as a set of *)
(* pairs <<field, value>>.  Every flow of control (the task of a request,  *)
(* a process of the worker) has a value of its own, and the values that    *)
(* its bindings are to restore.                                            *)
(***************************************************************************)
EXTENDS Naturals, Sequences

EmptyContext == {}

\* Slip: the bound fields take the place of those there are.
BoundAlone(context, fields) == fields

\* What bind_log_context sets: fields without a value are not in "fields".
Bound(context, fields) ==
    {p \in context : \A q \in fields : q[1] # p[1]} \cup fields

\* Slip: a dictionary of the module in place of a ContextVar.
WriteShared(flows, f, flow) == [g \in DOMAIN flows |-> flow]

\* A ContextVar is set for one flow.
Write(flows, f, flow) == [flows EXCEPT ![f] = flow]

NoContext == [now |-> EmptyContext, saved |-> <<>>]

\* clear_log_context forgets the value, not what a binding will restore.
Cleared(flow) == [now |-> EmptyContext, saved |-> flow.saved]

\* bind_log_context: entering it,
Enter(flow, fields) ==
    [now |-> Bound(flow.now, fields), saved |-> Append(flow.saved, flow.now)]

\* and leaving it, with a value or an exception.
Leave(flow) ==
    [now |-> flow.saved[Len(flow.saved)],
     saved |-> SubSeq(flow.saved, 1, Len(flow.saved) - 1)]

\* get_serialized_log_context: what travels with a message.
Serialized(flow) == flow.now
=============================================================================
