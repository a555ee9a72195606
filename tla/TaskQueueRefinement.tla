------------------------- MODULE TaskQueueRefinement -------------------------
(* TaskQueue implements TaskContract while heartbeats keep live claims. *)
EXTENDS TaskQueue

Phase(status) ==
  CASE status = "absent"    -> "unknown"
    [] status = "pending"   -> "waiting"
    [] status = "running"   -> "working"
    [] status = "succeeded" -> "done"
    [] status = "failed"    -> "dead"

\* The live worker between the claim and the report of t.
Holder(t) ==
  IF \E w \in Workers : Holds(w, t)
    THEN CHOOSE w \in Workers : Holds(w, t)
    ELSE NoWorker

entryOf == [t \in Tasks |-> [ phase  |-> Phase(task[t].status),
                              tries  |-> task[t].attempts,
                              holder |-> Holder(t) ]]

Contract == INSTANCE TaskContract WITH entry <- entryOf

\* The queue of rows, claims and recoveries does what the contract says: one
\* holder at a time, at most max_attempts tries, done only at the hands of the
\* holder, dead only after the last try, and both for ever.
ImplementsContract == Contract!Spec
=============================================================================
