----------------------------- MODULE SyncScheduler -----------------------------
(***************************************************************************)
(* The processes that start the synchronisations on schedule.  Each polls  *)
(* one row of the database, pauses or resumes its timers after the switch  *)
(* in it, and writes its name, state and heartbeat into the same row; an   *)
(* operator sets the switch and reads a status from it.  One process is    *)
(* deployed, but a restart or a rolling update has an old one beside a new *)
(* one.  A timer and an operator both put a synchronisation into the task  *)
(* queue, each with a key of its own making that keeps it single.          *)
(*                                                                         *)
(* Time is counted in polls: a process that runs polls before a tick.      *)
(***************************************************************************)
EXTENDS Integers, FiniteSets

CONSTANTS
  Instances,     \* scheduler processes; one that starts again may keep its name
  NoInstance,
  Operators,
  Jobs,          \* those of the synchronisations that take part
  Stale,         \* age of a heartbeat that still counts (30 s), in polls (5 s)
  MaxTasks,      \* bound on the active tasks of a job
  Serial         \* an enqueue commits before another looks for its key

ASSUMPTION NoInstanceIsNone == NoInstance \notin Instances
ASSUMPTION StaleOutlastsPoll == Stale \in Nat /\ Stale > 0
ASSUMPTION MaxTasksIsPositive == MaxTasks \in Nat \ {0}
ASSUMPTION SerialIsBoolean == Serial \in BOOLEAN
\* The timers that are registered; the last one can be configured away.
ScheduledJobs ==
  {"sales_plan_sync", "bom_sync", "production_order_sync", "research_sync",
   "schedule_snapshot_reconcile", "bom_backfill_queue_consume"}

ASSUMPTION JobsAreScheduled == Jobs \subseteq ScheduledJobs

VARIABLES
  row,       \* sync_scheduler_state: the one row
  proc,      \* where each process is
  writes,    \* columns the open transaction of a process writes, besides the heartbeat
  mode,      \* APScheduler's state in each process
  since,     \* ticks since each process last committed a heartbeat, or started
  request,   \* the switch an operator's open request writes, if any
  tasks,     \* active background tasks, by job and dedupe key
  enqueue    \* enqueues in flight that have found their key free

vars == <<row, proc, writes, mode, since, request, tasks, enqueue>>
procVars == <<proc, writes, mode, since>>
taskVars == <<tasks, enqueue>>

-----------------------------------------------------------------------------
(* The row *)

Modes == {"stopped", "paused", "running"}
Columns == {"state", "instance"}

\* An age of Stale + 1 stands for any greater one, and for no heartbeat at all.  A row that is
\* not stored has the values it will be inserted with.
State ==
  [enabled : BOOLEAN, state : Modes, instance : Instances \union {NoInstance}, age : 0..Stale + 1,
   stored : BOOLEAN]

ModeOf(enabled) == IF enabled THEN "running" ELSE "paused"

\* The state an operator is shown.
Status == IF row.age > Stale THEN "stopped" ELSE row.state

\* Variant: the state is compared with the last one this process decided on.
Changed_LastState(i, state) ==
  {c \in Columns : \/ c = "state" /\ mode[i] # state
                   \/ c = "instance" /\ row.instance # i}

\* Columns in which a state to be written differs from the one that was read: the
\* others keep what is in the row when the UPDATE reaches it.
Changed(i, state) ==
  {c \in Columns : \/ c = "state" /\ row.state # state
                   \/ c = "instance" /\ row.instance # i}

Beat(i, state) ==
  row' = [row EXCEPT !.state = IF "state" \in writes[i] THEN state ELSE @,
                     !.instance = IF "instance" \in writes[i] THEN i ELSE @,
                     !.age = 0,
                     !.stored = TRUE]

\* The transactions that have read the row and not yet ended.
Transactions ==
  {i \in Instances : proc[i] \in {"polling", "marking"}} \union {p \in Operators : request[p] # "none"}

\* get_singleton: whoever finds no row inserts it at once, in a transaction that commits with
\* its other writes or not at all.  Another insert of the same id waits for that; it succeeds
\* after a rollback, and fails after a commit, which ends the poll (Leave), the mark (Crash) or
\* the request of the one that waited.
Singleton == row.stored \/ Transactions = {}

-----------------------------------------------------------------------------
(* The tasks *)

\* Variant: every scheduled job has a key of its own.
DedupeKey_OwnKey(j) == j

\* The keys, as the scheduler and as the operator's endpoints write them.
DedupeKey(j) ==
  CASE j = "sales_plan_sync" -> "sync_job:sales_plan:guandata"
    [] j = "bom_sync" -> "sync_job:bom:sap"
    [] j = "production_order_sync" -> "sync_job:production_order:feishu"
    [] j = "research_sync" -> "sync_job:research:feishu"
    [] OTHER -> j

ManualKeys ==
  [sales_plan_sync |-> "sync_job:sales_plan:guandata",
   bom_sync |-> "sync_job:bom:sap",
   production_order_sync |-> "sync_job:production_order:feishu",
   research_sync |-> "sync_job:research:feishu"]

\* Jobs an operator may start.
ManualJobs == Jobs \intersect DOMAIN ManualKeys

Keys == {DedupeKey(j) : j \in Jobs} \union {ManualKeys[j] : j \in ManualJobs}
Enqueue == [by : Instances \union Operators, job : Jobs, key : Keys]

Busy(key) == \E j \in Jobs : tasks[j][key] > 0

\* An enqueue looks for an active task with its key, and has nothing to do when there is one.
Lookup(by, j, key) ==
  /\ ~Busy(key)
  /\ \A e \in enqueue : e.by = by => e.job # j
  /\ Serial => enqueue = {}
  /\ enqueue' = enqueue \union {[by |-> by, job |-> j, key |-> key]}
  /\ UNCHANGED tasks

-----------------------------------------------------------------------------
Init ==
  /\ row \in {[enabled |-> e, state |-> "stopped", instance |-> NoInstance, age |-> Stale + 1,
               stored |-> s] : e, s \in BOOLEAN}
  /\ proc = [i \in Instances |-> "off"]
  /\ writes = [i \in Instances |-> {}]
  /\ mode = [i \in Instances |-> "stopped"]
  /\ since = [i \in Instances |-> 0]
  /\ request = [p \in Operators |-> "none"]
  /\ tasks = [j \in Jobs |-> [k \in Keys |-> 0]]
  /\ enqueue = {}

\* The timers are registered and started paused.
Start(i) ==
  /\ proc[i] = "off"
  /\ proc' = [proc EXCEPT ![i] = "up"]
  /\ mode' = [mode EXCEPT ![i] = "paused"]
  /\ since' = [since EXCEPT ![i] = 0]
  /\ UNCHANGED <<row, writes, request, taskVars>>

\* Variant: a switch that is off leaves timers that run.
ReadSwitch_OnlyResumes(i) ==
  /\ proc[i] = "up"
  /\ Singleton
  /\ proc' = [proc EXCEPT ![i] = "polling"]
  /\ mode' = [mode EXCEPT ![i] = IF row.enabled THEN "running" ELSE @]
  /\ writes' = [writes EXCEPT ![i] = Changed(i, ModeOf(row.enabled))]
  /\ UNCHANGED <<row, since, request, taskVars>>

\* The row is read, and the timers follow its switch; the heartbeat is still to be committed.
ReadSwitch(i) ==
  /\ proc[i] = "up"
  /\ Singleton
  /\ proc' = [proc EXCEPT ![i] = "polling"]
  /\ mode' = [mode EXCEPT ![i] = ModeOf(row.enabled)]
  /\ writes' = [writes EXCEPT ![i] = Changed(i, ModeOf(row.enabled))]
  /\ UNCHANGED <<row, since, request, taskVars>>

\* Variant: the heartbeat writes the whole row it has read.
Heartbeat_WholeRow(i) ==
  /\ proc[i] = "polling"
  /\ row' = [enabled |-> mode[i] = "running", state |-> mode[i], instance |-> i, age |-> 0,
             stored |-> TRUE]
  /\ proc' = [proc EXCEPT ![i] = "up"]
  /\ writes' = [writes EXCEPT ![i] = {}]
  /\ since' = [since EXCEPT ![i] = 0]
  /\ UNCHANGED <<mode, request, taskVars>>

Heartbeat(i) ==
  /\ proc[i] = "polling"
  /\ Beat(i, mode[i])
  /\ proc' = [proc EXCEPT ![i] = "up"]
  /\ writes' = [writes EXCEPT ![i] = {}]
  /\ since' = [since EXCEPT ![i] = 0]
  /\ UNCHANGED <<mode, request, taskVars>>

\* The process is interrupted, or a statement of its poll fails, which ends the loop: the timers
\* are shut down with the jobs they run.
Leave(i) ==
  /\ proc[i] \in {"up", "polling"}
  /\ proc' = [proc EXCEPT ![i] = "leaving"]
  /\ mode' = [mode EXCEPT ![i] = "stopped"]
  /\ writes' = [writes EXCEPT ![i] = {}]
  /\ enqueue' = {e \in enqueue : e.by # i}
  /\ UNCHANGED <<row, since, request, tasks>>

\* A process that leaves reads the row, and writes nothing over the name of another.
ReadOwner(i) ==
  /\ proc[i] = "leaving"
  /\ Singleton
  /\ IF row.instance \in {NoInstance, i}
     THEN /\ proc' = [proc EXCEPT ![i] = "marking"]
          /\ writes' = [writes EXCEPT ![i] = Changed(i, "stopped")]
     ELSE /\ proc' = [proc EXCEPT ![i] = "off"]
          /\ UNCHANGED writes
  /\ UNCHANGED <<row, mode, since, request, taskVars>>

MarkStopped(i) ==
  /\ proc[i] = "marking"
  /\ Beat(i, "stopped")
  /\ proc' = [proc EXCEPT ![i] = "off"]
  /\ writes' = [writes EXCEPT ![i] = {}]
  /\ UNCHANGED <<mode, since, request, taskVars>>

\* The process is killed, or cannot reach the database while it leaves.
Crash(i) ==
  /\ proc[i] # "off"
  /\ proc' = [proc EXCEPT ![i] = "off"]
  /\ mode' = [mode EXCEPT ![i] = "stopped"]
  /\ writes' = [writes EXCEPT ![i] = {}]
  /\ enqueue' = {e \in enqueue : e.by # i}
  /\ UNCHANGED <<row, since, request, tasks>>

-----------------------------------------------------------------------------
(* Operators *)

\* A request with a value for the switch; one that changes nothing it has read writes nothing,
\* but the row it may have inserted.
AskSwitch(p, enabled) ==
  /\ request[p] = "none"
  /\ Singleton
  /\ request' = [request EXCEPT
                   ![p] = IF row.enabled = enabled THEN "same" ELSE ModeOf(enabled)]
  /\ UNCHANGED <<row, procVars, taskVars>>

SetSwitch(p) ==
  /\ request[p] # "none"
  /\ row' = [row EXCEPT !.enabled = IF request[p] = "same" THEN @ ELSE request[p] = "running",
                     !.stored = TRUE]
  /\ request' = [request EXCEPT ![p] = "none"]
  /\ UNCHANGED <<procVars, taskVars>>

Trigger(p, j) ==
  /\ Lookup(p, j, ManualKeys[j])
  /\ UNCHANGED <<row, procVars, request>>

-----------------------------------------------------------------------------
(* Timers *)

\* A timer fires in a process whose scheduler runs, one call of a job at a time.
Fire(i, j) ==
  /\ mode[i] = "running"
  /\ Lookup(i, j, DedupeKey(j))
  /\ UNCHANGED <<row, procVars, request>>

CommitTask(e) ==
  /\ e \in enqueue
  /\ tasks[e.job][e.key] < MaxTasks
  /\ tasks' = [tasks EXCEPT ![e.job][e.key] = @ + 1]
  /\ enqueue' = enqueue \ {e}
  /\ UNCHANGED <<row, procVars, request>>

\* A worker ends an active task.
EndTask(j, key) ==
  /\ tasks[j][key] > 0
  /\ tasks' = [tasks EXCEPT ![j][key] = @ - 1]
  /\ UNCHANGED <<row, procVars, request, enqueue>>

Tick ==
  /\ \A i \in Instances : proc[i] \in {"up", "polling"} => since[i] < 1
  /\ since' = [i \in Instances |-> IF proc[i] \in {"up", "polling"} THEN since[i] + 1 ELSE 0]
  /\ row' = [row EXCEPT !.age = IF @ > Stale THEN @ ELSE @ + 1]
  /\ UNCHANGED <<proc, writes, mode, request, taskVars>>

Next ==
  \/ \E i \in Instances :
       \/ Start(i) \/ ReadSwitch(i) \/ Heartbeat(i) \/ Leave(i)
       \/ ReadOwner(i) \/ MarkStopped(i) \/ Crash(i)
       \/ \E j \in Jobs : Fire(i, j)
  \/ \E p \in Operators :
       \/ \E enabled \in BOOLEAN : AskSwitch(p, enabled)
       \/ SetSwitch(p)
       \/ \E j \in ManualJobs : Trigger(p, j)
  \/ \E e \in Enqueue : CommitTask(e)
  \/ \E j \in Jobs, key \in Keys : EndTask(j, key)
  \/ Tick

Spec == Init /\ [][Next]_vars

\* The loop of a process polls, a database answers, a request that has begun ends, a worker takes
\* tasks, and time passes.  Nothing is assumed of operators, of timers, or of the restart of a process.
FairSpec ==
  /\ Spec
  /\ WF_vars(Tick)
  /\ \A i \in Instances :
       WF_vars(ReadSwitch(i)) /\ WF_vars(Heartbeat(i)) /\ WF_vars(ReadOwner(i)) /\ WF_vars(MarkStopped(i))
  /\ \A p \in Operators : WF_vars(SetSwitch(p))
  /\ \A e \in Enqueue : WF_vars(CommitTask(e))
  /\ \A j \in Jobs, key \in Keys : WF_vars(EndTask(j, key))

-----------------------------------------------------------------------------
(* Properties *)

TypeOK ==
  /\ row \in State
  /\ proc \in [Instances -> {"off", "up", "polling", "leaving", "marking"}]
  /\ writes \in [Instances -> SUBSET Columns]
  /\ mode \in [Instances -> Modes]
  /\ since \in [Instances -> {0, 1}]
  /\ request \in [Operators -> {"none", "same", "running", "paused"}]
  /\ tasks \in [Jobs -> [Keys -> 0..MaxTasks]]
  /\ enqueue \subseteq Enqueue

Settled(enabled, live) ==
  /\ row.enabled = enabled
  /\ \A i \in live : proc[i] \in {"up", "polling"}
  /\ \A i \in Instances \ live : proc[i] = "off"

\* The status tells the truth in the end: when the switch is left alone and one process remains,
\* its timers follow the switch and the status says so, whatever another that left or crashed had
\* still to write (heartbeat and mark_stopped write only what differs from what they read); and
\* when none remains it says stopped, also when the last one crashed and its row says that it runs.
StatusSettles ==
  \A enabled \in BOOLEAN :
    /\ \A i \in Instances :
         <>[]Settled(enabled, {i}) => <>[](mode[i] = ModeOf(enabled) /\ Status = mode[i])
    /\ <>[]Settled(enabled, {}) => <>[](Status = "stopped")

\* A switch that stays off ends the scheduled synchronisations in every process, also in one that
\* starts later, and with them the jobs that were running when it was turned.
QuietWhenOff ==
  <>[](~row.enabled) =>
    <>[](\A i \in Instances : mode[i] # "running" /\ \A e \in enqueue : e.by # i)

\* The switch changes only as an operator asked: no heartbeat, and no request that read it before,
\* puts back an older value.
SwitchKept ==
  [][row'.enabled # row.enabled =>
       \E p \in Operators : request[p] = ModeOf(row'.enabled) /\ request'[p] = "none"]_vars

\* Unless two are enqueued at the same moment, a synchronisation is active once, whether the
\* schedule or an operator started it: the two write one key.
OneTaskPerJob ==
  Serial => \A j \in Jobs : \A k, l \in Keys :
              tasks[j][k] > 0 /\ tasks[j][l] > 0 => k = l /\ tasks[j][k] = 1
=============================================================================
