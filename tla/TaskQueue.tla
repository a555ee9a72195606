------------------------------ MODULE TaskQueue ------------------------------
(***************************************************************************)
(* The background task queue: the background_task table, the sync_job_log  *)
(* row a task reports to, the processes that enqueue tasks, and the worker *)
(* processes that claim, execute, retry and recover them.                  *)
(*                                                                         *)
(* One action stands for one database transaction, because that is the     *)
(* grain at which two processes can interleave; enqueue and recovery read  *)
(* rows without locking them and write later, so each of them is two       *)
(* actions.                                                                *)
(***************************************************************************)
EXTENDS Naturals, FiniteSets

CONSTANTS
  Workers,          \* worker processes (scripts/run_sync_worker.py)
  Producers,        \* API requests, scheduler firings, the production-order handler
  Tasks,            \* row ids of background_task; bounds the number of enqueues
  Keys,             \* dedupe keys
  MaxAttempts,      \* settings.sync_task_default_max_attempts
  MaxInterruptions, \* bound on crashes and stop signals
  Timely,           \* TRUE: no claim expires while its live holder attends to it
  NoWorker, NoTask, NoKey

ASSUMPTION MaxAttemptsPositive == MaxAttempts \in Nat \ {0}
ASSUMPTION InterruptionsBounded == MaxInterruptions \in Nat
ASSUMPTION TimelyIsBoolean == Timely \in BOOLEAN
ASSUMPTION ProducersAreFinite == IsFiniteSet(Producers)
ASSUMPTION AbsentValues == NoWorker \notin Workers /\ NoTask \notin Tasks /\ NoKey \notin Keys

VARIABLES
  task,         \* the row of each task, with its sync job's status
  want,         \* the key each producer found inactive and is about to insert
  pc,           \* where each worker is in run_forever / execute_task
  cur,          \* the task a worker holds
  ticket,       \* the attempt a worker claimed (history only)
  beating,      \* the worker's heartbeat loop is running
  scan,         \* the stale rows a worker's open recovery transaction has read
  stopping,     \* _stopping
  interruptions \* crashes and stop signals so far

producerVars == <<want>>
workerVars == <<pc, cur, ticket, beating, scan, stopping>>
vars == <<task, producerVars, workerVars, interruptions>>

-----------------------------------------------------------------------------
(* Rows *)

Statuses == {"absent", "pending", "running", "succeeded", "failed"}

JobStatuses == {"none", "queued", "running", "completed", "completed_with_errors"}

\* available_at, claimed_at, finished_at and dead_at are kept only as far as the
\* code compares them: whether the retry delay is over, whether the claim is
\* older than the timeout, whether the field is set.
Row == [ status    : Statuses,
         attempts  : Nat,
         available : BOOLEAN,
         claim     : {"none", "fresh", "expired"},
         owner     : Workers \union {NoWorker},
         finished  : BOOLEAN,
         dead      : BOOLEAN,
         key       : Keys \union {NoKey},
         job       : JobStatuses ]

AbsentRow == [ status |-> "absent", attempts |-> 0, available |-> FALSE, claim |-> "none",
               owner |-> NoWorker, finished |-> FALSE, dead |-> FALSE, key |-> NoKey,
               job |-> "none" ]

\* A task enqueued without sync_job_kwargs has no job to report to.
Report(job, status) == IF job = "none" THEN "none" ELSE status

\* A new row is available at once.
Enqueued(k, job) ==
  [AbsentRow EXCEPT !.status = "pending", !.available = TRUE, !.key = k, !.job = job]

\* claim_available sets these four columns of a pending row.
Claimed(row, w) ==
  [row EXCEPT !.status = "running", !.claim = "fresh", !.owner = w, !.attempts = @ + 1]

\* Variant: it leaves the sync job as the attempt left it.
Requeued_KeepsJob(row) ==
  [row EXCEPT !.status = "pending", !.available = FALSE, !.claim = "none", !.owner = NoWorker]

\* The retry branch shared by _mark_task_failed and recover_stale_tasks.
Requeued(row) ==
  [row EXCEPT !.status = "pending", !.available = FALSE, !.claim = "none",
              !.owner = NoWorker, !.job = Report(row.job, "queued")]

\* Their exhausted branch; claimed_at and worker_id keep their values.
DeadLettered(row) ==
  [row EXCEPT !.status = "failed", !.finished = TRUE, !.dead = TRUE,
              !.job = Report(row.job, "completed_with_errors")]

Active == {t \in Tasks : task[t].status \in {"pending", "running"}}

\* Variant: only pending rows count as active.
ActiveWith_PendingOnly(k) == {t \in Active : task[t].status = "pending" /\ task[t].key = k}

ActiveWith(k) == {t \in Active : task[t].key = k}

\* Variant: claim_available forgets the status.
Claimable_AnyStatus == {t \in Tasks : task[t].available}

Claimable == {t \in Tasks : task[t].status = "pending" /\ task[t].available}

\* Variant: list_stale_running compares with the cutoff backwards.
StaleRunning_Backwards == {t \in Tasks : task[t].status = "running" /\ task[t].claim = "fresh"}

StaleRunning == {t \in Tasks : task[t].status = "running" /\ task[t].claim = "expired"}

Terminal(status) == status \in {"succeeded", "failed"}

-----------------------------------------------------------------------------
(* Workers *)

WorkerStates == { "polling", "recovering", "claiming", "loading", "starting", "verifying",
                  "executing", "succeeding", "failing", "stopped", "down" }

Holding == {"loading", "starting", "verifying", "executing", "succeeding", "failing"}

\* The worker is alive and will renew the claim, or start to, before it expires.
Attends(w) == pc[w] \in {"loading", "starting", "verifying", "failing"} \/ beating[w]

Init ==
  /\ task = [t \in Tasks |-> AbsentRow]
  /\ want = [p \in Producers |-> NoKey]
  /\ pc = [w \in Workers |-> "polling"]
  /\ cur = [w \in Workers |-> NoTask]
  /\ ticket = [w \in Workers |-> 0]
  /\ beating = [w \in Workers |-> FALSE]
  /\ scan = [w \in Workers |-> {}]
  /\ stopping = [w \in Workers |-> FALSE]
  /\ interruptions = 0

-----------------------------------------------------------------------------
(* Enqueue: get_active_by_dedupe_key, then the insert.  A producer that     *)
(* finds an active task returns it and changes nothing.                    *)

FindNoActive(p, k) ==
  /\ want[p] = NoKey
  /\ ActiveWith(k) = {}
  /\ want' = [want EXCEPT ![p] = k]
  /\ UNCHANGED <<task, workerVars, interruptions>>

\* The job, when there is one, is inserted with the task in one transaction.
Insert(p) ==
  /\ want[p] # NoKey
  /\ \E t \in Tasks, job \in {"none", "queued"} :
        /\ task[t].status = "absent"
        /\ task' = [task EXCEPT ![t] = Enqueued(want[p], job)]
  /\ want' = [want EXCEPT ![p] = NoKey]
  /\ UNCHANGED <<workerVars, interruptions>>

\* The request fails, or the handler raises, before the commit.
AbandonEnqueue(p) ==
  /\ want[p] # NoKey
  /\ want' = [want EXCEPT ![p] = NoKey]
  /\ UNCHANGED <<task, workerVars, interruptions>>

-----------------------------------------------------------------------------
(* The worker loop: recover_stale_tasks, then claim_once(limit = 1).        *)

ExitLoop(w) ==
  /\ pc[w] = "polling"
  /\ stopping[w]
  /\ pc' = [pc EXCEPT ![w] = "stopped"]
  /\ UNCHANGED <<task, want, cur, ticket, beating, scan, stopping, interruptions>>

\* list_stale_running: a plain SELECT, no row is locked.
ScanStale(w) ==
  /\ pc[w] = "polling"
  /\ ~stopping[w]
  /\ scan' = [scan EXCEPT ![w] = {<<t, task[t].attempts>> : t \in StaleRunning}]
  /\ pc' = [pc EXCEPT ![w] = "recovering"]
  /\ UNCHANGED <<task, want, cur, ticket, beating, stopping, interruptions>>

\* Variant: recovery allows one attempt too many.
Recovered_OffByOne(row, n) == IF n <= MaxAttempts THEN Requeued(row) ELSE DeadLettered(row)

\* What the recovery transaction writes into a row it read at attempt n.
Recovered(row, n) == IF n < MaxAttempts THEN Requeued(row) ELSE DeadLettered(row)

\* The rows are overwritten whatever became of them since they were read.
CommitRecovery(w) ==
  /\ pc[w] = "recovering"
  /\ task' = [t \in Tasks |->
                IF \E s \in scan[w] : s[1] = t
                  THEN Recovered(task[t], (CHOOSE s \in scan[w] : s[1] = t)[2])
                  ELSE task[t]]
  /\ scan' = [scan EXCEPT ![w] = {}]
  /\ pc' = [pc EXCEPT ![w] = "claiming"]
  /\ UNCHANGED <<want, cur, ticket, beating, stopping, interruptions>>

\* SELECT ... FOR UPDATE SKIP LOCKED and the update commit together.
Claim(w) ==
  /\ pc[w] = "claiming"
  /\ \E t \in Claimable :
       /\ task' = [task EXCEPT ![t] = Claimed(@, w)]
       /\ cur' = [cur EXCEPT ![w] = t]
       /\ ticket' = [ticket EXCEPT ![w] = task[t].attempts + 1]
  /\ pc' = [pc EXCEPT ![w] = "loading"]
  /\ UNCHANGED <<want, beating, scan, stopping, interruptions>>

ClaimNothing(w) ==
  /\ pc[w] = "claiming"
  /\ Claimable = {}
  /\ pc' = [pc EXCEPT ![w] = "polling"]
  /\ UNCHANGED <<task, want, cur, ticket, beating, scan, stopping, interruptions>>

-----------------------------------------------------------------------------
(* execute_task *)

\* execute_task returns (its finally clause cancels the heartbeat) and the loop
\* goes round.
Release(w) ==
  /\ pc' = [pc EXCEPT ![w] = "polling"]
  /\ cur' = [cur EXCEPT ![w] = NoTask]
  /\ ticket' = [ticket EXCEPT ![w] = 0]
  /\ beating' = [beating EXCEPT ![w] = FALSE]

\* _load_task_execution_context: gives up unless the row is still RUNNING.
LoadContext(w) ==
  /\ pc[w] = "loading"
  /\ IF task[cur[w]].status = "running"
       THEN /\ pc' = [pc EXCEPT ![w] = "starting"]
            /\ UNCHANGED <<cur, ticket, beating>>
       ELSE Release(w)
  /\ UNCHANGED <<task, want, scan, stopping, interruptions>>

\* _mark_task_started tests the status only, and takes the ownership.
MarkStarted(w) ==
  /\ pc[w] = "starting"
  /\ task' = IF task[cur[w]].status = "running"
               THEN [task EXCEPT ![cur[w]].owner = w, ![cur[w]].job = Report(@, "running")]
               ELSE task
  /\ pc' = [pc EXCEPT ![w] = "verifying"]
  /\ UNCHANGED <<want, cur, ticket, beating, scan, stopping, interruptions>>

Owns(w, t) == task[t].status = "running" /\ task[t].owner \in {w, NoWorker}

\* Variant: the heartbeat loop is never started.
VerifyOwnership_NoHeartbeat(w) ==
  /\ pc[w] = "verifying"
  /\ IF Owns(w, cur[w])
       THEN /\ pc' = [pc EXCEPT ![w] = "executing"]
            /\ UNCHANGED <<cur, ticket, beating>>
       ELSE Release(w)
  /\ UNCHANGED <<task, want, scan, stopping, interruptions>>

\* _verify_task_ownership, then the heartbeat loop is started.
VerifyOwnership(w) ==
  /\ pc[w] = "verifying"
  /\ IF Owns(w, cur[w])
       THEN /\ pc' = [pc EXCEPT ![w] = "executing"]
            /\ beating' = [beating EXCEPT ![w] = TRUE]
            /\ UNCHANGED <<cur, ticket>>
       ELSE Release(w)
  /\ UNCHANGED <<task, want, scan, stopping, interruptions>>

\* The handler commits its work and its job's outcome; the task row comes later.
HandlerReturns(w) ==
  /\ pc[w] = "executing"
  /\ \E outcome \in {"completed", "completed_with_errors"} :
        task' = [task EXCEPT ![cur[w]].job = Report(@, outcome)]
  /\ pc' = [pc EXCEPT ![w] = "succeeding"]
  /\ UNCHANGED <<want, cur, ticket, beating, scan, stopping, interruptions>>

\* The handler raises, before or after a commit that already finished the job
\* (sync_workflow_service commits, then runs the BOM backfill step).
HandlerRaises(w) ==
  /\ pc[w] = "executing"
  /\ \E outcome \in {task[cur[w]].job, "completed", "completed_with_errors"} :
        task' = [task EXCEPT ![cur[w]].job = Report(@, outcome)]
  /\ pc' = [pc EXCEPT ![w] = "failing"]
  /\ UNCHANGED <<want, cur, ticket, beating, scan, stopping, interruptions>>

\* A bookkeeping transaction raises before its commit.
TransactionRaises(w) ==
  /\ pc[w] \in {"loading", "starting", "verifying", "succeeding"}
  /\ pc' = [pc EXCEPT ![w] = "failing"]
  /\ UNCHANGED <<task, want, cur, ticket, beating, scan, stopping, interruptions>>

\* _mark_task_succeeded tests neither status nor owner.
MarkSucceeded(w) ==
  /\ pc[w] = "succeeding"
  /\ task' = [task EXCEPT ![cur[w]].status = "succeeded", ![cur[w]].finished = TRUE]
  /\ Release(w)
  /\ UNCHANGED <<want, scan, stopping, interruptions>>

\* Variant: the last attempt is never made.
MarkFailed_OffByOne(w) ==
  /\ pc[w] = "failing"
  /\ task' = [task EXCEPT ![cur[w]] =
                IF @.attempts + 1 < MaxAttempts THEN Requeued(@) ELSE DeadLettered(@)]
  /\ Release(w)
  /\ UNCHANGED <<want, scan, stopping, interruptions>>

\* Nor does _mark_task_failed.
MarkFailed(w) ==
  /\ pc[w] = "failing"
  /\ task' = [task EXCEPT ![cur[w]] =
                IF @.attempts < MaxAttempts THEN Requeued(@) ELSE DeadLettered(@)]
  /\ Release(w)
  /\ UNCHANGED <<want, scan, stopping, interruptions>>

\* Variant: the heartbeat loop ends after its first renewal.
Heartbeat_Once(w) ==
  /\ beating[w]
  /\ beating' = [beating EXCEPT ![w] = FALSE]
  /\ task' = [task EXCEPT ![cur[w]].claim = "fresh"]
  /\ UNCHANGED <<want, pc, cur, ticket, scan, stopping, interruptions>>

\* One turn of _heartbeat_loop: it renews claimed_at, or ends for good when the
\* row is no longer this worker's.
Heartbeat(w) ==
  /\ beating[w]
  /\ IF task[cur[w]].status = "running" /\ task[cur[w]].owner = w
       THEN /\ task' = [task EXCEPT ![cur[w]].claim = "fresh"]
            /\ UNCHANGED beating
       ELSE /\ beating' = [beating EXCEPT ![w] = FALSE]
            /\ UNCHANGED task
  /\ UNCHANGED <<want, pc, cur, ticket, scan, stopping, interruptions>>

-----------------------------------------------------------------------------
(* Process life and the clock *)

\* SIGTERM or SIGINT: worker.stop(); the task in hand is finished first.
Stop(w) ==
  /\ interruptions < MaxInterruptions
  /\ pc[w] \notin {"stopped", "down"}
  /\ ~stopping[w]
  /\ stopping' = [stopping EXCEPT ![w] = TRUE]
  /\ interruptions' = interruptions + 1
  /\ UNCHANGED <<task, want, pc, cur, ticket, beating, scan>>

\* The process dies, or an exception leaves run_forever: an open transaction is
\* rolled back and the memory is lost.
Crash(w) ==
  /\ interruptions < MaxInterruptions
  /\ pc[w] \notin {"stopped", "down"}
  /\ pc' = [pc EXCEPT ![w] = "down"]
  /\ cur' = [cur EXCEPT ![w] = NoTask]
  /\ ticket' = [ticket EXCEPT ![w] = 0]
  /\ beating' = [beating EXCEPT ![w] = FALSE]
  /\ scan' = [scan EXCEPT ![w] = {}]
  /\ interruptions' = interruptions + 1
  /\ UNCHANGED <<task, want, stopping>>

\* The container's restart policy, or an operator, starts it again.
Restart(w) ==
  /\ pc[w] \in {"stopped", "down"}
  /\ pc' = [pc EXCEPT ![w] = "polling"]
  /\ stopping' = [stopping EXCEPT ![w] = FALSE]
  /\ UNCHANGED <<task, want, cur, ticket, beating, scan, interruptions>>

\* claimed_at falls behind sync_task_claim_timeout_seconds.
Expire(t) ==
  /\ task[t].status = "running"
  /\ task[t].claim = "fresh"
  /\ Timely => \A w \in Workers : cur[w] = t => ~Attends(w)
  /\ task' = [task EXCEPT ![t].claim = "expired"]
  /\ UNCHANGED <<want, workerVars, interruptions>>

\* available_at passes.  The delay is at least a second (ten after a recovery)
\* and is taken to outlast a recovery transaction that has already read the row.
CooldownElapses(t) ==
  /\ task[t].status = "pending"
  /\ ~task[t].available
  /\ \A w \in Workers : \A s \in scan[w] : s[1] # t
  /\ task' = [task EXCEPT ![t].available = TRUE]
  /\ UNCHANGED <<want, workerVars, interruptions>>

-----------------------------------------------------------------------------
Produce(p) == (\E k \in Keys : FindNoActive(p, k)) \/ Insert(p) \/ AbandonEnqueue(p)

\* What a live worker does on its own, but for the heartbeat.
Work(w) ==
  \/ ExitLoop(w) \/ ScanStale(w) \/ CommitRecovery(w)
  \/ Claim(w) \/ ClaimNothing(w)
  \/ LoadContext(w) \/ MarkStarted(w) \/ VerifyOwnership(w)
  \/ HandlerReturns(w) \/ HandlerRaises(w) \/ TransactionRaises(w)
  \/ MarkSucceeded(w) \/ MarkFailed(w)

Next ==
  \/ \E p \in Producers : Produce(p)
  \/ \E w \in Workers : Work(w) \/ Heartbeat(w) \/ Stop(w) \/ Crash(w) \/ Restart(w)
  \/ \E t \in Tasks : Expire(t) \/ CooldownElapses(t)

\* A live worker keeps running its loop and every handler returns or raises
\* (each external call has a timeout); a dead one is restarted; time passes.
Fairness ==
  /\ \A w \in Workers : WF_vars(Work(w)) /\ WF_vars(Restart(w))
  /\ \A t \in Tasks : WF_vars(Expire(t)) /\ WF_vars(CooldownElapses(t))

Spec == Init /\ [][Next]_vars

FairSpec == Spec /\ Fairness
-----------------------------------------------------------------------------
(* Properties of the rows, whatever the timing *)

TypeOK ==
  /\ task \in [Tasks -> Row]
  /\ want \in [Producers -> Keys \union {NoKey}]
  /\ pc \in [Workers -> WorkerStates]
  /\ cur \in [Workers -> Tasks \union {NoTask}]
  /\ ticket \in [Workers -> Nat]
  /\ beating \in [Workers -> BOOLEAN]
  /\ scan \in [Workers -> SUBSET (Tasks \X Nat)]
  /\ stopping \in [Workers -> BOOLEAN]
  /\ interruptions \in Nat

\* No sequence of crashes, recoveries and late reports makes a task be claimed
\* more often than max_attempts: recovery decides on an attempt count it read
\* without a lock, and any worker may put a row back to pending.
AttemptsBounded == \A t \in Tasks : task[t].attempts <= MaxAttempts

\* A row waiting in the queue carries nothing of its previous claim, so the
\* next claimer starts clean and the stale scan cannot see it, even when a
\* worker that lost the task reports on it late.
PendingIsUnclaimed ==
  \A t \in Tasks : task[t].status = "pending" =>
     task[t].claim = "none" /\ task[t].owner = NoWorker /\ task[t].attempts < MaxAttempts

\* A dead letter (count_dead_letter) has used up its attempts and is never
\* queued again: recovery and a late report may race over it, but the only
\* other status it can reach is succeeded.
DeadLetterNeverRequeued ==
  [][\A t \in Tasks : task[t].status = "failed" =>
        /\ task[t].attempts = MaxAttempts /\ task[t].dead
        /\ task'[t].status \in {"failed", "succeeded"}]_vars

-----------------------------------------------------------------------------
(* Properties that rest on Timely: heartbeats keep the claim of a live holder *)

Holds(w, t) == pc[w] \in Holding /\ cur[w] = t

\* Two live workers are never between the claim and the report of one task,
\* through crashes, recoveries and the re-claim that follows them.
Exclusive ==
  \A t \in Tasks : \A v, w \in Workers : Holds(v, t) /\ Holds(w, t) => v = w

\* No recovery takes away the claim of a worker that is at work: the row stays
\* running, in its name, at the attempt it claimed.
ClaimKept ==
  \A w \in Workers : pc[w] \in Holding =>
     LET row == task[cur[w]]
     IN row.status = "running" /\ row.owner = w /\ row.attempts = ticket[w]

\* A finished task stays as it is: neither a recovery that read it earlier nor a
\* report changes its status, and its job's outcome stays with it.
TerminalIsFinal ==
  [][\A t \in Tasks : Terminal(task[t].status) =>
        task'[t].status = task[t].status /\ task'[t].job = task[t].job]_vars

\* The sync job a user watches agrees with the task: queued again when the task
\* was requeued (even after its handler had finished the job), over when the
\* task is over, and with errors when the task is a dead letter.
JobAgrees ==
  \A t \in Tasks : task[t].job # "none" =>
     CASE task[t].status = "pending"   -> task[t].job = "queued"
       [] task[t].status = "failed"    -> task[t].job = "completed_with_errors"
       [] task[t].status = "succeeded" -> task[t].job \in {"completed", "completed_with_errors"}
       [] OTHER -> TRUE

Enqueuing(k) == {p \in Producers : want[p] = k}

\* However enqueues overlap, a dedupe key has at most as many active tasks as there
\* are producers, and each active task leaves one producer fewer that could still
\* add to them: only those that looked before the first insert can, and neither
\* retries nor recoveries bring a finished task back beside them.
DuplicatesBounded ==
  \A k \in Keys : Cardinality(ActiveWith(k)) + Cardinality(Enqueuing(k)) <= Cardinality(Producers)

\* No two enqueues of one key are under way at once.
KeysApart == \A p, q \in Producers : want[p] = want[q] /\ want[p] # NoKey => p = q

\* One active task per dedupe key.  The code checks and inserts without a lock,
\* so two enqueues of the key that overlap can break it; nothing else does.
OneActivePerKey == \A t, u \in Active : task[t].key = task[u].key => t = u

\* The purpose of _verify_task_ownership: a handler starts only under the claim
\* its worker took.
StartsUnderOwnClaim ==
  [][\A w \in Workers : pc[w] = "verifying" /\ pc'[w] = "executing" =>
        task[cur[w]].attempts = ticket[w]]_vars

-----------------------------------------------------------------------------
(* Liveness *)

\* Every task that was enqueued reaches an end, whichever workers crash or stop
\* on the way and however often its handler fails.
EveryTaskEnds ==
  \A t \in Tasks : (task[t].status = "pending") ~> Terminal(task[t].status)
-----------------------------------------------------------------------------
(* The inductive invariants behind the properties above *)

RowInv ==
  \A t \in Tasks :
    /\ task[t].attempts <= MaxAttempts
    /\ task[t].status = "absent" => task[t].attempts = 0
    /\ task[t].status = "pending" =>
         task[t].claim = "none" /\ task[t].owner = NoWorker /\ task[t].attempts < MaxAttempts
    /\ task[t].status = "running" => task[t].claim # "none"
    /\ task[t].status = "failed" => task[t].attempts = MaxAttempts /\ task[t].dead

\* A row that an open recovery has read has not been claimed since.
ScanInv ==
  \A w \in Workers : \A s \in scan[w] :
    /\ task[s[1]].status # "absent"
    /\ task[s[1]].attempts = s[2]
    /\ task[s[1]].status = "pending" => ~task[s[1]].available

HolderInv ==
  \A w \in Workers :
    /\ pc[w] \in Holding <=> cur[w] # NoTask
    /\ cur[w] # NoTask => task[cur[w]].status # "absent"
    /\ beating[w] => pc[w] \in {"executing", "succeeding", "failing"}

\* Holds for every timing.
QueueInv == TypeOK /\ RowInv /\ ScanInv /\ HolderInv

\* With Timely: a held row is running under a fresh claim of its holder, and a
\* row about to be marked succeeded has a finished job.
HeldInv ==
  \A w \in Workers : pc[w] \in Holding =>
    /\ task[cur[w]].status = "running"
    /\ task[cur[w]].owner = w
    /\ task[cur[w]].attempts = ticket[w]
    /\ task[cur[w]].claim = "fresh"
    /\ Attends(w)
    /\ pc[w] = "succeeding" =>
         task[cur[w]].job \in {"none", "completed", "completed_with_errors"}

\* With Timely: what an open recovery has read is held by no one.
ReadInv ==
  \A w \in Workers : \A s \in scan[w] :
    /\ task[s[1]].status # "succeeded"
    /\ task[s[1]].status = "running" => task[s[1]].claim = "expired"

CustodyInv == HeldInv /\ ReadInv
=============================================================================
