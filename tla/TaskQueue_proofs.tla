--------------------------- MODULE TaskQueue_proofs ---------------------------
(* Proofs about the background task queue, for every value of the constants. *)
EXTENDS TaskQueueRefinement, FiniteSetTheorems, TLAPS

-----------------------------------------------------------------------------
(* What the row operators return *)

LEMMA RequeuedRow ==
  ASSUME NEW r \in Row
  PROVE  /\ Requeued(r) \in Row
         /\ Requeued(r).status = "pending"
         /\ Requeued(r).attempts = r.attempts
         /\ ~Requeued(r).available
         /\ Requeued(r).claim = "none"
         /\ Requeued(r).owner = NoWorker
         /\ Requeued(r).key = r.key
         /\ Requeued(r).job \in {"none", "queued"}
BY DEF Requeued, Row, Report, Statuses, JobStatuses

LEMMA DeadLetteredRow ==
  ASSUME NEW r \in Row
  PROVE  /\ DeadLettered(r) \in Row
         /\ DeadLettered(r).status = "failed"
         /\ DeadLettered(r).attempts = r.attempts
         /\ DeadLettered(r).dead
         /\ DeadLettered(r).key = r.key
         /\ DeadLettered(r).job \in {"none", "completed_with_errors"}
BY DEF DeadLettered, Row, Report, Statuses, JobStatuses

LEMMA ClaimedRow ==
  ASSUME NEW r \in Row, NEW w \in Workers
  PROVE  /\ Claimed(r, w) \in Row
         /\ Claimed(r, w).status = "running"
         /\ Claimed(r, w).attempts = r.attempts + 1
         /\ Claimed(r, w).claim = "fresh"
         /\ Claimed(r, w).owner = w
         /\ Claimed(r, w).key = r.key
         /\ Claimed(r, w).job = r.job
<1>1. r.attempts + 1 \in Nat
  BY DEF Row
<1> QED
  BY <1>1 DEF Claimed, Row, Statuses

LEMMA EnqueuedRow ==
  ASSUME NEW k \in Keys, NEW j \in {"none", "queued"}
  PROVE  /\ Enqueued(k, j) \in Row
         /\ Enqueued(k, j).status = "pending"
         /\ Enqueued(k, j).attempts = 0
         /\ Enqueued(k, j).claim = "none"
         /\ Enqueued(k, j).owner = NoWorker
         /\ Enqueued(k, j).key = k
         /\ Enqueued(k, j).job = j
BY DEF Enqueued, AbsentRow, Row, Statuses, JobStatuses
-----------------------------------------------------------------------------
(* What one transaction writes into each row *)

\* The attempt a recovery read is still the row's attempt, so the two branches of
\* recover_stale_tasks are told apart by the row itself.
LEMMA RecoveryWrites ==
  ASSUME QueueInv, NEW w \in Workers, CommitRecovery(w), NEW t \in Tasks
  PROVE  \/ /\ \A s \in scan[w] : s[1] # t
            /\ task'[t] = task[t]
         \/ /\ <<t, task[t].attempts>> \in scan[w]
            /\ IF task[t].attempts < MaxAttempts
                 THEN task'[t] = Requeued(task[t])
                 ELSE /\ task[t].attempts = MaxAttempts
                      /\ task'[t] = DeadLettered(task[t])
<1>1. task'[t] = IF \E s \in scan[w] : s[1] = t
                   THEN Recovered(task[t], (CHOOSE s \in scan[w] : s[1] = t)[2])
                   ELSE task[t]
  BY DEF CommitRecovery
<1>2. CASE \A s \in scan[w] : s[1] # t
  BY <1>1, <1>2
<1>3. CASE \E s \in scan[w] : s[1] = t
  <2> DEFINE read == CHOOSE s \in scan[w] : s[1] = t
  <2>1. read \in scan[w] /\ read[1] = t
    BY <1>3
  <2>2. read \in Tasks \X Nat
    BY <2>1 DEF QueueInv, TypeOK
  <2>3. read[2] = task[t].attempts
    BY <2>1 DEF QueueInv, ScanInv
  <2>4. read = <<t, task[t].attempts>>
    BY <2>1, <2>2, <2>3
  <2>5. task'[t] = Recovered(task[t], task[t].attempts)
    BY <1>1, <1>3, <2>3
  <2>6. task[t].attempts \in Nat /\ task[t].attempts <= MaxAttempts
    BY DEF QueueInv, TypeOK, RowInv, Row
  <2> QED
    BY <2>1, <2>4, <2>5, <2>6, MaxAttemptsPositive DEF Recovered
<1> QED
  BY <1>2, <1>3
-----------------------------------------------------------------------------
(* QueueInv is inductive, whatever the timing *)

LEMMA QueueInit == Init => QueueInv
BY MaxAttemptsPositive, AbsentValues
DEF Init, QueueInv, TypeOK, RowInv, ScanInv, HolderInv, AbsentRow, Row, Statuses,
    JobStatuses, WorkerStates, Holding

\* A transaction that rewrites one row keeps the row and scan parts if the new
\* row does: it satisfies RowInv, keeps the attempt count and, where a recovery
\* may have read it, is not available.
LEMMA OneRowChanges ==
  ASSUME QueueInv, NEW t \in Tasks, NEW r \in Row,
         task' = [task EXCEPT ![t] = r],
         r.status # "absent",
         r.attempts <= MaxAttempts,
         r.status = "pending" =>
           r.claim = "none" /\ r.owner = NoWorker /\ r.attempts < MaxAttempts,
         r.status = "running" => r.claim # "none",
         r.status = "failed" => r.attempts = MaxAttempts /\ r.dead,
         \A w \in Workers : \A s \in scan[w] : s[1] = t =>
           r.attempts = task[t].attempts /\ (r.status = "pending" => ~r.available)
  PROVE  /\ task' \in [Tasks -> Row]
         /\ RowInv'
         /\ scan' = scan => ScanInv'
         /\ \A u \in Tasks : task[u].status # "absent" => task'[u].status # "absent"
<1>1. task \in [Tasks -> Row] /\ RowInv /\ ScanInv
  BY DEF QueueInv, TypeOK
<1>2. \A w \in Workers : \A s \in scan[w] : s[1] \in Tasks
  BY DEF QueueInv, TypeOK
<1>3. task' \in [Tasks -> Row] /\ RowInv'
  BY <1>1 DEF RowInv
<1>4. scan' = scan => ScanInv'
  BY <1>1, <1>2 DEF ScanInv
<1>5. \A u \in Tasks : task[u].status # "absent" => task'[u].status # "absent"
  BY <1>1
<1> QED
  BY <1>3, <1>4, <1>5
LEMMA QueueStep == QueueInv /\ [Next]_vars => QueueInv'
<1> SUFFICES ASSUME QueueInv, [Next]_vars PROVE QueueInv'
  OBVIOUS
<1> USE DEF QueueInv
<1>0. /\ task \in [Tasks -> Row] /\ RowInv /\ ScanInv /\ HolderInv /\ TypeOK
      /\ \A w \in Workers : pc[w] \in Holding => cur[w] \in Tasks
      /\ \A w \in Workers : \A s \in scan[w] : s[1] \in Tasks
  BY AbsentValues DEF TypeOK, HolderInv
\* The actions that leave the rows alone keep the three row parts.
<1>1. ASSUME UNCHANGED <<task, scan>> PROVE RowInv' /\ ScanInv'
  BY <1>0, <1>1 DEF RowInv, ScanInv
<1>2. ASSUME NEW p \in Producers, Produce(p) PROVE QueueInv'
  <2>1. ASSUME NEW k \in Keys, FindNoActive(p, k) PROVE QueueInv'
    BY <1>0, <1>1, <2>1 DEF FindNoActive, workerVars, TypeOK, HolderInv
  <2>2. ASSUME Insert(p) PROVE QueueInv'
    <3>1. PICK t \in Tasks, j \in {"none", "queued"} :
             /\ task[t].status = "absent"
             /\ task' = [task EXCEPT ![t] = Enqueued(want[p], j)]
      BY <2>2 DEF Insert
    <3>2. want[p] \in Keys
      BY <2>2 DEF Insert, TypeOK
    <3>3. PICK r \in Row :
             /\ task' = [task EXCEPT ![t] = r]
             /\ r.status = "pending" /\ r.attempts = 0
             /\ r.claim = "none" /\ r.owner = NoWorker
      <4>1. /\ Enqueued(want[p], j) \in Row /\ Enqueued(want[p], j).status = "pending"
            /\ Enqueued(want[p], j).attempts = 0 /\ Enqueued(want[p], j).claim = "none"
            /\ Enqueued(want[p], j).owner = NoWorker
        BY <3>2, EnqueuedRow
      <4> QED
        BY Zenon, <3>1, <4>1
    <3>4. r.attempts <= MaxAttempts /\ r.attempts < MaxAttempts
      BY <3>3, MaxAttemptsPositive
    <3>5. \A w \in Workers : \A s \in scan[w] : s[1] = t => FALSE
      BY <1>0, <3>1 DEF ScanInv
    <3>6. t \in Tasks /\ r \in Row
      OBVIOUS
    <3>7. /\ task' \in [Tasks -> Row] /\ RowInv' /\ (scan' = scan => ScanInv')
          /\ \A u \in Tasks : task[u].status # "absent" => task'[u].status # "absent"
      <4>1. r.status # "absent" /\ r.attempts <= MaxAttempts
        BY <3>3, <3>4
      <4>2. r.status = "pending" => r.claim = "none" /\ r.owner = NoWorker /\ r.attempts < MaxAttempts
        BY <3>3, <3>4
      <4>3. r.status = "running" => r.claim # "none"
        BY <3>3, <3>4
      <4>4. r.status = "failed" => r.attempts = MaxAttempts /\ r.dead
        BY <3>3, <3>4
      <4>5. \A w \in Workers : \A s \in scan[w] : s[1] = t =>
           r.attempts = task[t].attempts /\ (r.status = "pending" => ~r.available)
        BY <3>5
      <4>6. task' = [task EXCEPT ![t] = r]
        BY <3>3
      <4> QED
        BY <4>1, <4>2, <4>3, <4>4, <4>5, <4>6, <3>6, OneRowChanges
    <3> QED
      BY <1>0, <2>2, <3>7 DEF Insert, workerVars, TypeOK, HolderInv
  <2>3. ASSUME AbandonEnqueue(p) PROVE QueueInv'
    BY <1>0, <1>1, <2>3 DEF AbandonEnqueue, workerVars, TypeOK, HolderInv
  <2> QED
    BY <1>2, <2>1, <2>2, <2>3 DEF Produce
<1>3. ASSUME NEW w \in Workers, Work(w) PROVE QueueInv'
  <2>1. CASE ExitLoop(w)
    BY <1>0, <1>1, <2>1 DEF ExitLoop, TypeOK, HolderInv, Holding, WorkerStates
  <2>2. CASE ScanStale(w)
    <3>1. /\ TypeOK' /\ HolderInv' /\ RowInv'
      BY <1>0, <2>2 DEF ScanStale, TypeOK, HolderInv, RowInv, Holding, WorkerStates, StaleRunning, Row
    <3>2. ScanInv'
      BY <1>0, <2>2 DEF ScanStale, ScanInv, StaleRunning, TypeOK
    <3> QED
      BY <3>1, <3>2
  <2>3. CASE CommitRecovery(w)
    <3>1. ASSUME NEW t \in Tasks
          PROVE  /\ task'[t] \in Row
                 /\ task'[t].attempts = task[t].attempts
                 /\ task[t].status # "absent" => task'[t].status # "absent"
                 /\ task'[t].status = "absent" => task'[t] = task[t]
                 /\ task'[t].status = "pending" =>
                      \/ task[t] = task'[t]
                      \/ /\ task'[t].claim = "none"
                         /\ task'[t].owner = NoWorker
                         /\ ~task'[t].available
                         /\ task[t].attempts < MaxAttempts
                 /\ task'[t].status = "running" => task'[t] = task[t]
                 /\ task'[t].status = "failed" =>
                      \/ task[t] = task'[t]
                      \/ task'[t].attempts = MaxAttempts /\ task'[t].dead
      <4>1. task[t] \in Row
        BY <1>0
      <4>2. CASE task'[t] = task[t]
        BY <4>1, <4>2
      <4>3. CASE task'[t] = Requeued(task[t]) /\ task[t].attempts < MaxAttempts
        BY <4>1, <4>3, RequeuedRow
      <4>4. CASE task'[t] = DeadLettered(task[t]) /\ task[t].attempts = MaxAttempts
        BY <4>1, <4>4, DeadLetteredRow
      <4> QED
        BY <2>3, <4>2, <4>3, <4>4, RecoveryWrites
    <3>2. task' \in [Tasks -> Row]
      BY <2>3, <3>1 DEF CommitRecovery
    <3>3. RowInv'
      BY <1>0, <3>1 DEF RowInv
    <3>4. ScanInv'
      BY <1>0, <2>3, <3>1 DEF CommitRecovery, ScanInv, TypeOK
    <3>5. TypeOK' /\ HolderInv'
      BY <1>0, <2>3, <3>1, <3>2 DEF CommitRecovery, TypeOK, HolderInv, Holding, WorkerStates
    <3> QED
      BY <3>3, <3>4, <3>5
  <2>4. CASE Claim(w)
    <3>1. PICK t \in Claimable :
             /\ task' = [task EXCEPT ![t] = Claimed(@, w)]
             /\ cur' = [cur EXCEPT ![w] = t]
             /\ ticket' = [ticket EXCEPT ![w] = task[t].attempts + 1]
      BY <2>4 DEF Claim
    <3> DEFINE r == Claimed(task[t], w)
    <3>2. /\ t \in Tasks /\ task[t] \in Row /\ task[t].status = "pending"
          /\ task[t].available /\ task[t].attempts \in Nat
      BY <1>0 DEF Claimable, Row
    <3>3. task' = [task EXCEPT ![t] = r]
      BY <1>0, <3>1, <3>2
    <3>4. r \in Row /\ r.status = "running" /\ r.claim = "fresh" /\ r.attempts = task[t].attempts + 1
      BY <3>2, ClaimedRow
    <3> HIDE DEF r
    <3>5. r.attempts <= MaxAttempts
      BY <1>0, <3>2, <3>4, MaxAttemptsPositive DEF RowInv
    <3>6. \A v \in Workers : \A s \in scan[v] : s[1] = t => FALSE
      BY <1>0, <3>2 DEF ScanInv
    <3>7. /\ task' \in [Tasks -> Row] /\ RowInv' /\ (scan' = scan => ScanInv')
          /\ \A u \in Tasks : task[u].status # "absent" => task'[u].status # "absent"
      BY <3>2, <3>3, <3>4, <3>5, <3>6, OneRowChanges
    <3>8. task'[t].status # "absent"
      BY <1>0, <3>2, <3>3, <3>4
    <3> QED
      BY <1>0, <2>4, <3>1, <3>2, <3>7, <3>8, AbsentValues
      DEF Claim, TypeOK, HolderInv, Holding, WorkerStates
  <2>5. CASE ClaimNothing(w)
    BY <1>0, <1>1, <2>5 DEF ClaimNothing, TypeOK, HolderInv, Holding, WorkerStates
  <2>6. CASE LoadContext(w)
    <3>1. CASE task[cur[w]].status = "running"
      BY <1>0, <1>1, <2>6, <3>1, AbsentValues
      DEF LoadContext, TypeOK, HolderInv, Holding, WorkerStates
    <3>2. CASE task[cur[w]].status # "running"
      <4>1. Release(w) /\ UNCHANGED <<task, want, scan, stopping, interruptions>>
        BY <2>6, <3>2 DEF LoadContext
      <4>2. TypeOK'
        BY <1>0, <4>1 DEF Release, TypeOK, WorkerStates
      <4>3. HolderInv'
        BY <1>0, <4>1 DEF Release, TypeOK, HolderInv, Holding
      <4> QED
        BY <1>1, <4>1, <4>2, <4>3
    <3> QED
      BY <3>1, <3>2
  <2> DEFINE t == cur[w]
  <2>20. pc[w] \in Holding => t \in Tasks /\ task[t] \in Row /\ task[t].status # "absent"
    BY <1>0, AbsentValues DEF HolderInv
  <2>7. CASE MarkStarted(w)
    <3> DEFINE r == [task[t] EXCEPT !.owner = w, !.job = Report(@, "running")]
    <3>1. t \in Tasks /\ task[t] \in Row /\ task[t].status # "absent"
      BY <2>7, <2>20 DEF MarkStarted, Holding
    <3>2. CASE task[t].status = "running"
      <4>1. task' = [task EXCEPT ![t] = r]
        BY <1>0, <2>7, <3>1, <3>2 DEF MarkStarted
      <4>2. /\ r \in Row /\ r.status = "running" /\ r.claim = task[t].claim
            /\ r.attempts = task[t].attempts
        BY <3>1, <3>2 DEF Row, Report, JobStatuses
      <4>3. r.attempts <= MaxAttempts /\ r.claim # "none"
        BY <1>0, <3>1, <3>2, <4>2 DEF RowInv
      <4> HIDE DEF r
      <4>4. /\ task' \in [Tasks -> Row] /\ RowInv' /\ (scan' = scan => ScanInv')
            /\ \A u \in Tasks : task[u].status # "absent" => task'[u].status # "absent"
        BY <3>1, <4>1, <4>2, <4>3, OneRowChanges
      <4> QED
        BY <1>0, <2>7, <4>4 DEF MarkStarted, TypeOK, HolderInv, Holding, WorkerStates
    <3>3. CASE task[t].status # "running"
      BY <1>0, <1>1, <2>7, <3>3 DEF MarkStarted, TypeOK, HolderInv, Holding, WorkerStates
    <3> QED
      BY <3>2, <3>3
  <2>8. CASE VerifyOwnership(w)
    <3>1. CASE Owns(w, cur[w])
      BY <1>0, <1>1, <2>8, <3>1, AbsentValues
      DEF VerifyOwnership, TypeOK, HolderInv, Holding, WorkerStates
    <3>2. CASE ~Owns(w, cur[w])
      <4>1. Release(w) /\ UNCHANGED <<task, want, scan, stopping, interruptions>>
        BY <2>8, <3>2 DEF VerifyOwnership
      <4>2. TypeOK'
        BY <1>0, <4>1 DEF Release, TypeOK, WorkerStates
      <4>3. HolderInv'
        BY <1>0, <4>1 DEF Release, TypeOK, HolderInv, Holding
      <4> QED
        BY <1>1, <4>1, <4>2, <4>3
    <3> QED
      BY <3>1, <3>2
  <2>9. ASSUME NEW o, o \in JobStatuses, pc[w] = "executing",
               task' = [task EXCEPT ![t].job = Report(@, o)]
        PROVE  /\ task' \in [Tasks -> Row] /\ RowInv' /\ (scan' = scan => ScanInv')
               /\ \A u \in Tasks : task[u].status # "absent" => task'[u].status # "absent"
    <3> DEFINE r == [task[t] EXCEPT !.job = Report(@, o)]
    <3>1. t \in Tasks /\ task[t] \in Row /\ task[t].status # "absent"
      BY <2>9, <2>20 DEF Holding
    <3>2. task' = [task EXCEPT ![t] = r]
      BY <1>0, <2>9, <3>1
    <3>3. /\ r \in Row /\ r.status = task[t].status /\ r.claim = task[t].claim
          /\ r.attempts = task[t].attempts /\ r.owner = task[t].owner /\ r.dead = task[t].dead
          /\ r.available = task[t].available
      BY <2>9, <3>1 DEF Row, Report
    <3> HIDE DEF r
    <3>4. /\ r.attempts <= MaxAttempts
          /\ r.status = "pending" =>
               r.claim = "none" /\ r.owner = NoWorker /\ r.attempts < MaxAttempts
          /\ r.status = "running" => r.claim # "none"
          /\ r.status = "failed" => r.attempts = MaxAttempts /\ r.dead
      BY <1>0, <3>1, <3>3 DEF RowInv
    <3>5. \A v \in Workers : \A s \in scan[v] : s[1] = t =>
             r.attempts = task[t].attempts /\ (r.status = "pending" => ~r.available)
      BY <1>0, <3>3 DEF ScanInv
    <3> QED
      BY <3>1, <3>2, <3>3, <3>4, <3>5, OneRowChanges
  <2>10. CASE HandlerReturns(w)
    <3>1. /\ task' \in [Tasks -> Row] /\ RowInv' /\ (scan' = scan => ScanInv')
          /\ \A u \in Tasks : task[u].status # "absent" => task'[u].status # "absent"
      BY <2>9, <2>10 DEF HandlerReturns, JobStatuses
    <3> QED
      BY <1>0, <2>10, <3>1 DEF HandlerReturns, TypeOK, HolderInv, Holding, WorkerStates
  <2>11. CASE HandlerRaises(w)
    <3>0. task[t].job \in JobStatuses
      BY <2>11, <2>20 DEF HandlerRaises, Holding, Row
    <3>1. /\ task' \in [Tasks -> Row] /\ RowInv' /\ (scan' = scan => ScanInv')
          /\ \A u \in Tasks : task[u].status # "absent" => task'[u].status # "absent"
      BY <2>9, <2>11, <3>0 DEF HandlerRaises, JobStatuses
    <3> QED
      BY <1>0, <2>11, <3>1 DEF HandlerRaises, TypeOK, HolderInv, Holding, WorkerStates
  <2>12. CASE TransactionRaises(w)
    BY <1>0, <1>1, <2>12 DEF TransactionRaises, TypeOK, HolderInv, Holding, WorkerStates
  <2>13. CASE MarkSucceeded(w)
    <3> DEFINE r == [task[t] EXCEPT !.status = "succeeded", !.finished = TRUE]
    <3>1. t \in Tasks /\ task[t] \in Row
      BY <2>13, <2>20 DEF MarkSucceeded, Holding
    <3>2. task' = [task EXCEPT ![t] = r]
      BY <1>0, <2>13, <3>1 DEF MarkSucceeded
    <3>3. r \in Row /\ r.status = "succeeded" /\ r.attempts = task[t].attempts
      BY <3>1 DEF Row, Statuses
    <3>4. r.attempts <= MaxAttempts
      BY <1>0, <3>1, <3>3 DEF RowInv
    <3> HIDE DEF r
    <3>5. /\ task' \in [Tasks -> Row] /\ RowInv' /\ (scan' = scan => ScanInv')
          /\ \A u \in Tasks : task[u].status # "absent" => task'[u].status # "absent"
      BY <3>1, <3>2, <3>3, <3>4, OneRowChanges
    <3> QED
      BY <1>0, <2>13, <3>5, AbsentValues
      DEF MarkSucceeded, Release, TypeOK, HolderInv, Holding, WorkerStates
  <2>14. CASE MarkFailed(w)
    <3> DEFINE r == IF task[t].attempts < MaxAttempts THEN Requeued(task[t]) ELSE DeadLettered(task[t])
    <3>1. t \in Tasks /\ task[t] \in Row /\ task[t].attempts \in Nat
      BY <2>14, <2>20 DEF MarkFailed, Holding, Row
    <3>2. task' = [task EXCEPT ![t] = r]
      BY <1>0, <2>14, <3>1 DEF MarkFailed
    <3>3. /\ r \in Row /\ r.status # "absent" /\ r.attempts = task[t].attempts
          /\ r.attempts <= MaxAttempts
          /\ r.status = "pending" => /\ r.claim = "none" /\ r.owner = NoWorker
                                     /\ r.attempts < MaxAttempts /\ ~r.available
          /\ r.status # "running"
          /\ r.status = "failed" => r.attempts = MaxAttempts /\ r.dead
      BY <1>0, <3>1, RequeuedRow, DeadLetteredRow, MaxAttemptsPositive DEF RowInv
    <3> HIDE DEF r
    <3>5. /\ task' \in [Tasks -> Row] /\ RowInv' /\ (scan' = scan => ScanInv')
          /\ \A u \in Tasks : task[u].status # "absent" => task'[u].status # "absent"
      BY <3>1, <3>2, <3>3, OneRowChanges
    <3> QED
      BY <1>0, <2>14, <3>5, AbsentValues
      DEF MarkFailed, Release, TypeOK, HolderInv, Holding, WorkerStates
  <2> QED
    BY <1>3, <2>1, <2>2, <2>3, <2>4, <2>5, <2>6, <2>7, <2>8, <2>10, <2>11, <2>12, <2>13, <2>14
    DEF Work
<1>4. ASSUME NEW w \in Workers, Heartbeat(w) PROVE QueueInv'
  <2> DEFINE t == cur[w]
             r == [task[t] EXCEPT !.claim = "fresh"]
  <2>1. t \in Tasks /\ task[t] \in Row
    BY <1>0, <1>4 DEF Heartbeat, HolderInv, Holding
  <2>2. CASE task[t].status = "running" /\ task[t].owner = w
    <3>1. task' = [task EXCEPT ![t] = r]
      BY <1>0, <1>4, <2>1, <2>2 DEF Heartbeat
    <3>2. r \in Row /\ r.status = "running" /\ r.claim = "fresh" /\ r.attempts = task[t].attempts
      BY <2>1, <2>2 DEF Row
    <3>3. r.attempts <= MaxAttempts
      BY <1>0, <2>1, <3>2 DEF RowInv
    <3> HIDE DEF r
    <3>4. /\ task' \in [Tasks -> Row] /\ RowInv' /\ (scan' = scan => ScanInv')
          /\ \A u \in Tasks : task[u].status # "absent" => task'[u].status # "absent"
      BY <2>1, <3>1, <3>2, <3>3, OneRowChanges
    <3> QED
      BY <1>0, <1>4, <2>2, <3>4 DEF Heartbeat, TypeOK, HolderInv
  <2>3. CASE ~(task[t].status = "running" /\ task[t].owner = w)
    BY <1>0, <1>1, <1>4, <2>3 DEF Heartbeat, TypeOK, HolderInv
  <2> QED
    BY <2>2, <2>3
<1>5. ASSUME NEW w \in Workers, Stop(w) \/ Crash(w) \/ Restart(w) PROVE QueueInv'
  <2>1. CASE Stop(w)
    BY <1>0, <1>1, <2>1, InterruptionsBounded DEF Stop, TypeOK, HolderInv
  <2>2. CASE Crash(w)
    BY <1>0, <2>2, InterruptionsBounded, AbsentValues
    DEF Crash, TypeOK, RowInv, ScanInv, HolderInv, Holding, WorkerStates
  <2>3. CASE Restart(w)
    BY <1>0, <1>1, <2>3 DEF Restart, TypeOK, HolderInv, Holding, WorkerStates
  <2> QED
    BY <1>5, <2>1, <2>2, <2>3
<1>6. ASSUME NEW t \in Tasks, Expire(t) PROVE QueueInv'
  <2> DEFINE r == [task[t] EXCEPT !.claim = "expired"]
  <2>1. task' = [task EXCEPT ![t] = r] /\ task[t].status = "running" /\ task[t] \in Row
    BY <1>0, <1>6 DEF Expire
  <2>2. r \in Row /\ r.status = "running" /\ r.claim = "expired" /\ r.attempts = task[t].attempts
    BY <2>1 DEF Row
  <2>3. r.attempts <= MaxAttempts
    BY <1>0, <2>2 DEF RowInv
  <2> HIDE DEF r
  <2>4. /\ task' \in [Tasks -> Row] /\ RowInv' /\ (scan' = scan => ScanInv')
        /\ \A u \in Tasks : task[u].status # "absent" => task'[u].status # "absent"
    BY <2>1, <2>2, <2>3, OneRowChanges
  <2> QED
    BY <1>0, <1>6, <2>4 DEF Expire, workerVars, TypeOK, HolderInv
<1>7. ASSUME NEW t \in Tasks, CooldownElapses(t) PROVE QueueInv'
  <2> DEFINE r == [task[t] EXCEPT !.available = TRUE]
  <2>1. task' = [task EXCEPT ![t] = r] /\ task[t].status = "pending" /\ task[t] \in Row
    BY <1>0, <1>7 DEF CooldownElapses
  <2>2. /\ r \in Row /\ r.status = "pending" /\ r.claim = task[t].claim
        /\ r.owner = task[t].owner /\ r.attempts = task[t].attempts
    BY <2>1 DEF Row
  <2>3. r.attempts < MaxAttempts /\ r.attempts <= MaxAttempts /\ r.claim = "none" /\ r.owner = NoWorker
    BY <1>0, <2>1, <2>2 DEF RowInv
  <2>4. \A v \in Workers : \A s \in scan[v] : s[1] = t => FALSE
    BY <1>7 DEF CooldownElapses
  <2> HIDE DEF r
  <2>5. /\ task' \in [Tasks -> Row] /\ RowInv' /\ (scan' = scan => ScanInv')
        /\ \A u \in Tasks : task[u].status # "absent" => task'[u].status # "absent"
    BY <2>1, <2>2, <2>3, <2>4, OneRowChanges
  <2> QED
    BY <1>0, <1>7, <2>5 DEF CooldownElapses, workerVars, TypeOK, HolderInv
<1>8. CASE UNCHANGED vars
  BY <1>0, <1>1, <1>8 DEF vars, producerVars, workerVars, TypeOK, HolderInv
<1> QED
  BY <1>2, <1>3, <1>4, <1>5, <1>6, <1>7, <1>8 DEF Next
\* QueueInv is an invariant of every behaviour; type correctness is its first part.
THEOREM QueueInvariant == Spec => []QueueInv
<1>1. Init => QueueInv
  BY QueueInit
<1>2. QueueInv /\ [Next]_vars => QueueInv'
  BY QueueStep
<1> QED
  BY <1>1, <1>2, PTL DEF Spec

THEOREM TypeCorrect == Spec => []TypeOK
<1>1. QueueInv => TypeOK
  BY DEF QueueInv
<1> QED
  BY <1>1, QueueInvariant, PTL

\* No task is claimed more often than max_attempts, whatever crashes, expires or
\* reports late (claim_available, recover_stale_tasks, _mark_task_failed).
THEOREM AttemptsAreBounded == Spec => []AttemptsBounded
<1>1. QueueInv => AttemptsBounded
  BY DEF QueueInv, RowInv, AttemptsBounded
<1> QED
  BY <1>1, QueueInvariant, PTL

\* A pending row carries no trace of its last claim, whoever put it back.
THEOREM PendingRowsAreClean == Spec => []PendingIsUnclaimed
<1>1. QueueInv => PendingIsUnclaimed
  BY DEF QueueInv, RowInv, PendingIsUnclaimed
<1> QED
  BY <1>1, QueueInvariant, PTL

-----------------------------------------------------------------------------
(* Dead letters, whatever the timing *)

\* The status a dead letter can have after one step.
LEMMA DeadLetterStep ==
  ASSUME QueueInv, [Next]_vars, NEW t \in Tasks, task[t].status = "failed"
  PROVE  task'[t].status \in {"failed", "succeeded"}
<1>1. /\ task \in [Tasks -> Row] /\ task[t] \in Row
      /\ task[t].attempts = MaxAttempts
      /\ \A w \in Workers : pc[w] \in Holding => cur[w] \in Tasks
      /\ \A u \in Tasks : task[u] \in Row
  BY AbsentValues DEF QueueInv, TypeOK, RowInv, HolderInv
<1>3. ASSUME NEW p \in Producers, Produce(p) PROVE task'[t].status \in {"failed", "succeeded"}
  BY <1>1, <1>3 DEF Produce, FindNoActive, Insert, AbandonEnqueue
<1>4. ASSUME NEW w \in Workers, Work(w) PROVE task'[t].status \in {"failed", "succeeded"}
  <2>1. CASE ExitLoop(w) \/ ScanStale(w) \/ ClaimNothing(w) \/ LoadContext(w)
             \/ VerifyOwnership(w) \/ TransactionRaises(w)
    BY <2>1 DEF ExitLoop, ScanStale, ClaimNothing, LoadContext, VerifyOwnership, TransactionRaises
  <2>2. CASE CommitRecovery(w)
    <3>0. ~(task[t].attempts < MaxAttempts)
      BY <1>1, MaxAttemptsPositive
    <3>1. task'[t] = task[t] \/ task'[t] = DeadLettered(task[t])
      BY <2>2, <3>0, RecoveryWrites
    <3> QED
      BY <1>1, <3>1, DeadLetteredRow
  <2>3. CASE Claim(w)
    <3>1. PICK u \in Claimable : task' = [task EXCEPT ![u] = Claimed(@, w)]
      BY <2>3 DEF Claim
    <3>2. u # t
      BY DEF Claimable
    <3> QED
      BY <1>1, <3>1, <3>2
  <2>4. CASE MarkStarted(w)
    BY <1>1, <2>4 DEF MarkStarted, Holding
  <2>5. CASE HandlerReturns(w)
    BY <1>1, <2>5 DEF HandlerReturns, Holding, Row
  <2>6. CASE HandlerRaises(w)
    BY <1>1, <2>6 DEF HandlerRaises, Holding, Row
  <2>7. CASE MarkSucceeded(w)
    BY <1>1, <2>7 DEF MarkSucceeded, Holding, Row
  <2>8. CASE MarkFailed(w)
    <3>1. CASE cur[w] = t
      BY <1>1, <2>8, <3>1, DeadLetteredRow, MaxAttemptsPositive DEF MarkFailed
    <3>2. CASE cur[w] # t
      BY <1>1, <2>8, <3>2 DEF MarkFailed, Holding
    <3> QED
      BY <3>1, <3>2
  <2> QED
    BY <1>4, <2>1, <2>2, <2>3, <2>4, <2>5, <2>6, <2>7, <2>8 DEF Work
<1>5. ASSUME NEW w \in Workers, Heartbeat(w) PROVE task'[t].status \in {"failed", "succeeded"}
  BY <1>1, <1>5 DEF Heartbeat
<1>6. ASSUME NEW w \in Workers, Stop(w) \/ Crash(w) \/ Restart(w)
      PROVE task'[t].status \in {"failed", "succeeded"}
  BY <1>6 DEF Stop, Crash, Restart
<1>7. ASSUME NEW u \in Tasks, Expire(u) \/ CooldownElapses(u)
      PROVE task'[t].status \in {"failed", "succeeded"}
  BY <1>1, <1>7 DEF Expire, CooldownElapses
<1>8. CASE UNCHANGED vars
  BY <1>8 DEF vars
<1> QED
  BY <1>3, <1>4, <1>5, <1>6, <1>7, <1>8 DEF Next

\* A dead letter has used every attempt and is never queued again: a recovery or
\* a late failure report can only bury it anew.
THEOREM DeadLettersStayDead == Spec => DeadLetterNeverRequeued
<1>1. QueueInv /\ [Next]_vars =>
        [\A t \in Tasks : task[t].status = "failed" =>
           /\ task[t].attempts = MaxAttempts /\ task[t].dead
           /\ task'[t].status \in {"failed", "succeeded"}]_vars
  BY DeadLetterStep DEF QueueInv, RowInv
<1> QED
  BY <1>1, QueueInvariant, PTL DEF Spec, DeadLetterNeverRequeued
-----------------------------------------------------------------------------
(* Custody: with Timely, a claim belongs to its live holder *)

LEMMA CustodyInit == Init => CustodyInv
BY DEF Init, CustodyInv, HeldInv, ReadInv, Holding

\* The owner column tells two holders apart.
LEMMA HeldAlone ==
  ASSUME CustodyInv, NEW v \in Workers, NEW w \in Workers,
         pc[v] \in Holding, pc[w] \in Holding, cur[v] = cur[w]
  PROVE  v = w
BY DEF CustodyInv, HeldInv

\* A held row is fresh, a row in an open recovery is not.
LEMMA HeldUnread ==
  ASSUME CustodyInv, NEW v \in Workers, NEW w \in Workers,
         pc[w] \in Holding, NEW s \in scan[v]
  PROVE  s[1] # cur[w]
BY DEF CustodyInv, HeldInv, ReadInv

\* A transaction of w on the row it holds, which then lets go of it.
LEMMA LettingGo ==
  ASSUME QueueInv, CustodyInv, NEW w \in Workers, pc[w] \in Holding,
         NEW r \in Row, task' = [task EXCEPT ![cur[w]] = r], Release(w), scan' = scan
  PROVE  CustodyInv'
<1>1. /\ pc \in [Workers -> WorkerStates] /\ cur[w] \in Tasks
      /\ task \in [Tasks -> Row] /\ beating \in [Workers -> BOOLEAN]
      /\ ticket \in [Workers -> Nat] /\ cur \in [Workers -> Tasks \union {NoTask}]
      /\ scan \in [Workers -> SUBSET (Tasks \X Nat)]
  BY AbsentValues DEF QueueInv, TypeOK, HolderInv
<1>2. ASSUME NEW v \in Workers, pc'[v] \in Holding
      PROVE  /\ v # w /\ pc'[v] = pc[v] /\ cur'[v] = cur[v] /\ ticket'[v] = ticket[v]
             /\ beating'[v] = beating[v] /\ task'[cur[v]] = task[cur[v]]
  <2>1. v # w /\ pc'[v] = pc[v] /\ cur'[v] = cur[v] /\ ticket'[v] = ticket[v]
        /\ beating'[v] = beating[v]
    BY <1>1, <1>2 DEF Release, Holding
  <2>2. cur[v] # cur[w] /\ cur[v] \in Tasks
    BY <1>2, <2>1, HeldAlone, AbsentValues DEF QueueInv, HolderInv, TypeOK
  <2> QED
    BY <1>1, <2>1, <2>2
<1>3. HeldInv'
  BY <1>2 DEF CustodyInv, HeldInv, Attends
<1>4. ASSUME NEW v \in Workers, NEW s \in scan[v]
      PROVE  task'[s[1]] = task[s[1]]
  BY <1>1, HeldUnread
<1>5. ReadInv'
  BY <1>4 DEF CustodyInv, ReadInv
<1> QED
  BY <1>3, <1>5 DEF CustodyInv

\* A transaction of w on the row it holds, which it goes on holding.
LEMMA HoldingOn ==
  ASSUME QueueInv, CustodyInv, NEW w \in Workers, pc[w] \in Holding,
         NEW r \in Row, task' = [task EXCEPT ![cur[w]] = r],
         NEW next \in Holding, pc' = [pc EXCEPT ![w] = next],
         cur' = cur, ticket' = ticket, scan' = scan,
         \A v \in Workers : v # w => beating'[v] = beating[v],
         r.status = "running", r.owner = w, r.attempts = ticket[w], r.claim = "fresh",
         next \in {"loading", "starting", "verifying", "failing"} \/ beating'[w],
         next = "succeeding" => r.job \in {"none", "completed", "completed_with_errors"}
  PROVE  CustodyInv'
<1>1. /\ pc \in [Workers -> WorkerStates] /\ cur[w] \in Tasks
      /\ task \in [Tasks -> Row] /\ cur \in [Workers -> Tasks \union {NoTask}]
      /\ scan \in [Workers -> SUBSET (Tasks \X Nat)]
  BY AbsentValues DEF QueueInv, TypeOK, HolderInv
<1>2. ASSUME NEW v \in Workers, v # w, pc'[v] \in Holding
      PROVE  pc'[v] = pc[v] /\ beating'[v] = beating[v] /\ task'[cur[v]] = task[cur[v]]
  <2>1. pc'[v] = pc[v]
    BY <1>1, <1>2
  <2>2. cur[v] # cur[w] /\ cur[v] \in Tasks
    BY <1>2, <2>1, HeldAlone, AbsentValues DEF QueueInv, HolderInv, TypeOK
  <2> QED
    BY <1>1, <1>2, <2>1, <2>2
<1>3. task'[cur[w]] = r /\ pc'[w] = next
  BY <1>1
<1>4. HeldInv'
  BY <1>2, <1>3 DEF CustodyInv, HeldInv, Attends
<1>5. ASSUME NEW v \in Workers, NEW s \in scan[v]
      PROVE  task'[s[1]] = task[s[1]]
  BY <1>1, HeldUnread
<1>6. ReadInv'
  BY <1>5 DEF CustodyInv, ReadInv
<1> QED
  BY <1>4, <1>6 DEF CustodyInv
LEMMA CustodyStep ==
  ASSUME Timely PROVE QueueInv /\ CustodyInv /\ [Next]_vars => CustodyInv'
<1> SUFFICES ASSUME QueueInv, CustodyInv, [Next]_vars PROVE CustodyInv'
  OBVIOUS
<1>0. /\ TypeOK /\ HeldInv /\ ReadInv
      /\ \A w \in Workers : pc[w] \in Holding => cur[w] \in Tasks
      /\ \A w \in Workers : pc[w] \in Holding => task[cur[w]] \in Row
      /\ \A w \in Workers : \A s \in scan[w] : s[1] \in Tasks
  BY AbsentValues DEF QueueInv, CustodyInv, TypeOK, HolderInv
\* Steps that leave every row and every scan alone.
<1>1. ASSUME UNCHANGED <<task, scan>>,
             \A v \in Workers : pc'[v] \in Holding =>
               /\ pc'[v] = pc[v] /\ cur'[v] = cur[v] /\ ticket'[v] = ticket[v]
               /\ beating'[v] = beating[v]
      PROVE  CustodyInv'
  BY <1>0, <1>1 DEF CustodyInv, HeldInv, ReadInv, Attends
\* A step that rewrites one row which nobody holds and no recovery has read.
<1>2. ASSUME NEW t \in Tasks, NEW r \in Row, task' = [task EXCEPT ![t] = r],
             UNCHANGED workerVars,
             \A w \in Workers : pc[w] \in Holding => cur[w] # t,
             \A w \in Workers : \A s \in scan[w] : s[1] = t =>
               r.status # "succeeded" /\ (r.status = "running" => r.claim = "expired")
      PROVE  CustodyInv'
  <2>1. HeldInv'
    BY <1>0, <1>2 DEF HeldInv, Attends, workerVars, TypeOK
  <2>2. ReadInv'
    BY <1>0, <1>2 DEF ReadInv, workerVars, TypeOK
  <2> QED
    BY <2>1, <2>2 DEF CustodyInv
<1>3. ASSUME NEW p \in Producers, Produce(p) PROVE CustodyInv'
  <2>1. CASE (\E k \in Keys : FindNoActive(p, k)) \/ AbandonEnqueue(p)
    BY <1>1, <2>1 DEF FindNoActive, AbandonEnqueue, workerVars
  <2>2. CASE Insert(p)
    <3>1. PICK t \in Tasks, j \in {"none", "queued"} :
             /\ task[t].status = "absent"
             /\ task' = [task EXCEPT ![t] = Enqueued(want[p], j)]
      BY <2>2 DEF Insert
    <3>2. want[p] \in Keys
      BY <1>0, <2>2 DEF Insert, TypeOK
    <3>6. Enqueued(want[p], j) \in Row /\ Enqueued(want[p], j).status = "pending"
      BY <3>2, EnqueuedRow
    <3>3. PICK r \in Row : task' = [task EXCEPT ![t] = r] /\ r.status = "pending"
      BY <3>1, <3>6
    <3>4. \A w \in Workers : pc[w] \in Holding => cur[w] # t
      BY <3>1 DEF QueueInv, HolderInv, Holding
    <3>5. UNCHANGED workerVars
      BY <2>2 DEF Insert
    <3> QED
      BY <1>2, <3>3, <3>4, <3>5
  <2> QED
    BY <1>3, <2>1, <2>2 DEF Produce
<1>4. ASSUME NEW w \in Workers, Work(w) PROVE CustodyInv'
  <2> DEFINE t == cur[w]
  <2>0. pc[w] \in Holding =>
          /\ t \in Tasks /\ task[t] \in Row
          /\ task[t].status = "running" /\ task[t].owner = w
          /\ task[t].attempts = ticket[w] /\ task[t].claim = "fresh"
          /\ Attends(w)
    BY <1>0 DEF HeldInv
  <2>1. CASE ExitLoop(w)
    BY <1>0, <1>1, <2>1 DEF ExitLoop, Holding, TypeOK
  <2>2. CASE ScanStale(w)
    <3>1. HeldInv'
      BY <1>0, <2>2 DEF ScanStale, HeldInv, Attends, Holding, TypeOK
    <3>2. ReadInv'
      BY <1>0, <2>2 DEF ScanStale, ReadInv, StaleRunning, TypeOK
    <3> QED
      BY <3>1, <3>2 DEF CustodyInv
  <2>3. CASE CommitRecovery(w)
    <3>1. ASSUME NEW v \in Workers, pc[v] \in Holding PROVE task'[cur[v]] = task[cur[v]]
      <4>1. cur[v] \in Tasks /\ \A s \in scan[w] : s[1] # cur[v]
        BY <1>0, <3>1, HeldUnread
      <4> QED
        BY <2>3, <4>1 DEF CommitRecovery
    <3>2. \A v \in Workers : pc'[v] \in Holding => pc'[v] = pc[v]
      BY <1>0, <2>3 DEF CommitRecovery, Holding, TypeOK
    <3>3. UNCHANGED <<cur, ticket, beating>>
      BY <2>3 DEF CommitRecovery
    <3>4. HeldInv'
      BY <1>0, <3>1, <3>2, <3>3 DEF HeldInv, Attends
    <3>5. ASSUME NEW u \in Tasks
          PROVE  \/ task'[u] = task[u]
                 \/ task'[u].status \in {"pending", "failed"}
      <4>1. task[u] \in Row
        BY <1>0 DEF TypeOK
      <4>2. task'[u] \in {task[u], Requeued(task[u]), DeadLettered(task[u])}
        BY <2>3, RecoveryWrites
      <4> QED
        BY <4>1, <4>2, RequeuedRow, DeadLetteredRow
    <3>6. ReadInv'
      BY <1>0, <2>3, <3>5 DEF CommitRecovery, ReadInv, TypeOK
    <3> QED
      BY <3>4, <3>6 DEF CustodyInv
  <2>4. CASE Claim(w)
    <3>1. PICK u \in Claimable :
             /\ task' = [task EXCEPT ![u] = Claimed(@, w)]
             /\ cur' = [cur EXCEPT ![w] = u]
             /\ ticket' = [ticket EXCEPT ![w] = task[u].attempts + 1]
      BY <2>4 DEF Claim
    <3>2. /\ u \in Tasks /\ task[u] \in Row /\ task[u].status = "pending" /\ task[u].available
      BY <1>0 DEF Claimable, TypeOK
    <3>3. /\ task'[u] = Claimed(task[u], w)
          /\ \A x \in Tasks : x # u => task'[x] = task[x]
      BY <1>0, <3>1, <3>2 DEF TypeOK
    <3>4. /\ task'[u].status = "running" /\ task'[u].owner = w /\ task'[u].claim = "fresh"
          /\ task'[u].attempts = task[u].attempts + 1
      BY <3>2, <3>3, ClaimedRow
    <3>5. ASSUME NEW v \in Workers, v # w, pc'[v] \in Holding
          PROVE  /\ pc'[v] = pc[v] /\ cur'[v] = cur[v] /\ ticket'[v] = ticket[v]
                 /\ beating'[v] = beating[v] /\ task'[cur[v]] = task[cur[v]]
      <4>1. pc'[v] = pc[v] /\ cur'[v] = cur[v] /\ ticket'[v] = ticket[v] /\ beating'[v] = beating[v]
        BY <1>0, <2>4, <3>1, <3>5 DEF Claim, TypeOK
      <4>2. cur[v] \in Tasks /\ task[cur[v]].status = "running"
        BY <1>0, <3>5, <4>1 DEF HeldInv
      <4> QED
        BY <3>2, <3>3, <4>1, <4>2
    <3>6. pc'[w] = "loading" /\ cur'[w] = u /\ ticket'[w] = task[u].attempts + 1
      BY <1>0, <2>4, <3>1 DEF Claim, TypeOK
    <3>7. HeldInv'
      BY <1>0, <3>4, <3>5, <3>6 DEF HeldInv, Attends
    <3>8. \A v \in Workers : \A s \in scan[v] : s[1] # u
      BY <3>2 DEF QueueInv, ScanInv
    <3>9. ReadInv'
      BY <1>0, <2>4, <3>3, <3>8 DEF Claim, ReadInv
    <3> QED
      BY <3>7, <3>9 DEF CustodyInv
  <2>5. CASE ClaimNothing(w)
    BY <1>0, <1>1, <2>5 DEF ClaimNothing, Holding, TypeOK
  \* A held row is running and its holder's, so no step of execute_task gives up.
  <2>6. CASE LoadContext(w)
    <3>1. task[t].status = "running"
      BY <2>0, <2>6 DEF LoadContext, Holding
    <3>2. HeldInv' /\ ReadInv'
      BY <1>0, <2>0, <2>6, <3>1 DEF LoadContext, HeldInv, ReadInv, Attends, Holding, TypeOK
    <3> QED
      BY <3>2 DEF CustodyInv
  <2>7. CASE MarkStarted(w)
    <3> DEFINE r == [task[t] EXCEPT !.owner = w, !.job = Report(@, "running")]
    <3>1. pc[w] \in Holding /\ t \in Tasks /\ task[t] \in Row /\ task[t].status = "running"
      BY <2>0, <2>7 DEF MarkStarted, Holding
    <3>2. task' = [task EXCEPT ![t] = r]
      BY <1>0, <2>7, <3>1 DEF MarkStarted, TypeOK
    <3>3. /\ r \in Row /\ r.status = "running" /\ r.owner = w
          /\ r.attempts = ticket[w] /\ r.claim = "fresh"
      BY <2>0, <3>1 DEF Row, Report, JobStatuses
    <3>4. "verifying" \in Holding
      BY DEF Holding
    <3>5. /\ pc' = [pc EXCEPT ![w] = "verifying"] /\ cur' = cur /\ ticket' = ticket
          /\ beating' = beating /\ scan' = scan
      BY <2>7 DEF MarkStarted
    <3> HIDE DEF r
    <3> QED
      BY <3>1, <3>2, <3>3, <3>4, <3>5, HoldingOn
  <2>8. CASE VerifyOwnership(w)
    <3>1. Owns(w, t)
      BY <2>0, <2>8 DEF VerifyOwnership, Holding, Owns
    <3>2. HeldInv' /\ ReadInv'
      BY <1>0, <2>0, <2>8, <3>1 DEF VerifyOwnership, HeldInv, ReadInv, Attends, Holding, TypeOK
    <3> QED
      BY <3>2 DEF CustodyInv
  <2>9. ASSUME NEW o \in JobStatuses, NEW next \in {"succeeding", "failing"},
               pc[w] = "executing",
               task' = [task EXCEPT ![t].job = Report(@, o)],
               pc' = [pc EXCEPT ![w] = next],
               cur' = cur, ticket' = ticket, beating' = beating, scan' = scan,
               next = "succeeding" => o \in {"completed", "completed_with_errors"}
        PROVE  CustodyInv'
    <3> DEFINE r == [task[t] EXCEPT !.job = Report(@, o)]
    <3>1. pc[w] \in Holding /\ t \in Tasks /\ task[t] \in Row
      BY <2>0, <2>9 DEF Holding
    <3>2. task' = [task EXCEPT ![t] = r]
      BY <1>0, <2>9, <3>1 DEF TypeOK
    <3>3. /\ r \in Row /\ r.status = "running" /\ r.owner = w
          /\ r.attempts = ticket[w] /\ r.claim = "fresh"
          /\ next = "succeeding" => r.job \in {"none", "completed", "completed_with_errors"}
      BY <2>0, <2>9, <3>1 DEF Row, Report, JobStatuses
    <3>4. next \in Holding /\ beating[w]
      BY <2>0, <2>9, <3>1 DEF Holding, Attends
    <3> HIDE DEF r
    <3> QED
      BY <2>9, <3>1, <3>2, <3>3, <3>4, HoldingOn
  <2>10. CASE HandlerReturns(w)
    BY <2>9, <2>10 DEF HandlerReturns, JobStatuses
  <2>11. CASE HandlerRaises(w)
    <3>1. task[t].job \in JobStatuses
      BY <2>0, <2>11 DEF HandlerRaises, Holding, Row
    <3> QED
      BY <2>9, <2>11, <3>1 DEF HandlerRaises, JobStatuses
  <2>12. CASE TransactionRaises(w)
    <3>1. HeldInv' /\ ReadInv'
      BY <1>0, <2>0, <2>12 DEF TransactionRaises, HeldInv, ReadInv, Attends, Holding, TypeOK
    <3> QED
      BY <3>1 DEF CustodyInv
  <2>13. CASE MarkSucceeded(w)
    <3> DEFINE r == [task[t] EXCEPT !.status = "succeeded", !.finished = TRUE]
    <3>1. pc[w] \in Holding /\ t \in Tasks /\ task[t] \in Row
      BY <2>0, <2>13 DEF MarkSucceeded, Holding
    <3>2. task' = [task EXCEPT ![t] = r]
      BY <1>0, <2>13, <3>1 DEF MarkSucceeded, TypeOK
    <3>3. r \in Row
      BY <3>1 DEF Row, Statuses
    <3>4. Release(w) /\ scan' = scan
      BY <2>13 DEF MarkSucceeded
    <3> HIDE DEF r
    <3> QED
      BY <3>1, <3>2, <3>3, <3>4, LettingGo
  <2>14. CASE MarkFailed(w)
    <3> DEFINE r == IF task[t].attempts < MaxAttempts THEN Requeued(task[t]) ELSE DeadLettered(task[t])
    <3>1. pc[w] \in Holding /\ t \in Tasks /\ task[t] \in Row
      BY <2>0, <2>14 DEF MarkFailed, Holding
    <3>2. task' = [task EXCEPT ![t] = r]
      BY <1>0, <2>14, <3>1 DEF MarkFailed, TypeOK
    <3>3. r \in Row
      BY <3>1, RequeuedRow, DeadLetteredRow
    <3>4. Release(w) /\ scan' = scan
      BY <2>14 DEF MarkFailed
    <3> HIDE DEF r
    <3> QED
      BY <3>1, <3>2, <3>3, <3>4, LettingGo
  <2> QED
    BY <1>4, <2>1, <2>2, <2>3, <2>4, <2>5, <2>6, <2>7, <2>8, <2>10, <2>11, <2>12, <2>13, <2>14
    DEF Work
\* The heartbeat of a holder finds the row its own and renews the claim.
<1>5. ASSUME NEW w \in Workers, Heartbeat(w) PROVE CustodyInv'
  <2> DEFINE t == cur[w]
             r == [task[t] EXCEPT !.claim = "fresh"]
  <2>1. pc[w] \in Holding
    BY <1>5 DEF Heartbeat, QueueInv, HolderInv, Holding
  <2>2. /\ t \in Tasks /\ task[t] \in Row /\ task[t].status = "running" /\ task[t].owner = w
        /\ task[t].claim = "fresh"
    BY <1>0, <2>1 DEF HeldInv
  <2>3. task' = [task EXCEPT ![t] = r]
    BY <1>0, <1>5, <2>2 DEF Heartbeat, TypeOK
  <2>4. r = task[t]
    BY <2>2 DEF Row
  <2>5. task' = task
    BY <1>0, <2>2, <2>3, <2>4 DEF TypeOK
  <2> QED
    BY <1>1, <1>5, <2>2, <2>5 DEF Heartbeat
<1>6. ASSUME NEW w \in Workers, Stop(w) \/ Crash(w) \/ Restart(w) PROVE CustodyInv'
  <2>1. CASE Stop(w)
    BY <1>1, <2>1 DEF Stop
  <2>2. CASE Crash(w)
    BY <1>0, <2>2 DEF Crash, CustodyInv, HeldInv, ReadInv, Attends, Holding, TypeOK
  <2>3. CASE Restart(w)
    BY <1>0, <1>1, <2>3 DEF Restart, Holding, TypeOK
  <2> QED
    BY <1>6, <2>1, <2>2, <2>3
\* Timely: only a claim without a live holder expires.
<1>7. ASSUME NEW t \in Tasks, Expire(t) PROVE CustodyInv'
  <2> DEFINE r == [task[t] EXCEPT !.claim = "expired"]
  <2>1. task' = [task EXCEPT ![t] = r] /\ task[t].status = "running" /\ task[t] \in Row
    BY <1>0, <1>7 DEF Expire, TypeOK
  <2>2. r \in Row /\ r.status = "running" /\ r.claim = "expired"
    BY <2>1 DEF Row
  <2>3. \A w \in Workers : pc[w] \in Holding => cur[w] # t
    BY <1>0, <1>7 DEF Expire, HeldInv
  <2>4. UNCHANGED workerVars
    BY <1>7 DEF Expire
  <2> HIDE DEF r
  <2> QED
    BY <1>2, <2>1, <2>2, <2>3, <2>4
<1>8. ASSUME NEW t \in Tasks, CooldownElapses(t) PROVE CustodyInv'
  <2> DEFINE r == [task[t] EXCEPT !.available = TRUE]
  <2>1. task' = [task EXCEPT ![t] = r] /\ task[t].status = "pending" /\ task[t] \in Row
    BY <1>0, <1>8 DEF CooldownElapses, TypeOK
  <2>2. r \in Row /\ r.status = "pending"
    BY <2>1 DEF Row
  <2>3. \A w \in Workers : pc[w] \in Holding => cur[w] # t
    BY <1>0, <2>1 DEF HeldInv
  <2>4. UNCHANGED workerVars
    BY <1>8 DEF CooldownElapses
  <2> HIDE DEF r
  <2> QED
    BY <1>2, <2>1, <2>2, <2>3, <2>4
<1>9. CASE UNCHANGED vars
  BY <1>1, <1>9 DEF vars, workerVars
<1> QED
  BY <1>3, <1>4, <1>5, <1>6, <1>7, <1>8, <1>9 DEF Next
THEOREM CustodyInvariant ==
  ASSUME Timely PROVE Spec => []CustodyInv
<1>1. Init => CustodyInv
  BY CustodyInit
<1>2. QueueInv /\ CustodyInv /\ [Next]_vars => CustodyInv'
  BY CustodyStep
<1> QED
  BY <1>1, <1>2, QueueInvariant, PTL DEF Spec

\* While heartbeats keep live claims, no two workers are between the claim and
\* the report of one task, whatever crashes, restarts and recoveries happen.
THEOREM TasksAreExclusive ==
  ASSUME Timely PROVE Spec => []Exclusive
<1>1. CustodyInv => Exclusive
  BY DEF CustodyInv, HeldInv, Exclusive, Holds
<1> QED
  BY <1>1, CustodyInvariant, PTL

\* Nor does a recovery take a live worker's claim away.
THEOREM ClaimsAreKept ==
  ASSUME Timely PROVE Spec => []ClaimKept
<1>1. CustodyInv => ClaimKept
  BY DEF CustodyInv, HeldInv, ClaimKept
<1> QED
  BY <1>1, CustodyInvariant, PTL

-----------------------------------------------------------------------------
(* How one step may change one row, with Timely *)

\* Seen from one row, a step changes nothing a user sees, inserts it, claims it,
\* reports on its job, ends it, gives it back or buries it.
LEMMA RowStep ==
  ASSUME Timely, QueueInv, CustodyInv, [Next]_vars, NEW t \in Tasks
  PROVE  \/ /\ task'[t].status = task[t].status /\ task'[t].job = task[t].job
            /\ task'[t].attempts = task[t].attempts /\ task'[t].key = task[t].key
         \/ /\ task[t].status = "absent" /\ task'[t].status = "pending"
            /\ task'[t].attempts = task[t].attempts /\ task'[t].job \in {"none", "queued"}
            /\ \E p \in Producers : Insert(p) /\ want[p] = task'[t].key
         \/ /\ task[t].status = "pending" /\ task'[t].status = "running"
            /\ task'[t].attempts = task[t].attempts + 1 /\ task'[t].key = task[t].key
            /\ \E w \in Workers : Claim(w) /\ cur'[w] = t
         \/ /\ task[t].status = "running" /\ task'[t].status = "running"
            /\ task'[t].attempts = task[t].attempts /\ task'[t].key = task[t].key
         \/ /\ task[t].status = "running" /\ task'[t].status = "succeeded"
            /\ task'[t].attempts = task[t].attempts /\ task'[t].key = task[t].key
            /\ task'[t].job \in {"none", "completed", "completed_with_errors"}
            /\ \E w \in Workers : MarkSucceeded(w) /\ cur[w] = t
         \/ /\ task[t].status \in {"running", "pending"} /\ task[t].attempts < MaxAttempts
            /\ task'[t] = Requeued(task[t])
         \/ /\ task[t].status \in {"running", "failed"} /\ task[t].attempts = MaxAttempts
            /\ task'[t] = DeadLettered(task[t])
<1> DEFINE Same == /\ task'[t].status = task[t].status /\ task'[t].job = task[t].job
                   /\ task'[t].attempts = task[t].attempts /\ task'[t].key = task[t].key
           GiveBack == /\ task[t].status \in {"running", "pending"}
                       /\ task[t].attempts < MaxAttempts
                       /\ task'[t] = Requeued(task[t])
           Bury == /\ task[t].status \in {"running", "failed"}
                   /\ task[t].attempts = MaxAttempts
                   /\ task'[t] = DeadLettered(task[t])
<1>0. /\ TypeOK /\ HeldInv /\ ReadInv /\ RowInv
      /\ task[t] \in Row /\ task[t].attempts \in Nat /\ task[t].attempts <= MaxAttempts
      /\ \A w \in Workers : pc[w] \in Holding =>
            cur[w] \in Tasks /\ task[cur[w]] \in Row /\ task[cur[w]].status = "running"
      /\ task[t].status \in Statuses
  BY AbsentValues DEF QueueInv, CustodyInv, TypeOK, HolderInv, RowInv, Row, HeldInv
<1>1. ASSUME NEW p \in Producers, Produce(p)
      PROVE  \/ Same
             \/ /\ task[t].status = "absent" /\ task'[t].status = "pending"
                /\ task'[t].attempts = task[t].attempts /\ task'[t].job \in {"none", "queued"}
                /\ Insert(p) /\ want[p] = task'[t].key
  <2>1. CASE (\E k \in Keys : FindNoActive(p, k)) \/ AbandonEnqueue(p)
    BY <2>1 DEF FindNoActive, AbandonEnqueue
  <2>2. CASE Insert(p)
    <3>1. PICK u \in Tasks, j \in {"none", "queued"} :
             /\ task[u].status = "absent"
             /\ task' = [task EXCEPT ![u] = Enqueued(want[p], j)]
      BY <2>2 DEF Insert
    <3>2. want[p] \in Keys
      BY <1>0, <2>2 DEF Insert, TypeOK
    <3>3. CASE u = t
      <4>1. task'[t] = Enqueued(want[p], j)
        BY <1>0, <3>1, <3>3 DEF TypeOK
      <4>2. task[t].attempts = 0
        BY <1>0, <3>1, <3>3 DEF RowInv
      <4> QED
        BY <2>2, <3>1, <3>2, <3>3, <4>1, <4>2, EnqueuedRow
    <3>4. CASE u # t
      BY <1>0, <3>1, <3>4 DEF TypeOK
    <3> QED
      BY <3>3, <3>4
  <2> QED
    BY <1>1, <2>1, <2>2 DEF Produce
<1>2. ASSUME NEW w \in Workers, CommitRecovery(w) PROVE Same \/ GiveBack \/ Bury
  <2>1. CASE \A s \in scan[w] : s[1] # t
    BY <1>2, <2>1, RecoveryWrites
  <2>2. CASE <<t, task[t].attempts>> \in scan[w]
    <3>1. task[t].status # "succeeded" /\ task[t].status # "absent"
      BY <1>0, <2>2 DEF ReadInv, QueueInv, ScanInv
    <3>2. CASE task[t].attempts < MaxAttempts
      <4>1. task'[t] = Requeued(task[t])
        BY <1>2, <2>2, <3>2, RecoveryWrites
      <4>2. task[t].status # "failed"
        BY <1>0, <3>2, MaxAttemptsPositive DEF RowInv
      <4> QED
        BY <1>0, <3>1, <3>2, <4>1, <4>2 DEF Statuses
    <3>3. CASE ~(task[t].attempts < MaxAttempts)
      <4>1. task'[t] = DeadLettered(task[t]) /\ task[t].attempts = MaxAttempts
        BY <1>2, <2>2, <3>3, RecoveryWrites
      <4>2. task[t].status # "pending"
        BY <1>0, <3>3 DEF RowInv
      <4> QED
        BY <1>0, <3>1, <4>1, <4>2 DEF Statuses
    <3> QED
      BY <3>2, <3>3
  <2> QED
    BY <1>2, <2>1, <2>2, RecoveryWrites
<1>3. ASSUME NEW w \in Workers, Claim(w)
      PROVE  \/ Same
             \/ /\ task[t].status = "pending" /\ task'[t].status = "running"
                /\ task'[t].attempts = task[t].attempts + 1 /\ task'[t].key = task[t].key
                /\ cur'[w] = t
  <2>1. PICK u \in Claimable : task' = [task EXCEPT ![u] = Claimed(@, w)] /\ cur'[w] = u
    BY <1>0, <1>3 DEF Claim, TypeOK
  <2>2. CASE u = t
    <3>1. task[t].status = "pending" /\ task'[t] = Claimed(task[t], w)
      BY <1>0, <2>1, <2>2 DEF Claimable, TypeOK
    <3> QED
      BY <1>0, <2>1, <2>2, <3>1, ClaimedRow
  <2>3. CASE u # t
    BY <1>0, <2>1, <2>3 DEF TypeOK
  <2> QED
    BY <2>2, <2>3
<1>4. ASSUME NEW w \in Workers, MarkStarted(w) \/ HandlerReturns(w) \/ HandlerRaises(w)
      PROVE  \/ Same
             \/ /\ task[t].status = "running" /\ task'[t].status = "running"
                /\ task'[t].attempts = task[t].attempts /\ task'[t].key = task[t].key
  BY <1>0, <1>4 DEF MarkStarted, HandlerReturns, HandlerRaises, Holding, TypeOK, Row
<1>5. ASSUME NEW w \in Workers, MarkSucceeded(w)
      PROVE  \/ Same
             \/ /\ task[t].status = "running" /\ task'[t].status = "succeeded"
                /\ task'[t].attempts = task[t].attempts /\ task'[t].key = task[t].key
                /\ task'[t].job \in {"none", "completed", "completed_with_errors"}
                /\ cur[w] = t
  <2>1. CASE cur[w] = t
    <3>1. task[t].job \in {"none", "completed", "completed_with_errors"}
      BY <1>0, <1>5, <2>1 DEF MarkSucceeded, HeldInv, Holding
    <3> QED
      BY <1>0, <1>5, <2>1, <3>1 DEF MarkSucceeded, Holding, TypeOK, Row
  <2>2. CASE cur[w] # t
    BY <1>0, <1>5, <2>2 DEF MarkSucceeded, TypeOK
  <2> QED
    BY <2>1, <2>2
<1>6. ASSUME NEW w \in Workers, MarkFailed(w) PROVE Same \/ GiveBack \/ Bury
  <2>1. CASE cur[w] = t
    <3>1. task[t].status = "running"
      BY <1>0, <1>6, <2>1 DEF MarkFailed, Holding
    <3>2. task'[t] = IF task[t].attempts < MaxAttempts
                       THEN Requeued(task[t]) ELSE DeadLettered(task[t])
      BY <1>0, <1>6, <2>1 DEF MarkFailed, TypeOK
    <3>3. task[t].attempts < MaxAttempts \/ task[t].attempts = MaxAttempts
      BY <1>0, MaxAttemptsPositive
    <3> QED
      BY <3>1, <3>2, <3>3, MaxAttemptsPositive
  <2>2. CASE cur[w] # t
    BY <1>0, <1>6, <2>2 DEF MarkFailed, TypeOK
  <2> QED
    BY <2>1, <2>2
<1>7. ASSUME NEW w \in Workers,
             \/ ExitLoop(w) \/ ScanStale(w) \/ ClaimNothing(w) \/ LoadContext(w)
             \/ VerifyOwnership(w) \/ TransactionRaises(w)
             \/ Stop(w) \/ Crash(w) \/ Restart(w)
      PROVE  Same
  BY <1>7 DEF ExitLoop, ScanStale, ClaimNothing, LoadContext, VerifyOwnership,
              TransactionRaises, Stop, Crash, Restart
<1>8. ASSUME NEW w \in Workers, Heartbeat(w) PROVE Same
  BY <1>0, <1>8 DEF Heartbeat, TypeOK, Row
<1>9. ASSUME NEW u \in Tasks, Expire(u) \/ CooldownElapses(u) PROVE Same
  <2>1. CASE Expire(u)
    BY <1>0, <2>1 DEF Expire, TypeOK, Row
  <2>2. CASE CooldownElapses(u)
    BY <1>0, <2>2 DEF CooldownElapses, TypeOK, Row
  <2> QED
    BY <1>9, <2>1, <2>2
<1>10. CASE UNCHANGED vars
  BY <1>10 DEF vars
<1>11. CASE Next
  <2>1. CASE \E p \in Producers : Produce(p)
    BY <1>1, <2>1
  <2>2. ASSUME NEW w \in Workers, Work(w) PROVE
          \/ CommitRecovery(w) \/ Claim(w) \/ MarkSucceeded(w) \/ MarkFailed(w)
          \/ MarkStarted(w) \/ HandlerReturns(w) \/ HandlerRaises(w)
          \/ ExitLoop(w) \/ ScanStale(w) \/ ClaimNothing(w) \/ LoadContext(w)
          \/ VerifyOwnership(w) \/ TransactionRaises(w)
    BY <2>2 DEF Work
  <2>3. CASE \E w \in Workers : Work(w) \/ Heartbeat(w) \/ Stop(w) \/ Crash(w) \/ Restart(w)
    BY <1>2, <1>3, <1>4, <1>5, <1>6, <1>7, <1>8, <2>2, <2>3
  <2>4. CASE \E u \in Tasks : Expire(u) \/ CooldownElapses(u)
    BY <1>9, <2>4
  <2> QED
    BY <1>11, <2>1, <2>3, <2>4 DEF Next
<1> QED
  BY <1>10, <1>11
-----------------------------------------------------------------------------
(* Jobs and finished tasks, with Timely *)

LEMMA JobAgreesStep ==
  ASSUME Timely PROVE QueueInv /\ CustodyInv /\ JobAgrees /\ [Next]_vars => JobAgrees'
<1> SUFFICES ASSUME QueueInv, CustodyInv, JobAgrees, [Next]_vars,
                    NEW t \in Tasks, task'[t].job # "none"
             PROVE  CASE task'[t].status = "pending"   -> task'[t].job = "queued"
                      [] task'[t].status = "failed"    -> task'[t].job = "completed_with_errors"
                      [] task'[t].status = "succeeded" ->
                           task'[t].job \in {"completed", "completed_with_errors"}
                      [] OTHER -> TRUE
  BY DEF JobAgrees
<1>1. task[t] \in Row
  BY DEF QueueInv, TypeOK
<1>2. CASE task'[t].status = task[t].status /\ task'[t].job = task[t].job
  BY <1>2 DEF JobAgrees
<1>3. CASE task'[t].status = "pending" /\ task'[t].job \in {"none", "queued"}
  BY <1>3
<1>4. CASE task'[t].status = "running"
  BY <1>4
<1>5. CASE /\ task'[t].status = "succeeded"
           /\ task'[t].job \in {"none", "completed", "completed_with_errors"}
  BY <1>5
<1>6. CASE task'[t] = Requeued(task[t])
  BY <1>1, <1>6, RequeuedRow
<1>7. CASE task'[t] = DeadLettered(task[t])
  BY <1>1, <1>7, DeadLetteredRow
<1> QED
  BY <1>2, <1>3, <1>4, <1>5, <1>6, <1>7, RowStep

\* While heartbeats keep live claims, the sync job a user watches agrees with its
\* task after every transaction.
THEOREM JobsAgree ==
  ASSUME Timely PROVE Spec => []JobAgrees
<1>1. Init => JobAgrees
  BY DEF Init, AbsentRow, JobAgrees
<1>2. QueueInv /\ CustodyInv /\ JobAgrees /\ [Next]_vars => JobAgrees'
  BY JobAgreesStep
<1> QED
  BY <1>1, <1>2, QueueInvariant, CustodyInvariant, PTL DEF Spec

LEMMA TerminalStep ==
  ASSUME Timely, QueueInv, CustodyInv, JobAgrees, [Next]_vars,
         NEW t \in Tasks, Terminal(task[t].status)
  PROVE  task'[t].status = task[t].status /\ task'[t].job = task[t].job
<1>1. task[t] \in Row /\ task[t].status \in {"succeeded", "failed"}
  BY DEF QueueInv, TypeOK, Terminal
<1>2. CASE task'[t].status = task[t].status /\ task'[t].job = task[t].job
  BY <1>2
<1>3. CASE task[t].status = "failed" /\ task'[t] = DeadLettered(task[t])
  <2>1. task'[t].job = Report(task[t].job, "completed_with_errors")
    BY <1>1, <1>3 DEF DeadLettered, Row
  <2>2. task[t].job \in {"none", "completed_with_errors"}
    BY <1>3 DEF JobAgrees
  <2> QED
    BY <1>1, <1>3, <2>1, <2>2, DeadLetteredRow DEF Report
<1> QED
  BY <1>1, <1>2, <1>3, RowStep

\* While heartbeats keep live claims, a finished task and its job's outcome never
\* change: no recovery or report of another worker reaches them.
THEOREM TerminalTasksAreFinal ==
  ASSUME Timely PROVE Spec => TerminalIsFinal
<1>1. QueueInv /\ CustodyInv /\ JobAgrees /\ [Next]_vars =>
        [\A t \in Tasks : Terminal(task[t].status) =>
           task'[t].status = task[t].status /\ task'[t].job = task[t].job]_vars
  BY TerminalStep
<1> QED
  BY <1>1, QueueInvariant, CustodyInvariant, JobsAgree, PTL DEF Spec, TerminalIsFinal
-----------------------------------------------------------------------------
(* Deduplication, with Timely: how many duplicates overlapping enqueues can make, and that
   nothing but an overlap makes one. *)

\* No step but an insert makes a task active, or changes the key of one that is.
LEMMA OnlyInsertsActivate ==
  ASSUME Timely, QueueInv, CustodyInv, [Next]_vars, \A p \in Producers : ~Insert(p),
         NEW t \in Active'
  PROVE  t \in Active /\ task'[t].key = task[t].key
<1>1. t \in Tasks /\ task'[t].status \in {"pending", "running"} /\ task[t] \in Row
  BY DEF Active, QueueInv, TypeOK
<1>2. CASE task'[t] = Requeued(task[t]) /\ task[t].status \in {"running", "pending"}
  BY <1>1, <1>2, RequeuedRow DEF Active
<1>3. task'[t] # DeadLettered(task[t])
  BY <1>1, DeadLetteredRow
<1> QED
  BY <1>1, <1>2, <1>3, RowStep DEF Active

\* What an insert does: its producer is done, and one task with the key it wanted is active.
LEMMA InsertActivates ==
  ASSUME TypeOK, NEW p \in Producers, Insert(p)
  PROVE  /\ want[p] \in Keys /\ want[p] # NoKey
         /\ want' = [want EXCEPT ![p] = NoKey]
         /\ \E t \in Tasks : /\ task'[t].key = want[p]
                             /\ \A u \in Tasks : u # t => task'[u] = task[u]
<1>1. PICK t \in Tasks, j \in {"none", "queued"} :
         task' = [task EXCEPT ![t] = Enqueued(want[p], j)]
  BY DEF Insert
<1>2. want[p] \in Keys /\ want[p] # NoKey /\ want' = [want EXCEPT ![p] = NoKey]
  BY DEF Insert, TypeOK
<1>3. task'[t].key = want[p] /\ \A u \in Tasks : u # t => task'[u] = task[u]
  BY <1>1, <1>2, EnqueuedRow DEF TypeOK
<1> QED
  BY <1>2, <1>3

\* Only a look-up that finds no active task adds to the enqueues under way.
LEMMA OnlyLookupsEnqueue ==
  ASSUME TypeOK, [Next]_vars, \A p \in Producers : ~Insert(p),
         NEW p \in Producers, want'[p] # NoKey
  PROVE  want'[p] = want[p] \/ (want'[p] \in Keys /\ ActiveWith(want'[p]) = {})
<1>1. CASE \E q \in Producers, k \in Keys : FindNoActive(q, k)
  BY <1>1 DEF FindNoActive, TypeOK
<1>2. CASE \E q \in Producers : AbandonEnqueue(q)
  BY <1>2 DEF AbandonEnqueue, TypeOK
<1>3. CASE UNCHANGED want
  BY <1>3
<1>4. \/ \E q \in Producers, k \in Keys : FindNoActive(q, k)
      \/ \E q \in Producers : AbandonEnqueue(q)
      \/ UNCHANGED want
  BY DEF Next, Produce, Work, ExitLoop, ScanStale, CommitRecovery, Claim,
     ClaimNothing, LoadContext, MarkStarted, VerifyOwnership, HandlerReturns,
     HandlerRaises, TransactionRaises, MarkSucceeded, MarkFailed, Heartbeat, Stop,
     Crash, Restart, Expire, CooldownElapses, vars, producerVars
<1> QED
  BY <1>1, <1>2, <1>3, <1>4

\* The active tasks of a key are finitely many, so that they can be counted.
DedupeInv == DuplicatesBounded /\ \A k \in Keys : IsFiniteSet(ActiveWith(k))

\* The count of a key, as the two sets change.
LEMMA CountShrinks ==
  ASSUME NEW A, NEW B, NEW C, NEW D, IsFiniteSet(A), IsFiniteSet(C), B \subseteq A, D \subseteq C,
         Cardinality(A) + Cardinality(C) <= Cardinality(Producers)
  PROVE  Cardinality(B) + Cardinality(D) <= Cardinality(Producers)
<1>1. Cardinality(B) <= Cardinality(A) /\ Cardinality(D) <= Cardinality(C)
  BY FS_Subset
<1>2. IsFiniteSet(B) /\ IsFiniteSet(D)
  BY FS_Subset
<1>3. /\ Cardinality(A) \in Nat /\ Cardinality(B) \in Nat /\ Cardinality(C) \in Nat
      /\ Cardinality(D) \in Nat /\ Cardinality(Producers) \in Nat
  BY <1>2, ProducersAreFinite, FS_CardinalityType
<1> QED
  BY <1>1, <1>3

LEMMA CountMoves ==
  ASSUME NEW A, NEW B, NEW C, NEW D, NEW t, NEW p, IsFiniteSet(A), IsFiniteSet(C),
         B \subseteq A \union {t}, p \in C, D \subseteq C \ {p},
         Cardinality(A) + Cardinality(C) <= Cardinality(Producers)
  PROVE  Cardinality(B) + Cardinality(D) <= Cardinality(Producers)
<1>1. IsFiniteSet(A \union {t}) /\ Cardinality(A \union {t}) <= Cardinality(A) + 1
  <2> DEFINE U == A \union {t}
  <2>1. Cardinality(A) \in Nat
    BY FS_CardinalityType
  <2>2. IsFiniteSet(U) /\ (Cardinality(U) = Cardinality(A) \/ Cardinality(U) = Cardinality(A) + 1)
    BY FS_AddElement
  <2> HIDE DEF U
  <2>3. IsFiniteSet(U) /\ Cardinality(U) <= Cardinality(A) + 1
    BY <2>1, <2>2
  <2> QED
    BY <2>3 DEF U
<1>2. IsFiniteSet(C \ {p}) /\ Cardinality(C \ {p}) = Cardinality(C) - 1
  BY FS_RemoveElement
<1>3. /\ IsFiniteSet(B) /\ Cardinality(B) <= Cardinality(A \union {t})
      /\ IsFiniteSet(D) /\ Cardinality(D) <= Cardinality(C \ {p})
  BY <1>1, <1>2, FS_Subset
<1>4. /\ Cardinality(A) \in Nat /\ Cardinality(B) \in Nat /\ Cardinality(C) \in Nat
      /\ Cardinality(D) \in Nat /\ Cardinality(Producers) \in Nat
      /\ Cardinality(A \union {t}) \in Nat
  BY <1>1, <1>3, ProducersAreFinite, FS_CardinalityType
<1> QED
  BY <1>1, <1>2, <1>3, <1>4

LEMMA EnqueuingIsFinite == \A k : IsFiniteSet(Enqueuing(k)) /\ Enqueuing(k) \subseteq Producers
<1> TAKE k
<1>1. Enqueuing(k) \subseteq Producers
  BY DEF Enqueuing
<1> QED
  BY <1>1, ProducersAreFinite, FS_Subset

LEMMA CountStep ==
  ASSUME Timely, QueueInv, CustodyInv, DedupeInv, [Next]_vars
  PROVE  DedupeInv'
<1>0. TypeOK
  BY DEF QueueInv
<1> SUFFICES ASSUME NEW k \in Keys
             PROVE  /\ IsFiniteSet(ActiveWith(k)')
                    /\ Cardinality(ActiveWith(k)') + Cardinality(Enqueuing(k)') <= Cardinality(Producers)
  BY DEF DedupeInv, DuplicatesBounded
<1> DEFINE A == ActiveWith(k)
           B == ActiveWith(k)'
           C == Enqueuing(k)
           D == Enqueuing(k)'
<1>1. IsFiniteSet(A) /\ Cardinality(A) + Cardinality(C) <= Cardinality(Producers)
  BY DEF DedupeInv, DuplicatesBounded
<1>2. IsFiniteSet(C) /\ IsFiniteSet(D) /\ D \subseteq Producers
  <2>1. IsFiniteSet(C)
    BY EnqueuingIsFinite
  <2>2. D \subseteq Producers
    BY DEF Enqueuing
  <2> HIDE DEF D
  <2> QED
    BY <2>1, <2>2, ProducersAreFinite, FS_Subset
<1>3. CASE \E p \in Producers : Insert(p)
  <2>1. PICK p \in Producers : Insert(p)
    BY <1>3
  <2>2. want[p] # NoKey /\ want' = [want EXCEPT ![p] = NoKey]
    BY <1>0, <2>1, InsertActivates
  <2>3. PICK t \in Tasks : task'[t].key = want[p] /\ \A u \in Tasks : u # t => task'[u] = task[u]
    BY <1>0, <2>1, InsertActivates
  <2>4. CASE want[p] = k
    <3>1. B \subseteq A \union {t}
      BY <2>3 DEF ActiveWith, Active
    <3>2. p \in C /\ D \subseteq C \ {p}
      BY <1>0, <2>2, <2>4, AbsentValues DEF Enqueuing, TypeOK
    <3> HIDE DEF A, B, C, D
    <3>3. Cardinality(B) + Cardinality(D) <= Cardinality(Producers)
      BY <1>1, <1>2, <3>1, <3>2, CountMoves
    <3>4. IsFiniteSet(A \union {t})
      BY <1>1, FS_AddElement
    <3>5. IsFiniteSet(B)
      BY <3>1, <3>4, FS_Subset
    <3> QED
      BY <3>3, <3>5 DEF B, D
  <2>5. CASE want[p] # k
    <3>1. B \subseteq A
      BY <2>3, <2>5 DEF ActiveWith, Active
    <3>2. D \subseteq C
      BY <1>0, <2>2, AbsentValues DEF Enqueuing, TypeOK
    <3> HIDE DEF A, B, C, D
    <3>3. Cardinality(B) + Cardinality(D) <= Cardinality(Producers) /\ IsFiniteSet(B)
      BY <1>1, <1>2, <3>1, <3>2, CountShrinks, FS_Subset
    <3> QED
      BY <3>3 DEF B, D
  <2> QED
    BY <2>4, <2>5
<1>4. CASE \A p \in Producers : ~Insert(p)
  <2>1. B \subseteq A
    BY <1>4, OnlyInsertsActivate DEF ActiveWith
  <2>2. CASE A = {}
    <3>1. B = {}
      BY <2>1, <2>2
    <3> HIDE DEF A, B, C, D
    <3>2. IsFiniteSet(B) /\ Cardinality(B) = 0
      BY <3>1, FS_EmptySet
    <3>3. Cardinality(D) <= Cardinality(Producers) /\ Cardinality(D) \in Nat
      BY <1>2, ProducersAreFinite, FS_Subset, FS_CardinalityType
    <3> QED
      BY <3>2, <3>3 DEF B, D
  <2>3. CASE A # {}
    <3>1. ASSUME NEW p \in D PROVE p \in C
      <4>1. p \in Producers /\ want'[p] = k /\ k # NoKey
        BY <3>1, AbsentValues DEF Enqueuing
      <4> QED
        BY <1>0, <1>4, <2>3, <4>1, OnlyLookupsEnqueue DEF Enqueuing
    <3>2. D \subseteq C
      BY <3>1
    <3> HIDE DEF A, B, C, D
    <3>3. Cardinality(B) + Cardinality(D) <= Cardinality(Producers) /\ IsFiniteSet(B)
      BY <1>1, <1>2, <2>1, <3>2, CountShrinks, FS_Subset
    <3> QED
      BY <3>3 DEF B, D
  <2> QED
    BY <2>2, <2>3
<1> QED
  BY <1>3, <1>4

\* However many enqueues of a key overlap, it has no more active tasks than producers, through
\* retries and recoveries, and an enqueue that looks when there is one adds none.
THEOREM DuplicatesAreBounded ==
  ASSUME Timely PROVE Spec => []DuplicatesBounded
<1>1. Init => DedupeInv
  <2> SUFFICES ASSUME Init, NEW k \in Keys
               PROVE  /\ IsFiniteSet(ActiveWith(k))
                      /\ Cardinality(ActiveWith(k)) + Cardinality(Enqueuing(k)) <= Cardinality(Producers)
    BY DEF DedupeInv, DuplicatesBounded
  <2>1. ActiveWith(k) = {} /\ Enqueuing(k) = {}
    BY AbsentValues DEF Init, AbsentRow, ActiveWith, Active, Enqueuing
  <2> QED
    BY <2>1, ProducersAreFinite, FS_EmptySet, FS_CardinalityType
<1>2. QueueInv /\ CustodyInv /\ DedupeInv /\ [Next]_vars => DedupeInv'
  BY CountStep
<1>3. DedupeInv => DuplicatesBounded
  BY DEF DedupeInv
<1> QED
  BY <1>1, <1>2, <1>3, QueueInvariant, CustodyInvariant, PTL DEF Spec

\* What a producer found inactive is still inactive when it inserts.
WantInv ==
  \A p \in Producers : want[p] # NoKey => \A t \in Active : task[t].key # want[p]

LEMMA DedupeStep ==
  ASSUME Timely, QueueInv, CustodyInv, KeysApart, OneActivePerKey, WantInv, [Next]_vars
  PROVE  OneActivePerKey' /\ WantInv'
<1>0. TypeOK
  BY DEF QueueInv
<1>1. CASE \E p \in Producers : Insert(p)
  <2>1. PICK p \in Producers : Insert(p)
    BY <1>1
  <2>2. want[p] \in Keys /\ want[p] # NoKey /\ want' = [want EXCEPT ![p] = NoKey]
    BY <1>0, <2>1, InsertActivates
  <2>3. PICK t \in Tasks : task'[t].key = want[p] /\ \A u \in Tasks : u # t => task'[u] = task[u]
    BY <1>0, <2>1, InsertActivates
  <2>4. ASSUME NEW u \in Active', u # t
        PROVE  u \in Active /\ task'[u].key = task[u].key /\ task[u].key # want[p]
    BY <2>2, <2>3, <2>4 DEF Active, WantInv
  <2>5. OneActivePerKey'
    BY <2>3, <2>4 DEF OneActivePerKey
  <2>6. ASSUME NEW q \in Producers, want'[q] # NoKey, NEW u \in Active'
        PROVE  task'[u].key # want'[q]
    <3>1. want'[q] = want[q] /\ q # p
      BY <1>0, <2>2, <2>6 DEF TypeOK
    <3>2. want[q] # want[p]
      BY <2>2, <3>1 DEF KeysApart
    <3> QED
      BY <2>3, <2>4, <2>6, <3>1, <3>2 DEF WantInv
  <2>7. WantInv'
    BY <2>6 DEF WantInv
  <2> QED
    BY <2>5, <2>7
<1>2. CASE \A p \in Producers : ~Insert(p)
  <2>1. \A t \in Active' : t \in Active /\ task'[t].key = task[t].key
    BY <1>2, OnlyInsertsActivate
  <2>2. OneActivePerKey'
    BY <2>1 DEF OneActivePerKey
  <2>3. ASSUME NEW p \in Producers, want'[p] # NoKey
        PROVE  \A t \in Active : task[t].key # want'[p]
    BY <1>0, <1>2, <2>3, OnlyLookupsEnqueue DEF WantInv, ActiveWith
  <2>4. WantInv'
    BY <2>1, <2>3 DEF WantInv
  <2> QED
    BY <2>2, <2>4
<1> QED
  BY <1>1, <1>2

\* Nothing but an overlap makes a duplicate: in a behaviour in which no two enqueues of one key
\* are ever under way at once, whatever else overlaps, the key does what the documentation
\* says of it.
THEOREM OnlyOverlapDuplicates ==
  ASSUME Timely PROVE Spec /\ []KeysApart => []OneActivePerKey
<1>1. Init => OneActivePerKey /\ WantInv
  BY DEF Init, AbsentRow, OneActivePerKey, WantInv, Active
<1>2. QueueInv /\ CustodyInv /\ KeysApart /\ OneActivePerKey /\ WantInv /\ [Next]_vars
        => OneActivePerKey' /\ WantInv'
  BY DedupeStep
<1> QED
  BY <1>1, <1>2, QueueInvariant, CustodyInvariant, PTL DEF Spec

-----------------------------------------------------------------------------
(* With Timely, every behaviour of TaskQueue is one of TaskContract. *)

LEMMA HolderIs ==
  ASSUME CustodyInv, NEW w \in Workers, NEW t \in Tasks, Holds(w, t)
  PROVE  Holder(t) = w
BY HeldAlone DEF Holder, Holds

LEMMA NobodyHolds ==
  ASSUME NEW t \in Tasks, \A w \in Workers : ~Holds(w, t)
  PROVE  Holder(t) = NoWorker
BY DEF Holder

\* Only a claim makes a worker a holder.
LEMMA NewHolder ==
  ASSUME QueueInv, CustodyInv, [Next]_vars, NEW v \in Workers, NEW t \in Tasks, Holds(v, t)'
  PROVE  Holds(v, t) \/ (Claim(v) /\ cur'[v] = t)
<1>0. TypeOK
  BY DEF QueueInv
<1>1. ASSUME NEW w \in Workers, Work(w) PROVE Holds(v, t) \/ (Claim(v) /\ cur'[v] = t)
  <2>1. CASE Claim(w)
    BY <1>0, <2>1 DEF Claim, Holds, Holding, TypeOK
  <2>2. CASE LoadContext(w)
    BY <1>0, <2>2 DEF LoadContext, Release, Holds, Holding, TypeOK
  <2>3. CASE VerifyOwnership(w)
    BY <1>0, <2>3 DEF VerifyOwnership, Release, Holds, Holding, TypeOK
  <2>4. CASE MarkSucceeded(w) \/ MarkFailed(w)
    BY <1>0, <2>4 DEF MarkSucceeded, MarkFailed, Release, Holds, Holding, TypeOK
  <2>5. CASE MarkStarted(w) \/ HandlerReturns(w) \/ HandlerRaises(w) \/ TransactionRaises(w)
    BY <1>0, <2>5
    DEF MarkStarted, HandlerReturns, HandlerRaises, TransactionRaises, Holds, Holding, TypeOK
  <2>6. CASE ExitLoop(w) \/ ScanStale(w) \/ CommitRecovery(w) \/ ClaimNothing(w)
    BY <1>0, <2>6 DEF ExitLoop, ScanStale, CommitRecovery, ClaimNothing, Holds, Holding, TypeOK
  <2> QED
    BY <1>1, <2>1, <2>2, <2>3, <2>4, <2>5, <2>6 DEF Work
<1>2. ASSUME NEW w \in Workers, Stop(w) \/ Crash(w) \/ Restart(w) PROVE Holds(v, t)
  BY <1>0, <1>2 DEF Stop, Crash, Restart, Holds, Holding, TypeOK
<1>3. ASSUME pc' = pc, cur' = cur PROVE Holds(v, t)
  BY <1>3 DEF Holds
<1>4. ASSUME NEW w \in Workers, Heartbeat(w) PROVE Holds(v, t)
  BY <1>3, <1>4 DEF Heartbeat
<1>5. ASSUME NEW p \in Producers, Produce(p) PROVE Holds(v, t)
  BY <1>3, <1>5 DEF Produce, FindNoActive, Insert, AbandonEnqueue, workerVars
<1>6. ASSUME NEW u \in Tasks, Expire(u) \/ CooldownElapses(u) PROVE Holds(v, t)
  BY <1>3, <1>6 DEF Expire, CooldownElapses, workerVars
<1>7. CASE UNCHANGED vars
  BY <1>3, <1>7 DEF vars, workerVars
<1> QED
  BY <1>1, <1>2, <1>4, <1>5, <1>6, <1>7 DEF Next

\* A row that is not running has no holder.
LEMMA HeldIsRunning ==
  ASSUME CustodyInv, NEW t \in Tasks, task[t].status # "running"
  PROVE  Holder(t) = NoWorker
BY NobodyHolds DEF CustodyInv, HeldInv, Holds

LEMMA EntryShape ==
  ASSUME QueueInv, NEW t \in Tasks
  PROVE  /\ entryOf[t] = [phase |-> Phase(task[t].status), tries |-> task[t].attempts,
                          holder |-> Holder(t)]
         /\ entryOf[t] \in Contract!Entry
<1>1. task[t].status \in Statuses /\ task[t].attempts \in 0..MaxAttempts
  BY MaxAttemptsPositive DEF QueueInv, TypeOK, RowInv, Row
<1>2. Holder(t) \in Workers \union {NoWorker}
  BY DEF Holder
<1>3. Phase(task[t].status) \in {"unknown", "waiting", "working", "done", "dead"}
  BY <1>1 DEF Phase, Statuses
<1> QED
  BY <1>1, <1>2, <1>3 DEF entryOf, Contract!Entry
\* The same of the next state.
LEMMA NextEntryShape ==
  ASSUME QueueInv', NEW t \in Tasks
  PROVE  /\ entryOf'[t] = [phase |-> Phase(task'[t].status), tries |-> task'[t].attempts,
                           holder |-> Holder(t)']
         /\ entryOf'[t] \in Contract!Entry
<1>1. task'[t].status \in Statuses /\ task'[t].attempts \in 0..MaxAttempts
  BY MaxAttemptsPositive DEF QueueInv, TypeOK, RowInv, Row
<1>2. Holder(t)' \in Workers \union {NoWorker}
  BY DEF Holder
<1>3. Phase(task'[t].status) \in {"unknown", "waiting", "working", "done", "dead"}
  BY <1>1 DEF Phase, Statuses
<1> QED
  BY <1>1, <1>2, <1>3 DEF entryOf, Contract!Entry

\* Unless it is claimed, a task keeps its holder or loses it.
LEMMA HolderMoves ==
  ASSUME QueueInv, CustodyInv, CustodyInv', [Next]_vars, NEW t \in Tasks,
         \A w \in Workers : ~(Claim(w) /\ cur'[w] = t)
  PROVE  Holder(t)' \in {Holder(t), NoWorker}
<1>1. CASE \E w \in Workers : Holds(w, t)'
  <2>1. PICK w \in Workers : Holds(w, t)'
    BY <1>1
  <2>2. Holds(w, t)
    BY <2>1, NewHolder
  <2>3. Holder(t) = w
    BY <2>2, HolderIs
  <2>4. \A v \in Workers : Holds(v, t)' => v = w
    BY <2>1 DEF CustodyInv, HeldInv, Holds
  <2>5. Holder(t)' = w
    BY <2>1, <2>4 DEF Holder
  <2> QED
    BY <2>3, <2>5
<1>2. CASE ~ \E w \in Workers : Holds(w, t)'
  BY <1>2 DEF Holder
<1> QED
  BY <1>1, <1>2

\* Every transaction is a step of the contract on each task, or changes nothing
\* the contract sees of it.
LEMMA EntryStep ==
  ASSUME Timely, QueueInv, CustodyInv, QueueInv', CustodyInv', [Next]_vars, NEW t \in Tasks
  PROVE  Contract!Step(t) \/ entryOf'[t] = entryOf[t]
<1>1. /\ entryOf[t] = [phase |-> Phase(task[t].status), tries |-> task[t].attempts,
                       holder |-> Holder(t)]
      /\ entryOf'[t] = [phase |-> Phase(task'[t].status), tries |-> task'[t].attempts,
                        holder |-> Holder(t)']
  BY EntryShape, NextEntryShape
<1>2. task[t] \in Row /\ task[t].status \in Statuses
  BY DEF QueueInv, TypeOK, Row
<1>3. task'[t].status # "running" => Holder(t)' = NoWorker
  BY DEF CustodyInv, HeldInv, Holder, Holds
<1>4. task[t].status # "running" => Holder(t) = NoWorker
  BY HeldIsRunning
<1>5. task[t].status # "pending" => Holder(t)' \in {Holder(t), NoWorker}
  <2>1. ASSUME NEW w \in Workers, Claim(w), cur'[w] = t PROVE task[t].status = "pending"
    BY <2>1 DEF Claim, Claimable, QueueInv, TypeOK
  <2> QED
    BY <2>1, HolderMoves
<1>6. CASE task'[t].status = task[t].status /\ task'[t].attempts = task[t].attempts
  <2>1. CASE task[t].status = "running"
    BY <1>1, <1>5, <1>6, <2>1 DEF Contract!Step, Contract!Lose, Phase
  <2>2. CASE task[t].status # "running"
    BY <1>1, <1>3, <1>4, <1>6, <2>2
  <2> QED
    BY <2>1, <2>2
<1>7. CASE /\ task[t].status = "absent" /\ task'[t].status = "pending"
           /\ task'[t].attempts = task[t].attempts
  BY <1>1, <1>3, <1>4, <1>7 DEF Contract!Step, Contract!Submit, Contract!Unheld, Phase
<1>8. CASE /\ task[t].status = "pending" /\ task'[t].status = "running"
           /\ task'[t].attempts = task[t].attempts + 1
           /\ \E w \in Workers : Claim(w) /\ cur'[w] = t
  <2>1. PICK w \in Workers : Claim(w) /\ cur'[w] = t
    BY <1>8
  <2>2. Holds(w, t)'
    BY <2>1 DEF Claim, Holds, Holding, QueueInv, TypeOK
  <2>3. \A v \in Workers : Holds(v, t)' => v = w
    BY <2>2 DEF CustodyInv, HeldInv, Holds
  <2>4. Holder(t)' = w
    BY <2>2, <2>3 DEF Holder
  <2>5. task[t].attempts < MaxAttempts
    BY <1>8 DEF QueueInv, RowInv
  <2>6. Contract!Take(t)
    BY <1>1, <1>8, <2>4, <2>5 DEF Contract!Take, Phase
  <2> QED
    BY <2>6 DEF Contract!Step
<1>9. CASE /\ task[t].status = "running" /\ task'[t].status = "succeeded"
           /\ task'[t].attempts = task[t].attempts
           /\ \E w \in Workers : MarkSucceeded(w) /\ cur[w] = t
  <2>1. PICK w \in Workers : MarkSucceeded(w) /\ cur[w] = t
    BY <1>9
  <2>2. Holds(w, t)
    BY <2>1 DEF MarkSucceeded, Holds, Holding
  <2>3. Holder(t) # NoWorker
    BY <2>2, HolderIs, AbsentValues
  <2>4. Contract!Finish(t)
    BY <1>1, <1>3, <1>9, <2>3 DEF Contract!Finish, Contract!Unheld, Phase
  <2> QED
    BY <2>4 DEF Contract!Step
<1>10. CASE /\ task[t].status \in {"running", "pending"} /\ task[t].attempts < MaxAttempts
            /\ task'[t] = Requeued(task[t])
  <2>1. task'[t].status = "pending" /\ task'[t].attempts = task[t].attempts
    BY <1>2, <1>10, RequeuedRow
  <2>2. CASE task[t].status = "running"
    BY <1>1, <1>3, <1>10, <2>1, <2>2 DEF Contract!Step, Contract!GiveBack, Contract!Unheld, Phase
  <2> QED
    BY <1>6, <1>10, <2>1, <2>2
<1>11. CASE /\ task[t].status \in {"running", "failed"} /\ task[t].attempts = MaxAttempts
            /\ task'[t] = DeadLettered(task[t])
  <2>1. task'[t].status = "failed" /\ task'[t].attempts = task[t].attempts
    BY <1>2, <1>11, DeadLetteredRow
  <2>2. CASE task[t].status = "running"
    BY <1>1, <1>3, <1>11, <2>1, <2>2 DEF Contract!Step, Contract!Bury, Contract!Unheld, Phase
  <2> QED
    BY <1>6, <1>11, <2>1, <2>2
<1> QED
  BY <1>6, <1>7, <1>8, <1>9, <1>10, <1>11, RowStep

\* While heartbeats keep live claims, the queue keeps its contract: a task has one
\* holder at a time, is taken at most max_attempts times, and ends for ever, done at
\* its holder's hands or dead after its last attempt.
THEOREM QueueKeepsContract ==
  ASSUME Timely PROVE Spec => ImplementsContract
<1>1. Init => Contract!Init
  <2> SUFFICES ASSUME Init PROVE Contract!Init
    OBVIOUS
  <2>1. \A t \in Tasks : Holder(t) = NoWorker
    BY DEF Init, Holder, Holds, Holding
  <2>2. \A t \in Tasks : Phase(task[t].status) = "unknown" /\ task[t].attempts = 0
    BY DEF Init, AbsentRow, Phase
  <2> QED
    BY <2>1, <2>2 DEF entryOf, Contract!Init
<1>2. QueueInv /\ CustodyInv /\ QueueInv' /\ CustodyInv' /\ [Next]_vars => [Contract!Next]_entryOf
  <2> SUFFICES ASSUME QueueInv, CustodyInv, QueueInv', CustodyInv', [Next]_vars
               PROVE  Contract!Next
    OBVIOUS
  <2>1. \A t \in Tasks : entryOf'[t] \in Contract!Entry
    BY NextEntryShape
  <2>2. entryOf' = [t \in Tasks |-> entryOf'[t]]
    BY DEF entryOf
  <2>3. entryOf' \in [Tasks -> Contract!Entry]
    BY <2>1, <2>2
  <2>4. \A t \in Tasks : Contract!Step(t) \/ entryOf'[t] = entryOf[t]
    BY EntryStep
  <2> QED
    BY <2>3, <2>4 DEF Contract!Next
<1> QED
  BY <1>1, <1>2, QueueInvariant, CustodyInvariant, PTL
  DEF Spec, ImplementsContract, Contract!Spec
=============================================================================
