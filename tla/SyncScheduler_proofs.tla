------------------------- MODULE SyncScheduler_proofs --------------------------
(* What holds of SyncScheduler for any processes, operators, jobs and ages.      *)
EXTENDS SyncScheduler, TLAPS

Steps == {"off", "up", "polling", "leaving", "marking"}
Requests == {"none", "same", "running", "paused"}

-----------------------------------------------------------------------------
(* Types *)

LEMMA ModesOf == \A e \in BOOLEAN : ModeOf(e) \in Modes
BY DEF ModeOf, Modes

\* A heartbeat, and the mark of a process that leaves, keep the row and its switch.
LEMMA BeatType ==
  ASSUME TypeOK, NEW i \in Instances, NEW state \in Modes, Beat(i, state)
  PROVE  row' \in State /\ row'.enabled = row.enabled
<1>1. row' = [row EXCEPT !.state = IF "state" \in writes[i] THEN state ELSE row.state,
                         !.instance = IF "instance" \in writes[i] THEN i ELSE row.instance,
                         !.age = 0, !.stored = TRUE]
  BY DEF Beat, TypeOK, State
<1>2. 0 \in 0..Stale + 1
  BY StaleOutlastsPoll
<1> QED BY <1>1, <1>2 DEF TypeOK, State

LEMMA ChangedType ==
  ASSUME NEW i, NEW state
  PROVE  Changed(i, state) \subseteq Columns
BY DEF Changed

LEMMA LookupType ==
  ASSUME TypeOK, NEW by \in Instances \union Operators, NEW j \in Jobs, NEW key \in Keys,
         Lookup(by, j, key)
  PROVE  enqueue' \subseteq Enqueue /\ UNCHANGED tasks
BY DEF Lookup, TypeOK, Enqueue

LEMMA KeysType ==
  /\ \A j \in Jobs : DedupeKey(j) \in Keys
  /\ \A j \in ManualJobs : j \in Jobs /\ ManualKeys[j] \in Keys
BY DEF Keys, ManualJobs

LEMMA TypeStep ==
  ASSUME TypeOK, [Next]_vars
  PROVE  TypeOK'
<1>1. ASSUME NEW i \in Instances, Start(i) \/ ReadSwitch(i) \/ Leave(i) \/ ReadOwner(i) \/ Crash(i)
      PROVE  TypeOK'
  <2>1. row.enabled \in BOOLEAN
    BY DEF TypeOK, State
  <2>2. ModeOf(row.enabled) \in Modes /\ "paused" \in Modes /\ "stopped" \in Modes
    BY <2>1, ModesOf DEF Modes
  <2>3. /\ UNCHANGED <<row, request, tasks>>
        /\ since' \in [Instances -> {0, 1}]
        /\ enqueue' \subseteq enqueue
    BY <1>1 DEF Start, ReadSwitch, Leave, ReadOwner, Crash, taskVars, TypeOK
  <2>4. proc' \in [Instances -> Steps]
    BY <1>1 DEF Start, ReadSwitch, Leave, ReadOwner, Crash, TypeOK, Steps
  <2>5. mode' \in [Instances -> Modes]
    BY <1>1, <2>2 DEF Start, ReadSwitch, Leave, ReadOwner, Crash, TypeOK
  <2>6. writes' \in [Instances -> SUBSET Columns]
    BY <1>1, ChangedType DEF Start, ReadSwitch, Leave, ReadOwner, Crash, TypeOK
  <2> QED BY <2>3, <2>4, <2>5, <2>6 DEF TypeOK, Steps
<1>2. ASSUME NEW i \in Instances, Heartbeat(i) \/ MarkStopped(i) PROVE TypeOK'
  <2>1. mode[i] \in Modes /\ "stopped" \in Modes
    BY DEF TypeOK, Modes
  <2>2. row' \in State
    BY <1>2, <2>1, BeatType DEF Heartbeat, MarkStopped
  <2> QED BY <1>2, <2>2 DEF Heartbeat, MarkStopped, taskVars, TypeOK
<1>3. ASSUME NEW i \in Instances, NEW j \in Jobs, Fire(i, j) PROVE TypeOK'
  <2>1. enqueue' \subseteq Enqueue /\ UNCHANGED tasks
    BY <1>3, KeysType, LookupType DEF Fire
  <2> QED BY <1>3, <2>1 DEF Fire, procVars, TypeOK
<1>4. ASSUME NEW p \in Operators, NEW enabled \in BOOLEAN, AskSwitch(p, enabled) PROVE TypeOK'
  BY <1>4, ModesOf DEF AskSwitch, ModeOf, procVars, taskVars, TypeOK
<1>5. ASSUME NEW p \in Operators, SetSwitch(p) PROVE TypeOK'
  <2>1. row' = [row EXCEPT !.enabled = IF request[p] = "same" THEN row.enabled ELSE request[p] = "running",
                           !.stored = TRUE]
    BY <1>5 DEF SetSwitch, TypeOK, State
  <2>2. row' \in State
    BY <2>1 DEF TypeOK, State
  <2> QED BY <1>5, <2>2 DEF SetSwitch, procVars, taskVars, TypeOK
<1>6. ASSUME NEW p \in Operators, NEW j \in ManualJobs, Trigger(p, j) PROVE TypeOK'
  <2>1. enqueue' \subseteq Enqueue /\ UNCHANGED tasks
    BY <1>6, KeysType, LookupType DEF Trigger
  <2> QED BY <1>6, <2>1 DEF Trigger, procVars, TypeOK
<1>7. ASSUME NEW e \in Enqueue, CommitTask(e) PROVE TypeOK'
  <2>1. tasks' \in [Jobs -> [Keys -> 0..MaxTasks]]
    BY <1>7, MaxTasksIsPositive DEF CommitTask, Enqueue, TypeOK
  <2> QED BY <1>7, <2>1 DEF CommitTask, procVars, TypeOK
<1>8. ASSUME NEW j \in Jobs, NEW key \in Keys, EndTask(j, key) PROVE TypeOK'
  <2>1. tasks' \in [Jobs -> [Keys -> 0..MaxTasks]]
    BY <1>8, MaxTasksIsPositive DEF EndTask, TypeOK
  <2> QED BY <1>8, <2>1 DEF EndTask, procVars, TypeOK
<1>9. CASE Tick
  <2>1. row' = [row EXCEPT !.age = IF row.age > Stale THEN row.age ELSE row.age + 1]
    BY <1>9 DEF Tick, TypeOK, State
  <2>2. (IF row.age > Stale THEN row.age ELSE row.age + 1) \in 0..Stale + 1
    BY StaleOutlastsPoll DEF TypeOK, State
  <2>3. row' \in State
    BY <2>1, <2>2 DEF TypeOK, State
  <2>4. since' \in [Instances -> {0, 1}]
    BY <1>9 DEF Tick, TypeOK
  <2> QED BY <1>9, <2>3, <2>4 DEF Tick, taskVars, TypeOK
<1>10. CASE UNCHANGED vars
  BY <1>10 DEF vars, TypeOK
<1> QED BY <1>1, <1>2, <1>3, <1>4, <1>5, <1>6, <1>7, <1>8, <1>9, <1>10 DEF Next

LEMMA TypeInit == Init => TypeOK
<1>1. Stale + 1 \in 0..Stale + 1
  BY StaleOutlastsPoll
<1> QED BY <1>1, MaxTasksIsPositive DEF Init, TypeOK, State, Modes

\* The row, the processes and the requests keep their types, and an age counts no further than
\* one past the limit.
THEOREM TypeCorrect == Spec => []TypeOK
BY TypeInit, TypeStep, PTL DEF Spec

-----------------------------------------------------------------------------
(* The switch *)

LEMMA SwitchStep ==
  ASSUME TypeOK, [Next]_vars, row'.enabled # row.enabled
  PROVE  \E p \in Operators : request[p] = ModeOf(row'.enabled) /\ request'[p] = "none"
<1>1. PICK p \in Operators : SetSwitch(p)
  <2>1. ASSUME NEW i \in Instances, Heartbeat(i) \/ MarkStopped(i) PROVE FALSE
    <3>1. mode[i] \in Modes /\ "stopped" \in Modes
      BY DEF TypeOK, Modes
    <3> QED BY <2>1, <3>1, BeatType DEF Heartbeat, MarkStopped
  <2>2. ASSUME Tick PROVE FALSE
    BY <2>2 DEF Tick, TypeOK, State
  <2> QED BY <2>1, <2>2 DEF Next, vars, Start, ReadSwitch, Leave, ReadOwner, Crash, Fire, AskSwitch, Trigger,
                            CommitTask, EndTask
<1>2. row'.enabled = (request[p] = "running") /\ request[p] # "same" /\ request[p] # "none"
  BY <1>1 DEF SetSwitch, TypeOK, State
<1>3. request[p] \in {"running", "paused"}
  BY <1>2 DEF TypeOK
<1>4. request'[p] = "none"
  BY <1>1 DEF SetSwitch, TypeOK
<1> QED BY <1>2, <1>3, <1>4 DEF ModeOf

\* No heartbeat and no process that leaves turns the switch: only the request of an operator
\* does, to the value asked for.
THEOREM SwitchStaysAsked == Spec => SwitchKept
<1>1. TypeOK /\ [Next]_vars =>
        [row'.enabled # row.enabled =>
           \E p \in Operators : request[p] = ModeOf(row'.enabled) /\ request'[p] = "none"]_vars
  BY SwitchStep
<1> QED BY <1>1, TypeCorrect, PTL DEF Spec, SwitchKept

-----------------------------------------------------------------------------
(* The tasks *)

\* The endpoints and the timers write one key for a job.
LEMMA OneKey == \A j \in ManualJobs : ManualKeys[j] = DedupeKey(j)
BY DEF ManualJobs, ManualKeys, DedupeKey

\* One enqueue is under way at most, of a key nobody has, and everything goes by its key.
SingleInv ==
  /\ \A e, f \in enqueue : e = f
  /\ \A e \in enqueue : e.key = DedupeKey(e.job) /\ ~Busy(e.key)
  /\ \A j \in Jobs, k \in Keys : tasks[j][k] > 0 => k = DedupeKey(j) /\ tasks[j][k] = 1

LEMMA SingleLookup ==
  ASSUME TypeOK, SingleInv, Serial, NEW by, NEW j \in Jobs, Lookup(by, j, DedupeKey(j))
  PROVE  SingleInv'
<1>1. enqueue' = {[by |-> by, job |-> j, key |-> DedupeKey(j)]} /\ ~Busy(DedupeKey(j)) /\ UNCHANGED tasks
  BY DEF Lookup
<1> QED BY <1>1 DEF SingleInv, Busy

LEMMA SingleStep ==
  ASSUME TypeOK, SingleInv, Serial, [Next]_vars
  PROVE  SingleInv'
<1>1. ASSUME NEW i \in Instances, NEW j \in Jobs, Fire(i, j) PROVE SingleInv'
  BY <1>1, SingleLookup DEF Fire
<1>2. ASSUME NEW p \in Operators, NEW j \in ManualJobs, Trigger(p, j) PROVE SingleInv'
  <2>1. Lookup(p, j, DedupeKey(j)) /\ j \in Jobs
    BY <1>2, OneKey DEF Trigger, ManualJobs
  <2> QED BY <2>1, SingleLookup
<1>3. ASSUME NEW e \in Enqueue, CommitTask(e) PROVE SingleInv'
  <2>1. /\ e.job \in Jobs /\ e.key \in Keys /\ e \in enqueue
        /\ enqueue' = enqueue \ {e}
        /\ tasks' = [tasks EXCEPT ![e.job][e.key] = tasks[e.job][e.key] + 1]
    BY <1>3 DEF CommitTask, Enqueue
  <2>2. enqueue' = {}
    BY <2>1 DEF SingleInv
  <2>3. e.key = DedupeKey(e.job) /\ ~(tasks[e.job][e.key] > 0)
    BY <2>1 DEF SingleInv, Busy
  <2>4. tasks[e.job][e.key] = 0
    <3>1. tasks[e.job][e.key] \in 0..MaxTasks
      BY <2>1 DEF TypeOK
    <3> QED BY <2>3, <3>1, MaxTasksIsPositive
  <2>5. \A j \in Jobs, k \in Keys :
          tasks'[j][k] = IF j = e.job /\ k = e.key THEN 1 ELSE tasks[j][k]
    BY <2>1, <2>4 DEF TypeOK
  <2>6. \A j \in Jobs, k \in Keys : tasks'[j][k] > 0 => k = DedupeKey(j) /\ tasks'[j][k] = 1
    BY <2>3, <2>5 DEF SingleInv
  <2> QED BY <2>2, <2>6 DEF SingleInv
<1>4. ASSUME NEW j \in Jobs, NEW k \in Keys, EndTask(j, k) PROVE SingleInv'
  <2>1. /\ tasks[j][k] > 0 /\ UNCHANGED enqueue
        /\ tasks' = [tasks EXCEPT ![j][k] = tasks[j][k] - 1]
    BY <1>4 DEF EndTask
  <2>2. tasks[j][k] = 1
    BY <2>1 DEF SingleInv
  <2>3. \A i \in Jobs, l \in Keys : tasks'[i][l] = IF i = j /\ l = k THEN 0 ELSE tasks[i][l]
    BY <2>1, <2>2 DEF TypeOK
  <2>4. \A e \in enqueue : e.key \in Keys
    BY DEF TypeOK, Enqueue
  <2>5. \A e \in enqueue : ~Busy(e.key)'
    BY <2>3, <2>4 DEF SingleInv, Busy
  <2> QED BY <2>1, <2>3, <2>5 DEF SingleInv
<1>5. ASSUME UNCHANGED tasks, enqueue' \subseteq enqueue PROVE SingleInv'
  BY <1>5 DEF SingleInv, Busy
<1>6. CASE UNCHANGED tasks /\ enqueue' \subseteq enqueue
  BY <1>5, <1>6
<1>7. CASE ~(UNCHANGED tasks /\ enqueue' \subseteq enqueue)
  <2>1. \/ \E i \in Instances, j \in Jobs : Fire(i, j)
        \/ \E p \in Operators, j \in ManualJobs : Trigger(p, j)
        \/ \E e \in Enqueue : CommitTask(e)
        \/ \E j \in Jobs, k \in Keys : EndTask(j, k)
    BY <1>7 DEF Next, vars, taskVars, Start, ReadSwitch, Heartbeat, Leave, ReadOwner, MarkStopped, Crash,
                AskSwitch, SetSwitch, Tick
  <2> QED BY <2>1, <1>1, <1>2, <1>3, <1>4
<1> QED BY <1>6, <1>7

\* Where enqueues do not overlap, a synchronisation is active once at most: timers of every
\* process and operators write one key, and the key is looked for before it is written.
THEOREM JobsAreSingle == Spec => []OneTaskPerJob
<1>1. Init => SingleInv
  BY DEF Init, SingleInv
<1>2. SingleInv => OneTaskPerJob
  BY DEF SingleInv, OneTaskPerJob
<1>3. ~Serial => OneTaskPerJob
  BY DEF OneTaskPerJob
<1>4. CASE Serial
  <2>1. TypeOK /\ SingleInv /\ [Next]_vars => SingleInv'
    BY <1>4, SingleStep
  <2> QED BY <1>1, <1>2, <2>1, TypeCorrect, PTL DEF Spec
<1>5. CASE ~Serial
  <2>1. OneTaskPerJob
    BY <1>3, <1>5
  <2> QED BY <2>1, PTL
<1> QED BY <1>4, <1>5
=============================================================================
