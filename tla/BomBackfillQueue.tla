--------------------------- MODULE BomBackfillQueue ---------------------------
(***************************************************************************)
(* The BOM backfill queue: one bom_backfill_queue row per machine material *)
(* and plant whose BOM is missing.  Sync tasks enqueue candidates, the     *)
(* consume task claims rows and asks SAP for their BOM batch by batch, a   *)
(* BOM sync resolves rows directly, and an operator may ask for a retry.   *)
(*                                                                         *)
(* Enqueue, retry and a batch read rows without a lock and write them at   *)
(* their commit, so each of them is two actions; a claim locks its rows,   *)
(* and a BOM sync writes with UPDATE statements.                           *)
(***************************************************************************)
EXTENDS Naturals, FiniteSets

CONSTANTS
  Items,           \* (material_no, plant) pairs
  Workers,         \* worker processes; each runs one task at a time
  Requests,        \* API requests for a retry
  MaxFailCount,    \* settings.bom_backfill_max_fail_count
  BatchSize,       \* settings.auto_bom_backfill_batch_size
  MaxItemsPerRun,  \* settings.auto_bom_backfill_max_items_per_run
  Prompt,          \* TRUE: no other commit falls between the read and the commit
                   \* of an enqueue or a retry
  MaxEnqueues, MaxRetries, MaxFaults  \* bounds on the environment

ASSUMPTION LimitsPositive ==
  MaxFailCount \in Nat \ {0} /\ BatchSize \in Nat \ {0} /\ MaxItemsPerRun \in Nat \ {0}
ASSUMPTION PromptIsBoolean == Prompt \in BOOLEAN
ASSUMPTION BoundsAreNumbers == MaxEnqueues \in Nat /\ MaxRetries \in Nat /\ MaxFaults \in Nat
ASSUMPTION PartiesDistinct == Workers \intersect Requests = {}

VARIABLES
  item,     \* the row of each item
  hasBom,   \* bom_relation_src has rows for the item
  pc,       \* what each worker or request is doing
  hand,     \* the claimed items a consume run has still to put into a batch
  open,     \* the items of a party's open transaction
  read,     \* their rows as that transaction read them
  enqueues, retries, faults  \* how often each happened

partyVars == <<pc, hand, open, read>>
countVars == <<enqueues, retries, faults>>
vars == <<item, hasBom, partyVars, countVars>>

Parties == Workers \union Requests

-----------------------------------------------------------------------------
(* Rows.  The status "paused" is declared by the code and never set.        *)

Statuses == {"absent", "pending", "processing", "retry_wait", "success", "failed"}

\* next_retry_at: NULL, ahead, or passed.
Row == [status : Statuses, fails : Nat, next : {"none", "later", "due"}]

AbsentRow == [status |-> "absent", fails |-> 0, next |-> "none"]

Queued == [AbsentRow EXCEPT !.status = "pending"]

\* The session writes the columns that differ from what it read; a next_retry_at
\* just computed always does.
Flush(row, seen, new) ==
  [ status |-> IF new.status = seen.status THEN row.status ELSE new.status,
    fails  |-> IF new.fails = seen.fails THEN row.fails ELSE new.fails,
    next   |-> IF new.next = seen.next /\ new.next # "later" THEN row.next ELSE new.next ]

Retryable == {"retry_wait", "failed"}

\* _upsert_queue_item: a failed, waiting or successful row starts again from zero.
Upserted(row, seen) ==
  CASE seen.status = "absent" -> Queued
    [] seen.status \in Retryable \union {"success"} -> Flush(row, seen, Queued)
    [] OTHER -> row

\* A retry keeps the fail count.
Retried(row, seen) ==
  IF seen.status \in Retryable
    THEN Flush(row, seen, [seen EXCEPT !.status = "pending", !.next = "none"])
    ELSE row

\* The other two kinds, empty_result and replace_failed, differ from
\* transient_error only in the delay.
Outcomes == {"success", "transient_error", "permanent_error"}

\* _apply_failure
Failed(row, seen, outcome) ==
  LET fails == seen.fails + 1
      over  == outcome = "permanent_error" \/ fails >= MaxFailCount
  IN Flush(row, seen, [ status |-> IF over THEN "failed" ELSE "retry_wait",
                        fails  |-> fails,
                        next   |-> IF over THEN "none" ELSE "later" ])

\* _mark_queue_success: an UPDATE of the row, if there is one.
Resolved(row) ==
  IF row.status = "absent" THEN row ELSE [row EXCEPT !.status = "success", !.next = "none"]

\* Variants: the due time selects a row whatever its status; a waiting row is
\* never selected.
Claimable_AnyDue ==
  {i \in Items : item[i].status = "pending" \/ item[i].next = "due"}

Claimable_PendingOnly == {i \in Items : item[i].status = "pending"}

\* claim_batch, what it selects
Claimable ==
  {i \in Items : \/ item[i].status = "pending"
                 \/ item[i].status = "retry_wait" /\ item[i].next = "due"}

-----------------------------------------------------------------------------
(* Transactions *)

PartyStates == {"idle", "enqueuing", "retrying", "consuming", "syncing"}

Reading(p) == pc[p] \in {"enqueuing", "retrying"}

\* With Prompt nothing commits, and no other such read starts, while an enqueue
\* or a retry is open.
Undisturbed(p) == Prompt => \A q \in Parties \ {p} : ~Reading(q)

Init ==
  /\ item = [i \in Items |-> AbsentRow]
  /\ hasBom = [i \in Items |-> FALSE]
  /\ pc = [p \in Parties |-> "idle"]
  /\ hand = [w \in Workers |-> {}]
  /\ open = [p \in Parties |-> {}]
  /\ read = [p \in Parties |-> [i \in Items |-> AbsentRow]]
  /\ enqueues = 0
  /\ retries = 0
  /\ faults = 0

\* p opens a transaction that reads the rows of S.
Open(p, S, state) ==
  /\ pc' = [pc EXCEPT ![p] = state]
  /\ open' = [open EXCEPT ![p] = S]
  /\ read' = [read EXCEPT ![p] = [i \in Items |-> IF i \in S THEN item[i] ELSE AbsentRow]]

Close(p, state) ==
  /\ pc' = [pc EXCEPT ![p] = state]
  /\ open' = [open EXCEPT ![p] = {}]
  /\ read' = [read EXCEPT ![p] = [i \in Items |-> AbsentRow]]

-----------------------------------------------------------------------------
(* Enqueue, from a sales plan or a research sync *)

\* _load_candidates: items of orders that are due and whose BOM is missing.
ReadCandidates(w) ==
  /\ enqueues < MaxEnqueues
  /\ pc[w] = "idle"
  /\ Undisturbed(w)
  /\ \E S \in SUBSET {i \in Items : ~hasBom[i]} : S # {} /\ Open(w, S, "enqueuing")
  /\ enqueues' = enqueues + 1
  /\ UNCHANGED <<item, hasBom, hand, retries, faults>>

\* An insert fails when the row exists by now (unique material_no and plant).
CommitEnqueue(w) ==
  /\ pc[w] = "enqueuing"
  /\ Undisturbed(w)
  /\ \A i \in open[w] : read[w][i].status = "absent" => item[i].status = "absent"
  /\ item' = [i \in Items |-> IF i \in open[w] THEN Upserted(item[i], read[w][i]) ELSE item[i]]
  /\ Close(w, "idle")
  /\ UNCHANGED <<hasBom, hand, countVars>>

\* That, or any other exception, rolls the whole enqueue back.
EnqueueFails(w) ==
  /\ pc[w] = "enqueuing"
  /\ Close(w, "idle")
  /\ UNCHANGED <<item, hasBom, hand, countVars>>

-----------------------------------------------------------------------------
(* Retry, from the administration page *)

ReadRetry(r) ==
  /\ retries < MaxRetries
  /\ pc[r] = "idle"
  /\ Undisturbed(r)
  /\ \E S \in SUBSET {i \in Items : item[i].status # "absent"} : S # {} /\ Open(r, S, "retrying")
  /\ retries' = retries + 1
  /\ UNCHANGED <<item, hasBom, hand, enqueues, faults>>

CommitRetry(r) ==
  /\ pc[r] = "retrying"
  /\ Undisturbed(r)
  /\ item' = [i \in Items |-> IF i \in open[r] THEN Retried(item[i], read[r][i]) ELSE item[i]]
  /\ Close(r, "idle")
  /\ UNCHANGED <<hasBom, hand, countVars>>

-----------------------------------------------------------------------------
(* Consume *)

\* claim_batch: FOR UPDATE SKIP LOCKED; next_retry_at keeps its value.
Claim(w) ==
  /\ pc[w] = "idle"
  /\ Undisturbed(w)
  /\ \E S \in SUBSET Claimable :
       /\ S # {}
       /\ Cardinality(S) <= MaxItemsPerRun
       /\ item' = [i \in Items |-> IF i \in S THEN [item[i] EXCEPT !.status = "processing"]
                                             ELSE item[i]]
       /\ hand' = [hand EXCEPT ![w] = S]
  /\ pc' = [pc EXCEPT ![w] = "consuming"]
  /\ UNCHANGED <<hasBom, open, read, countVars>>

\* Variant: only the first batch is worked off.
BeginBatch_FirstOnly(w) ==
  /\ pc[w] = "consuming"
  /\ \E S \in SUBSET hand[w] :
       /\ S # {}
       /\ Cardinality(S) <= BatchSize
       /\ Open(w, S, "syncing")
  /\ hand' = [hand EXCEPT ![w] = {}]
  /\ UNCHANGED <<item, hasBom, countVars>>

\* A new session reads the rows of the next batch.
BeginBatch(w) ==
  /\ pc[w] = "consuming"
  /\ \E S \in SUBSET hand[w] :
       /\ S # {}
       /\ Cardinality(S) <= BatchSize
       /\ Cardinality(S) < BatchSize => S = hand[w]
       /\ Open(w, S, "syncing")
       /\ hand' = [hand EXCEPT ![w] = @ \ S]
  /\ UNCHANGED <<item, hasBom, countVars>>

\* sync_item for each item of the batch, then one commit.
CommitBatch(w) ==
  /\ pc[w] = "syncing"
  /\ Undisturbed(w)
  /\ \E outcome \in [open[w] -> Outcomes] :
       /\ item' = [i \in Items |->
                     IF i \notin open[w] THEN item[i]
                     ELSE IF outcome[i] = "success" THEN Resolved(item[i])
                     ELSE Failed(item[i], read[w][i], outcome[i])]
       /\ hasBom' = [i \in Items |-> hasBom[i] \/ (i \in open[w] /\ outcome[i] = "success")]
  /\ Close(w, IF hand[w] = {} THEN "idle" ELSE "consuming")
  /\ UNCHANGED <<hand, countVars>>

\* Variant: success is marked in a session of its own and survives the rollback.
RunBreaks_SuccessSurvives(w) ==
  /\ faults < MaxFaults
  /\ pc[w] \in {"consuming", "syncing"}
  /\ \E S \in SUBSET open[w] :
       item' = [i \in Items |-> IF i \in S THEN Resolved(item[i]) ELSE item[i]]
  /\ hand' = [hand EXCEPT ![w] = {}]
  /\ Close(w, "idle")
  /\ faults' = faults + 1
  /\ UNCHANGED <<hasBom, enqueues, retries>>

\* An exception in the batch, or the death of the process: the batch is rolled
\* back and what the run had claimed is forgotten.
RunBreaks(w) ==
  /\ faults < MaxFaults
  /\ pc[w] \in {"consuming", "syncing"}
  /\ hand' = [hand EXCEPT ![w] = {}]
  /\ Close(w, "idle")
  /\ faults' = faults + 1
  /\ UNCHANGED <<item, hasBom, enqueues, retries>>

-----------------------------------------------------------------------------
(* A BOM sync task (sync_batch): the items SAP has a BOM for, in one commit. *)

SyncBom(w) ==
  /\ pc[w] = "idle"
  /\ Undisturbed(w)
  /\ \E S \in SUBSET Items :
       /\ S # {}
       /\ item' = [i \in Items |-> IF i \in S THEN Resolved(item[i]) ELSE item[i]]
       /\ hasBom' = [i \in Items |-> hasBom[i] \/ i \in S]
  /\ UNCHANGED <<partyVars, countVars>>

\* next_retry_at passes.
RetryDue(i) ==
  /\ item[i].status = "retry_wait"
  /\ item[i].next = "later"
  /\ item' = [item EXCEPT ![i].next = "due"]
  /\ UNCHANGED <<hasBom, partyVars, countVars>>

-----------------------------------------------------------------------------
Consume(w) == Claim(w) \/ BeginBatch(w) \/ CommitBatch(w)

Work(w) ==
  \/ ReadCandidates(w) \/ CommitEnqueue(w) \/ EnqueueFails(w)
  \/ Consume(w) \/ RunBreaks(w) \/ SyncBom(w)

Request(r) == ReadRetry(r) \/ CommitRetry(r)

Next ==
  \/ \E w \in Workers : Work(w)
  \/ \E r \in Requests : Request(r)
  \/ \E i \in Items : RetryDue(i)

\* The scheduler keeps enqueuing consume tasks, a run goes from batch to batch,
\* every transaction ends, and time passes.
Fairness ==
  /\ \A w \in Workers : WF_vars(Consume(w)) /\ WF_vars(CommitEnqueue(w) \/ EnqueueFails(w))
  /\ \A r \in Requests : WF_vars(CommitRetry(r))
  /\ \A i \in Items : WF_vars(RetryDue(i))

Spec == Init /\ [][Next]_vars

FairSpec == Spec /\ Fairness
-----------------------------------------------------------------------------
(* Properties for any overlap of transactions *)

TypeOK ==
  /\ item \in [Items -> Row]
  /\ hasBom \in [Items -> BOOLEAN]
  /\ pc \in [Parties -> PartyStates]
  /\ hand \in [Workers -> SUBSET Items]
  /\ open \in [Parties -> SUBSET Items]
  /\ read \in [Parties -> [Items -> Row]]
  /\ enqueues \in Nat /\ retries \in Nat /\ faults \in Nat

\* The items a running consume has claimed and not yet committed.
Held(w) == hand[w] \union (IF pc[w] = "syncing" THEN open[w] ELSE {})

\* No consume will ever commit it and nothing claims it again: only a BOM sync of
\* the same material can free it.
Stranded(i) == item[i].status = "processing" /\ \A w \in Workers : i \notin Held(w)

\* Claims are never given back, so the queue must not lose one: as long as no run
\* breaks, every row in processing is in the hands of a run, whatever enqueues,
\* retries and other runs overwrite in between.
NoStrandWithoutFault == faults = 0 => \A i \in Items : ~Stranded(i)

\* A row is successful only when the BOM is there, whichever of a consume run and
\* a BOM sync wrote last and whatever was rolled back.
SuccessHasBom == \A i \in Items : item[i].status = "success" => hasBom[i]

-----------------------------------------------------------------------------
(* Properties that rest on Prompt *)

\* No item is asked of SAP by two runs at a time.
HeldOnce == \A v, w \in Workers : v # w => Held(v) \intersect Held(w) = {}

\* A row waits for a retry only if it has failed and has attempts left, through
\* reactivations that reset the count and retries that do not.
RetryWaitHasRoom ==
  \A i \in Items : item[i].status = "retry_wait" =>
     item[i].fails \in 1..(MaxFailCount - 1) /\ item[i].next # "none"

\* With one worker the queue tells the truth about the BOMs: a tracked item is
\* successful exactly when its BOM is there, so nothing is fetched twice and no
\* failure is shown for a BOM that was found.
QueueAgreesWithBom ==
  \A i \in Items : item[i].status # "absent" => (item[i].status = "success" <=> hasBom[i])

-----------------------------------------------------------------------------
(* Liveness *)

\* Every queued item is resolved, given up after its last attempt, or stranded by
\* a broken run.
EveryItemEnds ==
  \A i \in Items : (item[i].status = "pending") ~>
     (item[i].status \in {"success", "failed"} \/ Stranded(i))
=============================================================================
