----------------------- MODULE BomBackfillQueue_proofs -----------------------
(***************************************************************************)
(* Proofs about the BOM backfill queue, for any items, workers and limits: *)
(* type correctness, SuccessHasBom and NoStrandWithoutFault for any        *)
(* overlap of transactions; HeldOnce and RetryWaitHasRoom under Prompt;    *)
(* QueueAgreesWithBom under Prompt with one worker.                        *)
(***************************************************************************)
EXTENDS BomBackfillQueue, TLAPS

-----------------------------------------------------------------------------
(* What the operators on rows return *)

\* Every write of a row leaves a row.
LEMMA RowsStayRows ==
  ASSUME NEW row \in Row, NEW seen \in Row
  PROVE  /\ Upserted(row, seen) \in Row
         /\ Retried(row, seen) \in Row
         /\ Resolved(row) \in Row
         /\ \A o \in Outcomes : Failed(row, seen, o) \in Row
<1>1. \A new \in Row : Flush(row, seen, new) \in Row
  BY DEF Flush, Row
<1>2. Queued \in Row
  BY DEF Queued, AbsentRow, Row, Statuses
<1>3. Upserted(row, seen) \in Row
  BY <1>1, <1>2 DEF Upserted
<1>4. Retried(row, seen) \in Row
  <2>1. [seen EXCEPT !.status = "pending", !.next = "none"] \in Row
    BY DEF Row, Statuses
  <2> QED BY <1>1, <2>1 DEF Retried
<1>5. Resolved(row) \in Row
  BY DEF Resolved, Row, Statuses
<1>6. ASSUME NEW o \in Outcomes PROVE Failed(row, seen, o) \in Row
  <2> DEFINE over == o = "permanent_error" \/ seen.fails + 1 >= MaxFailCount
             new == [ status |-> IF over THEN "failed" ELSE "retry_wait",
                      fails |-> seen.fails + 1,
                      next |-> IF over THEN "none" ELSE "later" ]
  <2>1. seen.fails + 1 \in Nat
    BY DEF Row
  <2>2. new \in Row
    BY <2>1 DEF Row, Statuses
  <2>3. Failed(row, seen, o) = Flush(row, seen, new)
    BY DEF Failed
  <2> QED BY <1>1, <2>2, <2>3
<1> QED BY <1>3, <1>4, <1>5, <1>6

\* Only Resolved makes a row successful.
LEMMA OnlyResolvedSucceeds ==
  ASSUME NEW row \in Row, NEW seen \in Row
  PROVE  /\ Upserted(row, seen).status = "success" => row.status = "success"
         /\ Retried(row, seen).status = "success" => row.status = "success"
         /\ \A o \in Outcomes : Failed(row, seen, o).status = "success" => row.status = "success"
<1>1. ASSUME NEW new, new.status # "success"
      PROVE  Flush(row, seen, new).status = "success" => row.status = "success"
  BY <1>1 DEF Flush
<1>2. Queued.status = "pending"
  BY DEF Queued, AbsentRow
<1>3. Upserted(row, seen).status = "success" => row.status = "success"
  BY <1>1, <1>2 DEF Upserted
<1>4. Retried(row, seen).status = "success" => row.status = "success"
  <2>1. [seen EXCEPT !.status = "pending", !.next = "none"].status # "success"
    BY DEF Row
  <2> QED BY <1>1, <2>1 DEF Retried
<1>5. ASSUME NEW o \in Outcomes
      PROVE  Failed(row, seen, o).status = "success" => row.status = "success"
  BY <1>1 DEF Failed
<1> QED BY <1>3, <1>4, <1>5

\* A failure of a row read in processing leaves it failed, or waiting with an
\* attempt left and a time, whatever the row was by then.
LEMMA FailureOfHeldRow ==
  ASSUME NEW row \in Row, NEW seen \in Row, NEW o \in Outcomes,
         seen.status \in {"processing", "success"}
  PROVE  LET new == Failed(row, seen, o) IN
         /\ new.status \in {"failed", "retry_wait"}
         /\ new.status = "retry_wait" =>
               new.fails \in 1..(MaxFailCount - 1) /\ new.next = "later"
<1> DEFINE over == o = "permanent_error" \/ seen.fails + 1 >= MaxFailCount
           plan == [ status |-> IF over THEN "failed" ELSE "retry_wait",
                     fails |-> seen.fails + 1,
                     next |-> IF over THEN "none" ELSE "later" ]
           new == Failed(row, seen, o)
<1>1. new = Flush(row, seen, plan)
  BY DEF Failed
<1>2. plan.status # seen.status /\ plan.status \in {"failed", "retry_wait"}
  OBVIOUS
<1>3. new.status = plan.status
  BY <1>1, <1>2 DEF Flush
<1>4. seen.fails \in Nat /\ plan.fails = seen.fails + 1
  BY DEF Row
<1>5. new.fails = plan.fails
  BY <1>1, <1>4 DEF Flush
<1>6. ASSUME new.status = "retry_wait"
      PROVE  new.fails \in 1..(MaxFailCount - 1) /\ new.next = "later"
  <2>1. ~over
    BY <1>3, <1>6
  <2>2. new.next = "later"
    BY <1>1, <2>1 DEF Flush
  <2>3. MaxFailCount \in Nat
    BY LimitsPositive
  <2> QED BY <1>4, <1>5, <2>1, <2>2, <2>3
<1> QED BY <1>2, <1>3, <1>6
-----------------------------------------------------------------------------
(* Type correctness *)

LEMMA AbsentRowIsRow == AbsentRow \in Row
BY DEF AbsentRow, Row, Statuses

LEMMA TypeInit == Init => TypeOK
BY AbsentRowIsRow DEF Init, TypeOK, PartyStates, Parties

\* Opening and closing a transaction keep the types of what they change.
LEMMA OpenTypes ==
  ASSUME TypeOK, NEW p \in Parties, NEW S \in SUBSET Items, NEW state \in PartyStates,
         Open(p, S, state)
  PROVE  /\ pc' \in [Parties -> PartyStates]
         /\ open' \in [Parties -> SUBSET Items]
         /\ read' \in [Parties -> [Items -> Row]]
<1>1. [i \in Items |-> IF i \in S THEN item[i] ELSE AbsentRow] \in [Items -> Row]
  BY AbsentRowIsRow DEF TypeOK
<1> QED BY <1>1 DEF Open, TypeOK

LEMMA CloseTypes ==
  ASSUME TypeOK, NEW p \in Parties, NEW state \in PartyStates, Close(p, state)
  PROVE  /\ pc' \in [Parties -> PartyStates]
         /\ open' \in [Parties -> SUBSET Items]
         /\ read' \in [Parties -> [Items -> Row]]
<1>1. [i \in Items |-> AbsentRow] \in [Items -> Row]
  BY AbsentRowIsRow
<1> QED BY <1>1 DEF Close, TypeOK

LEMMA TypeStep == TypeOK /\ [Next]_vars => TypeOK'
<1> SUFFICES ASSUME TypeOK, [Next]_vars PROVE TypeOK'
  OBVIOUS
<1> USE DEF countVars, partyVars
<1>1. ASSUME NEW w \in Workers, ReadCandidates(w) PROVE TypeOK'
  <2>1. PICK S \in SUBSET Items : Open(w, S, "enqueuing")
    BY <1>1 DEF ReadCandidates
  <2> QED BY <1>1, <2>1, OpenTypes DEF ReadCandidates, TypeOK, Parties, PartyStates
<1>2. ASSUME NEW w \in Workers, CommitEnqueue(w) PROVE TypeOK'
  <2>1. item' \in [Items -> Row]
    <3>1. ASSUME NEW i \in Items PROVE Upserted(item[i], read[w][i]) \in Row /\ item[i] \in Row
      BY RowsStayRows DEF TypeOK, Parties
    <3> QED BY <1>2, <3>1 DEF CommitEnqueue
  <2> QED BY <1>2, <2>1, CloseTypes DEF CommitEnqueue, TypeOK, Parties, PartyStates
<1>3. ASSUME NEW w \in Workers, EnqueueFails(w) PROVE TypeOK'
  BY <1>3, CloseTypes DEF EnqueueFails, TypeOK, Parties, PartyStates
<1>4. ASSUME NEW w \in Workers, Claim(w) PROVE TypeOK'
  <2>1. PICK S \in SUBSET Claimable :
          /\ item' = [i \in Items |-> IF i \in S THEN [item[i] EXCEPT !.status = "processing"]
                                                ELSE item[i]]
          /\ hand' = [hand EXCEPT ![w] = S]
    BY <1>4 DEF Claim
  <2>2. S \subseteq Items
    BY DEF Claimable
  <2>3. item' \in [Items -> Row]
    <3>1. ASSUME NEW i \in Items
          PROVE  [item[i] EXCEPT !.status = "processing"] \in Row /\ item[i] \in Row
      BY DEF TypeOK, Row, Statuses
    <3> QED BY <2>1, <3>1
  <2> QED BY <1>4, <2>1, <2>2, <2>3 DEF Claim, TypeOK, Parties, PartyStates
<1>5. ASSUME NEW w \in Workers, BeginBatch(w) PROVE TypeOK'
  <2>1. PICK S \in SUBSET hand[w] : /\ Open(w, S, "syncing")
                                    /\ hand' = [hand EXCEPT ![w] = @ \ S]
    BY <1>5 DEF BeginBatch
  <2>2. S \subseteq Items
    BY DEF TypeOK
  <2>3. w \in Parties /\ "syncing" \in PartyStates
    BY DEF Parties, PartyStates
  <2> QED BY <1>5, <2>1, <2>2, <2>3, OpenTypes DEF BeginBatch, TypeOK
<1>6. ASSUME NEW w \in Workers, CommitBatch(w) PROVE TypeOK'
  <2>1. PICK outcome \in [open[w] -> Outcomes] :
          /\ item' = [i \in Items |->
                        IF i \notin open[w] THEN item[i]
                        ELSE IF outcome[i] = "success" THEN Resolved(item[i])
                        ELSE Failed(item[i], read[w][i], outcome[i])]
          /\ hasBom' = [i \in Items |-> hasBom[i] \/ (i \in open[w] /\ outcome[i] = "success")]
    BY <1>6 DEF CommitBatch
  <2>2. w \in Parties /\ {"idle", "consuming"} \subseteq PartyStates
    BY DEF Parties, PartyStates
  <2>3. item' \in [Items -> Row]
    <3>1. ASSUME NEW i \in Items
          PROVE  /\ item[i] \in Row /\ Resolved(item[i]) \in Row
                 /\ \A o \in Outcomes : Failed(item[i], read[w][i], o) \in Row
      BY <2>2, RowsStayRows DEF TypeOK
    <3>2. \A i \in open[w] : outcome[i] \in Outcomes
      OBVIOUS
    <3> QED BY <2>1, <3>1, <3>2
  <2>4. hasBom' \in [Items -> BOOLEAN]
    BY <2>1
  <2>5. PICK state \in PartyStates : Close(w, state)
    BY <1>6, <2>2 DEF CommitBatch
  <2> QED BY <1>6, <2>2, <2>3, <2>4, <2>5, CloseTypes DEF CommitBatch, TypeOK
<1>7. ASSUME NEW w \in Workers, RunBreaks(w) PROVE TypeOK'
  BY <1>7, CloseTypes DEF RunBreaks, TypeOK, Parties, PartyStates
<1>8. ASSUME NEW w \in Workers, SyncBom(w) PROVE TypeOK'
  <2>1. item' \in [Items -> Row] /\ hasBom' \in [Items -> BOOLEAN]
    <3>1. ASSUME NEW i \in Items PROVE Resolved(item[i]) \in Row /\ item[i] \in Row
      BY RowsStayRows DEF TypeOK
    <3> QED BY <1>8, <3>1 DEF SyncBom
  <2> QED BY <1>8, <2>1 DEF SyncBom, TypeOK
<1>9. ASSUME NEW r \in Requests, ReadRetry(r) PROVE TypeOK'
  <2>1. PICK S \in SUBSET Items : Open(r, S, "retrying")
    BY <1>9 DEF ReadRetry
  <2> QED BY <1>9, <2>1, OpenTypes DEF ReadRetry, TypeOK, Parties, PartyStates
<1>10. ASSUME NEW r \in Requests, CommitRetry(r) PROVE TypeOK'
  <2>1. item' \in [Items -> Row]
    <3>1. ASSUME NEW i \in Items PROVE Retried(item[i], read[r][i]) \in Row /\ item[i] \in Row
      BY RowsStayRows DEF TypeOK, Parties
    <3> QED BY <1>10, <3>1 DEF CommitRetry
  <2> QED BY <1>10, <2>1, CloseTypes DEF CommitRetry, TypeOK, Parties, PartyStates
<1>11. ASSUME NEW i \in Items, RetryDue(i) PROVE TypeOK'
  <2>1. [item[i] EXCEPT !.next = "due"] \in Row
    BY DEF TypeOK, Row
  <2> QED BY <1>11, <2>1 DEF RetryDue, TypeOK
<1>12. CASE UNCHANGED vars
  BY <1>12 DEF TypeOK, vars
<1> QED BY <1>1, <1>2, <1>3, <1>4, <1>5, <1>6, <1>7, <1>8, <1>9, <1>10, <1>11, <1>12
        DEF Next, Work, Consume, Request

\* Type correctness of the rows, the stored BOMs and the open transactions.
THEOREM TypeCorrect == Spec => []TypeOK
<1> QED BY TypeInit, TypeStep, PTL DEF Spec

-----------------------------------------------------------------------------
(* SuccessHasBom, for any overlap of transactions *)

LEMMA SuccessStep == TypeOK /\ SuccessHasBom /\ [Next]_vars => SuccessHasBom'
<1> SUFFICES ASSUME TypeOK, SuccessHasBom, [Next]_vars, NEW i \in Items,
                    item'[i].status = "success"
             PROVE  hasBom'[i]
  BY DEF SuccessHasBom
<1> USE DEF countVars, partyVars
<1>0. item[i].status = "success" => hasBom[i]
  BY DEF SuccessHasBom
<1>1. ASSUME NEW w \in Workers, ReadCandidates(w) PROVE hasBom'[i]
  BY <1>0, <1>1 DEF ReadCandidates
<1>2. ASSUME NEW w \in Workers, CommitEnqueue(w) PROVE hasBom'[i]
  <2>1. item[i] \in Row /\ read[w][i] \in Row
    BY DEF TypeOK, Parties
  <2>2. item[i].status = "success"
    BY <1>2, <2>1, OnlyResolvedSucceeds DEF CommitEnqueue
  <2> QED BY <1>0, <1>2, <2>2 DEF CommitEnqueue
<1>3. ASSUME NEW w \in Workers, EnqueueFails(w) PROVE hasBom'[i]
  BY <1>0, <1>3 DEF EnqueueFails
<1>4. ASSUME NEW w \in Workers, Claim(w) PROVE hasBom'[i]
  <2>1. item[i].status = "success"
    BY <1>4 DEF Claim, TypeOK, Row
  <2> QED BY <1>0, <1>4, <2>1 DEF Claim
<1>5. ASSUME NEW w \in Workers, BeginBatch(w) PROVE hasBom'[i]
  BY <1>0, <1>5 DEF BeginBatch
<1>6. ASSUME NEW w \in Workers, CommitBatch(w) PROVE hasBom'[i]
  <2>1. PICK outcome \in [open[w] -> Outcomes] :
          /\ item' = [j \in Items |->
                        IF j \notin open[w] THEN item[j]
                        ELSE IF outcome[j] = "success" THEN Resolved(item[j])
                        ELSE Failed(item[j], read[w][j], outcome[j])]
          /\ hasBom' = [j \in Items |-> hasBom[j] \/ (j \in open[w] /\ outcome[j] = "success")]
    BY <1>6 DEF CommitBatch
  <2>2. item[i] \in Row /\ read[w][i] \in Row
    BY DEF TypeOK, Parties
  <2>3. CASE i \in open[w] /\ outcome[i] = "success"
    BY <2>1, <2>3
  <2>4. CASE i \in open[w] /\ outcome[i] # "success"
    <3>1. item[i].status = "success"
      BY <2>1, <2>2, <2>4, OnlyResolvedSucceeds
    <3> QED BY <1>0, <2>1, <3>1
  <2>5. CASE i \notin open[w]
    BY <1>0, <2>1, <2>5
  <2> QED BY <2>3, <2>4, <2>5
<1>7. ASSUME NEW w \in Workers, RunBreaks(w) PROVE hasBom'[i]
  BY <1>0, <1>7 DEF RunBreaks
<1>8. ASSUME NEW w \in Workers, SyncBom(w) PROVE hasBom'[i]
  BY <1>0, <1>8 DEF SyncBom
<1>9. ASSUME NEW r \in Requests, ReadRetry(r) PROVE hasBom'[i]
  BY <1>0, <1>9 DEF ReadRetry
<1>10. ASSUME NEW r \in Requests, CommitRetry(r) PROVE hasBom'[i]
  <2>1. item[i] \in Row /\ read[r][i] \in Row
    BY DEF TypeOK, Parties
  <2>2. item[i].status = "success"
    BY <1>10, <2>1, OnlyResolvedSucceeds DEF CommitRetry
  <2> QED BY <1>0, <1>10, <2>2 DEF CommitRetry
<1>11. ASSUME NEW j \in Items, RetryDue(j) PROVE hasBom'[i]
  <2>1. item[i].status = "success"
    BY <1>11 DEF RetryDue, TypeOK, Row
  <2> QED BY <1>0, <1>11, <2>1 DEF RetryDue
<1>12. CASE UNCHANGED vars
  BY <1>0, <1>12 DEF vars
<1> QED BY <1>1, <1>2, <1>3, <1>4, <1>5, <1>6, <1>7, <1>8, <1>9, <1>10, <1>11, <1>12
        DEF Next, Work, Consume, Request

\* A row is successful only when the BOM of its item is stored, for any overlap
\* of batches, BOM syncs, enqueues, retries and rollbacks.
THEOREM SuccessMeansBom == Spec => []SuccessHasBom
<1>1. Init => SuccessHasBom
  BY DEF Init, SuccessHasBom, AbsentRow
<1> QED BY <1>1, SuccessStep, TypeCorrect, PTL DEF Spec
-----------------------------------------------------------------------------
(* NoStrandWithoutFault, for any overlap of transactions.  That some run   *)
(* has the row in its hands is not inductive: its batch may have read the  *)
(* row before a retry and a second claim, and then leaves the status of    *)
(* the second claim as it is.  What is kept is that some run has it still  *)
(* to read, or has read it in processing.                                  *)

InGoodHands(w, i) ==
  \/ i \in hand[w]
  \/ pc[w] = "syncing" /\ i \in open[w] /\ read[w][i].status = "processing"

NoneLost ==
  faults = 0 =>
     \A i \in Items : item[i].status = "processing" => \E w \in Workers : InGoodHands(w, i)

\* A worker between runs has no claims left over.
HandsEmpty == \A w \in Workers : hand[w] # {} => pc[w] \in {"consuming", "syncing"}

LEMMA HandsStep == TypeOK /\ HandsEmpty /\ [Next]_vars => HandsEmpty'
<1> SUFFICES ASSUME TypeOK, HandsEmpty, [Next]_vars, NEW v \in Workers, hand'[v] # {}
             PROVE  pc'[v] \in {"consuming", "syncing"}
  BY DEF HandsEmpty
<1> USE DEF countVars, partyVars
<1>0. hand[v] # {} => pc[v] \in {"consuming", "syncing"}
  BY DEF HandsEmpty
<1>t. pc \in [Parties -> PartyStates] /\ hand \in [Workers -> SUBSET Items] /\ v \in Parties
  BY DEF TypeOK, Parties
<1>1. ASSUME NEW w \in Workers, ReadCandidates(w) PROVE pc'[v] \in {"consuming", "syncing"}
  BY <1>0, <1>t, <1>1 DEF ReadCandidates, Open
<1>2. ASSUME NEW w \in Workers, CommitEnqueue(w) \/ EnqueueFails(w)
      PROVE  pc'[v] \in {"consuming", "syncing"}
  BY <1>0, <1>t, <1>2 DEF CommitEnqueue, EnqueueFails, Close
<1>3. ASSUME NEW w \in Workers, Claim(w) PROVE pc'[v] \in {"consuming", "syncing"}
  BY <1>0, <1>t, <1>3 DEF Claim
<1>4. ASSUME NEW w \in Workers, BeginBatch(w) PROVE pc'[v] \in {"consuming", "syncing"}
  BY <1>0, <1>t, <1>4 DEF BeginBatch, Open
<1>5. ASSUME NEW w \in Workers, CommitBatch(w) PROVE pc'[v] \in {"consuming", "syncing"}
  BY <1>0, <1>t, <1>5 DEF CommitBatch, Close
<1>6. ASSUME NEW w \in Workers, RunBreaks(w) PROVE pc'[v] \in {"consuming", "syncing"}
  BY <1>0, <1>t, <1>6 DEF RunBreaks, Close
<1>7. ASSUME NEW w \in Workers, SyncBom(w) PROVE pc'[v] \in {"consuming", "syncing"}
  BY <1>0, <1>7 DEF SyncBom
<1>8. ASSUME NEW r \in Requests, ReadRetry(r) PROVE pc'[v] \in {"consuming", "syncing"}
  BY <1>0, <1>t, <1>8 DEF ReadRetry, Open
<1>9. ASSUME NEW r \in Requests, CommitRetry(r) PROVE pc'[v] \in {"consuming", "syncing"}
  BY <1>0, <1>t, <1>9 DEF CommitRetry, Close
<1>10. ASSUME NEW i \in Items, RetryDue(i) PROVE pc'[v] \in {"consuming", "syncing"}
  BY <1>0, <1>10 DEF RetryDue
<1>11. CASE UNCHANGED vars
  BY <1>0, <1>11 DEF vars
<1> QED BY <1>1, <1>2, <1>3, <1>4, <1>5, <1>6, <1>7, <1>8, <1>9, <1>10, <1>11
        DEF Next, Work, Consume, Request

\* A write other than a claim leaves a row in processing only if it was.
LEMMA OnlyClaimsProcess ==
  ASSUME NEW row \in Row, NEW seen \in Row
  PROVE  /\ Upserted(row, seen).status = "processing" => row.status = "processing"
         /\ Retried(row, seen).status = "processing" => row.status = "processing"
         /\ Resolved(row).status # "processing" \/ row.status = "processing"
         /\ \A o \in Outcomes : Failed(row, seen, o).status = "processing" =>
               row.status = "processing" /\ seen.status # "processing"
<1>1. ASSUME NEW new, new.status # "processing", Flush(row, seen, new).status = "processing"
      PROVE  row.status = "processing" /\ seen.status # "processing"
  BY <1>1 DEF Flush
<1>2. Queued.status = "pending"
  BY DEF Queued, AbsentRow
<1>3. Upserted(row, seen).status = "processing" => row.status = "processing"
  BY <1>1, <1>2 DEF Upserted
<1>4. Retried(row, seen).status = "processing" => row.status = "processing"
  <2>1. [seen EXCEPT !.status = "pending", !.next = "none"].status # "processing"
    BY DEF Row
  <2> QED BY <1>1, <2>1 DEF Retried
<1>5. Resolved(row).status # "processing" \/ row.status = "processing"
  BY DEF Resolved, Row
<1>6. ASSUME NEW o \in Outcomes, Failed(row, seen, o).status = "processing"
      PROVE  row.status = "processing" /\ seen.status # "processing"
  BY <1>1, <1>6 DEF Failed
<1> QED BY <1>3, <1>4, <1>5, <1>6

\* What a worker or a request does that is not a batch takes nothing out of the
\* hands of a run.
LEMMA HandsKept ==
  ASSUME TypeOK, NEW p \in Parties, pc[p] \notin {"consuming", "syncing"},
         \A q \in Parties \ {p} : pc'[q] = pc[q] /\ open'[q] = open[q] /\ read'[q] = read[q],
         hand' = hand, NEW w \in Workers, NEW i \in Items, InGoodHands(w, i)
  PROVE  InGoodHands(w, i)'
<1>1. CASE i \in hand[w]
  BY <1>1 DEF InGoodHands
<1>2. CASE pc[w] = "syncing" /\ i \in open[w] /\ read[w][i].status = "processing"
  <2>1. w \in Parties \ {p}
    BY <1>2 DEF Parties
  <2> QED BY <1>2, <2>1 DEF InGoodHands
<1> QED BY <1>1, <1>2 DEF InGoodHands

LEMMA NoneLostStep == TypeOK /\ HandsEmpty /\ NoneLost /\ [Next]_vars => NoneLost'
<1> SUFFICES ASSUME TypeOK, HandsEmpty, NoneLost, [Next]_vars, faults' = 0,
                    NEW i \in Items, item'[i].status = "processing"
             PROVE  \E w \in Workers : InGoodHands(w, i)'
  BY DEF NoneLost
<1> DEFINE Goal == \E w \in Workers : InGoodHands(w, i)'
<1> USE DEF countVars, partyVars
<1>0. ASSUME faults = 0, item[i].status = "processing"
      PROVE  \E w \in Workers : InGoodHands(w, i)
  BY <1>0 DEF NoneLost
<1>t. /\ Workers \subseteq Parties /\ Requests \subseteq Parties
      /\ \A p \in Parties : item[i] \in Row /\ read[p][i] \in Row
      /\ pc \in [Parties -> PartyStates] /\ open \in [Parties -> SUBSET Items]
      /\ read \in [Parties -> [Items -> Row]] /\ hand \in [Workers -> SUBSET Items]
  BY DEF TypeOK, Parties
<1>1. ASSUME NEW w \in Workers, ReadCandidates(w) PROVE Goal
  <2>1. \A q \in Parties \ {w} : pc'[q] = pc[q] /\ open'[q] = open[q] /\ read'[q] = read[q]
    BY <1>1, <1>t DEF ReadCandidates, Open
  <2>2. pc[w] \notin {"consuming", "syncing"} /\ w \in Parties /\ UNCHANGED <<item, hand, faults>>
    BY <1>1, <1>t DEF ReadCandidates
  <2> QED BY <1>0, <2>1, <2>2, HandsKept
<1>2. ASSUME NEW w \in Workers, CommitEnqueue(w) PROVE Goal
  <2>1. \A q \in Parties \ {w} : pc'[q] = pc[q] /\ open'[q] = open[q] /\ read'[q] = read[q]
    BY <1>2, <1>t DEF CommitEnqueue, Close
  <2>2. pc[w] \notin {"consuming", "syncing"} /\ w \in Parties /\ UNCHANGED <<hand, faults>>
    BY <1>2, <1>t DEF CommitEnqueue
  <2>3. item[i].status = "processing"
    BY <1>2, <1>t, OnlyClaimsProcess DEF CommitEnqueue
  <2> QED BY <1>0, <2>1, <2>2, <2>3, HandsKept
<1>3. ASSUME NEW w \in Workers, EnqueueFails(w) PROVE Goal
  <2>1. \A q \in Parties \ {w} : pc'[q] = pc[q] /\ open'[q] = open[q] /\ read'[q] = read[q]
    BY <1>3, <1>t DEF EnqueueFails, Close
  <2>2. pc[w] \notin {"consuming", "syncing"} /\ w \in Parties /\ UNCHANGED <<item, hand, faults>>
    BY <1>3, <1>t DEF EnqueueFails
  <2> QED BY <1>0, <2>1, <2>2, HandsKept
<1>4. ASSUME NEW w \in Workers, Claim(w) PROVE Goal
  <2>1. PICK S \in SUBSET Claimable :
          /\ item' = [j \in Items |-> IF j \in S THEN [item[j] EXCEPT !.status = "processing"]
                                                ELSE item[j]]
          /\ hand' = [hand EXCEPT ![w] = S]
    BY <1>4 DEF Claim
  <2>2. CASE i \in S
    BY <1>t, <2>1, <2>2 DEF InGoodHands
  <2>3. CASE i \notin S
    <3>1. item[i].status = "processing" /\ faults = 0
      BY <1>4, <2>1, <2>3 DEF Claim
    <3>2. PICK v \in Workers : InGoodHands(v, i)
      BY <1>0, <3>1
    <3>3. v # w
      BY <1>4, <3>2 DEF Claim, InGoodHands, HandsEmpty
    <3> QED BY <1>4, <1>t, <2>1, <3>2, <3>3 DEF Claim, InGoodHands
  <2> QED BY <2>2, <2>3
<1>5. ASSUME NEW w \in Workers, BeginBatch(w) PROVE Goal
  <2>1. PICK S \in SUBSET hand[w] : /\ Open(w, S, "syncing")
                                    /\ hand' = [hand EXCEPT ![w] = @ \ S]
    BY <1>5 DEF BeginBatch
  <2>2. item[i].status = "processing" /\ faults = 0
    BY <1>5 DEF BeginBatch
  <2>3. PICK v \in Workers : InGoodHands(v, i)
    BY <1>0, <2>2
  <2>4. CASE v # w
    BY <1>t, <2>1, <2>3, <2>4 DEF Open, InGoodHands
  <2>5. CASE v = w
    <3>1. i \in hand[w]
      BY <1>5, <2>3, <2>5 DEF BeginBatch, InGoodHands
    <3>2. CASE i \in S
      BY <1>t, <2>1, <2>2, <3>2 DEF Open, InGoodHands
    <3>3. CASE i \notin S
      BY <1>t, <2>1, <3>1, <3>3 DEF InGoodHands
    <3> QED BY <3>2, <3>3
  <2> QED BY <2>4, <2>5
<1>6. ASSUME NEW w \in Workers, CommitBatch(w) PROVE Goal
  <2>1. PICK outcome \in [open[w] -> Outcomes] :
          item' = [j \in Items |->
                        IF j \notin open[w] THEN item[j]
                        ELSE IF outcome[j] = "success" THEN Resolved(item[j])
                        ELSE Failed(item[j], read[w][j], outcome[j])]
    BY <1>6 DEF CommitBatch
  <2>2. item[i].status = "processing" /\ (i \in open[w] => read[w][i].status # "processing")
    <3>1. CASE i \notin open[w]
      BY <2>1, <3>1
    <3>2. CASE i \in open[w] /\ outcome[i] = "success"
      <4>1. item[i] \in Row /\ item'[i] = Resolved(item[i])
        BY <1>t, <2>1, <3>2
      <4>2. Resolved(item[i]).status \in {"absent", "success"}
        BY <4>1 DEF Resolved, Row
      <4> QED BY <4>1, <4>2
    <3>3. CASE i \in open[w] /\ outcome[i] # "success"
      BY <1>t, <2>1, <3>3, OnlyClaimsProcess
    <3> QED BY <3>1, <3>2, <3>3
  <2>3. PICK v \in Workers : InGoodHands(v, i)
    BY <1>0, <1>6, <2>2 DEF CommitBatch
  <2>4. CASE i \in hand[v]
    BY <1>6, <2>4 DEF CommitBatch, InGoodHands
  <2>5. CASE pc[v] = "syncing" /\ i \in open[v] /\ read[v][i].status = "processing"
    <3>1. v # w
      BY <2>2, <2>5
    <3> QED BY <1>6, <1>t, <2>5, <3>1 DEF CommitBatch, Close, InGoodHands
  <2> QED BY <2>3, <2>4, <2>5 DEF InGoodHands
<1>7. ASSUME NEW w \in Workers, RunBreaks(w) PROVE Goal
  BY <1>7 DEF RunBreaks, TypeOK
<1>8. ASSUME NEW w \in Workers, SyncBom(w) PROVE Goal
  <2>1. item[i].status = "processing"
    BY <1>8, <1>t, OnlyClaimsProcess DEF SyncBom
  <2>2. UNCHANGED <<pc, hand, open, read, faults>>
    BY <1>8 DEF SyncBom
  <2> QED BY <1>0, <2>1, <2>2 DEF InGoodHands
<1>9. ASSUME NEW r \in Requests, ReadRetry(r) PROVE Goal
  <2>1. \A q \in Parties \ {r} : pc'[q] = pc[q] /\ open'[q] = open[q] /\ read'[q] = read[q]
    BY <1>9, <1>t DEF ReadRetry, Open
  <2>2. pc[r] \notin {"consuming", "syncing"} /\ r \in Parties /\ UNCHANGED <<item, hand, faults>>
    BY <1>9, <1>t DEF ReadRetry
  <2> QED BY <1>0, <2>1, <2>2, HandsKept
<1>10. ASSUME NEW r \in Requests, CommitRetry(r) PROVE Goal
  <2>1. \A q \in Parties \ {r} : pc'[q] = pc[q] /\ open'[q] = open[q] /\ read'[q] = read[q]
    BY <1>10, <1>t DEF CommitRetry, Close
  <2>2. pc[r] \notin {"consuming", "syncing"} /\ r \in Parties /\ UNCHANGED <<hand, faults>>
    BY <1>10, <1>t DEF CommitRetry
  <2>3. item[i].status = "processing"
    BY <1>10, <1>t, OnlyClaimsProcess DEF CommitRetry
  <2> QED BY <1>0, <2>1, <2>2, <2>3, HandsKept
<1>11. ASSUME NEW j \in Items, RetryDue(j) PROVE Goal
  <2>1. item[i].status = "processing" /\ UNCHANGED <<pc, hand, open, read, faults>>
    BY <1>11, <1>t DEF RetryDue, TypeOK, Row
  <2> QED BY <1>0, <2>1 DEF InGoodHands
<1>12. CASE UNCHANGED vars
  BY <1>0, <1>12 DEF vars, InGoodHands
<1> QED BY <1>1, <1>2, <1>3, <1>4, <1>5, <1>6, <1>7, <1>8, <1>9, <1>10, <1>11, <1>12
        DEF Next, Work, Consume, Request

\* As long as no run has broken, every row in processing is in the hands of a
\* run, for any overlap of enqueues, retries, batches and BOM syncs.
THEOREM NothingStrandsWithoutFault == Spec => []NoStrandWithoutFault
<1>1. Init => HandsEmpty /\ NoneLost
  BY DEF Init, HandsEmpty, NoneLost, AbsentRow
<1>2. HandsEmpty /\ NoneLost => NoStrandWithoutFault
  BY DEF NoneLost, NoStrandWithoutFault, Stranded, Held, InGoodHands
<1> QED BY <1>1, <1>2, HandsStep, NoneLostStep, TypeCorrect, PTL DEF Spec
-----------------------------------------------------------------------------
(* HeldOnce and RetryWaitHasRoom, under Prompt.  An open enqueue or retry  *)
(* has read the statuses that still stand, so it leaves held rows alone;   *)
(* held rows are in processing, or were resolved by a BOM sync, and the    *)
(* candidates of an enqueue have no BOM, so they are not resolved ones.    *)

OneReads == \A p, q \in Parties : Reading(p) /\ Reading(q) => p = q

ReadsStand ==
  \A p \in Parties : Reading(p) =>
     \A i \in open[p] : /\ read[p][i].status = item[i].status
                        /\ pc[p] = "enqueuing" => ~hasBom[i]

HeldRowsKnown ==
  \A w \in Workers : \A i \in Held(w) :
     /\ item[i].status \in {"processing", "success"}
     /\ i \in open[w] /\ pc[w] = "syncing" => read[w][i].status \in {"processing", "success"}

HandAndBatchApart == \A w \in Workers : pc[w] = "syncing" => hand[w] \intersect open[w] = {}

PromptInv ==
  /\ OneReads /\ ReadsStand /\ HeldRowsKnown /\ HandAndBatchApart
  /\ HeldOnce /\ RetryWaitHasRoom

\* All that is used of a state of the queue.
BackfillInv == TypeOK /\ SuccessHasBom /\ HandsEmpty /\ PromptInv

LEMMA PromptInit == Init => PromptInv
<1> SUFFICES ASSUME Init PROVE PromptInv
  OBVIOUS
<1>1. \A p \in Parties : pc[p] = "idle"
  BY DEF Init
<1>2. \A w \in Workers : Held(w) = {}
  BY <1>1 DEF Init, Held, Parties
<1> QED BY <1>1, <1>2 DEF Init, PromptInv, OneReads, ReadsStand, HeldRowsKnown,
        HandAndBatchApart, HeldOnce, RetryWaitHasRoom, Reading, AbsentRow, Parties

\* An enqueue or a retry whose reads stand makes at most a row that is neither in
\* processing nor resolved wait for its next claim.
LEMMA StandingWrite ==
  ASSUME NEW row \in Row, NEW seen \in Row, seen.status = row.status
  PROVE  /\ row.status = "processing" => Upserted(row, seen) = row /\ Retried(row, seen) = row
         /\ row.status = "success" => Retried(row, seen) = row
         /\ Upserted(row, seen) = row \/ Upserted(row, seen).status = "pending"
         /\ Retried(row, seen) = row \/ Retried(row, seen).status = "pending"
<1>1. row.status = "processing" => Upserted(row, seen) = row
  BY DEF Upserted, Retryable
<1>2. row.status \in {"processing", "success"} => Retried(row, seen) = row
  BY DEF Retried, Retryable
<1>3. Queued.status = "pending"
  BY DEF Queued, AbsentRow
<1>4. ASSUME NEW new, new.status = "pending", seen.status # "pending"
      PROVE  Flush(row, seen, new).status = "pending"
  BY <1>4 DEF Flush
<1>5. Upserted(row, seen) = row \/ Upserted(row, seen).status = "pending"
  <2>1. CASE seen.status = "absent"
    BY <1>3, <2>1 DEF Upserted, Retryable
  <2>2. CASE seen.status \in Retryable \union {"success"}
    BY <1>3, <1>4, <2>2 DEF Upserted, Retryable
  <2>3. CASE seen.status \notin Retryable \union {"success", "absent"}
    BY <2>3 DEF Upserted
  <2> QED BY <2>1, <2>2, <2>3
<1>6. Retried(row, seen) = row \/ Retried(row, seen).status = "pending"
  <2>1. [seen EXCEPT !.status = "pending", !.next = "none"].status = "pending"
    BY DEF Row
  <2> QED BY <1>4, <2>1 DEF Retried, Retryable
<1> QED BY <1>1, <1>2, <1>5, <1>6

LEMMA OneReadsStep == Prompt /\ BackfillInv /\ [Next]_vars => OneReads'
<1> SUFFICES ASSUME Prompt, BackfillInv, [Next]_vars PROVE OneReads'
  OBVIOUS
<1> USE DEF countVars, partyVars
<1>t. /\ OneReads /\ Workers \subseteq Parties /\ Requests \subseteq Parties
      /\ pc \in [Parties -> PartyStates]
  BY DEF BackfillInv, PromptInv, TypeOK, Parties
<1>1. ASSUME NEW p \in Parties, NEW S, NEW state, Open(p, S, state), Undisturbed(p)
      PROVE  OneReads'
  BY <1>t, <1>1 DEF Open, Undisturbed, OneReads, Reading
<1>2. ASSUME NEW p \in Parties, NEW state \in {"idle", "consuming"}, Close(p, state)
      PROVE  OneReads'
  BY <1>t, <1>2 DEF Close, OneReads, Reading
<1>3. ASSUME NEW w \in Workers, Work(w) PROVE OneReads'
  <2>1. ASSUME ReadCandidates(w) PROVE OneReads'
    BY <1>1, <1>t, <2>1 DEF ReadCandidates
  <2>2. ASSUME CommitEnqueue(w) \/ EnqueueFails(w) \/ RunBreaks(w) \/ CommitBatch(w)
        PROVE  OneReads'
    BY <1>2, <1>t, <2>2 DEF CommitEnqueue, EnqueueFails, RunBreaks, CommitBatch
  <2>3. ASSUME Claim(w) PROVE OneReads'
    BY <1>t, <2>3 DEF Claim, OneReads, Reading
  <2>4. ASSUME BeginBatch(w) PROVE OneReads'
    BY <1>t, <2>4 DEF BeginBatch, Open, OneReads, Reading
  <2>5. ASSUME SyncBom(w) PROVE OneReads'
    BY <1>t, <2>5 DEF SyncBom, OneReads, Reading
  <2> QED BY <1>3, <2>1, <2>2, <2>3, <2>4, <2>5 DEF Work, Consume
<1>4. ASSUME NEW r \in Requests, Request(r) PROVE OneReads'
  BY <1>1, <1>2, <1>t, <1>4 DEF Request, ReadRetry, CommitRetry
<1>5. ASSUME NEW i \in Items, RetryDue(i) PROVE OneReads'
  BY <1>t, <1>5 DEF RetryDue, OneReads, Reading
<1>6. CASE UNCHANGED vars
  BY <1>t, <1>6 DEF vars, OneReads, Reading
<1> QED BY <1>3, <1>4, <1>5, <1>6 DEF Next

\* While a read is open, the row statuses and the BOMs stand still, save by its
\* own commit.
LEMMA ReadsStandStep == Prompt /\ BackfillInv /\ [Next]_vars => ReadsStand'
<1> SUFFICES ASSUME Prompt, BackfillInv, [Next]_vars,
                    NEW p \in Parties, Reading(p)', NEW i \in open'[p]
             PROVE  /\ read'[p][i].status = item'[i].status
                    /\ pc'[p] = "enqueuing" => ~hasBom'[i]
  BY DEF ReadsStand
<1> DEFINE Goal == /\ read'[p][i].status = item'[i].status
                   /\ pc'[p] = "enqueuing" => ~hasBom'[i]
<1> USE DEF countVars, partyVars
<1>t. /\ Workers \subseteq Parties /\ Requests \subseteq Parties
      /\ pc \in [Parties -> PartyStates] /\ open \in [Parties -> SUBSET Items]
      /\ read \in [Parties -> [Items -> Row]] /\ item \in [Items -> Row]
  BY DEF BackfillInv, TypeOK, Parties
<1>0. ASSUME Reading(p), i \in open[p]
      PROVE  /\ read[p][i].status = item[i].status
             /\ pc[p] = "enqueuing" => ~hasBom[i]
  BY <1>0 DEF BackfillInv, PromptInv, ReadsStand
<1>1. ASSUME UNCHANGED <<pc, open, read, hasBom>>, \A j \in Items : item'[j].status = item[j].status
      PROVE  Goal
  <2>1. i \in Items
    BY <1>1, <1>t
  <2> QED BY <1>0, <1>1, <2>1 DEF Reading
<1>2. ASSUME NEW q \in Parties, NEW state \in {"idle", "consuming"}, Close(q, state),
             UNCHANGED <<item, hasBom>> \/ Undisturbed(q)
      PROVE  Goal
  <2>1. p # q
    BY <1>2, <1>t DEF Close, Reading
  <2>2. pc'[p] = pc[p] /\ open'[p] = open[p] /\ read'[p] = read[p]
    BY <1>2, <1>t, <2>1 DEF Close
  <2>3. ~Undisturbed(q)
    BY <2>1, <2>2 DEF Undisturbed, Reading
  <2> QED BY <1>0, <1>2, <2>2, <2>3 DEF Reading
<1>3. ASSUME NEW q \in Parties, NEW S \in SUBSET Items, NEW state, Open(q, S, state),
             UNCHANGED <<item, hasBom>>, state = "enqueuing" => \A j \in S : ~hasBom[j]
      PROVE  Goal
  <2>1. CASE p = q
    <3>1. pc'[p] = state /\ open'[p] = S /\ i \in S /\ i \in Items
      BY <1>3, <1>t, <2>1 DEF Open
    <3>2. read'[p][i] = item[i]
      BY <1>3, <1>t, <2>1, <3>1 DEF Open
    <3> QED BY <1>3, <3>1, <3>2
  <2>2. CASE p # q
    <3>1. pc'[p] = pc[p] /\ open'[p] = open[p] /\ read'[p] = read[p]
      BY <1>3, <1>t, <2>2 DEF Open
    <3> QED BY <1>0, <1>3, <3>1 DEF Reading
  <2> QED BY <2>1, <2>2
<1>4. ASSUME NEW w \in Workers, Claim(w) \/ SyncBom(w) PROVE Goal
  <2>1. pc'[p] = pc[p]
    BY <1>4, <1>t DEF Claim, SyncBom, Reading
  <2>2. p # w
    BY <1>4, <2>1 DEF Claim, SyncBom, Reading
  <2> QED BY <1>4, <1>t, <2>1, <2>2 DEF Claim, SyncBom, Undisturbed, Reading
<1>5. ASSUME NEW w \in Workers, Work(w) PROVE Goal
  <2>1. ASSUME ReadCandidates(w) PROVE Goal
    <3>1. PICK S \in SUBSET {j \in Items : ~hasBom[j]} : Open(w, S, "enqueuing")
      BY <2>1 DEF ReadCandidates
    <3> QED BY <1>3, <1>t, <2>1, <3>1 DEF ReadCandidates
  <2>2. ASSUME CommitEnqueue(w) \/ EnqueueFails(w) \/ RunBreaks(w) \/ CommitBatch(w) PROVE Goal
    <3>1. UNCHANGED <<item, hasBom>> \/ Undisturbed(w)
      BY <2>2 DEF CommitEnqueue, EnqueueFails, RunBreaks, CommitBatch
    <3>2. \E state \in {"idle", "consuming"} : Close(w, state)
      BY <2>2 DEF CommitEnqueue, EnqueueFails, RunBreaks, CommitBatch
    <3> QED BY <1>2, <1>t, <3>1, <3>2
  <2>3. ASSUME BeginBatch(w) PROVE Goal
    <3>1. PICK S \in SUBSET hand[w] : Open(w, S, "syncing")
      BY <2>3 DEF BeginBatch
    <3>2. S \in SUBSET Items
      BY DEF BackfillInv, TypeOK
    <3> QED BY <1>3, <1>t, <2>3, <3>1, <3>2 DEF BeginBatch
  <2> QED BY <1>4, <1>5, <2>1, <2>2, <2>3 DEF Work, Consume
<1>6. ASSUME NEW r \in Requests, ReadRetry(r) PROVE Goal
  <2>1. PICK S \in SUBSET Items : Open(r, S, "retrying")
    BY <1>6 DEF ReadRetry
  <2> QED BY <1>3, <1>6, <1>t, <2>1 DEF ReadRetry
<1>7. ASSUME NEW r \in Requests, CommitRetry(r) PROVE Goal
  BY <1>2, <1>7, <1>t DEF CommitRetry
<1>8. ASSUME NEW j \in Items, RetryDue(j) PROVE Goal
  <2>1. \A k \in Items : item'[k].status = item[k].status
    BY <1>8, <1>t DEF RetryDue, Row
  <2> QED BY <1>1, <1>8, <2>1 DEF RetryDue
<1>9. CASE UNCHANGED vars
  BY <1>1, <1>9 DEF vars
<1> QED BY <1>5, <1>6, <1>7, <1>8, <1>9 DEF Next, Request
\* An enqueue or a retry leaves a row that a run holds as it is.
LEMMA HeldRowsUntouched ==
  ASSUME Prompt, BackfillInv, NEW p \in Parties, Reading(p), NEW w \in Workers,
         NEW i \in Held(w), i \in open[p]
  PROVE  /\ pc[p] = "enqueuing" => Upserted(item[i], read[p][i]) = item[i]
         /\ Retried(item[i], read[p][i]) = item[i]
<1>1. i \in Items /\ item[i] \in Row /\ read[p][i] \in Row
  BY DEF BackfillInv, TypeOK
<1>2. /\ read[p][i].status = item[i].status
      /\ pc[p] = "enqueuing" => ~hasBom[i]
  BY DEF BackfillInv, PromptInv, ReadsStand
<1>3. item[i].status \in {"processing", "success"}
  BY DEF BackfillInv, PromptInv, HeldRowsKnown
<1>4. pc[p] = "enqueuing" => item[i].status # "success"
  BY <1>1, <1>2 DEF BackfillInv, SuccessHasBom
<1> QED BY <1>1, <1>2, <1>3, <1>4, StandingWrite

\* What the holder's own steps do to Held.
LEMMA HeldSteps ==
  ASSUME TypeOK, HandsEmpty, NEW w \in Workers
  PROVE  /\ (ReadCandidates(w) \/ CommitEnqueue(w) \/ EnqueueFails(w) \/ SyncBom(w)) =>
               Held(w) = {} /\ Held(w)' = {}
         /\ BeginBatch(w) => Held(w)' = Held(w)
         /\ CommitBatch(w) => Held(w)' = hand[w]
         /\ RunBreaks(w) => Held(w)' = {}
<1> USE DEF countVars, partyVars
<1>t. /\ w \in Parties /\ pc \in [Parties -> PartyStates] /\ open \in [Parties -> SUBSET Items]
      /\ hand \in [Workers -> SUBSET Items]
  BY DEF TypeOK, Parties
<1>0. pc[w] \notin {"consuming", "syncing"} => Held(w) = {}
  BY DEF HandsEmpty, Held
<1>1. ReadCandidates(w) => Held(w) = {} /\ Held(w)' = {}
  BY <1>t, <1>0 DEF ReadCandidates, Open, Held
<1>2. CommitEnqueue(w) \/ EnqueueFails(w) => Held(w) = {} /\ Held(w)' = {}
  BY <1>t, <1>0 DEF CommitEnqueue, EnqueueFails, Close, Held
<1>3. SyncBom(w) => Held(w) = {} /\ Held(w)' = {}
  BY <1>t, <1>0 DEF SyncBom, Held
<1>4. BeginBatch(w) => Held(w)' = Held(w)
  <2> SUFFICES ASSUME BeginBatch(w) PROVE Held(w)' = Held(w)
    OBVIOUS
  <2>1. PICK S \in SUBSET hand[w] : /\ Open(w, S, "syncing")
                                    /\ hand' = [hand EXCEPT ![w] = @ \ S]
    BY DEF BeginBatch
  <2>2. pc'[w] = "syncing" /\ open'[w] = S /\ hand'[w] = hand[w] \ S
    BY <1>t, <2>1 DEF Open
  <2>3. pc[w] = "consuming"
    BY DEF BeginBatch
  <2> QED BY <2>2, <2>3 DEF Held
<1>5. CommitBatch(w) => Held(w)' = hand[w]
  BY <1>t DEF CommitBatch, Close, Held
<1>6. RunBreaks(w) => Held(w)' = {}
  BY <1>t DEF RunBreaks, Close, Held
<1> QED BY <1>1, <1>2, <1>3, <1>4, <1>5, <1>6

\* A step of a worker other than v, or of a request, leaves alone what v holds.
LEMMA HeldByOthers ==
  ASSUME TypeOK, NEW v \in Workers
  PROVE  /\ \A w \in Workers : w # v /\ Work(w) =>
               /\ Held(v)' = Held(v) /\ pc'[v] = pc[v] /\ open'[v] = open[v]
               /\ read'[v] = read[v] /\ hand'[v] = hand[v]
         /\ \A r \in Requests : Request(r) =>
               /\ Held(v)' = Held(v) /\ pc'[v] = pc[v] /\ open'[v] = open[v]
               /\ read'[v] = read[v] /\ hand'[v] = hand[v]
<1> USE DEF countVars, partyVars
<1>t. /\ v \in Parties /\ Workers \subseteq Parties /\ Requests \subseteq Parties
      /\ pc \in [Parties -> PartyStates] /\ open \in [Parties -> SUBSET Items]
      /\ read \in [Parties -> [Items -> Row]] /\ hand \in [Workers -> SUBSET Items]
  BY DEF TypeOK, Parties
<1>1. ASSUME pc'[v] = pc[v], open'[v] = open[v], hand'[v] = hand[v]
      PROVE  Held(v)' = Held(v)
  BY <1>1 DEF Held
<1>2. ASSUME NEW w \in Workers, w # v, Work(w)
      PROVE  /\ pc'[v] = pc[v] /\ open'[v] = open[v] /\ read'[v] = read[v] /\ hand'[v] = hand[v]
  <2>1. ASSUME ReadCandidates(w) \/ BeginBatch(w)
        PROVE  /\ pc'[v] = pc[v] /\ open'[v] = open[v] /\ read'[v] = read[v] /\ hand'[v] = hand[v]
    BY <1>2, <1>t, <2>1 DEF ReadCandidates, BeginBatch, Open
  <2>2. ASSUME CommitEnqueue(w) \/ EnqueueFails(w) \/ RunBreaks(w) \/ CommitBatch(w)
        PROVE  /\ pc'[v] = pc[v] /\ open'[v] = open[v] /\ read'[v] = read[v] /\ hand'[v] = hand[v]
    BY <1>2, <1>t, <2>2 DEF CommitEnqueue, EnqueueFails, RunBreaks, CommitBatch, Close
  <2>3. ASSUME Claim(w) \/ SyncBom(w)
        PROVE  /\ pc'[v] = pc[v] /\ open'[v] = open[v] /\ read'[v] = read[v] /\ hand'[v] = hand[v]
    BY <1>2, <1>t, <2>3 DEF Claim, SyncBom
  <2> QED BY <1>2, <2>1, <2>2, <2>3 DEF Work, Consume
<1>3. ASSUME NEW r \in Requests, Request(r)
      PROVE  /\ pc'[v] = pc[v] /\ open'[v] = open[v] /\ read'[v] = read[v] /\ hand'[v] = hand[v]
  <2>1. r # v
    BY PartiesDistinct
  <2> QED BY <1>3, <1>t, <2>1 DEF Request, ReadRetry, CommitRetry, Open, Close
<1> QED BY <1>1, <1>2, <1>3
LEMMA ClaimSteps ==
  ASSUME TypeOK, NEW w \in Workers, Claim(w)
  PROVE  \E S \in SUBSET Claimable :
           /\ item' = [i \in Items |-> IF i \in S THEN [item[i] EXCEPT !.status = "processing"]
                                                 ELSE item[i]]
           /\ hand'[w] = S /\ Held(w)' = S /\ pc'[w] = "consuming"
<1>1. PICK S \in SUBSET Claimable :
        /\ item' = [i \in Items |-> IF i \in S THEN [item[i] EXCEPT !.status = "processing"]
                                              ELSE item[i]]
        /\ hand' = [hand EXCEPT ![w] = S]
  BY DEF Claim
<1>2. pc'[w] = "consuming" /\ hand'[w] = S
  BY <1>1 DEF Claim, TypeOK, Parties
<1> QED BY <1>1, <1>2 DEF Held

LEMMA BatchSteps ==
  ASSUME NEW w \in Workers, CommitBatch(w)
  PROVE  \E outcome \in [open[w] -> Outcomes] :
           \A i \in Items :
             item'[i] = IF i \notin open[w] THEN item[i]
                        ELSE IF outcome[i] = "success" THEN Resolved(item[i])
                        ELSE Failed(item[i], read[w][i], outcome[i])
BY DEF CommitBatch

LEMMA HeldRowsStep == Prompt /\ BackfillInv /\ [Next]_vars => HeldRowsKnown'
<1> SUFFICES ASSUME Prompt, BackfillInv, [Next]_vars, NEW v \in Workers, NEW i \in Held(v)'
             PROVE  /\ item'[i].status \in {"processing", "success"}
                    /\ i \in open'[v] /\ pc'[v] = "syncing" =>
                          read'[v][i].status \in {"processing", "success"}
  BY DEF HeldRowsKnown
<1> DEFINE Fine == item'[i].status \in {"processing", "success"}
           Goal == /\ Fine
                   /\ i \in open'[v] /\ pc'[v] = "syncing" =>
                         read'[v][i].status \in {"processing", "success"}
<1> USE DEF countVars, partyVars
<1>t. /\ TypeOK /\ HandsEmpty
      /\ Workers \subseteq Parties /\ Requests \subseteq Parties
      /\ open \in [Parties -> SUBSET Items] /\ hand \in [Workers -> SUBSET Items]
      /\ read \in [Parties -> [Items -> Row]] /\ item \in [Items -> Row]
      /\ pc \in [Parties -> PartyStates]
  BY DEF BackfillInv, TypeOK, Parties
<1>h. \A w \in Workers : Held(w) \subseteq Items
  BY <1>t DEF Held
<1>0. ASSUME i \in Held(v)
      PROVE  /\ item[i].status \in {"processing", "success"}
             /\ i \in open[v] /\ pc[v] = "syncing" => read[v][i].status \in {"processing", "success"}
  BY <1>0 DEF BackfillInv, PromptInv, HeldRowsKnown
<1>1. ASSUME Work(v) PROVE Goal
  <2>1. ASSUME Claim(v) PROVE Goal
    <3>1. PICK S \in SUBSET Claimable :
           /\ item' = [j \in Items |-> IF j \in S THEN [item[j] EXCEPT !.status = "processing"]
                                                 ELSE item[j]]
           /\ Held(v)' = S /\ pc'[v] = "consuming"
      BY <1>t, <2>1, ClaimSteps
    <3>2. i \in S /\ i \in Items
      BY <3>1 DEF Claimable
    <3> QED BY <1>t, <3>1, <3>2 DEF Row
  <2>2. ASSUME BeginBatch(v) PROVE Goal
    <3>1. i \in Held(v) /\ i \in Items
      BY <1>h, <1>t, <2>2, HeldSteps
    <3>2. PICK S \in SUBSET hand[v] : Open(v, S, "syncing")
      BY <2>2 DEF BeginBatch
    <3>3. i \in open'[v] => read'[v][i] = item[i]
      BY <1>t, <3>1, <3>2 DEF Open
    <3> QED BY <1>0, <2>2, <3>1, <3>3 DEF BeginBatch
  <2>3. ASSUME CommitBatch(v) PROVE Goal
    <3>1. i \in hand[v]
      BY <1>t, <2>3, HeldSteps
    <3>2. i \notin open[v] /\ i \in Held(v) /\ i \in Items
      BY <1>h, <2>3, <3>1 DEF CommitBatch, BackfillInv, PromptInv, HandAndBatchApart, Held
    <3>3. item'[i] = item[i] /\ pc'[v] # "syncing"
      BY <1>t, <2>3, <3>2 DEF CommitBatch, Close
    <3> QED BY <1>0, <3>2, <3>3
  <2>4. ASSUME \/ ReadCandidates(v) \/ CommitEnqueue(v) \/ EnqueueFails(v)
               \/ SyncBom(v) \/ RunBreaks(v)
        PROVE  FALSE
    BY <1>t, <2>4, HeldSteps
  <2> QED BY <1>1, <2>1, <2>2, <2>3, <2>4 DEF Work, Consume
<1>2. ASSUME Held(v)' = Held(v), pc'[v] = pc[v], open'[v] = open[v], read'[v] = read[v], Fine
      PROVE  Goal
  BY <1>0, <1>2
<1>3. ASSUME NEW w \in Workers, w # v, Work(w) PROVE Goal
  <2>1. Held(v)' = Held(v) /\ pc'[v] = pc[v] /\ open'[v] = open[v] /\ read'[v] = read[v]
    BY <1>3, <1>t, HeldByOthers
  <2>2. i \in Items /\ i \in Held(v) /\ item[i].status \in {"processing", "success"}
    BY <1>0, <1>h, <2>1
  <2>3. ASSUME ReadCandidates(w) \/ EnqueueFails(w) \/ BeginBatch(w) \/ RunBreaks(w) PROVE Fine
    BY <2>2, <2>3 DEF ReadCandidates, EnqueueFails, BeginBatch, RunBreaks
  <2>4. ASSUME CommitEnqueue(w) PROVE Fine
    <3>1. Reading(w) /\ w \in Parties /\ pc[w] = "enqueuing"
      BY <1>t, <2>4 DEF CommitEnqueue, Reading
    <3>2. i \in open[w] => Upserted(item[i], read[w][i]) = item[i]
      BY <2>2, <3>1, HeldRowsUntouched
    <3> QED BY <2>2, <2>4, <3>2 DEF CommitEnqueue
  <2>5. ASSUME Claim(w) PROVE Fine
    BY <1>t, <2>2, <2>5, ClaimSteps DEF Row
  <2>6. ASSUME CommitBatch(w) PROVE Fine
    <3>1. i \notin open[w]
      BY <1>3, <2>2, <2>6 DEF CommitBatch, Held, BackfillInv, PromptInv, HeldOnce
    <3> QED BY <2>2, <2>6, <3>1 DEF CommitBatch
  <2>7. ASSUME SyncBom(w) PROVE Fine
    <3>1. item[i] \in Row /\ Resolved(item[i]).status = "success"
      BY <1>t, <2>2 DEF Resolved, Row
    <3>2. item'[i] = item[i] \/ item'[i] = Resolved(item[i])
      BY <2>2, <2>7 DEF SyncBom
    <3> QED BY <2>2, <3>1, <3>2
  <2> QED BY <1>2, <1>3, <2>1, <2>3, <2>4, <2>5, <2>6, <2>7 DEF Work, Consume
<1>4. ASSUME NEW r \in Requests, Request(r) PROVE Goal
  <2>1. Held(v)' = Held(v) /\ pc'[v] = pc[v] /\ open'[v] = open[v] /\ read'[v] = read[v]
    BY <1>4, <1>t, HeldByOthers
  <2>2. i \in Items /\ i \in Held(v) /\ item[i].status \in {"processing", "success"}
    BY <1>0, <1>h, <2>1
  <2>3. ASSUME ReadRetry(r) PROVE Fine
    BY <2>2, <2>3 DEF ReadRetry
  <2>4. ASSUME CommitRetry(r) PROVE Fine
    <3>1. Reading(r) /\ r \in Parties
      BY <1>t, <2>4 DEF CommitRetry, Reading
    <3>2. i \in open[r] => Retried(item[i], read[r][i]) = item[i]
      BY <2>2, <3>1, HeldRowsUntouched
    <3> QED BY <2>2, <2>4, <3>2 DEF CommitRetry
  <2> QED BY <1>2, <1>4, <2>1, <2>3, <2>4 DEF Request
<1>5. ASSUME NEW j \in Items, RetryDue(j) PROVE Goal
  <2>1. /\ Held(v)' = Held(v) /\ pc'[v] = pc[v] /\ open'[v] = open[v] /\ read'[v] = read[v]
    BY <1>5 DEF RetryDue, Held
  <2>2. i \in Items /\ i \in Held(v)
    BY <1>h, <2>1
  <2>3. item'[i].status = item[i].status
    BY <1>5, <1>t, <2>2 DEF RetryDue, Row
  <2> QED BY <1>0, <1>2, <2>1, <2>2, <2>3
<1>6. CASE UNCHANGED vars
  BY <1>0, <1>6 DEF vars, Held
<1> QED BY <1>1, <1>3, <1>4, <1>5, <1>6 DEF Next

\* A batch is taken out of the hand, and a claim is made with no batch open.
LEMMA ApartStep == TypeOK /\ HandAndBatchApart /\ [Next]_vars => HandAndBatchApart'
<1> SUFFICES ASSUME TypeOK, HandAndBatchApart, [Next]_vars, NEW v \in Workers, pc'[v] = "syncing"
             PROVE  hand'[v] \intersect open'[v] = {}
  BY DEF HandAndBatchApart
<1> USE DEF countVars, partyVars
<1>t. /\ Workers \subseteq Parties /\ Requests \subseteq Parties
      /\ pc \in [Parties -> PartyStates] /\ open \in [Parties -> SUBSET Items]
      /\ hand \in [Workers -> SUBSET Items]
  BY DEF TypeOK, Parties
<1>0. ASSUME hand'[v] = hand[v], open'[v] = open[v], pc'[v] = pc[v]
      PROVE  hand'[v] \intersect open'[v] = {}
  BY <1>0 DEF HandAndBatchApart
<1>1. ASSUME Work(v) PROVE hand'[v] \intersect open'[v] = {}
  <2>1. ASSUME BeginBatch(v) PROVE hand'[v] \intersect open'[v] = {}
    <3>1. PICK S \in SUBSET hand[v] : /\ Open(v, S, "syncing")
                                      /\ hand' = [hand EXCEPT ![v] = @ \ S]
      BY <2>1 DEF BeginBatch
    <3> QED BY <1>t, <3>1 DEF Open
  <2>2. ASSUME ReadCandidates(v) \/ Claim(v) PROVE FALSE
    BY <1>t, <2>2 DEF ReadCandidates, Claim, Open
  <2>3. ASSUME CommitEnqueue(v) \/ EnqueueFails(v) \/ CommitBatch(v) \/ RunBreaks(v) PROVE FALSE
    BY <1>t, <2>3 DEF CommitEnqueue, EnqueueFails, CommitBatch, RunBreaks, Close
  <2>4. ASSUME SyncBom(v) PROVE FALSE
    BY <2>4 DEF SyncBom
  <2> QED BY <1>1, <2>1, <2>2, <2>3, <2>4 DEF Work, Consume
<1>2. ASSUME NEW w \in Workers, w # v, Work(w) PROVE hand'[v] \intersect open'[v] = {}
  BY <1>0, <1>2, HeldByOthers
<1>3. ASSUME NEW r \in Requests, Request(r) PROVE hand'[v] \intersect open'[v] = {}
  BY <1>0, <1>3, HeldByOthers
<1>4. ASSUME NEW j \in Items, RetryDue(j) PROVE hand'[v] \intersect open'[v] = {}
  BY <1>0, <1>4 DEF RetryDue
<1>5. CASE UNCHANGED vars
  BY <1>0, <1>5 DEF vars
<1> QED BY <1>1, <1>2, <1>3, <1>4, <1>5 DEF Next

\* Only a claim adds to what a worker holds, and it takes rows that nobody holds.
LEMMA HeldOnceStep == BackfillInv /\ [Next]_vars => HeldOnce'
<1> SUFFICES ASSUME BackfillInv, [Next]_vars,
                    NEW u \in Workers, NEW v \in Workers, u # v,
                    NEW i \in Held(u)', i \in Held(v)'
             PROVE  FALSE
  BY DEF HeldOnce
<1> USE DEF countVars, partyVars
<1>t. TypeOK /\ HandsEmpty /\ HeldOnce /\ HeldRowsKnown
  BY DEF BackfillInv, PromptInv
<1>1. ASSUME NEW w \in Workers, Work(w), ~Claim(w) PROVE Held(w)' \subseteq Held(w)
  <2>1. CommitBatch(w) => hand[w] \subseteq Held(w)
    BY DEF Held
  <2> QED BY <1>1, <1>t, <2>1, HeldSteps DEF Work, Consume
<1>2. ASSUME NEW w \in Workers, Claim(w) PROVE Held(w)' \subseteq Claimable
  BY <1>2, <1>t, ClaimSteps
<1>3. ASSUME NEW w \in Workers, Held(w) \intersect Claimable # {} PROVE FALSE
  BY <1>3, <1>t DEF HeldRowsKnown, Claimable
<1>4. ASSUME NEW a \in Workers, NEW b \in Workers, a # b, Work(a), i \in Held(a)', i \in Held(b)'
      PROVE  FALSE
  <2>1. i \in Held(b)
    BY <1>4, <1>t, HeldByOthers
  <2>2. CASE Claim(a)
    BY <1>2, <1>3, <1>4, <2>1, <2>2
  <2>3. CASE ~Claim(a)
    BY <1>1, <1>4, <1>t, <2>1, <2>3 DEF HeldOnce
  <2> QED BY <2>2, <2>3
<1>5. ASSUME Held(u)' = Held(u), Held(v)' = Held(v) PROVE FALSE
  BY <1>5, <1>t DEF HeldOnce
<1>6. ASSUME NEW w \in Workers, Work(w) PROVE FALSE
  <2>1. CASE w = u \/ w = v
    BY <1>4, <1>6, <2>1
  <2>2. CASE w # u /\ w # v
    BY <1>5, <1>6, <1>t, <2>2, HeldByOthers
  <2> QED BY <2>1, <2>2
<1>7. ASSUME NEW r \in Requests, Request(r) PROVE FALSE
  BY <1>5, <1>7, <1>t, HeldByOthers
<1>8. ASSUME NEW j \in Items, RetryDue(j) PROVE FALSE
  BY <1>5, <1>8 DEF RetryDue, Held
<1>9. CASE UNCHANGED vars
  BY <1>5, <1>9 DEF vars, Held
<1> QED BY <1>6, <1>7, <1>8, <1>9 DEF Next
LEMMA RetryWaitStep == Prompt /\ BackfillInv /\ [Next]_vars => RetryWaitHasRoom'
<1> SUFFICES ASSUME Prompt, BackfillInv, [Next]_vars,
                    NEW i \in Items, item'[i].status = "retry_wait"
             PROVE  item'[i].fails \in 1..(MaxFailCount - 1) /\ item'[i].next # "none"
  BY DEF RetryWaitHasRoom
<1> DEFINE Goal == item'[i].fails \in 1..(MaxFailCount - 1) /\ item'[i].next # "none"
<1> USE DEF countVars, partyVars
<1>t. /\ Workers \subseteq Parties /\ Requests \subseteq Parties
      /\ item \in [Items -> Row] /\ item[i] \in Row /\ \A p \in Parties : read[p][i] \in Row
      /\ open \in [Parties -> SUBSET Items]
  BY DEF BackfillInv, TypeOK, Parties
<1>0. ASSUME item'[i] = item[i] PROVE Goal
  BY <1>0 DEF BackfillInv, PromptInv, RetryWaitHasRoom
<1>1. ASSUME NEW w \in Workers,
             ReadCandidates(w) \/ EnqueueFails(w) \/ BeginBatch(w) \/ RunBreaks(w)
      PROVE  Goal
  BY <1>0, <1>1 DEF ReadCandidates, EnqueueFails, BeginBatch, RunBreaks
<1>2. ASSUME NEW w \in Workers, CommitEnqueue(w) PROVE Goal
  <2>1. CASE i \in open[w]
    <3>1. read[w][i].status = item[i].status
      BY <1>2, <1>t, <2>1 DEF CommitEnqueue, Reading, BackfillInv, PromptInv, ReadsStand
    <3>2. item'[i] = Upserted(item[i], read[w][i])
      BY <1>2, <2>1 DEF CommitEnqueue
    <3>3. item'[i] = item[i]
      BY <1>t, <3>1, <3>2, StandingWrite
    <3> QED BY <1>0, <3>3
  <2>2. CASE i \notin open[w]
    BY <1>0, <1>2, <2>2 DEF CommitEnqueue
  <2> QED BY <2>1, <2>2
<1>3. ASSUME NEW w \in Workers, Claim(w) PROVE Goal
  <2>1. PICK S \in SUBSET Claimable :
          item' = [j \in Items |-> IF j \in S THEN [item[j] EXCEPT !.status = "processing"]
                                             ELSE item[j]]
    BY <1>3 DEF Claim
  <2>2. i \notin S
    BY <1>t, <2>1 DEF Row
  <2> QED BY <1>0, <2>1, <2>2
<1>4. ASSUME NEW w \in Workers, CommitBatch(w) PROVE Goal
  <2>1. PICK outcome \in [open[w] -> Outcomes] :
          item'[i] = IF i \notin open[w] THEN item[i]
                     ELSE IF outcome[i] = "success" THEN Resolved(item[i])
                     ELSE Failed(item[i], read[w][i], outcome[i])
    BY <1>4, BatchSteps
  <2>2. CASE i \notin open[w]
    BY <1>0, <2>1, <2>2
  <2>3. CASE i \in open[w] /\ outcome[i] = "success"
    <3>1. Resolved(item[i]).status \in {"absent", "success"}
      BY <1>t DEF Resolved, Row
    <3> QED BY <2>1, <2>3, <3>1
  <2>4. CASE i \in open[w] /\ outcome[i] # "success"
    <3>1. item'[i] = Failed(item[i], read[w][i], outcome[i]) /\ outcome[i] \in Outcomes
      BY <2>1, <2>4
    <3>2. read[w][i].status \in {"processing", "success"}
      BY <1>4, <2>4 DEF CommitBatch, BackfillInv, PromptInv, HeldRowsKnown, Held
    <3>3. item[i] \in Row /\ read[w][i] \in Row
      BY <1>t
    <3>4. item'[i].fails \in 1..(MaxFailCount - 1) /\ item'[i].next = "later"
      BY <3>1, <3>2, <3>3, FailureOfHeldRow
    <3> QED BY <3>4
  <2> QED BY <2>2, <2>3, <2>4
<1>5. ASSUME NEW w \in Workers, SyncBom(w) PROVE Goal
  <2>1. Resolved(item[i]).status \in {"absent", "success"}
    BY <1>t DEF Resolved, Row
  <2>2. item'[i] = item[i] \/ item'[i] = Resolved(item[i])
    BY <1>5 DEF SyncBom
  <2> QED BY <1>0, <2>1, <2>2
<1>6. ASSUME NEW r \in Requests, ReadRetry(r) PROVE Goal
  BY <1>0, <1>6 DEF ReadRetry
<1>7. ASSUME NEW r \in Requests, CommitRetry(r) PROVE Goal
  <2>1. CASE i \in open[r]
    <3>1. read[r][i].status = item[i].status
      BY <1>7, <1>t, <2>1 DEF CommitRetry, Reading, BackfillInv, PromptInv, ReadsStand
    <3>2. item'[i] = Retried(item[i], read[r][i])
      BY <1>7, <2>1 DEF CommitRetry
    <3>3. item'[i] = item[i]
      BY <1>t, <3>1, <3>2, StandingWrite
    <3> QED BY <1>0, <3>3
  <2>2. CASE i \notin open[r]
    BY <1>0, <1>7, <2>2 DEF CommitRetry
  <2> QED BY <2>1, <2>2
<1>8. ASSUME NEW j \in Items, RetryDue(j) PROVE Goal
  <2>1. CASE i = j
    <3>1. item'[i].fails = item[i].fails /\ item'[i].next = "due" /\ item[i].status = "retry_wait"
      BY <1>8, <1>t, <2>1 DEF RetryDue, Row
    <3> QED BY <3>1 DEF BackfillInv, PromptInv, RetryWaitHasRoom
  <2>2. CASE i # j
    BY <1>0, <1>8, <1>t, <2>2 DEF RetryDue
  <2> QED BY <2>1, <2>2
<1>9. CASE UNCHANGED vars
  BY <1>0, <1>9 DEF vars
<1> QED BY <1>1, <1>2, <1>3, <1>4, <1>5, <1>6, <1>7, <1>8, <1>9
        DEF Next, Work, Consume, Request

\* Under Prompt the statuses that an open read saw, the rows that runs hold, and
\* the waiting rows are as PromptInv says.
THEOREM PromptInvariant == ASSUME Prompt PROVE Spec => []BackfillInv
<1>1. Init => BackfillInv
  <2>1. Init => SuccessHasBom /\ HandsEmpty
    BY DEF Init, SuccessHasBom, HandsEmpty, AbsentRow
  <2> QED BY <2>1, TypeInit, PromptInit DEF BackfillInv
<1>2. BackfillInv /\ [Next]_vars => BackfillInv'
  <2> SUFFICES ASSUME BackfillInv, [Next]_vars PROVE BackfillInv'
    OBVIOUS
  <2>1. TypeOK' /\ SuccessHasBom' /\ HandsEmpty'
    BY TypeStep, SuccessStep, HandsStep DEF BackfillInv
  <2>2. OneReads' /\ ReadsStand' /\ HeldRowsKnown'
    BY OneReadsStep, ReadsStandStep, HeldRowsStep
  <2>3. HandAndBatchApart' /\ HeldOnce' /\ RetryWaitHasRoom'
    BY ApartStep, HeldOnceStep, RetryWaitStep DEF BackfillInv, PromptInv
  <2> QED BY <2>1, <2>2, <2>3 DEF BackfillInv, PromptInv
<1> QED BY <1>1, <1>2, PTL DEF Spec

\* Under Prompt no item is in the hands of two consume runs.
THEOREM ItemsAreHeldOnce == ASSUME Prompt PROVE Spec => []HeldOnce
<1>1. BackfillInv => HeldOnce
  BY DEF BackfillInv, PromptInv
<1> QED BY <1>1, PromptInvariant, PTL

\* Under Prompt a row that waits for a retry has failed, has attempts left and a
\* time at which it is claimed again.
THEOREM WaitingRowsHaveRoom == ASSUME Prompt PROVE Spec => []RetryWaitHasRoom
<1>1. BackfillInv => RetryWaitHasRoom
  BY DEF BackfillInv, PromptInv
<1> QED BY <1>1, PromptInvariant, PTL
-----------------------------------------------------------------------------
(* QueueAgreesWithBom, under Prompt with one worker: no BOM sync runs while *)
(* a consume run holds rows, so the BOM of a held row is missing throughout. *)

HeldUnstored == \A w \in Workers : \A i \in Held(w) : ~hasBom[i]

OneWorker == \A v, w \in Workers : v = w

AgreeInv == QueueAgreesWithBom /\ HeldUnstored

LEMMA HeldUnstoredStep ==
  OneWorker /\ BackfillInv /\ AgreeInv /\ [Next]_vars => HeldUnstored'
<1> SUFFICES ASSUME OneWorker, BackfillInv, AgreeInv, [Next]_vars,
                    NEW v \in Workers, NEW i \in Held(v)'
             PROVE  ~hasBom'[i]
  BY DEF HeldUnstored
<1> USE DEF countVars, partyVars
<1>t. TypeOK /\ HandsEmpty
  BY DEF BackfillInv
<1>0. ASSUME i \in Held(v), hasBom' = hasBom PROVE ~hasBom'[i]
  BY <1>0 DEF AgreeInv, HeldUnstored
<1>1. ASSUME NEW w \in Workers, Work(w) PROVE ~hasBom'[i]
  <2>0. w = v
    BY DEF OneWorker
  <2>1. ASSUME Claim(v) PROVE ~hasBom'[i]
    <3>1. i \in Claimable /\ hasBom' = hasBom
      BY <1>t, <2>1, ClaimSteps DEF Claim
    <3> QED BY <3>1 DEF Claimable, AgreeInv, QueueAgreesWithBom
  <2>2. ASSUME BeginBatch(v) PROVE ~hasBom'[i]
    BY <1>0, <1>t, <2>2, HeldSteps DEF BeginBatch
  <2>3. ASSUME CommitBatch(v) PROVE ~hasBom'[i]
    <3>1. i \in hand[v]
      BY <1>t, <2>3, HeldSteps
    <3>2. i \notin open[v] /\ i \in Items
      BY <1>t, <2>3, <3>1 DEF CommitBatch, BackfillInv, PromptInv, HandAndBatchApart, TypeOK
    <3>3. hasBom'[i] = hasBom[i]
      BY <1>t, <2>3, <3>2 DEF CommitBatch, TypeOK
    <3> QED BY <3>1, <3>3 DEF AgreeInv, HeldUnstored, Held
  <2>4. ASSUME \/ ReadCandidates(v) \/ CommitEnqueue(v) \/ EnqueueFails(v)
               \/ SyncBom(v) \/ RunBreaks(v)
        PROVE  FALSE
    BY <1>t, <2>4, HeldSteps
  <2> QED BY <1>1, <2>0, <2>1, <2>2, <2>3, <2>4 DEF Work, Consume
<1>2. ASSUME NEW r \in Requests, Request(r) PROVE ~hasBom'[i]
  <2>1. Held(v)' = Held(v)
    BY <1>2, <1>t, HeldByOthers
  <2>2. hasBom' = hasBom
    BY <1>2 DEF Request, ReadRetry, CommitRetry
  <2> QED BY <1>0, <2>1, <2>2
<1>3. ASSUME NEW j \in Items, RetryDue(j) PROVE ~hasBom'[i]
  BY <1>0, <1>3 DEF RetryDue, Held
<1>4. CASE UNCHANGED vars
  BY <1>0, <1>4 DEF vars, Held
<1> QED BY <1>1, <1>2, <1>3, <1>4 DEF Next

LEMMA ResolvedRow ==
  ASSUME NEW row \in Row, row.status # "absent"
  PROVE  Resolved(row).status = "success"
<1>1. Resolved(row) = [row EXCEPT !.status = "success", !.next = "none"]
  BY DEF Resolved
<1>2. [row EXCEPT !.status = "success", !.next = "none"].status = "success"
  BY DEF Row
<1> QED BY <1>1, <1>2

LEMMA AgreeStep == BackfillInv /\ AgreeInv /\ [Next]_vars => QueueAgreesWithBom'
<1> SUFFICES ASSUME BackfillInv, AgreeInv, [Next]_vars, NEW i \in Items
             PROVE  item'[i].status # "absent" => (item'[i].status = "success" <=> hasBom'[i])
  BY DEF QueueAgreesWithBom
<1> DEFINE Goal == item'[i].status # "absent" => (item'[i].status = "success" <=> hasBom'[i])
<1> USE DEF countVars, partyVars
<1>t. /\ Workers \subseteq Parties /\ Requests \subseteq Parties
      /\ item[i] \in Row /\ \A p \in Parties : read[p][i] \in Row
      /\ hasBom \in [Items -> BOOLEAN] /\ item \in [Items -> Row]
      /\ open \in [Parties -> SUBSET Items]
  BY DEF BackfillInv, TypeOK, Parties
<1>a. item[i].status # "absent" => (item[i].status = "success" <=> hasBom[i])
  BY DEF AgreeInv, QueueAgreesWithBom
<1>0. ASSUME item'[i].status = item[i].status, hasBom'[i] = hasBom[i] PROVE Goal
  BY <1>0, <1>a
<1>r. \/ Resolved(item[i]).status = "success"
      \/ item[i].status = "absent" /\ Resolved(item[i]) = item[i]
  <2>1. CASE item[i].status = "absent"
    BY <2>1 DEF Resolved
  <2>2. CASE item[i].status # "absent"
    <3>1. item[i] \in Row
      BY <1>t
    <3> QED BY <2>2, <3>1, ResolvedRow
  <2> QED BY <2>1, <2>2
<1>1. ASSUME NEW w \in Workers,
             ReadCandidates(w) \/ EnqueueFails(w) \/ BeginBatch(w) \/ RunBreaks(w)
      PROVE  Goal
  BY <1>0, <1>1 DEF ReadCandidates, EnqueueFails, BeginBatch, RunBreaks
<1>2. ASSUME NEW w \in Workers, CommitEnqueue(w) PROVE Goal
  <2>1. CASE i \in open[w]
    <3>1. read[w][i].status = item[i].status /\ ~hasBom[i]
      BY <1>2, <1>t, <2>1 DEF CommitEnqueue, Reading, BackfillInv, PromptInv, ReadsStand
    <3>2. item'[i] = Upserted(item[i], read[w][i]) /\ hasBom' = hasBom
      BY <1>2, <2>1 DEF CommitEnqueue
    <3>3. item'[i] = item[i] \/ item'[i].status = "pending"
      BY <1>t, <3>1, <3>2, StandingWrite
    <3> QED BY <1>0, <3>1, <3>2, <3>3
  <2>2. CASE i \notin open[w]
    BY <1>0, <1>2, <2>2 DEF CommitEnqueue
  <2> QED BY <2>1, <2>2
<1>3. ASSUME NEW w \in Workers, Claim(w) PROVE Goal
  <2>1. PICK S \in SUBSET Claimable :
          item' = [j \in Items |-> IF j \in S THEN [item[j] EXCEPT !.status = "processing"]
                                             ELSE item[j]]
    BY <1>3 DEF Claim
  <2>2. CASE i \in S
    <3>1. ~hasBom[i]
      BY <1>a, <2>2 DEF Claimable
    <3>2. item'[i].status = "processing"
      BY <1>t, <2>1, <2>2 DEF Row
    <3> QED BY <1>3, <3>1, <3>2 DEF Claim
  <2>3. CASE i \notin S
    BY <1>0, <1>3, <2>1, <2>3 DEF Claim
  <2> QED BY <2>2, <2>3
<1>4. ASSUME NEW w \in Workers, CommitBatch(w) PROVE Goal
  <2>1. PICK outcome \in [open[w] -> Outcomes] :
          /\ item' = [j \in Items |->
                        IF j \notin open[w] THEN item[j]
                        ELSE IF outcome[j] = "success" THEN Resolved(item[j])
                        ELSE Failed(item[j], read[w][j], outcome[j])]
          /\ hasBom' = [j \in Items |-> hasBom[j] \/ (j \in open[w] /\ outcome[j] = "success")]
    BY <1>4 DEF CommitBatch
  <2>2. CASE i \notin open[w]
    BY <1>0, <1>t, <2>1, <2>2
  <2>3. CASE i \in open[w] /\ outcome[i] = "success"
    BY <1>r, <2>1, <2>3
  <2>4. CASE i \in open[w] /\ outcome[i] # "success"
    <3>1. i \in Held(w)
      BY <1>4, <2>4 DEF CommitBatch, Held
    <3>2. read[w][i].status \in {"processing", "success"}
      BY <1>4, <2>4, <3>1 DEF CommitBatch, BackfillInv, PromptInv, HeldRowsKnown
    <3>3. ~hasBom[i]
      BY <3>1 DEF AgreeInv, HeldUnstored
    <3>4. item'[i] = Failed(item[i], read[w][i], outcome[i]) /\ outcome[i] \in Outcomes
      BY <2>1, <2>4
    <3>5. item[i] \in Row /\ read[w][i] \in Row
      BY <1>t
    <3>6. item'[i].status \in {"failed", "retry_wait"}
      BY <3>2, <3>4, <3>5, FailureOfHeldRow
    <3> QED BY <2>1, <2>4, <3>3, <3>6
  <2> QED BY <2>2, <2>3, <2>4
<1>5. ASSUME NEW w \in Workers, SyncBom(w) PROVE Goal
  <2>1. PICK S \in SUBSET Items :
          /\ item' = [j \in Items |-> IF j \in S THEN Resolved(item[j]) ELSE item[j]]
          /\ hasBom' = [j \in Items |-> hasBom[j] \/ j \in S]
    BY <1>5 DEF SyncBom
  <2>2. CASE i \in S
    BY <1>r, <2>1, <2>2
  <2>3. CASE i \notin S
    BY <1>0, <1>t, <2>1, <2>3
  <2> QED BY <2>2, <2>3
<1>6. ASSUME NEW r \in Requests, ReadRetry(r) PROVE Goal
  BY <1>0, <1>6 DEF ReadRetry
<1>7. ASSUME NEW r \in Requests, CommitRetry(r) PROVE Goal
  <2>0. hasBom' = hasBom
    BY <1>7 DEF CommitRetry
  <2>1. CASE i \in open[r] /\ item[i].status \in Retryable
    <3>1. read[r][i].status = item[i].status
      BY <1>7, <1>t, <2>1 DEF CommitRetry, Reading, BackfillInv, PromptInv, ReadsStand
    <3>2. item'[i] = Retried(item[i], read[r][i])
      BY <1>7, <2>1 DEF CommitRetry
    <3>3. item'[i] = item[i] \/ item'[i].status = "pending"
      BY <1>t, <3>1, <3>2, StandingWrite
    <3>4. ~hasBom[i]
      BY <1>a, <2>1 DEF Retryable
    <3> QED BY <1>0, <2>0, <3>3, <3>4
  <2>2. CASE i \in open[r] /\ item[i].status \notin Retryable
    <3>1. read[r][i].status = item[i].status
      BY <1>7, <1>t, <2>2 DEF CommitRetry, Reading, BackfillInv, PromptInv, ReadsStand
    <3>2. item'[i] = item[i]
      BY <1>7, <2>2, <3>1 DEF CommitRetry, Retried
    <3> QED BY <1>0, <2>0, <3>2
  <2>3. CASE i \notin open[r]
    BY <1>0, <1>7, <2>3 DEF CommitRetry
  <2> QED BY <2>1, <2>2, <2>3
<1>8. ASSUME NEW j \in Items, RetryDue(j) PROVE Goal
  <2>1. item'[i].status = item[i].status
    BY <1>8, <1>t DEF RetryDue, Row
  <2> QED BY <1>0, <1>8, <2>1 DEF RetryDue
<1>9. CASE UNCHANGED vars
  BY <1>0, <1>9 DEF vars
<1> QED BY <1>1, <1>2, <1>3, <1>4, <1>5, <1>6, <1>7, <1>8, <1>9
        DEF Next, Work, Consume, Request

\* With one worker and under Prompt, a tracked item is successful exactly when its
\* BOM is stored.
THEOREM QueueTellsTheTruth == ASSUME Prompt, OneWorker PROVE Spec => []QueueAgreesWithBom
<1>1. Init => AgreeInv
  <2> SUFFICES ASSUME Init PROVE AgreeInv
    OBVIOUS
  <2>1. \A w \in Workers : Held(w) = {}
    BY DEF Init, Held, Parties
  <2> QED BY <2>1 DEF Init, AgreeInv, QueueAgreesWithBom, HeldUnstored, AbsentRow
<1>2. BackfillInv /\ AgreeInv /\ [Next]_vars => AgreeInv'
  BY HeldUnstoredStep, AgreeStep DEF AgreeInv
<1>3. AgreeInv => QueueAgreesWithBom
  BY DEF AgreeInv
<1> QED BY <1>1, <1>2, <1>3, PromptInvariant, PTL DEF Spec
=============================================================================
