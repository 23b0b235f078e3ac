----------------------------- MODULE FiscalChain -----------------------------
(***************************************************************************)
(* VERI*FACTU (apps/backend/src/modules/verifactu/verifactu.service.ts):   *)
(* the chain of fiscal records of one tax ID and environment, appended     *)
(* inside the checkout and refund transactions of several branches, and    *)
(* its submission to the tax agency by the job of every minute and by the  *)
(* send-now button.                                                        *)
(*                                                                         *)
(* A transaction takes its branch's settings row (the next number), then   *)
(* the advisory lock of the chain, and keeps both until it ends.  The      *)
(* agency is outside the repository: it keeps what reaches it, refuses     *)
(* what it already has, and its answer or the request may be lost.         *)
(***************************************************************************)
EXTENDS Integers, Sequences, FiniteSets

CONSTANTS
    Tills,          \* transactions in flight
    Documents,      \* sales and refunds to be recorded
    SeriesOf,       \* [Documents -> <<branch, "F2" or "R5">>]
    BranchOf,       \* [Documents -> branches]: whose settings row is locked
    Corrects,       \* [Documents -> Documents \cup {NoDocument}]: the sale of a refund
    Batch,          \* BATCH
    Faults,         \* bound: lost requests, lost answers and restarts
    Presses,        \* bound: uses of the send-now button
    NoDocument

Runs == {"job", "button"}       \* tick (one at a time: sending) and sendNow

ASSUME FiscalAssumption ==
    /\ Batch \in Nat \ {0} /\ Faults \in Nat /\ Presses \in Nat
    /\ Corrects \in [Documents -> Documents \cup {NoDocument}]
    /\ \A d, e \in Documents : SeriesOf[d] = SeriesOf[e] => BranchOf[d] = BranchOf[e]

VARIABLES
    chain,      \* Seq of committed records, in the order of seq
    counter,    \* [series -> Nat]: nextNumber, nextRefundNumber
    rowOf,      \* [branches -> Tills or {}]: lock on the settings row
    chainLock,  \* Tills or {}: the advisory lock
    entry,      \* [Tills -> record being made or {}]
    run,        \* [Runs -> submission in progress]
    agency,     \* numbers of the records the agency has received
    faults,     \* faults so far
    presses     \* uses of the button so far

fiscalVars == <<chain, counter, rowOf, chainLock, entry, run, agency, faults, presses>>
books == <<chain, counter, rowOf, chainLock, entry>>

Series   == {SeriesOf[d] : d \in Documents}
Branches == {BranchOf[d] : d \in Documents}
Idle     == [at |-> "idle"]
Recorded(d) == \E n \in DOMAIN chain : chain[n].of = d

-----------------------------------------------------------------------------
\* recordPaidOrder and recordRefund: the order's row keeps a second request for
\* the same document out; a refund needs the invoice it corrects.
RecordBegin(t, d) ==
    /\ entry[t] = {} /\ ~Recorded(d)
    /\ \A u \in Tills : \A e \in entry[u] : e.of # d
    /\ Corrects[d] # NoDocument => Recorded(Corrects[d])
    /\ entry' = [entry EXCEPT ![t] = {[of |-> d, number |-> 0, seq |-> 0, prev |-> 0]}]
    /\ UNCHANGED <<chain, counter, rowOf, chainLock, run, agency, faults, presses>>

\* The increment of the branch's counter locks its settings row.
TakeNumber(t) ==
    \E e \in entry[t] :
      /\ e.number = 0 /\ rowOf[BranchOf[e.of]] = {}
      /\ rowOf' = [rowOf EXCEPT ![BranchOf[e.of]] = {t}]
      /\ entry' = [entry EXCEPT ![t] = {[e EXCEPT !.number = counter[SeriesOf[e.of]]]}]
      /\ UNCHANGED <<chain, counter, chainLock, run, agency, faults, presses>>

\* Variant: no advisory lock.
ChainFree_always == TRUE

ChainFree == chainLock = {}

\* append: the last record is read under the lock of the chain.
AppendRecord(t) ==
    \E e \in entry[t] :
      /\ e.number > 0 /\ e.seq = 0 /\ ChainFree
      /\ chainLock' = {t}
      /\ entry' = [entry EXCEPT ![t] = {[of |-> e.of, number |-> e.number,
                                         seq |-> Len(chain) + 1, prev |-> Len(chain)]}]
      /\ UNCHANGED <<chain, counter, rowOf, run, agency, faults, presses>>

EndRecord(t) ==
    /\ rowOf' = [b \in Branches |-> rowOf[b] \ {t}]
    /\ chainLock' = chainLock \ {t}
    /\ entry' = [entry EXCEPT ![t] = {}]

CommitRecord(t) ==
    \E e \in entry[t] :
      /\ e.seq > 0
      /\ chain' = Append(chain, [of |-> e.of, seq |-> e.seq, number |-> e.number, prev |-> e.prev,
                                 status |-> "PENDING", due |-> TRUE])
      /\ counter' = [counter EXCEPT ![SeriesOf[e.of]] = e.number + 1]
      /\ EndRecord(t)
      /\ UNCHANGED <<run, agency, faults, presses>>

\* A rollback takes the number back: the counter was not written.
RollbackRecord(t) ==
    /\ entry[t] # {}
    /\ faults < Faults /\ faults' = faults + 1
    /\ EndRecord(t)
    /\ UNCHANGED <<chain, counter, run, agency, presses>>

-----------------------------------------------------------------------------
\* Variant: what failed once is not sent again.
Open_pendingOnly == {"PENDING"}

\* The status of a record that is still to be reported.
Open == {"PENDING", "ERROR"}

Pending == {n \in DOMAIN chain : chain[n].status \in Open}
Waiting == \E n \in Pending : ~chain[n].due

\* Variant: the newest records first.
NextBatch_newest == {n \in Pending : Cardinality({m \in Pending : m >= n}) <= Batch}

\* The first BATCH records of the chain that are still to be reported.
NextBatch == {n \in Pending : Cardinality({m \in Pending : m <= n}) <= Batch}

\* submitAll, alone by its flag: a chain whose records wait is left for later.
JobStarts ==
    /\ run["job"] = Idle
    /\ Pending # {} /\ ~Waiting
    /\ run' = [run EXCEPT !["job"] = [at |-> "send", recs |-> NextBatch, ok |-> {}]]
    /\ UNCHANGED <<books, agency, faults, presses>>

\* sendNow makes every record due and submits without looking at the flag.
PressSend ==
    /\ run["button"] = Idle /\ presses < Presses
    /\ chain' = [n \in DOMAIN chain |-> IF n \in Pending THEN [chain[n] EXCEPT !.due = TRUE] ELSE chain[n]]
    /\ run' = IF Pending = {} THEN run
              ELSE [run EXCEPT !["button"] = [at |-> "send", recs |-> NextBatch, ok |-> {}]]
    /\ presses' = presses + 1
    /\ UNCHANGED <<counter, rowOf, chainLock, entry, agency, faults>>

\* The request reaches the agency: what it has already is refused.
Deliver(r) ==
    /\ run[r].at = "send"
    /\ agency' = agency \cup run[r].recs
    /\ run' = [run EXCEPT ![r] = [at |-> "answer", recs |-> run[r].recs, ok |-> run[r].recs \ agency]]
    /\ UNCHANGED <<books, faults, presses>>

\* The request or its answer is lost: ERROR for the records that were sent,
\* and every open record waits.
Lost(r) ==
    /\ run[r].at \in {"send", "answer"} /\ faults < Faults
    /\ chain' = [n \in DOMAIN chain |->
         IF n \in run[r].recs THEN [chain[n] EXCEPT !.status = "ERROR", !.due = FALSE]
         ELSE IF n \in Pending THEN [chain[n] EXCEPT !.due = FALSE] ELSE chain[n]]
    /\ run' = [run EXCEPT ![r] = Idle]
    /\ faults' = faults + 1
    /\ UNCHANGED <<counter, rowOf, chainLock, entry, agency, presses>>

\* What is still to be written once the answer for record n is.
AnswersLeft(r, n) == [at |-> "answer", recs |-> run[r].recs \ {n}, ok |-> run[r].ok \ {n}]

\* The answer for one record after the other, in the order of the list; the
\* agency may also accept with errors, refuse or say nothing of a record.
WriteAnswer(r) ==
    /\ run[r].at = "answer" /\ run[r].recs # {}
    /\ \E n \in run[r].recs :
         /\ \A k \in run[r].recs : n <= k
         /\ \E s \in IF n \in run[r].ok THEN {"ACCEPTED", "REJECTED"} ELSE {"REJECTED"} :
              chain' = [chain EXCEPT ![n].status = s]
         /\ run' = [run EXCEPT ![r] = AnswersLeft(r, n)]
    /\ UNCHANGED <<counter, rowOf, chainLock, entry, agency, faults, presses>>

\* No result for a record.
NoResult(r) ==
    /\ run[r].at = "answer" /\ run[r].recs # {} /\ faults < Faults
    /\ \E n \in run[r].recs :
         /\ \A k \in run[r].recs : n <= k
         /\ chain' = [chain EXCEPT ![n].status = "ERROR"]
         /\ run' = [run EXCEPT ![r] = AnswersLeft(r, n)]
    /\ faults' = faults + 1
    /\ UNCHANGED <<counter, rowOf, chainLock, entry, agency, presses>>

\* releaseAfter: what is left waits for the time the agency asked for.
Release(r) ==
    /\ run[r].at = "answer" /\ run[r].recs = {}
    /\ chain' = [n \in DOMAIN chain |-> IF n \in Pending THEN [chain[n] EXCEPT !.due = FALSE] ELSE chain[n]]
    /\ run' = [run EXCEPT ![r] = Idle]
    /\ UNCHANGED <<counter, rowOf, chainLock, entry, agency, faults, presses>>

\* Time passes.
BecomeDue ==
    /\ Waiting
    /\ chain' = [n \in DOMAIN chain |-> [chain[n] EXCEPT !.due = TRUE]]
    /\ UNCHANGED <<counter, rowOf, chainLock, entry, run, agency, faults, presses>>

\* The server restarts: transactions are rolled back, submissions forgotten.
FiscalRestart ==
    /\ faults < Faults /\ faults' = faults + 1
    /\ rowOf' = [b \in Branches |-> {}] /\ chainLock' = {}
    /\ entry' = [t \in Tills |-> {}]
    /\ run' = [r \in Runs |-> Idle]
    /\ UNCHANGED <<chain, counter, agency, presses>>

-----------------------------------------------------------------------------
FiscalInit ==
    /\ chain = <<>>
    /\ counter = [s \in Series |-> 1]
    /\ rowOf = [b \in Branches |-> {}] /\ chainLock = {}
    /\ entry = [t \in Tills |-> {}]
    /\ run = [r \in Runs |-> Idle]
    /\ agency = {} /\ faults = 0 /\ presses = 0

Record(t) == TakeNumber(t) \/ AppendRecord(t) \/ CommitRecord(t)
Submit(r) == Deliver(r) \/ WriteAnswer(r) \/ Release(r)

FiscalNext ==
    \/ \E t \in Tills : (\E d \in Documents : RecordBegin(t, d)) \/ Record(t) \/ RollbackRecord(t)
    \/ JobStarts \/ PressSend
    \/ \E r \in Runs : Submit(r) \/ Lost(r) \/ NoResult(r)
    \/ BecomeDue \/ FiscalRestart

FiscalSpec == FiscalInit /\ [][FiscalNext]_fiscalVars

\* The job runs every minute, time passes, and a call ends (it has a timeout).
\* Other records and the button come between, so the job is treated strongly.
FiscalFair ==
    /\ SF_fiscalVars(JobStarts) /\ WF_fiscalVars(BecomeDue)
    /\ \A r \in Runs : WF_fiscalVars(Submit(r))

-----------------------------------------------------------------------------
\* However sales and refunds of the branches overlap and roll back, each record
\* continues the one before it and every series is numbered without a gap
\* (verifactu.service.ts:307, docs/verifactu.md "gap-free per branch").
ChainUnbroken ==
    /\ \A n \in DOMAIN chain : chain[n].seq = n /\ chain[n].prev = n - 1
    /\ \A n \in DOMAIN chain :
         chain[n].number =
           Cardinality({m \in 1 .. n : SeriesOf[chain[m].of] = SeriesOf[chain[n].of]})

\* "sends pending records to AEAT in chain order" (docs/verifactu.md): whatever
\* the agency has is the beginning of the chain, also when the job and the
\* button send at once and answers are lost.
ReportedInOrder == \A n \in agency : 1 .. n \subseteq agency

\* In the end every record has its answer: a lost call is made again.
EveryRecordIsAnswered ==
    <>[](\A n \in DOMAIN chain : chain[n].status \in {"ACCEPTED", "REJECTED"})
=============================================================================
