---------------------------- MODULE FiscalProofs ----------------------------
(***************************************************************************)
(* The chain of fiscal records is never broken and is reported from its    *)
(* beginning, for any number of branches, documents, transactions and      *)
(* sizes of a batch.                                                       *)
(*                                                                         *)
(* Two arguments that do not need each other.  What a transaction read     *)
(* stays true while it holds its locks (Locked), so a record fits the      *)
(* chain when it commits.  A submission takes the first open records; of   *)
(* those before them the agency has all that are not in its list           *)
(* (Reporting), and it never loses one.                                    *)
(***************************************************************************)
EXTENDS FiscalChain, FiniteSetTheorems, SequenceTheorems, TLAPS

Status    == {"PENDING", "ERROR", "ACCEPTED", "REJECTED"}
FiscalRow == [of : Documents, seq : Nat, number : Nat, prev : Nat,
              status : Status, due : BOOLEAN]
Entry     == [of : Documents, number : Nat, seq : Nat, prev : Nat]
Submission == [at : {"send", "answer"}, recs : SUBSET Nat, ok : SUBSET Nat]

TypeOK ==
    /\ chain \in Seq(FiscalRow)
    /\ counter \in [Series -> Nat \ {0}]
    /\ rowOf \in [Branches -> SUBSET Tills]
    /\ chainLock \in SUBSET Tills
    /\ entry \in [Tills -> SUBSET Entry]
    /\ run \in [Runs -> Submission \cup {Idle}]
    /\ agency \in SUBSET Nat

\* What a transaction has read holds as long as its locks.
EntryOK(t, e) ==
    /\ e.number > 0 => /\ rowOf[BranchOf[e.of]] = {t}
                       /\ e.number = counter[SeriesOf[e.of]]
    /\ e.seq > 0    => /\ chainLock = {t} /\ e.number > 0
                       /\ e.seq = Len(chain) + 1 /\ e.prev = Len(chain)

Locked == \A t \in Tills : \A e \in entry[t] : EntryOK(t, e)

\* The records of a series among the first n.
OfSeries(s, n) == {m \in 1 .. n : SeriesOf[chain[m].of] = s}

\* The counter of a series is one more than the records it has.
Numbered == \A s \in Series : counter[s] = Cardinality(OfSeries(s, Len(chain))) + 1

Books == Locked /\ Numbered /\ ChainUnbroken

\* Of what comes before a record in a request, the agency has what the request
\* does not bring.
RunOK(r) ==
    /\ run[r].at \in {"send", "answer"} => run[r].recs \subseteq DOMAIN chain
    /\ run[r].at = "send" =>
         \A n \in run[r].recs : \A m \in 1 .. n : m \in run[r].recs \cup agency
    /\ run[r].at = "answer" => run[r].recs \subseteq agency

\* Only what the agency has is closed.
Closed == \A n \in DOMAIN chain : chain[n].status \notin Open => n \in agency

Reporting == Closed /\ ReportedInOrder /\ \A r \in Runs : RunOK(r)

Inv == TypeOK /\ Books /\ Reporting

-----------------------------------------------------------------------------
LEMMA ChainFacts ==
    ASSUME TypeOK
    PROVE  /\ Len(chain) \in Nat /\ DOMAIN chain = 1 .. Len(chain)
           /\ \A n \in DOMAIN chain : chain[n] \in FiscalRow
  BY LenProperties, ElementOfSeq DEF TypeOK

\* A function over the places of the chain is a chain of the same length.
LEMMA Rewritten ==
    ASSUME TypeOK, NEW f \in [DOMAIN chain -> FiscalRow]
    PROVE  f \in Seq(FiscalRow) /\ Len(f) = Len(chain) /\ DOMAIN f = DOMAIN chain
<1>1. Len(chain) \in Nat /\ DOMAIN chain = 1 .. Len(chain)
  BY ChainFacts
<1>2. f \in [1 .. Len(chain) -> FiscalRow]
  BY <1>1
<1> QED
  BY <1>1, <1>2

\* Status and due may change, what the record says may not.
SameRecord(a, b) == /\ a.of = b.of /\ a.seq = b.seq
                    /\ a.number = b.number /\ a.prev = b.prev

\* Every step but a commit does at most this to the chain.
SameRecords ==
    /\ chain' \in Seq(FiscalRow)
    /\ Len(chain') = Len(chain) /\ DOMAIN chain' = DOMAIN chain
    /\ \A n \in DOMAIN chain : SameRecord(chain'[n], chain[n])

LEMMA RowChanges ==
    ASSUME NEW row \in FiscalRow, NEW s \in Status, NEW d \in BOOLEAN
    PROVE  /\ [row EXCEPT !.status = s] \in FiscalRow
           /\ SameRecord([row EXCEPT !.status = s], row)
           /\ [row EXCEPT !.status = s].status = s
           /\ [row EXCEPT !.due = d] \in FiscalRow
           /\ SameRecord([row EXCEPT !.due = d], row)
           /\ [row EXCEPT !.due = d].status = row.status
           /\ [row EXCEPT !.status = s, !.due = d] \in FiscalRow
           /\ SameRecord([row EXCEPT !.status = s, !.due = d], row)
           /\ [row EXCEPT !.status = s, !.due = d].status = s
  BY DEF FiscalRow, SameRecord

LEMMA KeepsBooks ==
    ASSUME TypeOK, Books, SameRecords, UNCHANGED <<counter, rowOf, chainLock, entry>>
    PROVE  Books'
<1>1. Len(chain) \in Nat /\ DOMAIN chain = 1 .. Len(chain)
  BY ChainFacts
<1>2. \A n \in 1 .. Len(chain) : chain'[n].of = chain[n].of /\ chain'[n].seq = chain[n].seq
        /\ chain'[n].prev = chain[n].prev /\ chain'[n].number = chain[n].number
  BY <1>1 DEF SameRecords, SameRecord
<1>3. ASSUME NEW s, NEW n \in 0 .. Len(chain)
      PROVE  OfSeries(s, n)' = OfSeries(s, n)
  BY <1>1, <1>2 DEF OfSeries
<1>4. Locked'
  BY DEF Books, Locked, EntryOK, SameRecords
<1>5. Numbered'
  BY <1>1, <1>3 DEF Books, Numbered, SameRecords
<1>6. ASSUME NEW n \in DOMAIN chain
      PROVE  chain'[n].number =
               Cardinality({m \in 1 .. n : SeriesOf[chain'[m].of] = SeriesOf[chain'[n].of]})
  <2>0. PICK s : s = SeriesOf[chain[n].of]
    OBVIOUS
  <2>1. chain[n].number = Cardinality(OfSeries(s, n))
    BY <2>0 DEF Books, ChainUnbroken, OfSeries
  <2>2. OfSeries(s, n)' = OfSeries(s, n)
    BY <1>1, <1>3
  <2>3. OfSeries(s, n)' = {m \in 1 .. n : SeriesOf[chain'[m].of] = SeriesOf[chain'[n].of]}
    BY <1>1, <1>2, <2>0 DEF OfSeries
  <2> QED
    BY <1>1, <1>2, <2>1, <2>2, <2>3
<1>7. ChainUnbroken'
  BY <1>1, <1>2, <1>6 DEF Books, ChainUnbroken, SameRecords
<1> QED
  BY <1>4, <1>5, <1>7 DEF Books

-----------------------------------------------------------------------------
\* Submission.
LEMMA RunFacts ==
    ASSUME TypeOK, NEW r \in Runs, run[r] # Idle
    PROVE  run[r] \in Submission
  BY DEF TypeOK

LEMMA RunningIsNotIdle ==
    ASSUME NEW r, run[r].at \in {"send", "answer"}
    PROVE  run[r] # Idle
  BY DEF Idle

\* The first open records, and before each of them only what the agency has.
LEMMA BatchIsFirst ==
    ASSUME TypeOK, Reporting
    PROVE  /\ NextBatch \subseteq DOMAIN chain /\ NextBatch \subseteq Nat
           /\ \A n \in NextBatch : \A m \in 1 .. n : m \in NextBatch \cup agency
<1>1. Len(chain) \in Nat /\ DOMAIN chain = 1 .. Len(chain)
  BY ChainFacts
<1>2. NextBatch \subseteq DOMAIN chain /\ NextBatch \subseteq Nat
  BY <1>1 DEF NextBatch, Pending
<1>3. ASSUME NEW n \in NextBatch, NEW m \in 1 .. n, m \notin agency
      PROVE  m \in NextBatch
  <2>1. n \in Pending /\ n \in Nat /\ m \in Nat /\ m <= n
    BY <1>2, <1>3 DEF NextBatch
  <2>2. m \in Pending
    BY <1>1, <1>3, <2>1 DEF Pending, Reporting, Closed
  <2> DEFINE UpTo(k) == {i \in Pending : i <= k}
  <2>3. IsFiniteSet(UpTo(n))
    <3>1. UpTo(n) \in SUBSET Nat /\ \A i \in UpTo(n) : i <= n
      BY <1>1 DEF Pending
    <3> QED
      BY <2>1, <3>1, FS_BoundedSetOfNaturals
  <2>4. UpTo(m) \in SUBSET UpTo(n)
    BY <1>1, <2>1 DEF Pending
  <2>5. /\ Cardinality(UpTo(m)) <= Cardinality(UpTo(n))
        /\ Cardinality(UpTo(m)) \in Nat /\ Cardinality(UpTo(n)) \in Nat
    BY <2>3, <2>4, FS_Subset, FS_CardinalityType
  <2>6. Cardinality(UpTo(n)) <= Batch
    BY DEF NextBatch
  <2> QED
    BY <2>2, <2>5, <2>6, FiscalAssumption DEF NextBatch
<1> QED
  BY <1>2, <1>3

\* A step that closes only what the agency has and lets a submission go on,
\* or end, keeps the reports in order.
LEMMA KeepsReporting ==
    ASSUME TypeOK, Reporting, SameRecords, agency' = agency,
           \A n \in DOMAIN chain :
             chain'[n].status \in Open \/ chain'[n].status = chain[n].status \/ n \in agency,
           \A r \in Runs :
             \/ run'[r] = run[r] \/ run'[r] = Idle
             \/ run[r].at = "answer" /\ \E n : run'[r] = AnswersLeft(r, n)
    PROVE  Reporting'
<1>1. Closed'
  BY DEF SameRecords, Reporting, Closed, Open
<1>2. ReportedInOrder'
  BY DEF Reporting, ReportedInOrder
<1>3. ASSUME NEW r \in Runs
      PROVE  RunOK(r)'
  <2>1. CASE run'[r] = run[r]
    BY <2>1 DEF Reporting, RunOK, SameRecords
  <2>2. CASE run'[r] = Idle
    BY <2>2 DEF RunOK, Idle
  <2>3. CASE run[r].at = "answer" /\ \E n : run'[r] = AnswersLeft(r, n)
    <3>1. PICK n : run'[r] = AnswersLeft(r, n)
      BY <2>3
    <3>2. run'[r].at = "answer" /\ run'[r].recs \subseteq run[r].recs
      BY <3>1 DEF AnswersLeft
    <3> QED
      BY <2>3, <3>2 DEF Reporting, RunOK, SameRecords
  <2> QED
    BY <2>1, <2>2, <2>3
<1> QED
  BY <1>1, <1>2, <1>3 DEF Reporting

LEMMA JobStartsHolds ==
    ASSUME TypeOK, Reporting, JobStarts
    PROVE  TypeOK' /\ SameRecords /\ Reporting'
<1> DEFINE sub == [at |-> "send", recs |-> NextBatch, ok |-> {}]
<1>1. /\ run' = [run EXCEPT !["job"] = sub] /\ agency' = agency
      /\ UNCHANGED books
  BY DEF JobStarts
<1>2. /\ NextBatch \subseteq DOMAIN chain /\ NextBatch \subseteq Nat
      /\ \A n \in NextBatch : \A m \in 1 .. n : m \in NextBatch \cup agency
  BY BatchIsFirst
<1>3. sub \in Submission
  BY <1>2 DEF Submission
<1>4. TypeOK' /\ SameRecords
  BY <1>1, <1>3 DEF TypeOK, books, SameRecords, SameRecord
<1>5. ASSUME NEW r \in Runs
      PROVE  RunOK(r)'
  <2>1. CASE r = "job"
    <3>1. run'[r] = sub
      BY <1>1, <2>1 DEF TypeOK
    <3> QED
      BY <1>1, <1>2, <3>1 DEF RunOK, books
  <2>2. CASE r # "job"
    <3>1. run'[r] = run[r]
      BY <1>1, <2>2 DEF TypeOK
    <3> QED
      BY <1>1, <3>1 DEF RunOK, books, Reporting
  <2> QED
    BY <2>1, <2>2
<1> QED
  BY <1>1, <1>4, <1>5 DEF Reporting, Closed, ReportedInOrder, books

\* What a step that only makes records due, or makes them wait, does.
LEMMA DueOnly ==
    ASSUME TypeOK, NEW some \in SUBSET DOMAIN chain, NEW d \in BOOLEAN,
           chain' = [n \in DOMAIN chain |->
                       IF n \in some THEN [chain[n] EXCEPT !.due = d] ELSE chain[n]]
    PROVE  /\ SameRecords
           /\ \A n \in DOMAIN chain : chain'[n].status = chain[n].status
<1>1. \A n \in DOMAIN chain : chain[n] \in FiscalRow
  BY ChainFacts
<1>2. \A n \in DOMAIN chain :
        /\ [chain[n] EXCEPT !.due = d] \in FiscalRow
        /\ SameRecord([chain[n] EXCEPT !.due = d], chain[n])
        /\ [chain[n] EXCEPT !.due = d].status = chain[n].status
  BY <1>1 DEF FiscalRow, SameRecord
<1>3. chain' \in [DOMAIN chain -> FiscalRow]
  BY <1>1, <1>2
<1>4. chain' \in Seq(FiscalRow) /\ Len(chain') = Len(chain) /\ DOMAIN chain' = DOMAIN chain
  BY <1>3, Rewritten
<1>5. \A n \in DOMAIN chain :
        chain'[n] = IF n \in some THEN [chain[n] EXCEPT !.due = d] ELSE chain[n]
  OBVIOUS
<1> QED
  BY <1>2, <1>4, <1>5 DEF SameRecords, SameRecord

\* What a step that gives one record a status does.
LEMMA StatusOnly ==
    ASSUME TypeOK, NEW n \in DOMAIN chain, NEW s \in Status,
           chain' = [chain EXCEPT ![n].status = s]
    PROVE  /\ SameRecords
           /\ chain'[n].status = s
           /\ \A m \in DOMAIN chain : m # n => chain'[m] = chain[m]
<1>1. \A m \in DOMAIN chain : chain[m] \in FiscalRow
  BY ChainFacts
<1> DEFINE row == [chain[n] EXCEPT !.status = s]
<1>2. row \in FiscalRow /\ SameRecord(row, chain[n]) /\ row.status = s
  BY <1>1, RowChanges
<1>3. DOMAIN chain = 1 .. Len(chain) /\ chain \in [1 .. Len(chain) -> FiscalRow]
  BY LenProperties DEF TypeOK
<1>4. chain' = [chain EXCEPT ![n] = row]
  OBVIOUS
<1> HIDE DEF row
<1>5. /\ chain' \in [DOMAIN chain -> FiscalRow]
      /\ chain'[n] = row /\ \A m \in DOMAIN chain : m # n => chain'[m] = chain[m]
  BY <1>2, <1>3, <1>4
<1>6. chain' \in Seq(FiscalRow) /\ Len(chain') = Len(chain) /\ DOMAIN chain' = DOMAIN chain
  BY <1>5, Rewritten
<1> QED
  BY <1>2, <1>5, <1>6 DEF SameRecords, SameRecord

LEMMA PressSendHolds ==
    ASSUME TypeOK, Reporting, PressSend
    PROVE  TypeOK' /\ SameRecords /\ Reporting'
<1> DEFINE sub == [at |-> "send", recs |-> NextBatch, ok |-> {}]
<1>1. /\ run' = run \/ run' = [run EXCEPT !["button"] = sub]
      /\ agency' = agency
      /\ UNCHANGED <<counter, rowOf, chainLock, entry>>
  BY DEF PressSend
<1>2. /\ SameRecords
      /\ \A n \in DOMAIN chain : chain'[n].status = chain[n].status
  BY DueOnly DEF PressSend, Pending
<1>3. /\ NextBatch \subseteq DOMAIN chain /\ NextBatch \subseteq Nat
      /\ \A n \in NextBatch : \A m \in 1 .. n : m \in NextBatch \cup agency
  BY BatchIsFirst
<1>4. sub \in Submission
  BY <1>3 DEF Submission
<1> HIDE DEF sub
<1>5. TypeOK'
  BY <1>1, <1>2, <1>4 DEF TypeOK, SameRecords
<1>6. ASSUME NEW r \in Runs
      PROVE  RunOK(r)'
  <2>1. CASE run'[r] = sub
    BY <1>1, <1>2, <1>3, <2>1 DEF RunOK, SameRecords, sub
  <2>2. CASE run'[r] = run[r]
    BY <1>1, <1>2, <2>2 DEF RunOK, SameRecords, Reporting
  <2> QED
    BY <1>1, <2>1, <2>2 DEF TypeOK
<1> QED
  BY <1>1, <1>2, <1>5, <1>6 DEF Reporting, Closed, ReportedInOrder, SameRecords

LEMMA DeliverHolds ==
    ASSUME TypeOK, Reporting, NEW r \in Runs, Deliver(r)
    PROVE  TypeOK' /\ SameRecords /\ Reporting'
<1> DEFINE sub == [at |-> "answer", recs |-> run[r].recs, ok |-> run[r].recs \ agency]
<1>1. /\ run[r].at = "send" /\ run' = [run EXCEPT ![r] = sub]
      /\ agency' = agency \cup run[r].recs
      /\ UNCHANGED books
  BY DEF Deliver
<1>2. run[r].recs \in SUBSET Nat
  BY <1>1, RunFacts, RunningIsNotIdle DEF Submission
<1>3. sub \in Submission
  BY <1>2 DEF Submission
<1>4. TypeOK' /\ SameRecords
  BY <1>1, <1>2, <1>3 DEF TypeOK, books, SameRecords, SameRecord
<1>5. RunOK(r)
  BY DEF Reporting
<1>6. ReportedInOrder'
  BY <1>1, <1>5 DEF Reporting, ReportedInOrder, RunOK
<1>7. ASSUME NEW q \in Runs
      PROVE  RunOK(q)'
  <2>1. CASE q = r
    <3>1. run'[q] = sub
      BY <1>1, <2>1 DEF TypeOK
    <3> QED
      BY <1>1, <1>5, <3>1 DEF RunOK, books
  <2>2. CASE q # r
    <3>1. run'[q] = run[q]
      BY <1>1, <2>2 DEF TypeOK
    <3> QED
      BY <1>1, <3>1 DEF RunOK, books, Reporting
  <2> QED
    BY <2>1, <2>2
<1> QED
  BY <1>1, <1>4, <1>6, <1>7 DEF Reporting, Closed, books

\* A submission that ends or goes on to its next answer is one again.
LEMMA LeftIsSubmission ==
    ASSUME TypeOK, NEW r \in Runs, run[r].at = "answer", NEW n
    PROVE  AnswersLeft(r, n) \in Submission
<1>1. run[r] \in Submission
  BY RunFacts, RunningIsNotIdle
<1> QED
  BY <1>1 DEF Submission, AnswersLeft

LEMMA LostHolds ==
    ASSUME TypeOK, Reporting, NEW r \in Runs, Lost(r)
    PROVE  TypeOK' /\ SameRecords /\ Reporting'
<1> DEFINE New(n) == IF n \in run[r].recs
                       THEN [chain[n] EXCEPT !.status = "ERROR", !.due = FALSE]
                     ELSE IF n \in Pending THEN [chain[n] EXCEPT !.due = FALSE]
                     ELSE chain[n]
<1>1. /\ chain' = [n \in DOMAIN chain |-> New(n)]
      /\ run' = [run EXCEPT ![r] = Idle] /\ agency' = agency
      /\ UNCHANGED <<counter, rowOf, chainLock, entry>>
  BY DEF Lost
<1>2. ASSUME NEW n \in DOMAIN chain
      PROVE  /\ New(n) \in FiscalRow /\ SameRecord(New(n), chain[n])
             /\ New(n).status \in Open \/ New(n).status = chain[n].status
  <2>1. PICK row \in FiscalRow : row = chain[n]
    BY ChainFacts
  <2>2. /\ [row EXCEPT !.status = "ERROR", !.due = FALSE] \in FiscalRow
        /\ SameRecord([row EXCEPT !.status = "ERROR", !.due = FALSE], row)
        /\ [row EXCEPT !.status = "ERROR", !.due = FALSE].status = "ERROR"
        /\ [row EXCEPT !.due = FALSE] \in FiscalRow
        /\ SameRecord([row EXCEPT !.due = FALSE], row)
        /\ [row EXCEPT !.due = FALSE].status = row.status
    BY RowChanges DEF Status
  <2>3. \/ New(n) = [row EXCEPT !.status = "ERROR", !.due = FALSE]
        \/ New(n) = [row EXCEPT !.due = FALSE]
        \/ New(n) = row
    BY <2>1
  <2> QED
    BY <2>1, <2>2, <2>3 DEF Open, SameRecord
<1> HIDE DEF New
<1>3. /\ chain' \in [DOMAIN chain -> FiscalRow]
      /\ \A n \in DOMAIN chain : chain'[n] = New(n)
  BY <1>1, <1>2
<1>4. SameRecords
  BY <1>2, <1>3, Rewritten DEF SameRecords
<1>5. TypeOK'
  BY <1>1, <1>4 DEF TypeOK, SameRecords
<1>6. \A q \in Runs : run'[q] = run[q] \/ run'[q] = Idle
  BY <1>1 DEF TypeOK
<1>7. Reporting'
  BY <1>1, <1>2, <1>3, <1>4, <1>6, KeepsReporting
<1> QED
  BY <1>4, <1>5, <1>7

\* The answer for one record: s closes it, or is an error.
LEMMA AnswerHolds ==
    ASSUME TypeOK, Reporting, NEW r \in Runs, run[r].at = "answer",
           NEW n \in run[r].recs, NEW s \in Status,
           chain' = [chain EXCEPT ![n].status = s],
           run' = [run EXCEPT ![r] = AnswersLeft(r, n)],
           UNCHANGED <<counter, rowOf, chainLock, entry, agency>>
    PROVE  TypeOK' /\ SameRecords /\ Reporting'
<1>1. n \in DOMAIN chain /\ n \in agency
  BY DEF Reporting, RunOK
<1>2. /\ SameRecords
      /\ \A m \in DOMAIN chain : m # n => chain'[m] = chain[m]
  BY <1>1, StatusOnly
<1>3. AnswersLeft(r, n) \in Submission
  BY LeftIsSubmission
<1>4. TypeOK'
  BY <1>2, <1>3 DEF TypeOK, SameRecords
<1>5. \A q \in Runs : \/ run'[q] = run[q]
                      \/ run[q].at = "answer" /\ run'[q] = AnswersLeft(q, n)
  BY DEF TypeOK
<1>6. Reporting'
  BY <1>1, <1>2, <1>5, KeepsReporting
<1> QED
  BY <1>2, <1>4, <1>6

LEMMA WriteAnswerHolds ==
    ASSUME TypeOK, Reporting, NEW r \in Runs, WriteAnswer(r)
    PROVE  TypeOK' /\ SameRecords /\ Reporting'
<1>1. PICK n \in run[r].recs, s \in {"ACCEPTED", "REJECTED"} :
        /\ chain' = [chain EXCEPT ![n].status = s]
        /\ run' = [run EXCEPT ![r] = AnswersLeft(r, n)]
  BY Zenon DEF WriteAnswer
<1>2. s \in Status
  BY DEF Status
<1> QED
  BY <1>1, <1>2, AnswerHolds DEF WriteAnswer

LEMMA NoResultHolds ==
    ASSUME TypeOK, Reporting, NEW r \in Runs, NoResult(r)
    PROVE  TypeOK' /\ SameRecords /\ Reporting'
<1>1. PICK n \in run[r].recs :
        /\ chain' = [chain EXCEPT ![n].status = "ERROR"]
        /\ run' = [run EXCEPT ![r] = AnswersLeft(r, n)]
  BY Zenon DEF NoResult
<1>2. "ERROR" \in Status
  BY DEF Status
<1> QED
  BY <1>1, <1>2, AnswerHolds DEF NoResult

LEMMA ReleaseHolds ==
    ASSUME TypeOK, Reporting, NEW r \in Runs, Release(r)
    PROVE  TypeOK' /\ SameRecords /\ Reporting'
<1>1. /\ SameRecords
      /\ \A n \in DOMAIN chain : chain'[n].status = chain[n].status
  BY DueOnly DEF Release, Pending
<1>2. TypeOK'
  BY <1>1 DEF Release, TypeOK, SameRecords
<1>3. \A q \in Runs : run'[q] = run[q] \/ run'[q] = Idle
  BY DEF Release, TypeOK
<1>4. agency' = agency
  BY DEF Release
<1> QED
  BY <1>1, <1>2, <1>3, <1>4, KeepsReporting

LEMMA BecomeDueHolds ==
    ASSUME TypeOK, Reporting, BecomeDue
    PROVE  TypeOK' /\ SameRecords /\ Reporting'
<1>1. chain' = [n \in DOMAIN chain |->
                  IF n \in DOMAIN chain THEN [chain[n] EXCEPT !.due = TRUE] ELSE chain[n]]
  BY DEF BecomeDue
<1>2. /\ SameRecords
      /\ \A n \in DOMAIN chain : chain'[n].status = chain[n].status
  BY <1>1, DueOnly
<1>3. TypeOK'
  BY <1>2 DEF BecomeDue, TypeOK, SameRecords
<1>4. agency' = agency /\ run' = run
  BY DEF BecomeDue
<1> QED
  BY <1>2, <1>3, <1>4, KeepsReporting

-----------------------------------------------------------------------------
\* The transactions.  Before its commit one changes its own entry and takes
\* locks that are free.
LEMMA ReportingStays ==
    ASSUME TypeOK, Reporting, UNCHANGED <<chain, agency>>,
           \A r \in Runs : run'[r] = run[r] \/ run'[r] = Idle
    PROVE  Reporting'
<1>1. SameRecords
  BY DEF SameRecords, SameRecord, TypeOK
<1> QED
  BY <1>1, KeepsReporting

LEMMA CountStays ==
    ASSUME Books, UNCHANGED <<chain, counter>>
    PROVE  Numbered' /\ ChainUnbroken'
  BY DEF Books, Numbered, OfSeries, ChainUnbroken

LEMMA EntryFacts ==
    ASSUME TypeOK, NEW t \in Tills, NEW e \in entry[t]
    PROVE  /\ e \in Entry /\ e.of \in Documents
           /\ SeriesOf[e.of] \in Series /\ BranchOf[e.of] \in Branches
  BY DEF TypeOK, Entry, Series, Branches

LEMMA RecordBeginHolds ==
    ASSUME Inv, NEW t \in Tills, NEW d \in Documents, RecordBegin(t, d)
    PROVE  Inv'
<1> DEFINE e == [of |-> d, number |-> 0, seq |-> 0, prev |-> 0]
<1>1. /\ entry' = [entry EXCEPT ![t] = {e}]
      /\ UNCHANGED <<chain, counter, rowOf, chainLock, run, agency>>
  BY DEF RecordBegin
<1>2. e \in Entry
  BY DEF Entry
<1>3. TypeOK'
  BY <1>1, <1>2 DEF Inv, TypeOK
<1>4. Locked'
  BY <1>1 DEF Inv, Books, TypeOK, Locked, EntryOK
<1> QED
  BY <1>1, <1>3, <1>4, CountStays, ReportingStays DEF Inv, Books

LEMMA TakeNumberHolds ==
    ASSUME Inv, NEW t \in Tills, TakeNumber(t)
    PROVE  Inv'
<1>1. PICK e \in entry[t] :
        /\ e.number = 0 /\ rowOf[BranchOf[e.of]] = {}
        /\ rowOf' = [rowOf EXCEPT ![BranchOf[e.of]] = {t}]
        /\ entry' = [entry EXCEPT ![t] = {[e EXCEPT !.number = counter[SeriesOf[e.of]]]}]
  BY Zenon DEF TakeNumber
<1>2. UNCHANGED <<chain, counter, chainLock, run, agency>>
  BY DEF TakeNumber
<1>3. /\ e \in Entry /\ SeriesOf[e.of] \in Series /\ BranchOf[e.of] \in Branches
  BY EntryFacts DEF Inv
<1>3a. PICK c \in Nat \ {0} : c = counter[SeriesOf[e.of]]
  BY <1>3 DEF Inv, TypeOK
<1> DEFINE f == [e EXCEPT !.number = c]
<1>4. /\ f \in Entry /\ f.of = e.of /\ f.seq = e.seq /\ f.number = counter[SeriesOf[e.of]]
      /\ f.number > 0
  BY <1>3, <1>3a DEF Entry
<1>5. /\ rowOf' = [rowOf EXCEPT ![BranchOf[e.of]] = {t}]
      /\ entry' = [entry EXCEPT ![t] = {f}]
  BY <1>1, <1>3a
<1> HIDE DEF f
<1>6. TypeOK'
  BY <1>2, <1>3, <1>4, <1>5 DEF Inv, TypeOK
<1>7. Locked'
  <2> SUFFICES ASSUME NEW u \in Tills, NEW g \in entry'[u]
               PROVE  EntryOK(u, g)'
    BY DEF Locked
  <2>1. CASE u = t
    <3>1. g = f
      BY <1>5, <2>1 DEF Inv, TypeOK
    <3>2. e.seq = 0
      BY <1>1, <1>3 DEF Inv, Books, Locked, EntryOK, Entry
    <3> QED
      BY <1>2, <1>3, <1>4, <1>5, <2>1, <3>1, <3>2 DEF EntryOK, Inv, TypeOK
  <2>2. CASE u # t
    <3>1. g \in entry[u]
      BY <1>5, <2>2 DEF Inv, TypeOK
    <3>2. EntryOK(u, g) /\ BranchOf[g.of] \in Branches
      BY <3>1, EntryFacts DEF Inv, Books, Locked
    <3>3. g.number > 0 => BranchOf[g.of] # BranchOf[e.of]
      BY <1>1, <3>2 DEF EntryOK
    <3> QED
      BY <1>2, <1>3, <1>5, <3>2, <3>3 DEF EntryOK, Inv, TypeOK
  <2> QED
    BY <2>1, <2>2
<1> QED
  BY <1>2, <1>6, <1>7, CountStays, ReportingStays DEF Inv, Books

LEMMA AppendRecordHolds ==
    ASSUME Inv, NEW t \in Tills, AppendRecord(t)
    PROVE  Inv'
<1>1. PICK e \in entry[t] :
        /\ e.number > 0 /\ e.seq = 0 /\ chainLock = {}
        /\ chainLock' = {t}
        /\ entry' = [entry EXCEPT ![t] = {[of |-> e.of, number |-> e.number,
                                           seq |-> Len(chain) + 1, prev |-> Len(chain)]}]
  BY Zenon DEF AppendRecord, ChainFree
<1>2. UNCHANGED <<chain, counter, rowOf, run, agency>>
  BY DEF AppendRecord
<1>3. e \in Entry /\ EntryOK(t, e)
  BY EntryFacts DEF Inv, Books, Locked
<1>4. Len(chain) \in Nat
  BY ChainFacts DEF Inv
<1> DEFINE f == [of |-> e.of, number |-> e.number, seq |-> Len(chain) + 1, prev |-> Len(chain)]
<1>5. f \in Entry
  BY <1>3, <1>4 DEF Entry
<1>6. TypeOK'
  BY <1>1, <1>2, <1>5 DEF Inv, TypeOK
<1>7. Locked'
  <2> SUFFICES ASSUME NEW u \in Tills, NEW g \in entry'[u]
               PROVE  EntryOK(u, g)'
    BY DEF Locked
  <2>1. CASE u = t
    <3>1. g = f
      BY <1>1, <2>1 DEF Inv, TypeOK
    <3> QED
      BY <1>1, <1>2, <1>3, <2>1, <3>1 DEF EntryOK
  <2>2. CASE u # t
    <3>1. g \in entry[u] /\ EntryOK(u, g)
      BY <1>1, <2>2 DEF Inv, TypeOK, Books, Locked
    <3> QED
      BY <1>1, <1>2, <3>1 DEF EntryOK
  <2> QED
    BY <2>1, <2>2
<1> QED
  BY <1>2, <1>6, <1>7, CountStays, ReportingStays DEF Inv, Books

\* A transaction that ends gives its locks back and takes nothing from others.
LEMMA EndKeepsOthers ==
    ASSUME Inv, NEW t \in Tills, EndRecord(t), NEW u \in Tills, NEW g \in entry'[u]
    PROVE  /\ u # t /\ g \in entry[u] /\ EntryOK(u, g)
           /\ BranchOf[g.of] \in Branches
           /\ g.number > 0 => /\ rowOf[BranchOf[g.of]] = {u}
                              /\ rowOf'[BranchOf[g.of]] = {u}
           /\ g.seq > 0 => chainLock = {u} /\ chainLock' = {u}
<1>1. /\ entry' = [entry EXCEPT ![t] = {}]
      /\ rowOf' = [b \in Branches |-> rowOf[b] \ {t}]
      /\ chainLock' = chainLock \ {t}
  BY DEF EndRecord
<1>2. u # t /\ g \in entry[u]
  BY <1>1 DEF Inv, TypeOK
<1>3. EntryOK(u, g) /\ BranchOf[g.of] \in Branches
  BY <1>2, EntryFacts DEF Inv, Books, Locked
<1> QED
  BY <1>1, <1>2, <1>3 DEF EntryOK

LEMMA EndKeepsTypes ==
    ASSUME TypeOK, NEW t \in Tills, EndRecord(t)
    PROVE  /\ rowOf' \in [Branches -> SUBSET Tills] /\ chainLock' \in SUBSET Tills
           /\ entry' \in [Tills -> SUBSET Entry]
  BY DEF EndRecord, TypeOK

LEMMA RollbackRecordHolds ==
    ASSUME Inv, NEW t \in Tills, RollbackRecord(t)
    PROVE  Inv'
<1>1. EndRecord(t) /\ UNCHANGED <<chain, counter, run, agency>>
  BY DEF RollbackRecord
<1>2. TypeOK'
  BY <1>1, EndKeepsTypes DEF Inv, TypeOK
<1>3. Locked'
  BY <1>1, EndKeepsOthers DEF Locked, EntryOK
<1> QED
  BY <1>1, <1>2, <1>3, CountStays, ReportingStays DEF Inv, Books

LEMMA FiscalRestartHolds ==
    ASSUME Inv, FiscalRestart
    PROVE  Inv'
<1>1. TypeOK'
  BY DEF Inv, TypeOK, FiscalRestart
<1>2. Locked'
  BY DEF Locked, FiscalRestart
<1>3. \A r \in Runs : run'[r] = Idle
  BY DEF FiscalRestart
<1>4. UNCHANGED <<chain, counter, agency>>
  BY DEF FiscalRestart
<1> QED
  BY <1>1, <1>2, <1>3, <1>4, CountStays, ReportingStays DEF Inv, Books

LEMMA CommitRecordHolds ==
    ASSUME Inv, NEW t \in Tills, CommitRecord(t)
    PROVE  Inv'
<1>1. PICK e \in entry[t] :
        /\ e.seq > 0
        /\ chain' = Append(chain, [of |-> e.of, seq |-> e.seq, number |-> e.number,
                                   prev |-> e.prev, status |-> "PENDING", due |-> TRUE])
        /\ counter' = [counter EXCEPT ![SeriesOf[e.of]] = e.number + 1]
        /\ EndRecord(t)
  BY Zenon DEF CommitRecord
<1>2. UNCHANGED <<run, agency>>
  BY DEF CommitRecord
<1>3. /\ e \in Entry /\ e.of \in Documents
      /\ SeriesOf[e.of] \in Series /\ BranchOf[e.of] \in Branches /\ EntryOK(t, e)
  BY EntryFacts DEF Inv, Books, Locked
<1>4. Len(chain) \in Nat /\ DOMAIN chain = 1 .. Len(chain) /\ chain \in Seq(FiscalRow)
  BY ChainFacts DEF Inv, TypeOK
<1>4a. PICK N \in Nat : N = Len(chain) + 1
  BY <1>4
<1> DEFINE row == [of |-> e.of, seq |-> e.seq, number |-> e.number, prev |-> e.prev,
                  status |-> "PENDING", due |-> TRUE]
<1>5. row \in FiscalRow /\ row.of = e.of /\ row.seq = N /\ row.prev = Len(chain)
      /\ row.number = e.number /\ row.status = "PENDING"
  BY <1>1, <1>3, <1>4a DEF FiscalRow, Entry, EntryOK, Status
<1>6. chain' = Append(chain, row)
  BY <1>1
<1> HIDE DEF row
<1>7. /\ chain' \in Seq(FiscalRow) /\ Len(chain') = N /\ DOMAIN chain' = 1 .. N
      /\ chain'[N] = row /\ \A n \in 1 .. Len(chain) : chain'[n] = chain[n]
  BY <1>4, <1>4a, <1>5, <1>6
<1>8. TypeOK'
  <2>1. e.number + 1 \in Nat \ {0}
    BY <1>3 DEF Entry
  <2> QED
    BY <1>1, <1>2, <1>3, <1>7, <2>1, EndKeepsTypes DEF Inv, TypeOK
<1>9. Locked'
  <2> SUFFICES ASSUME NEW u \in Tills, NEW g \in entry'[u]
               PROVE  EntryOK(u, g)'
    BY DEF Locked
  <2>1. /\ u # t /\ g \in entry[u] /\ EntryOK(u, g) /\ BranchOf[g.of] \in Branches
        /\ g.number > 0 => rowOf[BranchOf[g.of]] = {u} /\ rowOf'[BranchOf[g.of]] = {u}
        /\ g.seq > 0 => chainLock = {u} /\ chainLock' = {u}
    BY <1>1, EndKeepsOthers
  <2>2. g \in Entry /\ g.of \in Documents /\ SeriesOf[g.of] \in Series
    BY <2>1, EntryFacts DEF Inv
  <2>3. ~(g.seq > 0)
    BY <1>1, <1>3, <2>1 DEF EntryOK
  <2>4. g.number > 0 => SeriesOf[g.of] # SeriesOf[e.of]
    BY <1>1, <1>3, <2>1, <2>2, FiscalAssumption DEF EntryOK
  <2>5. g.number > 0 => counter'[SeriesOf[g.of]] = counter[SeriesOf[g.of]]
    BY <1>1, <2>2, <2>4 DEF Inv, TypeOK
  <2> QED
    BY <2>1, <2>3, <2>5 DEF EntryOK
<1>10. ASSUME NEW s, NEW n \in 0 .. Len(chain)
       PROVE  OfSeries(s, n)' = OfSeries(s, n)
  BY <1>4, <1>7 DEF OfSeries
<1>11. ASSUME NEW s
       PROVE  /\ OfSeries(s, N)' = OfSeries(s, Len(chain)) \cup (IF s = SeriesOf[e.of] THEN {N} ELSE {})
              /\ IsFiniteSet(OfSeries(s, Len(chain))) /\ N \notin OfSeries(s, Len(chain))
  <2>1. \A m \in 1 .. N : chain'[m].of = IF m = N THEN e.of ELSE chain[m].of
    BY <1>4, <1>4a, <1>5, <1>7
  <2>2. IsFiniteSet(OfSeries(s, Len(chain)))
    <3>1. OfSeries(s, Len(chain)) \in SUBSET Nat
          /\ \A m \in OfSeries(s, Len(chain)) : m <= Len(chain)
      BY <1>4 DEF OfSeries
    <3> QED
      BY <1>4, <3>1, FS_BoundedSetOfNaturals
  <2>3. OfSeries(s, N)' = {m \in 1 .. N : SeriesOf[chain'[m].of] = s}
    BY DEF OfSeries
  <2>4. 1 .. N = (1 .. Len(chain)) \cup {N} /\ N \notin 1 .. Len(chain)
    BY <1>4, <1>4a
  <2>5. {m \in 1 .. N : SeriesOf[chain'[m].of] = s} =
          OfSeries(s, Len(chain)) \cup (IF s = SeriesOf[e.of] THEN {N} ELSE {})
    BY <2>1, <2>4 DEF OfSeries
  <2> QED
    BY <2>2, <2>3, <2>4, <2>5 DEF OfSeries
<1>12. ASSUME NEW s
       PROVE  Cardinality(OfSeries(s, N)') =
                Cardinality(OfSeries(s, Len(chain))) + (IF s = SeriesOf[e.of] THEN 1 ELSE 0)
  <2>1. Cardinality(OfSeries(s, Len(chain))) \in Nat
    BY <1>11, FS_CardinalityType
  <2>2. Cardinality(OfSeries(s, Len(chain)) \cup {N}) = Cardinality(OfSeries(s, Len(chain))) + 1
    BY <1>11, FS_AddElement
  <2>3. CASE s = SeriesOf[e.of]
    BY <1>11, <2>2, <2>3
  <2>4. CASE s # SeriesOf[e.of]
    <3>1. OfSeries(s, N)' = OfSeries(s, Len(chain))
      BY <1>11, <2>4
    <3> QED
      BY <2>1, <2>4, <3>1
  <2> QED
    BY <2>3, <2>4
<1>13. e.number = Cardinality(OfSeries(SeriesOf[e.of], Len(chain))) + 1
  BY <1>1, <1>3 DEF Inv, Books, Numbered, EntryOK
<1>14. Numbered'
  <2> SUFFICES ASSUME NEW s \in Series
               PROVE  counter'[s] = Cardinality(OfSeries(s, N)') + 1
    BY <1>7 DEF Numbered
  <2>1. CASE s = SeriesOf[e.of]
    <3>1. counter'[s] = e.number + 1
      BY <1>1, <1>3, <2>1 DEF Inv, TypeOK
    <3> QED
      BY <1>12, <1>13, <2>1, <3>1
  <2>2. CASE s # SeriesOf[e.of]
    <3>1. counter'[s] = counter[s]
      BY <1>1, <2>2 DEF Inv, TypeOK
    <3>2. counter[s] = Cardinality(OfSeries(s, Len(chain))) + 1
      BY DEF Inv, Books, Numbered
    <3>3. Cardinality(OfSeries(s, Len(chain))) \in Nat
      BY <1>11, FS_CardinalityType
    <3> QED
      BY <1>12, <2>2, <3>1, <3>2, <3>3
  <2> QED
    BY <2>1, <2>2
<1>15. ASSUME NEW n \in 1 .. N
       PROVE  /\ chain'[n].seq = n /\ chain'[n].prev = n - 1
              /\ chain'[n].number =
                   Cardinality({m \in 1 .. n : SeriesOf[chain'[m].of] = SeriesOf[chain'[n].of]})
  <2>1. PICK s : s = SeriesOf[chain'[n].of]
    OBVIOUS
  <2>2. OfSeries(s, n)' = {m \in 1 .. n : SeriesOf[chain'[m].of] = SeriesOf[chain'[n].of]}
    BY <2>1 DEF OfSeries
  <2>3. CASE n = N
    <3>1. s = SeriesOf[e.of] /\ chain'[n] = row
      BY <1>5, <1>7, <2>1, <2>3
    <3>2. Cardinality(OfSeries(s, N)') = e.number
      BY <1>12, <1>13, <3>1
    <3>3. chain'[n].seq = n /\ chain'[n].prev = n - 1 /\ chain'[n].number = e.number
      BY <1>4, <1>4a, <1>5, <2>3, <3>1
    <3> QED
      BY <2>2, <2>3, <3>2, <3>3
  <2>4. CASE n # N
    <3>1. n \in DOMAIN chain /\ chain'[n] = chain[n] /\ n \in 0 .. Len(chain)
      BY <1>4, <1>4a, <1>7, <2>4
    <3>2. OfSeries(s, n)' = OfSeries(s, n)
      BY <1>10, <3>1
    <3>3. chain[n].number = Cardinality(OfSeries(s, n))
      BY <2>1, <3>1 DEF Inv, Books, ChainUnbroken, OfSeries
    <3> QED
      BY <2>2, <3>1, <3>2, <3>3 DEF Inv, Books, ChainUnbroken
  <2> QED
    BY <2>3, <2>4
<1>16. ChainUnbroken'
  BY <1>7, <1>15 DEF ChainUnbroken
<1>17. Reporting'
  <2>1. Closed'
    BY <1>2, <1>4, <1>4a, <1>5, <1>7 DEF Inv, Reporting, Closed, Open
  <2>2. ASSUME NEW r \in Runs
        PROVE  RunOK(r)'
    BY <1>2, <1>4, <1>4a, <1>7 DEF Inv, Reporting, RunOK
  <2> QED
    BY <1>2, <2>1, <2>2 DEF Inv, Reporting, ReportedInOrder
<1> QED
  BY <1>8, <1>9, <1>14, <1>16, <1>17 DEF Inv, Books

-----------------------------------------------------------------------------
LEMMA InitHolds == FiscalInit => Inv
<1> SUFFICES ASSUME FiscalInit
             PROVE  Inv
  OBVIOUS
<1>1. /\ chain = <<>> /\ Len(chain) = 0 /\ DOMAIN chain = {}
      /\ chain \in Seq(FiscalRow)
  BY EmptySeq DEF FiscalInit
<1>2. TypeOK
  BY <1>1 DEF FiscalInit, TypeOK
<1>3. Numbered
  <2>1. \A s : OfSeries(s, 0) = {}
    BY DEF OfSeries
  <2>2. Cardinality({}) = 0
    BY FS_EmptySet
  <2>3. \A s \in Series : Cardinality(OfSeries(s, Len(chain))) = 0
    BY <1>1, <2>1, <2>2
  <2>4. \A s \in Series : counter[s] = 1
    BY DEF FiscalInit
  <2> QED
    BY <2>3, <2>4 DEF Numbered
<1>4. Locked /\ ChainUnbroken
  BY <1>1 DEF FiscalInit, Locked, ChainUnbroken
<1>5. Reporting
  BY <1>1 DEF FiscalInit, Reporting, Closed, ReportedInOrder, RunOK, Idle
<1> QED
  BY <1>2, <1>3, <1>4, <1>5 DEF Inv, Books

\* The steps of a submission leave the books to KeepsBooks.
LEMMA SubmissionHolds ==
    ASSUME Inv, TypeOK', SameRecords, Reporting',
           UNCHANGED <<counter, rowOf, chainLock, entry>>
    PROVE  Inv'
  BY KeepsBooks DEF Inv

\* Inv is inductive.
LEMMA StepHolds == Inv /\ [FiscalNext]_fiscalVars => Inv'
<1> SUFFICES ASSUME Inv, [FiscalNext]_fiscalVars
             PROVE  Inv'
  OBVIOUS
<1> TypeOK /\ Books /\ Reporting
  BY DEF Inv
<1>1. CASE UNCHANGED fiscalVars
  <2>1. TypeOK' /\ Locked'
    BY <1>1 DEF fiscalVars, TypeOK, Books, Locked, EntryOK
  <2>2. Numbered' /\ ChainUnbroken'
    BY <1>1, CountStays DEF fiscalVars
  <2>3. Reporting'
    BY <1>1, ReportingStays DEF fiscalVars
  <2> QED
    BY <2>1, <2>2, <2>3 DEF Inv, Books
<1>2. ASSUME NEW t \in Tills, NEW d \in Documents, RecordBegin(t, d)
      PROVE  Inv'
  BY <1>2, RecordBeginHolds
<1>3. ASSUME NEW t \in Tills, Record(t)
      PROVE  Inv'
  BY <1>3, TakeNumberHolds, AppendRecordHolds, CommitRecordHolds DEF Record
<1>4. ASSUME NEW t \in Tills, RollbackRecord(t)
      PROVE  Inv'
  BY <1>4, RollbackRecordHolds
<1>5. CASE FiscalRestart
  BY <1>5, FiscalRestartHolds
<1>6. CASE JobStarts
  <2>1. UNCHANGED <<counter, rowOf, chainLock, entry>>
    BY <1>6 DEF JobStarts, books
  <2> QED
    BY <1>6, <2>1, JobStartsHolds, SubmissionHolds
<1>7. CASE PressSend
  <2>1. UNCHANGED <<counter, rowOf, chainLock, entry>>
    BY <1>7 DEF PressSend
  <2> QED
    BY <1>7, <2>1, PressSendHolds, SubmissionHolds
<1>8. ASSUME NEW r \in Runs, Submit(r) \/ Lost(r) \/ NoResult(r)
      PROVE  Inv'
  <2>1. UNCHANGED <<counter, rowOf, chainLock, entry>>
    BY <1>8 DEF Submit, Deliver, WriteAnswer, Release, Lost, NoResult, books
  <2>2. TypeOK' /\ SameRecords /\ Reporting'
    BY <1>8, DeliverHolds, WriteAnswerHolds, ReleaseHolds, LostHolds, NoResultHolds DEF Submit
  <2> QED
    BY <2>1, <2>2, SubmissionHolds
<1>9. CASE BecomeDue
  <2>1. UNCHANGED <<counter, rowOf, chainLock, entry>>
    BY <1>9 DEF BecomeDue
  <2> QED
    BY <1>9, <2>1, BecomeDueHolds, SubmissionHolds
<1> QED
  BY <1>1, <1>2, <1>3, <1>4, <1>5, <1>6, <1>7, <1>8, <1>9 DEF FiscalNext

LEMMA InvHolds == FiscalSpec => []Inv
  BY InitHolds, StepHolds, PTL DEF FiscalSpec

\* However the sales and refunds of the branches overlap and roll back, each
\* record continues the one before it and every series is numbered without a
\* gap (VerifactuService.append and the counters of recordPaidOrder).
THEOREM ChainNeverBreaks == FiscalSpec => []ChainUnbroken
<1>1. Inv => ChainUnbroken
  BY DEF Inv, Books
<1> QED
  BY <1>1, InvHolds, PTL

\* What the agency has is the beginning of the chain, whatever the job and the
\* button send at once and whichever answers are lost (submitAll, sendNow).
THEOREM AgencyHasABeginning == FiscalSpec => []ReportedInOrder
<1>1. Inv => ReportedInOrder
  BY DEF Inv, Reporting
<1> QED
  BY <1>1, InvHolds, PTL
=============================================================================
