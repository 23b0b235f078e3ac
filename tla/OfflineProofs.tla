--------------------------- MODULE OfflineProofs ---------------------------
(***************************************************************************)
(* Proofs about OfflineSales, for any number of sales and calls and any    *)
(* size of a batch.                                                        *)
(*                                                                         *)
(* Inv is the inductive invariant.  Its core is WithOneCall: unless it was *)
(* sent again too early, a sale is with at most one call, and that call    *)
(* knows what its order looks like.  So when a call answers "refused" the  *)
(* sale is Over: not on the books, and with no call that could put it      *)
(* there.  PhoneOK and CallsOK carry the answers to the phone.             *)
(***************************************************************************)
EXTENDS OfflineSales, FiniteSetTheorems, WellFoundedInduction, TLAPS

Working == {"find", "create", "settle", "undo"}

\* Sale s is not on the books and no call is going to put it there.
Over(s) == order[s] # "PAID" /\ \A c \in Calls : s \notin call[c].left

\* Only a settled order is answered as done.
Backed(results) ==
    \A s \in DOMAIN results : results[s] # "refused" => order[s] = "PAID"

\* A refusal the phone has, or is going to have, stands.
Refusals(results) ==
    \A s \in DOMAIN results \ raced : results[s] = "refused" => Over(s)

PhoneOK ==
    /\ push.wait # 0 => push.got = <<>>
    /\ \A s \in push.left : sale[s] = "pending"
    /\ Backed(push.got)
    /\ Refusals(push.got)
    /\ SyncedIsRecorded
    /\ \A s \in Sales \ raced : sale[s] = "refused" => Over(s)

CallsOK ==
    \A c \in Calls :
        /\ call[c].step \in Working => call[c].left # {}
        /\ Backed(call[c].results)
        /\ push.wait = c =>
              /\ call[c].left \cup DOMAIN call[c].results \subseteq push.left
              /\ Refusals(call[c].results)

\* A sale that was not sent again too early is with one call, which knows how
\* far it is.
WithOneCall ==
    \A s \in Sales \ raced, c \in Calls :
        s \in call[c].left =>
            /\ \A d \in Calls : s \in call[d].left => d = c
            /\ s = Current(c) =>
                  /\ call[c].step = "create" => order[s] = "NONE"
                  /\ call[c].step \in {"settle", "undo"} => order[s] # "PAID"

Inv == TypeOK /\ PhoneOK /\ CallsOK /\ WithOneCall

\* The order of the sales' numbers.
Less == {ss \in Nat \X Nat : ss[1] < ss[2]}

\* Every set of sales has a smallest.
LEMMA HasFirst ==
    ASSUME NEW S, S \subseteq Sales, S # {}
    PROVE  \E x \in S : \A y \in S : x <= y
<1>1. S \subseteq Nat
  BY OfflineAssumption
<1>2. OpToRel(<, Nat) = Less
  BY DEF OpToRel, Less
<1>3. IsWellFoundedOn(Less, Nat)
  BY <1>2, NatLessThanWellFounded
<1>4. \E x \in S : \A y \in S : ~ (<<y, x>> \in Less)
  BY <1>1, <1>3, WFMin
<1>5. \A x, y \in Nat : ~ (<<y, x>> \in Less) => x <= y
  BY DEF Less
<1> QED
  BY <1>1, <1>4, <1>5

\* First picks one of the sales.
LEMMA FirstInSet ==
    ASSUME NEW S, S \subseteq Sales, S # {}
    PROVE  First(S) \in S
  BY HasFirst DEF First

\* Nothing answered yet.
LEMMA EmptyIsResults == <<>> \in Results /\ DOMAIN <<>> = {}
  BY DEF Results

\* A list of no answers is the empty one.
LEMMA EmptyResults ==
    ASSUME NEW r, r \in Results, DOMAIN r = {}
    PROVE  r = <<>>
  BY DEF Results

\* Results are functions from some of the sales to outcomes.
LEMMA ResultsFacts ==
    ASSUME NEW r, r \in Results
    PROVE  /\ DOMAIN r \subseteq Sales
           /\ \A s \in DOMAIN r : r[s] \in Outcome
  BY DEF Results

Added(r, s, o) == [t \in DOMAIN r \cup {s} |-> IF t = s THEN o ELSE r[t]]
Removed(r, s) == [t \in DOMAIN r \ {s} |-> r[t]]

\* What a list of answers is with one more, or one less.
LEMMA AddedFacts ==
    ASSUME NEW r, r \in Results, NEW s, s \in Sales, NEW o, o \in Outcome
    PROVE  /\ Added(r, s, o) \in Results
           /\ DOMAIN Added(r, s, o) = DOMAIN r \cup {s}
           /\ Added(r, s, o)[s] = o
           /\ \A t \in DOMAIN r \ {s} : Added(r, s, o)[t] = r[t]
<1>1. Added(r, s, o) \in [DOMAIN r \cup {s} -> Outcome]
  BY ResultsFacts DEF Added
<1>2. DOMAIN r \cup {s} \in SUBSET Sales
  BY ResultsFacts
<1>3. Added(r, s, o) \in Results
  BY <1>1, <1>2 DEF Results
<1> QED
  BY <1>3 DEF Added

LEMMA RemovedFacts ==
    ASSUME NEW r, r \in Results, NEW s
    PROVE  /\ Removed(r, s) \in Results
           /\ DOMAIN Removed(r, s) = DOMAIN r \ {s}
           /\ \A t \in DOMAIN r \ {s} : Removed(r, s)[t] = r[t]
<1>1. Removed(r, s) \in [DOMAIN r \ {s} -> Outcome]
  BY ResultsFacts DEF Removed
<1>2. DOMAIN r \ {s} \in SUBSET Sales
  BY ResultsFacts
<1>3. Removed(r, s) \in Results
  BY <1>1, <1>2 DEF Results
<1> QED
  BY <1>3 DEF Removed

CallRow == [step : Steps, left : SUBSET Sales, results : Results]
PushRow == [on : BOOLEAN, left : SUBSET Sales, wait : Calls \cup {0},
            got : Results]

\* A phone that does nothing and a call that is not in use.
LEMMA RestFacts ==
    /\ NoPush \in PushRow /\ NoPush.wait = 0 /\ NoPush.left = {}
    /\ NoPush.got = <<>> /\ DOMAIN NoPush.got = {}
    /\ FreeCall \in CallRow /\ FreeCall.left = {} /\ FreeCall.step = "free"
    /\ FreeCall.results = <<>> /\ DOMAIN FreeCall.results = {}
  BY EmptyIsResults DEF NoPush, FreeCall, PushRow, CallRow, Steps

\* The types, and what they say of one call.
LEMMA Types ==
    ASSUME Inv
    PROVE  /\ sale \in [Sales -> SaleStatus] /\ order \in [Sales -> OrderStatus]
           /\ push \in PushRow /\ call \in [Calls -> CallRow]
           /\ DOMAIN push.got \subseteq push.left
           /\ push.left \subseteq Sales /\ push.got \in Results
           /\ \A c \in Calls : /\ call[c].left \subseteq Sales
                              /\ call[c].results \in Results
                              /\ call[c].step \in Steps
  BY DEF Inv, TypeOK, CallRow, PushRow

-----------------------------------------------------------------------------
(* The phone *)

\* A new sale is with no call.
LEMMA SellSound ==
    ASSUME Inv, NEW s \in Sales, Sell(s)
    PROVE  Inv'
<1>1. /\ UNCHANGED <<push, order, call, raced, manual>>
      /\ sale[s] = "none"
      /\ sale' \in [Sales -> SaleStatus]
      /\ sale'[s] = "pending"
      /\ \A t \in Sales \ {s} : sale'[t] = sale[t]
  BY Types DEF Sell, SaleStatus
<1>2. TypeOK'
  BY <1>1 DEF Inv, TypeOK
<1>3. PhoneOK'
  BY <1>1, Types DEF Inv, PhoneOK, Backed, Refusals, Over, SyncedIsRecorded
<1>4. CallsOK' /\ WithOneCall'
  BY <1>1 DEF Inv, CallsOK, WithOneCall, Backed, Refusals, Over, Current
<1> QED
  BY <1>2, <1>3, <1>4 DEF Inv

\* The phone is done with a push, or gave up, or starts one: it waits for
\* nothing and has nothing to store.
LEMMA PushResetSound ==
    ASSUME Inv, UNCHANGED <<sale, order, call, raced, manual>>,
           push' \in PushRow, push'.wait = 0, push'.got = <<>>,
           \A s \in push'.left : sale[s] = "pending"
    PROVE  Inv'
<1>1. TypeOK'
  BY EmptyIsResults DEF Inv, TypeOK, PushRow
<1>2. PhoneOK'
  BY EmptyIsResults
     DEF Inv, PhoneOK, Backed, Refusals, Over, SyncedIsRecorded
<1>3. CallsOK'
  BY OfflineAssumption DEF Inv, CallsOK, Backed, Refusals, Over
<1>4. WithOneCall'
  BY DEF Inv, WithOneCall, Current
<1> QED
  BY <1>1, <1>2, <1>3, <1>4 DEF Inv

\* Starting, ending and giving up a push.
LEMMA PhoneRestsSound ==
    ASSUME Inv, StartPush \/ EndPush \/ GiveUp
    PROVE  Inv'
<1>1. CASE StartPush
  <2> DEFINE waiting == {s \in Sales : sale[s] = "pending"}
  <2>1. /\ push' = [NoPush EXCEPT !.on = TRUE, !.left = waiting]
        /\ UNCHANGED <<sale, order, call, raced, manual>>
    BY <1>1 DEF StartPush
  <2>2. waiting \subseteq Sales /\ \A s \in waiting : sale[s] = "pending"
    OBVIOUS
  <2> HIDE DEF waiting
  <2>3. /\ push' \in PushRow /\ push'.wait = 0 /\ push'.got = <<>>
        /\ push'.left = waiting
    BY <2>1, <2>2, RestFacts DEF PushRow
  <2> QED
    BY <2>1, <2>2, <2>3, PushResetSound
<1>2. CASE EndPush \/ GiveUp
  BY <1>2, RestFacts, PushResetSound DEF EndPush, GiveUp
<1> QED
  BY <1>1, <1>2

\* A batch has some of the sales, and at least one.
LEMMA FirstOfFacts ==
    ASSUME NEW S, S \subseteq Sales, S # {}
    PROVE  /\ FirstOf(Batch, S) \subseteq S
           /\ FirstOf(Batch, S) # {}
<1>1. S \subseteq Nat /\ Batch \in Nat \ {0}
  BY OfflineAssumption
<1>2. PICK s \in S : \A t \in S : s <= t
  BY <1>1, HasFirst
<1>6. \A x, y \in Nat : x <= y => ~ (y < x)
  OBVIOUS
<1>7. \A t \in S : ~ (t < s)
  BY <1>1, <1>2, <1>6
<1>3. {t \in S : t < s} = {}
  BY <1>7, Zenon
<1>4. Cardinality({t \in S : t < s}) = 0
  BY <1>3, FS_EmptySet
<1>5. s \in FirstOf(Batch, S)
  BY <1>1, <1>4 DEF FirstOf
<1> QED
  BY <1>5 DEF FirstOf

\* Sales another call still has are raced from here on.
LEMMA SendSound ==
    ASSUME Inv, NEW c \in Calls, Send(c)
    PROVE  Inv'
<1> DEFINE batch == FirstOf(Batch, push.left)
<1>1. /\ push.wait = 0 /\ push.got = <<>> /\ call[c] = FreeCall
      /\ batch \subseteq push.left /\ batch # {}
      /\ UNCHANGED <<sale, order, manual>>
  BY Types, FirstOfFacts DEF Send
<1>2. /\ push' = [push EXCEPT !.wait = c]
      /\ call' = [call EXCEPT ![c].step = "find", ![c].left = batch]
      /\ raced' = raced \cup (batch \cap UNION {call[d].left : d \in Calls})
  BY DEF Send
<1> HIDE DEF batch
<1>3. /\ push' \in PushRow /\ push'.wait = c /\ push'.got = <<>>
      /\ push'.left = push.left
  BY <1>1, <1>2, Types DEF PushRow
<1>4. /\ call' \in [Calls -> CallRow]
      /\ call'[c].step = "find" /\ call'[c].left = batch
      /\ call'[c].results = <<>>
      /\ \A d \in Calls \ {c} : call'[d] = call[d]
  BY <1>1, <1>2, Types, RestFacts DEF CallRow, Steps
<1>5. /\ raced \subseteq raced' /\ raced' \in SUBSET Sales
      /\ \A s \in batch \ raced', d \in Calls : s \notin call[d].left
  BY <1>1, <1>2, Types DEF Inv, TypeOK
<1>6. TypeOK'
  BY <1>1, <1>3, <1>4, <1>5, EmptyIsResults, Types
     DEF Inv, TypeOK, PushRow, CallRow
<1>7. \A s \in Sales \ batch : Over(s) => Over(s)'
  BY <1>1, <1>4 DEF Over
<1>8. PhoneOK'
  BY <1>1, <1>3, <1>5, <1>7, EmptyIsResults, Types, OfflineAssumption
     DEF Inv, PhoneOK, Backed, Refusals, SyncedIsRecorded
<1>9. CallsOK'
  BY <1>1, <1>3, <1>4, EmptyIsResults DEF Inv, CallsOK, Backed, Refusals
<1>10. WithOneCall'
  BY <1>1, <1>4, <1>5 DEF Inv, WithOneCall, Current
<1> QED
  BY <1>6, <1>8, <1>9, <1>10 DEF Inv

\* What the phone stores is backed by the order, or stands.
LEMMA TakeResultSound ==
    ASSUME Inv, TakeResult
    PROVE  Inv'
<1>1. push.got # <<>> /\ UNCHANGED <<order, call, raced, manual>>
  BY DEF TakeResult
<1>2. DOMAIN push.got # {} /\ DOMAIN push.got \subseteq Sales
  BY <1>1, Types, EmptyResults
<1>3. PICK s \in DOMAIN push.got :
          /\ sale' = [sale EXCEPT ![s] = StatusOf(push.got[s])]
          /\ push' = [push EXCEPT !.left = push.left \ {s},
                                  !.got = Removed(push.got, s)]
  <2> DEFINE s == First(DOMAIN push.got)
  <2>1. s \in DOMAIN push.got
    BY <1>2, FirstInSet
  <2>2. /\ sale' = [sale EXCEPT ![s] = StatusOf(push.got[s])]
        /\ push' = [push EXCEPT !.left = push.left \ {s},
                                !.got = Removed(push.got, s)]
    BY DEF TakeResult, Removed
  <2> QED
    BY <2>1, <2>2
<1>4. /\ s \in Sales /\ s \in push.left
      /\ push.got[s] \in Outcome
      /\ push.wait = 0
  BY <1>1, <1>2, Types, ResultsFacts DEF Inv, PhoneOK
<1>5. /\ sale' \in [Sales -> SaleStatus]
      /\ sale'[s] = StatusOf(push.got[s])
      /\ \A t \in Sales \ {s} : sale'[t] = sale[t]
  BY <1>3, <1>4, Types DEF StatusOf, SaleStatus
<1>6. /\ push' \in PushRow /\ push'.wait = 0
      /\ push'.left = push.left \ {s} /\ push'.got = Removed(push.got, s)
  <2>1. /\ Removed(push.got, s) \in Results /\ push.left \ {s} \in SUBSET Sales
        /\ push \in PushRow
    BY Types, RemovedFacts
  <2> QED
    BY <1>3, <1>4, <2>1 DEF PushRow
<1>7. /\ DOMAIN push'.got = DOMAIN push.got \ {s}
      /\ \A t \in DOMAIN push'.got : push'.got[t] = push.got[t]
  <2>1. push.got \in Results
    BY Types
  <2>2. LET r == Removed(push.got, s)
        IN  /\ DOMAIN r = DOMAIN push.got \ {s}
            /\ \A t \in DOMAIN push.got \ {s} : r[t] = push.got[t]
    BY <2>1, RemovedFacts
  <2> QED
    BY <1>6, <2>2
<1>8. TypeOK'
  BY <1>1, <1>5, <1>6, <1>7, Types DEF Inv, TypeOK, PushRow, CallRow
<1>9. \A t \in Sales : Over(t) => Over(t)'
  BY <1>1 DEF Over
<1>10. PhoneOK'
  <2>1. Backed(push.got)' /\ Refusals(push.got)'
    BY <1>1, <1>2, <1>7, <1>9 DEF Inv, PhoneOK, Backed, Refusals
  <2>2. SyncedIsRecorded'
    BY <1>1, <1>3, <1>4, <1>5
       DEF Inv, PhoneOK, Backed, SyncedIsRecorded, StatusOf
  <2>3. \A t \in Sales \ raced' : sale'[t] = "refused" => Over(t)'
    BY <1>1, <1>3, <1>4, <1>5, <1>9
       DEF Inv, PhoneOK, Refusals, StatusOf
  <2>4. \A t \in push'.left : sale'[t] = "pending"
    BY <1>5, <1>6, Types DEF Inv, PhoneOK
  <2> QED
    BY <1>6, <2>1, <2>2, <2>3, <2>4 DEF PhoneOK
<1>11. CallsOK'
  BY <1>1, <1>6, OfflineAssumption DEF Inv, CallsOK, Backed
<1>12. WithOneCall'
  BY <1>1 DEF Inv, WithOneCall, Current
<1> QED
  BY <1>8, <1>10, <1>11, <1>12 DEF Inv

\* Entering a sale by hand changes no order.
LEMMA OwnerEntersSound ==
    ASSUME Inv, NEW s \in Sales, OwnerEnters(s)
    PROVE  Inv'
<1>1. /\ UNCHANGED <<sale, push, order, call, raced>>
      /\ manual' \in SUBSET Sales
  BY DEF OwnerEnters, Inv, TypeOK
<1>2. TypeOK' /\ PhoneOK'
  BY <1>1
     DEF Inv, TypeOK, PhoneOK, Backed, Refusals, Over, SyncedIsRecorded
<1>3. CallsOK' /\ WithOneCall'
  BY <1>1 DEF Inv, CallsOK, WithOneCall, Backed, Refusals, Over, Current
<1> QED
  BY <1>2, <1>3 DEF Inv

-----------------------------------------------------------------------------
(* The server *)

\* A call at work has a current sale.
LEMMA CurrentFacts ==
    ASSUME Inv, NEW c \in Calls, call[c].step \in Working
    PROVE  Current(c) \in call[c].left /\ Current(c) \in Sales
  BY Types, FirstInSet DEF Inv, CallsOK, Current

\* The order of sale s changes, or it is raced; it never stops being settled,
\* and is only settled if a call has it or it is raced.
OrderChange(s) ==
    /\ order' \in [Sales -> OrderStatus]
    /\ \A t \in Sales \ {s} : order'[t] = order[t]
    /\ order[s] = "PAID" => order'[s] = "PAID"
    /\ raced' = raced \/ raced' = raced \cup {s}
    /\ UNCHANGED <<sale, push, manual>>

\* A step of call c on its current sale s.  The calls may only let go of sales.
LEMMA CallStepSound ==
    ASSUME Inv, NEW c \in Calls, call[c].step \in Working,
           OrderChange(Current(c)),
           call' \in [Calls -> CallRow],
           \A d \in Calls \ {c} : call'[d] = call[d],
           call'[c].step \in Working => call'[c].left # {},
           call'[c].left \subseteq call[c].left,
           \/ /\ call'[c].left = call[c].left
              /\ call'[c].results = call[c].results
              /\ Current(c) \notin raced' =>
                    /\ call'[c].step = "create" => order'[Current(c)] = "NONE"
                    /\ call'[c].step \in {"settle", "undo"} =>
                          order'[Current(c)] # "PAID"
           \/ /\ call'[c].left = call[c].left \ {Current(c)}
              /\ call'[c].step \in {"find", "answer"}
              /\ \E o \in Outcome :
                    /\ call'[c].results = Added(call[c].results, Current(c), o)
                    /\ o # "refused" => order'[Current(c)] = "PAID"
                    /\ o = "refused" /\ Current(c) \notin raced' =>
                          order'[Current(c)] # "PAID"
    PROVE  Inv'
<1>1. PICK s \in Sales : s = Current(c) /\ s \in call[c].left
  BY CurrentFacts
<1>2. /\ order' \in [Sales -> OrderStatus]
      /\ \A t \in Sales \ {s} : order'[t] = order[t]
      /\ order[s] = "PAID" => order'[s] = "PAID"
      /\ raced \subseteq raced' /\ raced' \subseteq raced \cup {s}
      /\ UNCHANGED <<sale, push, manual>>
  BY <1>1 DEF OrderChange
<1>3. TypeOK'
  BY <1>1, <1>2 DEF Inv, TypeOK, CallRow
<1>4. ASSUME NEW t \in Sales \ raced', Over(t)
      PROVE  Over(t)'
  <2>1. t # s
    BY <1>1, <1>4 DEF Over
  <2> QED
    BY <1>2, <1>4, <2>1 DEF Over
<1>5. \A r : Backed(r) /\ DOMAIN r \subseteq Sales => Backed(r)'
  BY <1>2 DEF Backed
<1>6. \A r : Refusals(r) /\ DOMAIN r \subseteq Sales => Refusals(r)'
  BY <1>2, <1>4 DEF Refusals
<1>7. PhoneOK'
  <2>1. Backed(push.got)' /\ Refusals(push.got)'
    BY <1>2, <1>4, Types DEF Inv, PhoneOK, Backed, Refusals
  <2>2. SyncedIsRecorded'
    BY <1>2 DEF Inv, PhoneOK, SyncedIsRecorded
  <2>3. \A t \in Sales \ raced' : sale'[t] = "refused" => Over(t)'
    BY <1>2, <1>4 DEF Inv, PhoneOK
  <2> QED
    BY <1>2, <2>1, <2>2, <2>3 DEF Inv, PhoneOK
<1>8. ASSUME NEW d \in Calls, d # c
      PROVE  /\ call'[d].step \in Working => call'[d].left # {}
             /\ Backed(call[d].results)'
             /\ push'.wait = d =>
                   /\ call'[d].left \cup DOMAIN call'[d].results
                         \subseteq push'.left
                   /\ Refusals(call[d].results)'
  <2>1. call'[d] = call[d]
    BY <1>8
  <2>2. DOMAIN call[d].results \subseteq Sales
    BY Types, ResultsFacts
  <2>3. Backed(call[d].results)'
    BY <1>2, <2>1, <2>2 DEF Inv, CallsOK, Backed
  <2>4. push.wait = d => Refusals(call[d].results)'
    BY <1>2, <1>4, <2>1, <2>2 DEF Inv, CallsOK, Refusals
  <2> QED
    BY <1>2, <2>1, <2>3, <2>4 DEF Inv, CallsOK
<1>9. CASE /\ call'[c].left = call[c].left
           /\ call'[c].results = call[c].results
           /\ s \notin raced' =>
                 /\ call'[c].step = "create" => order'[s] = "NONE"
                 /\ call'[c].step \in {"settle", "undo"} => order'[s] # "PAID"
  <2>1. DOMAIN call[c].results \subseteq Sales
    BY Types, ResultsFacts
  <2>2. Backed(call[c].results)'
    BY <1>2, <1>9, <2>1 DEF Inv, CallsOK, Backed
  <2>3. push.wait = c => Refusals(call[c].results)'
    BY <1>2, <1>4, <1>9, <2>1 DEF Inv, CallsOK, Refusals
  <2>4. CallsOK'
    BY <1>2, <1>8, <1>9, <2>2, <2>3 DEF Inv, CallsOK
  <2>5. WithOneCall'
    BY <1>1, <1>2, <1>9 DEF Inv, WithOneCall, Current
  <2> QED
    BY <1>3, <1>7, <2>4, <2>5 DEF Inv
<1>10. ASSUME NEW o \in Outcome,
              call'[c].left = call[c].left \ {s},
              call'[c].step \in {"find", "answer"},
              call'[c].results = Added(call[c].results, s, o),
              o # "refused" => order'[s] = "PAID",
              o = "refused" /\ s \notin raced' => order'[s] # "PAID"
       PROVE  Inv'
  <2>1. /\ DOMAIN call[c].results \subseteq Sales
        /\ DOMAIN call'[c].results = DOMAIN call[c].results \cup {s}
        /\ call'[c].results[s] = o
        /\ \A t \in DOMAIN call[c].results \ {s} :
              call'[c].results[t] = call[c].results[t]
    <3>1. PICK r \in Results : r = call[c].results
      BY Types
    <3>2. /\ DOMAIN Added(r, s, o) = DOMAIN r \cup {s}
          /\ Added(r, s, o)[s] = o
          /\ \A t \in DOMAIN r \ {s} : Added(r, s, o)[t] = r[t]
      BY AddedFacts
    <3>3. DOMAIN r \subseteq Sales
      BY ResultsFacts
    <3>4. call'[c].results = Added(r, s, o)
      BY <1>10, <3>1
    <3> HIDE DEF Added
    <3> QED
      BY <3>1, <3>2, <3>3, <3>4
  <2>2. s \notin raced' /\ o = "refused" => Over(s)'
    BY <1>1, <1>2, <1>10 DEF Inv, WithOneCall, Over
  <2>3. Backed(call[c].results)'
    BY <1>2, <1>10, <2>1 DEF Inv, CallsOK, Backed
  <2>4. push.wait = c => Refusals(call[c].results)'
    BY <1>2, <1>4, <2>1, <2>2 DEF Inv, CallsOK, Refusals
  <2>5. push.wait = c =>
            call'[c].left \cup DOMAIN call'[c].results \subseteq push.left
    BY <1>1, <1>10, <2>1 DEF Inv, CallsOK
  <2>6. CallsOK'
    BY <1>2, <1>8, <2>3, <2>4, <2>5 DEF CallsOK
  <2>7. WithOneCall'
    BY <1>1, <1>2, <1>10 DEF Inv, WithOneCall, Current
  <2> QED
    BY <1>3, <1>7, <2>6, <2>7 DEF Inv
<1> QED
  BY <1>1, <1>9, <1>10

\* What Goto and Result do to the calls.
LEMMA GotoFacts ==
    ASSUME Inv, NEW c \in Calls, NEW s \in Steps, Goto(c, s)
    PROVE  /\ call' \in [Calls -> CallRow]
           /\ \A d \in Calls \ {c} : call'[d] = call[d]
           /\ call'[c].step = s
           /\ call'[c].left = call[c].left
           /\ call'[c].results = call[c].results
  BY Types DEF Goto, CallRow

LEMMA ResultFacts ==
    ASSUME Inv, NEW c \in Calls, call[c].step \in Working,
           NEW o \in Outcome, Result(c, o)
    PROVE  /\ call' \in [Calls -> CallRow]
           /\ \A d \in Calls \ {c} : call'[d] = call[d]
           /\ call'[c].step \in {"find", "answer"}
           /\ call'[c].step \in Working => call'[c].left # {}
           /\ call'[c].left = call[c].left \ {Current(c)}
           /\ call'[c].results = Added(call[c].results, Current(c), o)
<1> DEFINE s == Current(c)
           rest == call[c].left \ {s}
           r == Added(call[c].results, s, o)
           step == IF call[c].left = {s} THEN "answer" ELSE "find"
<1>1. s \in call[c].left /\ s \in Sales /\ call[c].results \in Results
  BY CurrentFacts, Types
<1>2. r \in Results
  BY <1>1, AddedFacts
<1>3. rest \in SUBSET Sales
  BY Types
<1>4. step \in {"find", "answer"} /\ (step = "find" => rest # {})
  BY <1>1
<1>5. call' = [call EXCEPT ![c].results = r, ![c].left = rest,
                           ![c].step = step]
  BY DEF Result, Added
<1> HIDE DEF r, rest, step, s
<1>6. step \in Steps
  BY <1>4 DEF Steps
<1>7. /\ call' \in [Calls -> CallRow]
      /\ \A d \in Calls \ {c} : call'[d] = call[d]
      /\ call'[c].step = step
      /\ call'[c].left = rest
      /\ call'[c].results = r
  BY <1>2, <1>3, <1>5, <1>6, Types DEF CallRow
<1> QED
  BY <1>4, <1>7 DEF r, rest, s, Working

\* A step that only moves the call on.
LEMMA MoveOnSound ==
    ASSUME Inv, NEW c \in Calls, call[c].step \in Working,
           NEW step \in Working, Goto(c, step), OrderChange(Current(c)),
           Current(c) \notin raced' =>
               /\ step = "create" => order'[Current(c)] = "NONE"
               /\ step \in {"settle", "undo"} => order'[Current(c)] # "PAID"
    PROVE  Inv'
<1>1. step \in Steps
  BY DEF Working, Steps
<1>2. /\ call' \in [Calls -> CallRow]
      /\ \A d \in Calls \ {c} : call'[d] = call[d]
      /\ call'[c].step = step
      /\ call'[c].left = call[c].left
      /\ call'[c].results = call[c].results
  BY <1>1, GotoFacts
<1>3. call[c].left # {}
  BY DEF Inv, CallsOK
<1> QED
  BY <1>2, <1>3, CallStepSound

\* A step that answers for the current sale.
LEMMA AnsweredSound ==
    ASSUME Inv, NEW c \in Calls, call[c].step \in Working,
           NEW o \in Outcome, Result(c, o), OrderChange(Current(c)),
           o # "refused" => order'[Current(c)] = "PAID",
           o = "refused" /\ Current(c) \notin raced' =>
               order'[Current(c)] # "PAID"
    PROVE  Inv'
  BY ResultFacts, CallStepSound

\* The steps' changes of an order are OrderChanges.
LEMMA NoOrderChange ==
    ASSUME Inv, NEW s, UNCHANGED <<sale, push, order, raced, manual>>
    PROVE  OrderChange(s)
  BY Types DEF OrderChange

LEMMA OneOrderChange ==
    ASSUME Inv, NEW s \in Sales, NEW status \in OrderStatus,
           order' = [order EXCEPT ![s] = status],
           order[s] = "PAID" => status = "PAID",
           raced' = raced \/ raced' = raced \cup {s},
           UNCHANGED <<sale, push, manual>>
    PROVE  OrderChange(s) /\ order'[s] = status
  BY Types DEF OrderChange

\* Find, Create, Settle and Undo move on or answer.
LEMMA FindSound ==
    ASSUME Inv, NEW c \in Calls, Find(c)
    PROVE  Inv'
<1>1. call[c].step \in Working /\ OrderChange(Current(c)) /\ UNCHANGED order
  BY NoOrderChange DEF Find, Working
<1>2. CASE order[Current(c)] = "NONE" /\ Goto(c, "create")
  BY <1>1, <1>2, MoveOnSound DEF Working
<1>3. CASE Result(c, Earlier(Current(c)))
  <2>1. /\ Earlier(Current(c)) \in Outcome
        /\ Earlier(Current(c)) # "refused" => order[Current(c)] = "PAID"
        /\ Earlier(Current(c)) = "refused" => order[Current(c)] # "PAID"
    BY DEF Earlier, Outcome
  <2> QED
    BY <1>1, <1>3, <2>1, AnsweredSound
<1> QED
  BY <1>2, <1>3 DEF Find

LEMMA CreateSound ==
    ASSUME Inv, NEW c \in Calls, Create(c)
    PROVE  Inv'
<1>1. /\ call[c].step = "create" /\ call[c].step \in Working
      /\ UNCHANGED <<sale, push, raced, manual>>
  BY DEF Create, Working
<1>2. PICK s \in Sales : s = Current(c) /\ s \in call[c].left
  BY <1>1, CurrentFacts
<1>3. CASE /\ order[s] = "NONE" /\ order' = [order EXCEPT ![s] = "OPEN"]
           /\ Goto(c, "settle")
  <2>1. OrderChange(s) /\ order'[s] = "OPEN"
    BY <1>1, <1>3, OneOrderChange DEF OrderStatus
  <2> QED
    BY <1>1, <1>2, <1>3, <2>1, MoveOnSound DEF Working
<1>4. CASE Result(c, "refused") /\ UNCHANGED order
  <2>1. s \notin raced => order[s] # "PAID"
    BY <1>1, <1>2 DEF Inv, WithOneCall
  <2>2. OrderChange(s)
    BY <1>1, <1>4, NoOrderChange
  <2> QED
    BY <1>1, <1>2, <1>4, <2>1, <2>2, AnsweredSound DEF Outcome
<1> QED
  BY <1>2, <1>3, <1>4 DEF Create

LEMMA SettleSound ==
    ASSUME Inv, NEW c \in Calls, Settle(c)
    PROVE  Inv'
<1>1. /\ call[c].step = "settle" /\ call[c].step \in Working
      /\ UNCHANGED <<sale, push, raced, manual>>
  BY DEF Settle, Working
<1>2. PICK s \in Sales : s = Current(c) /\ s \in call[c].left
  BY <1>1, CurrentFacts
<1>3. CASE /\ order' = [order EXCEPT ![s] = "PAID"]
           /\ Result(c, "created")
  <2>1. OrderChange(s) /\ order'[s] = "PAID"
    BY <1>1, <1>3, OneOrderChange DEF OrderStatus
  <2> QED
    BY <1>1, <1>2, <1>3, <2>1, AnsweredSound DEF Outcome
<1>4. CASE Goto(c, "undo") /\ UNCHANGED order
  <2>1. s \notin raced => order[s] # "PAID"
    BY <1>1, <1>2 DEF Inv, WithOneCall
  <2>2. OrderChange(s)
    BY <1>1, <1>4, NoOrderChange
  <2> QED
    BY <1>1, <1>2, <1>4, <2>1, <2>2, MoveOnSound DEF Working
<1> QED
  BY <1>2, <1>3, <1>4 DEF Settle

LEMMA SettledUnseenSound ==
    ASSUME Inv, NEW c \in Calls, SettledUnseen(c)
    PROVE  Inv'
<1>1. call[c].step \in Working
  BY DEF SettledUnseen, Working
<1>2. PICK s \in Sales : s = Current(c)
  BY <1>1, CurrentFacts
<1>3. /\ order' = [order EXCEPT ![s] = "PAID"]
      /\ raced' = raced \cup {s}
      /\ UNCHANGED <<sale, push, manual>>
      /\ Goto(c, "undo")
  BY <1>2 DEF SettledUnseen
<1>4. OrderChange(s)
  BY <1>3, OneOrderChange DEF OrderStatus
<1> QED
  BY <1>1, <1>2, <1>3, <1>4, MoveOnSound DEF Working

LEMMA UndoSound ==
    ASSUME Inv, NEW c \in Calls, Undo(c)
    PROVE  Inv'
<1>1. /\ call[c].step = "undo" /\ call[c].step \in Working
      /\ UNCHANGED <<sale, push, raced, manual>>
  BY DEF Undo, Working
<1>2. PICK s \in Sales : s = Current(c) /\ s \in call[c].left
  BY <1>1, CurrentFacts
<1>3. /\ order' = [order EXCEPT ![s] = Undone(s)]
      /\ Result(c, "refused")
  BY <1>2 DEF Undo
<1>4. /\ Undone(s) \in OrderStatus
      /\ Undone(s) = "PAID" <=> order[s] = "PAID"
  BY Types DEF Undone, OrderStatus
<1>5. OrderChange(s) /\ order'[s] = Undone(s)
  BY <1>1, <1>3, <1>4, OneOrderChange
<1>6. s \notin raced => order[s] # "PAID"
  BY <1>1, <1>2 DEF Inv, WithOneCall
<1> QED
  BY <1>1, <1>2, <1>3, <1>4, <1>5, <1>6, AnsweredSound DEF Outcome

\* The answer: the phone stores it if it still waits.
LEMMA AnswerSound ==
    ASSUME Inv, NEW c \in Calls, Answer(c)
    PROVE  Inv'
<1>1. /\ UNCHANGED <<sale, order, raced, manual>>
      /\ call' = [call EXCEPT ![c] = FreeCall]
      /\ push' = IF push.wait = c
                 THEN [push EXCEPT !.wait = 0, !.got = call[c].results]
                 ELSE push
  BY DEF Answer
<1>2. /\ call' \in [Calls -> CallRow] /\ call'[c] = FreeCall
      /\ \A d \in Calls \ {c} : call'[d] = call[d]
  BY <1>1, Types, RestFacts
<1>3. /\ push' \in PushRow /\ push'.left = push.left
      /\ push.wait = c => push'.wait = 0 /\ push'.got = call[c].results
      /\ push.wait # c => push'.wait = push.wait /\ push'.got = push.got
  BY <1>1, Types DEF PushRow
<1>4. push.wait = c =>
          /\ DOMAIN call[c].results \subseteq push.left
          /\ Backed(call[c].results) /\ Refusals(call[c].results)
  BY DEF Inv, CallsOK
<1>5. TypeOK'
  BY <1>1, <1>2, <1>3, <1>4, Types DEF Inv, TypeOK, PushRow, CallRow
<1>6. \A t \in Sales : Over(t) => Over(t)'
  BY <1>1, <1>2, RestFacts DEF Over
<1>7. Backed(push.got)' /\ Refusals(push.got)'
  BY <1>1, <1>3, <1>4, <1>6, Types DEF Inv, PhoneOK, Backed, Refusals
<1>8. PhoneOK'
  BY <1>1, <1>3, <1>6, <1>7 DEF Inv, PhoneOK, SyncedIsRecorded
<1>9. CallsOK'
  <2>1. ASSUME NEW d \in Calls
        PROVE  /\ call'[d].step \in Working => call'[d].left # {}
               /\ Backed(call[d].results)'
               /\ push'.wait = d =>
                     /\ call'[d].left \cup DOMAIN call'[d].results
                           \subseteq push'.left
                     /\ Refusals(call[d].results)'
    <3>1. CASE d = c
      BY <1>2, <1>3, <3>1, RestFacts, OfflineAssumption
         DEF Working, Backed, Refusals
    <3>2. CASE d # c
      <4>1. call'[d] = call[d] /\ DOMAIN call[d].results \subseteq Sales
        BY <1>2, <3>2, Types, ResultsFacts
      <4>2. push'.wait = d => push.wait = d
        BY <1>3, OfflineAssumption
      <4>3. Backed(call[d].results)'
        BY <1>1, <4>1 DEF Inv, CallsOK, Backed
      <4>4. push.wait = d => Refusals(call[d].results)'
        BY <1>1, <1>6, <4>1 DEF Inv, CallsOK, Refusals
      <4> QED
        BY <1>3, <4>1, <4>2, <4>3, <4>4 DEF Inv, CallsOK
    <3> QED
      BY <3>1, <3>2
  <2> QED
    BY <2>1 DEF CallsOK
<1>10. WithOneCall'
  BY <1>1, <1>2, RestFacts DEF Inv, WithOneCall, Current
<1> QED
  BY <1>5, <1>8, <1>9, <1>10 DEF Inv

\* The server stops: no call goes on, and the phone stops waiting.
LEMMA CrashSound ==
    ASSUME Inv, Crash
    PROVE  Inv'
<1>1. /\ UNCHANGED <<sale, order, raced, manual>>
      /\ call' = [c \in Calls |-> FreeCall]
      /\ push' = IF push.wait = 0 THEN push ELSE NoPush
  BY DEF Crash
<1>2. /\ call' \in [Calls -> CallRow]
      /\ \A c \in Calls : call'[c] = FreeCall
  BY <1>1, RestFacts
<1>3. \A t \in Sales : Over(t) => Over(t)'
  BY <1>1, <1>2, RestFacts DEF Over
<1>4. push' = push \/ push' = NoPush
  BY <1>1
<1>5. /\ push' \in PushRow /\ DOMAIN push'.got \subseteq push'.left
      /\ push'.wait = 0
  BY <1>1, RestFacts, Types
<1>6. TypeOK'
  BY <1>1, <1>2, <1>5 DEF Inv, TypeOK, PushRow, CallRow
<1>7. Backed(push.got)' /\ Refusals(push.got)'
  BY <1>1, <1>3, <1>4, RestFacts, Types
     DEF Inv, PhoneOK, Backed, Refusals
<1>8. \A s \in push'.left : sale'[s] = "pending"
  BY <1>1, <1>4, RestFacts DEF Inv, PhoneOK
<1>9. PhoneOK'
  BY <1>1, <1>3, <1>5, <1>7, <1>8 DEF Inv, PhoneOK, SyncedIsRecorded
<1>10. CallsOK'
  BY <1>2, <1>5, RestFacts, OfflineAssumption DEF CallsOK, Working, Backed
<1>11. WithOneCall'
  BY <1>2, RestFacts DEF WithOneCall
<1> QED
  BY <1>6, <1>9, <1>10, <1>11 DEF Inv

-----------------------------------------------------------------------------
(* The till *)

\* The till cancels an open order, or settles it and races the sale.
LEMMA TillSound ==
    ASSUME Inv, NEW s \in Sales, TillCancels(s) \/ TillSettles(s)
    PROVE  Inv'
<1>1. PICK status \in {"CANCELLED", "PAID"} :
          order' = [order EXCEPT ![s] = status]
  BY DEF TillCancels, TillSettles
<1>2. /\ order[s] = "OPEN" /\ UNCHANGED <<sale, push, call, manual>>
      /\ raced' = raced \/ raced' = raced \cup {s}
      /\ status = "PAID" => s \in raced'
  BY <1>1, Types DEF TillCancels, TillSettles
<1>3. /\ order' \in [Sales -> OrderStatus] /\ order'[s] = status
      /\ \A t \in Sales \ {s} : order'[t] = order[t]
      /\ raced \subseteq raced' /\ raced' \in SUBSET Sales
  BY <1>1, <1>2, Types DEF OrderStatus, Inv, TypeOK
<1>4. TypeOK'
  BY <1>2, <1>3 DEF Inv, TypeOK
<1>5. \A t \in Sales \ raced' : Over(t) => Over(t)'
  BY <1>2, <1>3 DEF Over
<1>6. Backed(push.got)' /\ Refusals(push.got)'
  BY <1>2, <1>3, <1>5, Types DEF Inv, PhoneOK, Backed, Refusals
<1>7. PhoneOK'
  BY <1>2, <1>3, <1>5, <1>6 DEF Inv, PhoneOK, SyncedIsRecorded
<1>8. CallsOK'
  <2>1. ASSUME NEW c \in Calls
        PROVE  /\ Backed(call[c].results)'
               /\ push.wait = c => Refusals(call[c].results)'
    <3>1. DOMAIN call[c].results \subseteq Sales
      BY Types, ResultsFacts
    <3> QED
      BY <1>2, <1>3, <1>5, <3>1 DEF Inv, CallsOK, Backed, Refusals
  <2> QED
    BY <1>2, <2>1 DEF Inv, CallsOK
<1>9. WithOneCall'
  BY <1>2, <1>3 DEF Inv, WithOneCall, Current
<1> QED
  BY <1>4, <1>7, <1>8, <1>9 DEF Inv

-----------------------------------------------------------------------------

LEMMA InitInv == Init => Inv
<1> SUFFICES ASSUME Init PROVE Inv
  OBVIOUS
<1>1. TypeOK
  BY RestFacts
     DEF Init, TypeOK, SaleStatus, OrderStatus, PushRow, CallRow
<1>2. PhoneOK
  BY RestFacts DEF Init, PhoneOK, Backed, Refusals, SyncedIsRecorded
<1>3. CallsOK
  BY RestFacts, OfflineAssumption DEF Init, CallsOK, Backed, Working
<1>4. WithOneCall
  BY RestFacts DEF Init, WithOneCall
<1> QED
  BY <1>1, <1>2, <1>3, <1>4 DEF Inv

LEMMA NextInv == Inv /\ [Next]_vars => Inv'
<1> SUFFICES ASSUME Inv, [Next]_vars PROVE Inv'
  OBVIOUS
<1>1. ASSUME NEW s \in Sales,
             Sell(s) \/ TillCancels(s) \/ TillSettles(s) \/ OwnerEnters(s)
      PROVE  Inv'
  BY <1>1, SellSound, TillSound, OwnerEntersSound
<1>2. CASE Phone \/ GiveUp \/ Crash
  BY <1>2, PhoneRestsSound, TakeResultSound, SendSound, CrashSound DEF Phone
<1>3. ASSUME NEW c \in Calls, Handle(c)
      PROVE  Inv'
  BY <1>3, FindSound, CreateSound, SettleSound, SettledUnseenSound,
     UndoSound, AnswerSound DEF Handle
<1>4. CASE UNCHANGED vars
  BY <1>4 DEF vars, Inv, TypeOK, PhoneOK, CallsOK, WithOneCall, Backed,
     Refusals, Over, SyncedIsRecorded, Current
<1> QED
  BY <1>1, <1>2, <1>3, <1>4 DEF Next

\* Inv holds in every state of every behaviour.
THEOREM Invariance == Spec => []Inv
  BY InitInv, NextInv, PTL DEF Spec

\* The variables keep their types: what the phone has of an answer is about
\* sales it sent (pushSales), and an answer has a known outcome for each.
THEOREM TypeCorrect == Spec => []TypeOK
<1>1. Inv => TypeOK
  BY DEF Inv
<1> QED
  BY <1>1, Invariance, PTL

\* A sale the phone marks as synced is settled at the server, for any number
\* of sales and calls, whatever is cut off, sent again or changed at the till:
\* recordSale answers "duplicate" only for a settled order, and "created" only
\* when it settled it.
THEOREM SyncedAreOnTheBooks == Spec => []SyncedIsRecorded
<1>1. Inv => SyncedIsRecorded
  BY DEF Inv, PhoneOK
<1> QED
  BY <1>1, Invariance, PTL

\* A sale the phone shows as refused stays off the books, except in the three
\* ways raced remembers: nothing that happens after the refusal settles its
\* order, because no call still has the sale.
THEOREM RefusalsStand == Spec => []RefusedIsNotRecorded
<1>1. Inv => RefusedIsNotRecorded
  BY DEF Inv, PhoneOK, Over, RefusedIsNotRecorded
<1> QED
  BY <1>1, Invariance, PTL
=============================================================================
