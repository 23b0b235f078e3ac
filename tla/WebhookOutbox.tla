---------------------------- MODULE WebhookOutbox ----------------------------
(***************************************************************************)
(* Outgoing webhooks (apps/backend/src/modules/webhooks/webhooks.service): *)
(* events are rows, a job of every 10 seconds attempts those that are due, *)
(* claims a row before it sends, and backs off after a failure.            *)
(*                                                                         *)
(* One endpoint; a second one would have rows of its own.  nextAttemptAt   *)
(* is the place of a row in queue: the due rows, each with those that were *)
(* due before it.                                                          *)
(* A lease (CLAIM_MS, 2 minutes) is longer than a request (TIMEOUT_MS,     *)
(* 8 seconds) unless Slow.                                                 *)
(***************************************************************************)
EXTENDS Integers, FiniteSets

CONSTANTS
    Events,         \* rows of webhook_deliveries, numbered as they are made
    Ticks,          \* runs of the job, or of sendTest, that may overlap
    HookBatch,      \* BATCH
    MAX_ATTEMPTS,
    HookFaults,     \* bound: answers lost and restarts
    Toggles,        \* bound: switches of the endpoint
    Slow            \* may a request take longer than the lease?

ASSUME HookAssumption ==
    /\ Events \subseteq Nat
    /\ HookBatch \in Nat \ {0} /\ MAX_ATTEMPTS \in Nat \ {0}
    /\ HookFaults \in Nat /\ Toggles \in Nat /\ Slow \in BOOLEAN

VARIABLES
    hook,       \* [Events -> [status, attempts, test]]
    queue,      \* [the due rows -> those with an older nextAttemptAt]
    listed,     \* [Ticks -> rows the run is still to attempt]
    sending,    \* attempts under way: [event, attempts, at]
    received,   \* [Events -> Nat]: what the endpoint took
    active,     \* isActive of the endpoint
    mishaps,    \* answers lost and restarts so far
    toggles

hookVars == <<hook, queue, listed, sending, received, active, mishaps, toggles>>
\* The parts of the state that most steps leave alone.
hookWorld == <<active, toggles>>

Row(status, test) == [status |-> status, attempts |-> 0, test |-> test]
Due(d)      == d \in DOMAIN queue
Joined(d)   == [c \in DOMAIN queue \cup {d} |-> IF Due(c) THEN queue[c] ELSE DOMAIN queue]
Without(ds) == [c \in DOMAIN queue \ ds |-> queue[c] \ ds]
Listed      == UNION {listed[k] : k \in Ticks}
Underway(d) == \E a \in sending : a.event = d

\* The next row to be written.
Unused(d) == hook[d].status = "none" /\ \A c \in Events : c < d => hook[c].status # "none"

\* emit: a row for every active endpoint that subscribed, due at once.
Emit(d) ==
    /\ Unused(d) /\ active
    /\ hook' = [hook EXCEPT ![d] = Row("PENDING", FALSE)]
    /\ queue' = Joined(d)
    /\ UNCHANGED <<listed, sending, received, mishaps, hookWorld>>

\* sendTest writes a row and attempts it without waiting for the job.
SendTest(k, d) ==
    /\ Unused(d) /\ listed[k] = {}
    /\ hook' = [hook EXCEPT ![d] = Row("PENDING", TRUE)]
    /\ queue' = Joined(d)
    /\ listed' = [listed EXCEPT ![k] = {d}]
    /\ UNCHANGED <<sending, received, mishaps, hookWorld>>

\* tick: the first BATCH of the rows that are due.
Tick(k) ==
    /\ listed[k] = {} /\ DOMAIN queue # {}
    /\ listed' = [listed EXCEPT ![k] = {d \in DOMAIN queue : Cardinality(queue[d]) < HookBatch}]
    /\ UNCHANGED <<hook, queue, sending, received, mishaps, hookWorld>>

\* Variant: the claim does not look at nextAttemptAt.
Claimable_notDue(d) == hook[d].status = "PENDING"

\* The where clause of the claim.
Claimable(d) == hook[d].status = "PENDING" /\ Due(d)

\* attempt, up to the request: claimed by one run only.
Claim(k, d) ==
    /\ d \in listed[k]
    /\ listed' = [listed EXCEPT ![k] = @ \ {d}]
    /\ IF Claimable(d)
         THEN /\ hook' = [hook EXCEPT ![d].attempts = @ + 1]
              /\ queue' = Without({d})
              /\ sending' = sending \cup {[event |-> d, attempts |-> hook[d].attempts + 1,
                                           at |-> IF active \/ hook[d].test THEN "request" ELSE "failed"]}
         ELSE UNCHANGED <<hook, queue, sending>>
    /\ UNCHANGED <<received, mishaps, hookWorld>>

\* The endpoint takes the request, or takes it and the answer is lost, or
\* refuses it or cannot be reached.
Request(a, outcome) ==
    /\ a \in sending /\ a.at = "request"
    /\ outcome = "lost" => mishaps < HookFaults
    /\ mishaps' = IF outcome = "lost" THEN mishaps + 1 ELSE mishaps
    /\ received' = IF outcome = "refused" THEN received
                   ELSE [received EXCEPT ![a.event] = @ + 1]
    /\ sending' = (sending \ {a}) \cup {[a EXCEPT !.at = IF outcome = "taken" THEN "ok" ELSE "failed"]}
    /\ UNCHANGED <<hook, queue, listed, hookWorld>>

\* Variant: the first failure is final.
Exhausted_first(a) == TRUE

Exhausted(a) == a.attempts >= MAX_ATTEMPTS

\* The result is written by id, without looking at the row again.
Finish(a) ==
    /\ a \in sending /\ a.at \in {"ok", "failed"}
    /\ sending' = sending \ {a}
    /\ hook' = [hook EXCEPT ![a.event].status =
                  IF @ = "removed" THEN @
                  ELSE IF a.at = "ok" THEN "SUCCESS" ELSE IF Exhausted(a) THEN "FAILED" ELSE "PENDING"]
    /\ queue' = Without({a.event})
    /\ UNCHANGED <<listed, received, mishaps, hookWorld>>

\* nextAttemptAt passes: the back-off or the lease is over.
BackoffEnds(d) ==
    /\ hook[d].status = "PENDING" /\ ~Due(d)
    /\ Slow \/ ~Underway(d)
    /\ queue' = Joined(d)
    /\ UNCHANGED <<hook, listed, sending, received, mishaps, hookWorld>>

\* setActive; attempts at a disabled endpoint fail, except a test.
SetActive ==
    /\ toggles < Toggles
    /\ active' = ~active /\ toggles' = toggles + 1
    /\ UNCHANGED <<hook, queue, listed, sending, received, mishaps>>

\* remove: the endpoint's deliveries go with it, and later events find none;
\* cleanup: old rows that have ended.
RemoveRows(gone) ==
    /\ \E d \in gone : hook[d].status # "removed"
    /\ hook' = [d \in Events |-> IF d \in gone THEN Row("removed", FALSE) ELSE hook[d]]
    /\ queue' = Without(gone)
    /\ UNCHANGED <<listed, sending, received, mishaps, hookWorld>>

HookRestart ==
    /\ mishaps < HookFaults /\ mishaps' = mishaps + 1
    /\ sending' = {} /\ listed' = [k \in Ticks |-> {}]
    /\ UNCHANGED <<hook, queue, received, hookWorld>>

-----------------------------------------------------------------------------
HookInit ==
    /\ hook = [d \in Events |-> Row("none", FALSE)]
    /\ queue = [d \in {} |-> {}] /\ listed = [k \in Ticks |-> {}] /\ sending = {}
    /\ received = [d \in Events |-> 0]
    /\ active = TRUE /\ mishaps = 0 /\ toggles = 0

Ended == {d \in Events : hook[d].status \in {"SUCCESS", "FAILED"}}

HookNext ==
    \/ \E d \in Events : Emit(d) \/ BackoffEnds(d)
    \/ \E k \in Ticks : Tick(k) \/ \E d \in Events : SendTest(k, d) \/ Claim(k, d)
    \/ \E a \in sending : (\E o \in {"taken", "lost", "refused"} : Request(a, o)) \/ Finish(a)
    \/ SetActive
    \/ RemoveRows(Events) \/ RemoveRows(Ended)
    \/ HookRestart

HookSpec == HookInit /\ [][HookNext]_hookVars

Attempting(k) == \E d \in Events : Claim(k, d)
Answering     == \E a \in sending : Finish(a) \/ \E o \in {"taken", "lost", "refused"} : Request(a, o)

\* The job runs, time passes and a request ends by its time-out.
HookFair ==
    /\ \A k \in Ticks : WF_hookVars(Tick(k)) /\ WF_hookVars(Attempting(k))
    /\ WF_hookVars(Answering)
    /\ \A d \in Events : WF_hookVars(BackoffEnds(d))

-----------------------------------------------------------------------------
\* "Claims the row first so overlapping ticks never double-send"
\* (webhooks.service.ts:268): the endpoint gets an event again only for an
\* answer that was lost or a restart in between.
SentAgainOnlyAfterMishap == \A d \in Events : received[d] <= 1 + mishaps

\* In the end no event is left waiting: each is delivered, and what counts as
\* delivered the endpoint has, or given up after all its attempts, unless its
\* row is removed (webhooks.service.ts:320-337).
EveryEventEnds ==
    <>[](\A d \in Events :
      /\ hook[d].status # "PENDING"
      /\ hook[d].status = "SUCCESS" => received[d] > 0
      /\ hook[d].status = "FAILED" => hook[d].attempts >= MAX_ATTEMPTS)
=============================================================================
