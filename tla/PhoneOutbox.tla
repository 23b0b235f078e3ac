----------------------------- MODULE PhoneOutbox -----------------------------
(***************************************************************************)
(* The kitchen's phone without a connection (apps/web: lib/outbox.ts,      *)
(* hooks/use-kds.ts): a tap calls the server; if the call gets no answer   *)
(* the tap is kept in the outbox, which is sent, oldest first, when the    *)
(* connection is back.                                                     *)
(*                                                                         *)
(* One ticket: its priority star, and its step along KOT_NEXT_STATUS.  A   *)
(* tap is [n, kind, value]; n tells the taps apart and is its key.  The    *)
(* outbox survives the app, calls under way and notices do not.  The       *)
(* phone's storage may be full or blocked at any write of the outbox.      *)
(***************************************************************************)
EXTENDS Integers, Sequences, FiniteSets, SequencesExt

CONSTANTS
    MaxTaps,    \* bound: taps
    MaxNotices, \* refusals that are kept for the screen: 10
    LastStep,   \* the step SERVED
    Kills       \* bound: times the app is closed

ASSUME PhoneAssumption ==
    MaxTaps \in Nat /\ LastStep \in Nat /\ Kills \in Nat /\ MaxNotices \in Nat \ {0}

VARIABLES
    ticket,     \* [star, step]: the row on the server
    box,        \* orderrestro.outbox.v1
    calls,      \* taps being sent directly: [tap, at]
    flush,      \* [at, list, refused]: the loop of flushOutbox
    notices,    \* lastRefused: refused taps on the kitchen screen until dismissed
    fate,       \* [1 .. MaxTaps -> what has become of a tap]: history
    taps,       \* number of taps
    kills

phoneVars == <<ticket, box, calls, flush, notices, fate, taps, kills>>

Asleep == [at |-> "idle", list |-> <<>>, refused |-> <<>>]
Becomes(ns, what) == [n \in DOMAIN fate |-> IF n \in ns THEN fate[n] \cup {what} ELSE fate[n]]

\* The server's answer: a star is set, a step is taken only in its turn.
Accepts(t)   == t.kind = "star" \/ t.value = ticket.step + 1
AfterTap(t)  == IF ~Accepts(t) THEN ticket
                ELSE IF t.kind = "star" THEN [ticket EXCEPT !.star = t.value]
                ELSE [ticket EXCEPT !.step = t.value]

\* useSetKotPriority, useUpdateKotStatus: every tap is tried at once.
MakeTap(kind, value) ==
    /\ taps < MaxTaps /\ taps' = taps + 1
    /\ calls' = calls \cup {[tap |-> [n |-> taps + 1, kind |-> kind, value |-> value], at |-> "out"]}
    /\ UNCHANGED <<ticket, box, flush, notices, fate, kills>>

ServerTakes(c) ==
    /\ c \in calls /\ c.at = "out"
    /\ ticket' = AfterTap(c.tap)
    /\ calls' = (calls \ {c}) \cup {[c EXCEPT !.at = IF Accepts(c.tap) THEN "done" ELSE "refused"]}
    /\ fate' = IF Accepts(c.tap) THEN Becomes({c.tap.n}, "applied") ELSE fate
    /\ UNCHANGED <<box, flush, notices, taps, kills>>

Answered(c) ==
    /\ c \in calls /\ c.at \in {"done", "refused"}
    /\ calls' = calls \ {c}
    /\ fate' = IF c.at = "refused" THEN Becomes({c.tap.n}, "told") ELSE fate
    /\ UNCHANGED <<ticket, box, flush, notices, taps, kills>>

\* filter of the stored list; what it leaves out is at one place at most.
Filtered(out) == IF out = {} THEN box ELSE RemoveAt(box, CHOOSE i \in out : TRUE)

\* outbox.add: a star replaces the star that is waiting.
Replaced(t) == {i \in DOMAIN box : t.kind = "star" /\ box[i].kind = "star"}

Unanswered(c) ==
    /\ c \in calls
    /\ calls' = calls \ {c}
    /\ box' = Append(Filtered(Replaced(c.tap)), c.tap)
    /\ fate' = Becomes({box[i].n : i \in Replaced(c.tap)}, "replaced")
    /\ UNCHANGED <<ticket, flush, notices, taps, kills>>

\* The write of outbox.add fails, and nobody is told.
NotStored(c) ==
    /\ c \in calls
    /\ calls' = calls \ {c}
    /\ fate' = Becomes({c.tap.n}, "unsaved")
    /\ UNCHANGED <<ticket, box, flush, notices, taps, kills>>

-----------------------------------------------------------------------------
\* flushOutbox: one at a time, over the list as it was at the start.
FlushStarts ==
    /\ flush.at = "idle" /\ box # <<>>
    /\ flush' = [Asleep EXCEPT !.at = "next", !.list = box]
    /\ UNCHANGED <<ticket, box, calls, notices, fate, taps, kills>>

FlushSends ==
    /\ flush.at = "next" /\ flush.list # <<>>
    /\ ticket' = AfterTap(Head(flush.list))
    /\ fate' = IF Accepts(Head(flush.list)) THEN Becomes({Head(flush.list).n}, "applied") ELSE fate
    /\ flush' = [flush EXCEPT !.at = IF Accepts(Head(flush.list)) THEN "done" ELSE "refused"]
    /\ UNCHANGED <<box, calls, notices, taps, kills>>

\* Variant: the stored list is overwritten with what is left of the first one.
BoxWithout_stale(t) == Tail(flush.list)

\* The stored list is read again before the sent update is taken out.
BoxWithout(t) == Filtered({i \in DOMAIN box : box[i].n = t.n})

FlushNext ==
    /\ flush.at \in {"done", "refused"}
    /\ box' \in {BoxWithout(Head(flush.list)), box}  \* box: the write fails
    /\ flush' = [at |-> "next", list |-> Tail(flush.list),
                 refused |-> IF flush.at = "refused" THEN Append(flush.refused, Head(flush.list).n)
                             ELSE flush.refused]
    /\ UNCHANGED <<ticket, calls, notices, fate, taps, kills>>

\* Only the last notices stay.
PushedOff(all)  == {all[i] : i \in 1 .. Len(all) - MaxNotices}
StillShown(all) == IF Len(all) <= MaxNotices THEN all
                   ELSE SubSeq(all, Len(all) - MaxNotices + 1, Len(all))

\* The list is done, or the connection is gone or the session is (401): what
\* was refused joins the notices.  The answer to the update under way may be lost.
FlushEnds ==
    /\ flush.at # "idle"
    /\ notices' = StillShown(notices \o flush.refused)
    /\ fate' = Becomes(PushedOff(notices \o flush.refused), "cut")
    /\ flush' = Asleep
    /\ UNCHANGED <<ticket, box, calls, taps, kills>>

\* clearRefused: the cook has read the notices and dismisses them.
CookDismisses ==
    /\ notices # <<>> /\ notices' = <<>>
    /\ fate' = Becomes(ToSet(notices), "told")
    /\ UNCHANGED <<ticket, box, calls, flush, taps, kills>>

\* The app is closed: calls under way and notices are gone.
AppCloses ==
    /\ kills < Kills /\ kills' = kills + 1
    /\ fate' = Becomes({c.tap.n : c \in calls} \cup ToSet(flush.refused) \cup ToSet(notices), "closed")
    /\ calls' = {} /\ flush' = Asleep /\ notices' = <<>>
    /\ UNCHANGED <<ticket, box, taps>>

\* Another screen moves the ticket on.
OthersStep ==
    /\ ticket.step < LastStep
    /\ ticket' = [ticket EXCEPT !.step = @ + 1]
    /\ UNCHANGED <<box, calls, flush, notices, fate, taps, kills>>

-----------------------------------------------------------------------------
PhoneInit ==
    /\ ticket = [star |-> FALSE, step |-> 0]
    /\ box = <<>> /\ calls = {} /\ flush = Asleep /\ notices = <<>>
    /\ fate = [n \in 1 .. MaxTaps |-> {}]
    /\ taps = 0 /\ kills = 0

PhoneNext ==
    \/ \E b \in BOOLEAN : MakeTap("star", b)
    \/ \E s \in 1 .. LastStep : MakeTap("step", s)
    \/ \E c \in calls : ServerTakes(c) \/ Answered(c) \/ Unanswered(c) \/ NotStored(c)
    \/ FlushStarts \/ FlushSends \/ FlushNext \/ FlushEnds
    \/ CookDismisses \/ AppCloses \/ OthersStep

PhoneSpec == PhoneInit /\ [][PhoneNext]_phoneVars

-----------------------------------------------------------------------------
OnItsWay(n) ==
    \/ \E i \in DOMAIN box : box[i].n = n
    \/ \E c \in calls : c.tap.n = n
    \/ n \in ToSet(flush.refused) \/ n \in ToSet(notices)
    \/ flush.at = "refused" /\ Head(flush.list).n = n

\* However calls, taps during a flush, lost answers and failing writes meet, the
\* server has taken a tap, a newer star stands for it, it is waiting, or its
\* refusal was shown or is on the screen (outbox.ts:45, :83).  Three things drop
\* one: closing the app takes calls and notices; a call without an answer that
\* cannot be stored is lost (outbox.ts:32); and the notices of a flush push the
\* oldest off the screen (outbox.ts:89).  A tap once stored is dropped only by
\* way of a refusal.
NoTapVanishes == \A n \in 1 .. taps : fate[n] # {} \/ OnItsWay(n)
=============================================================================
