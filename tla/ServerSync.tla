----------------------------- MODULE ServerSync -----------------------------
(***************************************************************************)
(* Two-way synchronisation of restaurant PCs with a central server:        *)
(* SyncService (sync/sync.service.ts) and the change log its database      *)
(* triggers write (migration 20261026000000_server_sync).                  *)
(*                                                                         *)
(* Every write to a row is logged with its time.  A PC runs one cycle at a *)
(* time: it pulls the server's log page by page and applies it, then pushes*)
(* its own log page by page; how far it got is saved after every page, so  *)
(* a cycle that is cut off anywhere starts again from there.  An older     *)
(* change never replaces a newer one; on a tie the server's version wins.  *)
(*                                                                         *)
(* Two rows stand for the tables, one referring to the other.  Abstractions: *)
(* a page is applied in one step (the code: in transactions of 200 rows);  *)
(* all clocks agree; log entries become visible in the order of their seq; *)
(* turning sync on is the initial state.                                   *)
(***************************************************************************)
EXTENDS Integers, Sequences, FiniteSets

CONSTANTS
    Devices,    \* the PCs
    Server,
    Parent,     \* a row ...
    Child,      \* ... and one with a foreign key to it
    PullPage,   \* PULL_PAGE
    PushPage,   \* PUSH_PAGE
    Retention,  \* for how long a pushed log entry is kept (a day)
    Deletes,    \* whether rows are deleted
    MaxEdits,   \* bound: writes to the rows, over all nodes
    Absent,
    None

Nodes == Devices \cup {Server}
Rows  == {Parent, Child}

VARIABLES
    db,      \* [Nodes -> [Rows -> Version or Absent]]: what each node holds
    log,     \* [Nodes -> Seq(Change)]: sync_changes; the place in it is the seq
    since,   \* [Devices -> Nat]: lastPullSeq
    pushed,  \* [Devices -> Nat]: lastPushSeq
    cycle,   \* [Devices -> Cycle]: the cycle a device is in
    clock,   \* the time, in the precision of the log
    edits,   \* writes so far
    instant, \* who may still write what at this time, unaware of the others
    dropped  \* history: rows of which a device's cycle lost a change

vars == <<db, log, since, pushed, cycle, clock, edits, instant, dropped>>

\* A version of a row is the number of the write that made it, 0 if it was
\* there before sync was turned on.
Version == 0 .. MaxEdits
Change  == [row : Rows, val : Version \cup {Absent}, ts : Nat,
            origin : Nodes \cup {"seed"},
            kept : BOOLEAN]     \* not yet deleted from the log

ASSUME SyncAssumption ==
    /\ Server \notin Devices
    /\ Parent # Child
    /\ PullPage \in Nat \ {0} /\ PushPage \in Nat \ {0}
    /\ Retention \in Nat \ {0} /\ MaxEdits \in Nat
    /\ Deletes \in BOOLEAN
    /\ Absent \notin Nat /\ "seed" \notin Nodes /\ None \notin Change

Phase   == {"idle", "pull", "apply", "push", "send"}
Page    == [Rows -> Change \cup {None}]
Cycle   == [phase : Phase, page : Page, next : Nat, more : BOOLEAN,
            from : Nat]         \* what was pushed before it
NoPage  == [r \in Rows |-> None]
Idle    == [phase |-> "idle", page |-> NoPage, next |-> 0, more |-> FALSE,
            from |-> 0]

-----------------------------------------------------------------------------
(* The log *)

Logged(row, val, ts, origin) ==
    [row |-> row, val |-> val, ts |-> ts, origin |-> origin, kept |-> TRUE]

\* compact: the newest change of each row among those at the given places of
\* the log, the later one if two are as new.
Newest(changes, places, r) ==
    LET mine == {i \in places : changes[i].row = r}
    IN  CHOOSE i \in mine :
            \A j \in mine : \/ changes[j].ts < changes[i].ts
                            \/ changes[j].ts = changes[i].ts /\ j <= i
Compact(changes, places) ==
    [r \in Rows |-> IF \E i \in places : changes[i].row = r
                    THEN changes[Newest(changes, places, r)] ELSE None]

\* What applyOne looks for before it touches a row.
Outdated_clockOnly(n, c, tieWins) ==
    \E i \in DOMAIN log[n] : /\ log[n][i].kept /\ log[n][i].row = c.row
                             /\ log[n][i].ts > c.ts
Outdated_never(n, c, tieWins) == FALSE
Outdated(n, c, tieWins) ==
    \E i \in DOMAIN log[n] : /\ log[n][i].kept
                             /\ log[n][i].row = c.row
                             /\ \/ log[n][i].ts > c.ts
                                \/ log[n][i].ts = c.ts /\ ~ tieWins

-----------------------------------------------------------------------------
(* A write by the program, on any node *)

\* The trigger logs the row, and the child that goes with a deleted parent.
Written(n, r, val, ts, origin) ==
    IF val # Absent THEN <<Logged(r, val, ts, origin)>>
    ELSE IF r = Parent /\ db[n][Child] # Absent
         THEN <<Logged(Child, Absent, ts, origin),
                Logged(Parent, Absent, ts, origin)>>
         ELSE <<Logged(r, Absent, ts, origin)>>

Put(rows, r, val) ==
    [q \in Rows |-> IF q = r \/ (r = Parent /\ val = Absent) THEN val
                    ELSE rows[q]]

\* No device is left behind by more than Retention when time goes on: the end
\* of a cycle comes before what it pushes is old.
PushedBefore(d) == IF cycle[d].phase = "idle" THEN pushed[d] ELSE cycle[d].from
InTime(t) ==
    \A d \in Devices : \A i \in DOMAIN log[d] :
        i > PushedBefore(d) => log[d][i].ts + Retention >= t

Edit(n, r, t, val) ==
    /\ edits < MaxEdits
    /\ InTime(t)
    /\ t = clock => <<n, r>> \in instant
    /\ db[n][r] # Absent
    /\ val = Absent => Deletes
    /\ db' = [db EXCEPT ![n] = Put(@, r, val)]
    /\ log' = [log EXCEPT ![n] = @ \o Written(n, r, val, t, n)]
    /\ clock' = t
    /\ edits' = edits + 1
    /\ instant' = (IF t = clock THEN instant ELSE Nodes \X Rows)
                    \ {<<n, q>> : q \in {p \in Rows : p = r \/ val = Absent}}
    /\ UNCHANGED <<since, pushed, cycle, dropped>>

-----------------------------------------------------------------------------
(* applyChanges *)

\* Upserts come before deletes; what fails on the foreign key is tried again
\* after the others, and dropped if it still fails.
Due(n, page, tieWins) ==
    {r \in Rows : page[r] # None /\ ~ Outdated(n, page[r], tieWins)}
Orphan(n, page, due) ==
    /\ Child \in due /\ page[Child].val # Absent
    /\ IF Parent \in due /\ page[Parent].val # Absent THEN FALSE
       ELSE db[n][Parent] = Absent

\* The rows, the log entries the triggers write, and what was dropped.
Applied(n, page, origin, tieWins) ==
    LET due   == Due(n, page, tieWins)
        lost  == IF Orphan(n, page, due) THEN {Child} ELSE {}
        todo  == due \ lost
        Up(r) == r \in todo /\ page[r].val # Absent
        Del(r) == r \in todo /\ page[r].val = Absent
        up    == [r \in Rows |-> IF Up(r) THEN page[r].val ELSE db[n][r]]
        gone  == {r \in Rows : Del(r) \/ (r = Child /\ Del(Parent))}
        Ts(r) == IF Del(r) /\ ~ (r = Child /\ Up(Child)) THEN page[r].ts
                 ELSE page[Parent].ts
        Entry(r, val, ts) == Logged(r, val, ts, origin)
        Deleted(r) == IF r \in gone /\ up[r] # Absent
                      THEN <<Entry(r, Absent, Ts(r))>> ELSE <<>>
        Upserted(r) == IF Up(r) THEN <<Entry(r, page[r].val, page[r].ts)>>
                       ELSE <<>>
    IN  [db   |-> [r \in Rows |-> IF r \in gone THEN Absent ELSE up[r]],
         log  |-> Upserted(Parent) \o Upserted(Child)
                    \o Deleted(Child) \o Deleted(Parent),
         lost |-> lost]

-----------------------------------------------------------------------------
(* One cycle of a device *)

Goto(d, phase) == cycle' = [cycle EXCEPT ![d].phase = phase]
Stop(d)        == cycle' = [cycle EXCEPT ![d] = Idle]

SmallerOf(a, b) == IF a < b THEN a ELSE b

\* What n has applied, its next write knows of: it is later.
Aware(n) == instant' = instant \ ({n} \X Rows)

\* The server's answer to a pull: a page of its log, without what the device
\* itself sent, and the seq it goes up to (nextSeq).
Pull(d) ==
    LET upto   == SmallerOf(since[d] + PullPage, Len(log[Server]))
        others == {i \in since[d] + 1 .. upto : log[Server][i].origin # d}
    IN  /\ cycle[d].phase \in {"idle", "pull"}
        /\ cycle' = [cycle EXCEPT ![d] =
                [phase |-> "apply", page |-> Compact(log[Server], others),
                 next |-> upto, more |-> upto - since[d] = PullPage,
                 from |-> pushed[d]]]
        /\ UNCHANGED <<db, log, since, pushed, clock, edits, instant, dropped>>

\* The page is applied without logging and, unless the cycle is cut off first,
\* its end is saved.
ApplyPull(d) ==
    LET done == Applied(d, cycle[d].page, d, TRUE)
    IN  /\ cycle[d].phase = "apply"
        /\ db' = [db EXCEPT ![d] = done.db]
        /\ dropped' = dropped \cup {<<d, r>> : r \in done.lost}
        /\ Aware(d)
        /\ \/ /\ since' = [since EXCEPT ![d] = cycle[d].next]
              /\ Goto(d, IF cycle[d].more THEN "pull" ELSE "push")
           \/ Stop(d) /\ UNCHANGED since
        /\ UNCHANGED <<log, pushed, clock, edits>>

ReadPush(d) ==
    LET upto == SmallerOf(pushed[d] + PushPage, Len(log[d]))
    IN  /\ cycle[d].phase = "push"
        /\ upto > pushed[d]
        /\ cycle' = [cycle EXCEPT ![d] =
                [phase |-> "send", next |-> upto,
                 page |-> Compact(log[d], pushed[d] + 1 .. upto),
                 more |-> upto - pushed[d] = PushPage,
                 from |-> cycle[d].from]]
        /\ UNCHANGED <<db, log, since, pushed, clock, edits, instant, dropped>>

\* The end of the cycle deletes old entries that are on the server.
Pruned(d, upto) ==
    [i \in DOMAIN log[d] |->
        LET c == log[d][i]
        IN  [c EXCEPT !.kept = @ /\ (i > upto \/ c.ts + Retention >= clock)]]

\* The server handles the push.  The device may not see the answer.
ApplyPush(d) ==
    LET done   == Applied(Server, cycle[d].page, d, FALSE)
        atServer == [log EXCEPT ![Server] = @ \o done.log]
    IN  /\ cycle[d].phase = "send"
        /\ db' = [db EXCEPT ![Server] = done.db]
        /\ dropped' = dropped \cup {<<d, r>> : r \in done.lost}
        /\ Aware(Server)
        /\ \/ /\ pushed' = [pushed EXCEPT ![d] = cycle[d].next]
              /\ IF cycle[d].more
                 THEN Goto(d, "push") /\ log' = atServer
                 ELSE /\ Stop(d)
                      /\ log' = [atServer EXCEPT ![d] =
                                    Pruned(d, cycle[d].next)]
           \/ Stop(d) /\ log' = atServer /\ UNCHANGED pushed
        /\ UNCHANGED <<since, clock, edits>>

NothingToPush(d) ==
    /\ cycle[d].phase = "push"
    /\ pushed[d] = Len(log[d])
    /\ Stop(d)
    /\ log' = [log EXCEPT ![d] = Pruned(d, pushed[d])]
    /\ UNCHANGED <<db, since, pushed, clock, edits, instant, dropped>>

\* No answer, an error, or the PC is switched off.
CutOff(d) ==
    /\ cycle[d].phase # "idle"
    /\ Stop(d)
    /\ UNCHANGED <<db, log, since, pushed, clock, edits, instant, dropped>>

-----------------------------------------------------------------------------

\* sync_seed writes the rows in no particular order; a device adopts the
\* server's data (and starts empty) or merges its own copy.
Init ==
    \E order \in {<<Parent, Child>>, <<Child, Parent>>},
       merging \in SUBSET Devices :
        LET Seeded(n) == n = Server \/ n \in merging
        IN  /\ db = [n \in Nodes |-> [r \in Rows |->
                        IF Seeded(n) THEN 0 ELSE Absent]]
            /\ log = [n \in Nodes |->
                        IF Seeded(n)
                        THEN [i \in 1 .. 2 |-> Logged(order[i], 0, 0, "seed")]
                        ELSE <<>>]
            /\ since = [d \in Devices |-> 0]
            /\ pushed = [d \in Devices |-> 0]
            /\ cycle = [d \in Devices |-> Idle]
            /\ clock = 1
            /\ edits = 0
            /\ instant = {}
            /\ dropped = {}

Sync(d) ==
    \/ Pull(d) \/ ApplyPull(d)
    \/ ReadPush(d) \/ ApplyPush(d) \/ NothingToPush(d)

Next ==
    \/ \E n \in Nodes, r \in Rows, t \in clock .. clock + 1,
          val \in {edits + 1, Absent} : Edit(n, r, t, val)
    \/ \E d \in Devices : Sync(d) \/ CutOff(d)

Spec == Init /\ [][Next]_vars
-----------------------------------------------------------------------------
(* Properties *)

\* Everything was pulled and pushed.
Quiet == \A d \in Devices : /\ cycle[d].phase = "idle"
                            /\ since[d] = Len(log[Server])
                            /\ pushed[d] = Len(log[d])

\* Whatever the order in which the nodes write, pull, push and are cut off,
\* once everything was exchanged all hold the same rows.
Converges == Quiet => \A d \in Devices : db[d] = db[Server]

\* Last writer wins: what they all hold is the newest change made to a row by
\* anybody.  (Of the parent: a child also goes when its parent is deleted.)
NewestWins ==
    Quiet =>
        \E n \in Nodes : \E i \in DOMAIN log[n] :
            /\ log[n][i].row = Parent /\ log[n][i].val = db[Server][Parent]
            /\ \A m \in Nodes : \A j \in DOMAIN log[m] :
                    log[m][j].row = Parent => log[m][j].ts <= log[n][i].ts

\* When a version of a row was made.
TimeOf(r, val) ==
    LET made == {t \in 0 .. clock :
                    \E n \in Nodes : \E i \in DOMAIN log[n] :
                        /\ log[n][i].row = r /\ log[n][i].val = val
                        /\ log[n][i].ts = t}
    IN  CHOOSE t \in made : TRUE

\* No node ever replaces a version of a row by an older one, not even for the
\* time until the next page.
NeverOlder ==
    [][\A n \in Nodes, r \in Rows :
        /\ db'[n][r] # db[n][r]
        /\ db'[n][r] # Absent /\ db[n][r] # Absent
        => TimeOf(r, db[n][r])' >= TimeOf(r, db[n][r])]_vars

-----------------------------------------------------------------------------
(* What the code does not guarantee: the violation run *)

\* Rows arrive in any order, and a row whose parent has not arrived yet is
\* tried again until it has.
EveryRowArrives ==
    Quiet => \A d \in Devices, r \in Rows :
                db[Server][r] # Absent => db[d][r] # Absent
=============================================================================
