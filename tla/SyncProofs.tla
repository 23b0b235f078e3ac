----------------------------- MODULE SyncProofs -----------------------------
(***************************************************************************)
(* Proofs about ServerSync when no row is deleted, for every number of     *)
(* devices, writes and page sizes: once everything was exchanged the       *)
(* newest write to a row is what the server holds (NewestWins) and every   *)
(* PC holds the same (Converges), and no node ever goes back to an older   *)
(* version of a row (NeverOlder).                                          *)
(*                                                                         *)
(* ServerInv says of the server that its log names what it holds and rises *)
(* in time, and that it has, for all that a device pushed, something as    *)
(* new.  DeviceInv says of a device's row that it is the newest of what    *)
(* the device wrote and what it applied of the server's log.               *)
(***************************************************************************)
EXTENDS ServerSync, SequenceTheorems, WellFoundedInduction, TLAPS

NoDeletes == ~ Deletes

\* Without deletes a log entry holds a version.
Entry == [row : Rows, val : Version, ts : Nat, origin : Nodes \cup {"seed"}, kept : BOOLEAN]
Job   == [phase : Phase, page : [Rows -> Entry \cup {None}], next : Nat, more : BOOLEAN, from : Nat]

SyncType ==
    /\ db \in [Nodes -> [Rows -> Version \cup {Absent}]]
    /\ log \in [Nodes -> Seq(Entry)]
    /\ since \in [Devices -> Nat] /\ pushed \in [Devices -> Nat]
    /\ cycle \in [Devices -> Job]
    /\ clock \in Nat /\ edits \in Version
    /\ instant \subseteq Nodes \X Rows

-----------------------------------------------------------------------------
(* Logs *)

\* The same write, whether still kept or not.
Same(a, b) == a.row = b.row /\ a.val = b.val /\ a.ts = b.ts /\ a.origin = b.origin

Extends(old, new) ==
    /\ DOMAIN old \subseteq DOMAIN new
    /\ \A i \in DOMAIN old : Same(new[i], old[i])

\* Later entries of a row are of a later time.
Rises(s) == \A i, j \in DOMAIN s : i < j /\ s[i].row = s[j].row => s[i].ts < s[j].ts

\* s has, up to place p, a change of the row of e that is as new as e.
Covered(s, e, p) == \E j \in DOMAIN s : j <= p /\ s[j].row = e.row /\ e.ts <= s[j].ts

\* A page holds the newest change of each row at the given places of s.
Tells(page, s, places) ==
    /\ \A i \in places : page[s[i].row] # None /\ s[i].ts <= page[s[i].row].ts
    /\ \A r \in Rows : page[r] # None =>
          page[r].row = r /\ \E i \in places : Same(page[r], s[i])

-----------------------------------------------------------------------------
(* The server and what is under way to it *)

InPast == \A n \in Nodes : \A i \in DOMAIN log[n] : log[n][i].ts <= clock /\ log[n][i].val <= edits

LogsRise == \A n \in Nodes : Rises(log[n])

\* Who may still write at this time has not yet done so.
WritesLater ==
    \A n \in Nodes, r \in Rows : <<n, r>> \in instant =>
        \A i \in DOMAIN log[n] : log[n][i].row = r => log[n][i].ts < clock

ServerHolds ==
    /\ \A i \in DOMAIN log[Server] : log[Server][i].kept
    /\ \A r \in Rows : \E i \in DOMAIN log[Server] :
          /\ log[Server][i].row = r /\ db[Server][r] = log[Server][i].val
          /\ \A j \in DOMAIN log[Server] : log[Server][j].row = r => j <= i

\* What device d pushed is on the server, its page is what comes next.
PushSound(d) ==
    /\ pushed[d] <= Len(log[d])
    /\ \A i \in 1 .. pushed[d] : Covered(log[Server], log[d][i], Len(log[Server]))
    /\ cycle[d].phase = "send" =>
          /\ pushed[d] <= cycle[d].next /\ cycle[d].next <= Len(log[d])
          /\ Tells(cycle[d].page, log[d], pushed[d] + 1 .. cycle[d].next)
PushesSound == \A d \in Devices : PushSound(d)

ServerInv == SyncType /\ InPast /\ LogsRise /\ WritesLater /\ ServerHolds /\ PushesSound

-----------------------------------------------------------------------------
(* A device *)

\* What others changed, as far as place p of the server's log s.
Others(s, d, a, p) == {j \in DOMAIN s : a < j /\ j <= p /\ s[j].origin # d}

\* A version of a row was made at one time.
VersionsAgree ==
    \A m, n \in Nodes : \A i \in DOMAIN log[m], j \in DOMAIN log[n] :
        log[m][i].row = log[n][j].row /\ log[m][i].val = log[n][j].val => log[m][i].ts = log[n][j].ts

\* What the server has of a device is from the device's log.
OwnIsOwn ==
    \A d \in Devices : \A j \in DOMAIN log[Server] : log[Server][j].origin = d =>
        \E i \in DOMAIN log[d] : /\ log[d][i].row = log[Server][j].row
                                 /\ log[d][i].val = log[Server][j].val

\* Where a device will be in the server's log once its page is applied.
ReadTo(d) == IF cycle[d].phase = "apply" THEN cycle[d].next ELSE since[d]

\* What a device pushed before its cycle is on the server before what it has
\* not pulled; only that is deleted from its log.
SeenSound(d) ==
    /\ cycle[d].phase # "idle" => cycle[d].from <= pushed[d]
    /\ \A i \in DOMAIN log[d] :
          /\ i > PushedBefore(d) => log[d][i].ts + Retention >= clock
          /\ log[d][i].kept \/ Covered(log[Server], log[d][i], since[d])
          /\ /\ i <= cycle[d].from
             /\ \/ cycle[d].phase \in {"push", "send"}
                \/ cycle[d].phase = "apply" /\ ~ cycle[d].more
             => Covered(log[Server], log[d][i], ReadTo(d))

\* What it pulled is the newest of what others changed since.
PageSound(d) ==
    /\ since[d] <= Len(log[Server])
    /\ cycle[d].phase = "apply" =>
          /\ since[d] <= cycle[d].next /\ cycle[d].next <= Len(log[Server])
          /\ cycle[d].next <= since[d] + PullPage
          /\ PullPage > 1 => cycle[d].next > 1
          /\ Tells(cycle[d].page, log[Server], Others(log[Server], d, since[d], cycle[d].next))

\* The version v of row r is the newest of those in the device's log s and of
\* those of others up to place p of the server's log t, which wins a tie; or
\* the device does not have the row yet and never wrote it.
Newer(v, s, t, d, r, p) ==
    \/ /\ v = Absent /\ \A i \in DOMAIN s : s[i].row # r
    \/ \E i \in DOMAIN s :
          /\ s[i].row = r /\ v = s[i].val
          /\ \A k \in DOMAIN s : s[k].row = r => s[k].ts <= s[i].ts
          /\ \A k \in Others(t, d, 0, p) : t[k].row = r => t[k].ts < s[i].ts
    \/ \E j \in Others(t, d, 0, p) :
          /\ t[j].row = r /\ v = t[j].val
          /\ \A k \in Others(t, d, 0, p) : t[k].row = r => t[k].ts <= t[j].ts
          /\ \A k \in DOMAIN s : s[k].row = r => s[k].ts <= t[j].ts

\* Device d has applied the server's log up to place p.
Applies(d, p) ==
    /\ since[d] <= p /\ p <= Len(log[Server]) /\ p <= since[d] + PullPage
    /\ cycle[d].phase = "apply" => p <= cycle[d].next
    /\ \A r \in Rows : Newer(db[d][r], log[d], log[Server], d, r, p)
    /\ \A r \in Rows : <<d, r>> \in instant =>
          \A j \in Others(log[Server], d, 0, p) : log[Server][j].row = r => log[Server][j].ts < clock
    /\ db[d][Parent] = Absent => db[d][Child] = Absent
    /\ PullPage > 1 => \A r \in Rows : db[d][r] = Absent => p = 0

Holds(d) == \E p \in 0 .. Len(log[Server]) : Applies(d, p)

SeedsFirst ==
    \A r \in Rows : \E i \in {1, 2} :
        i \in DOMAIN log[Server] /\ log[Server][i].row = r /\ log[Server][i].origin = "seed"

DeviceSound(d) == SeenSound(d) /\ PageSound(d) /\ Holds(d)
DeviceInv == VersionsAgree /\ OwnIsOwn /\ SeedsFirst /\ \A d \in Devices : DeviceSound(d)

-----------------------------------------------------------------------------
(* Sets of numbers, sequences *)

LEMMA LeastMember ==
    ASSUME NEW S \in SUBSET Nat, S # {}
    PROVE  \E m \in S : \A n \in S : m <= n
<1>1. PICK m \in S : \A n \in S : ~ (<<n, m>> \in OpToRel(<, Nat))
  BY NatLessThanWellFounded, WFMin
<1>2. \A n \in S : ~ (n < m)
  BY <1>1 DEF OpToRel
<1>3. \A n \in S : m <= n
  BY <1>2
<1> QED
  BY <1>3

LEMMA GreatestMember ==
    ASSUME NEW S \in SUBSET Nat, S # {}, NEW b \in Nat, \A x \in S : x <= b
    PROVE  \E m \in S : \A n \in S : n <= m
<1> DEFINE T == {b - x : x \in S}
<1>1. T \in SUBSET Nat /\ T # {}
  <2>1. \A x \in S : b - x \in Nat
    OBVIOUS
  <2> QED
    BY <2>1
<1>2. PICK k \in T : \A n \in T : k <= n
  BY <1>1, LeastMember
<1>3. PICK m \in S : k = b - m
  BY <1>2
<1>4. \A n \in S : b - m <= b - n
  BY <1>2, <1>3
<1> QED
  BY <1>4

LEMMA OneMore ==
    ASSUME NEW s \in Seq(Entry), NEW e \in Entry
    PROVE  /\ Append(s, e) \in Seq(Entry)
           /\ Len(Append(s, e)) = Len(s) + 1 /\ DOMAIN Append(s, e) = 1 .. Len(s) + 1
           /\ \A i \in 1 .. Len(s) : Append(s, e)[i] = s[i]
           /\ Append(s, e)[Len(s) + 1] = e
<1>1. /\ Append(s, e) \in Seq(Entry) /\ Len(Append(s, e)) = Len(s) + 1
      /\ \A i \in 1 .. Len(s) : Append(s, e)[i] = s[i]
      /\ Append(s, e)[Len(s) + 1] = e
  BY AppendProperties
<1>2. DOMAIN Append(s, e) = 1 .. Len(Append(s, e))
  BY <1>1, LenProperties
<1> QED
  BY <1>1, <1>2

One(r, todo, e) == IF r \in todo THEN <<e>> ELSE <<>>

LEMMA OneIsShort ==
    ASSUME NEW r, NEW todo, NEW e, r \in todo => e \in Entry
    PROVE  /\ One(r, todo, e) \in Seq(Entry) /\ Len(One(r, todo, e)) = (IF r \in todo THEN 1 ELSE 0)
           /\ r \in todo => One(r, todo, e)[1] = e
<1>1. CASE r \in todo
  <2>1. One(r, todo, e) = <<e>>
    BY <1>1 DEF One
  <2>2. <<e>> \in Seq(Entry) /\ Len(<<e>>) = 1 /\ <<e>>[1] = e
    BY <1>1
  <2> QED
    BY <1>1, <2>1, <2>2
<1>2. CASE r \notin todo
  BY <1>2 DEF One
<1> QED
  BY <1>1, <1>2

LEMMA Joins ==
    ASSUME NEW s \in Seq(Entry), NEW t \in Seq(Entry)
    PROVE  /\ s \o t \in Seq(Entry) /\ Len(s \o t) = Len(s) + Len(t)
           /\ \A i \in 1 .. Len(s) : (s \o t)[i] = s[i]
           /\ \A i \in 1 .. Len(t) : (s \o t)[Len(s) + i] = t[i]
<1>1. /\ s \o t \in Seq(Entry) /\ Len(s \o t) = Len(s) + Len(t)
      /\ \A i \in 1 .. Len(s) + Len(t) : (s \o t)[i] = IF i <= Len(s) THEN s[i] ELSE t[i - Len(s)]
  BY ConcatProperties
<1>2. Len(s) \in Nat /\ Len(t) \in Nat
  BY LenProperties
<1> QED
  BY <1>1, <1>2

\* t is s and the entries e and f of the rows to do.
AddsTo(s, t, todo, e, f) ==
    /\ t \in Seq(Entry) /\ Len(s) <= Len(t) /\ DOMAIN t = 1 .. Len(t)
    /\ \A i \in 1 .. Len(s) : t[i] = s[i]
    /\ \A i \in Len(s) + 1 .. Len(t) : (Parent \in todo /\ t[i] = e) \/ (Child \in todo /\ t[i] = f)
    /\ Parent \in todo => \E i \in Len(s) + 1 .. Len(t) : t[i] = e
    /\ Child \in todo => \E i \in Len(s) + 1 .. Len(t) : t[i] = f
    /\ \A i, j \in Len(s) + 1 .. Len(t) :
          i < j => Parent \in todo /\ Child \in todo /\ t[i] = e /\ t[j] = f

LEMMA TwoAtMost ==
    ASSUME NEW s \in Seq(Entry), NEW todo, NEW e, NEW f,
           Parent \in todo => e \in Entry, Child \in todo => f \in Entry
    PROVE  AddsTo(s, s \o (One(Parent, todo, e) \o One(Child, todo, f)), todo, e, f)
<1> DEFINE t == s \o (One(Parent, todo, e) \o One(Child, todo, f))
<1> DEFINE a == Parent \in todo
           b == Child \in todo
<1>1. PICK p \in Seq(Entry) :
          p = One(Parent, todo, e) /\ Len(p) = (IF a THEN 1 ELSE 0) /\ (a => p[1] = e)
  BY OneIsShort
<1>2. PICK q \in Seq(Entry) :
          q = One(Child, todo, f) /\ Len(q) = (IF b THEN 1 ELSE 0) /\ (b => q[1] = f)
  BY OneIsShort
<1> DEFINE m == IF a THEN 1 ELSE 0
           n == IF b THEN 1 ELSE 0
<1>3. m \in Nat /\ n \in Nat
  OBVIOUS
<1> HIDE DEF m, n
<1>4. Len(p) = m /\ Len(q) = n /\ (a <=> m = 1) /\ (b <=> n = 1) /\ m <= 1 /\ n <= 1
  BY <1>1, <1>2 DEF m, n
<1>5. /\ p \o q \in Seq(Entry) /\ Len(p \o q) = m + n
      /\ \A i \in 1 .. m : (p \o q)[i] = p[i]
      /\ \A i \in 1 .. n : (p \o q)[m + i] = q[i]
  BY <1>3, <1>4, Joins
<1>6. PICK u \in Seq(Entry) :
          /\ u = p \o q /\ Len(u) = m + n
          /\ \A i \in 1 .. m : u[i] = p[i]
          /\ \A i \in 1 .. n : u[m + i] = q[i]
  BY <1>5
<1>7. t = s \o u
  BY <1>1, <1>2, <1>6
<1> HIDE DEF t
<1>8. /\ t \in Seq(Entry) /\ Len(t) = Len(s) + (m + n)
      /\ \A i \in 1 .. Len(s) : t[i] = s[i]
      /\ \A i \in 1 .. m + n : t[Len(s) + i] = u[i]
  <2>1. s \o u \in Seq(Entry) /\ Len(s \o u) = Len(s) + Len(u)
    BY Joins
  <2>2. \A i \in 1 .. Len(s) : (s \o u)[i] = s[i]
    BY Joins
  <2>3. \A i \in 1 .. Len(u) : (s \o u)[Len(s) + i] = u[i]
    BY Joins
  <2> QED
    BY <1>6, <1>7, <2>1, <2>2, <2>3
<1>9. Len(s) \in Nat /\ Len(t) \in Nat /\ DOMAIN t = 1 .. Len(t)
  BY <1>8, LenProperties
<1>10. ASSUME a PROVE t[Len(s) + 1] = e
  <2>1. 1 \in 1 .. m /\ 1 \in 1 .. m + n
    BY <1>3, <1>4, <1>10
  <2>2. u[1] = e
    BY <1>1, <1>6, <1>10, <2>1
  <2> QED
    BY <1>8, <2>1, <2>2
<1>11. ASSUME b PROVE t[Len(s) + (m + 1)] = f
  <2>1. 1 \in 1 .. n /\ m + 1 \in 1 .. m + n
    BY <1>3, <1>4, <1>11
  <2>2. u[m + 1] = f
    BY <1>2, <1>6, <1>11, <2>1
  <2> QED
    BY <1>8, <2>1, <2>2
<1>12. \A i \in Len(s) + 1 .. Len(t) :
          \/ a /\ i = Len(s) + 1 /\ t[i] = e
          \/ b /\ i = Len(s) + (m + 1) /\ t[i] = f
  <2>1. \A i \in Len(s) + 1 .. Len(t) : (m = 1 /\ i = Len(s) + 1) \/ (n = 1 /\ i = Len(s) + (m + 1))
    BY <1>3, <1>4, <1>8, <1>9
  <2> QED
    BY <1>4, <1>10, <1>11, <2>1
<1>13. a => Len(s) + 1 \in Len(s) + 1 .. Len(t)
  BY <1>3, <1>4, <1>8, <1>9
<1>14. b => Len(s) + (m + 1) \in Len(s) + 1 .. Len(t)
  BY <1>3, <1>4, <1>8, <1>9
<1>15. \A i, j \in Len(s) + 1 .. Len(t) : i < j => a /\ b /\ t[i] = e /\ t[j] = f
  <2>1. \A i, j \in Len(s) + 1 .. Len(t) : i < j => i = Len(s) + 1 /\ j = Len(s) + (m + 1) /\ m = 1 /\ n = 1
    BY <1>3, <1>4, <1>8, <1>9
  <2> QED
    BY <1>4, <1>10, <1>11, <2>1
<1>16. Len(s) <= Len(t)
  BY <1>3, <1>8, <1>9
<1>17. (a => \E i \in Len(s) + 1 .. Len(t) : t[i] = e) /\ (b => \E i \in Len(s) + 1 .. Len(t) : t[i] = f)
  BY <1>10, <1>11, <1>13, <1>14
<1>18. AddsTo(s, t, todo, e, f)
  BY <1>8, <1>9, <1>12, <1>15, <1>16, <1>17 DEF AddsTo
<1> QED
  BY <1>18 DEF t

-----------------------------------------------------------------------------
(* What the operators of the model return *)

LEMMA Apart == Absent \notin Version /\ None \notin Entry
  BY SyncAssumption DEF Version, Entry, Change

LEMMA LogTypes ==
    ASSUME SyncType, NEW n \in Nodes
    PROVE  /\ log[n] \in Seq(Entry) /\ Len(log[n]) \in Nat /\ DOMAIN log[n] = 1 .. Len(log[n])
           /\ \A i \in DOMAIN log[n] : log[n][i] \in Entry
  BY DEF SyncType

LEMMA EntryTypes ==
    ASSUME NEW e \in Entry
    PROVE  /\ e.row \in Rows /\ e.val \in Version /\ e.val \in Nat /\ e.ts \in Nat
           /\ e.kept \in BOOLEAN /\ e # None /\ e.val # Absent
  BY Apart, SyncAssumption DEF Entry, Version

\* compact picks the newest change of a row.
LEMMA NewestIsNewest ==
    ASSUME NEW s \in Seq(Entry), NEW places \in SUBSET DOMAIN s, NEW r,
           NEW b \in Nat, \A i \in DOMAIN s : s[i].ts <= b,
           \E i \in places : s[i].row = r
    PROVE  /\ Newest(s, places, r) \in places /\ s[Newest(s, places, r)].row = r
           /\ \A j \in places : s[j].row = r => s[j].ts <= s[Newest(s, places, r)].ts
<1> DEFINE mine == {i \in places : s[i].row = r}
           times == {s[i].ts : i \in mine}
<1>1. DOMAIN s = 1 .. Len(s) /\ Len(s) \in Nat /\ \A i \in DOMAIN s : s[i] \in Entry
  OBVIOUS
<1>2. \A i \in DOMAIN s : s[i].ts \in Nat
  BY <1>1, EntryTypes
<1>3. times \in SUBSET Nat /\ times # {} /\ \A x \in times : x <= b
  BY <1>2
<1> HIDE DEF times
<1>4. PICK top \in times : \A x \in times : x <= top
  BY <1>3, GreatestMember
<1> DEFINE last == {i \in mine : s[i].ts = top}
<1>5. last \in SUBSET Nat /\ last # {} /\ \A i \in last : i <= Len(s)
  BY <1>1, <1>4 DEF times
<1> HIDE DEF last
<1>6. PICK m \in last : \A i \in last : i <= m
  BY <1>1, <1>5, GreatestMember
<1>7. m \in mine /\ \A j \in mine : s[j].ts < s[m].ts \/ (s[j].ts = s[m].ts /\ j <= m)
  <2>1. m \in mine /\ s[m].ts = top
    BY <1>6 DEF last
  <2>2. \A j \in mine : s[j].ts <= top /\ (s[j].ts = top => j <= m)
    BY <1>4, <1>6 DEF last, times
  <2> QED
    BY <1>2, <2>1, <2>2
<1> DEFINE w == Newest(s, places, r)
<1>8. w \in mine /\ \A j \in mine : s[j].ts < s[w].ts \/ (s[j].ts = s[w].ts /\ j <= w)
  BY <1>7 DEF Newest
<1>9. \A j \in mine : s[j].ts <= s[w].ts
  BY <1>2, <1>8
<1> QED
  BY <1>8, <1>9

LEMMA CompactTells ==
    ASSUME NEW s \in Seq(Entry), NEW places \in SUBSET DOMAIN s,
           NEW b \in Nat, \A i \in DOMAIN s : s[i].ts <= b
    PROVE  /\ Tells(Compact(s, places), s, places)
           /\ Compact(s, places) \in [Rows -> Entry \cup {None}]
<1>1. \A i \in DOMAIN s : s[i] \in Entry
  OBVIOUS
<1>2. ASSUME NEW i \in places
      PROVE  LET r == s[i].row IN
             /\ Compact(s, places)[r] = s[Newest(s, places, r)] /\ Newest(s, places, r) \in places
             /\ s[i].ts <= s[Newest(s, places, r)].ts
  <2>1. s[i].row \in Rows
    BY <1>1, EntryTypes
  <2> QED
    BY <2>1, NewestIsNewest DEF Compact
<1>3. ASSUME NEW i \in places
      PROVE  Compact(s, places)[s[i].row] # None /\ s[i].ts <= Compact(s, places)[s[i].row].ts
  BY <1>1, <1>2, EntryTypes
<1>4. ASSUME NEW r \in Rows, Compact(s, places)[r] # None
      PROVE  /\ Compact(s, places)[r] \in Entry /\ Compact(s, places)[r].row = r
             /\ \E i \in places : Same(Compact(s, places)[r], s[i])
  <2>1. \E i \in places : s[i].row = r
    BY <1>4 DEF Compact
  <2>2. /\ Newest(s, places, r) \in places /\ s[Newest(s, places, r)].row = r
        /\ Compact(s, places)[r] = s[Newest(s, places, r)]
    BY <2>1, NewestIsNewest DEF Compact
  <2> QED
    BY <1>1, <2>2 DEF Same
<1>5. Compact(s, places) = [r \in Rows |-> Compact(s, places)[r]]
  BY DEF Compact
<1> QED
  BY <1>3, <1>4, <1>5 DEF Tells

\* A page without deletes is written as it is, but for an orphan.
Stamped(page, r, o) == Logged(r, page[r].val, page[r].ts, o)
Writes(a, n, page, o, due) ==
    LET todo == due \ a.lost
    IN  /\ due \subseteq Rows /\ a.lost = (IF Orphan(n, page, due) THEN {Child} ELSE {})
        /\ a.db = [r \in Rows |-> IF r \in todo THEN page[r].val ELSE db[n][r]]
        /\ a.log = One(Parent, todo, Stamped(page, Parent, o)) \o One(Child, todo, Stamped(page, Child, o))

LEMMA PageApplied ==
    ASSUME SyncType, NEW n \in Nodes, NEW page \in [Rows -> Entry \cup {None}], NEW o, NEW tw
    PROVE  Writes(Applied(n, page, o, tw), n, page, o, Due(n, page, tw))
<1> DEFINE due   == Due(n, page, tw)
           lost  == IF Orphan(n, page, due) THEN {Child} ELSE {}
           todo  == due \ lost
           E(r)  == Logged(r, page[r].val, page[r].ts, o)
           a     == Applied(n, page, o, tw)
<1>1. due \subseteq Rows /\ \A r \in due : page[r] \in Entry
  BY DEF Due
<1>2. \A r \in due : page[r].val # Absent
  BY <1>1, EntryTypes
<1>3. \A r : r \in todo /\ page[r].val # Absent <=> r \in todo
  BY <1>2
<1>4. \A r : ~ (r \in todo /\ page[r].val = Absent)
  BY <1>2
<1> HIDE DEF due, todo
<1>5. a.lost = lost
  BY DEF Applied, due, todo
<1>6. a.db = [r \in Rows |-> IF r \in todo THEN page[r].val ELSE db[n][r]]
  BY <1>3, <1>4 DEF Applied, due, todo
<1>7. a.log = One(Parent, todo, E(Parent)) \o One(Child, todo, E(Child)) \o <<>> \o <<>>
  BY <1>3, <1>4 DEF Applied, One, due, todo
<1>8. One(Parent, todo, E(Parent)) \o One(Child, todo, E(Child)) \o <<>> \o <<>>
        = One(Parent, todo, E(Parent)) \o One(Child, todo, E(Child))
  BY DEF One
<1> QED
  BY <1>1, <1>5, <1>6, <1>7, <1>8 DEF due, todo, Writes, Stamped

-----------------------------------------------------------------------------
(* What each action changes *)

\* A write without deletes.
WritesVersion(n, r, t) ==
    /\ edits' = edits + 1 /\ edits' \in Version /\ clock' = t /\ t \in Nat
    /\ clock <= t /\ edits \in Nat /\ clock \in Nat
    /\ db[n][r] # Absent /\ InTime(t)
    /\ t = clock => <<n, r>> \in instant
    /\ Logged(r, edits + 1, t, n) \in Entry
    /\ \A m \in Nodes, q \in Rows :
          db'[m][q] = IF m = n /\ q = r THEN edits + 1 ELSE db[m][q]
    /\ log'[n] = Append(log[n], Logged(r, edits + 1, t, n))
    /\ \A m \in Nodes \ {n} : log'[m] = log[m]
    /\ \A m \in Nodes, q \in Rows : <<m, q>> \in instant' =>
          <<m, q>> # <<n, r>> /\ (t = clock => <<m, q>> \in instant)
    /\ UNCHANGED <<since, pushed, cycle>>
    /\ SyncType'

LEMMA EditDoes ==
    ASSUME NoDeletes, SyncType, NEW n \in Nodes, NEW r \in Rows,
           NEW t \in clock .. clock + 1, NEW val \in {edits + 1, Absent}, Edit(n, r, t, val)
    PROVE  WritesVersion(n, r, t)
<1>1. edits \in 0 .. MaxEdits /\ edits < MaxEdits /\ MaxEdits \in Nat /\ clock \in Nat
  BY SyncAssumption DEF Edit, SyncType, Version
<1>2. val = edits + 1 /\ val # Absent /\ edits + 1 \in Version
  BY <1>1, SyncAssumption DEF Edit, NoDeletes, Version
<1>3. edits' = edits + 1 /\ clock' = t /\ t \in Nat /\ clock <= t
  BY <1>1 DEF Edit
<1>4. db[n][r] # Absent /\ InTime(t) /\ (t = clock => <<n, r>> \in instant)
      /\ UNCHANGED <<since, pushed, cycle>>
  BY DEF Edit
<1>5. Logged(r, edits + 1, t, n) \in Entry
  BY <1>2, <1>3 DEF Entry, Logged
<1>6. Put(db[n], r, val) = [q \in Rows |-> IF q = r THEN edits + 1 ELSE db[n][q]]
  BY <1>2 DEF Put
<1>7. db' = [db EXCEPT ![n] = [q \in Rows |-> IF q = r THEN edits + 1 ELSE db[n][q]]]
  BY <1>6 DEF Edit
<1>8. db' \in [Nodes -> [Rows -> Version \cup {Absent}]]
  BY <1>2, <1>7 DEF SyncType
<1>9. \A m \in Nodes, q \in Rows : db'[m][q] = IF m = n /\ q = r THEN edits + 1 ELSE db[m][q]
  BY <1>7 DEF SyncType
<1>10. log[n] \in Seq(Entry) /\ log \in [Nodes -> Seq(Entry)]
  BY DEF SyncType
<1>11. Written(n, r, val, t, n) = <<Logged(r, edits + 1, t, n)>>
  BY <1>2 DEF Written
<1>12. log[n] \o <<Logged(r, edits + 1, t, n)>> = Append(log[n], Logged(r, edits + 1, t, n))
  BY <1>5, <1>10, AppendIsConcat
<1>13. log' = [log EXCEPT ![n] = Append(log[n], Logged(r, edits + 1, t, n))]
  BY <1>11, <1>12 DEF Edit
<1>14. Append(log[n], Logged(r, edits + 1, t, n)) \in Seq(Entry)
  BY <1>5, <1>10, OneMore
<1>15. /\ log' \in [Nodes -> Seq(Entry)] /\ \A m \in Nodes \ {n} : log'[m] = log[m]
       /\ log'[n] = Append(log[n], Logged(r, edits + 1, t, n))
  BY <1>10, <1>13, <1>14
<1>16. {p \in Rows : p = r \/ val = Absent} = {r}
  BY <1>2
<1>17. instant' = (IF t = clock THEN instant ELSE Nodes \X Rows) \ {<<n, q>> : q \in {r}}
  BY <1>16 DEF Edit
<1>18. /\ instant' \subseteq Nodes \X Rows
       /\ \A m \in Nodes, q \in Rows : <<m, q>> \in instant' =>
             <<m, q>> # <<n, r>> /\ (t = clock => <<m, q>> \in instant)
  BY <1>17 DEF SyncType
<1>19. SyncType'
  BY <1>2, <1>3, <1>4, <1>8, <1>15, <1>18 DEF SyncType
<1> QED
  BY <1>1, <1>2, <1>3, <1>4, <1>5, <1>9, <1>15, <1>18, <1>19 DEF WritesVersion

LEMMA PullDoes ==
    ASSUME ServerInv, NEW d \in Devices, since[d] <= Len(log[Server]), Pull(d)
    PROVE  LET next == cycle'[d].next IN
           /\ SyncType' /\ cycle[d].phase \in {"idle", "pull"} /\ cycle'[d].phase = "apply"
           /\ next = SmallerOf(since[d] + PullPage, Len(log[Server]))
           /\ since[d] <= next /\ next <= Len(log[Server]) /\ next <= since[d] + PullPage
           /\ cycle'[d].more <=> next = since[d] + PullPage
           /\ ~ cycle'[d].more => next = Len(log[Server])
           /\ cycle'[d].from = pushed[d]
           /\ Tells(cycle'[d].page, log[Server], Others(log[Server], d, since[d], next))
           /\ \A c \in Devices \ {d} : cycle'[c] = cycle[c]
           /\ UNCHANGED <<db, log, since, pushed, clock, edits, instant>>
<1> USE SyncAssumption
<1> DEFINE upto   == SmallerOf(since[d] + PullPage, Len(log[Server]))
           others == {i \in since[d] + 1 .. upto : log[Server][i].origin # d}
           job    == [phase |-> "apply", page |-> Compact(log[Server], others),
                      next |-> upto, more |-> upto - since[d] = PullPage, from |-> pushed[d]]
<1>1. SyncType /\ Server \in Nodes
  BY DEF ServerInv, Nodes
<1>2. since[d] \in Nat /\ pushed[d] \in Nat
  BY <1>1 DEF SyncType
<1>3. log[Server] \in Seq(Entry) /\ Len(log[Server]) \in Nat /\ DOMAIN log[Server] = 1 .. Len(log[Server])
  BY <1>1, LogTypes
<1>4. /\ upto \in Nat /\ since[d] <= upto /\ upto <= Len(log[Server]) /\ upto <= since[d] + PullPage
      /\ upto - since[d] = PullPage <=> upto = since[d] + PullPage
      /\ upto # since[d] + PullPage => upto = Len(log[Server])
  BY <1>2, <1>3 DEF SmallerOf
<1>5. others = Others(log[Server], d, since[d], upto) /\ others \in SUBSET DOMAIN log[Server]
  BY <1>2, <1>3, <1>4 DEF Others
<1>6. \A i \in DOMAIN log[Server] : log[Server][i].ts <= clock /\ clock \in Nat
  BY <1>1 DEF ServerInv, InPast, SyncType
<1>7. /\ Tells(Compact(log[Server], others), log[Server], others)
      /\ Compact(log[Server], others) \in [Rows -> Entry \cup {None}]
  BY <1>1, <1>3, <1>5, <1>6, CompactTells DEF SyncType
<1> HIDE DEF upto, others
<1>8. job \in Job
  BY <1>2, <1>4, <1>7 DEF Job, Phase
<1>9. cycle' = [cycle EXCEPT ![d] = job] /\ UNCHANGED <<db, log, since, pushed, clock, edits, instant>>
      /\ cycle[d].phase \in {"idle", "pull"}
  BY DEF Pull, upto, others
<1>10. cycle'[d] = job /\ \A c \in Devices \ {d} : cycle'[c] = cycle[c]
  BY <1>1, <1>9 DEF SyncType
<1>11. SyncType'
  BY <1>1, <1>8, <1>9 DEF SyncType
<1> HIDE DEF job
<1>12. /\ cycle'[d].phase = "apply" /\ cycle'[d].next = upto /\ cycle'[d].from = pushed[d]
       /\ cycle'[d].more = (upto - since[d] = PullPage) /\ cycle'[d].page = Compact(log[Server], others)
  BY <1>10 DEF job
<1>13. upto = SmallerOf(since[d] + PullPage, Len(log[Server]))
  BY DEF upto
<1> QED
  BY <1>4, <1>5, <1>7, <1>9, <1>10, <1>11, <1>12, <1>13

LEMMA ApplyPullDoes ==
    ASSUME SyncType, NEW d \in Devices, ApplyPull(d)
    PROVE  LET page == cycle[d].page
               due  == Due(d, page, TRUE)
               todo == due \ (IF Orphan(d, page, due) THEN {Child} ELSE {})
           IN  /\ SyncType' /\ cycle[d].phase = "apply"
               /\ due \subseteq Rows /\ \A r \in due : page[r] \in Entry
               /\ \A r \in Rows : db'[d][r] = IF r \in todo THEN page[r].val ELSE db[d][r]
               /\ \A n \in Nodes \ {d} : db'[n] = db[n]
               /\ instant' = instant \ ({d} \X Rows)
               /\ \/ /\ since' = [since EXCEPT ![d] = cycle[d].next]
                     /\ cycle' = [cycle EXCEPT ![d].phase = IF cycle[d].more THEN "pull" ELSE "push"]
                  \/ since' = since /\ cycle' = [cycle EXCEPT ![d] = Idle]
               /\ UNCHANGED <<log, pushed, clock, edits>>
<1> USE SyncAssumption
<1> DEFINE page == cycle[d].page
           due  == Due(d, page, TRUE)
           todo == due \ (IF Orphan(d, page, due) THEN {Child} ELSE {})
           done == Applied(d, page, d, TRUE)
<1>1. d \in Nodes /\ page \in [Rows -> Entry \cup {None}] /\ cycle[d] \in Job
  BY DEF Nodes, SyncType, Job
<1>2. due \subseteq Rows /\ \A r \in due : page[r] \in Entry
  BY <1>1 DEF Due
<1>3. done.db = [r \in Rows |-> IF r \in todo THEN page[r].val ELSE db[d][r]]
  <2>1. Writes(done, d, page, d, due)
    BY <1>1, PageApplied
  <2> QED
    BY <2>1 DEF Writes
<1> HIDE DEF todo, due
<1>4. db' = [db EXCEPT ![d] = [r \in Rows |-> IF r \in todo THEN page[r].val ELSE db[d][r]]]
  BY <1>3 DEF ApplyPull
<1>5. \A r \in todo : page[r].val \in Version
  BY <1>2, EntryTypes DEF todo
<1>6. db' \in [Nodes -> [Rows -> Version \cup {Absent}]]
  BY <1>1, <1>4, <1>5 DEF SyncType
<1>7. /\ \A r \in Rows : db'[d][r] = IF r \in todo THEN page[r].val ELSE db[d][r]
      /\ \A n \in Nodes \ {d} : db'[n] = db[n]
  BY <1>1, <1>4 DEF SyncType
<1>8. /\ instant' = instant \ ({d} \X Rows)
      /\ UNCHANGED <<log, pushed, clock, edits>> /\ cycle[d].phase = "apply"
  BY DEF ApplyPull, Aware
<1>9. \/ /\ since' = [since EXCEPT ![d] = cycle[d].next]
         /\ cycle' = [cycle EXCEPT ![d].phase = IF cycle[d].more THEN "pull" ELSE "push"]
      \/ since' = since /\ cycle' = [cycle EXCEPT ![d] = Idle]
  BY DEF ApplyPull, Goto, Stop
<1>10. Idle \in Job /\ [cycle[d] EXCEPT !.phase = IF cycle[d].more THEN "pull" ELSE "push"] \in Job
  BY <1>1 DEF Job, Idle, Phase, NoPage
<1>11. cycle' \in [Devices -> Job] /\ since' \in [Devices -> Nat]
  <2>1. cycle[d].next \in Nat /\ since \in [Devices -> Nat] /\ cycle \in [Devices -> Job]
    BY <1>1 DEF SyncType, Job
  <2>2. since' \in [Devices -> Nat]
    BY <1>9, <2>1
  <2>3. cycle' \in [Devices -> Job]
    BY <1>9, <1>10, <2>1
  <2> QED
    BY <2>2, <2>3
<1>12. SyncType'
  BY <1>6, <1>8, <1>11 DEF SyncType
<1> QED
  BY <1>2, <1>7, <1>8, <1>9, <1>12 DEF due, todo

LEMMA ReadPushDoes ==
    ASSUME ServerInv, NEW d \in Devices, ReadPush(d)
    PROVE  LET next == cycle'[d].next IN
           /\ SyncType' /\ cycle[d].phase = "push" /\ cycle'[d].phase = "send"
           /\ pushed[d] <= next /\ next <= Len(log[d])
           /\ cycle'[d].from = cycle[d].from
           /\ Tells(cycle'[d].page, log[d], pushed[d] + 1 .. next)
           /\ \A c \in Devices \ {d} : cycle'[c] = cycle[c]
           /\ UNCHANGED <<db, log, since, pushed, clock, edits, instant>>
<1> USE SyncAssumption
<1> DEFINE upto   == SmallerOf(pushed[d] + PushPage, Len(log[d]))
           places == pushed[d] + 1 .. upto
           job    == [phase |-> "send", next |-> upto, page |-> Compact(log[d], places),
                      more |-> upto - pushed[d] = PushPage, from |-> cycle[d].from]
<1>1. SyncType /\ d \in Nodes
  BY DEF ServerInv, Nodes
<1>2. pushed[d] \in Nat /\ cycle[d] \in Job
  BY <1>1 DEF SyncType
<1>3. log[d] \in Seq(Entry) /\ Len(log[d]) \in Nat /\ DOMAIN log[d] = 1 .. Len(log[d])
  BY <1>1, LogTypes
<1>4. pushed[d] <= Len(log[d])
  BY DEF ServerInv, PushesSound, PushSound
<1>5. upto \in Nat /\ pushed[d] <= upto /\ upto <= Len(log[d])
  BY <1>2, <1>3, <1>4 DEF SmallerOf
<1>6. places \in SUBSET DOMAIN log[d]
  BY <1>2, <1>3, <1>5
<1>7. clock \in Nat /\ \A i \in DOMAIN log[d] : log[d][i].ts <= clock
  BY <1>1 DEF ServerInv, InPast, SyncType
<1>8. /\ Tells(Compact(log[d], places), log[d], places)
      /\ Compact(log[d], places) \in [Rows -> Entry \cup {None}]
  BY <1>3, <1>6, <1>7, CompactTells
<1> HIDE DEF upto
<1>9. job \in Job
  BY <1>2, <1>5, <1>8 DEF Job, Phase
<1>10. cycle' = [cycle EXCEPT ![d] = job] /\ UNCHANGED <<db, log, since, pushed, clock, edits, instant>>
       /\ cycle[d].phase = "push"
  BY DEF ReadPush, upto
<1>11. cycle'[d] = job /\ \A c \in Devices \ {d} : cycle'[c] = cycle[c]
  BY <1>1, <1>10 DEF SyncType
<1>12. SyncType'
  BY <1>1, <1>9, <1>10 DEF SyncType
<1> HIDE DEF job
<1>13. /\ cycle'[d].phase = "send" /\ cycle'[d].next = upto /\ cycle'[d].from = cycle[d].from
       /\ cycle'[d].page = Compact(log[d], places)
  BY <1>11 DEF job
<1> QED
  BY <1>5, <1>8, <1>10, <1>11, <1>12, <1>13

\* What the clean-up leaves of log s: the same entries, the young ones kept.
Cleaned(s, t, upto) ==
    /\ DOMAIN t = DOMAIN s
    /\ \A i \in DOMAIN s :
          /\ Same(t[i], s[i])
          /\ s[i].kept /\ ~ t[i].kept => i <= upto /\ ~ (s[i].ts + Retention >= clock)

LEMMA PruneCleans ==
    ASSUME SyncType, NEW d \in Devices, NEW upto \in Nat
    PROVE  Pruned(d, upto) \in Seq(Entry) /\ Cleaned(log[d], Pruned(d, upto), upto)
<1> USE SyncAssumption
<1> DEFINE s == log[d]
           t == Pruned(d, upto)
           Left(i) == s[i].kept /\ (i > upto \/ s[i].ts + Retention >= clock)
<1>1. s \in Seq(Entry) /\ Len(s) \in Nat /\ DOMAIN s = 1 .. Len(s) /\ \A i \in DOMAIN s : s[i] \in Entry
  BY LogTypes DEF Nodes
<1>2. DOMAIN t = DOMAIN s /\ \A i \in DOMAIN s : t[i] = [s[i] EXCEPT !.kept = Left(i)]
  BY DEF Pruned
<1>3. clock \in Nat /\ \A i \in DOMAIN s : i \in Nat /\ s[i].ts \in Nat /\ s[i].kept \in BOOLEAN
  BY <1>1, EntryTypes DEF SyncType
<1>4. \A i \in DOMAIN s : Left(i) \in BOOLEAN
  BY <1>3
<1>5. \A i \in DOMAIN s : t[i] \in Entry /\ Same(t[i], s[i]) /\ (t[i].kept <=> Left(i))
  <2> TAKE i \in DOMAIN s
  <2>1. s[i] \in Entry /\ Left(i) \in BOOLEAN
    BY <1>1, <1>4
  <2> HIDE DEF Left
  <2>2. t[i] = [s[i] EXCEPT !.kept = Left(i)]
    BY <1>2
  <2>3. PICK e \in Entry : e = s[i]
    BY <2>1
  <2>4. PICK k \in BOOLEAN : k = Left(i)
    BY <2>1
  <2>5. t[i] = [e EXCEPT !.kept = k]
    BY <2>2, <2>3, <2>4
  <2>6. t[i] \in Entry /\ Same(t[i], e) /\ t[i].kept = k
    BY <2>5 DEF Entry, Same
  <2> QED
    BY <2>3, <2>4, <2>6
<1>6. t \in Seq(Entry)
  <2>1. t = [i \in 1 .. Len(s) |-> t[i]]
    BY <1>1, <1>2 DEF Pruned
  <2>2. t \in [1 .. Len(s) -> Entry]
    BY <1>1, <1>5, <2>1
  <2> QED
    BY <1>1, <2>2, SeqDef
<1>7. \A i \in DOMAIN s : s[i].kept /\ ~ t[i].kept => i <= upto /\ ~ (s[i].ts + Retention >= clock)
  BY <1>3, <1>5
<1> QED
  BY <1>2, <1>5, <1>6, <1>7 DEF Cleaned

LEMMA PushDoes ==
    ASSUME ServerInv, NEW d \in Devices, ApplyPush(d)
    PROVE  LET page == cycle[d].page
               due  == Due(Server, page, FALSE)
               E(r) == Logged(r, page[r].val, page[r].ts, d)
               old  == log[Server]
               new  == log'[Server]
           IN  /\ SyncType' /\ cycle[d].phase = "send"
               /\ due \subseteq Rows /\ \A r \in due : page[r] \in Entry
               /\ \A r \in Rows : db'[Server][r] = IF r \in due THEN page[r].val ELSE db[Server][r]
               /\ \A n \in Nodes \ {Server} : db'[n] = db[n]
               /\ Len(old) \in Nat /\ Len(new) \in Nat /\ Len(old) <= Len(new)
               /\ DOMAIN old = 1 .. Len(old) /\ DOMAIN new = 1 .. Len(new)
               /\ \A i \in DOMAIN old : new[i] = old[i]
               /\ \A i \in Len(old) + 1 .. Len(new) : \E r \in due : new[i] = E(r)
               /\ \A r \in due : \E i \in Len(old) + 1 .. Len(new) : new[i] = E(r)
               /\ \A i, j \in Len(old) + 1 .. Len(new) : i < j => new[i].row # new[j].row
               /\ \A n \in Nodes \ {Server, d} : log'[n] = log[n]
               /\ Cleaned(log[d], log'[d], cycle[d].next)
               /\ instant' = instant \ ({Server} \X Rows)
               /\ pushed' = [pushed EXCEPT ![d] = cycle[d].next] \/ pushed' = pushed
               /\ \/ cycle' = [cycle EXCEPT ![d] = Idle]
                  \/ cycle' = [cycle EXCEPT ![d].phase = "push"] /\ pushed' = [pushed EXCEPT ![d] = cycle[d].next]
               /\ UNCHANGED <<since, clock, edits>>
<1> USE SyncAssumption
<1> DEFINE page == cycle[d].page
           next == cycle[d].next
           due  == Due(Server, page, FALSE)
           E(r) == Logged(r, page[r].val, page[r].ts, d)
           done == Applied(Server, page, d, FALSE)
           old  == log[Server]
           at   == old \o done.log
<1>1. SyncType /\ Server \in Nodes /\ d \in Nodes /\ d # Server
  BY DEF ServerInv, Nodes
<1>2. page \in [Rows -> Entry \cup {None}] /\ cycle[d] \in Job /\ next \in Nat
  BY <1>1 DEF SyncType, Job
<1>3. due \subseteq Rows /\ \A r \in due : page[r] \in Entry
  BY <1>2 DEF Due
<1>4. ~ Orphan(Server, page, due)
  <2>1. PICK i \in DOMAIN log[Server] : db[Server][Parent] = log[Server][i].val
    BY DEF ServerInv, ServerHolds, Rows
  <2>2. db[Server][Parent] # Absent
    BY <1>1, <2>1, LogTypes, EntryTypes
  <2> QED
    BY <2>2 DEF Orphan
<1>5. /\ done.lost = {}
      /\ done.db = [r \in Rows |-> IF r \in due THEN page[r].val ELSE db[Server][r]]
      /\ done.log = One(Parent, due, E(Parent)) \o One(Child, due, E(Child))
  <2>1. Writes(done, Server, page, d, due)
    BY <1>1, <1>2, PageApplied
  <2>2. due \ done.lost = due
    BY <1>4, <2>1 DEF Writes
  <2> QED
    BY <1>4, <2>1, <2>2 DEF Writes, Stamped
<1> HIDE DEF due
<1>6. \A r \in due : E(r) \in Entry /\ E(r).row = r
  <2> TAKE r \in due
  <2>1. page[r] \in Entry /\ r \in Rows
    BY <1>3
  <2>2. page[r].val \in Version /\ page[r].ts \in Nat
    BY <2>1, EntryTypes
  <2> QED
    BY <1>1, <2>1, <2>2 DEF Entry, Logged
<1>7. old \in Seq(Entry) /\ Len(old) \in Nat /\ DOMAIN old = 1 .. Len(old)
  BY <1>1, LogTypes
<1>8. /\ at \in Seq(Entry) /\ Len(old) <= Len(at) /\ DOMAIN at = 1 .. Len(at)
      /\ \A i \in 1 .. Len(old) : at[i] = old[i]
      /\ \A i \in Len(old) + 1 .. Len(at) :
            (Parent \in due /\ at[i] = E(Parent)) \/ (Child \in due /\ at[i] = E(Child))
      /\ Parent \in due => \E i \in Len(old) + 1 .. Len(at) : at[i] = E(Parent)
      /\ Child \in due => \E i \in Len(old) + 1 .. Len(at) : at[i] = E(Child)
      /\ \A i, j \in Len(old) + 1 .. Len(at) :
            i < j => Parent \in due /\ Child \in due /\ at[i] = E(Parent) /\ at[j] = E(Child)
  <2>1. (Parent \in due => E(Parent) \in Entry) /\ (Child \in due => E(Child) \in Entry)
    BY <1>6
  <2>2. at = old \o (One(Parent, due, E(Parent)) \o One(Child, due, E(Child)))
    BY <1>5
  <2> HIDE DEF E, at
  <2>3. AddsTo(old, at, due, E(Parent), E(Child))
    BY <1>7, <2>1, <2>2, TwoAtMost
  <2> QED
    BY <2>3 DEF AddsTo
<1> HIDE DEF at, E
<1>9. \A i \in Len(old) + 1 .. Len(at) : \E r \in due : at[i] = E(r)
  BY <1>8
<1>10. \A r \in due : \E i \in Len(old) + 1 .. Len(at) : at[i] = E(r)
  BY <1>3, <1>8 DEF Rows
<1>11. \A i, j \in Len(old) + 1 .. Len(at) : i < j => at[i].row # at[j].row
  BY <1>6, <1>8
<1>12. /\ cycle[d].phase = "send" /\ db' = [db EXCEPT ![Server] = done.db]
       /\ instant' = instant \ ({Server} \X Rows) /\ UNCHANGED <<since, clock, edits>>
  BY DEF ApplyPush, Aware
<1>13. log' = [log EXCEPT ![Server] = at] \/ log' = [[log EXCEPT ![Server] = at] EXCEPT ![d] = Pruned(d, next)]
  BY DEF ApplyPush, at
<1>14. /\ pushed' = [pushed EXCEPT ![d] = next] \/ pushed' = pushed
       /\ \/ cycle' = [cycle EXCEPT ![d] = Idle]
          \/ cycle' = [cycle EXCEPT ![d].phase = "push"] /\ pushed' = [pushed EXCEPT ![d] = next]
  BY DEF ApplyPush, Goto, Stop
<1>15. Pruned(d, next) \in Seq(Entry) /\ Cleaned(log[d], Pruned(d, next), next)
  BY <1>1, <1>2, PruneCleans
<1>16. Cleaned(log[d], log[d], next)
  BY DEF Cleaned, Same
<1>17. log \in [Nodes -> Seq(Entry)]
  BY <1>1 DEF SyncType
<1>18. /\ log' \in [Nodes -> Seq(Entry)] /\ log'[Server] = at
       /\ \A n \in Nodes \ {Server, d} : log'[n] = log[n]
       /\ log'[d] = log[d] \/ log'[d] = Pruned(d, next)
  BY <1>1, <1>8, <1>13, <1>15, <1>17
<1>19. Cleaned(log[d], log'[d], next)
  BY <1>15, <1>16, <1>18
<1>20. \A r \in due : page[r].val \in Version
  BY <1>3, EntryTypes
<1>21. /\ db' \in [Nodes -> [Rows -> Version \cup {Absent}]]
       /\ \A r \in Rows : db'[Server][r] = IF r \in due THEN page[r].val ELSE db[Server][r]
       /\ \A n \in Nodes \ {Server} : db'[n] = db[n]
  <2>1. done.db \in [Rows -> Version \cup {Absent}]
    <3>1. db[Server] \in [Rows -> Version \cup {Absent}]
      BY <1>1 DEF SyncType
    <3> QED
      BY <1>5, <1>20, <3>1
  <2>2. db \in [Nodes -> [Rows -> Version \cup {Absent}]]
    BY <1>1 DEF SyncType
  <2>3. db' \in [Nodes -> [Rows -> Version \cup {Absent}]] /\ db'[Server] = done.db
        /\ \A n \in Nodes \ {Server} : db'[n] = db[n]
    BY <1>1, <1>12, <2>1, <2>2
  <2> QED
    BY <1>5, <2>3
<1>22. SyncType'
  <2>1. Idle \in Job /\ [cycle[d] EXCEPT !.phase = "push"] \in Job
    BY <1>2 DEF Job, Idle, Phase, NoPage
  <2>2. cycle' \in [Devices -> Job] /\ pushed' \in [Devices -> Nat]
    <3>1. cycle \in [Devices -> Job] /\ pushed \in [Devices -> Nat]
      BY <1>1 DEF SyncType
    <3>2. pushed' \in [Devices -> Nat]
      BY <1>2, <1>14, <3>1
    <3>3. cycle' = [cycle EXCEPT ![d] = Idle] \/ cycle' = [cycle EXCEPT ![d].phase = "push"]
      BY <1>14
    <3>4. cycle' \in [Devices -> Job]
      BY <2>1, <3>1, <3>3
    <3> QED
      BY <3>2, <3>4
  <2> QED
    BY <1>1, <1>12, <1>18, <1>21, <2>2 DEF SyncType
<1>23. Len(at) \in Nat
  BY <1>8, LenProperties
<1>24. /\ Len(log'[Server]) \in Nat /\ Len(old) <= Len(log'[Server])
       /\ DOMAIN log'[Server] = 1 .. Len(log'[Server])
       /\ \A i \in DOMAIN old : log'[Server][i] = old[i]
  BY <1>7, <1>8, <1>18, <1>23
<1>25. /\ \A i \in Len(old) + 1 .. Len(log'[Server]) : \E r \in due : log'[Server][i] = E(r)
       /\ \A r \in due : \E i \in Len(old) + 1 .. Len(log'[Server]) : log'[Server][i] = E(r)
       /\ \A i, j \in Len(old) + 1 .. Len(log'[Server]) : i < j => log'[Server][i].row # log'[Server][j].row
  BY <1>9, <1>10, <1>11, <1>18
<1> QED
  BY <1>3, <1>7, <1>12, <1>14, <1>18, <1>19, <1>21, <1>22, <1>24, <1>25 DEF due, E

LEMMA NothingToPushDoes ==
    ASSUME SyncType, NEW d \in Devices, NothingToPush(d)
    PROVE  /\ SyncType' /\ cycle[d].phase = "push"
           /\ Cleaned(log[d], log'[d], pushed[d]) /\ \A n \in Nodes \ {d} : log'[n] = log[n]
           /\ cycle' = [cycle EXCEPT ![d] = Idle]
           /\ UNCHANGED <<db, since, pushed, clock, edits, instant>>
<1> USE SyncAssumption
<1>1. pushed[d] \in Nat /\ d \in Nodes /\ log \in [Nodes -> Seq(Entry)]
  BY DEF SyncType, Nodes
<1>2. Pruned(d, pushed[d]) \in Seq(Entry) /\ Cleaned(log[d], Pruned(d, pushed[d]), pushed[d])
  BY <1>1, PruneCleans
<1>3. /\ log' = [log EXCEPT ![d] = Pruned(d, pushed[d])] /\ cycle' = [cycle EXCEPT ![d] = Idle]
      /\ UNCHANGED <<db, since, pushed, clock, edits, instant>> /\ cycle[d].phase = "push"
  BY DEF NothingToPush, Stop
<1>4. Idle \in Job
  BY DEF Job, Idle, Phase, NoPage
<1>5. SyncType'
  BY <1>1, <1>2, <1>3, <1>4 DEF SyncType
<1> QED
  BY <1>1, <1>2, <1>3, <1>5

LEMMA CutOffDoes ==
    ASSUME SyncType, NEW d \in Devices, CutOff(d)
    PROVE  /\ SyncType' /\ cycle' = [cycle EXCEPT ![d] = Idle]
           /\ UNCHANGED <<db, log, since, pushed, clock, edits, instant>>
<1>1. Idle \in Job
  BY DEF Job, Idle, Phase, NoPage
<1> QED
  BY <1>1 DEF CutOff, Stop, SyncType

-----------------------------------------------------------------------------
(* Logs only grow, so what was found in them stays there *)

LogsGrow == \A n \in Nodes : Extends(log[n], log'[n]) /\ Len(log[n]) <= Len(log'[n])

LEMMA CoveredStays ==
    ASSUME NEW s, NEW t, Extends(s, t), NEW e, NEW f, e.row = f.row, e.ts = f.ts,
           NEW p, NEW q, \A i \in DOMAIN s : i <= p => i <= q, Covered(s, e, p)
    PROVE  Covered(t, f, q)
<1>1. PICK j \in DOMAIN s : j <= p /\ s[j].row = e.row /\ e.ts <= s[j].ts
  BY DEF Covered
<1>2. j \in DOMAIN t /\ t[j].row = s[j].row /\ t[j].ts = s[j].ts
  BY DEF Extends, Same
<1> QED
  BY <1>1, <1>2 DEF Covered

LEMMA TellsStays ==
    ASSUME NEW s, NEW t, Extends(s, t), NEW page, NEW places \in SUBSET DOMAIN s, Tells(page, s, places)
    PROVE  Tells(page, t, places)
<1>1. \A i \in places : t[i].row = s[i].row /\ t[i].ts = s[i].ts /\ t[i].val = s[i].val /\ t[i].origin = s[i].origin
  BY DEF Extends, Same
<1> QED
  BY <1>1 DEF Tells, Same

LEMMA CleanedExtends ==
    ASSUME NEW s, NEW t, NEW p, Cleaned(s, t, p)
    PROVE  Extends(s, t)
  BY DEF Cleaned, Extends

LEMMA LogIsItself == ASSUME NEW s PROVE Extends(s, s)
  BY DEF Extends, Same

LEMMA SameEnd ==
    ASSUME NEW s \in Seq(Entry), NEW t \in Seq(Entry), DOMAIN s \subseteq DOMAIN t
    PROVE  Len(s) <= Len(t)
<1>1. DOMAIN s = 1 .. Len(s) /\ DOMAIN t = 1 .. Len(t) /\ Len(s) \in Nat /\ Len(t) \in Nat
  BY LenProperties
<1>2. CASE Len(s) = 0
  BY <1>1, <1>2
<1>3. CASE Len(s) # 0
  <2>1. Len(s) \in 1 .. Len(s)
    BY <1>1, <1>3
  <2> QED
    BY <1>1, <2>1
<1> QED
  BY <1>2, <1>3

LEMMA PushStays ==
    ASSUME SyncType, SyncType', LogsGrow, NEW d \in Devices, PushSound(d), pushed'[d] = pushed[d],
           cycle'[d].phase = "send" => cycle'[d] = cycle[d]
    PROVE  PushSound(d)'
<1>1. d \in Nodes /\ Server \in Nodes /\ pushed[d] \in Nat /\ cycle[d].next \in Nat
  BY DEF Nodes, SyncType, Job
<1>2. /\ Len(log[d]) \in Nat /\ DOMAIN log[d] = 1 .. Len(log[d])
      /\ Len(log[Server]) \in Nat /\ DOMAIN log[Server] = 1 .. Len(log[Server])
      /\ \A i \in DOMAIN log[d] : log[d][i].ts \in Nat
  BY <1>1, LogTypes, EntryTypes
<1>3. Len(log'[d]) \in Nat /\ Len(log'[Server]) \in Nat
  BY <1>1 DEF SyncType
<1>4. /\ Extends(log[d], log'[d]) /\ Len(log[d]) <= Len(log'[d])
      /\ Extends(log[Server], log'[Server]) /\ Len(log[Server]) <= Len(log'[Server])
  BY <1>1 DEF LogsGrow
<1>5. pushed'[d] <= Len(log'[d])
  BY <1>1, <1>2, <1>3, <1>4 DEF PushSound
<1>6. ASSUME NEW i \in 1 .. pushed'[d]
      PROVE  Covered(log'[Server], log'[d][i], Len(log'[Server]))
  <2>1. i \in DOMAIN log[d] /\ Covered(log[Server], log[d][i], Len(log[Server]))
    BY <1>1, <1>2 DEF PushSound
  <2>2. log'[d][i].row = log[d][i].row /\ log'[d][i].ts = log[d][i].ts
    BY <1>4, <2>1 DEF Extends, Same
  <2>3. \A j \in DOMAIN log[Server] : j <= Len(log[Server]) => j <= Len(log'[Server])
    BY <1>2, <1>3, <1>4
  <2> QED
    BY <1>4, <2>1, <2>2, <2>3, CoveredStays
<1>7. ASSUME cycle'[d].phase = "send"
      PROVE  /\ pushed'[d] <= cycle'[d].next /\ cycle'[d].next <= Len(log'[d])
             /\ Tells(cycle'[d].page, log'[d], pushed'[d] + 1 .. cycle'[d].next)
  <2>1. cycle'[d] = cycle[d]
    BY <1>7
  <2>2. /\ pushed[d] <= cycle[d].next /\ cycle[d].next <= Len(log[d])
        /\ Tells(cycle[d].page, log[d], pushed[d] + 1 .. cycle[d].next)
    BY <1>7, <2>1 DEF PushSound
  <2>3. pushed[d] + 1 .. cycle[d].next \in SUBSET DOMAIN log[d]
    BY <1>1, <1>2, <2>2
  <2>4. Tells(cycle[d].page, log'[d], pushed[d] + 1 .. cycle[d].next)
    BY <1>4, <2>2, <2>3, TellsStays
  <2> QED
    BY <1>1, <1>2, <1>3, <1>4, <2>1, <2>2, <2>4
<1> QED
  BY <1>5, <1>6, <1>7 DEF PushSound

\* A step that writes no log, nor the server's rows, nor sends another page.
LEMMA QuietForServer ==
    ASSUME ServerInv, SyncType', UNCHANGED <<log, pushed, clock, edits>>, db'[Server] = db[Server],
           instant' \subseteq instant,
           \A d \in Devices : cycle'[d].phase = "send" => cycle'[d] = cycle[d]
    PROVE  ServerInv'
<1>1. InPast' /\ LogsRise' /\ ServerHolds'
  BY DEF ServerInv, InPast, LogsRise, ServerHolds
<1>2. WritesLater'
  BY DEF ServerInv, WritesLater
<1>3. LogsGrow
  <2>1. \A n \in Nodes : Len(log[n]) \in Nat
    BY LogTypes DEF ServerInv
  <2> QED
    BY <2>1, LogIsItself DEF LogsGrow
<1>4. PushesSound'
  BY <1>3, PushStays DEF ServerInv, PushesSound
<1> QED
  BY <1>1, <1>2, <1>4 DEF ServerInv

-----------------------------------------------------------------------------
(* The server's part of the invariant *)

LEMMA EditForServer ==
    ASSUME NoDeletes, ServerInv, NEW n \in Nodes, NEW r \in Rows,
           NEW t \in clock .. clock + 1, NEW val \in {edits + 1, Absent}, Edit(n, r, t, val)
    PROVE  ServerInv' /\ LogsGrow
<1> DEFINE e == Logged(r, edits + 1, t, n)
           k == Len(log[n])
<1>1. /\ edits' = edits + 1 /\ clock' = t /\ t \in Nat /\ clock <= t /\ edits \in Nat /\ clock \in Nat
      /\ t = clock => <<n, r>> \in instant
      /\ e \in Entry /\ log'[n] = Append(log[n], e) /\ SyncType /\ SyncType'
      /\ \A m \in Nodes \ {n} : log'[m] = log[m]
      /\ \A m \in Nodes, q \in Rows : db'[m][q] = IF m = n /\ q = r THEN edits + 1 ELSE db[m][q]
      /\ \A m \in Nodes, q \in Rows : <<m, q>> \in instant' =>
            <<m, q>> # <<n, r>> /\ (t = clock => <<m, q>> \in instant)
      /\ UNCHANGED <<since, pushed, cycle>>
  <2>1. SyncType /\ WritesVersion(n, r, t)
    BY EditDoes DEF ServerInv
  <2> QED
    BY <2>1 DEF WritesVersion
<1>2. e.row = r /\ e.val = edits + 1 /\ e.ts = t /\ e.kept
  BY DEF Logged
<1> HIDE DEF e
<1>3. log[n] \in Seq(Entry) /\ k \in Nat /\ DOMAIN log[n] = 1 .. k
  BY <1>1, LogTypes
<1>4. /\ DOMAIN log'[n] = 1 .. k + 1 /\ Len(log'[n]) = k + 1
      /\ \A i \in 1 .. k : log'[n][i] = log[n][i]
      /\ log'[n][k + 1] = e
  BY <1>1, <1>3, OneMore
<1> HIDE DEF k
<1>5. /\ \A i \in DOMAIN log[n] : i \in 1 .. k /\ log'[n][i] = log[n][i]
      /\ \A i \in DOMAIN log'[n] : i \in DOMAIN log[n] \/ i = k + 1
      /\ DOMAIN log[n] \subseteq DOMAIN log'[n] /\ k + 1 \in DOMAIN log'[n]
  BY <1>3, <1>4
<1>6. LogsGrow
  <2>1. Extends(log[n], log'[n]) /\ Len(log[n]) <= Len(log'[n])
    BY <1>3, <1>4, <1>5 DEF Extends, Same, k
  <2>2. \A m \in Nodes \ {n} : Extends(log[m], log'[m]) /\ Len(log[m]) <= Len(log'[m])
    <3>1. \A m \in Nodes : Len(log[m]) \in Nat
      BY <1>1, LogTypes
    <3> QED
      BY <1>1, <3>1, LogIsItself
  <2> QED
    BY <2>1, <2>2 DEF LogsGrow
<1>7. \A m \in Nodes : \A i \in DOMAIN log[m] :
          /\ log[m][i].ts <= clock /\ log[m][i].val <= edits
          /\ log[m][i].ts \in Nat /\ log[m][i].val \in Nat
  BY <1>1, LogTypes, EntryTypes DEF ServerInv, InPast
<1>8. InPast'
  <2>1. ASSUME NEW m \in Nodes, NEW i \in DOMAIN log[m]
        PROVE  log[m][i].ts <= t /\ log[m][i].val <= edits + 1
    BY <1>1, <1>7
  <2>2. e.ts <= t /\ e.val <= edits + 1
    BY <1>1, <1>2
  <2>3. \A i \in DOMAIN log'[n] : log'[n][i].ts <= t /\ log'[n][i].val <= edits + 1
    BY <1>4, <1>5, <2>1, <2>2
  <2>4. \A m \in Nodes \ {n} : \A i \in DOMAIN log'[m] : log'[m][i].ts <= t /\ log'[m][i].val <= edits + 1
    BY <1>1, <2>1
  <2> QED
    BY <1>1, <2>3, <2>4 DEF InPast
<1>9. ASSUME NEW i \in DOMAIN log[n], log[n][i].row = r
      PROVE  log[n][i].ts < t
  <2>1. CASE t = clock
    BY <1>1, <1>9, <2>1 DEF ServerInv, WritesLater
  <2>2. CASE t # clock
    BY <1>1, <1>7, <2>2
  <2> QED
    BY <2>1, <2>2
<1>10. LogsRise'
  <2>1. ASSUME NEW i \in DOMAIN log'[n], NEW j \in DOMAIN log'[n], i < j, log'[n][i].row = log'[n][j].row
        PROVE  log'[n][i].ts < log'[n][j].ts
    <3>1. CASE j \in DOMAIN log[n]
      <4>1. i \in DOMAIN log[n]
        BY <1>3, <1>4, <1>5, <2>1, <3>1
      <4> QED
        BY <1>5, <2>1, <3>1, <4>1 DEF ServerInv, LogsRise, Rises
    <3>2. CASE j = k + 1
      <4>1. i \in DOMAIN log[n]
        BY <1>3, <1>5, <2>1, <3>2
      <4> QED
        BY <1>2, <1>4, <1>5, <1>9, <2>1, <3>2, <4>1
    <3> QED
      BY <1>5, <3>1, <3>2
  <2>2. \A m \in Nodes \ {n} : Rises(log'[m])
    BY <1>1 DEF ServerInv, LogsRise
  <2> QED
    BY <2>1, <2>2 DEF LogsRise, Rises
<1>11. WritesLater'
  <2>1. ASSUME NEW m \in Nodes, NEW q \in Rows, <<m, q>> \in instant', NEW i \in DOMAIN log'[m], log'[m][i].row = q
        PROVE  log'[m][i].ts < t
    <3>1. i \in DOMAIN log[m] /\ log'[m][i] = log[m][i]
      BY <1>1, <1>2, <1>4, <1>5, <2>1
    <3>2. CASE t = clock
      BY <1>1, <2>1, <3>1, <3>2 DEF ServerInv, WritesLater
    <3>3. CASE t # clock
      BY <1>1, <1>7, <3>1, <3>3
    <3> QED
      BY <3>2, <3>3
  <2> QED
    BY <1>1, <2>1 DEF WritesLater
<1>12. ServerHolds'
  <2>1. Server \in Nodes
    BY DEF Nodes
  <2>2. CASE n # Server
    <3>1. log'[Server] = log[Server] /\ \A q \in Rows : db'[Server][q] = db[Server][q]
      BY <1>1, <2>1, <2>2
    <3> QED
      BY <3>1 DEF ServerInv, ServerHolds
  <2>3. CASE n = Server
    <3>1. \A i \in DOMAIN log'[Server] : log'[Server][i].kept
      BY <1>2, <1>4, <1>5, <2>3 DEF ServerInv, ServerHolds
    <3>2. ASSUME NEW q \in Rows
          PROVE  \E i \in DOMAIN log'[Server] :
                    /\ log'[Server][i].row = q /\ db'[Server][q] = log'[Server][i].val
                    /\ \A j \in DOMAIN log'[Server] : log'[Server][j].row = q => j <= i
      <4>1. CASE q = r
        <5>1. \A j \in DOMAIN log'[Server] : j <= k + 1
          BY <1>3, <1>4, <2>3
        <5>2. log'[Server][k + 1].row = q /\ db'[Server][q] = log'[Server][k + 1].val
          BY <1>1, <1>2, <1>4, <2>1, <2>3, <4>1
        <5> QED
          BY <1>5, <2>3, <5>1, <5>2
      <4>2. CASE q # r
        <5>1. PICK i \in DOMAIN log[Server] :
                 /\ log[Server][i].row = q /\ db[Server][q] = log[Server][i].val
                 /\ \A j \in DOMAIN log[Server] : log[Server][j].row = q => j <= i
          BY DEF ServerInv, ServerHolds
        <5>2. db'[Server][q] = db[Server][q]
          BY <1>1, <2>1, <4>2
        <5>3. \A j \in DOMAIN log'[Server] : log'[Server][j].row = q => j \in DOMAIN log[Server] /\ log[Server][j].row = q
          BY <1>2, <1>4, <1>5, <2>3, <4>2
        <5> QED
          BY <1>5, <2>3, <5>1, <5>2, <5>3
      <4> QED
        BY <4>1, <4>2
    <3> QED
      BY <3>1, <3>2 DEF ServerHolds
  <2> QED
    BY <2>2, <2>3
<1>13. PushesSound'
  BY <1>1, <1>6, PushStays DEF ServerInv, PushesSound
<1> QED
  BY <1>1, <1>6, <1>8, <1>10, <1>11, <1>12, <1>13 DEF ServerInv

LEMMA PushForServer ==
    ASSUME ServerInv, NEW d \in Devices, ApplyPush(d)
    PROVE  ServerInv' /\ LogsGrow
<1> USE SyncAssumption
<1> DEFINE page == cycle[d].page
           due  == Due(Server, page, FALSE)
           E(r) == Logged(r, page[r].val, page[r].ts, d)
           old  == log[Server]
           new  == log'[Server]
           k    == Len(old)
<1>1. /\ SyncType /\ SyncType' /\ cycle[d].phase = "send"
      /\ due \subseteq Rows /\ \A r \in due : page[r] \in Entry
      /\ \A r \in Rows : db'[Server][r] = IF r \in due THEN page[r].val ELSE db[Server][r]
      /\ k \in Nat /\ Len(new) \in Nat /\ k <= Len(new) /\ DOMAIN old = 1 .. k /\ DOMAIN new = 1 .. Len(new)
      /\ \A i \in DOMAIN old : new[i] = old[i]
      /\ \A i \in k + 1 .. Len(new) : \E r \in due : new[i] = E(r)
      /\ \A r \in due : \E i \in k + 1 .. Len(new) : new[i] = E(r)
      /\ \A i, j \in k + 1 .. Len(new) : i < j => new[i].row # new[j].row
      /\ \A n \in Nodes \ {Server, d} : log'[n] = log[n]
      /\ Cleaned(log[d], log'[d], cycle[d].next)
      /\ instant' = instant \ ({Server} \X Rows)
      /\ pushed' = [pushed EXCEPT ![d] = cycle[d].next] \/ pushed' = pushed
      /\ cycle' = [cycle EXCEPT ![d] = Idle] \/ cycle' = [cycle EXCEPT ![d].phase = "push"]
      /\ UNCHANGED <<since, clock, edits>>
  BY PushDoes DEF ServerInv
<1>2. Server \in Nodes /\ d \in Nodes /\ d # Server
  BY DEF Nodes
<1>3. clock \in Nat /\ edits \in Nat
  BY <1>1 DEF SyncType, Version
\* What the device sends comes from its log.
<1>4. /\ pushed[d] \in Nat /\ cycle[d].next \in Nat /\ pushed[d] <= cycle[d].next /\ cycle[d].next <= Len(log[d])
      /\ Tells(page, log[d], pushed[d] + 1 .. cycle[d].next)
      /\ Len(log[d]) \in Nat /\ DOMAIN log[d] = 1 .. Len(log[d])
  BY <1>1, <1>2, LogTypes DEF ServerInv, PushesSound, PushSound, SyncType, Job
<1>5. \A r \in due : /\ page[r].row = r /\ page[r].ts \in Nat /\ page[r].val \in Nat
                     /\ page[r].ts <= clock /\ page[r].val <= edits
  <2> TAKE r \in due
  <2>1. page[r] # None /\ r \in Rows /\ page[r].ts \in Nat /\ page[r].val \in Nat
    BY <1>1, EntryTypes
  <2>2. page[r].row = r /\ \E i \in pushed[d] + 1 .. cycle[d].next : Same(page[r], log[d][i])
    BY <1>4, <2>1 DEF Tells
  <2>3. PICK i \in pushed[d] + 1 .. cycle[d].next : Same(page[r], log[d][i])
    BY <2>2
  <2>4. i \in DOMAIN log[d]
    BY <1>4
  <2>5. log[d][i].ts <= clock /\ log[d][i].val <= edits
    BY <1>2, <2>4 DEF ServerInv, InPast
  <2> QED
    BY <2>1, <2>2, <2>3, <2>5 DEF Same
\* It is newer than what the server has.
<1>6. \A r \in due : \A i \in DOMAIN old : old[i].row = r => old[i].ts < page[r].ts
  <2> TAKE r \in due
  <2> TAKE i \in DOMAIN old
  <2>1. ~ Outdated(Server, page[r], FALSE) /\ page[r].row = r
    BY <1>5 DEF Due
  <2>2. old[i].kept /\ old[i].ts \in Nat /\ page[r].ts \in Nat
    BY <1>1, <1>2, <1>5, LogTypes, EntryTypes DEF ServerInv, ServerHolds
  <2>3. old[i].row = r => ~ (old[i].ts > page[r].ts) /\ ~ (old[i].ts = page[r].ts)
    BY <2>1, <2>2 DEF Outdated
  <2> QED
    BY <2>2, <2>3
<1>7. \A r \in due : E(r).row = r /\ E(r).val = page[r].val /\ E(r).ts = page[r].ts /\ E(r).kept
  BY DEF Logged
<1> HIDE DEF due, E
<1>8. \A i \in DOMAIN new : i \in DOMAIN old \/ (i \in k + 1 .. Len(new) /\ i \notin DOMAIN old)
  BY <1>1
<1>9. \A i \in k + 1 .. Len(new) : \E r \in due : new[i].row = r /\ new[i].val = page[r].val /\ new[i].ts = page[r].ts /\ new[i].kept
  <2> TAKE i \in k + 1 .. Len(new)
  <2>1. PICK r \in due : new[i] = E(r)
    BY <1>1
  <2>2. new[i].row = r /\ new[i].val = page[r].val /\ new[i].ts = page[r].ts /\ new[i].kept
    BY <1>7, <2>1
  <2> QED
    BY <2>2
<1>10. \A r \in due : \E i \in k + 1 .. Len(new) : new[i].row = r /\ new[i].val = page[r].val /\ new[i].ts = page[r].ts
  <2> TAKE r \in due
  <2>1. PICK i \in k + 1 .. Len(new) : new[i] = E(r)
    BY <1>1
  <2>2. new[i].row = r /\ new[i].val = page[r].val /\ new[i].ts = page[r].ts
    BY <1>7, <2>1
  <2> QED
    BY <2>2
<1>11. DOMAIN old \subseteq DOMAIN new /\ k + 1 .. Len(new) \subseteq DOMAIN new
  BY <1>1
<1>12. LogsGrow
  <2>1. Extends(old, new)
    BY <1>1, <1>11 DEF Extends, Same
  <2>2. Extends(log[d], log'[d])
    BY <1>1, CleanedExtends
  <2>3. log[d] \in Seq(Entry) /\ log'[d] \in Seq(Entry)
    BY <1>1, <1>2 DEF SyncType
  <2>4. Len(log[d]) <= Len(log'[d])
    BY <1>1, <2>3, SameEnd DEF Cleaned
  <2>5. \A n \in Nodes \ {Server, d} : Extends(log[n], log'[n]) /\ Len(log[n]) <= Len(log'[n])
    <3>1. \A n \in Nodes : Len(log[n]) \in Nat
      BY <1>1, LogTypes
    <3> QED
      BY <1>1, <3>1, LogIsItself
  <2> QED
    BY <1>1, <2>1, <2>2, <2>4, <2>5 DEF LogsGrow
\* The device's log: the same entries.
<1>13. DOMAIN log'[d] = DOMAIN log[d] /\ \A i \in DOMAIN log[d] : Same(log'[d][i], log[d][i])
  BY <1>1 DEF Cleaned
<1>14. InPast'
  <2>1. \A i \in DOMAIN new : new[i].ts <= clock /\ new[i].val <= edits
    <3>1. \A i \in DOMAIN old : new[i].ts <= clock /\ new[i].val <= edits
      BY <1>1, <1>2 DEF ServerInv, InPast
    <3>2. \A i \in k + 1 .. Len(new) : new[i].ts <= clock /\ new[i].val <= edits
      BY <1>5, <1>9
    <3> QED
      BY <1>8, <3>1, <3>2
  <2>2. \A i \in DOMAIN log'[d] : log'[d][i].ts <= clock /\ log'[d][i].val <= edits
    BY <1>2, <1>13 DEF ServerInv, InPast, Same
  <2>3. \A n \in Nodes \ {Server, d} : \A i \in DOMAIN log'[n] : log'[n][i].ts <= clock /\ log'[n][i].val <= edits
    BY <1>1 DEF ServerInv, InPast
  <2> QED
    BY <1>1, <2>1, <2>2, <2>3 DEF InPast
<1>15. LogsRise'
  <2>1. Rises(new)
    <3>1. ASSUME NEW i \in DOMAIN new, NEW j \in DOMAIN new, i < j, new[i].row = new[j].row
          PROVE  new[i].ts < new[j].ts
      <4>1. CASE j \in DOMAIN old
        <5>1. i \in DOMAIN old
          BY <1>1, <3>1, <4>1
        <5> QED
          BY <1>1, <1>2, <3>1, <4>1, <5>1 DEF ServerInv, LogsRise, Rises
      <4>2. CASE i \in DOMAIN old /\ j \in k + 1 .. Len(new)
        <5>1. PICK r \in due : new[j].row = r /\ new[j].ts = page[r].ts
          BY <1>9, <4>2
        <5>2. new[i] = old[i] /\ old[i].row = r
          BY <1>1, <3>1, <4>2, <5>1
        <5>3. old[i].ts < page[r].ts
          BY <1>6, <4>2, <5>2
        <5> QED
          BY <5>1, <5>2, <5>3
      <4>3. CASE i \in k + 1 .. Len(new) /\ j \in k + 1 .. Len(new)
        BY <1>1, <3>1, <4>3
      <4> QED
        BY <1>8, <4>1, <4>2, <4>3
    <3> QED
      BY <3>1 DEF Rises
  <2>2. Rises(log'[d])
    <3>1. Rises(log[d])
      BY <1>2 DEF ServerInv, LogsRise
    <3> QED
      BY <1>13, <3>1 DEF Rises, Same
  <2>3. \A n \in Nodes \ {Server, d} : Rises(log'[n])
    BY <1>1 DEF ServerInv, LogsRise
  <2> QED
    BY <2>1, <2>2, <2>3 DEF LogsRise
<1>16. WritesLater'
  <2>1. ASSUME NEW n \in Nodes, NEW r \in Rows, <<n, r>> \in instant', NEW i \in DOMAIN log'[n], log'[n][i].row = r
        PROVE  log'[n][i].ts < clock
    <3>1. n # Server /\ <<n, r>> \in instant
      BY <1>1, <2>1
    <3>2. i \in DOMAIN log[n] /\ log[n][i].row = r /\ log'[n][i].ts = log[n][i].ts
      BY <1>1, <1>13, <2>1, <3>1 DEF Same
    <3> QED
      BY <3>1, <3>2 DEF ServerInv, WritesLater
  <2> QED
    BY <1>1, <2>1 DEF WritesLater
<1>17. ServerHolds'
  <2>1. \A i \in DOMAIN new : new[i].kept
    <3>1. \A i \in DOMAIN old : new[i].kept
      BY <1>1 DEF ServerInv, ServerHolds
    <3>2. \A i \in k + 1 .. Len(new) : new[i].kept
      BY <1>9
    <3> QED
      BY <1>8, <3>1, <3>2
  <2>2. ASSUME NEW r \in Rows
        PROVE  \E i \in DOMAIN new : /\ new[i].row = r /\ db'[Server][r] = new[i].val
                                     /\ \A j \in DOMAIN new : new[j].row = r => j <= i
    <3>1. CASE r \in due
      <4>1. PICK i \in k + 1 .. Len(new) : new[i].row = r /\ new[i].val = page[r].val
        BY <1>10, <3>1
      <4>2. \A j \in DOMAIN new : new[j].row = r => j <= i
        <5>1. \A j \in k + 1 .. Len(new) : new[j].row = r => ~ (i < j)
          BY <1>1, <4>1
        <5>2. \A j \in DOMAIN new : j \in DOMAIN old \/ j \in k + 1 .. Len(new)
          BY <1>8
        <5>3. i \in Nat /\ k < i /\ \A j \in DOMAIN new : j \in Nat
          BY <1>1
        <5>4. \A j \in DOMAIN old : j <= k
          BY <1>1
        <5> QED
          BY <1>1, <5>1, <5>2, <5>3, <5>4
      <4> QED
        BY <1>1, <1>11, <3>1, <4>1, <4>2
    <3>2. CASE r \notin due
      <4>1. PICK i \in DOMAIN old : /\ old[i].row = r /\ db[Server][r] = old[i].val
                                    /\ \A j \in DOMAIN old : old[j].row = r => j <= i
        BY DEF ServerInv, ServerHolds
      <4>2. \A j \in DOMAIN new : new[j].row = r => j \in DOMAIN old /\ old[j].row = r
        <5>1. \A j \in k + 1 .. Len(new) : new[j].row # r
          BY <1>9, <3>2
        <5>2. \A j \in DOMAIN new : new[j].row = r => j \in DOMAIN old
          BY <1>8, <5>1
        <5> QED
          BY <1>1, <5>2
      <4> QED
        BY <1>1, <1>11, <3>2, <4>1, <4>2
    <3> QED
      BY <3>1, <3>2
  <2> QED
    BY <2>1, <2>2 DEF ServerHolds
<1>18. PushesSound'
  <2>1. \A c \in Devices \ {d} : pushed'[c] = pushed[c] /\ cycle'[c] = cycle[c]
    BY <1>1 DEF SyncType
  <2>2. \A c \in Devices \ {d} : PushSound(c)'
    BY <1>1, <1>12, <2>1, PushStays DEF ServerInv, PushesSound
  <2>3. cycle'[d].phase # "send"
    <3>1. cycle'[d] = Idle \/ cycle'[d] = [cycle[d] EXCEPT !.phase = "push"]
      BY <1>1 DEF SyncType
    <3>2. cycle[d] \in Job
      BY <1>1 DEF SyncType
    <3>3. Idle.phase = "idle" /\ [cycle[d] EXCEPT !.phase = "push"].phase = "push"
      BY <3>2 DEF Idle, Job
    <3> QED
      BY <3>1, <3>3
  <2>4. CASE pushed' = pushed
    <3>1. PushSound(d) /\ pushed'[d] = pushed[d]
      BY <2>4 DEF ServerInv, PushesSound
    <3>2. PushSound(d)'
      BY <1>1, <1>12, <2>3, <3>1, PushStays
    <3> QED
      BY <2>2, <3>2 DEF PushesSound
  <2>5. CASE pushed' = [pushed EXCEPT ![d] = cycle[d].next]
    <3>1. pushed'[d] = cycle[d].next
      BY <1>1, <2>5 DEF SyncType
    <3>2. Len(log'[d]) \in Nat /\ Len(log[d]) <= Len(log'[d]) /\ Extends(log[d], log'[d]) /\ Extends(old, new)
      BY <1>1, <1>2, <1>12, LogTypes DEF LogsGrow, SyncType
    <3>3. ASSUME NEW i \in 1 .. cycle[d].next
          PROVE  Covered(new, log'[d][i], Len(new))
      <4>1. i \in DOMAIN log[d] /\ log'[d][i].row = log[d][i].row /\ log'[d][i].ts = log[d][i].ts
        BY <1>4, <1>13 DEF Same
      <4>2. CASE i <= pushed[d]
        <5>1. Covered(old, log[d][i], k)
          BY <1>4, <4>2 DEF ServerInv, PushesSound, PushSound
        <5>2. \A j \in DOMAIN old : j <= k => j <= Len(new)
          BY <1>1
        <5> QED
          BY <3>2, <4>1, <5>1, <5>2, CoveredStays
      <4>3. CASE ~ (i <= pushed[d])
        <5> DEFINE r == log[d][i].row
        <5>1. r \in Rows /\ log[d][i].ts \in Nat
          BY <1>1, <1>2, <4>1, LogTypes, EntryTypes
        <5>2. page[r] # None /\ log[d][i].ts <= page[r].ts
          BY <1>4, <4>3 DEF Tells
        <5>3. page[r].row = r /\ page[r] \in Entry /\ page[r].ts \in Nat
          <6>1. page \in [Rows -> Entry \cup {None}]
            BY <1>1 DEF SyncType, Job
          <6>2. page[r] \in Entry
            BY <5>1, <5>2, <6>1
          <6>3. page[r].row = r
            BY <1>4, <5>1, <5>2 DEF Tells
          <6> QED
            BY <6>2, <6>3, EntryTypes
        <5> HIDE DEF r
        <5>4. CASE r \in due
          <6>1. PICK j \in k + 1 .. Len(new) : new[j].row = r /\ new[j].ts = page[r].ts
            BY <1>10, <5>4
          <6>2. j \in DOMAIN new /\ j <= Len(new)
            BY <1>1
          <6> QED
            BY <4>1, <5>2, <6>1, <6>2 DEF Covered, r
        <5>5. CASE r \notin due
          <6>1. Outdated(Server, page[r], FALSE)
            BY <5>1, <5>2, <5>5 DEF Due, due
          <6>2. PICK j \in DOMAIN old : old[j].row = r /\ (old[j].ts > page[r].ts \/ old[j].ts = page[r].ts)
            BY <5>3, <6>1 DEF Outdated
          <6>3. old[j].ts \in Nat
            BY <1>1, <1>2, LogTypes, EntryTypes
          <6>4. log[d][i].ts <= old[j].ts
            BY <5>1, <5>2, <5>3, <6>2, <6>3
          <6>5. j \in DOMAIN new /\ j <= Len(new) /\ new[j] = old[j]
            BY <1>1
          <6> QED
            BY <4>1, <6>2, <6>4, <6>5 DEF Covered, r
        <5> QED
          BY <5>4, <5>5
      <4> QED
        BY <4>2, <4>3
    <3>4. pushed'[d] <= Len(log'[d])
      BY <1>4, <3>1, <3>2
    <3>5. PushSound(d)'
      BY <2>3, <3>1, <3>3, <3>4 DEF PushSound
    <3> QED
      BY <2>2, <3>5 DEF PushesSound
  <2> QED
    BY <1>1, <2>4, <2>5
<1> QED
  BY <1>1, <1>12, <1>14, <1>15, <1>16, <1>17, <1>18 DEF ServerInv

LEMMA NothingToPushForServer ==
    ASSUME ServerInv, NEW d \in Devices, NothingToPush(d)
    PROVE  ServerInv' /\ LogsGrow
<1> USE SyncAssumption
<1>1. /\ SyncType /\ SyncType' /\ Cleaned(log[d], log'[d], pushed[d])
      /\ \A n \in Nodes \ {d} : log'[n] = log[n]
      /\ cycle' = [cycle EXCEPT ![d] = Idle] /\ UNCHANGED <<db, since, pushed, clock, edits, instant>>
  BY NothingToPushDoes DEF ServerInv
<1>2. Server \in Nodes /\ d \in Nodes /\ d # Server
  BY DEF Nodes
<1>3. DOMAIN log'[d] = DOMAIN log[d] /\ \A i \in DOMAIN log[d] : Same(log'[d][i], log[d][i])
  BY <1>1 DEF Cleaned
<1>4. LogsGrow
  <2>1. Extends(log[d], log'[d])
    BY <1>1, CleanedExtends
  <2>2. log[d] \in Seq(Entry) /\ log'[d] \in Seq(Entry)
    BY <1>1, <1>2 DEF SyncType
  <2>3. Len(log[d]) <= Len(log'[d])
    BY <1>3, <2>2, SameEnd
  <2>4. \A n \in Nodes : Len(log[n]) \in Nat
    BY <1>1, LogTypes
  <2> QED
    BY <1>1, <2>1, <2>3, <2>4, LogIsItself DEF LogsGrow
<1>5. \A n \in Nodes : DOMAIN log'[n] = DOMAIN log[n] /\ \A i \in DOMAIN log[n] : Same(log'[n][i], log[n][i])
  BY <1>1, <1>3 DEF Same
<1>6. InPast' /\ LogsRise' /\ WritesLater'
  BY <1>1, <1>5 DEF ServerInv, InPast, LogsRise, Rises, WritesLater, Same
<1>7. ServerHolds'
  <2>1. log'[Server] = log[Server] /\ db' = db
    BY <1>1, <1>2
  <2> QED
    BY <2>1 DEF ServerInv, ServerHolds
<1>8. \A c \in Devices : cycle'[c].phase = "send" => cycle'[c] = cycle[c]
  BY <1>1 DEF SyncType, Idle
<1>9. \A c \in Devices : pushed'[c] = pushed[c] /\ PushSound(c)
  BY <1>1 DEF ServerInv, PushesSound
<1>10. \A c \in Devices : PushSound(c)'
  BY <1>1, <1>4, <1>8, <1>9, PushStays
<1> QED
  BY <1>1, <1>4, <1>6, <1>7, <1>10 DEF ServerInv, PushesSound

LEMMA CycleForServer ==
    ASSUME ServerInv, NEW d \in Devices, since[d] <= Len(log[Server]),
           Pull(d) \/ ApplyPull(d) \/ ReadPush(d) \/ CutOff(d)
    PROVE  ServerInv' /\ LogsGrow
<1> USE SyncAssumption
<1>1. SyncType /\ Server \in Nodes /\ d \in Nodes /\ d # Server
  BY DEF ServerInv, Nodes
<1>2. ASSUME log' = log PROVE LogsGrow
  <2>1. \A n \in Nodes : Len(log[n]) \in Nat
    BY <1>1, LogTypes
  <2> QED
    BY <1>2, <2>1, LogIsItself DEF LogsGrow
<1>3. CASE Pull(d)
  <2>1. /\ SyncType' /\ cycle'[d].phase = "apply" /\ \A c \in Devices \ {d} : cycle'[c] = cycle[c]
        /\ UNCHANGED <<db, log, since, pushed, clock, edits, instant>>
    BY <1>3, PullDoes
  <2>2. \A c \in Devices : cycle'[c].phase = "send" => cycle'[c] = cycle[c]
    BY <2>1
  <2> QED
    BY <1>2, <2>1, <2>2, QuietForServer
<1>4. CASE ApplyPull(d)
  <2>1. /\ SyncType' /\ \A n \in Nodes \ {d} : db'[n] = db[n]
        /\ instant' = instant \ ({d} \X Rows)
        /\ \/ cycle' = [cycle EXCEPT ![d].phase = IF cycle[d].more THEN "pull" ELSE "push"]
           \/ cycle' = [cycle EXCEPT ![d] = Idle]
        /\ UNCHANGED <<log, pushed, clock, edits>>
    BY <1>1, <1>4, ApplyPullDoes
  <2>2. db'[Server] = db[Server] /\ instant' \subseteq instant
    BY <1>1, <2>1
  <2>3. \A c \in Devices \ {d} : cycle'[c] = cycle[c]
    BY <1>1, <2>1 DEF SyncType
  <2>4. cycle'[d].phase # "send"
    <3>1. cycle[d] \in Job /\ cycle \in [Devices -> Job]
      BY <1>1 DEF SyncType
    <3>2. \/ cycle'[d] = [cycle[d] EXCEPT !.phase = IF cycle[d].more THEN "pull" ELSE "push"]
          \/ cycle'[d] = Idle
      BY <2>1, <3>1
    <3>3. [cycle[d] EXCEPT !.phase = IF cycle[d].more THEN "pull" ELSE "push"].phase # "send"
          /\ Idle.phase # "send"
      BY <3>1 DEF Idle, Job
    <3> QED
      BY <3>2, <3>3
  <2>5. \A c \in Devices : cycle'[c].phase = "send" => cycle'[c] = cycle[c]
    BY <2>3, <2>4
  <2> QED
    BY <1>2, <2>1, <2>2, <2>5, QuietForServer
<1>5. CASE ReadPush(d)
  <2>1. /\ SyncType' /\ cycle'[d].phase = "send"
        /\ pushed[d] <= cycle'[d].next /\ cycle'[d].next <= Len(log[d])
        /\ Tells(cycle'[d].page, log[d], pushed[d] + 1 .. cycle'[d].next)
        /\ \A c \in Devices \ {d} : cycle'[c] = cycle[c]
        /\ UNCHANGED <<db, log, since, pushed, clock, edits, instant>>
    BY <1>5, ReadPushDoes
  <2>2. LogsGrow
    BY <1>2, <2>1
  <2>3. \A c \in Devices : PushSound(c)
    BY DEF ServerInv, PushesSound
  <2>4. \A c \in Devices \ {d} : PushSound(c)'
    BY <1>1, <2>1, <2>2, <2>3, PushStays
  <2>5. PushSound(d)'
    <3>1. /\ pushed[d] <= Len(log[d])
          /\ \A i \in 1 .. pushed[d] : Covered(log[Server], log[d][i], Len(log[Server]))
      BY <2>3 DEF PushSound
    <3> QED
      BY <2>1, <3>1 DEF PushSound
  <2>6. InPast' /\ LogsRise' /\ ServerHolds' /\ WritesLater'
    BY <2>1 DEF ServerInv, InPast, LogsRise, ServerHolds, WritesLater
  <2> QED
    BY <2>1, <2>2, <2>4, <2>5, <2>6 DEF ServerInv, PushesSound
<1>6. CASE CutOff(d)
  <2>1. /\ SyncType' /\ cycle' = [cycle EXCEPT ![d] = Idle]
        /\ UNCHANGED <<db, log, since, pushed, clock, edits, instant>>
    BY <1>1, <1>6, CutOffDoes
  <2>2. \A c \in Devices : cycle'[c].phase = "send" => cycle'[c] = cycle[c]
    BY <1>1, <2>1 DEF SyncType, Idle
  <2> QED
    BY <1>2, <2>1, <2>2, QuietForServer
<1> QED
  BY <1>3, <1>4, <1>5, <1>6

-----------------------------------------------------------------------------
(* The devices' part of the invariant: what a step leaves as it was *)

LEMMA SeedsStay ==
    ASSUME LogsGrow, SeedsFirst
    PROVE  SeedsFirst'
<1>1. Extends(log[Server], log'[Server])
  BY DEF LogsGrow, Nodes
<1> QED
  BY <1>1 DEF SeedsFirst, Extends, Same

\* All that is in the logs was in them before.
NothingNew ==
    \A n \in Nodes : \A i \in DOMAIN log'[n] : \E m \in Nodes : \E j \in DOMAIN log[m] :
        /\ log'[n][i].row = log[m][j].row /\ log'[n][i].val = log[m][j].val
        /\ log'[n][i].ts = log[m][j].ts

LEMMA VersionsStay ==
    ASSUME VersionsAgree, NothingNew
    PROVE  VersionsAgree'
<1> SUFFICES ASSUME NEW m \in Nodes, NEW n \in Nodes, NEW i \in DOMAIN log'[m], NEW j \in DOMAIN log'[n],
                    log'[m][i].row = log'[n][j].row, log'[m][i].val = log'[n][j].val
             PROVE  log'[m][i].ts = log'[n][j].ts
  BY DEF VersionsAgree
<1>1. PICK a \in Nodes : \E k \in DOMAIN log[a] :
          log'[m][i].row = log[a][k].row /\ log'[m][i].val = log[a][k].val /\ log'[m][i].ts = log[a][k].ts
  BY DEF NothingNew
<1>2. PICK k \in DOMAIN log[a] :
          log'[m][i].row = log[a][k].row /\ log'[m][i].val = log[a][k].val /\ log'[m][i].ts = log[a][k].ts
  BY <1>1
<1>3. PICK b \in Nodes : \E l \in DOMAIN log[b] :
          log'[n][j].row = log[b][l].row /\ log'[n][j].val = log[b][l].val /\ log'[n][j].ts = log[b][l].ts
  BY DEF NothingNew
<1>4. PICK l \in DOMAIN log[b] :
          log'[n][j].row = log[b][l].row /\ log'[n][j].val = log[b][l].val /\ log'[n][j].ts = log[b][l].ts
  BY <1>3
<1>5. log[a][k].row = log[b][l].row /\ log[a][k].val = log[b][l].val
  BY <1>2, <1>4
<1>6. log[a][k].ts = log[b][l].ts
  BY <1>5 DEF VersionsAgree
<1> QED
  BY <1>2, <1>4, <1>6

LEMMA OwnStays ==
    ASSUME OwnIsOwn, LogsGrow, Len(log'[Server]) = Len(log[Server]), SyncType, SyncType'
    PROVE  OwnIsOwn'
<1>1. Server \in Nodes /\ \A d \in Devices : d \in Nodes
  BY DEF Nodes
<1>2. DOMAIN log[Server] = 1 .. Len(log[Server]) /\ DOMAIN log'[Server] = 1 .. Len(log'[Server])
  BY <1>1, LenProperties DEF SyncType
<1> SUFFICES ASSUME NEW d \in Devices, NEW j \in DOMAIN log'[Server], log'[Server][j].origin = d
             PROVE  \E i \in DOMAIN log'[d] : /\ log'[d][i].row = log'[Server][j].row
                                              /\ log'[d][i].val = log'[Server][j].val
  BY DEF OwnIsOwn
<1>3. j \in DOMAIN log[Server] /\ Same(log'[Server][j], log[Server][j])
  BY <1>1, <1>2 DEF LogsGrow, Extends
<1>4. PICK i \in DOMAIN log[d] : log[d][i].row = log[Server][j].row /\ log[d][i].val = log[Server][j].val
  BY <1>3 DEF OwnIsOwn, Same
<1>5. i \in DOMAIN log'[d] /\ Same(log'[d][i], log[d][i])
  BY <1>1 DEF LogsGrow, Extends
<1> QED
  BY <1>3, <1>4, <1>5 DEF Same

LEMMA OthersStay ==
    ASSUME NEW s \in Seq(Entry), NEW t \in Seq(Entry), Extends(s, t), NEW d,
           NEW a \in Nat, NEW p \in Nat, p <= Len(s)
    PROVE  /\ Others(t, d, a, p) = Others(s, d, a, p) /\ Others(s, d, a, p) \in SUBSET DOMAIN s
           /\ \A k \in Others(s, d, a, p) : t[k].row = s[k].row /\ t[k].ts = s[k].ts /\ t[k].val = s[k].val
<1>1. DOMAIN s = 1 .. Len(s) /\ DOMAIN t = 1 .. Len(t) /\ Len(s) \in Nat /\ Len(t) \in Nat
  BY LenProperties
<1>2. \A i \in DOMAIN s : i \in DOMAIN t /\ t[i].row = s[i].row /\ t[i].ts = s[i].ts
                          /\ t[i].val = s[i].val /\ t[i].origin = s[i].origin
  BY DEF Extends, Same
<1>3. \A i \in DOMAIN t : i <= p => i \in DOMAIN s
  BY <1>1
<1> QED
  BY <1>2, <1>3 DEF Others

LEMMA PageStays ==
    ASSUME SyncType, SyncType', LogsGrow, NEW d \in Devices, PageSound(d),
           since'[d] = since[d], cycle'[d].phase = "apply" => cycle'[d] = cycle[d]
    PROVE  PageSound(d)'
<1>1. Server \in Nodes /\ since[d] \in Nat /\ cycle[d].next \in Nat
  BY DEF Nodes, SyncType, Job
<1>2. log[Server] \in Seq(Entry) /\ log'[Server] \in Seq(Entry)
  BY <1>1 DEF SyncType
<1>3. /\ Extends(log[Server], log'[Server]) /\ Len(log[Server]) <= Len(log'[Server])
      /\ Len(log[Server]) \in Nat /\ Len(log'[Server]) \in Nat
  BY <1>1, <1>2, LenProperties DEF LogsGrow
<1>4. since'[d] <= Len(log'[Server])
  BY <1>1, <1>3 DEF PageSound
<1>5. ASSUME cycle'[d].phase = "apply"
      PROVE  /\ since[d] <= cycle[d].next /\ cycle[d].next <= Len(log'[Server])
             /\ cycle[d].next <= since[d] + PullPage
             /\ PullPage > 1 => cycle[d].next > 1
             /\ Tells(cycle[d].page, log'[Server], Others(log'[Server], d, since[d], cycle[d].next))
  <2>1. /\ since[d] <= cycle[d].next /\ cycle[d].next <= Len(log[Server])
        /\ cycle[d].next <= since[d] + PullPage
        /\ PullPage > 1 => cycle[d].next > 1
        /\ Tells(cycle[d].page, log[Server], Others(log[Server], d, since[d], cycle[d].next))
    BY <1>5 DEF PageSound
  <2> DEFINE places == Others(log[Server], d, since[d], cycle[d].next)
  <2>2. Others(log'[Server], d, since[d], cycle[d].next) = places /\ places \in SUBSET DOMAIN log[Server]
    <3>1. PICK s \in Seq(Entry), t \in Seq(Entry), a \in Nat, p \in Nat :
              s = log[Server] /\ t = log'[Server] /\ a = since[d] /\ p = cycle[d].next
      BY <1>1, <1>2
    <3>2. Extends(s, t) /\ p <= Len(s)
      BY <1>3, <2>1, <3>1
    <3>3. Others(t, d, a, p) = Others(s, d, a, p) /\ Others(s, d, a, p) \in SUBSET DOMAIN s
      BY <3>2, OthersStay
    <3> QED
      BY <3>1, <3>3
  <2> HIDE DEF places
  <2>3. Tells(cycle[d].page, log'[Server], places)
    BY <1>3, <2>1, <2>2, TellsStays DEF places
  <2> QED
    BY <1>1, <1>3, <2>1, <2>2, <2>3
<1> QED
  BY <1>4, <1>5 DEF PageSound

LEMMA SeenStays ==
    ASSUME SyncType, SyncType', LogsGrow, NEW d \in Devices, SeenSound(d), log'[d] = log[d], clock' = clock,
           since'[d] = since[d], pushed'[d] = pushed[d], cycle'[d] = cycle[d]
    PROVE  SeenSound(d)'
<1>1. Extends(log[Server], log'[Server])
  BY DEF LogsGrow, Nodes
<1>2. \A e, p : Covered(log[Server], e, p) => Covered(log'[Server], e, p)
  BY <1>1, CoveredStays
<1> QED
  BY <1>2 DEF SeenSound, PushedBefore, ReadTo

LEMMA NewerStays ==
    ASSUME NEW v, NEW s \in Seq(Entry), NEW s2 \in Seq(Entry), Extends(s, s2), NEW d, NEW r,
           \A i \in DOMAIN s2 : s2[i].row = r => i \in DOMAIN s,
           NEW t \in Seq(Entry), NEW t2 \in Seq(Entry), Extends(t, t2),
           NEW p \in Nat, p <= Len(t), Newer(v, s, t, d, r, p)
    PROVE  Newer(v, s2, t2, d, r, p)
<1>1. /\ Others(t2, d, 0, p) = Others(t, d, 0, p) /\ Others(t, d, 0, p) \in SUBSET DOMAIN t
      /\ \A k \in Others(t, d, 0, p) : t2[k].row = t[k].row /\ t2[k].ts = t[k].ts /\ t2[k].val = t[k].val
  BY OthersStay
<1>2. /\ \A i \in DOMAIN s : i \in DOMAIN s2 /\ s2[i].row = s[i].row /\ s2[i].ts = s[i].ts /\ s2[i].val = s[i].val
      /\ \A i \in DOMAIN s2 : s2[i].row = r => i \in DOMAIN s /\ s[i].row = r
  BY DEF Extends, Same
<1> DEFINE O == Others(t, d, 0, p)
<1> HIDE DEF O
<1>3. CASE v = Absent /\ \A i \in DOMAIN s : s[i].row # r
  BY <1>2, <1>3 DEF Newer
<1>4. CASE \E i \in DOMAIN s :
             /\ s[i].row = r /\ v = s[i].val
             /\ \A k \in DOMAIN s : s[k].row = r => s[k].ts <= s[i].ts
             /\ \A k \in O : t[k].row = r => t[k].ts < s[i].ts
  <2>1. PICK i \in DOMAIN s :
             /\ s[i].row = r /\ v = s[i].val
             /\ \A k \in DOMAIN s : s[k].row = r => s[k].ts <= s[i].ts
             /\ \A k \in O : t[k].row = r => t[k].ts < s[i].ts
    BY <1>4
  <2>2. i \in DOMAIN s2 /\ s2[i].row = r /\ v = s2[i].val
    BY <1>2, <2>1
  <2>3. \A k \in DOMAIN s2 : s2[k].row = r => s2[k].ts <= s2[i].ts
    BY <1>2, <2>1
  <2>4. \A k \in O : t2[k].row = r => t2[k].ts < s2[i].ts
    BY <1>1, <1>2, <2>1 DEF O
  <2> QED
    BY <1>1, <2>2, <2>3, <2>4 DEF Newer, O
<1>5. CASE \E j \in O :
             /\ t[j].row = r /\ v = t[j].val
             /\ \A k \in O : t[k].row = r => t[k].ts <= t[j].ts
             /\ \A k \in DOMAIN s : s[k].row = r => s[k].ts <= t[j].ts
  <2>1. PICK j \in O :
             /\ t[j].row = r /\ v = t[j].val
             /\ \A k \in O : t[k].row = r => t[k].ts <= t[j].ts
             /\ \A k \in DOMAIN s : s[k].row = r => s[k].ts <= t[j].ts
    BY <1>5
  <2>2. t2[j].row = r /\ v = t2[j].val /\ t2[j].ts = t[j].ts
    BY <1>1, <2>1 DEF O
  <2>3. \A k \in O : t2[k].row = r => t2[k].ts <= t2[j].ts
    BY <1>1, <2>1, <2>2 DEF O
  <2>4. \A k \in DOMAIN s2 : s2[k].row = r => s2[k].ts <= t2[j].ts
    BY <1>2, <2>1, <2>2
  <2> QED
    BY <1>1, <2>1, <2>2, <2>3, <2>4 DEF Newer, O
<1> QED
  BY <1>3, <1>4, <1>5 DEF Newer, O

\* A device's rows stay sound if it does not write them, whatever it reads.
LEMMA HoldsStays ==
    ASSUME ServerInv, SyncType', LogsGrow, NEW d \in Devices, Holds(d),
           DOMAIN log'[d] = DOMAIN log[d], db'[d] = db[d], since'[d] = since[d], clock <= clock',
           \A r \in Rows : <<d, r>> \in instant' /\ clock' = clock => <<d, r>> \in instant,
           cycle'[d].phase = "apply" =>
              \/ cycle[d].phase = "apply" /\ cycle'[d].next = cycle[d].next
              \/ cycle'[d].next >= Len(log[Server]) \/ cycle'[d].next >= since[d] + PullPage
    PROVE  Holds(d)'
<1> USE SyncAssumption
<1>1. PICK p \in 0 .. Len(log[Server]) : Applies(d, p)
  BY DEF Holds
<1>2. d \in Nodes /\ Server \in Nodes /\ SyncType
  BY DEF Nodes, ServerInv
<1>3. /\ log[d] \in Seq(Entry) /\ log'[d] \in Seq(Entry)
      /\ log[Server] \in Seq(Entry) /\ log'[Server] \in Seq(Entry)
      /\ Extends(log[d], log'[d]) /\ Extends(log[Server], log'[Server])
      /\ Len(log[Server]) <= Len(log'[Server])
  BY <1>2 DEF LogsGrow, SyncType
<1>4. Len(log[Server]) \in Nat /\ Len(log'[Server]) \in Nat /\ p \in Nat /\ p <= Len(log[Server]) /\ since[d] \in Nat
  BY <1>1, <1>2, <1>3, LenProperties DEF SyncType
<1>5. p \in 0 .. Len(log'[Server]) /\ p <= Len(log'[Server])
  BY <1>3, <1>4
<1>6. \A r \in Rows : Newer(db'[d][r], log'[d], log'[Server], d, r, p)
  <2> TAKE r \in Rows
  <2>1. Newer(db[d][r], log[d], log[Server], d, r, p)
    BY <1>1 DEF Applies
  <2> QED
    BY <1>3, <1>4, <2>1, NewerStays
<1>7. /\ Others(log'[Server], d, 0, p) = Others(log[Server], d, 0, p)
      /\ Others(log[Server], d, 0, p) \in SUBSET DOMAIN log[Server]
      /\ \A k \in Others(log[Server], d, 0, p) :
            log'[Server][k].row = log[Server][k].row /\ log'[Server][k].ts = log[Server][k].ts
  BY <1>3, <1>4, OthersStay
<1>8. ASSUME NEW r \in Rows, <<d, r>> \in instant', NEW j \in Others(log'[Server], d, 0, p), log'[Server][j].row = r
      PROVE  log'[Server][j].ts < clock'
  <2>1. /\ j \in Others(log[Server], d, 0, p) /\ j \in DOMAIN log[Server]
        /\ log[Server][j].row = r /\ log'[Server][j].ts = log[Server][j].ts
    BY <1>7, <1>8
  <2>2. CASE clock' = clock
    BY <1>1, <1>8, <2>1, <2>2 DEF Applies
  <2>3. CASE clock' # clock
    <3>1. log[Server][j].ts <= clock /\ clock \in Nat /\ clock' \in Nat /\ log[Server][j].ts \in Nat
      BY <1>2, <2>1, LogTypes, EntryTypes DEF ServerInv, InPast, SyncType
    <3> QED
      BY <2>1, <2>3, <3>1
  <2> QED
    BY <2>2, <2>3
<1>9. since'[d] <= p /\ p <= since'[d] + PullPage
  BY <1>1 DEF Applies
<1>10. cycle'[d].phase = "apply" => p <= cycle'[d].next
  <2>1. cycle'[d].next \in Nat
    BY DEF SyncType, Job
  <2> QED
    BY <1>1, <1>4, <1>9, <2>1 DEF Applies
<1>11. /\ db'[d][Parent] = Absent => db'[d][Child] = Absent
       /\ PullPage > 1 => \A r \in Rows : db'[d][r] = Absent => p = 0
  BY <1>1 DEF Applies
<1>12. Applies(d, p)'
  BY <1>5, <1>6, <1>8, <1>9, <1>10, <1>11 DEF Applies
<1> QED
  BY <1>5, <1>12 DEF Holds

-----------------------------------------------------------------------------
(* The devices' part of the invariant, action by action *)

\* A device's own write is the newest it knows of.
LEMMA OwnEditHolds ==
    ASSUME NoDeletes, ServerInv, NEW d \in Devices, Holds(d), NEW r \in Rows,
           NEW t \in clock .. clock + 1, NEW val \in {edits + 1, Absent}, Edit(d, r, t, val)
    PROVE  Holds(d)'
<1> USE SyncAssumption
<1> DEFINE e == Logged(r, edits + 1, t, d)
           k == Len(log[d])
<1>1. d \in Nodes /\ Server \in Nodes /\ d # Server
  BY DEF Nodes
<1>2. /\ clock' = t /\ t \in Nat /\ clock <= t /\ clock \in Nat /\ db[d][r] # Absent
      /\ t = clock => <<d, r>> \in instant
      /\ e \in Entry /\ log'[d] = Append(log[d], e) /\ SyncType /\ SyncType' /\ edits + 1 # Absent
      /\ \A m \in Nodes \ {d} : log'[m] = log[m]
      /\ \A m \in Nodes, q \in Rows : db'[m][q] = IF m = d /\ q = r THEN edits + 1 ELSE db[m][q]
      /\ \A m \in Nodes, q \in Rows : <<m, q>> \in instant' =>
            <<m, q>> # <<d, r>> /\ (t = clock => <<m, q>> \in instant)
      /\ UNCHANGED <<since, pushed, cycle>>
  <2>1. SyncType /\ WritesVersion(d, r, t)
    BY <1>1, EditDoes DEF ServerInv
  <2>2. edits + 1 # Absent
    BY <2>1 DEF WritesVersion
  <2> QED
    BY <2>1, <2>2 DEF WritesVersion
<1>3. e.row = r /\ e.val = edits + 1 /\ e.ts = t
  BY DEF Logged
<1> HIDE DEF e
<1>4. log[d] \in Seq(Entry) /\ k \in Nat /\ DOMAIN log[d] = 1 .. k /\ log[Server] \in Seq(Entry)
  BY <1>1, <1>2, LogTypes
<1>5. /\ DOMAIN log'[d] = 1 .. k + 1 /\ log'[d] \in Seq(Entry)
      /\ \A i \in 1 .. k : log'[d][i] = log[d][i]
      /\ log'[d][k + 1] = e
  BY <1>2, <1>4, OneMore
<1> HIDE DEF k
<1>6. /\ \A i \in DOMAIN log[d] : i \in DOMAIN log'[d] /\ log'[d][i] = log[d][i]
      /\ \A i \in DOMAIN log'[d] : i \in DOMAIN log[d] \/ i = k + 1
      /\ k + 1 \in DOMAIN log'[d]
  BY <1>4, <1>5
<1>7. Extends(log[d], log'[d]) /\ log'[Server] = log[Server]
  BY <1>1, <1>2, <1>6 DEF Extends, Same
<1>8. PICK p \in 0 .. Len(log[Server]) : Applies(d, p)
  BY DEF Holds
<1>9. p \in Nat /\ p <= Len(log[Server]) /\ Len(log[Server]) \in Nat
  BY <1>4, LenProperties
<1> DEFINE O == Others(log[Server], d, 0, p)
<1>10. \A j \in O : log[Server][j].ts \in Nat /\ log[Server][j].ts <= clock
  <2>1. O \subseteq DOMAIN log[Server]
    BY DEF Others
  <2> QED
    BY <1>1, <1>2, <2>1, LogTypes, EntryTypes DEF ServerInv, InPast
<1>11. \A q \in Rows : <<d, q>> \in instant => \A j \in O : log[Server][j].row = q => log[Server][j].ts < clock
  BY <1>8 DEF Applies
<1> HIDE DEF O
<1>12. \A q \in Rows : (t = clock => <<d, q>> \in instant) => \A j \in O : log[Server][j].row = q => log[Server][j].ts < t
  <2> TAKE q \in Rows
  <2>1. CASE t = clock
    BY <1>11, <2>1
  <2>2. CASE t # clock
    BY <1>2, <1>10, <2>2
  <2> QED
    BY <2>1, <2>2
<1>13. \A i \in DOMAIN log[d] : log[d][i].row = r => log[d][i].ts <= t
  <2>1. \A i \in DOMAIN log[d] : log[d][i].ts \in Nat /\ log[d][i].ts <= clock
    BY <1>1, <1>2, LogTypes, EntryTypes DEF ServerInv, InPast
  <2> QED
    BY <1>2, <2>1
<1>14. ASSUME NEW q \in Rows
       PROVE  Newer(db'[d][q], log'[d], log[Server], d, q, p)
  <2>1. CASE q = r
    <3>1. db'[d][q] = edits + 1 /\ log'[d][k + 1].row = q /\ log'[d][k + 1].val = edits + 1 /\ log'[d][k + 1].ts = t
      BY <1>1, <1>2, <1>3, <1>5, <2>1
    <3>2. \A i \in DOMAIN log'[d] : log'[d][i].row = q => log'[d][i].ts <= t
      <4>1. \A i \in DOMAIN log[d] : log'[d][i].row = q => log'[d][i].ts <= t
        BY <1>6, <1>13, <2>1
      <4> QED
        BY <1>2, <1>6, <3>1, <4>1
    <3>3. \A j \in O : log[Server][j].row = q => log[Server][j].ts < t
      BY <1>2, <1>12, <2>1
    <3> QED
      BY <1>6, <3>1, <3>2, <3>3 DEF Newer, O
  <2>2. CASE q # r
    <3>1. db'[d][q] = db[d][q]
      BY <1>1, <1>2, <2>2
    <3>2. \A i \in DOMAIN log'[d] : log'[d][i].row = q => i \in DOMAIN log[d]
      BY <1>3, <1>5, <1>6, <2>2
    <3>3. Newer(db[d][q], log[d], log[Server], d, q, p)
      BY <1>8 DEF Applies
    <3> QED
      BY <1>4, <1>5, <1>7, <1>9, <3>1, <3>2, <3>3, NewerStays, LogIsItself
  <2> QED
    BY <2>1, <2>2
<1>15. \A q \in Rows : <<d, q>> \in instant' =>
          \A j \in Others(log'[Server], d, 0, p) : log'[Server][j].row = q => log'[Server][j].ts < clock'
  BY <1>1, <1>2, <1>7, <1>12 DEF O
<1>16. /\ db'[d][Parent] = Absent => db'[d][Child] = Absent
       /\ PullPage > 1 => \A q \in Rows : db'[d][q] = Absent => p = 0
  <2>1. /\ db[d][Parent] = Absent => db[d][Child] = Absent
        /\ PullPage > 1 => \A q \in Rows : db[d][q] = Absent => p = 0
    BY <1>8 DEF Applies
  <2>2. \A q \in Rows : db'[d][q] = (IF q = r THEN edits + 1 ELSE db[d][q])
    BY <1>1, <1>2
  <2>3. r = Parent \/ r = Child
    BY DEF Rows
  <2> QED
    BY <1>2, <2>1, <2>2, <2>3 DEF Rows
<1>17. /\ since'[d] <= p /\ p <= Len(log'[Server]) /\ p <= since'[d] + PullPage
       /\ cycle'[d].phase = "apply" => p <= cycle'[d].next
  BY <1>2, <1>7, <1>8 DEF Applies
<1>18. Applies(d, p)'
  BY <1>7, <1>14, <1>15, <1>16, <1>17 DEF Applies
<1> QED
  BY <1>7, <1>18 DEF Holds

LEMMA EditForDevices ==
    ASSUME NoDeletes, ServerInv, DeviceInv, NEW n \in Nodes, NEW r \in Rows,
           NEW t \in clock .. clock + 1, NEW val \in {edits + 1, Absent}, Edit(n, r, t, val)
    PROVE  DeviceInv'
<1> DEFINE e == Logged(r, edits + 1, t, n)
           k == Len(log[n])
<1>1. Server \in Nodes /\ \A d \in Devices : d \in Nodes /\ d # Server
  BY SyncAssumption DEF Nodes
<1>2. /\ clock' = t /\ t \in Nat /\ clock <= t /\ clock \in Nat /\ edits \in Nat /\ InTime(t)
      /\ e \in Entry /\ log'[n] = Append(log[n], e) /\ SyncType /\ SyncType'
      /\ \A m \in Nodes \ {n} : log'[m] = log[m]
      /\ \A m \in Nodes, q \in Rows : db'[m][q] = IF m = n /\ q = r THEN edits + 1 ELSE db[m][q]
      /\ \A m \in Nodes, q \in Rows : <<m, q>> \in instant' =>
            <<m, q>> # <<n, r>> /\ (t = clock => <<m, q>> \in instant)
      /\ UNCHANGED <<since, pushed, cycle>>
  <2>1. SyncType /\ WritesVersion(n, r, t)
    BY EditDoes DEF ServerInv
  <2> QED
    BY <2>1 DEF WritesVersion
<1>3. e.row = r /\ e.val = edits + 1 /\ e.ts = t /\ e.origin = n /\ e.kept
  BY DEF Logged
<1> HIDE DEF e
<1>4. log[n] \in Seq(Entry) /\ k \in Nat /\ DOMAIN log[n] = 1 .. k
  BY <1>2, LogTypes
<1>5. /\ DOMAIN log'[n] = 1 .. k + 1
      /\ \A i \in 1 .. k : log'[n][i] = log[n][i]
      /\ log'[n][k + 1] = e
  BY <1>2, <1>4, OneMore
<1>6. k = Len(log[n])
  OBVIOUS
<1> HIDE DEF k
<1>7. LogsGrow
  BY EditForServer
<1>8. \A m \in Nodes : \A i \in DOMAIN log'[m] :
          \/ i \in DOMAIN log[m] /\ log'[m][i] = log[m][i]
          \/ m = n /\ i = k + 1 /\ log'[m][i] = e
  <2>1. \A i \in DOMAIN log'[n] : i \in DOMAIN log[n] \/ i = k + 1
    BY <1>4, <1>5
  <2> QED
    BY <1>2, <1>4, <1>5, <2>1
<1>9. VersionsAgree'
  <2> SUFFICES ASSUME NEW a \in Nodes, NEW b \in Nodes, NEW i \in DOMAIN log'[a], NEW j \in DOMAIN log'[b],
                      log'[a][i].row = log'[b][j].row, log'[a][i].val = log'[b][j].val
               PROVE  log'[a][i].ts = log'[b][j].ts
    BY DEF VersionsAgree
  <2>1. \A m \in Nodes : \A l \in DOMAIN log[m] : log[m][l].val # edits + 1
    <3>1. \A m \in Nodes : \A l \in DOMAIN log[m] : log[m][l].val \in Nat /\ log[m][l].val <= edits
      BY <1>2, LogTypes, EntryTypes DEF ServerInv, InPast
    <3> QED
      BY <1>2, <3>1
  <2>2. CASE i \in DOMAIN log[a] /\ log'[a][i] = log[a][i] /\ j \in DOMAIN log[b] /\ log'[b][j] = log[b][j]
    BY <2>2 DEF DeviceInv, VersionsAgree
  <2>3. CASE log'[a][i] = e
    BY <1>3, <1>8, <2>1, <2>3
  <2>4. CASE log'[b][j] = e
    BY <1>3, <1>8, <2>1, <2>4
  <2> QED
    BY <1>8, <2>2, <2>3, <2>4
<1>10. OwnIsOwn'
  <2> SUFFICES ASSUME NEW d \in Devices, NEW j \in DOMAIN log'[Server], log'[Server][j].origin = d
               PROVE  \E i \in DOMAIN log'[d] : /\ log'[d][i].row = log'[Server][j].row
                                                /\ log'[d][i].val = log'[Server][j].val
    BY DEF OwnIsOwn
  <2>1. j \in DOMAIN log[Server] /\ log'[Server][j] = log[Server][j]
    BY <1>1, <1>3, <1>8
  <2>2. PICK i \in DOMAIN log[d] : log[d][i].row = log[Server][j].row /\ log[d][i].val = log[Server][j].val
    BY <2>1 DEF DeviceInv, OwnIsOwn
  <2>3. i \in DOMAIN log'[d] /\ Same(log'[d][i], log[d][i])
    BY <1>1, <1>7 DEF LogsGrow, Extends
  <2> QED
    BY <2>1, <2>2, <2>3 DEF Same
<1>11. SeedsFirst'
  BY <1>7, SeedsStay DEF DeviceInv
<1>12. ASSUME NEW d \in Devices
       PROVE  SeenSound(d)'
  <2>1. SeenSound(d)
    BY DEF DeviceInv, DeviceSound
  <2>2. PushedBefore(d)' = PushedBefore(d) /\ ReadTo(d)' = ReadTo(d)
    BY <1>2 DEF PushedBefore, ReadTo
  <2>3. cycle'[d].phase # "idle" => cycle'[d].from <= pushed'[d]
    BY <1>2, <2>1 DEF SeenSound
  <2>4. \A x, p : Covered(log[Server], x, p) => Covered(log'[Server], x, p)
    BY <1>1, <1>7, CoveredStays DEF LogsGrow
  <2>5. ASSUME NEW i \in DOMAIN log'[d]
        PROVE  /\ i > PushedBefore(d) => log'[d][i].ts + Retention >= t
               /\ log'[d][i].kept \/ Covered(log'[Server], log'[d][i], since[d])
               /\ /\ i <= cycle[d].from
                  /\ \/ cycle[d].phase \in {"push", "send"}
                     \/ cycle[d].phase = "apply" /\ ~ cycle[d].more
                  => Covered(log'[Server], log'[d][i], ReadTo(d))
    <3>1. CASE i \in DOMAIN log[d] /\ log'[d][i] = log[d][i]
      BY <1>2, <2>1, <2>4, <3>1 DEF SeenSound, InTime
    <3>2. CASE d = n /\ i = k + 1 /\ log'[d][i] = e
      <4>1. log'[d][i].ts + Retention >= t /\ log'[d][i].kept
        BY SyncAssumption, <1>2, <1>3, <3>2
      <4>2. pushed[d] <= k
        BY <1>6, <3>2 DEF ServerInv, PushesSound, PushSound
      <4>3. cycle[d].from \in Nat /\ pushed[d] \in Nat
        BY <1>2 DEF SyncType, Job
      <4>4. cycle[d].phase # "idle" => ~ (i <= cycle[d].from)
        BY <1>4, <2>1, <3>2, <4>2, <4>3 DEF SeenSound
      <4>5. cycle[d].phase \in {"push", "send"} \/ cycle[d].phase = "apply" => cycle[d].phase # "idle"
        OBVIOUS
      <4> QED
        BY <4>1, <4>4, <4>5
    <3> QED
      BY <1>1, <1>8, <3>1, <3>2
  <2> QED
    BY <1>2, <2>2, <2>3, <2>5 DEF SeenSound
<1>13. \A d \in Devices : PageSound(d)'
  BY <1>2, <1>7, PageStays DEF DeviceInv, DeviceSound
<1>14. ASSUME NEW d \in Devices
       PROVE  Holds(d)'
  <2>1. Holds(d)
    BY DEF DeviceInv, DeviceSound
  <2>2. CASE d = n
    BY <2>1, <2>2, OwnEditHolds
  <2>3. CASE d # n
    <3>1. log'[d] = log[d] /\ since'[d] = since[d] /\ cycle'[d] = cycle[d] /\ clock <= clock'
      BY <1>1, <1>2, <2>3
    <3>2. db'[d] = db[d]
      <4>1. db[d] \in [Rows -> Version \cup {Absent}] /\ db'[d] \in [Rows -> Version \cup {Absent}]
        BY <1>1, <1>2 DEF SyncType
      <4> QED
        BY <1>1, <1>2, <2>3, <4>1
    <3>3. \A q \in Rows : <<d, q>> \in instant' /\ clock' = clock => <<d, q>> \in instant
      BY <1>1, <1>2
    <3> QED
      BY <1>2, <1>7, <2>1, <3>1, <3>2, <3>3, HoldsStays
  <2> QED
    BY <2>2, <2>3
<1> QED
  BY <1>9, <1>10, <1>11, <1>12, <1>13, <1>14 DEF DeviceInv, DeviceSound

LEMMA OtherDevice ==
    ASSUME ServerInv, SyncType', LogsGrow, NEW d \in Devices, DeviceSound(d), clock' = clock,
           log'[d] = log[d], db'[d] = db[d], since'[d] = since[d], pushed'[d] = pushed[d],
           cycle'[d] = cycle[d], instant' \subseteq instant
    PROVE  DeviceSound(d)'
<1>1. SyncType /\ SeenSound(d) /\ PageSound(d) /\ Holds(d) /\ clock \in Nat
  BY DEF ServerInv, DeviceSound, SyncType
<1>2. SeenSound(d)'
  BY <1>1, SeenStays
<1>3. PageSound(d)'
  BY <1>1, PageStays
<1>4. Holds(d)'
  <2>1. clock <= clock' /\ \A r \in Rows : <<d, r>> \in instant' /\ clock' = clock => <<d, r>> \in instant
    BY <1>1
  <2> QED
    BY <1>1, <2>1, HoldsStays
<1> QED
  BY <1>2, <1>3, <1>4 DEF DeviceSound

LEMMA ServerIsLong ==
    ASSUME SyncType, SeedsFirst
    PROVE  Len(log[Server]) \in Nat /\ Len(log[Server]) >= 2
<1>1. DOMAIN log[Server] = 1 .. Len(log[Server]) /\ Len(log[Server]) \in Nat
  BY LogTypes DEF Nodes
<1>2. PICK i \in {1, 2} : i \in DOMAIN log[Server] /\ log[Server][i].row = Parent
  BY DEF SeedsFirst, Rows
<1>3. PICK j \in {1, 2} : j \in DOMAIN log[Server] /\ log[Server][j].row = Child
  BY DEF SeedsFirst, Rows
<1>4. i # j
  BY <1>2, <1>3, SyncAssumption
<1> QED
  BY <1>1, <1>2, <1>3, <1>4

\* The logs were not touched.
LEMMA UnwrittenForDevices ==
    ASSUME DeviceInv, log' = log
    PROVE  VersionsAgree' /\ OwnIsOwn' /\ SeedsFirst'
  BY DEF DeviceInv, VersionsAgree, OwnIsOwn, SeedsFirst

LEMMA PullForDevices ==
    ASSUME ServerInv, DeviceInv, NEW d \in Devices, Pull(d)
    PROVE  DeviceInv'
<1> USE SyncAssumption
<1> DEFINE next == cycle'[d].next
<1>1. SeenSound(d) /\ PageSound(d) /\ Holds(d) /\ since[d] <= Len(log[Server])
  BY DEF DeviceInv, DeviceSound, PageSound
<1>2. /\ SyncType' /\ cycle[d].phase \in {"idle", "pull"} /\ cycle'[d].phase = "apply"
      /\ next = SmallerOf(since[d] + PullPage, Len(log[Server]))
      /\ since[d] <= next /\ next <= Len(log[Server]) /\ next <= since[d] + PullPage
      /\ ~ cycle'[d].more => next = Len(log[Server])
      /\ cycle'[d].from = pushed[d]
      /\ Tells(cycle'[d].page, log[Server], Others(log[Server], d, since[d], next))
      /\ \A c \in Devices \ {d} : cycle'[c] = cycle[c]
      /\ UNCHANGED <<db, log, since, pushed, clock, edits, instant>>
  BY <1>1, PullDoes
<1>3. SyncType /\ since[d] \in Nat /\ pushed[d] \in Nat /\ cycle[d] \in Job /\ clock \in Nat
  BY DEF ServerInv, SyncType
<1>4. LogsGrow
  BY <1>1, CycleForServer
<1>5. Len(log[Server]) \in Nat /\ Len(log[Server]) >= 2
  BY <1>3, ServerIsLong DEF DeviceInv
<1>6. \A c \in Devices \ {d} : DeviceSound(c)'
  BY <1>2, <1>4, OtherDevice DEF DeviceInv
<1>7. SeenSound(d)'
  <2>1. /\ pushed[d] <= Len(log[d]) /\ Len(log[d]) \in Nat /\ DOMAIN log[d] = 1 .. Len(log[d])
        /\ \A i \in 1 .. pushed[d] : Covered(log[Server], log[d][i], Len(log[Server]))
    BY <1>3, LogTypes DEF ServerInv, PushesSound, PushSound, Nodes
  <2>2. cycle[d].from \in Nat /\ (cycle[d].phase = "pull" => cycle[d].from <= pushed[d])
    BY <1>1, <1>3 DEF Job, SeenSound
  <2>3. PushedBefore(d)' = pushed[d] /\ PushedBefore(d) <= pushed[d] /\ PushedBefore(d) \in Nat
    BY <1>2, <1>3, <2>2 DEF PushedBefore
  <2>4. ReadTo(d)' = next
    BY <1>2 DEF ReadTo
  <2>5. ASSUME NEW i \in DOMAIN log[d]
        PROVE  /\ i > pushed[d] => log[d][i].ts + Retention >= clock
               /\ log[d][i].kept \/ Covered(log[Server], log[d][i], since[d])
               /\ i <= pushed[d] /\ ~ cycle'[d].more => Covered(log[Server], log[d][i], next)
    <3>1. i > pushed[d] => i > PushedBefore(d)
      BY <2>1, <2>3, <1>3
    <3>2. i <= pushed[d] => Covered(log[Server], log[d][i], Len(log[Server]))
      BY <2>1, <1>3
    <3> QED
      BY <1>1, <1>2, <3>1, <3>2 DEF SeenSound
  <2>6. cycle'[d].from <= pushed'[d] /\ cycle'[d].phase \notin {"push", "send"}
    BY <1>2, <1>3
  <2> QED
    BY <1>2, <2>3, <2>4, <2>5, <2>6 DEF SeenSound
<1>8. PageSound(d)'
  <2>1. PullPage > 1 => next > 1
    BY <1>2, <1>3, <1>5 DEF SmallerOf
  <2> HIDE DEF next
  <2>2. since'[d] = since[d] /\ log' = log
    BY <1>2
  <2> QED
    BY <1>1, <1>2, <2>1, <2>2 DEF PageSound, next
<1>9. Holds(d)'
  <2>1. next >= Len(log[Server]) \/ next >= since[d] + PullPage
    BY <1>2, <1>3, <1>5 DEF SmallerOf
  <2> QED
    BY <1>1, <1>2, <1>3, <1>4, <2>1, HoldsStays
<1>10. VersionsAgree' /\ OwnIsOwn' /\ SeedsFirst'
  BY <1>2, UnwrittenForDevices
<1> QED
  BY <1>6, <1>7, <1>8, <1>9, <1>10 DEF DeviceInv, DeviceSound

LEMMA ReadPushForDevices ==
    ASSUME ServerInv, DeviceInv, NEW d \in Devices, ReadPush(d)
    PROVE  DeviceInv'
<1>1. /\ SyncType' /\ cycle[d].phase = "push" /\ cycle'[d].phase = "send"
      /\ cycle'[d].from = cycle[d].from
      /\ \A c \in Devices \ {d} : cycle'[c] = cycle[c]
      /\ UNCHANGED <<db, log, since, pushed, clock, edits, instant>>
  BY ReadPushDoes
<1>2. SeenSound(d) /\ PageSound(d) /\ Holds(d) /\ SyncType /\ clock \in Nat /\ since[d] <= Len(log[Server])
  BY DEF DeviceInv, DeviceSound, ServerInv, SyncType, PageSound
<1>3. LogsGrow
  BY <1>2, CycleForServer
<1>4. \A c \in Devices \ {d} : DeviceSound(c)'
  BY <1>1, <1>3, OtherDevice DEF DeviceInv
<1>5. SeenSound(d)'
  <2>1. PushedBefore(d)' = PushedBefore(d) /\ ReadTo(d)' = ReadTo(d)
    BY <1>1 DEF PushedBefore, ReadTo
  <2> QED
    BY <1>1, <1>2, <2>1 DEF SeenSound
<1>6. PageSound(d)'
  BY <1>1, <1>2, <1>3, PageStays
<1>7. Holds(d)'
  BY <1>1, <1>2, <1>3, HoldsStays
<1>8. VersionsAgree' /\ OwnIsOwn' /\ SeedsFirst'
  BY <1>1, UnwrittenForDevices
<1> QED
  BY <1>4, <1>5, <1>6, <1>7, <1>8 DEF DeviceInv, DeviceSound

LEMMA CutOffForDevices ==
    ASSUME ServerInv, DeviceInv, NEW d \in Devices, CutOff(d)
    PROVE  DeviceInv'
<1>1. SeenSound(d) /\ PageSound(d) /\ Holds(d) /\ SyncType /\ clock \in Nat /\ since[d] <= Len(log[Server])
  BY DEF DeviceInv, DeviceSound, ServerInv, SyncType, PageSound
<1>2. /\ SyncType' /\ cycle' = [cycle EXCEPT ![d] = Idle]
      /\ UNCHANGED <<db, log, since, pushed, clock, edits, instant>>
  BY <1>1, CutOffDoes
<1>3. /\ cycle[d].phase # "idle" /\ cycle'[d].phase = "idle"
      /\ \A c \in Devices \ {d} : cycle'[c] = cycle[c]
  BY <1>1, <1>2 DEF CutOff, SyncType, Idle
<1>4. LogsGrow
  BY <1>1, CycleForServer
<1>5. \A c \in Devices \ {d} : DeviceSound(c)'
  BY <1>2, <1>3, <1>4, OtherDevice DEF DeviceInv
<1>6. SeenSound(d)'
  <2>1. cycle[d].from \in Nat /\ pushed[d] \in Nat /\ cycle[d].from <= pushed[d] /\ \A i \in DOMAIN log[d] : i \in Nat
    BY <1>1, <1>3, LogTypes DEF SeenSound, SyncType, Job, Nodes
  <2>2. PushedBefore(d)' = pushed[d] /\ PushedBefore(d) = cycle[d].from
    BY <1>2, <1>3 DEF PushedBefore
  <2>3. \A i \in DOMAIN log[d] : i > pushed[d] => i > cycle[d].from
    BY <2>1
  <2> QED
    BY <1>1, <1>2, <1>3, <2>2, <2>3 DEF SeenSound
<1>7. PageSound(d)'
  BY <1>1, <1>2, <1>3, <1>4, PageStays
<1>8. Holds(d)'
  BY <1>1, <1>2, <1>3, <1>4, HoldsStays
<1>9. VersionsAgree' /\ OwnIsOwn' /\ SeedsFirst'
  BY <1>2, UnwrittenForDevices
<1> QED
  BY <1>5, <1>6, <1>7, <1>8, <1>9 DEF DeviceInv, DeviceSound

\* Only what was pushed before the cycle is deleted from the log at its end.
LEMMA SeenAfterPush ==
    ASSUME SyncType, SyncType', LogsGrow, NEW d \in Devices, SeenSound(d),
           NEW upto, Cleaned(log[d], log'[d], upto),
           UNCHANGED <<clock, since>>, pushed[d] <= pushed'[d], cycle[d].phase \in {"push", "send"},
           \/ cycle'[d].phase = "idle"
           \/ cycle'[d].phase = "push" /\ cycle'[d].from = cycle[d].from
    PROVE  SeenSound(d)'
<1>1. /\ cycle[d].from \in Nat /\ pushed[d] \in Nat /\ pushed'[d] \in Nat /\ d \in Nodes
      /\ cycle[d].from <= pushed[d] /\ PushedBefore(d) = cycle[d].from /\ ReadTo(d) = since[d]
  BY DEF SeenSound, SyncType, Job, PushedBefore, ReadTo, Nodes
<1>2. PushedBefore(d)' \in Nat /\ cycle[d].from <= PushedBefore(d)' /\ ReadTo(d)' = since[d]
  BY <1>1 DEF PushedBefore, ReadTo
<1>3. cycle'[d].phase # "idle" => cycle'[d].from <= pushed'[d]
  BY <1>1
<1>4. \A e, f : e.row = f.row /\ e.ts = f.ts /\ Covered(log[Server], e, since[d]) => Covered(log'[Server], f, since[d])
  BY CoveredStays DEF LogsGrow, Nodes
<1>5. DOMAIN log'[d] = DOMAIN log[d] /\ \A i \in DOMAIN log[d] : i \in Nat /\ log[d][i].ts \in Nat
  BY <1>1, LogTypes, EntryTypes DEF Cleaned
<1>6. ASSUME NEW i \in DOMAIN log'[d]
      PROVE  /\ i > PushedBefore(d)' => log'[d][i].ts + Retention >= clock
             /\ log'[d][i].kept \/ Covered(log'[Server], log'[d][i], since[d])
             /\ i <= cycle[d].from => Covered(log'[Server], log'[d][i], since[d])
  <2>1. /\ i \in DOMAIN log[d] /\ log'[d][i].row = log[d][i].row /\ log'[d][i].ts = log[d][i].ts
        /\ log[d][i].kept /\ ~ log'[d][i].kept => ~ (log[d][i].ts + Retention >= clock)
    BY <1>5 DEF Cleaned, Same
  <2>2. /\ i > cycle[d].from => log[d][i].ts + Retention >= clock
        /\ log[d][i].kept \/ Covered(log[Server], log[d][i], since[d])
        /\ i <= cycle[d].from => Covered(log[Server], log[d][i], since[d])
    BY <1>1, <2>1 DEF SeenSound
  <2>3. i \in Nat /\ (i > PushedBefore(d)' => i > cycle[d].from)
    BY <1>1, <1>2, <1>5
  <2>4. i > cycle[d].from \/ i <= cycle[d].from
    BY <1>1, <2>3
  <2> QED
    BY <1>4, <2>1, <2>2, <2>3, <2>4
<1>7. cycle'[d].phase \in {"push", "send", "apply"} => cycle'[d].from = cycle[d].from
  OBVIOUS
<1> QED
  BY <1>2, <1>3, <1>6, <1>7 DEF SeenSound

LEMMA NothingToPushForDevices ==
    ASSUME ServerInv, DeviceInv, NEW d \in Devices, NothingToPush(d)
    PROVE  DeviceInv'
<1> USE SyncAssumption
<1>1. SeenSound(d) /\ PageSound(d) /\ Holds(d) /\ SyncType /\ clock \in Nat
  BY DEF DeviceInv, DeviceSound, ServerInv, SyncType
<1>2. /\ SyncType' /\ cycle[d].phase = "push"
      /\ Cleaned(log[d], log'[d], pushed[d]) /\ \A n \in Nodes \ {d} : log'[n] = log[n]
      /\ cycle' = [cycle EXCEPT ![d] = Idle]
      /\ UNCHANGED <<db, since, pushed, clock, edits, instant>>
  BY <1>1, NothingToPushDoes
<1>3. LogsGrow
  BY NothingToPushForServer
<1>4. cycle'[d].phase = "idle" /\ \A c \in Devices \ {d} : cycle'[c] = cycle[c]
  BY <1>1, <1>2 DEF SyncType, Idle
<1>5. Server \in Nodes /\ \A c \in Devices : c \in Nodes /\ c # Server
  BY DEF Nodes
<1>6. \A c \in Devices \ {d} : DeviceSound(c)'
  BY <1>2, <1>3, <1>4, <1>5, OtherDevice DEF DeviceInv
<1>7. SeenSound(d)'
  <2>1. pushed[d] <= pushed'[d]
    BY <1>1, <1>2 DEF SyncType
  <2> QED
    BY <1>1, <1>2, <1>3, <1>4, <2>1, SeenAfterPush
<1>8. PageSound(d)'
  BY <1>1, <1>2, <1>3, <1>4, PageStays
<1>9. Holds(d)'
  <2>1. DOMAIN log'[d] = DOMAIN log[d]
    BY <1>2 DEF Cleaned
  <2> QED
    BY <1>1, <1>2, <1>3, <1>4, <2>1, HoldsStays
<1>10. VersionsAgree'
  <2>1. \A n \in Nodes : DOMAIN log'[n] = DOMAIN log[n] /\ \A i \in DOMAIN log[n] : Same(log'[n][i], log[n][i])
    BY <1>2 DEF Cleaned, Same
  <2>2. NothingNew
    BY <2>1 DEF NothingNew, Same
  <2> QED
    BY <2>2, VersionsStay DEF DeviceInv
<1>11. OwnIsOwn' /\ SeedsFirst'
  <2>1. log'[Server] = log[Server]
    BY <1>2, <1>5
  <2> QED
    BY <1>1, <1>2, <1>3, <2>1, OwnStays, SeedsStay DEF DeviceInv
<1> QED
  BY <1>6, <1>7, <1>8, <1>9, <1>10, <1>11 DEF DeviceInv, DeviceSound

LEMMA PushForDevices ==
    ASSUME ServerInv, DeviceInv, NEW d \in Devices, ApplyPush(d)
    PROVE  DeviceInv'
<1> USE SyncAssumption
<1> DEFINE page == cycle[d].page
           due  == Due(Server, page, FALSE)
           old  == log[Server]
           new  == log'[Server]
           k    == Len(old)
<1>1. SeenSound(d) /\ PageSound(d) /\ Holds(d) /\ SyncType /\ clock \in Nat
  BY DEF DeviceInv, DeviceSound, ServerInv, SyncType
<1>2. Server \in Nodes /\ \A c \in Devices : c \in Nodes /\ c # Server
  BY DEF Nodes
<1>3. /\ SyncType' /\ cycle[d].phase = "send"
      /\ due \subseteq Rows /\ \A r \in due : page[r] \in Entry
      /\ \A n \in Nodes \ {Server} : db'[n] = db[n]
      /\ k \in Nat /\ DOMAIN old = 1 .. k /\ DOMAIN new = 1 .. Len(new) /\ Len(new) \in Nat
      /\ \A i \in DOMAIN old : new[i] = old[i]
      /\ \A i \in k + 1 .. Len(new) : \E r \in due : new[i] = Logged(r, page[r].val, page[r].ts, d)
      /\ \A n \in Nodes \ {Server, d} : log'[n] = log[n]
      /\ Cleaned(log[d], log'[d], cycle[d].next)
      /\ instant' = instant \ ({Server} \X Rows)
      /\ pushed' = [pushed EXCEPT ![d] = cycle[d].next] \/ pushed' = pushed
      /\ cycle' = [cycle EXCEPT ![d] = Idle] \/ cycle' = [cycle EXCEPT ![d].phase = "push"]
      /\ UNCHANGED <<since, clock, edits>>
  BY PushDoes
<1>4. LogsGrow
  BY PushForServer
\* What is new at the server is from the device's log.
<1>5. \A r \in due : \E i \in DOMAIN log[d] :
          log[d][i].row = r /\ log[d][i].val = page[r].val /\ log[d][i].ts = page[r].ts
  <2> TAKE r \in due
  <2>1. /\ pushed[d] \in Nat /\ cycle[d].next \in Nat /\ cycle[d].next <= Len(log[d])
        /\ Tells(page, log[d], pushed[d] + 1 .. cycle[d].next)
        /\ Len(log[d]) \in Nat /\ DOMAIN log[d] = 1 .. Len(log[d])
    BY <1>1, <1>2, <1>3, LogTypes DEF ServerInv, PushesSound, PushSound, SyncType, Job
  <2>2. r \in Rows /\ page[r] # None
    BY <1>3, EntryTypes
  <2>3. page[r].row = r /\ \E i \in pushed[d] + 1 .. cycle[d].next : Same(page[r], log[d][i])
    BY <2>1, <2>2 DEF Tells
  <2>4. pushed[d] + 1 .. cycle[d].next \subseteq DOMAIN log[d]
    BY <2>1
  <2> QED
    BY <2>3, <2>4 DEF Same
<1> HIDE DEF due
<1>6. \A i \in DOMAIN new : \/ i \in DOMAIN old /\ new[i] = old[i]
                            \/ \E r \in due : /\ new[i].row = r /\ new[i].val = page[r].val
                                              /\ new[i].ts = page[r].ts /\ new[i].origin = d
  <2> TAKE i \in DOMAIN new
  <2>1. CASE i \in DOMAIN old
    BY <1>3, <2>1
  <2>2. CASE i \notin DOMAIN old
    <3>1. i \in k + 1 .. Len(new)
      BY <1>3, <2>2
    <3>2. PICK r \in due : new[i] = Logged(r, page[r].val, page[r].ts, d)
      BY <1>3, <3>1
    <3> QED
      BY <3>2 DEF Logged
  <2> QED
    BY <2>1, <2>2
<1>7. /\ \A c \in Devices \ {d} : cycle'[c] = cycle[c] /\ pushed'[c] = pushed[c]
      /\ cycle'[d].phase = "idle" \/ (cycle'[d].phase = "push" /\ cycle'[d].from = cycle[d].from)
  <2>1. cycle \in [Devices -> Job] /\ cycle[d] \in Job /\ pushed \in [Devices -> Nat]
    BY <1>1 DEF SyncType
  <2>2. \A c \in Devices \ {d} : cycle'[c] = cycle[c] /\ pushed'[c] = pushed[c]
    BY <1>3, <2>1
  <2>3. cycle'[d] = Idle \/ cycle'[d] = [cycle[d] EXCEPT !.phase = "push"]
    BY <1>3, <2>1
  <2>4. Idle.phase = "idle" /\ [cycle[d] EXCEPT !.phase = "push"].phase = "push"
        /\ [cycle[d] EXCEPT !.phase = "push"].from = cycle[d].from
    BY <2>1 DEF Idle, Job
  <2> QED
    BY <2>2, <2>3, <2>4
<1>8. \A c \in Devices \ {d} : DeviceSound(c)'
  <2>1. instant' \subseteq instant
    BY <1>3
  <2>2. \A c \in Devices \ {d} : log'[c] = log[c] /\ db'[c] = db[c] /\ since'[c] = since[c]
    BY <1>2, <1>3
  <2> QED
    BY <1>3, <1>4, <1>7, <2>1, <2>2, OtherDevice DEF DeviceInv
<1>9. SeenSound(d)'
  <2>1. pushed[d] <= pushed'[d]
    <3>1. pushed[d] <= cycle[d].next /\ pushed[d] \in Nat /\ pushed \in [Devices -> Nat]
      BY <1>1, <1>3 DEF ServerInv, PushesSound, PushSound, SyncType
    <3>2. pushed'[d] = cycle[d].next \/ pushed'[d] = pushed[d]
      BY <1>3, <3>1
    <3> QED
      BY <3>1, <3>2
  <2> QED
    BY <1>1, <1>3, <1>4, <1>7, <2>1, SeenAfterPush
<1>10. PageSound(d)'
  BY <1>1, <1>3, <1>4, <1>7, PageStays
<1>11. Holds(d)'
  <2>1. DOMAIN log'[d] = DOMAIN log[d] /\ db'[d] = db[d] /\ since'[d] = since[d]
    BY <1>2, <1>3 DEF Cleaned
  <2>2. clock <= clock' /\ cycle'[d].phase # "apply"
        /\ \A r \in Rows : <<d, r>> \in instant' /\ clock' = clock => <<d, r>> \in instant
    BY <1>1, <1>3, <1>7
  <2> QED
    BY <1>1, <1>3, <1>4, <2>1, <2>2, HoldsStays
<1>12. VersionsAgree'
  <2>1. NothingNew
    <3>1. ASSUME NEW n \in Nodes, NEW i \in DOMAIN log'[n]
          PROVE  \E m \in Nodes : \E j \in DOMAIN log[m] :
                     /\ log'[n][i].row = log[m][j].row /\ log'[n][i].val = log[m][j].val
                     /\ log'[n][i].ts = log[m][j].ts
      <4>1. CASE n = Server
        <5>1. CASE i \in DOMAIN old /\ new[i] = old[i]
          BY <4>1, <5>1
        <5>2. CASE \E r \in due : new[i].row = r /\ new[i].val = page[r].val /\ new[i].ts = page[r].ts
          <6>1. PICK r \in due : new[i].row = r /\ new[i].val = page[r].val /\ new[i].ts = page[r].ts
            BY <5>2
          <6>2. PICK j \in DOMAIN log[d] : log[d][j].row = r /\ log[d][j].val = page[r].val /\ log[d][j].ts = page[r].ts
            BY <1>5
          <6> QED
            BY <1>2, <4>1, <6>1, <6>2
        <5> QED
          BY <1>6, <4>1, <5>1, <5>2
      <4>2. CASE n = d
        BY <1>2, <1>3, <4>2 DEF Cleaned, Same
      <4>3. CASE n # Server /\ n # d
        BY <1>3, <4>3
      <4> QED
        BY <4>1, <4>2, <4>3
    <3> QED
      BY <3>1 DEF NothingNew
  <2> QED
    BY <2>1, VersionsStay DEF DeviceInv
<1>13. OwnIsOwn'
  <2> SUFFICES ASSUME NEW c \in Devices, NEW j \in DOMAIN new, new[j].origin = c
               PROVE  \E i \in DOMAIN log'[c] : log'[c][i].row = new[j].row /\ log'[c][i].val = new[j].val
    BY DEF OwnIsOwn
  <2>1. \E i \in DOMAIN log[c] : log[c][i].row = new[j].row /\ log[c][i].val = new[j].val
    <3>1. CASE j \in DOMAIN old /\ new[j] = old[j]
      BY <3>1 DEF DeviceInv, OwnIsOwn
    <3>2. CASE \E r \in due : new[j].row = r /\ new[j].val = page[r].val /\ new[j].ts = page[r].ts /\ new[j].origin = d
      BY <1>5, <3>2
    <3> QED
      BY <1>6, <3>1, <3>2
  <2>2. PICK i \in DOMAIN log[c] : log[c][i].row = new[j].row /\ log[c][i].val = new[j].val
    BY <2>1
  <2>3. i \in DOMAIN log'[c] /\ Same(log'[c][i], log[c][i])
    BY <1>2, <1>4 DEF LogsGrow, Extends
  <2> QED
    BY <2>2, <2>3 DEF Same
<1>14. SeedsFirst'
  BY <1>4, SeedsStay DEF DeviceInv
<1> QED
  BY <1>8, <1>9, <1>10, <1>11, <1>12, <1>13, <1>14 DEF DeviceInv, DeviceSound

-----------------------------------------------------------------------------
(* Applying a page *)

\* What a page has of a row is the newest that others changed of it.
LEMMA PageIsNews ==
    ASSUME ServerInv, NEW d \in Devices, PageSound(d), cycle[d].phase = "apply",
           NEW r \in Rows, cycle[d].page[r] # None
    PROVE  LET e == cycle[d].page[r]
               s == log[Server]
               O == Others(s, d, 0, cycle[d].next)
           IN  /\ e \in Entry /\ e.row = r
               /\ \E j \in O : since[d] < j /\ s[j].row = r /\ s[j].val = e.val /\ s[j].ts = e.ts
               /\ \A k \in O : s[k].row = r => s[k].ts <= e.ts
               /\ \A k \in DOMAIN s : k <= since[d] /\ s[k].row = r => s[k].ts < e.ts
<1> DEFINE e == cycle[d].page[r]
           s == log[Server]
           O == Others(s, d, 0, cycle[d].next)
           N == Others(s, d, since[d], cycle[d].next)
<1>1. SyncType /\ Server \in Nodes /\ since[d] \in Nat /\ cycle[d].next \in Nat
      /\ cycle[d].page \in [Rows -> Entry \cup {None}]
  BY DEF ServerInv, SyncType, Nodes, Job
<1>2. /\ \A k \in DOMAIN s : k \in Nat /\ s[k].ts \in Nat
      /\ Rises(s)
  BY <1>1, LogTypes, EntryTypes DEF ServerInv, LogsRise
<1>3. e \in Entry /\ e.ts \in Nat
  BY <1>1, EntryTypes
<1>4. Tells(cycle[d].page, s, N)
  BY DEF PageSound
<1>5. e.row = r /\ \E j \in N : Same(e, s[j])
  BY <1>4 DEF Tells
<1>6. PICK j \in N : Same(e, s[j])
  BY <1>5
<1>7. j \in O /\ since[d] < j /\ j \in DOMAIN s
  BY <1>1, <1>2 DEF Others
<1>8. s[j].row = r /\ s[j].val = e.val /\ s[j].ts = e.ts
  BY <1>5, <1>6 DEF Same
<1>9. \A k \in DOMAIN s : k <= since[d] /\ s[k].row = r => s[k].ts < e.ts
  <2> TAKE k \in DOMAIN s
  <2>1. k <= since[d] => k < j
    BY <1>1, <1>2, <1>7
  <2> QED
    BY <1>2, <1>7, <1>8, <2>1 DEF Rises
<1>10. \A k \in O : s[k].row = r => s[k].ts <= e.ts
  <2> TAKE k \in O
  <2>1. k \in DOMAIN s /\ k \in Nat /\ k <= cycle[d].next /\ s[k].origin # d
    BY <1>2 DEF Others
  <2>2. CASE k <= since[d]
    BY <1>2, <1>3, <1>9, <2>1, <2>2
  <2>3. CASE ~ (k <= since[d])
    <3>1. k \in N
      BY <1>1, <2>1, <2>3 DEF Others
    <3> QED
      BY <1>4, <3>1 DEF Tells
  <2> QED
    BY <2>2, <2>3
<1> HIDE DEF O, N, e
<1>11. \E i \in O : since[d] < i /\ s[i].row = r /\ s[i].val = e.val /\ s[i].ts = e.ts
  BY <1>7, <1>8
<1> QED
  BY <1>3, <1>5, <1>9, <1>10, <1>11 DEF O, e

\* A change that is written is as new as what the device wrote itself, also
\* where that is no longer in its log.
LEMMA DueIsNews ==
    ASSUME ServerInv, NEW d \in Devices, SeenSound(d), PageSound(d), cycle[d].phase = "apply",
           NEW r \in Due(d, cycle[d].page, TRUE)
    PROVE  \A i \in DOMAIN log[d] : log[d][i].row = r => log[d][i].ts <= cycle[d].page[r].ts
<1> DEFINE e == cycle[d].page[r]
<1>1. r \in Rows /\ e # None /\ ~ Outdated(d, e, TRUE)
  BY DEF Due
<1>2. /\ e \in Entry /\ e.row = r
      /\ \A k \in DOMAIN log[Server] : k <= since[d] /\ log[Server][k].row = r => log[Server][k].ts < e.ts
  BY <1>1, PageIsNews
<1>3. e.ts \in Nat /\ SyncType /\ Server \in Nodes /\ d \in Nodes
  BY <1>2, EntryTypes DEF ServerInv, Nodes
<1>4. /\ \A i \in DOMAIN log[d] : log[d][i].ts \in Nat
      /\ \A k \in DOMAIN log[Server] : log[Server][k].ts \in Nat
  BY <1>3, LogTypes, EntryTypes
<1> HIDE DEF e
<1> SUFFICES ASSUME NEW i \in DOMAIN log[d], log[d][i].row = r
             PROVE  log[d][i].ts <= e.ts
  BY DEF e
<1>5. CASE log[d][i].kept
  <2>1. ~ (log[d][i].ts > e.ts)
    BY <1>1, <1>2, <1>5 DEF Outdated
  <2> QED
    BY <1>3, <1>4, <2>1
<1>6. CASE ~ log[d][i].kept
  <2>1. Covered(log[Server], log[d][i], since[d])
    BY <1>6 DEF SeenSound
  <2>2. PICK k \in DOMAIN log[Server] :
            k <= since[d] /\ log[Server][k].row = r /\ log[d][i].ts <= log[Server][k].ts
    BY <2>1 DEF Covered
  <2>3. log[Server][k].ts < e.ts
    BY <1>2, <2>2
  <2> QED
    BY <1>3, <1>4, <2>2, <2>3
<1> QED
  BY <1>5, <1>6

LEMMA OutdatedIsOlder ==
    ASSUME ServerInv, NEW d \in Devices, PageSound(d), cycle[d].phase = "apply",
           NEW r \in Rows, cycle[d].page[r] # None, r \notin Due(d, cycle[d].page, TRUE)
    PROVE  \E i \in DOMAIN log[d] : log[d][i].row = r /\ cycle[d].page[r].ts < log[d][i].ts
<1> DEFINE e == cycle[d].page[r]
<1>1. Outdated(d, e, TRUE)
  BY DEF Due
<1>2. e \in Entry /\ e.row = r
  BY PageIsNews
<1>3. e.ts \in Nat /\ SyncType /\ d \in Nodes
  BY <1>2, EntryTypes DEF ServerInv, Nodes
<1>4. \A i \in DOMAIN log[d] : log[d][i].ts \in Nat
  BY <1>3, LogTypes, EntryTypes
<1>5. PICK i \in DOMAIN log[d] : log[d][i].row = e.row /\ log[d][i].ts > e.ts
  BY <1>1 DEF Outdated
<1> QED
  BY <1>2, <1>3, <1>4, <1>5

\* What a device holds of a row once its page is applied.
AfterPage(d, r) ==
    LET page == cycle[d].page
        due  == Due(d, page, TRUE)
        todo == due \ (IF Orphan(d, page, due) THEN {Child} ELSE {})
    IN  IF r \in todo THEN page[r].val ELSE db[d][r]

\* A row the device does not have was never written on it.
LEMMA AbsentIsUnwritten ==
    ASSUME ServerInv, NEW d \in Devices, NEW p, Applies(d, p), NEW r \in Rows, db[d][r] = Absent
    PROVE  \A i \in DOMAIN log[d] : log[d][i].row # r
<1>1. SyncType /\ d \in Nodes /\ Server \in Nodes
  BY DEF ServerInv, Nodes
<1>2. /\ \A i \in DOMAIN log[d] : log[d][i].val # Absent
      /\ \A i \in DOMAIN log[Server] : log[Server][i].val # Absent
  BY <1>1, LogTypes, EntryTypes
<1>3. Newer(Absent, log[d], log[Server], d, r, p)
  BY DEF Applies
<1>4. Others(log[Server], d, 0, p) \subseteq DOMAIN log[Server]
  BY DEF Others
<1> QED
  BY <1>2, <1>3, <1>4 DEF Newer

LEMMA NewerAfterPage ==
    ASSUME ServerInv, NEW d \in Devices, DeviceSound(d), cycle[d].phase = "apply",
           NEW p \in 0 .. Len(log[Server]), Applies(d, p), NEW r \in Rows
    PROVE  Newer(AfterPage(d, r), log[d], log[Server], d, r, cycle[d].next)
<1> USE SyncAssumption
<1> DEFINE page == cycle[d].page
           next == cycle[d].next
           due  == Due(d, page, TRUE)
           todo == due \ (IF Orphan(d, page, due) THEN {Child} ELSE {})
           s == log[d]
           t == log[Server]
           O == Others(t, d, 0, next)
           B == Others(t, d, 0, p)
           v == db[d][r]
<1>1. SeenSound(d) /\ PageSound(d) /\ SyncType /\ Server \in Nodes /\ d \in Nodes
  BY DEF DeviceSound, ServerInv, Nodes
<1>2. p \in Nat /\ next \in Nat /\ since[d] \in Nat /\ since[d] <= p /\ p <= next
  BY <1>1, LogTypes DEF Applies, SyncType, Job
<1>3. /\ \A i \in DOMAIN s : s[i].ts \in Nat
      /\ \A i \in DOMAIN t : t[i].ts \in Nat /\ i \in Nat
  BY <1>1, LogTypes, EntryTypes
<1>4. B \subseteq O /\ O \subseteq DOMAIN t /\ \A k \in O : k <= p => k \in B
  BY <1>2, <1>3 DEF Others
<1>5. Newer(v, s, t, d, r, p)
  BY DEF Applies
<1>6. CASE page[r] = None
  <2>1. AfterPage(d, r) = v
    BY <1>6 DEF AfterPage, Due
  <2>2. \A k \in O : t[k].row = r => k \in B
    <3> TAKE k \in O
    <3>1. CASE k <= since[d]
      BY <1>2, <1>3, <1>4, <3>1
    <3>2. CASE ~ (k <= since[d])
      <4>1. k \in Others(t, d, since[d], next)
        BY <1>2, <1>3, <3>2 DEF Others
      <4>2. Tells(page, t, Others(t, d, since[d], next))
        BY <1>1 DEF PageSound
      <4> QED
        BY <1>6, <4>1, <4>2 DEF Tells
    <3> QED
      BY <3>1, <3>2
  <2> HIDE DEF O, B
  <2>3. Newer(v, s, t, d, r, next)
    BY <1>4, <1>5, <2>2 DEF Newer, O, B
  <2> QED
    BY <2>1, <2>3
<1>7. CASE page[r] # None
  <2> DEFINE e == page[r]
  <2>1. /\ e \in Entry /\ e.row = r
        /\ \E j \in O : since[d] < j /\ t[j].row = r /\ t[j].val = e.val /\ t[j].ts = e.ts
        /\ \A k \in O : t[k].row = r => t[k].ts <= e.ts
    BY <1>1, <1>7, PageIsNews
  <2>2. e.ts \in Nat /\ e.val # Absent
    BY <2>1, EntryTypes
  <2>3. CASE r \in todo
    <3>1. AfterPage(d, r) = e.val
      BY <2>3 DEF AfterPage
    <3>2. \A i \in DOMAIN s : s[i].row = r => s[i].ts <= e.ts
      BY <1>1, <2>3, DueIsNews
    <3> HIDE DEF O, e
    <3>3. PICK j \in O : t[j].row = r /\ t[j].val = e.val /\ t[j].ts = e.ts
      BY <2>1
    <3> QED
      BY <2>1, <3>1, <3>2, <3>3 DEF Newer, O
  <2>4. CASE r \notin due
    <3>1. AfterPage(d, r) = v
      BY <2>4 DEF AfterPage
    <3>2. PICK i \in DOMAIN s : s[i].row = r /\ e.ts < s[i].ts
      BY <1>1, <1>7, <2>4, OutdatedIsOlder
    <3> HIDE DEF O, B, e
    <3>3. \E a \in DOMAIN s :
             /\ s[a].row = r /\ v = s[a].val
             /\ \A k \in DOMAIN s : s[k].row = r => s[k].ts <= s[a].ts
      <4>1. ASSUME NEW j \in B, t[j].row = r, \A k \in DOMAIN s : s[k].row = r => s[k].ts <= t[j].ts
            PROVE  FALSE
        <5>1. j \in O /\ j \in DOMAIN t /\ t[j].ts <= e.ts
          BY <1>4, <2>1, <4>1
        <5>2. s[i].ts <= t[j].ts
          BY <3>2, <4>1
        <5> QED
          BY <1>3, <2>2, <3>2, <5>1, <5>2
      <4>2. ~ (\A k \in DOMAIN s : s[k].row # r)
        BY <3>2
      <4> QED
        BY <1>5, <4>1, <4>2 DEF Newer, B
    <3>4. PICK a \in DOMAIN s :
             /\ s[a].row = r /\ v = s[a].val
             /\ \A k \in DOMAIN s : s[k].row = r => s[k].ts <= s[a].ts
      BY <3>3
    <3>5. \A k \in O : t[k].row = r => t[k].ts < s[a].ts
      <4> SUFFICES ASSUME NEW k \in O, t[k].row = r PROVE t[k].ts < s[a].ts
        OBVIOUS
      <4>1. t[k].ts <= e.ts /\ s[i].ts <= s[a].ts /\ k \in DOMAIN t
        BY <1>4, <2>1, <3>2, <3>4
      <4> QED
        BY <1>3, <2>2, <3>2, <4>1
    <3> QED
      BY <3>1, <3>4, <3>5 DEF Newer, O
  <2>5. CASE r \in due /\ r \notin todo
    <3>1. AfterPage(d, r) = v
      BY <2>5 DEF AfterPage
    <3>2. r = Child /\ db[d][Parent] = Absent
      BY <2>5 DEF Orphan
    <3>3. v = Absent
      BY <3>2 DEF Applies
    <3>4. \A i \in DOMAIN s : s[i].row # r
      BY <3>3, AbsentIsUnwritten
    <3> QED
      BY <3>1, <3>3, <3>4 DEF Newer
  <2> QED
    BY <2>3, <2>4, <2>5
<1> QED
  BY <1>6, <1>7

\* Pages of two or more bring all rows, the parent before the child.
LEMMA AllArrive ==
    ASSUME ServerInv, SeedsFirst, NEW d \in Devices, DeviceSound(d), cycle[d].phase = "apply", PullPage > 1
    PROVE  \A r \in Rows : AfterPage(d, r) # Absent
<1> USE SyncAssumption
<1> DEFINE page == cycle[d].page
           next == cycle[d].next
           due  == Due(d, page, TRUE)
<1> SUFFICES ASSUME NEW r \in Rows, AfterPage(d, r) = Absent PROVE FALSE
  OBVIOUS
<1>1. SeenSound(d) /\ PageSound(d) /\ SyncType /\ Server \in Nodes /\ d \in Nodes /\ d # "seed"
  BY DEF DeviceSound, ServerInv, Nodes
<1>2. PICK p \in 0 .. Len(log[Server]) : Applies(d, p)
  BY DEF DeviceSound, Holds
<1>3. \A q \in due : q \in Rows /\ page[q].val # Absent
  <2>1. page \in [Rows -> Entry \cup {None}]
    BY <1>1 DEF SyncType, Job
  <2> QED
    BY <2>1, EntryTypes DEF Due
<1>4. db[d][r] = Absent /\ (r \notin due \/ (r = Child /\ Orphan(d, page, due)))
  BY <1>3 DEF AfterPage
<1>5. since[d] = 0 /\ next > 1 /\ next \in Nat
  <2>1. p = 0
    BY <1>2, <1>4 DEF Applies
  <2> QED
    BY <1>1, <1>2, <2>1 DEF Applies, PageSound, SyncType, Job
<1>6. ASSUME NEW q \in Rows, db[d][q] = Absent
      PROVE  q \in due
  <2>1. PICK i \in {1, 2} : i \in DOMAIN log[Server] /\ log[Server][i].row = q /\ log[Server][i].origin = "seed"
    BY DEF SeedsFirst
  <2>2. i \in Others(log[Server], d, since[d], next)
    BY <1>1, <1>5, <2>1 DEF Others
  <2>3. page[q] # None
    <3>1. Tells(page, log[Server], Others(log[Server], d, since[d], next))
      BY <1>1 DEF PageSound
    <3> QED
      BY <2>1, <2>2, <3>1 DEF Tells
  <2>4. \A k \in DOMAIN log[d] : log[d][k].row # q
    BY <1>2, <1>6, AbsentIsUnwritten
  <2> HIDE DEF due
  <2> SUFFICES ASSUME q \notin due PROVE FALSE
    OBVIOUS
  <2>5. q \notin Due(d, page, TRUE)
    BY DEF due
  <2>6. \E k \in DOMAIN log[d] : log[d][k].row = q /\ page[q].ts < log[d][k].ts
    BY <1>1, <2>3, <2>5, OutdatedIsOlder
  <2> QED
    BY <2>4, <2>6
<1>7. r \in due
  BY <1>4, <1>6
<1>8. r = Child /\ Orphan(d, page, due)
  BY <1>4, <1>7
<1>9. db[d][Parent] = Absent /\ Parent \in Rows
  BY <1>8 DEF Orphan, Rows
<1>10. Parent \in due /\ page[Parent].val # Absent
  BY <1>3, <1>6, <1>9
<1> QED
  BY <1>8, <1>10 DEF Orphan

LEMMA SeenAfterPage ==
    ASSUME SyncType, SyncType', NEW d \in Devices, SeenSound(d), PageSound(d), cycle[d].phase = "apply",
           UNCHANGED <<log, pushed, clock>>,
           \/ /\ since'[d] = cycle[d].next /\ cycle'[d].from = cycle[d].from
              /\ cycle'[d].phase = (IF cycle[d].more THEN "pull" ELSE "push")
           \/ since'[d] = since[d] /\ cycle'[d].phase = "idle"
    PROVE  SeenSound(d)'
<1>1. /\ cycle[d].from \in Nat /\ pushed[d] \in Nat /\ since[d] \in Nat /\ cycle[d].next \in Nat
      /\ cycle[d].from <= pushed[d] /\ PushedBefore(d) = cycle[d].from /\ ReadTo(d) = cycle[d].next
      /\ since[d] <= cycle[d].next /\ d \in Nodes /\ Server \in Nodes
  BY DEF SeenSound, PageSound, SyncType, Job, PushedBefore, ReadTo, Nodes
<1>2. /\ \A i \in DOMAIN log[d] : i \in Nat
      /\ \A j \in DOMAIN log[Server] : j \in Nat
  BY <1>1, LogTypes
<1>3. \A e : Covered(log[Server], e, since[d]) => Covered(log[Server], e, cycle[d].next)
  BY <1>1, <1>2 DEF Covered
<1>4. CASE /\ since'[d] = cycle[d].next /\ cycle'[d].from = cycle[d].from
           /\ cycle'[d].phase = (IF cycle[d].more THEN "pull" ELSE "push")
  <2>1. /\ PushedBefore(d)' = cycle[d].from /\ ReadTo(d)' = cycle[d].next
        /\ cycle'[d].phase # "apply" /\ cycle'[d].phase # "send"
        /\ cycle'[d].phase = "push" => ~ cycle[d].more
    BY <1>4 DEF PushedBefore, ReadTo
  <2> QED
    BY <1>1, <1>3, <1>4, <2>1 DEF SeenSound
<1>5. CASE since'[d] = since[d] /\ cycle'[d].phase = "idle"
  <2>1. PushedBefore(d)' = pushed[d] /\ \A i \in DOMAIN log[d] : i > pushed[d] => i > PushedBefore(d)
    BY <1>1, <1>2, <1>5 DEF PushedBefore
  <2> QED
    BY <1>1, <1>5, <2>1 DEF SeenSound
<1> QED
  BY <1>4, <1>5

LEMMA ApplyPullForDevices ==
    ASSUME ServerInv, DeviceInv, NEW d \in Devices, ApplyPull(d)
    PROVE  DeviceInv'
<1> USE SyncAssumption
<1>1. SeenSound(d) /\ PageSound(d) /\ Holds(d) /\ DeviceSound(d) /\ SyncType /\ since[d] <= Len(log[Server])
  BY DEF DeviceInv, DeviceSound, ServerInv, PageSound
<1>2. d \in Nodes /\ Server \in Nodes /\ cycle[d] \in Job /\ cycle \in [Devices -> Job] /\ since \in [Devices -> Nat]
  BY <1>1 DEF Nodes, SyncType
<1>3. /\ SyncType' /\ cycle[d].phase = "apply"
      /\ \A r \in Rows : db'[d][r] = AfterPage(d, r)
      /\ \A n \in Nodes \ {d} : db'[n] = db[n]
      /\ instant' = instant \ ({d} \X Rows)
      /\ \/ /\ since' = [since EXCEPT ![d] = cycle[d].next]
            /\ cycle' = [cycle EXCEPT ![d].phase = IF cycle[d].more THEN "pull" ELSE "push"]
         \/ since' = since /\ cycle' = [cycle EXCEPT ![d] = Idle]
      /\ UNCHANGED <<log, pushed, clock, edits>>
  BY <1>1, ApplyPullDoes DEF AfterPage
<1>4. LogsGrow
  BY <1>1, CycleForServer
<1>5. /\ \A c \in Devices \ {d} : since'[c] = since[c] /\ cycle'[c] = cycle[c]
      /\ \/ /\ since'[d] = cycle[d].next /\ cycle'[d].from = cycle[d].from
            /\ cycle'[d].phase = (IF cycle[d].more THEN "pull" ELSE "push")
         \/ since'[d] = since[d] /\ cycle'[d].phase = "idle"
  <2>1. CASE /\ since' = [since EXCEPT ![d] = cycle[d].next]
             /\ cycle' = [cycle EXCEPT ![d].phase = IF cycle[d].more THEN "pull" ELSE "push"]
    <3>1. cycle'[d] = [cycle[d] EXCEPT !.phase = IF cycle[d].more THEN "pull" ELSE "push"]
      BY <1>2, <2>1
    <3>2. since'[d] = cycle[d].next /\ \A c \in Devices \ {d} : since'[c] = since[c] /\ cycle'[c] = cycle[c]
      BY <1>2, <2>1
    <3>3. cycle'[d].from = cycle[d].from /\ cycle'[d].phase = (IF cycle[d].more THEN "pull" ELSE "push")
      BY <1>2, <3>1 DEF Job
    <3> QED
      BY <3>2, <3>3
  <2>2. CASE since' = since /\ cycle' = [cycle EXCEPT ![d] = Idle]
    <3>1. cycle'[d] = Idle /\ \A c \in Devices \ {d} : cycle'[c] = cycle[c]
      BY <1>2, <2>2
    <3>2. Idle.phase = "idle"
      BY DEF Idle
    <3>3. since'[d] = since[d] /\ \A c \in Devices \ {d} : since'[c] = since[c]
      BY <2>2
    <3>4. cycle'[d].phase = "idle"
      BY <3>1, <3>2
    <3> QED
      BY <3>1, <3>3, <3>4
  <2>3. \/ /\ since' = [since EXCEPT ![d] = cycle[d].next]
           /\ cycle' = [cycle EXCEPT ![d].phase = IF cycle[d].more THEN "pull" ELSE "push"]
        \/ since' = since /\ cycle' = [cycle EXCEPT ![d] = Idle]
    BY <1>3
  <2> QED
    BY <2>1, <2>2, <2>3
<1>6. \A c \in Devices \ {d} : DeviceSound(c)'
  <2>1. instant' \subseteq instant /\ \A c \in Devices \ {d} : db'[c] = db[c]
    BY <1>3 DEF Nodes
  <2> QED
    BY <1>3, <1>4, <1>5, <2>1, OtherDevice DEF DeviceInv
<1>7. SeenSound(d)'
  BY <1>1, <1>3, <1>5, SeenAfterPage
<1>8. PageSound(d)'
  BY <1>1, <1>3, <1>5 DEF PageSound
<1>9. Holds(d)'
  <2>1. PICK p \in 0 .. Len(log[Server]) : Applies(d, p)
    BY <1>1 DEF Holds
  <2>10. PICK next \in Nat : next = cycle[d].next
    BY <1>2 DEF Job
  <2>2. /\ next \in Nat /\ since[d] \in Nat /\ since[d] <= next /\ next <= Len(log[Server])
        /\ next <= since[d] + PullPage /\ Len(log[Server]) \in Nat
    BY <1>1, <1>2, <1>3, <2>10, LogTypes DEF PageSound, Job
  <2>3. \A r \in Rows : Newer(db'[d][r], log'[d], log'[Server], d, r, next)
    <3> TAKE r \in Rows
    <3>1. Newer(AfterPage(d, r), log[d], log[Server], d, r, next)
      BY <1>1, <1>3, <2>1, <2>10, NewerAfterPage
    <3> QED
      BY <1>3, <3>1
  <2>4. \A r \in Rows : <<d, r>> \notin instant'
    BY <1>3
  <2>5. db'[d][Parent] = Absent => db'[d][Child] = Absent
    <3>1. \A r \in Due(d, cycle[d].page, TRUE) : cycle[d].page[r].val # Absent
      <4>1. cycle[d].page \in [Rows -> Entry \cup {None}]
        BY <1>2 DEF Job
      <4> QED
        BY <4>1, EntryTypes DEF Due
    <3>2. db[d][Parent] = Absent => db[d][Child] = Absent
      BY <2>1 DEF Applies
    <3>3. Parent \in Rows /\ Child \in Rows
      BY DEF Rows
    <3>4. ASSUME AfterPage(d, Parent) = Absent PROVE AfterPage(d, Child) = Absent
      <4>1. Parent \notin Due(d, cycle[d].page, TRUE) /\ db[d][Parent] = Absent
        BY <3>1, <3>4 DEF AfterPage
      <4> QED
        BY <3>1, <3>2, <4>1 DEF AfterPage, Orphan
    <3> QED
      BY <1>3, <3>3, <3>4
  <2>6. PullPage > 1 => \A r \in Rows : db'[d][r] # Absent
    BY <1>1, <1>3, AllArrive DEF DeviceInv
  <2>7. since'[d] <= next /\ next <= since'[d] + PullPage /\ cycle'[d].phase # "apply"
    BY <1>5, <2>2, <2>10
  <2>8. log' = log
    BY <1>3
  <2>9. Applies(d, next)'
    BY <2>2, <2>3, <2>4, <2>5, <2>6, <2>7, <2>8 DEF Applies
  <2> QED
    BY <2>2, <2>8, <2>9 DEF Holds
<1>10. VersionsAgree' /\ OwnIsOwn' /\ SeedsFirst'
  BY <1>3, UnwrittenForDevices
<1> QED
  BY <1>6, <1>7, <1>8, <1>9, <1>10 DEF DeviceInv, DeviceSound

-----------------------------------------------------------------------------
(* The invariants hold of every reachable state *)

LEMMA InitHolds ==
    ASSUME Init
    PROVE  ServerInv /\ DeviceInv
<1> USE SyncAssumption
<1>1. PICK order \in {<<Parent, Child>>, <<Child, Parent>>}, merging \in SUBSET Devices :
          /\ db = [n \in Nodes |-> [r \in Rows |-> IF n = Server \/ n \in merging THEN 0 ELSE Absent]]
          /\ log = [n \in Nodes |-> IF n = Server \/ n \in merging
                        THEN [i \in 1 .. 2 |-> Logged(order[i], 0, 0, "seed")] ELSE <<>>]
          /\ since = [d \in Devices |-> 0] /\ pushed = [d \in Devices |-> 0]
          /\ cycle = [d \in Devices |-> Idle]
          /\ clock = 1 /\ edits = 0 /\ instant = {}
  BY DEF Init
<1> DEFINE seeds == [i \in 1 .. 2 |-> Logged(order[i], 0, 0, "seed")]
           Seeded(n) == n = Server \/ n \in merging
<1>2. /\ order[1] \in Rows /\ order[2] \in Rows /\ order[1] # order[2]
      /\ \A r \in Rows : r = order[1] \/ r = order[2]
  BY DEF Rows
<1>3. 0 \in Version
  BY DEF Version
<1>4. /\ Server \in Nodes /\ Devices \subseteq Nodes
  BY DEF Nodes
<1>5. /\ seeds \in Seq(Entry) /\ Len(seeds) = 2 /\ DOMAIN seeds = 1 .. 2
      /\ \A i \in 1 .. 2 : /\ seeds[i].row = order[i] /\ seeds[i].val = 0 /\ seeds[i].ts = 0
                           /\ seeds[i].origin = "seed" /\ seeds[i].kept
  <2>1. ASSUME NEW i \in 1 .. 2
        PROVE  /\ Logged(order[i], 0, 0, "seed") \in Entry /\ order[i] \in Rows
               /\ seeds[i] = Logged(order[i], 0, 0, "seed")
    <3>1. order[i] \in Rows
      BY <1>2
    <3> QED
      BY <1>3, <3>1 DEF Logged, Entry
  <2>2. seeds \in [1 .. 2 -> Entry]
    BY <2>1
  <2>3. seeds \in Seq(Entry)
    BY <2>2, SeqDef
  <2>4. Len(seeds) = 2
    BY <2>2, <2>3, LenProperties
  <2> QED
    BY <2>1, <2>3, <2>4 DEF Logged
<1> HIDE DEF seeds
<1>6. \A n \in Nodes : /\ Seeded(n) => log[n] = seeds /\ \A r \in Rows : db[n][r] = 0
                       /\ ~ Seeded(n) => log[n] = <<>> /\ \A r \in Rows : db[n][r] = Absent
  BY <1>1 DEF seeds
<1>7. \A d \in Devices : since[d] = 0 /\ pushed[d] = 0 /\ cycle[d] = Idle
  BY <1>1
<1>8. Idle.phase = "idle" /\ Idle.from = 0 /\ Idle \in Job
  BY DEF Idle, NoPage, Job, Phase
<1>9. \A n \in Nodes : /\ log[n] \in Seq(Entry) /\ DOMAIN log[n] = (IF Seeded(n) THEN 1 .. 2 ELSE {})
                       /\ \A i \in DOMAIN log[n] : Seeded(n) /\ i \in 1 .. 2 /\ log[n][i] = seeds[i]
  <2> TAKE n \in Nodes
  <2>1. CASE Seeded(n)
    BY <1>5, <1>6, <2>1
  <2>2. CASE ~ Seeded(n)
    <3>1. <<>> \in Seq(Entry) /\ DOMAIN <<>> = {}
      BY EmptySeq
    <3> QED
      BY <1>6, <2>2, <3>1
  <2> QED
    BY <2>1, <2>2
<1>10. \A n \in Nodes : \A i \in DOMAIN log[n] :
          /\ log[n][i].row = order[i] /\ log[n][i].val = 0 /\ log[n][i].ts = 0
          /\ log[n][i].origin = "seed" /\ log[n][i].kept /\ i \in 1 .. 2
  BY <1>5, <1>9
<1>11. \A n \in Nodes : Len(log[n]) \in Nat
  BY <1>9, LenProperties
<1>12. DOMAIN log[Server] = 1 .. 2 /\ Len(log[Server]) = 2
  BY <1>4, <1>5, <1>6
<1>13. "seed" \notin Devices /\ \A d \in Devices : d # "seed"
  BY <1>4
<1>23. clock = 1 /\ edits = 0 /\ instant = {}
  BY <1>1
<1>14. SyncType
  <2>1. db \in [Nodes -> [Rows -> Version \cup {Absent}]]
    BY <1>1, <1>3
  <2>2. log \in [Nodes -> Seq(Entry)]
    BY <1>1, <1>9
  <2>3. since \in [Devices -> Nat] /\ pushed \in [Devices -> Nat] /\ cycle \in [Devices -> Job]
    BY <1>1, <1>8
  <2> QED
    BY <1>1, <1>3, <2>1, <2>2, <2>3 DEF SyncType
<1>15. InPast /\ WritesLater
  BY <1>10, <1>23 DEF InPast, WritesLater
<1>16. LogsRise
  <2>1. ASSUME NEW n \in Nodes, NEW i \in DOMAIN log[n], NEW j \in DOMAIN log[n], i < j
        PROVE  log[n][i].row # log[n][j].row
    <3>1. i \in 1 .. 2 /\ j \in 1 .. 2 /\ log[n][i].row = order[i] /\ log[n][j].row = order[j]
      BY <1>10
    <3>2. i = 1 /\ j = 2
      BY <2>1, <3>1
    <3> QED
      BY <1>2, <3>1, <3>2
  <2> QED
    BY <2>1 DEF LogsRise, Rises
<1>17. ServerHolds
  <2>1. \A i \in DOMAIN log[Server] : log[Server][i].kept
    BY <1>4, <1>10
  <2>2. ASSUME NEW r \in Rows
        PROVE  \E i \in DOMAIN log[Server] :
                  /\ log[Server][i].row = r /\ db[Server][r] = log[Server][i].val
                  /\ \A j \in DOMAIN log[Server] : log[Server][j].row = r => j <= i
    <3>1. PICK i \in 1 .. 2 : order[i] = r
      BY <1>2
    <3>2. \A j \in 1 .. 2 : order[j] = r => j <= i
      BY <1>2, <3>1
    <3>3. db[Server][r] = 0
      BY <1>4, <1>6
    <3> QED
      BY <1>4, <1>10, <1>12, <3>1, <3>2, <3>3
  <2> QED
    BY <2>1, <2>2 DEF ServerHolds
<1>18. PushesSound
  <2> SUFFICES ASSUME NEW d \in Devices PROVE PushSound(d)
    BY DEF PushesSound
  <2>1. pushed[d] = 0 /\ cycle[d].phase = "idle" /\ Len(log[d]) \in Nat
    BY <1>4, <1>7, <1>8, <1>11
  <2> QED
    BY <2>1 DEF PushSound
<1>19. VersionsAgree
  BY <1>10 DEF VersionsAgree
<1>20. OwnIsOwn
  BY <1>4, <1>10, <1>13 DEF OwnIsOwn
<1>21. SeedsFirst
  <2> SUFFICES ASSUME NEW r \in Rows
               PROVE  \E i \in {1, 2} : i \in DOMAIN log[Server] /\ log[Server][i].row = r /\ log[Server][i].origin = "seed"
    BY DEF SeedsFirst
  <2>1. PICK i \in {1, 2} : order[i] = r
    BY <1>2
  <2>2. i \in DOMAIN log[Server]
    BY <1>12, <2>1
  <2> QED
    BY <1>4, <1>10, <2>1, <2>2
<1>22. ASSUME NEW d \in Devices PROVE DeviceSound(d)
  <2>1. since[d] = 0 /\ pushed[d] = 0 /\ cycle[d].phase = "idle" /\ cycle[d].from = 0 /\ d \in Nodes
    BY <1>4, <1>7, <1>8
  <2>2. SeenSound(d)
    <3>1. \A i \in DOMAIN log[d] : log[d][i].kept /\ i > 0 /\ log[d][i].ts + Retention >= clock /\ ~ (i <= 0)
      BY <1>10, <1>23, <2>1
    <3> QED
      BY <2>1, <3>1 DEF SeenSound
  <2>3. PageSound(d)
    BY <1>12, <2>1 DEF PageSound
  <2>4. Others(log[Server], d, 0, 0) = {}
    BY <1>12 DEF Others
  <2>5. ASSUME NEW r \in Rows PROVE Newer(db[d][r], log[d], log[Server], d, r, 0)
    <3>1. CASE Seeded(d)
      <4>1. PICK i \in 1 .. 2 : order[i] = r
        BY <1>2
      <4>2. i \in DOMAIN log[d] /\ db[d][r] = 0
        BY <1>6, <1>9, <2>1, <3>1
      <4>3. log[d][i].row = r /\ log[d][i].val = 0 /\ \A k \in DOMAIN log[d] : log[d][k].ts <= log[d][i].ts
        BY <1>10, <2>1, <4>1, <4>2
      <4> QED
        BY <2>4, <4>2, <4>3 DEF Newer
    <3>2. CASE ~ Seeded(d)
      <4>1. DOMAIN log[d] = {} /\ db[d][r] = Absent
        BY <1>6, <1>9, <2>1, <3>2
      <4> QED
        BY <4>1 DEF Newer
    <3> QED
      BY <3>1, <3>2
  <2>6. db[d][Parent] = Absent => db[d][Child] = Absent
    <3>1. 0 # Absent /\ Parent \in Rows /\ Child \in Rows
      BY DEF Rows
    <3> QED
      BY <1>6, <2>1, <3>1
  <2>7. Applies(d, 0)
    BY <1>12, <1>23, <2>1, <2>5, <2>6 DEF Applies
  <2>8. 0 \in 0 .. Len(log[Server])
    BY <1>12
  <2>9. Holds(d)
    BY <2>7, <2>8 DEF Holds
  <2> QED
    BY <2>2, <2>3, <2>9 DEF DeviceSound
<1> QED
  BY <1>14, <1>15, <1>16, <1>17, <1>18, <1>19, <1>20, <1>21, <1>22 DEF ServerInv, DeviceInv

\* Every step keeps the invariants.
LEMMA SyncStep ==
    ASSUME NoDeletes, ServerInv, DeviceInv, [Next]_vars
    PROVE  ServerInv' /\ DeviceInv'
<1>1. CASE Next
  <2>1. ASSUME NEW n \in Nodes, NEW r \in Rows, NEW t \in clock .. clock + 1,
               NEW val \in {edits + 1, Absent}, Edit(n, r, t, val)
        PROVE  ServerInv' /\ DeviceInv'
    BY <2>1, EditForServer, EditForDevices
  <2>2. ASSUME NEW d \in Devices, Sync(d) \/ CutOff(d)
        PROVE  ServerInv' /\ DeviceInv'
    <3>1. since[d] <= Len(log[Server])
      BY DEF DeviceInv, DeviceSound, PageSound
    <3>2. CASE Pull(d)
      BY <3>1, <3>2, CycleForServer, PullForDevices
    <3>3. CASE ApplyPull(d)
      BY <3>1, <3>3, CycleForServer, ApplyPullForDevices
    <3>4. CASE ReadPush(d)
      BY <3>1, <3>4, CycleForServer, ReadPushForDevices
    <3>5. CASE ApplyPush(d)
      BY <3>5, PushForServer, PushForDevices
    <3>6. CASE NothingToPush(d)
      BY <3>6, NothingToPushForServer, NothingToPushForDevices
    <3>7. CASE CutOff(d)
      BY <3>1, <3>7, CycleForServer, CutOffForDevices
    <3> QED
      BY <2>2, <3>2, <3>3, <3>4, <3>5, <3>6, <3>7 DEF Sync
  <2> QED
    BY <1>1, <2>1, <2>2 DEF Next
<1>2. CASE UNCHANGED vars
  <2>1. UNCHANGED <<db, log, since, pushed, cycle, clock, edits, instant>>
    BY <1>2 DEF vars
  <2>2. ServerInv'
    BY <2>1 DEF ServerInv, SyncType, InPast, LogsRise, WritesLater, ServerHolds, PushesSound, PushSound
  <2>3. DeviceInv'
    BY <2>1 DEF DeviceInv, DeviceSound, VersionsAgree, OwnIsOwn, SeedsFirst, SeenSound, PageSound, Holds,
                Applies, PushedBefore, ReadTo
  <2> QED
    BY <2>2, <2>3
<1> QED
  BY <1>1, <1>2

\* Without deletes, in every state: the log of every node rises in time per
\* row, the server holds what its log says, all that a device pushed is
\* covered there and what it saved as pulled is in its rows; what it pruned of
\* its log is on the server (SyncService.pull, push, applyChanges, compact).
THEOREM InvariantsHold == NoDeletes => (Spec => [](ServerInv /\ DeviceInv))
<1> SUFFICES ASSUME NoDeletes PROVE Spec => [](ServerInv /\ DeviceInv)
  OBVIOUS
<1>1. Init => ServerInv /\ DeviceInv
  BY InitHolds
<1>2. ServerInv /\ DeviceInv /\ [Next]_vars => (ServerInv /\ DeviceInv)'
  BY SyncStep
<1> QED
  BY <1>1, <1>2, PTL DEF Spec

-----------------------------------------------------------------------------
(* Once everything was exchanged *)

\* The server holds of a row the newest change that any node has logged.
LEMMA ServerHasNewest ==
    ASSUME ServerInv, Quiet, NEW r \in Rows
    PROVE  \E z \in DOMAIN log[Server] :
              /\ log[Server][z].row = r /\ db[Server][r] = log[Server][z].val
              /\ \A n \in Nodes : \A j \in DOMAIN log[n] :
                    log[n][j].row = r => log[n][j].ts <= log[Server][z].ts
<1> DEFINE t == log[Server]
<1>1. SyncType /\ Server \in Nodes /\ Devices \subseteq Nodes
  BY DEF ServerInv, Nodes
<1>2. \A n \in Nodes : /\ DOMAIN log[n] = 1 .. Len(log[n]) /\ Len(log[n]) \in Nat
                       /\ \A i \in DOMAIN log[n] : log[n][i].ts \in Nat
  BY <1>1, LogTypes, EntryTypes
<1>3. PICK z \in DOMAIN t : /\ t[z].row = r /\ db[Server][r] = t[z].val
                            /\ \A j \in DOMAIN t : t[j].row = r => j <= z
  BY DEF ServerInv, ServerHolds
<1>4. ASSUME NEW j \in DOMAIN t, t[j].row = r PROVE t[j].ts <= t[z].ts
  <2>1. j <= z /\ j \in Nat /\ z \in Nat
    BY <1>1, <1>2, <1>3, <1>4
  <2>2. j < z => t[j].ts < t[z].ts
    BY <1>1, <1>3, <1>4 DEF ServerInv, LogsRise, Rises
  <2>3. t[j].ts \in Nat /\ t[z].ts \in Nat
    BY <1>1, <1>2
  <2> QED
    BY <2>1, <2>2, <2>3
<1>5. ASSUME NEW d \in Devices, NEW j \in DOMAIN log[d], log[d][j].row = r PROVE log[d][j].ts <= t[z].ts
  <2>1. j \in 1 .. pushed[d]
    BY <1>1, <1>2 DEF Quiet
  <2>2. Covered(t, log[d][j], Len(t))
    BY <2>1 DEF ServerInv, PushesSound, PushSound
  <2>3. PICK k \in DOMAIN t : t[k].row = r /\ log[d][j].ts <= t[k].ts
    BY <1>5, <2>2 DEF Covered
  <2>4. t[k].ts <= t[z].ts
    BY <1>4, <2>3
  <2>5. log[d][j].ts \in Nat /\ t[k].ts \in Nat /\ t[z].ts \in Nat
    BY <1>1, <1>2
  <2> QED
    BY <2>3, <2>4, <2>5
<1>6. \A n \in Nodes : \A j \in DOMAIN log[n] : log[n][j].row = r => log[n][j].ts <= t[z].ts
  <2> TAKE n \in Nodes
  <2> TAKE j \in DOMAIN log[n]
  <2> QED
    BY <1>4, <1>5 DEF Nodes
<1> QED
  BY <1>3, <1>6

\* A device that has applied all of the server's log holds what the server
\* holds of a row, unless it has not got the row at all.
LEMMA SameAsServer ==
    ASSUME ServerInv, DeviceInv, Quiet, NEW d \in Devices, NEW r \in Rows, PullPage > 1
    PROVE  db[d][r] = db[Server][r]
<1> USE SyncAssumption
<1> DEFINE s == log[d]
           t == log[Server]
           O == Others(t, d, 0, Len(t))
           v == db[d][r]
<1>1. SyncType /\ Server \in Nodes /\ d \in Nodes
  BY DEF ServerInv, Nodes
<1>2. /\ DOMAIN t = 1 .. Len(t) /\ Len(t) \in Nat /\ \A i \in DOMAIN t : t[i].ts \in Nat
      /\ DOMAIN s = 1 .. Len(s) /\ Len(s) \in Nat /\ \A i \in DOMAIN s : s[i].ts \in Nat
      /\ Len(t) >= 2
  BY <1>1, LogTypes, EntryTypes, ServerIsLong DEF DeviceInv
<1>3. PICK z \in DOMAIN t :
          /\ t[z].row = r /\ db[Server][r] = t[z].val
          /\ \A n \in Nodes : \A j \in DOMAIN log[n] : log[n][j].row = r => log[n][j].ts <= t[z].ts
  BY ServerHasNewest
<1>4. \A k \in DOMAIN t : k \in O <=> t[k].origin # d
  BY <1>2 DEF Others
<1>5. Newer(v, s, t, d, r, Len(t)) /\ v # Absent
  <2>1. PICK p \in 0 .. Len(t) : Applies(d, p)
    BY DEF DeviceInv, DeviceSound, Holds
  <2>2. p = Len(t)
    BY <1>2, <2>1 DEF Applies, Quiet
  <2>3. v # Absent
    BY <1>2, <2>1, <2>2 DEF Applies
  <2> QED
    BY <2>1, <2>2, <2>3 DEF Applies
<1>6. Rises(s) /\ Rises(t)
  BY <1>1 DEF ServerInv, LogsRise
<1>7. ASSUME t[z].origin = d
      PROVE  \E k \in DOMAIN s : s[k].row = r /\ s[k].val = t[z].val /\ s[k].ts = t[z].ts
  <2>1. PICK k \in DOMAIN s : s[k].row = t[z].row /\ s[k].val = t[z].val
    BY <1>7 DEF DeviceInv, OwnIsOwn
  <2>2. s[k].ts = t[z].ts
    BY <1>1, <2>1 DEF DeviceInv, VersionsAgree
  <2> QED
    BY <1>3, <2>1, <2>2
<1> HIDE DEF O, v, s, t
<1>8. ASSUME NEW i \in DOMAIN s, s[i].row = r, v = s[i].val,
             \A k \in DOMAIN s : s[k].row = r => s[k].ts <= s[i].ts,
             \A k \in O : t[k].row = r => t[k].ts < s[i].ts
      PROVE  v = t[z].val
  <2>1. s[i].ts <= t[z].ts /\ s[i].ts \in Nat /\ t[z].ts \in Nat
    BY <1>1, <1>2, <1>3, <1>8 DEF s
  <2>2. t[z].origin = d
    <3>1. z \in O => t[z].ts < s[i].ts
      BY <1>3, <1>8
    <3> QED
      BY <1>4, <2>1, <3>1
  <2>3. PICK k \in DOMAIN s : s[k].row = r /\ s[k].val = t[z].val /\ s[k].ts = t[z].ts
    BY <1>7, <2>2
  <2>4. s[k].ts <= s[i].ts
    BY <1>8, <2>3
  <2>5. i \in Nat /\ k \in Nat
    BY <1>2
  <2>6. ~ (i < k) /\ ~ (k < i)
    <3>1. i < k => s[i].ts < s[k].ts
      BY <1>6, <1>8, <2>3 DEF Rises
    <3>2. k < i => s[k].ts < s[i].ts
      BY <1>6, <1>8, <2>3 DEF Rises
    <3> QED
      BY <2>1, <2>3, <2>4, <3>1, <3>2
  <2>7. i = k
    BY <2>5, <2>6
  <2> QED
    BY <1>8, <2>3, <2>7
<1>9. ASSUME NEW j \in O, t[j].row = r, v = t[j].val,
             \A k \in O : t[k].row = r => t[k].ts <= t[j].ts,
             \A k \in DOMAIN s : s[k].row = r => s[k].ts <= t[j].ts
      PROVE  v = t[z].val
  <2>1. j \in DOMAIN t
    BY DEF O, Others
  <2>2. t[j].ts <= t[z].ts /\ t[j].ts \in Nat /\ t[z].ts \in Nat /\ j \in Nat /\ z \in Nat
    BY <1>1, <1>2, <1>3, <1>9, <2>1 DEF t
  <2>3. t[z].ts <= t[j].ts
    <3>1. CASE t[z].origin = d
      BY <1>7, <1>9, <3>1
    <3>2. CASE t[z].origin # d
      BY <1>3, <1>4, <1>9, <3>2
    <3> QED
      BY <3>1, <3>2
  <2>4. ~ (j < z) /\ ~ (z < j)
    <3>1. j < z => t[j].ts < t[z].ts
      BY <1>3, <1>6, <1>9, <2>1 DEF Rises
    <3>2. z < j => t[z].ts < t[j].ts
      BY <1>3, <1>6, <1>9, <2>1 DEF Rises
    <3> QED
      BY <2>2, <2>3, <3>1, <3>2
  <2>5. j = z
    BY <2>2, <2>4
  <2> QED
    BY <1>9, <2>5
<1>10. v = t[z].val
  BY <1>5, <1>8, <1>9 DEF Newer, O
<1> QED
  BY <1>3, <1>10 DEF v, t

\* Last writer wins (SyncService.applyOne, compact): when all PCs have pulled
\* and pushed everything, what the server holds of the parent row is the
\* newest change anybody made to it.
THEOREM TheNewestWins == NoDeletes => (Spec => []NewestWins)
<1> SUFFICES ASSUME NoDeletes PROVE Spec => []NewestWins
  OBVIOUS
<1>1. ServerInv => NewestWins
  <2> SUFFICES ASSUME ServerInv, Quiet
               PROVE  \E n \in Nodes : \E i \in DOMAIN log[n] :
                        /\ log[n][i].row = Parent /\ log[n][i].val = db[Server][Parent]
                        /\ \A m \in Nodes : \A j \in DOMAIN log[m] :
                              log[m][j].row = Parent => log[m][j].ts <= log[n][i].ts
    BY DEF NewestWins
  <2>1. Parent \in Rows /\ Server \in Nodes
    BY DEF Rows, Nodes
  <2> QED
    BY <2>1, ServerHasNewest
<1>2. Spec => [](ServerInv /\ DeviceInv)
  BY InvariantsHold
<1> QED
  BY <1>1, <1>2, PTL

\* All PCs end up with the same rows as the server, in whatever order they
\* write, pull, push and are cut off (SyncService.runCycle, pull, push), for
\* pages of two changes or more: a page of one may bring a row before the row
\* it refers to.
THEOREM AllConverge == NoDeletes /\ PullPage > 1 => (Spec => []Converges)
<1> SUFFICES ASSUME NoDeletes, PullPage > 1 PROVE Spec => []Converges
  OBVIOUS
<1>1. ServerInv /\ DeviceInv => Converges
  <2> SUFFICES ASSUME ServerInv, DeviceInv, Quiet, NEW d \in Devices PROVE db[d] = db[Server]
    BY DEF Converges
  <2>1. db[d] \in [Rows -> Version \cup {Absent}] /\ db[Server] \in [Rows -> Version \cup {Absent}]
    BY DEF ServerInv, SyncType, Nodes
  <2>2. \A r \in Rows : db[d][r] = db[Server][r]
    BY SameAsServer
  <2> QED
    BY <2>1, <2>2
<1>2. Spec => [](ServerInv /\ DeviceInv)
  BY InvariantsHold
<1> QED
  BY <1>1, <1>2, PTL

-----------------------------------------------------------------------------
(* No version is replaced by an older one *)

\* The logs tell that the version v of row r was made at this time.
Made(logs, r, v, at) ==
    \E n \in Nodes : \E i \in DOMAIN logs[n] :
        logs[n][i].row = r /\ logs[n][i].val = v /\ logs[n][i].ts = at

TimesKnown ==
    \A r \in Rows, v \in Version, at \in Nat : Made(log, r, v, at) => TimeOf(r, v) = at

LEMMA TimesAreKnown == ServerInv /\ DeviceInv => TimesKnown
<1> SUFFICES ASSUME ServerInv, DeviceInv, NEW r \in Rows, NEW v \in Version, NEW at \in Nat,
                    Made(log, r, v, at)
             PROVE  TimeOf(r, v) = at
  BY DEF TimesKnown
<1> DEFINE made == {t \in 0 .. clock : Made(log, r, v, t)}
<1>1. clock \in Nat /\ SyncType
  BY DEF ServerInv, SyncType
<1>2. at \in made
  <2>1. PICK n \in Nodes : \E i \in DOMAIN log[n] : log[n][i].row = r /\ log[n][i].val = v /\ log[n][i].ts = at
    BY DEF Made
  <2>2. at <= clock
    BY <2>1 DEF ServerInv, InPast
  <2> QED
    BY <1>1, <2>2
<1>3. \A t \in made : t = at
  <2> TAKE t \in made
  <2>1. Made(log, r, v, t)
    OBVIOUS
  <2> QED
    BY <2>1 DEF Made, DeviceInv, VersionsAgree
<1>4. TimeOf(r, v) = CHOOSE t \in made : TRUE
  BY DEF TimeOf, Made
<1> HIDE DEF made
<1>5. (CHOOSE t \in made : TRUE) \in made
  BY <1>2
<1> QED
  BY <1>3, <1>4, <1>5

\* What a node holds is a version from the logs.
LEMMA AllIsLogged ==
    ASSUME ServerInv, DeviceInv, NEW n \in Nodes, NEW r \in Rows, db[n][r] # Absent
    PROVE  \E at \in Nat : at <= clock /\ Made(log, r, db[n][r], at)
<1>1. SyncType /\ Server \in Nodes
  BY DEF ServerInv, Nodes
<1>2. \E m \in Nodes : \E i \in DOMAIN log[m] : log[m][i].row = r /\ log[m][i].val = db[n][r]
  <2>1. CASE n = Server
    BY <1>1, <2>1 DEF ServerInv, ServerHolds
  <2>2. CASE n \in Devices
    <3>1. PICK p \in 0 .. Len(log[Server]) : Newer(db[n][r], log[n], log[Server], n, r, p)
      BY <2>2 DEF DeviceInv, DeviceSound, Holds, Applies
    <3> QED
      BY <1>1, <3>1 DEF Newer, Others
  <2> QED
    BY <2>1, <2>2 DEF Nodes
<1>3. PICK m \in Nodes : \E i \in DOMAIN log[m] : log[m][i].row = r /\ log[m][i].val = db[n][r]
  BY <1>2
<1>4. PICK i \in DOMAIN log[m] : log[m][i].row = r /\ log[m][i].val = db[n][r]
  BY <1>3
<1>5. log[m][i].ts \in Nat /\ log[m][i].ts <= clock
  BY <1>1, LogTypes, EntryTypes DEF ServerInv, InPast
<1> QED
  BY <1>4, <1>5 DEF Made

\* The step does not replace what node n holds of row r by an older version.
NotOlder(n, r) ==
    db'[n][r] # db[n][r] /\ db[n][r] # Absent =>
        \E a, b \in Nat : a <= b /\ Made(log, r, db[n][r], a) /\ Made(log', r, db'[n][r], b)

LEMMA EditIsNewer ==
    ASSUME NoDeletes, ServerInv, DeviceInv, NEW n \in Nodes, NEW r \in Rows,
           NEW t \in clock .. clock + 1, NEW val \in {edits + 1, Absent}, Edit(n, r, t, val),
           NEW m \in Nodes, NEW q \in Rows
    PROVE  NotOlder(m, q)
<1> DEFINE e == Logged(r, edits + 1, t, n)
<1>1. /\ clock <= t /\ t \in Nat /\ e \in Entry /\ log'[n] = Append(log[n], e) /\ clock \in Nat
      /\ db'[m][q] = IF m = n /\ q = r THEN edits + 1 ELSE db[m][q]
  <2>1. WritesVersion(n, r, t)
    BY EditDoes DEF ServerInv
  <2> QED
    BY <2>1 DEF WritesVersion
<1> SUFFICES ASSUME db'[m][q] # db[m][q], db[m][q] # Absent
             PROVE  \E a, b \in Nat : a <= b /\ Made(log, q, db[m][q], a) /\ Made(log', q, db'[m][q], b)
  BY DEF NotOlder
<1>2. m = n /\ q = r /\ db'[m][q] = edits + 1
  BY <1>1
<1>3. PICK a \in Nat : a <= clock /\ Made(log, q, db[m][q], a)
  BY AllIsLogged
<1>4. /\ Len(log[n]) + 1 \in DOMAIN log'[n] /\ log'[n][Len(log[n]) + 1] = e
  <2>1. log[n] \in Seq(Entry) /\ Len(log[n]) \in Nat
    BY LogTypes DEF ServerInv
  <2> QED
    BY <1>1, <2>1, OneMore
<1>5. e.row = r /\ e.val = edits + 1 /\ e.ts = t
  BY DEF Logged
<1>6. Made(log', q, db'[m][q], t)
  BY <1>2, <1>4, <1>5 DEF Made
<1> QED
  BY <1>1, <1>3, <1>6

LEMMA PullIsNewer ==
    ASSUME ServerInv, DeviceInv, NEW d \in Devices, ApplyPull(d), NEW m \in Nodes, NEW q \in Rows
    PROVE  NotOlder(m, q)
<1> DEFINE page == cycle[d].page
           next == cycle[d].next
           due  == Due(d, page, TRUE)
<1>1. /\ cycle[d].phase = "apply" /\ log' = log
      /\ m # d => db'[m][q] = db[m][q]
      /\ (db'[d][q] = page[q].val /\ q \in due) \/ db'[d][q] = db[d][q]
  BY ApplyPullDoes DEF ServerInv
<1> SUFFICES ASSUME db'[m][q] # db[m][q], db[m][q] # Absent
             PROVE  \E a, b \in Nat : a <= b /\ Made(log, q, db[m][q], a) /\ Made(log', q, db'[m][q], b)
  BY DEF NotOlder
<1>2. m = d /\ db'[d][q] = page[q].val /\ q \in due
  BY <1>1
<1>3. SyncType /\ Server \in Nodes /\ d \in Nodes /\ SeenSound(d) /\ PageSound(d) /\ page[q] # None
  BY <1>2 DEF ServerInv, DeviceInv, DeviceSound, Nodes, Due
<1> DEFINE e == page[q]
           O == Others(log[Server], d, 0, next)
<1>4. /\ e \in Entry /\ e.ts \in Nat
      /\ \E j \in O : log[Server][j].row = q /\ log[Server][j].val = e.val /\ log[Server][j].ts = e.ts
      /\ \A k \in O : log[Server][k].row = q => log[Server][k].ts <= e.ts
  BY <1>1, <1>3, PageIsNews, EntryTypes
<1>5. \A i \in DOMAIN log[d] : log[d][i].row = q => log[d][i].ts <= e.ts
  BY <1>1, <1>2, <1>3, DueIsNews
<1>6. PICK p \in 0 .. Len(log[Server]) : Applies(d, p)
  BY DEF DeviceInv, DeviceSound, Holds
<1>7. Others(log[Server], d, 0, p) \subseteq O
  <2>1. p <= next /\ p \in Nat /\ next \in Nat /\ DOMAIN log[Server] \subseteq Nat
    BY <1>1, <1>3, <1>6, LogTypes DEF Applies, SyncType, Job
  <2> QED
    BY <2>1 DEF Others
<1>8. Newer(db[d][q], log[d], log[Server], d, q, p)
  BY <1>6 DEF Applies
<1> HIDE DEF e, page
<1>9. \E n \in {d, Server} : \E i \in DOMAIN log[n] :
          log[n][i].row = q /\ log[n][i].val = db[d][q] /\ log[n][i].ts <= e.ts
  <2>1. O \subseteq DOMAIN log[Server]
    BY DEF Others
  <2> HIDE DEF O
  <2> QED
    BY <1>2, <1>4, <1>5, <1>7, <1>8, <2>1 DEF Newer
<1>10. PICK n \in Nodes : \E i \in DOMAIN log[n] :
          log[n][i].row = q /\ log[n][i].val = db[d][q] /\ log[n][i].ts <= e.ts
  BY <1>3, <1>9
<1>11. PICK i \in DOMAIN log[n] : log[n][i].row = q /\ log[n][i].val = db[d][q] /\ log[n][i].ts <= e.ts
  BY <1>10
<1>12. log[n][i].ts \in Nat /\ Made(log, q, db[d][q], log[n][i].ts)
  BY <1>3, <1>11, LogTypes, EntryTypes DEF Made
<1>13. Made(log', q, db'[d][q], e.ts)
  <2>1. O \subseteq DOMAIN log[Server]
    BY DEF Others
  <2>2. db'[d][q] = e.val
    BY <1>2 DEF e
  <2> HIDE DEF O
  <2> QED
    BY <1>1, <1>3, <1>4, <2>1, <2>2 DEF Made
<1> QED
  BY <1>2, <1>4, <1>11, <1>12, <1>13

LEMMA PushIsNewer ==
    ASSUME ServerInv, NEW d \in Devices, ApplyPush(d), NEW m \in Nodes, NEW q \in Rows
    PROVE  NotOlder(m, q)
<1> DEFINE page == cycle[d].page
           due  == Due(Server, page, FALSE)
           E(r) == Logged(r, page[r].val, page[r].ts, d)
           old  == log[Server]
           new  == log'[Server]
<1>1. /\ cycle[d].phase = "send"
      /\ \A r \in due : page[r] \in Entry
      /\ db'[Server][q] = IF q \in due THEN page[q].val ELSE db[Server][q]
      /\ \A n \in Nodes \ {Server} : db'[n] = db[n]
      /\ Len(old) \in Nat /\ Len(new) \in Nat /\ DOMAIN new = 1 .. Len(new)
      /\ \A r \in due : \E i \in Len(old) + 1 .. Len(new) : new[i] = E(r)
  BY PushDoes
<1> SUFFICES ASSUME db'[m][q] # db[m][q], db[m][q] # Absent
             PROVE  \E a, b \in Nat : a <= b /\ Made(log, q, db[m][q], a) /\ Made(log', q, db'[m][q], b)
  BY DEF NotOlder
<1>2. m = Server /\ q \in due /\ db'[Server][q] = page[q].val
  BY <1>1
<1>3. SyncType /\ Server \in Nodes /\ page[q] \in Entry /\ page[q].ts \in Nat /\ page[q] # None
  BY <1>1, <1>2, EntryTypes DEF ServerInv, Nodes
<1>4. page[q].row = q
  BY <1>1, <1>3 DEF ServerInv, PushesSound, PushSound, Tells
<1>5. PICK i \in DOMAIN old : old[i].row = q /\ db[Server][q] = old[i].val /\ old[i].kept
  BY DEF ServerInv, ServerHolds
<1>6. old[i].ts \in Nat
  BY <1>3, LogTypes, EntryTypes
<1>7. old[i].ts <= page[q].ts
  <2>1. ~ Outdated(Server, page[q], FALSE)
    BY <1>2 DEF Due
  <2> HIDE DEF page
  <2> QED
    BY <1>3, <1>4, <1>5, <1>6, <2>1 DEF Outdated
<1>8. PICK j \in Len(old) + 1 .. Len(new) : new[j] = E(q)
  BY <1>1, <1>2
<1>9. E(q).row = q /\ E(q).val = page[q].val /\ E(q).ts = page[q].ts
  BY DEF Logged
<1>10. j \in DOMAIN new
  BY <1>1, <1>8
<1> HIDE DEF E, page, due
<1>11. Made(log', q, db'[Server][q], page[q].ts)
  BY <1>2, <1>3, <1>8, <1>9, <1>10 DEF Made
<1>12. Made(log, q, db[Server][q], old[i].ts)
  BY <1>3, <1>5 DEF Made
<1> QED
  BY <1>2, <1>3, <1>6, <1>7, <1>11, <1>12

LEMMA StepIsNewer ==
    ASSUME NoDeletes, ServerInv, DeviceInv, [Next]_vars, NEW m \in Nodes, NEW q \in Rows
    PROVE  NotOlder(m, q)
<1>1. ASSUME NEW n \in Nodes, NEW r \in Rows, NEW t \in clock .. clock + 1,
             NEW val \in {edits + 1, Absent}, Edit(n, r, t, val)
      PROVE  NotOlder(m, q)
  BY <1>1, EditIsNewer
<1>2. ASSUME NEW d \in Devices, Sync(d) \/ CutOff(d)
      PROVE  NotOlder(m, q)
  <2>1. CASE ApplyPull(d)
    BY <2>1, PullIsNewer
  <2>2. CASE ApplyPush(d)
    BY <2>2, PushIsNewer
  <2>3. CASE Pull(d) \/ ReadPush(d) \/ NothingToPush(d) \/ CutOff(d)
    BY <2>3 DEF Pull, ReadPush, NothingToPush, CutOff, NotOlder
  <2> QED
    BY <1>2, <2>1, <2>2, <2>3 DEF Sync
<1>3. CASE UNCHANGED vars
  BY <1>3 DEF vars, NotOlder
<1> QED
  BY <1>1, <1>2, <1>3 DEF Next

\* No node, at any time, replaces a version of a row by one that was made
\* earlier: neither by a page it pulls nor by one it is sent
\* (SyncService.applyChanges, applyOne), whatever it has pruned of its log.
THEOREM NeverGoesBack == NoDeletes => (Spec => NeverOlder)
<1> SUFFICES ASSUME NoDeletes PROVE Spec => NeverOlder
  OBVIOUS
<1> DEFINE Forward ==
        \A n \in Nodes, r \in Rows :
            /\ db'[n][r] # db[n][r]
            /\ db'[n][r] # Absent /\ db[n][r] # Absent
            => TimeOf(r, db[n][r])' >= TimeOf(r, db[n][r])
<1>1. ASSUME ServerInv, DeviceInv, SyncType', TimesKnown, TimesKnown', [Next]_vars
      PROVE  Forward
  <2> SUFFICES ASSUME NEW n \in Nodes, NEW r \in Rows, db'[n][r] # db[n][r],
                      db'[n][r] # Absent, db[n][r] # Absent
               PROVE  TimeOf(r, db[n][r])' >= TimeOf(r, db[n][r])
    OBVIOUS
  <2>1. PICK a \in Nat, b \in Nat :
            a <= b /\ Made(log, r, db[n][r], a) /\ Made(log', r, db'[n][r], b)
    BY <1>1, StepIsNewer DEF NotOlder
  <2>2. db[n][r] \in Version /\ db'[n][r] \in Version
    BY <1>1 DEF ServerInv, SyncType
  <2>3. TimeOf(r, db[n][r]) = a
    BY <1>1, <2>1, <2>2 DEF TimesKnown
  <2>4. PICK v \in Version : v = db'[n][r]
    BY <2>2
  <2>5. TimeOf(r, v)' = b
    BY <1>1, <2>1, <2>4 DEF TimesKnown
  <2>6. TimeOf(r, db[n][r])' = TimeOf(r, v)'
    BY <2>4 DEF TimeOf
  <2> QED
    BY <2>1, <2>3, <2>5, <2>6
<1>2. ServerInv /\ DeviceInv => TimesKnown
  BY TimesAreKnown
<1>3. ServerInv => SyncType
  BY DEF ServerInv
<1>4. Spec => [](ServerInv /\ DeviceInv)
  BY InvariantsHold
<1>5. ServerInv /\ DeviceInv /\ SyncType' /\ TimesKnown /\ TimesKnown' /\ [Next]_vars => [Forward]_vars
  BY <1>1
<1>6. NeverOlder <=> [][Forward]_vars
  BY PTL DEF NeverOlder
<1> QED
  BY <1>2, <1>3, <1>4, <1>5, <1>6, PTL DEF Spec

=============================================================================
