------------------------------- MODULE Backup -------------------------------
(***************************************************************************)
(* Backups of the whole instance in a bucket (backup/backup.service.ts).   *)
(* A run dumps the database, uploads the dump, downloads it again to       *)
(* compare, marks its row as VERIFIED, and then deletes what is more than  *)
(* Retain backups old, object by object.  The hourly job, a person who     *)
(* presses the button and a restore may all be under way at once.          *)
(*                                                                         *)
(* The rows of `backups` and the setting that names the bucket are part of *)
(* the database: a dump holds them and a restore takes them back, while    *)
(* the objects in the bucket and the runs in progress stay as they are.    *)
(***************************************************************************)
EXTENDS Integers, FiniteSets

CONSTANTS
    Backups,    \* numbered as they are begun
    Buckets,
    NoBucket,   \* no setting; or an object that is not there
    Retain,     \* retainCount
    MaxRuns,    \* bound: runs under way at once
    MaxTurns    \* bound: new settings, restores, faults, in all

ASSUME BackupAssumption ==
    /\ Backups \subseteq Nat /\ IsFiniteSet(Backups)
    /\ NoBucket \notin Buckets
    /\ Retain \in Nat \ {0}
    /\ MaxRuns \in Nat /\ MaxTurns \in Nat

VARIABLES
    row,            \* [Backups -> status of the row in `backups`, or "none"]
    place,          \* the bucket of `backup_config`
    object,         \* [Backups -> the bucket that holds the dump]
    dump,           \* [Backups -> what the dump says of row and place]
    copy,           \* [Backups -> how far the run is; its bucket; what it has yet to delete]
    restoring,      \* the restore under way
    verifiedAt,     \* [Backups -> place in the order of verification, or 0]
    verified,       \* the number of verifications so far
    restoredAt,     \* that number at the last restore
    turns           \* new settings, restores and faults so far

backupVars == <<row, place, object, dump, copy, restoring, verifiedAt, verified, restoredAt, turns>>

RowStatus  == {"none", "PENDING", "VERIFIED", "FAILED"}
PlaceNames == Buckets \cup {NoBucket}
Snapshot   == [row : [Backups -> RowStatus], place : PlaceNames]
Steps      == {"unused", "dump", "upload", "check", "retain", "object", "row", "notify", "ended"}
Nothing    == [row |-> [b \in Backups |-> "none"], place |-> NoBucket]
NoRestore  == [step |-> "none"]
RestoreOf(step, b, bucket) == [step |-> step, from |-> b, bucket |-> bucket]

At(b, steps) == copy[b].step \in steps
Turn == turns < MaxTurns /\ turns' = turns + 1

RunOf(step, bucket, stale) == [step |-> step, bucket |-> bucket, stale |-> stale]
NoRun(step)   == RunOf(step, NoBucket, {})
GoOn(b, step) == copy' = [copy EXCEPT ![b] = RunOf(step, @.bucket, @.stale)]
End(b)        == copy' = [copy EXCEPT ![b] = NoRun("ended")]

TypeOK ==
    /\ row \in [Backups -> RowStatus]
    /\ place \in PlaceNames
    /\ object \in [Backups -> PlaceNames]
    /\ dump \in [Backups -> Snapshot]
    /\ copy \in [Backups -> [step : Steps, bucket : PlaceNames, stale : SUBSET Backups]]
    /\ restoring \in {NoRestore} \cup [step : {"fetch", "load"}, from : Backups, bucket : Buckets]
    /\ verifiedAt \in [Backups -> Nat]
    /\ verified \in Nat /\ restoredAt \in Nat /\ turns \in Nat

-----------------------------------------------------------------------------
\* triggerManual or checkSchedule, and the row that runBackup starts with.
BackupBegins(b) ==
    /\ place # NoBucket
    /\ \A c \in Backups : c < b => ~ At(c, {"unused"})
    /\ At(b, {"unused"})
    /\ Cardinality({c \in Backups : ~ At(c, {"unused", "ended"})}) < MaxRuns
    /\ row' = [row EXCEPT ![b] = "PENDING"]
    /\ copy' = [copy EXCEPT ![b] = RunOf("dump", place, {})]
    /\ UNCHANGED <<place, object, dump, restoring, verifiedAt, verified, restoredAt, turns>>

\* pg_dump sees one state of the database.
BackupDumps(b) ==
    /\ At(b, {"dump"})
    /\ dump' = [dump EXCEPT ![b] = [row |-> row, place |-> place]]
    /\ GoOn(b, "upload")
    /\ UNCHANGED <<row, place, object, restoring, verifiedAt, verified, restoredAt, turns>>

BackupUploads(b) ==
    /\ At(b, {"upload"})
    /\ object' = [object EXCEPT ![b] = copy[b].bucket]
    /\ GoOn(b, "check")
    /\ UNCHANGED <<row, place, dump, restoring, verifiedAt, verified, restoredAt, turns>>

\* The row must still be there: a restore may have taken it away.
BackupVerified(b) ==
    /\ At(b, {"check"})
    /\ row[b] # "none"
    /\ row' = [row EXCEPT ![b] = "VERIFIED"]
    /\ verifiedAt' = [verifiedAt EXCEPT ![b] = verified + 1]
    /\ verified' = verified + 1
    /\ GoOn(b, "retain")
    /\ UNCHANGED <<place, object, dump, restoring, restoredAt, turns>>

\* The catch of runBackup, which also follows a failure after VERIFIED.
BackupFails(b) ==
    /\ At(b, {"dump", "upload", "check", "retain", "notify"})
    /\ \/ row[b] = "none" /\ UNCHANGED <<row, turns>>
       \/ row[b] # "none" /\ row' = [row EXCEPT ![b] = "FAILED"] /\ Turn
    /\ End(b)
    /\ UNCHANGED <<place, object, dump, restoring, verifiedAt, verified, restoredAt>>

\* The server stops, or the write in that catch fails as well.
BackupStops(b) ==
    /\ ~ At(b, {"unused", "ended"})
    /\ End(b)
    /\ Turn
    /\ UNCHANGED <<row, place, object, dump, restoring, verifiedAt, verified, restoredAt>>

BackupEnds(b) ==
    /\ At(b, {"notify"})
    /\ End(b)
    /\ UNCHANGED <<row, place, object, dump, restoring, verifiedAt, verified, restoredAt, turns>>

-----------------------------------------------------------------------------
\* Variant: the list is sorted the other way round.
Stale_ascending ==
    {c \in Backups : /\ row[c] = "VERIFIED"
                     /\ Cardinality({d \in Backups : row[d] = "VERIFIED"
                                             /\ verifiedAt[d] < verifiedAt[c]}) >= Retain}

\* enforceRetention: the verified rows after the Retain newest ones.
Stale ==
    {c \in Backups : /\ row[c] = "VERIFIED"
                     /\ Cardinality({d \in Backups : row[d] = "VERIFIED"
                                             /\ verifiedAt[d] > verifiedAt[c]}) >= Retain}

\* The loop goes from the newest to the oldest.
IsFirst(c, stale) == c \in stale /\ \A d \in stale : verifiedAt[d] <= verifiedAt[c]

StepWith(stale) == IF stale = {} THEN "notify" ELSE "object"

RetentionReads(b) ==
    /\ At(b, {"retain"})
    /\ copy' = [copy EXCEPT ![b] = RunOf(StepWith(Stale), @.bucket, Stale)]
    /\ UNCHANGED <<row, place, object, dump, restoring, verifiedAt, verified, restoredAt, turns>>

\* Deleting what is not in the bucket succeeds as well.
DeleteObject(b) ==
    /\ At(b, {"object"})
    /\ \E c \in Backups :
         /\ IsFirst(c, copy[b].stale)
         /\ object' = [object EXCEPT ![c] = IF @ = copy[b].bucket THEN NoBucket ELSE @]
    /\ GoOn(b, "row")
    /\ UNCHANGED <<row, place, dump, restoring, verifiedAt, verified, restoredAt, turns>>

Behind(b, c) ==
    LET left == copy[b].stale \ {c}
    IN  copy' = [copy EXCEPT ![b] = RunOf(StepWith(left), @.bucket, left)]

DeleteRow(b) ==
    /\ At(b, {"row"})
    /\ \E c \in Backups :
         /\ IsFirst(c, copy[b].stale)
         /\ row[c] # "none"
         /\ row' = [row EXCEPT ![c] = "none"]
         /\ Behind(b, c)
    /\ UNCHANGED <<place, object, dump, restoring, verifiedAt, verified, restoredAt, turns>>

\* Either deletion fails (a row that is gone makes it fail), which is logged,
\* and the loop goes on.
SkipStale(b) ==
    /\ At(b, {"object", "row"})
    /\ \E c \in Backups :
         /\ IsFirst(c, copy[b].stale)
         /\ Behind(b, c)
         /\ IF At(b, {"row"}) /\ row[c] = "none" THEN UNCHANGED turns ELSE Turn
    /\ UNCHANGED <<row, place, object, dump, restoring, verifiedAt, verified, restoredAt>>

-----------------------------------------------------------------------------
\* setConfig and clearConfig.
SetConfig(k) ==
    /\ k # place
    /\ place' = k
    /\ Turn
    /\ UNCHANGED <<row, object, dump, copy, restoring, verifiedAt, verified, restoredAt>>

RestoreBegins(b) ==
    /\ restoring = NoRestore
    /\ place # NoBucket
    /\ row[b] = "VERIFIED"
    /\ restoring' = RestoreOf("fetch", b, place)
    /\ Turn
    /\ UNCHANGED <<row, place, object, dump, copy, verifiedAt, verified, restoredAt>>

RestoreFetches ==
    /\ restoring.step = "fetch"
    /\ object[restoring.from] = restoring.bucket
    /\ restoring' = RestoreOf("load", restoring.from, restoring.bucket)
    /\ UNCHANGED <<row, place, object, dump, copy, verifiedAt, verified, restoredAt, turns>>

\* pg_restore drops the tables and fills them again; a server that stops in
\* between leaves them empty.
RestoreLoads ==
    /\ restoring.step = "load"
    /\ \/ row' = dump[restoring.from].row /\ place' = dump[restoring.from].place /\ UNCHANGED turns
       \/ row' = Nothing.row /\ place' = NoBucket /\ Turn
    /\ restoredAt' = verified
    /\ restoring' = NoRestore
    /\ UNCHANGED <<object, dump, copy, verifiedAt, verified>>

RestoreFails ==
    /\ restoring # NoRestore
    /\ restoring' = NoRestore
    /\ UNCHANGED <<row, place, object, dump, copy, verifiedAt, verified, restoredAt, turns>>

-----------------------------------------------------------------------------
BackupInit ==
    /\ row = Nothing.row
    /\ place \in Buckets
    /\ object = [b \in Backups |-> NoBucket]
    /\ dump = [b \in Backups |-> Nothing]
    /\ copy = [b \in Backups |-> NoRun("unused")]
    /\ restoring = NoRestore
    /\ verifiedAt = [b \in Backups |-> 0]
    /\ verified = 0
    /\ restoredAt = 0
    /\ turns = 0

BackupNext ==
    \/ \E b \in Backups :
         \/ BackupBegins(b) \/ BackupDumps(b) \/ BackupUploads(b) \/ BackupVerified(b)
         \/ BackupFails(b) \/ BackupStops(b) \/ BackupEnds(b)
         \/ RetentionReads(b) \/ DeleteObject(b) \/ DeleteRow(b) \/ SkipStale(b)
         \/ RestoreBegins(b)
    \/ RestoreFetches \/ RestoreLoads \/ RestoreFails
    \/ \E k \in PlaceNames : SetConfig(k)

BackupSpec == BackupInit /\ [][BackupNext]_backupVars

-----------------------------------------------------------------------------
Newer(b) == {c \in Backups : verifiedAt[c] > verifiedAt[b]}

\* However runs, their clean-ups, restores and changes of the bucket overlap: a
\* backup keeps its dump until Retain others were verified after it, and its row
\* until then or until a restore; a row that a late failure turns to FAILED is
\* the only other way out of the list (backup.service.ts:480 "Keeps the most
\* recent `retainCount` VERIFIED backups", "never a window with zero backups").
KeptUntilReplaced ==
    \A b \in Backups :
      verifiedAt[b] > 0 /\ Cardinality(Newer(b)) < Retain =>
        /\ object[b] # NoBucket
        /\ verifiedAt[b] > restoredAt => row[b] \in {"VERIFIED", "FAILED"}

\* The same sentence of the comment as the owner may read it: once there was a
\* backup there is one the screen can restore.  It does not hold after a
\* restore, after another bucket was set, or, with Retain = 1, after a
\* notification that fails.
AlwaysOneToRestore ==
    verified > 0 => \E b \in Backups : row[b] = "VERIFIED" /\ object[b] = place
=============================================================================
