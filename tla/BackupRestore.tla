---------------------------- MODULE BackupRestore ----------------------------
(***************************************************************************)
(* RunSetup with the operations of persistence/backup_restore.py: a        *)
(* logical backup reads one table after the other, each in a statement of  *)
(* its own and while the service may go on; a restore replaces all rows in *)
(* one transaction.  Only the columns listed in TABLE_SPECS travel: what a *)
(* row lacks after a restore has the default of its column.                *)
(***************************************************************************)
EXTENDS RunSetup

CONSTANTS
    MaxBackups,     \* backups that are taken
    Retained,       \* --retain-count of scripts/pilot_backup_rotate.py
    Quiet,          \* the service is stopped while a backup is taken
    ForeignKeys     \* session_trials.session_id is enforced (Postgres)

ASSUME RetainAssumption == Retained \in Nat \ {0} /\ MaxBackups \in Nat

VARIABLES
    reading,    \* tables read by the running backup: a partial archive
    archives,   \* the backups kept, oldest first
    taken,      \* number of backups taken
    restored    \* whether a restore has happened

vars == <<banks, runs, sessions, trials, invites, pc, frame, reading, archives, taken, restored>>

backupVars == <<reading, archives, taken, restored>>

\* A mutant: referring tables first.
TablesChildrenFirst == <<"trials", "sessions", "runs", "banks">>

\* TABLE_SPECS in its order (the log tables and the questionnaires, which
\* nothing here reads, come after)
Tables == <<"banks", "runs", "sessions", "trials">>

\* what the SELECT of a table returns: aggregation_mode and
\* practice_stimulus_set_id, expected_trial_count, is_practice and
\* source_stimulus_set_ids_json are not among the columns
Select(table) ==
    CASE table = "banks" -> banks
      [] table = "runs" -> [r \in DOMAIN runs |-> [runs[r] EXCEPT !.multi = FALSE, !.practice = NoBank]]
      [] table = "sessions" -> [s \in DOMAIN sessions |-> [sessions[s] EXCEPT !.expected = 0]]
      [] table = "trials" -> {[t EXCEPT !.sources = {}] : t \in trials}

BackingUp == reading # <<>>

\* init_db, then the first table
BeginBackup ==
    /\ ~BackingUp /\ taken < MaxBackups
    /\ reading' = <<Select(Tables[1])>>
    /\ UNCHANGED <<setupVars, archives, taken, restored>>

ReadTable ==
    /\ BackingUp /\ Len(reading) < Len(Tables)
    /\ reading' = Append(reading, Select(Tables[Len(reading) + 1]))
    /\ UNCHANGED <<setupVars, archives, taken, restored>>

\* A mutant: the next backup starts from the rows of this one.
FinishBackupUncleared ==
    LET all == Append(archives, [t \in ToSet(Tables) |-> reading[CHOOSE i \in DOMAIN Tables : Tables[i] = t]])
    IN /\ Len(reading) = Len(Tables)
       /\ archives' = SubSeq(all, 1 + IF Len(all) > Retained THEN Len(all) - Retained ELSE 0, Len(all))
       /\ taken' = taken + 1
       /\ UNCHANGED <<setupVars, reading, restored>>

\* the file is written and the oldest files beyond Retained are deleted
FinishBackup ==
    LET all == Append(archives, [t \in ToSet(Tables) |-> reading[CHOOSE i \in DOMAIN Tables : Tables[i] = t]])
    IN /\ Len(reading) = Len(Tables)
       /\ archives' = SubSeq(all, 1 + IF Len(all) > Retained THEN Len(all) - Retained ELSE 0, Len(all))
       /\ taken' = taken + 1
       /\ reading' = <<>>
       /\ UNCHANGED <<setupVars, restored>>

\* a session of which the archive has trials but not the row: it was created
\* and started between the two reads
Orphaned(archive) ==
    \E t \in archive["trials"] : t.session \notin DOMAIN archive["sessions"]

\* pilot_restore.py --confirm-destructive, with the applications stopped: the
\* requests under way are lost; a refused insert rolls everything back
Restore(archive) ==
    /\ ~BackingUp
    /\ ForeignKeys => ~Orphaned(archive)
    /\ banks' = archive["banks"]
    /\ runs' = archive["runs"]
    /\ sessions' = archive["sessions"]
    /\ trials' = archive["trials"]
    /\ restored' = TRUE
    /\ pc' = [h \in Researchers |-> "idle"]
    /\ frame' = [h \in Researchers |-> NoFrame]
    /\ UNCHANGED <<invites, reading, archives, taken>>

Init ==
    /\ SetupInit
    /\ reading = <<>>
    /\ archives = <<>>
    /\ taken = 0
    /\ restored = FALSE

\* A bound: rows created after a restore are not followed, so that a
\* position names one row for ever, as the random identifiers do.
NothingNew == Len(banks') = Len(banks) /\ Len(runs') = Len(runs) /\ Len(sessions') = Len(sessions)

Next ==
    \/ Setup /\ (Quiet => ~BackingUp) /\ (restored => NothingNew) /\ UNCHANGED backupVars
    \/ BeginBackup \/ ReadTable \/ FinishBackup
    \/ \E a \in DOMAIN archives : Restore(archives[a])

Spec == Init /\ [][Next]_vars
-----------------------------------------------------------------------------
TypeOK ==
    /\ SetupTypeOK
    /\ Len(reading) <= Len(Tables)
    /\ Len(archives) <= Retained /\ taken \in 0..MaxBackups
    /\ restored \in BOOLEAN

\* The properties of RunSetup, up to the first restore.
InvitesResolveBefore == ~restored => InvitesResolve
LaunchPromiseKeptBefore == ~restored => LaunchPromiseKept
SessionsPlayableBefore == ~restored => SessionsPlayable

\* A backup taken while participants work never holds a session that is
\* under way without all of its trials: the sessions are read before the
\* trials (the order of TABLE_SPECS).
ArchiveWhole ==
    ~restored =>
        \A a \in DOMAIN archives : \A s \in DOMAIN archives[a]["sessions"] :
            archives[a]["sessions"][s].status = "in_progress" =>
                {t \in archives[a]["trials"] : t.session = s}
                    = {[t EXCEPT !.sources = {}] : t \in TrialsOf(s)}

\* A participant who was under way when the backup was taken is served again
\* after the restore (docs/pilot/runbook.md 224, 236, 238).
RestoredSessionsContinue ==
    restored => \A s \in DOMAIN sessions : sessions[s].status = "in_progress" => SnapshotIntact(s)
=============================================================================
