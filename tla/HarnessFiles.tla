---------------------------- MODULE HarnessFiles ----------------------------
(***************************************************************************)
(* How the desktop client points a local tool (Codex, Claude Code, ZCode,  *)
(* ...) at the gateway and back: the snapshot of the first configuration,  *)
(* the backup before every change, the rollback copy of the change itself, *)
(* the writing of the files, and the restore of a version.                 *)
(* src/clients/minking-desktop/minking_desktop/harness.py.                 *)
(*                                                                         *)
(* An action copies, writes or deletes one file.  Every one may fail with  *)
(* an OSError, and the process may be killed between any two.  One         *)
(* operation runs at a time, and the user edits files between operations.  *)
(***************************************************************************)
EXTENDS Integers, Sequences, FiniteSets, SequencesExt

CONSTANTS Files,       \* snapshot_files of the recipe
          CopyOrder,   \* the order they are copied and restored in
          WriteOrder,  \* the order they are written in
          Keep,        \* BACKUP_KEEP
          MaxApplies   \* bound: applies, failed ones included

OrderAssumption ==
  /\ CopyOrder \in Seq(Files) /\ WriteOrder \in Seq(Files)
  /\ ToSet(CopyOrder) = Files /\ ToSet(WriteOrder) = Files
KeepAssumption == Keep \in Nat \ {0}

VARIABLES
  live,      \* the tool's files
  official,  \* profile/official: its files, and whether .complete is there
  backups,   \* profile/backups, oldest first: the files of each version
  rollback,  \* live/.minking-rollback
  pc, i,     \* what the running operation does, and with which file
  source,    \* the version a restore copies from
  before,    \* live when the running operation began
  applies    \* how many applies have begun

vars == <<live, official, backups, rollback, pc, i, source, before, applies>>

\* The content of a file: none, one of two the user wrote, or the gateway's.
Content == {"none", "mine", "edited", "cloud"}
Nothing == [f \in Files |-> "none"]
Copies == [Files -> Content]
N == Len(CopyOrder)

TypeOK ==
  /\ live \in Copies
  /\ official \in [files : Copies, done : BOOLEAN]
  /\ backups \in Seq(Copies)
  /\ rollback \in Copies
  /\ pc \in {"idle", "snapshot", "backup", "hold", "write", "undo", "restore", "restored", "done", "undone"}
  /\ i \in 1..(N + 1)
  /\ source \in Copies
  /\ before \in Copies
  /\ applies \in 0..MaxApplies

Init ==
  /\ live \in [Files -> {"none", "mine"}]
  /\ official = [files |-> Nothing, done |-> FALSE]
  /\ backups = <<>>
  /\ rollback = Nothing
  /\ pc = "idle" /\ i = 1
  /\ source = Nothing
  /\ before = live
  /\ applies = 0

Resting == pc \in {"idle", "restored", "done", "undone"}
Begins(step) == pc' = step /\ i' = 1
Copied(to, from, f) == IF from[f] = "none" THEN to ELSE [to EXCEPT ![f] = from[f]]

-----------------------------------------------------------------------------
(* The user.                                                               *)

Edit(f, c) ==
  /\ Resting
  /\ live' = [live EXCEPT ![f] = c]
  /\ pc' = "idle"
  /\ UNCHANGED <<official, backups, rollback, i, source, before, applies>>

-----------------------------------------------------------------------------
(* apply_codex() and its kin.                                              *)
NeedsSnapshot == ~official.done
Apply ==
  /\ Resting /\ applies < MaxApplies
  /\ applies' = applies + 1
  /\ before' = live
  /\ Begins(IF NeedsSnapshot THEN "snapshot" ELSE "backup")
  /\ backups' = IF NeedsSnapshot THEN backups ELSE Append(backups, Nothing)
  /\ UNCHANGED <<live, official, rollback, source>>

\* It copies what exists, over whatever an earlier try has left there.
Snapshot ==
  /\ pc = "snapshot" /\ i <= N
  /\ official' = [official EXCEPT !.files = Copied(@, live, CopyOrder[i])]
  /\ i' = i + 1
  /\ UNCHANGED <<live, backups, rollback, pc, source, before, applies>>
Complete ==
  /\ pc = "snapshot" /\ i > N
  /\ official' = [official EXCEPT !.done = TRUE]
  /\ backups' = Append(backups, Nothing)
  /\ Begins("backup")
  /\ UNCHANGED <<live, rollback, source, before, applies>>

\* backup_before_sync(): a new directory, dropped again when nothing was
\* copied; then all but the newest Keep go.
Backup ==
  /\ pc = "backup" /\ i <= N
  /\ backups' = [backups EXCEPT ![Len(backups)] = Copied(@, live, CopyOrder[i])]
  /\ i' = i + 1
  /\ UNCHANGED <<live, official, rollback, pc, source, before, applies>>
Pruned(s) == SubSeq(s, IF Len(s) > Keep THEN Len(s) - Keep + 1 ELSE 1, Len(s))
Prune ==
  /\ pc = "backup" /\ i > N
  /\ backups' = IF backups[Len(backups)] = Nothing THEN Front(backups) ELSE Pruned(backups)
  /\ rollback' = Nothing
  /\ Begins("hold")
  /\ UNCHANGED <<live, official, source, before, applies>>

\* _backup_live(), into a directory made afresh.
Hold ==
  /\ pc = "hold" /\ i <= N
  /\ rollback' = Copied(rollback, live, CopyOrder[i])
  /\ i' = i + 1
  /\ UNCHANGED <<live, official, backups, pc, source, before, applies>>
Held ==
  /\ pc = "hold" /\ i > N
  /\ Begins("write")
  /\ UNCHANGED <<live, official, backups, rollback, source, before, applies>>

\* The next file of apply_codex and its like; _write_text() writes a temporary
\* file and replaces the old one.
Write ==
  /\ pc = "write" /\ i <= N
  /\ live' = [live EXCEPT ![WriteOrder[i]] = "cloud"]
  /\ i' = i + 1
  /\ UNCHANGED <<official, backups, rollback, pc, source, before, applies>>
Written ==
  /\ pc = "write" /\ i > N
  /\ rollback' = Nothing
  /\ Begins("done")
  /\ UNCHANGED <<live, official, backups, source, before, applies>>

\* A write fails: _restore_backup().
WriteFails ==
  /\ pc = "write" /\ i <= N
  /\ Begins("undo")
  /\ UNCHANGED <<live, official, backups, rollback, source, before, applies>>
GivesOnlyBack(to, from, f) == Copied(to, from, f)
GivesBack(to, from, f) == [to EXCEPT ![f] = from[f]]
Undo ==
  /\ pc = "undo" /\ i <= N
  /\ live' = GivesBack(live, rollback, CopyOrder[i])
  /\ i' = i + 1
  /\ UNCHANGED <<official, backups, rollback, pc, source, before, applies>>
Undone ==
  /\ pc = "undo" /\ i > N
  /\ rollback' = Nothing
  /\ Begins("undone")
  /\ UNCHANGED <<live, official, backups, source, before, applies>>

-----------------------------------------------------------------------------
(* restore_harness().                                                      *)

\* _restore_source(): the snapshot if it is complete, or any directory of
\* backups the user picks.
Sources == ToSet(backups) \cup (IF official.done THEN {official.files} ELSE {})
Restore(v) ==
  /\ Resting
  /\ source' = v
  /\ before' = live
  /\ Begins("restore")
  /\ UNCHANGED <<live, official, backups, rollback, applies>>
RestoreOne ==
  /\ pc = "restore" /\ i <= N
  /\ live' = GivesBack(live, source, CopyOrder[i])
  /\ i' = i + 1
  /\ UNCHANGED <<official, backups, rollback, pc, source, before, applies>>
Restored ==
  /\ pc = "restore" /\ i > N
  /\ Begins("restored")
  /\ UNCHANGED <<live, official, backups, rollback, source, before, applies>>

-----------------------------------------------------------------------------
\* Any other step fails (the exception ends the operation; a failing undo
\* still clears the rollback copy), or the process is killed (nothing more is
\* done).
StepFails ==
  /\ ~Resting
  /\ rollback' = IF pc = "undo" THEN Nothing ELSE rollback
  /\ Begins("idle")
  /\ UNCHANGED <<live, official, backups, source, before, applies>>
Killed ==
  /\ ~Resting
  /\ Begins("idle")
  /\ UNCHANGED <<live, official, backups, rollback, source, before, applies>>

Next ==
  \/ \E f \in Files, c \in {"none", "mine", "edited"} : Edit(f, c)
  \/ Apply \/ Snapshot \/ Complete \/ Backup \/ Prune \/ Hold \/ Held
  \/ Write \/ Written \/ WriteFails \/ Undo \/ Undone
  \/ \E v \in Sources : Restore(v)
  \/ RestoreOne \/ Restored
  \/ StepFails \/ Killed

Spec == Init /\ [][Next]_vars

-----------------------------------------------------------------------------
(* What must hold.                                                         *)

\* The version called "the configuration before the first connect" never
\* holds anything the client wrote, however often applies failed, were killed
\* and began again (snapshot_harness).
FirstIsTheUsers == official.done => \A f \in Files : official.files[f] # "cloud"

\* An apply that fails while it writes, and can undo it, leaves the files as
\* they were: also those that did not exist, also after a killed apply that
\* left a rollback copy behind.
UndoneOnError == pc = "undone" => live = before

\* No file is overwritten by an apply before all of them are in a backup that
\* a restore can choose, whatever was pruned.
SavedBeforeWritten ==
  pc \in {"write", "undo"} /\ before # Nothing => before \in ToSet(backups)
=============================================================================
