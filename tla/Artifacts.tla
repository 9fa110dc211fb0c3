------------------------------- MODULE Artifacts -------------------------------
(***************************************************************************)
(* The pictures on disk: uploads of a client and pictures the gateway      *)
(* made, each a file and a row of file_artifacts, the links handed out for *)
(* them, and the loop that clears away what has expired                    *)
(* (src/app/image_artifacts.py), with the tool call that makes several     *)
(* pictures and answers with their links (src/app/mcp_server.py).          *)
(*                                                                         *)
(* An operation of the store is a step, and so is what a coroutine does    *)
(* between two of them: it writes and removes files without waiting.       *)
(***************************************************************************)
EXTENDS Integers, FiniteSets

CONSTANTS Ids, Life,   \* artifact ids, and the ttl of each in ticks of the clock
          Tool,        \* the ids of one tool call's pictures; the rest are uploads
          MaxTime, MaxRestarts

BoundsAssumption ==
  Life \in [Ids -> Nat \ {0}] /\ Tool \subseteq Ids /\ MaxTime \in Nat /\ MaxRestarts \in Nat

VARIABLES
  clock,
  disk,      \* the files in the artifact directory
  rows,      \* file_artifacts: expires_at of each row, or 0
  creating,  \* create_bytes() between its file and its row: the row's expires_at, or 0
  removing,  \* delete() after it has read the row, and after it has deleted it
  prune,     \* where the cleanup is, and what it has read
  linked,    \* ids whose link was handed out, with the time it is good for
  late,      \* INSERTs that are still to be carried out though their caller is gone
  dropped,   \* ids that are not used again: deleted by their owner, or given up
  safe,      \* ids that no cleanup was looking for files while they were created
  tool,      \* the tool call: the pictures it has made and can use, and how it ended
  restarts

vars == <<clock, disk, rows, creating, late, removing, prune, linked, dropped, safe, tool, restarts>>

Phases == {"idle", "unlink", "delete", "list", "sweep"}
NoPrune == [at |-> "idle", ids |-> {}, time |-> 0]
Ends == {"none", "making", "storing", "answered", "failed"}
Times == 0..(MaxTime + 3)

TypeOK ==
  /\ clock \in 0..MaxTime /\ disk \subseteq Ids /\ rows \in [Ids -> Times]
  /\ creating \in [Ids -> Times] /\ late \in [Ids -> Times]
  /\ removing \in [Ids -> {"no", "read", "gone"}]
  /\ prune \in [at : Phases, ids : SUBSET Ids, time : 0..MaxTime]
  /\ linked \in [Ids -> Times] /\ dropped \subseteq Ids /\ safe \subseteq Ids
  /\ tool \in [at : Ends, made : SUBSET Tool, good : SUBSET Tool]
  /\ \A id \in Ids : creating[id] # 0 \/ late[id] # 0 => rows[id] = 0

Init ==
  /\ clock = 1 /\ disk = {} /\ rows = [id \in Ids |-> 0] /\ creating = rows /\ late = rows
  /\ removing = [id \in Ids |-> "no"] /\ prune = NoPrune /\ linked = rows /\ dropped = {} /\ safe = {}
  /\ tool = [at |-> "none", made |-> {}, good |-> {}] /\ restarts = 0

Live(id) == rows[id] > clock
Expired(id) == rows[id] # 0 /\ rows[id] <= clock

Tick ==
  /\ clock < MaxTime /\ clock' = clock + 1
  /\ UNCHANGED <<disk, rows, creating, late, removing, prune, linked, dropped, safe, tool, restarts>>

-----------------------------------------------------------------------------
(* create_bytes(): the file, then the row.                                 *)

Unused(id) == id \notin disk /\ rows[id] = 0 /\ creating[id] = 0 /\ linked[id] = 0 /\ id \notin dropped
Watched == prune.at = "sweep"
Write(id) ==
  /\ Unused(id) /\ disk' = disk \cup {id} /\ creating' = [creating EXCEPT ![id] = clock + Life[id]]
  /\ safe' = IF Watched THEN safe \ {id} ELSE safe \cup {id}
  /\ UNCHANGED <<clock, rows, late, removing, prune, linked, dropped, restarts>>
Upload(id) == id \notin Tool /\ Write(id) /\ UNCHANGED tool
Insert(id) ==
  /\ creating[id] # 0 /\ rows' = [rows EXCEPT ![id] = creating[id]]
  /\ creating' = [creating EXCEPT ![id] = 0] /\ linked' = [linked EXCEPT ![id] = clock + Life[id]]
  /\ UNCHANGED <<clock, disk, late, removing, prune, dropped, safe, tool, restarts>>
\* The row cannot be written: the file goes, and so does the caller's request.  A
\* caller that is cancelled removes the file as well, but what the store has
\* queued it still carries out: a row, whose file is gone and which nobody was
\* told of.
Undone(id) == disk \ {id}
GivesUp(id) ==
  /\ creating[id] # 0 /\ creating' = [creating EXCEPT ![id] = 0] /\ disk' = Undone(id)
  /\ tool' = IF id \in Tool THEN [tool EXCEPT !.at = "failed"] ELSE tool
  /\ UNCHANGED <<clock, rows, removing, prune, linked, safe, restarts>>
InsertFails(id) == GivesUp(id) /\ UNCHANGED <<late, dropped>>
InsertCancelled(id) ==
  /\ GivesUp(id) /\ late' = [late EXCEPT ![id] = creating[id]] /\ dropped' = dropped \cup {id}
InsertLate(id) ==
  /\ late[id] # 0 /\ rows' = [rows EXCEPT ![id] = late[id]] /\ late' = [late EXCEPT ![id] = 0]
  /\ UNCHANGED <<clock, disk, creating, removing, prune, linked, dropped, safe, tool, restarts>>

\* delete(): the row is read, deleted, and then the file is removed.
Delete(id) ==
  /\ Live(id) /\ removing[id] = "no" /\ removing' = [removing EXCEPT ![id] = "read"]
  /\ UNCHANGED <<clock, disk, rows, creating, late, prune, linked, dropped, safe, tool, restarts>>
DeleteRow(id) ==
  /\ removing[id] = "read" /\ removing' = [removing EXCEPT ![id] = "gone"]
  /\ rows' = [rows EXCEPT ![id] = 0] /\ dropped' = dropped \cup {id}
  /\ UNCHANGED <<clock, disk, creating, late, prune, linked, safe, tool, restarts>>
DeleteFile(id) ==
  /\ removing[id] = "gone" /\ removing' = [removing EXCEPT ![id] = "no"] /\ disk' = disk \ {id}
  /\ UNCHANGED <<clock, rows, creating, late, prune, linked, dropped, safe, tool, restarts>>

\* content(): a row whose file is not there is deleted, and the answer is 404.
\* Nobody else looks: a row without a file stays till then or till it expires.
Missing(id) ==
  /\ Live(id) /\ id \notin disk /\ rows' = [rows EXCEPT ![id] = 0]
  /\ UNCHANGED <<clock, disk, creating, late, removing, prune, linked, dropped, safe, tool, restarts>>

-----------------------------------------------------------------------------
(* prune(), at the start and then in a loop.                               *)

Step(from, to, ids) == prune.at = from /\ prune' = [at |-> to, ids |-> ids, time |-> clock]
PruneBegin ==
  /\ Step("idle", "unlink", {id \in Ids : Expired(id)})
  /\ UNCHANGED <<clock, disk, rows, creating, late, removing, linked, dropped, safe, tool, restarts>>
PruneUnlink ==
  /\ Step("unlink", "delete", {}) /\ disk' = disk \ prune.ids
  /\ UNCHANGED <<clock, rows, creating, late, removing, linked, dropped, safe, tool, restarts>>
\* The rows that had expired when the statement was made up.
PruneDelete ==
  /\ Step("delete", "list", {})
  /\ rows' = [id \in Ids |-> IF rows[id] <= prune.time THEN 0 ELSE rows[id]]
  /\ UNCHANGED <<clock, disk, creating, late, removing, linked, dropped, safe, tool, restarts>>
RowsNow == {id \in Ids : rows[id] # 0}
PruneList ==
  /\ Step("list", "sweep", RowsNow) /\ safe' = safe \ {id \in Ids : creating[id] # 0}
  /\ UNCHANGED <<clock, disk, rows, creating, late, removing, linked, dropped, tool, restarts>>
\* Every file that had no row when they were listed.
SweptNever == disk
Swept == disk \cap prune.ids
PruneSweep ==
  /\ Step("sweep", "idle", {}) /\ disk' = Swept
  /\ UNCHANGED <<clock, rows, creating, late, removing, linked, dropped, safe, tool, restarts>>
Prune == PruneBegin \/ PruneUnlink \/ PruneDelete \/ PruneList \/ PruneSweep

\* The process stops between any two of these steps, and prunes when it starts.
Restart ==
  /\ restarts < MaxRestarts /\ restarts' = restarts + 1
  /\ creating' = [id \in Ids |-> 0] /\ late' = creating' /\ removing' = [id \in Ids |-> "no"] /\ prune' = NoPrune
  /\ tool' = IF tool.at \in {"making", "storing"} THEN [tool EXCEPT !.at = "failed"] ELSE tool
  /\ UNCHANGED <<clock, disk, rows, linked, dropped, safe>>

-----------------------------------------------------------------------------
(* _execute_image(): all the pictures are made, then all that can be used are  *)
(* stored, and their links are the answer.                                  *)

CallsTool(at) == tool' = [tool EXCEPT !.at = at]
NoFileMoves == UNCHANGED <<clock, disk, rows, creating, late, removing, prune, linked, dropped, safe, restarts>>
ToolBegin == tool.at = "none" /\ Tool # {} /\ CallsTool("making") /\ NoFileMoves
\* What an answer of the provider brings may have no b64_json: it is skipped.
ToolMake(id) ==
  /\ tool.at = "making" /\ id \in Tool \ tool.made
  /\ \E usable \in SUBSET {id} :
       tool' = [at |-> IF tool.made \cup {id} = Tool THEN "storing" ELSE "making",
                made |-> tool.made \cup {id}, good |-> tool.good \cup usable]
  /\ NoFileMoves
\* An error of the provider, or no picture that can be used, or one that cannot be
\* decoded; what was stored before stays.
Unhurried == \A id \in Tool : creating[id] = 0
ToolFails == tool.at \in {"making", "storing"} /\ Unhurried /\ CallsTool("failed") /\ NoFileMoves
ToolStore(id) == id \in tool.good /\ tool.at = "storing" /\ Unhurried /\ Write(id) /\ UNCHANGED tool
Stored == tool.good # {} /\ \A id \in tool.good : linked[id] # 0
ToolAnswers == tool.at = "storing" /\ Stored /\ CallsTool("answered") /\ NoFileMoves

Next ==
  \/ Tick \/ Prune \/ Restart \/ ToolBegin \/ ToolFails \/ ToolAnswers
  \/ \E id \in Ids : \/ Upload(id) \/ ToolStore(id) \/ ToolMake(id)
                     \/ Insert(id) \/ InsertFails(id) \/ InsertCancelled(id) \/ InsertLate(id)
                     \/ Delete(id) \/ DeleteRow(id) \/ DeleteFile(id) \/ Missing(id)

Spec == Init /\ [][Next]_vars
\* The cleanup loop goes round, and time and the coroutines go on.
Works == \E id \in Ids : Insert(id) \/ InsertFails(id) \/ InsertLate(id) \/ DeleteRow(id) \/ DeleteFile(id)
FairSpec == Spec /\ WF_vars(Prune) /\ WF_vars(Tick) /\ WF_vars(Works)

-----------------------------------------------------------------------------
(* What must hold.                                                         *)

\* A file whose link was handed out, and whose creation no listing of the cleanup
\* overlapped, is there for as long as its row is alive, whatever deletions,
\* cleanups and restarts cross.
KeptWhileAlive == \A id \in safe : Live(id) /\ linked[id] # 0 => id \in disk

\* A cleanup that ends when nobody else is at work leaves no file without a row:
\* what deletions, failures and crashes have left half done is mended.
QuietPruneMends ==
  [][PruneSweep /\ (\A id \in Ids : creating[id] = 0 /\ removing[id] = "no")
     => disk' \subseteq {id \in Ids : rows[id] # 0}]_vars

\* An answered tool call has asked for each of its pictures, and has at least one,
\* and a link for each that could be used.
AnswerIsComplete == tool.at = "answered" => tool.made = Tool /\ Stored

\* What has expired, was deleted, or lost its row to a crash goes from the disk
\* in the end.
NothingStays == \A id \in Ids : (id \in disk /\ creating[id] = 0 /\ ~Live(id)) ~> id \notin disk
=============================================================================
