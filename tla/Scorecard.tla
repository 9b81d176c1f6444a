------------------------------ MODULE Scorecard ------------------------------
(***************************************************************************)
(* The scorecard of scripts/ensemble_dispatch.py: rows are appended to the *)
(* active file under an OS lock, which a process loses when it dies; a     *)
(* file over the threshold is renamed to an archive; a reader puts the     *)
(* archives and the active file together without a lock and looks whether  *)
(* they changed meanwhile.  A step is one file access.  Files are told     *)
(* apart by their inode, a row is the process that appends it.             *)
(***************************************************************************)
EXTENDS Naturals, Sequences

CONSTANTS
  Processes,   \* the calls of append_scorecard
  OldRow,      \* the row that is there at first
  Threshold,   \* SCORECARD_ROTATION_THRESHOLD_BYTES, in rows
  Attempts,    \* of an append, and of writing a summary
  Readings     \* attempts of a reader

VARIABLES
  files,     \* files[i]: the rows in inode i
  active,    \* the inode of scorecard.jsonl; 0: there is none
  archives,  \* the inodes of the archives, in the order of their names
  temps,     \* the processes whose temporary summary exists
  summaries, \* the archives that have a summary
  at,        \* at[p]: where process p is
  handle,    \* handle[p]: the inode p has open
  owns,      \* owns[p]: the inode p has locked; 0: none
  failed,    \* failed[p]: attempts that failed
  reader     \* the reader's place and what it has read

vars == << files, active, archives, temps, summaries, at, handle, owns,
           failed, reader >>

Rows(s) == { s[i] : i \in DOMAIN s }

(* What a reader would find now. *)
Visible == UNION { Rows(files[i]) : i \in Rows(archives) \cup ({ active } \ { 0 }) }

Init ==
  /\ files = << << OldRow >> >>
  /\ active = 1
  /\ archives = << >>
  /\ temps = {} /\ summaries = {}
  /\ at = [p \in Processes |-> "unborn"]
  /\ handle = [p \in Processes |-> 0]
  /\ owns = [p \in Processes |-> 0]
  /\ failed = [p \in Processes |-> 0]
  /\ reader = [ at |-> "start", tries |-> 0, identity |-> << >>, rows |-> << >>,
                listed |-> << >>, again |-> << >>, before |-> {} ]

GoTo(p, where) == at' = [at EXCEPT ![p] = where]

disk == << files, active, archives, temps, summaries >>
own == << handle, owns, failed >>

(* _maybe_rotate_scorecard *)
Visit(p) ==
  /\ at[p] = "unborn"
  /\ GoTo(p, IF active # 0 /\ Len(files[active]) > Threshold
             THEN "rotate" ELSE "open")
  /\ UNCHANGED << disk, own, reader >>

(* open "ab" creates a file that is not there. *)
OpenFile(p) ==
  IF active = 0
  THEN /\ files' = Append(files, << >>)
       /\ active' = Len(files')
       /\ handle' = [handle EXCEPT ![p] = Len(files')]
  ELSE /\ UNCHANGED << files, active >>
       /\ handle' = [handle EXCEPT ![p] = active]

Open(p) ==
  /\ at[p] \in { "open", "rotate" }
  /\ OpenFile(p)
  /\ GoTo(p, IF at[p] = "open" THEN "lock" ELSE "lockfor")
  /\ UNCHANGED << archives, temps, summaries, owns, failed, reader >>

(* _locked_for_append waits for whoever has locked this inode. *)
Lock(p) ==
  /\ at[p] \in { "lock", "lockfor" }
  /\ handle[p] \notin { owns[q] : q \in Processes }
  /\ owns' = [owns EXCEPT ![p] = handle[p]]
  /\ GoTo(p, IF at[p] = "lock" THEN "check" ELSE "recheck")
  /\ UNCHANGED << disk, handle, failed, reader >>

Unlock(p) == owns' = [owns EXCEPT ![p] = 0]

(* _rotate_scorecard looks again, under the lock: another process may have *)
(* rotated.                                                                *)
Recheck(p) ==
  /\ at[p] = "recheck"
  /\ IF handle[p] = active /\ Len(files[active]) > Threshold
     THEN GoTo(p, "sweep") /\ owns' = owns
     ELSE GoTo(p, "open") /\ Unlock(p)
  /\ UNCHANGED << disk, handle, failed, reader >>

(* _rotate_scorecard_locked: the temporary files of others go, ...         *)
Sweep(p) ==
  /\ at[p] = "sweep"
  /\ temps' = {}
  /\ GoTo(p, "rename")
  /\ UNCHANGED << files, active, archives, summaries, own, reader >>

(* ... the active file gets an archive's name, ...                         *)
Rename(p) ==
  /\ at[p] = "rename"
  /\ archives' = Append(archives, active)
  /\ active' = 0
  /\ GoTo(p, "recreate")
  /\ UNCHANGED << files, temps, summaries, own, reader >>

(* A mutation: os.replace puts an empty file in its place, as it was       *)
(* before WOT-2026-124i.                                                   *)
Replaced == Append(files, << >>)

(* _create_active_if_absent: with O_EXCL, so that a file which a writer    *)
(* has made meanwhile stays.                                               *)
Recreated == IF active = 0 THEN Append(files, << >>) ELSE files

Recreate(p) ==
  /\ at[p] = "recreate"
  /\ files' = Recreated
  /\ active' = IF Recreated = files THEN active ELSE Len(Recreated)
  /\ Unlock(p)
  /\ GoTo(p, "summary")
  /\ UNCHANGED << archives, temps, summaries, handle, failed, reader >>

(* _write_rotation_summary, outside the lock. *)
WriteSummary(p) ==
  /\ at[p] = "summary"
  /\ temps' = temps \cup { p }
  /\ GoTo(p, "publish")
  /\ UNCHANGED << files, active, archives, summaries, own, reader >>

(* The next attempt, or the exception after the last. *)
Retry(p, again) == GoTo(p, IF failed[p] + 1 < Attempts THEN again ELSE "failed")

PublishSummary(p) ==
  /\ at[p] = "publish"
  /\ IF p \in temps
     THEN /\ temps' = temps \ { p }
          /\ summaries' = summaries \cup { handle[p] }
          /\ failed' = [failed EXCEPT ![p] = 0]
          /\ GoTo(p, "open")
     ELSE /\ UNCHANGED << temps, summaries >>
          /\ failed' = [failed EXCEPT ![p] = @ + 1]
          /\ Retry(p, "summary")
  /\ UNCHANGED << files, active, archives, handle, owns, reader >>

(* The revalidation under the lock: os.path.samestat *)
SameFile(p) == handle[p] = active

Check(p) ==
  /\ at[p] = "check"
  /\ IF SameFile(p)
     THEN GoTo(p, "write") /\ UNCHANGED << owns, failed >>
     ELSE /\ Unlock(p)
          /\ failed' = [failed EXCEPT ![p] = @ + 1]
          /\ Retry(p, "open")
  /\ UNCHANGED << disk, handle, reader >>

Write(p) ==
  /\ at[p] = "write"
  /\ files' = [files EXCEPT ![handle[p]] = Append(@, p)]
  /\ Unlock(p)
  /\ GoTo(p, "done")
  /\ UNCHANGED << active, archives, temps, summaries, handle, failed, reader >>

Crash(p) ==
  /\ at[p] \notin { "unborn", "done", "failed", "killed" }
  /\ Unlock(p)
  /\ GoTo(p, "killed")
  /\ UNCHANGED << disk, handle, failed, reader >>
-----------------------------------------------------------------------------
processes == << at, own >>

(* _active_scorecard_identity: size and time of the last change; without   *)
(* an active file, nothing.                                                *)
Identity == IF active = 0 THEN << >> ELSE << active, Len(files[active]) >>

(* One attempt of _scorecard_snapshot_rows: the identity of the active     *)
(* file, ...                                                               *)
LookAt ==
  /\ reader.at = "start"
  /\ reader' = [reader EXCEPT !.at = "read", !.identity = Identity,
                              !.before = Visible]
  /\ UNCHANGED << disk, processes >>

(* ... its rows (it may be gone by now), ...                               *)
Read ==
  /\ reader.at = "read"
  /\ LET gone == reader.identity = << >> \/ active = 0
     IN reader' = [reader EXCEPT !.at = "list",
                     !.identity = IF gone THEN << >> ELSE @,
                     !.rows = IF gone THEN << >> ELSE files[active]]
  /\ UNCHANGED << disk, processes >>

(* ... the archives, ...                                                   *)
List ==
  /\ reader.at = "list"
  /\ reader' = [reader EXCEPT !.at = "look again", !.listed = archives]
  /\ UNCHANGED << disk, processes >>

(* ... the identity again ...                                              *)
LookAgain ==
  /\ reader.at = "look again"
  /\ reader' = [reader EXCEPT !.at = "list again", !.again = Identity]
  /\ UNCHANGED << disk, processes >>

(* A mutation: only the archives are compared. *)
StableListing(id1, id2, listed1, listed2) == listed1 = listed2

(* _scorecard_snapshot_stable: a file that has grown counts as unchanged.  *)
Stable(id1, id2, listed1, listed2) ==
  /\ listed1 = listed2
  /\ id1 = id2 \/ (id1 # << >> /\ id2 # << >> /\ id2[2] > id1[2])

(* ... and the archives.                                                   *)
ListAgain ==
  /\ reader.at = "list again"
  /\ reader' =
       IF Stable(reader.identity, reader.again, reader.listed, archives)
       THEN [reader EXCEPT !.at = "returned"]
       ELSE IF reader.tries + 1 < Readings
       THEN [reader EXCEPT !.at = "start", !.tries = @ + 1]
       ELSE [reader EXCEPT !.at = "raised"]
  /\ UNCHANGED << disk, processes >>

Next ==
  \/ \E p \in Processes :
       \/ Visit(p) \/ Open(p) \/ Lock(p) \/ Recheck(p) \/ Sweep(p)
       \/ Rename(p) \/ Recreate(p) \/ WriteSummary(p) \/ PublishSummary(p)
       \/ Check(p) \/ Write(p) \/ Crash(p)
  \/ LookAt \/ Read \/ List \/ LookAgain \/ ListAgain

Spec == Init /\ [][Next]_vars
-----------------------------------------------------------------------------
(* append_scorecard returned: the row is where a reader looks for it,      *)
(* whatever was rotated, recreated or killed since.                        *)
AppendsVisible ==
  { p \in Processes : at[p] = "done" } \cup { OldRow } \subseteq Visible

(* And a file has one archive's name, and no row is added to it any more:  *)
(* a handle opened before the rename writes nowhere.                       *)
RowsStep ==
  /\ AppendsVisible'
  /\ \A i \in Rows(archives) : files'[i] = files[i]
  /\ \A i, j \in DOMAIN archives' : archives'[i] = archives'[j] => i = j

RowsKept == [][RowsStep]_vars

Snapshot == Rows(reader.rows) \cup UNION { Rows(files[i]) : i \in Rows(reader.listed) }

Twice == \E i \in Rows(reader.listed) : Rows(files[i]) \cap Rows(reader.rows) # {}

(* What was there when the reader began is in the result; a row is in it   *)
(* twice only when the active file was rotated after it was read and has   *)
(* outgrown its old size before the second look.                           *)
SnapshotSound ==
  reader.at = "returned" =>
    /\ reader.before \subseteq Snapshot
    /\ Twice => /\ << >> \notin { reader.identity, reader.again }
                /\ reader.again[1] # reader.identity[1]
                /\ reader.again[2] > reader.identity[2]
=============================================================================
