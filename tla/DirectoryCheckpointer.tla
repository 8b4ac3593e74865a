------------------------ MODULE DirectoryCheckpointer ------------------------
(***************************************************************************)
(* The checkpoints of one run on disk                                      *)
(* (src/training/recording/checkpointer.py): the best of each phase, and   *)
(* the latest round, saved in that order at the end of a round by the      *)
(* trainer, which keeps the record of the phase's best and of an earlier   *)
(* phase's (src/training/trainer.py).                                      *)
(*                                                                         *)
(* A checkpoint is written into a staging directory nothing else reads,    *)
(* then takes its final name: a directory of that name is deleted, file by *)
(* file and with errors ignored, and the staging directory renamed.  Any   *)
(* write, deletion or rename may fail, and the process may die between any *)
(* two steps and half-way through a deletion.                              *)
(*                                                                         *)
(* Two phases never share a directory: the plan's names are filename-safe  *)
(* already and differ even when case-folded (src/training/plan.py), which  *)
(* CheckpointerAssumption states.                                          *)
(***************************************************************************)
EXTENDS Integers, FiniteSets

CONSTANTS
    Phases,         \* how many phases the plan has
    MaxRounds,      \* rounds of a phase
    SafeName,       \* per phase, its name as it stands in a directory's name
    None

ASSUME CheckpointerAssumption ==
    /\ Phases \in Nat \ {0} /\ MaxRounds \in Nat \ {0}
    /\ DOMAIN SafeName = 1..Phases
    /\ \A p, q \in 1..Phases : p # q => SafeName[p] # SafeName[q]
    /\ \A p \in 1..Phases, r \in 0..(MaxRounds - 1) :
         None # [name |-> SafeName[p], round |-> r]
    /\ None # [name |-> "latest", round |-> -1]

VARIABLES
    at,         \* what the training thread is doing
    phase, round,
    disk,       \* final directory -> the checkpoint in it
    saving,     \* the final directory being saved, the one being deleted
    byPhase,    \* _best_by_phase: the directory of each phase's best
    bestRecord, \* the trainer's record of the phase's best
    lastGoodRecord, \* and of the last earlier phase that had one
    written,    \* history: phases whose best was completed
    undeleted,  \* history: directories whose deletion failed
    latestDone, \* history: the round latest/ was last completed for
    latestLost  \* history: the last swap of latest/ failed

vars == <<at, phase, round, disk, saving, byPhase, bestRecord, lastGoodRecord,
          written, undeleted, latestDone, latestLost>>

\* latest/: its name ends in no round.
Latest == [name |-> "latest", round |-> -1]

\* Mutant of DirectoryFor: one directory for a phase, whatever the round.
DirectoryOfPhase(p, r) == [name |-> SafeName[p], round |-> 0]

DirectoryFor(p, r) == [name |-> SafeName[p], round |-> r]

\* Mutant of Previous: the best saved last, of whichever phase.
PreviousOfAnyPhase(p) ==
    LET saved == {q \in 1..Phases : byPhase[q] # None}
    IN  IF saved = {} THEN None
        ELSE byPhase[CHOOSE q \in saved : \A r \in saved : r <= q]

Previous(p) == byPhase[p]

Checkpoint(p, r, whole) == [phase |-> p, round |-> r, whole |-> whole]

Damaged(files, directory) == [files EXCEPT ![directory].whole = FALSE]

Removed(files, directory) ==
    [d \in DOMAIN files \ {directory} |-> files[d]]

Placed(files, directory, checkpoint) ==
    [d \in DOMAIN files \cup {directory} |->
        IF d = directory THEN checkpoint ELSE files[d]]

Init ==
    /\ at = "round" /\ phase = 1 /\ round = 0
    /\ disk = [d \in {} |-> None]
    /\ saving = [directory |-> None, deleting |-> None]
    /\ byPhase = [p \in 1..Phases |-> None]
    /\ bestRecord = None /\ lastGoodRecord = None
    /\ written = {} /\ undeleted = {} /\ latestDone = None /\ latestLost = FALSE

saveHistory == <<written, undeleted, latestDone, latestLost>>

\* The round's report beats the best, or does not; latest/ is saved anyway.
SaveBest ==
    /\ at = "round"
    /\ at' = "write"
    /\ saving' = [saving EXCEPT !.directory = DirectoryFor(phase, round)]
    /\ UNCHANGED <<phase, round, disk, byPhase, bestRecord, lastGoodRecord, saveHistory>>

SaveLatest ==
    /\ at \in {"round", "latest"}
    /\ at' = "write"
    /\ saving' = [saving EXCEPT !.directory = Latest]
    /\ UNCHANGED <<phase, round, disk, byPhase, bestRecord, lastGoodRecord, saveHistory>>

OfLatest == saving.directory = Latest

\* Where a save that raised, or returned, leaves the training thread.
Returned ==
    /\ at' = IF OfLatest THEN "exits" ELSE "latest"
    /\ saving' = [directory |-> None, deleting |-> None]

\* A write into the staging directory failed: the final one is as it was.
AfterFailedWrite(directory) == disk

FailToWrite ==
    /\ at = "write"
    /\ disk' = AfterFailedWrite(saving.directory)
    /\ Returned
    /\ UNCHANGED <<phase, round, byPhase, bestRecord, lastGoodRecord, saveHistory>>

\* Every file is in the staging directory; what bears the final name goes.
Write ==
    /\ at = "write"
    /\ IF saving.directory \in DOMAIN disk
       THEN at' = "delete" /\ saving' = [saving EXCEPT !.deleting = saving.directory]
       ELSE at' = "rename" /\ UNCHANGED saving
    /\ UNCHANGED <<phase, round, disk, byPhase, bestRecord, lastGoodRecord, saveHistory>>

\* rmtree(..., ignore_errors=True): some of the files, then the rest.
BeginDelete ==
    /\ at = "delete"
    /\ disk' = Damaged(disk, saving.deleting)
    /\ at' = "deleting"
    /\ UNCHANGED <<phase, round, saving, byPhase, bestRecord, lastGoodRecord, saveHistory>>

\* What follows the deletion of the old directory, or of the previous best.
AfterDelete == IF saving.deleting = saving.directory THEN "rename" ELSE "record"

\* Not even the first file could be removed: all of the directory stays.
FailToDelete ==
    /\ at = "delete"
    /\ undeleted' = undeleted \cup {saving.deleting}
    /\ at' = AfterDelete
    /\ saving' = [saving EXCEPT !.deleting = None]
    /\ UNCHANGED <<phase, round, disk, byPhase, bestRecord, lastGoodRecord, written,
                   latestDone, latestLost>>

FinishDelete ==
    /\ at = "deleting"
    /\ \/ disk' = Removed(disk, saving.deleting) /\ UNCHANGED undeleted
       \/ UNCHANGED disk /\ undeleted' = undeleted \cup {saving.deleting}
    /\ at' = AfterDelete
    /\ saving' = [saving EXCEPT !.deleting = None]
    /\ UNCHANGED <<phase, round, byPhase, bestRecord, lastGoodRecord, written,
                   latestDone, latestLost>>

\* A directory replaces another only when that one was emptied.
Rename ==
    /\ at = "rename"
    /\ saving.directory \in DOMAIN disk => ~disk[saving.directory].whole
    /\ disk' = Placed(disk, saving.directory, Checkpoint(phase, round, TRUE))
    /\ undeleted' = undeleted \ {saving.directory}
    /\ IF OfLatest
       THEN /\ latestDone' = [phase |-> phase, round |-> round]
            /\ latestLost' = FALSE
            /\ UNCHANGED written
            /\ Returned
       ELSE /\ written' = written \cup {phase}
            /\ UNCHANGED <<latestDone, latestLost>>
            /\ IF Previous(phase) \in DOMAIN disk \ {saving.directory}
               THEN at' = "delete" /\ saving' = [saving EXCEPT !.deleting = Previous(phase)]
               ELSE at' = "record" /\ UNCHANGED saving
    /\ UNCHANGED <<phase, round, byPhase, bestRecord, lastGoodRecord>>

\* The rename failed: what the deletion left of the old directory remains.
FailToRename ==
    /\ at = "rename"
    /\ latestLost' = (latestLost \/ OfLatest)
    /\ Returned
    /\ UNCHANGED <<phase, round, disk, byPhase, bestRecord, lastGoodRecord, written,
                   undeleted, latestDone>>

\* save returns: the trainer takes the record as the phase's best.
Record ==
    /\ at = "record"
    /\ byPhase' = [byPhase EXCEPT ![phase] = saving.directory]
    /\ bestRecord' = [directory |-> saving.directory, phase |-> phase, round |-> round]
    /\ Returned
    /\ UNCHANGED <<phase, round, disk, lastGoodRecord, saveHistory>>

\* The round's end: the next round, the next phase, or the end of the run.
NextRound ==
    /\ at = "exits"
    /\ \/ /\ round + 1 < MaxRounds
          /\ round' = round + 1 /\ at' = "round"
          /\ UNCHANGED <<phase, bestRecord, lastGoodRecord>>
       \/ /\ lastGoodRecord' = IF bestRecord # None THEN bestRecord ELSE lastGoodRecord
          /\ IF phase < Phases
             THEN phase' = phase + 1 /\ round' = 0 /\ at' = "round" /\ bestRecord' = None
             ELSE at' = "ended" /\ UNCHANGED <<phase, round, bestRecord>>
    /\ UNCHANGED <<disk, saving, byPhase, saveHistory>>

Crash ==
    /\ at \notin {"ended", "dead"}
    /\ at' = "dead"
    /\ UNCHANGED <<phase, round, disk, saving, byPhase, bestRecord, lastGoodRecord, saveHistory>>

Next ==
    \/ SaveBest \/ SaveLatest \/ FailToWrite \/ Write \/ BeginDelete
    \/ FailToDelete \/ FinishDelete \/ Rename \/ FailToRename \/ Record \/ NextRound \/ Crash

Spec == Init /\ [][Next]_vars

-----------------------------------------------------------------------------
(* Properties *)

Directories == {Latest} \cup {DirectoryFor(p, r) : p \in 1..Phases, r \in 0..(MaxRounds - 1)}

Records == [directory : Directories, phase : 1..Phases, round : 0..(MaxRounds - 1)]

\* The run's checkpoints are well-formed; staging directories never show.
TypeOK ==
    /\ DOMAIN disk \subseteq Directories
    /\ \A d \in DOMAIN disk :
         disk[d] \in [phase : 1..Phases, round : 0..(MaxRounds - 1), whole : BOOLEAN]
    /\ saving \in [directory : Directories \cup {None}, deleting : DOMAIN disk \cup {None}]
    /\ byPhase \in [1..Phases -> Directories \cup {None}]
    /\ {bestRecord, lastGoodRecord} \subseteq Records \cup {None}

\* The training thread is not inside a save.
BetweenSaves == at \in {"round", "latest", "exits", "ended"}

\* The record of a best names a directory that holds that very round, whole,
\* whatever failed since: a save that raises keeps the previous best
\* (DirectoryCheckpointer.save, Trainer._checkpoint_if_best).
RecordedBestIsWhole == BetweenSaves =>
    \A r \in {bestRecord, lastGoodRecord} \ {None} :
        r.directory \in DOMAIN disk
        /\ disk[r.directory] = Checkpoint(r.phase, r.round, TRUE)

\* A phase that ever completed a best has one on disk, whole, at every later
\* moment, the middle of a save and a death of the process included: the
\* previous best goes only once the new one is complete (save).
EveryPhaseKeepsABest == \A p \in written :
    \E d \in DOMAIN disk \ {Latest} : disk[d].phase = p /\ disk[d].whole

\* Between saves no phase holds a second best, unless deleting it failed
\* ("keeping only the best checkpoint of each phase").
OneBestPerPhase == BetweenSaves =>
    \A p \in 1..Phases :
        Cardinality({d \in DOMAIN disk \ ({Latest} \cup undeleted) : disk[d].phase = p}) <= 1

\* latest/ holds the last round saved as latest, whole: a failed write leaves
\* it, only a failed swap loses it (_write_checkpoint's exceptions).
LatestIsWhole == BetweenSaves /\ latestDone # None /\ ~latestLost =>
    /\ Latest \in DOMAIN disk
    /\ disk[Latest] = Checkpoint(latestDone.phase, latestDone.round, TRUE)
=============================================================================
