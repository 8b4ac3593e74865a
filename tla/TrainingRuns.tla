----------------------------- MODULE TrainingRuns -----------------------------
(* A run of scripts/run_training.py from its config to its end, and what it  *)
(* leaves in the run directory: the copy of its config and the shares of its *)
(* diet, a row of rounds.csv for each round and of checkpoints.csv for each  *)
(* best (CsvRunListener), and the rows of samples.csv, which a thread of its *)
(* own writes while the main thread trains (RunSampler over CsvTable).       *)
(* Several runs may be given one directory.  A run may raise at every step   *)
(* and be killed at any moment.  A report's rows are one row here.           *)
EXTENDS Integers, SequencesExt, FiniteSetsExt

CONSTANTS
    Runs,           \* processes told to use one run directory
    RoundSteps,     \* steps of a round
    RunRounds,      \* bound: rounds of a run
    MaxSamples,     \* bound: rows of samples.csv the thread goes on after
    MaxFaults,      \* bound: writes to the tables that fail
    NoDirectory

VARIABLES
    main,       \* of each run, its main thread and the trainer's counters
    thread,     \* of each run, its sampling thread and the row it has in hand
    directory,  \* the run directory, or NoDirectory
    writeFaults \* history: of each table, the writes to it that failed

runsVars == <<main, thread, directory, writeFaults>>

Tables == {"rounds", "checkpoints", "samples"}
TableRow == [by : Runs, round : Nat, line : {"whole", "cut", "merged"}]
TableFile == [header : {"none", "cut", "whole"}, rows : Seq(TableRow)]
SampleRow == [by : Runs, steps : Nat, texts : Nat]
RunDirectories ==
    [owner : Runs, config : BOOLEAN, shares : BOOLEAN,
     rounds : TableFile, checkpoints : TableFile, samples : Seq(SampleRow)]

RunAssumption ==
    /\ MaxSamples \in Nat
    /\ RoundSteps \in Nat \ {0} /\ RunRounds \in Nat /\ MaxFaults \in Nat
    /\ NoDirectory \notin RunDirectories

NoRows == [header |-> "none", rows |-> <<>>]

NewDirectory(r) ==
    [owner |-> r, config |-> FALSE, shares |-> FALSE,
     rounds |-> NoRows, checkpoints |-> NoRows, samples |-> <<>>]

RunsInit ==
    /\ \E checks \in SUBSET Runs :
         main = [r \in Runs |-> [at |-> "config", checkOnly |-> r \in checks, cache |-> "none",
                                 steps |-> 0, texts |-> 0, round |-> 0, lastRow |-> FALSE]]
    /\ thread = [r \in Runs |-> [at |-> "none", steps |-> 0, texts |-> 0]]
    /\ directory = NoDirectory
    /\ writeFaults = [table \in Tables |-> 0]

RunGoes(r, from, to) == main[r].at = from /\ main' = [main EXCEPT ![r].at = to]
Adds(field, value) == directory' = [directory EXCEPT ![field] = value]

WriteFails(table) ==
    /\ writeFaults.rounds + writeFaults.checkpoints + writeFaults.samples < MaxFaults
    /\ writeFaults' = [writeFaults EXCEPT ![table] = @ + 1]

\* The end of the with statement is reached from everywhere inside.
Fails(r, from) == RunGoes(r, from, "closing") /\ UNCHANGED <<thread, directory, writeFaults>>

---------------------------------------------------------------------------
(* Before training.                                                          *)

\* parse_run_config raises for a config that names what there is not, or that
\* does not fit its own plan; an existing directory is refused as early.
ReadConfig(r) ==
    /\ \/ RunGoes(r, "config", "ended")
       \/ /\ main[r].checkOnly \/ directory = NoDirectory
          /\ RunGoes(r, "config", "preflight")
    /\ UNCHANGED <<thread, directory, writeFaults>>

\* Every dojo is built and passes, or the run ends; so it does when nothing in
\* its diet can be drawn or the model cannot be built.
Preflight(r) ==
    /\ \/ RunGoes(r, "preflight", "ended")
       \/ /\ main[r].at = "preflight"
          /\ main' = [main EXCEPT ![r].at = "built", ![r].cache = "open"]
    /\ UNCHANGED <<thread, directory, writeFaults>>

PassCheck(r) ==
    /\ main[r].checkOnly /\ RunGoes(r, "built", "closing")
    /\ UNCHANGED <<thread, directory, writeFaults>>

\* _create_run_directory: mkdir raises where another run was quicker.
CreateRunDirectory(r) ==
    /\ ~main[r].checkOnly
    /\ IF directory = NoDirectory
       THEN RunGoes(r, "built", "made") /\ directory' = NewDirectory(r)
       ELSE RunGoes(r, "built", "closing") /\ UNCHANGED directory
    /\ UNCHANGED <<thread, writeFaults>>

CopyConfig(r) ==
    \/ RunGoes(r, "made", "copied") /\ Adds("config", TRUE) /\ UNCHANGED <<thread, writeFaults>>
    \/ Fails(r, "made")

WriteDietShares(r) ==
    \/ RunGoes(r, "copied", "shared") /\ Adds("shares", TRUE) /\ UNCHANGED <<thread, writeFaults>>
    \/ Fails(r, "copied")

\* warm_feature_cache, before any step.
WarmFeatureCache(r) ==
    \/ /\ main[r].at = "shared"
       /\ main' = [main EXCEPT ![r].at = "warmed", ![r].texts = @ + 1]
       /\ UNCHANGED <<thread, directory, writeFaults>>
    \/ Fails(r, "shared")

---------------------------------------------------------------------------
(* The sampler.                                                              *)

RowOf(r, steps, texts) == [by |-> r, steps |-> steps, texts |-> texts]

\* A source that raises costs the row.
WriteRow(row) ==
    \/ Adds("samples", Append(directory.samples, row)) /\ UNCHANGED writeFaults
    \/ WriteFails("samples") /\ UNCHANGED directory

\* start: without its file there is no sampler and no thread; training begins
\* all the same.
StartSampler(r) ==
    /\ RunGoes(r, "warmed", "training")
    /\ \/ UNCHANGED <<thread, directory, writeFaults>>
       \/ /\ thread' = [thread EXCEPT ![r].at = "waiting"]
          /\ WriteRow(RowOf(r, main[r].steps, main[r].texts))

ThreadGoes(r, from, to) ==
    /\ main[r].at # "killed" /\ thread[r].at = from
    /\ thread' = [thread EXCEPT ![r].at = to]

StopIsSet(r) == main[r].at = "joining"

\* _run: the interval ends and no one has stopped it; a row is read column by
\* column while the main thread goes on.
SampleSteps(r) ==
    /\ main[r].at # "killed" /\ thread[r].at = "waiting" /\ ~StopIsSet(r)
    /\ Len(directory.samples) < MaxSamples
    /\ thread' = [thread EXCEPT ![r].at = "reading", ![r].steps = main[r].steps]
    /\ UNCHANGED <<main, directory, writeFaults>>
SampleCache(r) ==
    /\ main[r].at # "killed" /\ thread[r].at = "reading"
    /\ thread' = [thread EXCEPT ![r].at = "writing", ![r].texts = main[r].texts]
    /\ UNCHANGED <<main, directory, writeFaults>>
WriteSample(r) ==
    /\ ThreadGoes(r, "writing", "waiting")
    /\ WriteRow(RowOf(r, thread[r].steps, thread[r].texts))
    /\ UNCHANGED main
EndThread(r) ==
    /\ StopIsSet(r) /\ ThreadGoes(r, "waiting", "done")
    /\ UNCHANGED <<main, directory, writeFaults>>

\* stop, however training ended: nothing where it was never started.
SetStop(r) ==
    /\ RunGoes(r, "trained", IF thread[r].at = "none" THEN "closing" ELSE "joining")
    /\ UNCHANGED <<thread, directory, writeFaults>>

\* Mutant: the last row is written without waiting for the thread.
NeedNotJoin(r) == TRUE
HasJoined(r) == thread[r].at = "done"

\* stop: the last row and the end of the table follow the thread's end.
StopSampler(r) ==
    /\ main[r].at = "joining" /\ HasJoined(r)
    /\ WriteRow(RowOf(r, main[r].steps, main[r].texts))
    /\ main' = [main EXCEPT ![r].at = "closing",
                            ![r].lastRow = directory'.samples # directory.samples]
    /\ UNCHANGED thread

CloseFeatureCache(r) ==
    /\ main[r].at = "closing"
    /\ main' = [main EXCEPT ![r].at = "ended", ![r].cache = "closed"]
    /\ UNCHANGED <<thread, directory, writeFaults>>

---------------------------------------------------------------------------
(* Training, as its tables see it.                                           *)

\* An attempt is counted before its cards are looked up; every attempt looks
\* something up here.
CountStep(r) ==
    /\ main[r].at = "training" /\ main[r].steps < RoundSteps * (main[r].round + 1)
    /\ main[r].round < RunRounds
    /\ main' = [main EXCEPT ![r].at = "step", ![r].steps = @ + 1]
    /\ UNCHANGED <<thread, directory, writeFaults>>
LookUp(r) ==
    /\ main[r].at = "step"
    /\ main' = [main EXCEPT ![r].at = "training", ![r].texts = @ + 1]
    /\ UNCHANGED <<thread, directory, writeFaults>>

RoundRow(r, n) == [by |-> r, round |-> n, line |-> "whole"]

\* A row that is written after a cut one runs into its line, and ends it.
Appended(rows, row) ==
    IF rows # <<>> /\ Last(rows).line = "cut"
    THEN [rows EXCEPT ![Len(rows)].line = IF row.line = "cut" THEN "cut" ELSE "merged"]
    ELSE Append(rows, row)

Written(file, row) == [header |-> "whole", rows |-> Appended(file.rows, row)]

\* A full disk leaves any part of what was to be written.
PartsWritten(file, row) ==
    {file, Written(file, [row EXCEPT !.line = "cut"])} \cup
    (IF file.header = "none"
     THEN {[header |-> header, rows |-> <<>>] : header \in {"cut", "whole"}} ELSE {})

\* _append_rows.  Where the file is there its header must be.  A listener's
\* failure is logged.
AppendRow(table, row) ==
    LET file == directory[table]
    IN \/ file.header # "cut" /\ Adds(table, Written(file, row)) /\ UNCHANGED writeFaults
       \/ file.header = "cut" /\ UNCHANGED <<directory, writeFaults>>
       \/ /\ file.header # "cut" /\ WriteFails(table)
          /\ \E part \in PartsWritten(file, row) : Adds(table, part)

\* The round's report goes to the listeners before the checkpoint is judged.
EndRound(r) ==
    /\ main[r].at = "training" /\ main[r].steps = RoundSteps * (main[r].round + 1)
    /\ \E to \in {"training", "best"} :
         main' = [main EXCEPT ![r].at = to, ![r].round = @ + 1]
    /\ AppendRow("rounds", RoundRow(r, main[r].round + 1))
    /\ UNCHANGED thread

\* on_checkpoint, of a best that was saved; it may fail like the other.
RecordCheckpoint(r) ==
    /\ RunGoes(r, "best", "training")
    /\ AppendRow("checkpoints", RoundRow(r, main[r].round))
    /\ UNCHANGED thread

\* The plan is done, the run stopped early, or an interrupt came.
EndTraining(r) ==
    /\ main[r].at \in {"training", "step", "best"}
    /\ main' = [main EXCEPT ![r].at = "trained"]
    /\ UNCHANGED <<thread, directory, writeFaults>>

\* The process is gone, both threads at once.
Kill(r) ==
    /\ main[r].at \notin {"config", "ended", "killed"}
    /\ main' = [main EXCEPT ![r].at = "killed"]
    /\ UNCHANGED <<thread, directory, writeFaults>>

Prepares(r) ==
    \/ ReadConfig(r) \/ Preflight(r) \/ PassCheck(r) \/ CreateRunDirectory(r)
    \/ CopyConfig(r) \/ WriteDietShares(r) \/ WarmFeatureCache(r)
Trains(r) ==
    \/ CountStep(r) \/ LookUp(r) \/ EndRound(r) \/ RecordCheckpoint(r) \/ EndTraining(r)
Samples(r) ==
    \/ StartSampler(r) \/ SampleSteps(r) \/ SampleCache(r) \/ WriteSample(r)
    \/ EndThread(r) \/ SetStop(r) \/ StopSampler(r) \/ CloseFeatureCache(r)

RunsNext == \E r \in Runs : Prepares(r) \/ Trains(r) \/ Samples(r) \/ Kill(r)

RunsSpec == RunsInit /\ [][RunsNext]_runsVars

---------------------------------------------------------------------------
(* Properties *)

MainPlaces ==
    {"config", "preflight", "built", "made", "copied", "shared", "warmed", "training",
     "step", "best", "trained", "joining", "closing", "ended", "killed"}
MainStates ==
    [at : MainPlaces, checkOnly : BOOLEAN, cache : {"none", "open", "closed"},
     steps : Nat, texts : Nat, round : Nat, lastRow : BOOLEAN]
ThreadStates ==
    [at : {"none", "waiting", "reading", "writing", "done"}, steps : Nat, texts : Nat]

RunsTypeOK ==
    /\ main \in [Runs -> MainStates]
    /\ thread \in [Runs -> ThreadStates]
    /\ directory \in RunDirectories \cup {NoDirectory}
    /\ writeFaults \in [Tables -> Nat]

Increasing(rows, field) ==
    \A i, j \in DOMAIN rows : i < j => rows[i][field] < rows[j][field]
NotDecreasing(rows, field) ==
    \A i, j \in DOMAIN rows : i < j => rows[i][field] <= rows[j][field]

\* The run whose directory it is wrote every row there.
RecordIsOfOneRun ==
    directory # NoDirectory =>
      \A row \in ToSet(directory.rounds.rows) \cup ToSet(directory.checkpoints.rows)
                   \cup ToSet(directory.samples) : row.by = directory.owner

\* A run that takes a step has its directory, with its config and diet in it.
TrainedRunsAreRecorded ==
    \A r \in Runs : main[r].steps > 0 =>
      directory.owner = r /\ directory.config /\ directory.shares

\* The samples never go back, two threads writing them, and end with the run's
\* totals; and a sampler reads no cache that was closed.
SamplesFollowTheRun ==
    /\ directory # NoDirectory =>
         /\ NotDecreasing(directory.samples, "steps") /\ NotDecreasing(directory.samples, "texts")
         /\ LET o == directory.owner
            IN main[o].lastRow =>
                 Last(directory.samples) = RowOf(o, main[o].steps, main[o].texts)
    /\ \A r \in Runs : thread[r].at \in {"waiting", "reading", "writing"} => main[r].cache = "open"

RoundsTold(rows) == {row.round : row \in {told \in ToSet(rows) : told.line = "whole"}}

\* rounds.csv has the rounds in order, and a failed append costs it at most its
\* own round and the one that runs into it, once the file has its header.
RoundsFollowTheRun ==
    directory # NoDirectory =>
      LET done == main[directory.owner].round
          rounds == directory.rounds.rows
          checkpoints == directory.checkpoints.rows
      IN /\ Increasing(rounds, "round") /\ Increasing(checkpoints, "round")
         /\ \A row \in ToSet(checkpoints) : row.round <= done
         /\ directory.rounds.header # "cut" =>
              done - Cardinality(RoundsTold(rounds)) <= 2 * writeFaults.rounds

\* Whatever runs are given one directory, however their threads interleave,
\* fail and die, the directory tells one run's story (run_training.main,
\* RunSampler, CsvTable, CsvRunListener).
RecordTellsTheRun ==
    RecordIsOfOneRun /\ TrainedRunsAreRecorded /\ SamplesFollowTheRun /\ RoundsFollowTheRun
=============================================================================
