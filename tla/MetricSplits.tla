---------------------------- MODULE MetricSplits ----------------------------
(***************************************************************************)
(* Dojos that open a metric while run_metrics may be rewriting it.  A      *)
(* 17lands metric is read through a slice file that joins its partitions   *)
(* (SeventeenLandsSliceFile.build), any other as it is; GenericDojo checks *)
(* the file's versions against the binder and the deck box, and reuses the *)
(* three split files there are or has FileManagerParquet make them.        *)
(* Training processes come one after another.                              *)
(***************************************************************************)
EXTENDS MetricFamilies

VARIABLES
    slice,    \* the slice file
    splits,   \* the split files, None for one there is not
    partials, \* .shuffle_tmp: the split files being written
    dojo,     \* the dojo being opened
    opened    \* dojos opened, as bounded by scenario.dojos

dojoVars == <<slice, splits, partials, dojo, opened>>
vars == <<metricVars, dojoVars>>

Split == 1..3     \* _SPLIT_INDEX: train, test, validation

NoDojo == [at |-> "down"]

Init ==
    /\ MetricInit
    /\ slice = None
    /\ splits = [s \in Split |-> None] /\ partials = [s \in Split |-> None]
    /\ dojo = NoDojo
    /\ opened = 0

\* find_partitions, of the metric the dojos train on: one a pass.
Partitions == {p \in Passes : files[<<p, 1>>].state # "none"}

\* A partition's size and modification time: each state of each run its own.
PartitionStamp(p) == <<files[<<p, 1>>].state, files[<<p, 1>>].time>>

Content(o) == [rows |-> files[o].rows, decks |-> files[o].decks]

\* One of the dojo's steps raises, or the process ends there.
Raise == dojo' = NoDojo

\* A dojo is opened, its splits to be rebuilt or not (force_resplit).
OpenDojo ==
    /\ dojo.at = "down" /\ opened < scenario.dojos
    /\ opened' = opened + 1
    /\ \E forced \in BOOLEAN :
         dojo' = [at |-> IF TheFamily.sliced THEN "slice" ELSE "source", forced |-> forced]
    /\ UNCHANGED <<metricVars, slice, splits, partials>>

-----------------------------------------------------------------------------
(* SeventeenLandsSliceFile.build *)

\* Mutant of FingerprintOf: taken when the slice is written.
FingerprintAtEnd(stamps) == [p \in DOMAIN stamps |-> PartitionStamp(p)]

\* SliceFingerprint.of_partitions, taken before anything is read.
FingerprintOf(stamps) == stamps

\* The fingerprint is the slice's: the slice is used as it is.
FindSlice ==
    LET stamps == [p \in Partitions |-> PartitionStamp(p)]
    IN  /\ dojo.at = "slice"
        /\ IF Partitions = {} THEN Raise
           ELSE IF slice # None /\ slice.stamps = stamps
           THEN dojo' = [at |-> "source", forced |-> dojo.forced]
           ELSE dojo' = [at |-> "versions", forced |-> dojo.forced, stamps |-> stamps]
        /\ UNCHANGED <<metricVars, slice, splits, partials, opened>>

\* _shared_version_metadata raises unless the partitions' versions agree.
ReadVersions ==
    LET versions == {files[<<p, 1>>].version : p \in DOMAIN dojo.stamps}
    IN  /\ dojo.at = "versions"
        /\ IF \A p \in DOMAIN dojo.stamps :
                files[<<p, 1>>].state = "whole" /\ versions = {files[<<p, 1>>].version}
           THEN dojo' = [at |-> "read", forced |-> dojo.forced, stamps |-> dojo.stamps,
                         version |-> CHOOSE v \in versions : TRUE, parts |-> <<>>]
           ELSE Raise
        /\ UNCHANGED <<metricVars, slice, splits, partials, opened>>

\* Each partition is opened and read in its turn.
ReadPartition ==
    LET left == DOMAIN dojo.stamps \ DOMAIN dojo.parts
        p == CHOOSE q \in left : \A other \in left : q <= other
    IN  /\ dojo.at = "read" /\ left # {}
        /\ IF files[<<p, 1>>].state = "whole"
           THEN dojo' = [dojo EXCEPT !.parts =
                   [q \in DOMAIN @ \cup {p} |-> IF q = p THEN Content(<<p, 1>>) ELSE @[q]]]
           ELSE Raise
        /\ UNCHANGED <<metricVars, slice, splits, partials, opened>>

\* _write_atomically
WriteSlice ==
    /\ dojo.at = "read" /\ DOMAIN dojo.parts = DOMAIN dojo.stamps
    /\ slice' = [stamps |-> FingerprintOf(dojo.stamps), version |-> dojo.version,
                 parts |-> dojo.parts]
    /\ dojo' = [at |-> "source", forced |-> dojo.forced]
    /\ UNCHANGED <<metricVars, splits, partials, opened>>

-----------------------------------------------------------------------------
(* GenericDojo and FileManagerParquet *)

\* The training file as it is now: the slice, or the metric's own file.
Source ==
    IF TheFamily.sliced THEN [whole |-> TRUE, version |-> slice.version, parts |-> slice.parts]
    ELSE [whole |-> files[<<1, 1>>].state = "whole", version |-> files[<<1, 1>>].version,
          parts |-> <<Content(<<1, 1>>)>>]

\* The file manager reads the schema, _check_metric_version its versions.
CheckVersions ==
    /\ dojo.at = "source"
    /\ IF /\ Source.whole /\ Source.version = binder
          /\ KindOf(<<1, 1>>).boxed => BoxFile.stamp = binder
       THEN dojo' = [at |-> "splits", forced |-> dojo.forced] ELSE Raise
    /\ UNCHANGED <<metricVars, slice, splits, partials, opened>>

\* splits_exist
SplitsExist == \A s \in Split : splits[s] # None

UseSplits ==
    /\ dojo.at = "splits" /\ ~dojo.forced /\ SplitsExist
    /\ dojo' = [at |-> "open"]
    /\ UNCHANGED <<metricVars, slice, splits, partials, opened>>

\* make_splits: what an earlier build left is removed, the writers opened.
StartSplits ==
    /\ dojo.at = "splits" /\ (dojo.forced \/ ~SplitsExist)
    /\ IF Source.whole
       THEN /\ partials' = [s \in Split |-> [build |-> opened, whole |-> FALSE, parts |-> <<>>]]
            /\ dojo' = [at |-> "shuffle"]
       ELSE /\ partials' = [s \in Split |-> None]
            /\ Raise
    /\ UNCHANGED <<metricVars, slice, splits, opened>>

\* The source is read and its rows dealt out; the writers are closed.
ShuffleSource ==
    /\ dojo.at = "shuffle"
    /\ IF Source.whole
       THEN /\ partials' = [s \in Split |-> [build |-> opened, whole |-> TRUE,
                                            parts |-> Source.parts]]
            /\ dojo' = [at |-> "delete"]
       ELSE /\ partials' = [s \in Split |-> None]     \* _deleted_on_failure
            /\ Raise
    /\ UNCHANGED <<metricVars, slice, splits, opened>>

\* _delete_old_splits, of a set: in any order.
DeleteOldSplit ==
    /\ dojo.at = "delete"
    /\ \/ \E s \in Split : /\ splits[s] # None
                           /\ splits' = [splits EXCEPT ![s] = None]
                           /\ UNCHANGED dojo
       \/ /\ \A s \in Split : splits[s] = None
          /\ dojo' = [at |-> "rename", next |-> 1]
          /\ UNCHANGED splits
    /\ UNCHANGED <<metricVars, slice, partials, opened>>

RenameSplit ==
    /\ dojo.at = "rename"
    /\ splits' = [splits EXCEPT ![dojo.next] = partials[dojo.next]]
    /\ partials' = [partials EXCEPT ![dojo.next] = None]
    /\ dojo' = IF dojo.next < 3 THEN [dojo EXCEPT !.next = @ + 1] ELSE [at |-> "open"]
    /\ UNCHANGED <<metricVars, slice, opened>>

\* Training ends, or the process dies anywhere.
StopDojo ==
    /\ dojo.at # "down"
    /\ Raise
    /\ UNCHANGED <<metricVars, slice, splits, partials, opened>>

DojoNext ==
    \/ OpenDojo \/ FindSlice \/ ReadVersions \/ ReadPartition \/ WriteSlice
    \/ CheckVersions \/ UseSplits \/ StartSplits \/ ShuffleSource
    \/ DeleteOldSplit \/ RenameSplit \/ StopDojo

-----------------------------------------------------------------------------
Next ==
    \/ MetricNext /\ UNCHANGED dojoVars
    \/ DojoNext

Spec == Init /\ [][Next]_vars

\* A run goes on, the families are run again and again, as is ingestion.
FairSpec ==
    /\ Spec
    /\ WF_vars(RunStep /\ UNCHANGED dojoVars)
    /\ WF_vars(StartRun /\ UNCHANGED dojoVars)
    /\ WF_vars(IngestBox /\ UNCHANGED dojoVars)

-----------------------------------------------------------------------------
(* Properties *)

\* Wherever a build was cut off, three split files that exist are those of one
\* build, from one reading of the source, each complete: splits_exist never
\* takes parts of two builds, or of one that was cut off, for splits.
SplitsAreOfOneBuild ==
    SplitsExist => /\ splits[1].whole
                   /\ \A s \in Split : splits[s] = splits[1]

\* A slice that would be used as it is holds what its partitions hold, though
\* metrics are rewritten in place while it is built.
CurrentSliceIsItsPartitions ==
    slice # None /\ slice.stamps = [p \in Partitions |-> PartitionStamp(p)] =>
        \A p \in Partitions :
            /\ slice.parts[p] = Content(<<p, 1>>)
            /\ slice.version = files[<<p, 1>>].version

\* What a dojo derives from metric files, and would use, is of one reading.
DerivedFilesAreOfOneReading == SplitsAreOfOneBuild /\ CurrentSliceIsItsPartitions
=============================================================================
