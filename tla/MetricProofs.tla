---------------------------- MODULE MetricProofs ----------------------------
(***************************************************************************)
(* Proofs about metric families and the dojos beside them, whatever the    *)
(* families, their data and the bounds: an accepted metric file is sound,  *)
(* and what a dojo derives from metric files is of one reading.            *)
(***************************************************************************)
EXTENDS MetricSplits, SequenceTheorems, TLAPS

-----------------------------------------------------------------------------
(* Types, and where a run can be. *)

Made == [rows : SUBSET Nat, decks : SUBSET CardLists, clean : BOOLEAN]

OutputFile ==
    [state : {"none", "torn", "whole"}, version : Nat, rows : SUBSET Nat,
     decks : SUBSET CardLists, clean : BOOLEAN, upTo : Nat, time : Nat]

Saving == {"save", "stamp", "backup", "stampCopy"}

RunState ==
    [at : {"down", "open", "scan", "finalize"} \cup Saving, pass : Nat, row : Nat,
     metric : Nat, step : Nat, binder : Nat, upTo : Nat, made : Seq(Made)]

OpenCalls == {"row", "cards", "release"}

MetricTypeOK ==
    /\ BoxTypeOK /\ copy \in BoxContent
    /\ scenario \in Scenarios
    /\ files \in [Outputs -> OutputFile]
    /\ run \in RunState
    /\ binder \in 0..scenario.versions
    /\ arrived \in 0..Len(scenario.raw[1])
    /\ started \in Nat /\ lost \subseteq DeckIds

\* A run is at a metric, a step and a row that there are; only a row it could
\* read has it past the first step of the first metric, and only between two
\* steps is it in a call of the box.
RunInv ==
    /\ run.binder \in 0..scenario.versions
    /\ run.upTo \in 0..Len(scenario.raw[1])
    /\ run.at # "down" => run.pass \in Passes
    /\ run.at \in {"scan", "finalize"} =>
         /\ DOMAIN run.made = DOMAIN MetricsOf(run.pass)
         /\ run.metric \in DOMAIN MetricsOf(run.pass)
    /\ run.at = "scan" =>
         /\ run.row > 0
         /\ run.step \in DOMAIN Program
         /\ run.metric # 1 \/ run.step # 1 =>
              run.row \in ReadableRows(run.pass, run.upTo, run.binder)
    /\ run.at \in Saving => OwnsBox
    /\ call.at \in OpenCalls \cup {"flush"} => run.at = "scan" /\ run.step > 1
    /\ call.at = "stamp" => run.at = "stamp"

-----------------------------------------------------------------------------
(* The box. *)

\* A run only adds decks, and only to a box of its own; the call it is in
\* either keeps what the box had or is undone.
BoxInv ==
    /\ call.at \in OpenCalls =>
         /\ call.kind = "create_if_absent"
         /\ savepoint.rows \subseteq view.rows
         /\ call.at # "row" => call.deck \in view.rows
    /\ call.at \in OpenCalls \cup {"flush"} => OwnsBox
    /\ call.at = "stamp" => TheFamily.box # "memory"
    /\ ~OwnsBox => stored.rows = view.rows

\* What the box has whether or not the call in progress succeeds.
Settled == IF call.at \in OpenCalls THEN savepoint.rows ELSE view.rows

\* What the call in progress is about to add.
InHand == IF call.at \in OpenCalls THEN {call.deck} ELSE {}

\* What the outputs' readers will find, once the process is gone.
Reachable == IF TheFamily.box = "memory" /\ run.at = "down" THEN copy.rows ELSE Settled

\* A metric that keeps its decks names those that are settled or were lost.
FileKeepsDecks(o) ==
    files[o].state = "whole" /\ KeepsDecks(KindOf(o)) =>
        files[o].decks \subseteq lost \cup Reachable

MadeKeepsDecks(m) ==
    KeepsDecks(MetricsOf(run.pass)[m]) => run.made[m].decks \subseteq lost \cup Settled

\* A deck that a step of the row's program put or found.
HasCome(j) ==
    Program[j].do # "row" =>
        RowOf(run.pass, run.row, run.binder)[Program[j].deck] \in lost \cup Settled \cup InHand

DecksInv ==
    /\ \A o \in Outputs : FileKeepsDecks(o)
    /\ run.at \in {"scan", "finalize"} =>
         \A m \in DOMAIN MetricsOf(run.pass) : MadeKeepsDecks(m)
    /\ run.at = "scan" => \A j \in 1..(run.step - 1) : HasCome(j)

-----------------------------------------------------------------------------
(* The rows. *)

\* What is written down is of rows that were there and could be read.
OfReadRows(made, p, upTo, version) ==
    /\ made.rows \subseteq ReadableRows(p, upTo, version)
    /\ made.decks \subseteq UNION {DecksOf(p, i, version) : i \in made.rows}

LeavesNoneOut(kind) == kind.program[1].do # "find"

\* The metric's turn with the row is over.
HasHad(m, i) == run.at = "finalize" \/ i < run.row \/ (i = run.row /\ m < run.metric)

\* A file is of rows it had, and an untroubled one leaves none of them out.
FileOfRows(o) ==
    LET f == files[o]
    IN  /\ OfReadRows(f, o[1], f.upTo, f.version)
        /\ f.clean /\ LeavesNoneOut(KindOf(o)) =>
             ReadableRows(o[1], f.upTo, f.version) \subseteq f.rows

\* So is what the pass has made, up to where it is.
MadeOfRows(m) ==
    /\ OfReadRows(run.made[m], run.pass, run.upTo, run.binder)
    /\ run.made[m].clean /\ LeavesNoneOut(MetricsOf(run.pass)[m]) =>
         \A i \in ReadableRows(run.pass, run.upTo, run.binder) :
           HasHad(m, i) => i \in run.made[m].rows

RowsInv ==
    /\ \A o \in Outputs : files[o].state = "whole" => FileOfRows(o)
    /\ run.at \in {"scan", "finalize"} =>
         \A m \in DOMAIN MetricsOf(run.pass) : MadeOfRows(m)

-----------------------------------------------------------------------------
(* The files' times, and what dojos derive from them. *)

\* The run has written the output and will not again.
Finished(o) ==
    \/ run.at \in Saving
    \/ o[1] < run.pass
    \/ o[1] = run.pass /\ run.at = "finalize" /\ o[2] < run.metric

FilesInv ==
    ~scenario.endless =>
      \A o \in Outputs :
        /\ files[o].time <= started
        /\ run.at # "down" /\ files[o].state = "whole" /\ files[o].time = started =>
             Finished(o)

FileStamp == {"none", "torn", "whole"} \X Nat

Rank(state) == IF state = "none" THEN 0 ELSE IF state = "torn" THEN 1 ELSE 2

\* A stamp is of no later state of the file than another.
NotAfter(s, t) == s[2] < t[2] \/ (s[2] = t[2] /\ Rank(s[1]) <= Rank(t[1]))

\* Taken of the partitions there were, and still true or of an earlier state.
StampsOfThePast(stamps) ==
    /\ DOMAIN stamps \subseteq Passes
    /\ \A p \in DOMAIN stamps :
         stamps[p] \in FileStamp /\ NotAfter(stamps[p], PartitionStamp(p))

\* What was read of a partition is what it holds as long as the stamp is true.
ReadAsStamped(stamps, version, parts) ==
    \A p \in DOMAIN stamps :
        stamps[p] = PartitionStamp(p) =>
          /\ files[<<p, 1>>].state = "whole" /\ version = files[<<p, 1>>].version
          /\ p \in DOMAIN parts => parts[p] = Content(<<p, 1>>)

SliceInv ==
    slice # None =>
      /\ StampsOfThePast(slice.stamps)
      /\ ReadAsStamped(slice.stamps, slice.version, slice.parts)
      /\ DOMAIN slice.parts = DOMAIN slice.stamps

ReadingInv ==
    /\ dojo.at \in {"versions", "read"} => StampsOfThePast(dojo.stamps)
    /\ dojo.at = "read" =>
         /\ dojo = [at |-> "read", forced |-> dojo.forced, stamps |-> dojo.stamps,
                    version |-> dojo.version, parts |-> dojo.parts]
         /\ ReadAsStamped(dojo.stamps, dojo.version, dojo.parts)

\* A family that is run for ever has no dojos, and no times.
NoDojosInv ==
    /\ opened \in Nat
    /\ scenario.endless => dojo.at = "down" /\ slice = None

Same(parts) == \A s \in Split : parts[s] = parts[1]

\* The split files renamed are the whole partial ones; those still to be are
\* not there, until the last one is.
SplitsInv ==
    /\ DOMAIN splits = Split /\ DOMAIN partials = Split
    /\ dojo.at # "rename" => SplitsAreOfOneBuild
    /\ dojo.at = "delete" => partials[1].whole /\ Same(partials)
    /\ dojo.at = "rename" =>
         /\ dojo = [at |-> "rename", next |-> dojo.next] /\ dojo.next \in Split
         /\ \E build :
              /\ build.whole
              /\ \A s \in Split :
                   IF s < dojo.next THEN splits[s] = build
                   ELSE splits[s] = None /\ partials[s] = build

-----------------------------------------------------------------------------
(* Facts about families. *)

USE DEF TheFamily, Passes

LEMMA FamilyFacts ==
    ASSUME ScenarioAssumption, scenario \in Scenarios
    PROVE  /\ Passes = 1..Len(TheFamily.passes) /\ Len(TheFamily.passes) \in Nat \ {0}
           /\ FamilyAssumption(TheFamily)
           /\ scenario.versions \in Nat /\ 0..scenario.versions \subseteq Stamps
           /\ Len(scenario.raw[1]) \in Nat
           /\ scenario.first \in 0..Len(scenario.raw[1])
           /\ scenario.endless \in BOOLEAN /\ scenario.dojos \in Nat
           /\ scenario.endless => scenario.dojos = 0
           /\ DeckIds = CardLists
<1>1. FamilyAssumption(TheFamily)
  BY DEF ScenarioAssumption
<1>2. /\ TheFamily.passes \in Seq(Seq(MetricKind)) /\ Len(TheFamily.passes) > 0
  BY <1>1 DEF FamilyAssumption
<1> QED
  BY <1>1, <1>2 DEF ScenarioAssumption

LEMMA PassFacts ==
    ASSUME ScenarioAssumption, scenario \in Scenarios, NEW p \in Passes
    PROVE  /\ MetricsOf(p) \in Seq(MetricKind)
           /\ Len(MetricsOf(p)) \in Nat \ {0}
           /\ DOMAIN MetricsOf(p) = 1..Len(MetricsOf(p))
           /\ \A m \in DOMAIN MetricsOf(p) : <<p, m>> \in Outputs
<1>1. FamilyAssumption(TheFamily)
  BY FamilyFacts
<1>2. MetricsOf(p) \in Seq(MetricKind) /\ Len(MetricsOf(p)) > 0
  BY <1>1 DEF FamilyAssumption, MetricsOf
<1> QED
  BY <1>2 DEF Outputs

LEMMA MetricFacts ==
    ASSUME ScenarioAssumption, scenario \in Scenarios,
           NEW p \in Passes, NEW m \in DOMAIN MetricsOf(p)
    PROVE  LET kind == MetricsOf(p)[m]
           IN  /\ KindAssumption(kind)
               /\ kind \in MetricKind
               /\ Len(kind.program) \in Nat \ {0}
               /\ DOMAIN kind.program = 1..Len(kind.program)
               /\ \A i \in DOMAIN kind.program : kind.program[i] \in MetricStep
               /\ kind.program[Len(kind.program)].do = "row"
<1> DEFINE kind == MetricsOf(p)[m]
<1>1. FamilyAssumption(TheFamily)
  BY FamilyFacts
<1>2. KindAssumption(kind)
  BY <1>1 DEF FamilyAssumption, MetricsOf
<1>3. kind \in MetricKind /\ Len(kind.program) > 0
      /\ kind.program[Len(kind.program)].do = "row"
  BY <1>2 DEF KindAssumption
<1>4. kind.program \in Seq(MetricStep)
  BY <1>3 DEF MetricKind
<1> QED
  BY <1>2, <1>3, <1>4

LEMMA OutputFacts ==
    ASSUME ScenarioAssumption, scenario \in Scenarios, NEW o \in Outputs
    PROVE  /\ o[1] \in Passes /\ o[2] \in DOMAIN MetricsOf(o[1]) /\ o = <<o[1], o[2]>>
           /\ o[1] \in Nat /\ o[2] \in Nat
           /\ KindOf(o) = MetricsOf(o[1])[o[2]]
<1>1. /\ o[1] \in Passes /\ o[2] \in DOMAIN MetricsOf(o[1]) /\ o = <<o[1], o[2]>>
  BY DEF Outputs
<1>2. o[1] \in Nat
  <2>1. /\ Passes = 1..Len(TheFamily.passes)
        /\ Len(TheFamily.passes) \in Nat
    BY FamilyFacts
  <2> QED
    BY <1>1, <2>1
<1>3. o[2] \in Nat
  <2>1. /\ Len(MetricsOf(o[1])) \in Nat
        /\ DOMAIN MetricsOf(o[1]) = 1..Len(MetricsOf(o[1]))
    BY <1>1, PassFacts
  <2> QED
    BY <1>1, <2>1
<1>4. KindOf(o) = MetricsOf(o[1])[o[2]]
  BY DEF KindOf
<1> QED
  BY <1>1, <1>2, <1>3, <1>4

LEMMA RowFacts ==
    ASSUME ScenarioAssumption, scenario \in Scenarios, NEW p \in Passes,
           NEW i \in 1..Len(scenario.raw[1]), NEW v \in 0..scenario.versions,
           RowOf(p, i, v) # Malformed
    PROVE  \A n \in 1..2 : RowOf(p, i, v)[n] \in DeckIds /\ RowOf(p, i, v)[n] \in CardLists
<1>1. p \in DOMAIN scenario.raw /\ i \in DOMAIN scenario.raw[p] /\ DeckIds = CardLists
  BY DEF ScenarioAssumption
<1>2. RowOf(p, i, v) \in (CardLists \X CardLists) \cup {Malformed}
  BY <1>1 DEF ScenarioAssumption, RowOf
<1> QED
  BY <1>1, <1>2

-----------------------------------------------------------------------------
(* Where a step of a scan leaves the run. *)

\* What a metric has made is all a step may change beside its place.
Scans(r) ==
    /\ r \in RunState /\ r.at = "scan"
    /\ r.pass = run.pass /\ r.binder = run.binder /\ r.upTo = run.upTo
    /\ DOMAIN r.made = DOMAIN run.made

\* The same metric's next step, the next metric's first, or the next row.
NextPlace(r) ==
    \/ /\ r.row = run.row /\ r.metric = run.metric
       /\ run.step < Len(Program) /\ r.step = run.step + 1
    \/ /\ r.row = run.row /\ r.step = 1
       /\ run.metric < Len(MetricsOf(run.pass)) /\ r.metric = run.metric + 1
    \/ /\ r.row = run.row + 1 /\ r.metric = 1 /\ r.step = 1
       /\ ~(run.metric < Len(MetricsOf(run.pass)))

LEMMA PlacedRun ==
    ASSUME NEW r \in RunState, NEW row \in Nat, NEW metric \in Nat, NEW step \in Nat
    PROVE  /\ [r EXCEPT !.row = row, !.metric = metric, !.step = step] \in RunState
           /\ [r EXCEPT !.metric = metric, !.step = step] \in RunState
           /\ [r EXCEPT !.step = step] \in RunState
BY DEF RunState

LEMMA AfterMetricFacts ==
    ASSUME NEW r, Scans(r), r.row = run.row, r.metric = run.metric
    PROVE  /\ Scans(AfterMetric(r)) /\ NextPlace(AfterMetric(r))
           /\ AfterMetric(r).made = r.made /\ AfterMetric(r).step = 1
<1>1. r \in RunState /\ r.pass = run.pass 
      /\ r.row + 1 \in Nat /\ r.metric + 1 \in Nat
  BY DEF Scans, RunState
<1>2. CASE r.metric < Len(MetricsOf(r.pass))
  <2> DEFINE n == [r EXCEPT !.metric = r.metric + 1, !.step = 1]
  <2>1. AfterMetric(r) = n
    BY <1>2 DEF AfterMetric
  <2>2. n \in RunState
    BY <1>1, PlacedRun
  <2>3. /\ n.at = r.at /\ n.pass = r.pass /\ n.binder = r.binder /\ n.upTo = r.upTo
        /\ n.made = r.made /\ n.step = 1 /\ n.metric = r.metric + 1 /\ n.row = r.row
    BY <1>1 DEF RunState
  <2> HIDE DEF n
  <2> QED
    BY <2>1, <2>2, <2>3, <1>1, <1>2 DEF Scans, NextPlace
<1>3. CASE ~(r.metric < Len(MetricsOf(r.pass)))
  <2> DEFINE n == [r EXCEPT !.row = r.row + 1, !.metric = 1, !.step = 1]
  <2>1. AfterMetric(r) = n
    BY <1>3 DEF AfterMetric
  <2>2. n \in RunState
    BY <1>1, PlacedRun
  <2>3. /\ n.at = r.at /\ n.pass = r.pass /\ n.binder = r.binder /\ n.upTo = r.upTo
        /\ n.made = r.made /\ n.step = 1 /\ n.metric = 1 /\ n.row = r.row + 1
    BY <1>1 DEF RunState
  <2> HIDE DEF n
  <2> QED
    BY <2>1, <2>2, <2>3, <1>1, <1>3 DEF Scans, NextPlace
<1> QED
  BY <1>2, <1>3

LEMMA AfterStepFacts ==
    ASSUME NEW r, Scans(r), r.row = run.row, r.metric = run.metric, r.step = run.step
    PROVE  /\ Scans(AfterStep(r)) /\ NextPlace(AfterStep(r))
           /\ AfterStep(r).made = r.made
           /\ AfterStep(r).step = 1 \/
                /\ run.step < Len(Program) /\ AfterStep(r).step = run.step + 1
                /\ AfterStep(r).metric = run.metric /\ AfterStep(r).row = run.row
<1>1. CASE run.step < Len(Program)
  <2> DEFINE n == [r EXCEPT !.step = r.step + 1]
  <2>1. AfterStep(r) = n
    BY <1>1 DEF AfterStep
  <2>2. r \in RunState /\ r.step + 1 \in Nat
    BY DEF Scans, RunState
  <2>3. n \in RunState
    BY <2>2, PlacedRun
  <2>4. /\ n.at = r.at /\ n.pass = r.pass /\ n.binder = r.binder /\ n.upTo = r.upTo
        /\ n.made = r.made /\ n.step = r.step + 1 /\ n.metric = r.metric /\ n.row = r.row
    BY <2>2 DEF RunState
  <2> HIDE DEF n
  <2> QED
    BY <1>1, <2>1, <2>2, <2>3, <2>4 DEF Scans, NextPlace
<1>2. CASE ~(run.step < Len(Program))
  <2>1. AfterStep(r) = AfterMetric(r)
    BY <1>2 DEF AfterStep
  <2> QED
    BY <2>1, AfterMetricFacts
<1> QED
  BY <1>1, <1>2

-----------------------------------------------------------------------------
(* Types. *)

LEMMA MadeTyped ==
    ASSUME ScenarioAssumption, MetricTypeOK, RunInv, run.at \in {"scan", "finalize"}
    PROVE  /\ run.pass \in Passes
           /\ run.made \in Seq(Made)
           /\ \A m \in DOMAIN MetricsOf(run.pass) : m \in DOMAIN run.made /\ run.made[m] \in Made
           /\ run.metric \in DOMAIN run.made
           /\ run.upTo \in Nat /\ run.binder \in Nat /\ run.binder \in 0..scenario.versions
<1>1. run.made \in Seq(Made)
  BY DEF MetricTypeOK, RunState
<1>2. \A m \in DOMAIN run.made : run.made[m] \in Made
  BY <1>1
<1> QED
  BY <1>1, <1>2 DEF RunInv, MetricTypeOK, RunState

\* A metric's own outcome is replaced.
LEMMA MadeReplaced ==
    ASSUME ScenarioAssumption, MetricTypeOK, RunInv, run.at = "scan",
           NEW made \in Made, NEW r,
           r = [run EXCEPT !.made = [run.made EXCEPT ![run.metric] = made]]
    PROVE  /\ Scans(r) /\ r.row = run.row /\ r.metric = run.metric /\ r.step = run.step
           /\ r.made = [run.made EXCEPT ![run.metric] = made]
<1>1. run.made \in Seq(Made) /\ run.metric \in DOMAIN run.made /\ run \in RunState
  BY MadeTyped DEF MetricTypeOK
<1> DEFINE mades == [run.made EXCEPT ![run.metric] = made]
<1>2. mades \in Seq(Made) /\ DOMAIN mades = DOMAIN run.made
  BY <1>1, ExceptSeq
<1>3. r = [run EXCEPT !.made = mades]
  OBVIOUS
<1> HIDE DEF mades
<1>4. r \in RunState
  BY <1>1, <1>2, <1>3 DEF RunState
<1>5. /\ r.at = run.at /\ r.pass = run.pass /\ r.binder = run.binder /\ r.upTo = run.upTo
      /\ r.row = run.row /\ r.metric = run.metric /\ r.step = run.step /\ r.made = mades
  BY <1>1, <1>3 DEF RunState
<1> QED
  BY <1>2, <1>4, <1>5 DEF Scans, mades

Marked(made) == [made EXCEPT !.clean = FALSE]

\* A row is written: the metric goes on with the row and its decks.
Named ==
    {RowOf(run.pass, run.row, run.binder)[i] : i \in Program[run.step].decks}

WithRow(made) == [made EXCEPT !.rows = @ \cup {run.row}, !.decks = @ \cup Named]

LEMMA MarkedFacts ==
    ASSUME NEW made \in Made
    PROVE  /\ Marked(made) \in Made
           /\ Marked(made).rows = made.rows /\ Marked(made).decks = made.decks
           /\ Marked(made).clean = FALSE
BY DEF Made, Marked

LEMMA WithRowFacts ==
    ASSUME NEW made \in Made, run.row \in Nat, Named \subseteq CardLists
    PROVE  /\ WithRow(made) \in Made
           /\ WithRow(made).rows = made.rows \cup {run.row}
           /\ WithRow(made).decks = made.decks \cup Named
           /\ WithRow(made).clean = made.clean
BY DEF Made, WithRow

\* A metric is isolated in a row: it goes on with what it has, marked.
LEMMA IsolatedFacts ==
    ASSUME ScenarioAssumption, MetricTypeOK, RunInv, run.at = "scan"
    PROVE  /\ Scans(Isolated) /\ NextPlace(Isolated) /\ Isolated.step = 1
           /\ Isolated.made = [run.made EXCEPT ![run.metric] = Marked(run.made[run.metric])]
<1> DEFINE old == run.made[run.metric]
           r == [run EXCEPT !.made[run.metric].clean = FALSE]
<1>1. old \in Made /\ run \in RunState /\ run.metric \in DOMAIN run.made
  BY MadeTyped DEF MetricTypeOK, RunInv
<1>2. Marked(old) \in Made
  BY <1>1, MarkedFacts
<1>3. r = [run EXCEPT !.made = [run.made EXCEPT ![run.metric] = Marked(old)]]
  BY DEF Marked
<1>4. Isolated = AfterMetric(r)
  BY DEF Isolated
<1> HIDE DEF r, old
<1>5. /\ Scans(r) /\ r.row = run.row /\ r.metric = run.metric /\ r.step = run.step
      /\ r.made = [run.made EXCEPT ![run.metric] = Marked(old)]
  BY <1>2, <1>3, MadeReplaced
<1> QED
  BY <1>4, <1>5, AfterMetricFacts DEF old

LEMMA ScanFacts ==
    ASSUME ScenarioAssumption, MetricTypeOK, RunInv, run.at = "scan"
    PROVE  LET kind == MetricsOf(run.pass)[run.metric]
           IN  /\ kind \in MetricKind /\ KindAssumption(kind) /\ Program = kind.program
               /\ Len(Program) \in Nat \ {0} /\ DOMAIN Program = 1..Len(Program)
               /\ run.step \in 1..Len(Program) /\ Program[run.step] \in MetricStep
               /\ Program[Len(Program)].do = "row"
<1>1. run.pass \in Passes /\ run.metric \in DOMAIN MetricsOf(run.pass)
      /\ run.step \in DOMAIN Program
  BY DEF RunInv
<1> QED
  BY <1>1, MetricFacts DEF Program, MetricTypeOK

\* The row a scan is reading has two decks.
LEMMA RowInHand ==
    ASSUME ScenarioAssumption, MetricTypeOK, RunInv, Scanning, Readable
    PROVE  /\ run.at = "scan" /\ call.at = "idle"
           /\ run.row \in ReadableRows(run.pass, run.upTo, run.binder)
           /\ \A n \in 1..2 : /\ RowOf(run.pass, run.row, run.binder)[n] \in DeckIds
                              /\ RowOf(run.pass, run.row, run.binder)[n] \in CardLists
<1>1. /\ run.at = "scan" /\ run.row \in 1..run.upTo
      /\ run.upTo \in 0..Len(scenario.raw[1]) /\ run.binder \in 0..scenario.versions
      /\ RowOf(run.pass, run.row, run.binder) # Malformed
      /\ Len(scenario.raw[1]) \in Nat /\ run.pass \in Passes
      /\ call.at = "idle"
  BY FamilyFacts DEF Scanning, Readable, RunInv, MetricTypeOK, RunState
<1>2. run.row \in 1..Len(scenario.raw[1])
  BY <1>1
<1> QED
  BY <1>1, <1>2, RowFacts DEF ReadableRows, MetricTypeOK

LEMMA StepIs ==
    ASSUME ScenarioAssumption, MetricTypeOK, RunInv, NEW action, DoesNext(action)
    PROVE  /\ Scanning /\ Readable /\ run.at = "scan"
           /\ Program[run.step].do = action
           /\ action # "row" => /\ Program[run.step].deck \in 1..2
                                /\ DeckOfStep \in DeckIds /\ DeckOfStep \in CardLists
                                /\ run.step < Len(Program)
           /\ action = "row" => Named \subseteq CardLists
<1>1. Scanning /\ Readable /\ run.at = "scan" /\ Program[run.step].do = action
  BY DEF DoesNext, Scanning
<1>2. Program[run.step] \in MetricStep /\ run.step \in 1..Len(Program)
      /\ Program[Len(Program)].do = "row" /\ Len(Program) \in Nat
  BY <1>1, ScanFacts
<1>3. \A n \in 1..2 : /\ RowOf(run.pass, run.row, run.binder)[n] \in DeckIds
                      /\ RowOf(run.pass, run.row, run.binder)[n] \in CardLists
  BY <1>1, RowInHand
<1>4. ASSUME action # "row"
      PROVE  Program[run.step].deck \in 1..2 /\ run.step < Len(Program)
  <2>1. Program[run.step].deck \in 1..2
    BY <1>1, <1>2, <1>4 DEF MetricStep
  <2>2. run.step # Len(Program)
    BY <1>1, <1>2, <1>4
  <2> QED
    BY <1>2, <2>1, <2>2
<1>5. ASSUME action = "row"
      PROVE  Named \subseteq CardLists
  <2>1. Program[run.step].decks \subseteq 1..2
    BY <1>1, <1>2, <1>5 DEF MetricStep
  <2> QED
    BY <1>3, <2>1 DEF Named
<1> QED
  BY <1>1, <1>3, <1>4, <1>5 DEF DeckOfStep

\* The step is of a scan: what it does to the run is one of these.
LEMMA PutDeckRun ==
    ASSUME ScenarioAssumption, MetricTypeOK, RunInv, PutDeck
    PROVE  /\ Scans(run') /\ NextPlace(run') /\ run'.made = run.made
           /\ run'.step = run.step + 1 /\ run.step < Len(Program)
           /\ run'.row = run.row /\ run'.metric = run.metric
           /\ Readable /\ Scanning
<1>1. DoesNext("put") /\ run' = AfterStep(run)
  BY DEF PutDeck
<1>2. Scans(run)
  BY <1>1 DEF Scans, DoesNext, Scanning, MetricTypeOK
<1>3. run.step < Len(Program) /\ run.step \in Nat /\ Readable /\ Scanning
  BY <1>1, StepIs DEF MetricTypeOK, RunState
<1>4. AfterStep(run) = [run EXCEPT !.step = run.step + 1]
  BY <1>3 DEF AfterStep
<1>5. /\ AfterStep(run).step = run.step + 1
      /\ AfterStep(run).row = run.row /\ AfterStep(run).metric = run.metric
  BY <1>4 DEF MetricTypeOK, RunState
<1> QED
  BY <1>1, <1>2, <1>3, <1>5, AfterStepFacts

LEMMA SeeDeckRun ==
    ASSUME ScenarioAssumption, MetricTypeOK, RunInv, SeeDeck
    PROVE  /\ Scans(run') /\ NextPlace(run') /\ run'.made = run.made
           /\ run'.step = run.step + 1 /\ run.step < Len(Program)
           /\ run'.row = run.row /\ run'.metric = run.metric
           /\ Readable /\ Scanning
           /\ DeckOfStep \in view.rows
<1>1. PICK action \in {"put", "find"} : DoesNext(action)
  BY DEF SeeDeck
<1>2. run' = AfterStep(run) /\ DeckOfStep \in view.rows
  BY DEF SeeDeck
<1>3. Scans(run)
  BY <1>1 DEF Scans, DoesNext, Scanning, MetricTypeOK
<1>4. run.step < Len(Program) /\ run.step \in Nat /\ Readable /\ Scanning
  BY <1>1, StepIs DEF MetricTypeOK, RunState
<1>5. AfterStep(run) = [run EXCEPT !.step = run.step + 1]
  BY <1>4 DEF AfterStep
<1>6. /\ AfterStep(run).step = run.step + 1
      /\ AfterStep(run).row = run.row /\ AfterStep(run).metric = run.metric
  BY <1>5 DEF MetricTypeOK, RunState
<1> QED
  BY <1>2, <1>3, <1>4, <1>6, AfterStepFacts

LEMMA MissDeckRun ==
    ASSUME ScenarioAssumption, MetricTypeOK, RunInv, MissDeck
    PROVE  /\ Scans(run') /\ NextPlace(run') /\ run'.made = run.made
           /\ run'.step = 1 /\ Readable /\ Scanning
           /\ Program[run.step].do = "find"
<1>1. DoesNext("find") /\ run' = AfterMetric(run)
  BY DEF MissDeck
<1>2. Scans(run)
  BY <1>1 DEF Scans, DoesNext, Scanning, MetricTypeOK
<1> QED
  BY <1>1, <1>2, AfterMetricFacts DEF DoesNext

LEMMA WriteOutputRowRun ==
    ASSUME ScenarioAssumption, MetricTypeOK, RunInv, WriteOutputRow
    PROVE  /\ Scans(run') /\ NextPlace(run')
           /\ run'.made = [run.made EXCEPT ![run.metric] = WithRow(run.made[run.metric])]
           /\ WithRow(run.made[run.metric]) \in Made
           /\ run'.step = 1 \/
                /\ run.step < Len(Program) /\ run'.step = run.step + 1
                /\ run'.metric = run.metric /\ run'.row = run.row
           /\ Readable /\ Scanning /\ Program[run.step].do = "row"
<1> DEFINE old == run.made[run.metric]
           r == [run EXCEPT !.made[run.metric].rows = @ \cup {run.row},
                            !.made[run.metric].decks = @ \cup Named]
<1>1. DoesNext("row") /\ run' = AfterStep(r)
  BY DEF WriteOutputRow, Named
<1>2. old \in Made /\ run.row \in Nat /\ Named \subseteq CardLists /\ run.at = "scan"
      /\ run.metric \in DOMAIN run.made /\ run \in RunState
  BY <1>1, MadeTyped, StepIs DEF MetricTypeOK, RunState, RunInv
<1>3. WithRow(old) \in Made
  BY <1>2, WithRowFacts
<1>4. r = [run EXCEPT !.made = [run.made EXCEPT ![run.metric] = WithRow(old)]]
  BY DEF WithRow
<1> HIDE DEF r, old
<1>5. /\ Scans(r) /\ r.row = run.row /\ r.metric = run.metric /\ r.step = run.step
      /\ r.made = [run.made EXCEPT ![run.metric] = WithRow(old)]
  BY <1>2, <1>3, <1>4, MadeReplaced
<1> QED
  BY <1>1, <1>3, <1>5, AfterStepFacts DEF old, DoesNext

\* The steps of the box leave contents and calls that are well formed.
LEMMA BoxStepTyped ==
    ASSUME BoxTypeOK,
           \/ \E d \in DeckIds, c \in CardLists : BeginCall("create_if_absent", d, c)
           \/ WriteRow \/ WriteCards \/ Release \/ Flush
           \/ StatementFails \/ CommitFails \/ Discard
           \/ \E stamp \in Stamps : Save(stamp)
           \/ WriteStamp
    PROVE  BoxTypeOK'
<1>1. EmptyBox \in BoxContent /\ Idle \in Call /\ [at |-> "flush"] \in Call
  BY DEF EmptyBox, BoxContent, Idle, Call
<1>2. \A box \in BoxContent :
        /\ [box EXCEPT !.stamp = None] \in BoxContent
        /\ \A rows \in SUBSET DeckIds : [box EXCEPT !.rows = rows] \in BoxContent
        /\ \A d \in DeckIds, c \in CardLists \cup {None} :
             [box EXCEPT !.cards[d] = c] \in BoxContent
        /\ \A stamp \in Stamps : [box EXCEPT !.stamp = stamp] \in BoxContent
        /\ box.rows \in SUBSET DeckIds
  BY DEF BoxContent
<1>3. \A stamp \in Stamps : [at |-> "stamp", stamp |-> stamp] \in Call
  BY DEF Call
<1>4. call.at \in OpenCalls =>
        /\ call.kind \in Kinds /\ call.deck \in DeckIds /\ call.cards \in CardLists
        /\ \A at \in OpenCalls : [call EXCEPT !.at = at] \in Call
  BY DEF BoxTypeOK, Call, OpenCalls
<1>5. call.at = "stamp" => call.stamp \in Stamps
  BY DEF BoxTypeOK, Call
<1>6. ASSUME NEW d \in DeckIds, NEW c \in CardLists, BeginCall("create_if_absent", d, c)
      PROVE  BoxTypeOK'
  <2>1. [at |-> "row", kind |-> "create_if_absent", deck |-> d, cards |-> c] \in Call
    BY DEF Call, Kinds
  <2> QED
    BY <1>2, <1>6, <2>1 DEF BoxTypeOK, BeginCall, Cleared
<1>7. CASE WriteRow
  <2>1. RowsAfter(call.kind, call.deck) \in SUBSET DeckIds
    BY <1>2, <1>4, <1>7 DEF BoxTypeOK, WriteRow, RowsAfter, OpenCalls
  <2> QED
    BY <1>2, <1>4, <1>7, <2>1 DEF BoxTypeOK, WriteRow, OpenCalls
<1>8. CASE WriteCards
  <2> DEFINE c == IF call.kind = "delete" THEN None ELSE call.cards
  <2>1. c \in CardLists \cup {None} /\ call.deck \in DeckIds
        /\ [call EXCEPT !.at = "release"] \in Call
    BY <1>4, <1>8 DEF WriteCards, OpenCalls
  <2>2. view' = [view EXCEPT !.cards[call.deck] = c]
    BY <1>8 DEF WriteCards
  <2> HIDE DEF c
  <2>3. view' \in BoxContent
    BY <1>2, <2>1, <2>2 DEF BoxTypeOK
  <2> QED
    BY <1>8, <2>1, <2>3 DEF BoxTypeOK, WriteCards
<1>9. CASE Release
  BY <1>1, <1>9 DEF BoxTypeOK, Release
<1>10. CASE Flush \/ StatementFails \/ CommitFails \/ Discard
  BY <1>1, <1>10 DEF BoxTypeOK, Flush, StatementFails, CommitFails, Discard
<1>11. ASSUME NEW stamp \in Stamps, Save(stamp)
       PROVE  BoxTypeOK'
  BY <1>3, <1>11 DEF BoxTypeOK, Save
<1>12. CASE WriteStamp
  BY <1>1, <1>2, <1>5, <1>12 DEF BoxTypeOK, WriteStamp
<1> QED
  BY <1>6, <1>7, <1>8, <1>9, <1>10, <1>11, <1>12

LEMMA BoxGoneFacts ==
    ASSUME BoxTypeOK, copy \in BoxContent, BoxGone
    PROVE  /\ BoxTypeOK' /\ call'.at = "idle"
           /\ ~OwnsBox => stored' = stored /\ view' = stored
           /\ TheFamily.box # "memory" => stored' = stored /\ view' = stored
           /\ TheFamily.box = "memory" => view'.rows = {}
           /\ view.rows \subseteq lost' \cup BoxFile.rows
           /\ lost \subseteq lost' /\ (lost \subseteq DeckIds => lost' \subseteq DeckIds)
<1>1. EmptyBox \in BoxContent /\ Idle \in Call /\ EmptyBox.rows = {}
  BY DEF EmptyBox, BoxContent, Idle, Call
<1>2. view.rows \subseteq DeckIds
  BY DEF BoxTypeOK, BoxContent
<1>3. CASE TheFamily.box = "memory"
  BY <1>1, <1>2, <1>3 DEF BoxGone, BoxTypeOK, Idle, OwnsBox
<1>4. CASE TheFamily.box # "memory"
  BY <1>1, <1>2, <1>4 DEF BoxGone, Discard, BoxTypeOK, Idle, OwnsBox
<1> QED
  BY <1>3, <1>4

LEMMA TornTyped ==
    ASSUME started' \in Nat
    PROVE  Torn \in OutputFile /\ Torn.state = "torn" /\ Torn.time = started'
BY DEF Torn, File, Nothing, OutputFile

LEMMA WholeTyped ==
    ASSUME started \in Nat, run.binder \in Nat, NEW made \in Made, NEW upTo \in Nat
    PROVE  LET f == File("whole", made, upTo, StampVersion)
           IN  /\ f \in OutputFile
               /\ f.state = "whole" /\ f.time = started /\ f.version = run.binder
               /\ f.rows = made.rows /\ f.decks = made.decks /\ f.clean = made.clean
               /\ f.upTo = upTo
BY DEF File, OutputFile, Made, StampVersion

LEMMA OpenedTyped ==
    ASSUME files \in [Outputs -> OutputFile], started' \in Nat, NEW passes
    PROVE  StreamsOpened(passes) \in [Outputs -> OutputFile]
<1>1. Torn \in OutputFile
  BY TornTyped
<1> HIDE DEF Torn
<1> QED
  BY <1>1 DEF StreamsOpened

\* What a pass that is cut short may leave.
LEMMA CutShortFacts ==
    ASSUME ScenarioAssumption, MetricTypeOK, RunInv, run.at = "scan", CutShort
    PROVE  /\ files' \in [Outputs -> OutputFile]
           /\ \A o \in Outputs :
                \/ files'[o] = files[o]
                \/ /\ o[1] = run.pass /\ KindOf(o).output = "stream"
                   /\ files'[o].state = "whole" /\ files'[o].time = started
                   /\ files'[o].version = run.binder /\ files'[o].upTo = run.upTo
                   /\ ~files'[o].clean
                   /\ \E made \in {Nothing, run.made[o[2]]} :
                        files'[o].rows = made.rows /\ files'[o].decks = made.decks
<1> DEFINE Cut(o, buffered) ==
             LET made == IF buffered THEN Nothing ELSE run.made[o[2]]
             IN  File("whole", [made EXCEPT !.clean = FALSE], run.upTo, StampVersion)
<1>1. ASSUME NEW o \in Outputs, o[1] = run.pass, NEW buffered \in BOOLEAN
      PROVE  /\ Cut(o, buffered) \in OutputFile
             /\ Cut(o, buffered).state = "whole" /\ Cut(o, buffered).time = started
             /\ Cut(o, buffered).version = run.binder /\ Cut(o, buffered).upTo = run.upTo
             /\ ~Cut(o, buffered).clean
             /\ \E made \in {Nothing, run.made[o[2]]} :
                  /\ Cut(o, buffered).rows = made.rows
                  /\ Cut(o, buffered).decks = made.decks
  <2> DEFINE made == IF buffered THEN Nothing ELSE run.made[o[2]]
  <2>1. Nothing \in Made
    BY DEF Nothing, Made
  <2>2. run.made[o[2]] \in Made
    BY <1>1, OutputFacts, MadeTyped DEF MetricTypeOK
  <2>3. made \in Made /\ made \in {Nothing, run.made[o[2]]}
    BY <2>1, <2>2
  <2>4. Cut(o, buffered) = File("whole", Marked(made), run.upTo, StampVersion)
    BY DEF Marked
  <2>5. run.upTo \in Nat /\ run.binder \in Nat /\ started \in Nat
    BY DEF MetricTypeOK, RunState
  <2> HIDE DEF made, Cut
  <2>6. /\ Marked(made) \in Made /\ Marked(made).clean = FALSE
        /\ Marked(made).rows = made.rows /\ Marked(made).decks = made.decks
    BY <2>3, MarkedFacts
  <2> DEFINE f == File("whole", Marked(made), run.upTo, StampVersion)
  <2>7. /\ f \in OutputFile
        /\ f.state = "whole" /\ f.time = started /\ f.version = run.binder
        /\ f.rows = Marked(made).rows /\ f.decks = Marked(made).decks
        /\ f.clean = Marked(made).clean /\ f.upTo = run.upTo
    BY <2>5, <2>6, WholeTyped
  <2> HIDE DEF f
  <2>8. ~f.clean
    BY <2>6, <2>7
  <2> QED
    BY <2>3, <2>4, <2>6, <2>7, <2>8 DEF f
<1>2. PICK closed \in BOOLEAN, buffered \in BOOLEAN :
        files' = [o \in Outputs |->
                    IF closed /\ o[1] = run.pass /\ KindOf(o).output = "stream"
                    THEN Cut(o, buffered) ELSE files[o]]
  BY DEF CutShort
<1> HIDE DEF Cut
<1>3. ASSUME NEW o \in Outputs
      PROVE  /\ files'[o] \in OutputFile
             /\ \/ files'[o] = files[o]
                \/ o[1] = run.pass /\ KindOf(o).output = "stream"
                   /\ files'[o] = Cut(o, buffered)
  BY <1>1, <1>2 DEF MetricTypeOK
<1>4. files' \in [Outputs -> OutputFile]
  BY <1>2, <1>3
<1> QED
  BY <1>1, <1>3, <1>4

-----------------------------------------------------------------------------
(* What every step does to the run. *)

LEMMA DownFacts ==
    /\ Down \in RunState /\ Down.at = "down" /\ Down.binder = 0 /\ Down.upTo = 0
    /\ Down.pass = 0
<1>1. <<>> \in Seq(Made)
  OBVIOUS
<1> QED
  BY <1>1 DEF Down, RunState

LEMMA BeforePassFacts ==
    ASSUME NEW p \in Nat, NEW version \in Nat
    PROVE  LET r == BeforePass(p, version)
           IN  /\ r \in RunState /\ r.at = "open" /\ r.pass = p /\ r.binder = version
               /\ r.upTo = 0
BY DownFacts DEF BeforePass, RunState

LEMMA AfterPassFacts ==
    ASSUME ScenarioAssumption, MetricTypeOK, RunInv, run.pass \in Passes
    PROVE  /\ AfterPass \in RunState
           /\ \/ /\ AfterPass.at = "open" /\ AfterPass.upTo = 0
                 /\ AfterPass.pass = run.pass + 1 /\ AfterPass.pass \in Passes
                 /\ AfterPass.binder = run.binder
              \/ /\ AfterPass.at = "save" /\ OwnsBox /\ AfterPass.pass = run.pass
                 /\ AfterPass.binder = run.binder /\ AfterPass.upTo = run.upTo
              \/ /\ AfterPass = Down /\ ~OwnsBox
<1>1. /\ run \in RunState /\ run.pass \in Nat /\ run.binder \in Nat
      /\ run.pass \in 1..Len(TheFamily.passes) /\ Passes = 1..Len(TheFamily.passes)
      /\ Len(TheFamily.passes) \in Nat
  BY FamilyFacts DEF MetricTypeOK, RunState
<1>2. CASE run.pass < Len(TheFamily.passes)
  <2>1. run.pass + 1 \in Passes /\ run.pass + 1 \in Nat
    BY <1>1, <1>2
  <2>2. AfterPass = BeforePass(run.pass + 1, run.binder)
    BY <1>2 DEF AfterPass
  <2>3. /\ AfterPass \in RunState /\ AfterPass.at = "open"
        /\ AfterPass.pass = run.pass + 1 /\ AfterPass.binder = run.binder
        /\ AfterPass.upTo = 0
    BY <1>1, <2>1, <2>2, BeforePassFacts
  <2> QED
    BY <2>1, <2>3
<1>3. CASE ~(run.pass < Len(TheFamily.passes)) /\ OwnsBox
  <2> DEFINE r == [run EXCEPT !.at = "save"]
  <2>1. AfterPass = r
    BY <1>3 DEF AfterPass
  <2>2. r \in RunState
    BY <1>1 DEF RunState, Saving
  <2>3. /\ r.at = "save" /\ r.pass = run.pass /\ r.binder = run.binder /\ r.upTo = run.upTo
    BY <1>1 DEF RunState
  <2> HIDE DEF r
  <2> QED
    BY <1>3, <2>1, <2>2, <2>3
<1>4. CASE ~(run.pass < Len(TheFamily.passes)) /\ ~OwnsBox
  BY <1>4, DownFacts DEF AfterPass
<1> QED
  BY <1>2, <1>3, <1>4

\* A scan's step leaves the run where there is a row, a metric and a step.
LEMMA ScanStepKeepsRun ==
    ASSUME ScenarioAssumption, MetricTypeOK, RunInv, run.at = "scan", scenario' = scenario,
           Scans(run'), NextPlace(run'),
           run.row \in ReadableRows(run.pass, run.upTo, run.binder),
           call'.at \in OpenCalls \cup {"flush"} => run'.step > 1,
           call'.at # "stamp"
    PROVE  RunInv'
<1>1. /\ run.pass \in Passes /\ run.metric \in 1..Len(MetricsOf(run.pass))
      /\ DOMAIN MetricsOf(run.pass) = 1..Len(MetricsOf(run.pass))
      /\ Len(MetricsOf(run.pass)) \in Nat \ {0} /\ run.row \in Nat /\ run.row > 0
      /\ run.step \in 1..Len(Program) /\ Len(Program) \in Nat
  BY PassFacts, ScanFacts DEF MetricTypeOK, RunInv, RunState
<1>2. /\ run' \in RunState /\ run'.at = "scan"
      /\ run'.pass = run.pass /\ run'.binder = run.binder /\ run'.upTo = run.upTo
      /\ DOMAIN run'.made = DOMAIN run.made
  BY DEF Scans
<1>3. \A p : MetricsOf(p)' = MetricsOf(p)
  BY DEF MetricsOf
<1>4. run'.metric \in DOMAIN MetricsOf(run.pass) /\ run'.row > 0
  BY <1>1 DEF NextPlace
<1>5. Program' = MetricsOf(run.pass)[run'.metric].program
  BY <1>2, <1>3 DEF Program
<1>6. run'.step \in DOMAIN Program'
  <2>1. CASE run'.metric = run.metric /\ run.step < Len(Program) /\ run'.step = run.step + 1
    <3>1. Program' = Program
      BY <1>5, <2>1 DEF Program
    <3> QED
      BY <1>1, <2>1, <3>1, ScanFacts
  <2>2. CASE run'.step = 1
    <3>1. DOMAIN Program' = 1..Len(Program') /\ Len(Program') \in Nat \ {0}
      BY <1>1, <1>4, <1>5, MetricFacts DEF MetricTypeOK
    <3> QED
      BY <2>2, <3>1
  <2> QED
    BY <2>1, <2>2 DEF NextPlace
<1>7. run'.metric # 1 \/ run'.step # 1 =>
        run'.row \in ReadableRows(run'.pass, run'.upTo, run'.binder)
  BY <1>2 DEF NextPlace
<1>8. \A p, u, v : ReadableRows(p, u, v)' = ReadableRows(p, u, v)
  BY DEF ReadableRows, RowOf
<1> QED
  BY <1>1, <1>2, <1>3, <1>4, <1>6, <1>7, <1>8 DEF RunInv, Saving

\* So does a step that leaves it outside a pass.
LEMMA RestKeepsRun ==
    ASSUME scenario' = scenario, run'.at \notin {"scan", "finalize"},
           run'.binder \in 0..scenario.versions,
           run'.upTo \in 0..Len(scenario.raw[1]),
           run'.at # "down" => run'.pass \in Passes,
           run'.at \in Saving => OwnsBox,
           call'.at \notin OpenCalls \cup {"flush"},
           call'.at = "stamp" => run'.at = "stamp"
    PROVE  RunInv'
BY DEF RunInv, OwnsBox

LEMMA AfterPassKeepsRun ==
    ASSUME ScenarioAssumption, MetricTypeOK, RunInv, run.pass \in Passes,
           scenario' = scenario, run' = AfterPass, call'.at = "idle"
    PROVE  RunInv' /\ run' \in RunState
<1>1. 0 \in 0..scenario.versions /\ 0 \in 0..Len(scenario.raw[1])
      /\ run.binder \in 0..scenario.versions /\ run.upTo \in 0..Len(scenario.raw[1])
  BY FamilyFacts DEF MetricTypeOK, RunInv
<1>2. run' \in RunState /\ run'.at \notin {"scan", "finalize"}
  BY AfterPassFacts, DownFacts
<1>3. /\ run'.binder \in 0..scenario.versions /\ run'.upTo \in 0..Len(scenario.raw[1])
      /\ run'.at # "down" => run'.pass \in Passes
      /\ run'.at \in Saving => OwnsBox
  BY <1>1, AfterPassFacts, DownFacts DEF Saving
<1> QED
  BY <1>2, <1>3, RestKeepsRun DEF OpenCalls

LEMMA DownKeepsRun ==
    ASSUME ScenarioAssumption, MetricTypeOK,
           scenario' = scenario, run' = Down, call'.at = "idle"
    PROVE  RunInv' /\ run' \in RunState
<1>1. 0 \in 0..scenario.versions /\ 0 \in 0..Len(scenario.raw[1])
  BY FamilyFacts DEF MetricTypeOK
<1> QED
  BY <1>1, DownFacts, RestKeepsRun DEF OpenCalls, Saving

-----------------------------------------------------------------------------
(* Types and places are kept. *)

\* What is left where it was is what it was.
LEMMA TypesFrom ==
    ASSUME MetricTypeOK, scenario' = scenario,
           BoxTypeOK', copy' \in BoxContent, files' \in [Outputs -> OutputFile],
           run' \in RunState, binder' \in 0..scenario.versions,
           arrived' \in 0..Len(scenario.raw[1]), started' \in Nat, lost' \subseteq DeckIds
    PROVE  MetricTypeOK'
<1>1. Outputs' = Outputs
  BY DEF Outputs, MetricsOf
<1> QED
  BY <1>1 DEF MetricTypeOK, BoxContent, OutputFile, RunState, Made

LEMMA SameBoxTyped ==
    BoxTypeOK /\ UNCHANGED boxVars => BoxTypeOK' /\ call' = call
BY DEF BoxTypeOK, boxVars

LEMMA ScanTyped ==
    ASSUME ScenarioAssumption, MetricTypeOK, RunInv,
           \/ PutDeck \/ SeeDeck \/ MissDeck \/ WriteOutputRow \/ SkipRow \/ CallStep
           \/ EndOfRows
    PROVE  MetricTypeOK' /\ RunInv'
<1> DEFINE Ready == run.row \in ReadableRows(run.pass, run.upTo, run.binder)
<1>1. CASE PutDeck
  <2>1. DoesNext("put") /\ UNCHANGED unmoved
        /\ BeginCall("create_if_absent", DeckOfStep, DeckOfStep)
    BY <1>1 DEF PutDeck
  <2>2. DeckOfStep \in DeckIds /\ DeckOfStep \in CardLists /\ run.at = "scan"
        /\ call'.at = "row"
    BY <2>1, StepIs DEF BeginCall
  <2>3. BoxTypeOK'
    BY <2>1, <2>2, BoxStepTyped DEF MetricTypeOK
  <2>4. /\ Scans(run') /\ NextPlace(run') /\ run'.step = run.step + 1
        /\ Readable /\ Scanning
    BY <1>1, PutDeckRun
  <2>5. Ready /\ run.step \in Nat /\ run.step > 0
    BY <2>2, <2>4, RowInHand, ScanFacts
  <2>6. MetricTypeOK'
    BY <2>1, <2>3, <2>4, TypesFrom DEF MetricTypeOK, unmoved, Scans
  <2> QED
    BY <2>1, <2>2, <2>4, <2>5, <2>6, ScanStepKeepsRun DEF unmoved, OpenCalls
<1>2. CASE SeeDeck \/ MissDeck \/ WriteOutputRow
  <2>1. Scans(run') /\ NextPlace(run') /\ Readable /\ Scanning
    BY <1>2, SeeDeckRun, MissDeckRun, WriteOutputRowRun
  <2>2. UNCHANGED <<boxVars, unmoved>>
    BY <1>2 DEF SeeDeck, MissDeck, WriteOutputRow
  <2>3. Ready /\ run.at = "scan" /\ call.at = "idle"
    BY <2>1, RowInHand
  <2>4. BoxTypeOK' /\ call' = call
    BY <2>2, SameBoxTyped DEF MetricTypeOK
  <2>5. MetricTypeOK'
    BY <2>1, <2>2, <2>4, TypesFrom DEF MetricTypeOK, unmoved, Scans
  <2> QED
    BY <2>1, <2>2, <2>3, <2>4, <2>5, ScanStepKeepsRun DEF unmoved, OpenCalls
<1>3. CASE SkipRow
  <2>1. /\ Scanning /\ ~Readable /\ run' = [run EXCEPT !.row = @ + 1]
        /\ UNCHANGED <<boxVars, unmoved>> /\ run.at = "scan" /\ call.at = "idle"
    BY <1>3 DEF SkipRow, Scanning
  <2>2. BoxTypeOK' /\ call' = call
    BY <2>1, SameBoxTyped DEF MetricTypeOK
  <2>3. run \in RunState /\ run.row \in Nat /\ run.row + 1 > 0
    BY DEF MetricTypeOK, RunState
  <2>4. run' \in RunState
    BY <2>1, <2>3 DEF RunState
  <2>5. /\ run'.at = "scan" /\ run'.pass = run.pass /\ run'.row = run.row + 1
        /\ run'.metric = run.metric /\ run'.step = run.step
        /\ run'.binder = run.binder /\ run'.upTo = run.upTo /\ run'.made = run.made
    BY <2>1, <2>3 DEF RunState
  <2>6. MetricTypeOK'
    BY <2>1, <2>2, <2>4, TypesFrom DEF MetricTypeOK, unmoved
  <2>7. run.metric = 1 /\ run.step = 1
    BY <2>1 DEF RunInv, ReadableRows, Readable
  <2>8. \A p, m : MetricsOf(p)' = MetricsOf(p)
    BY <2>1 DEF MetricsOf, unmoved
  <2>9. Program' = Program
    BY <2>5, <2>8 DEF Program
  <2>10. run.step \in DOMAIN Program /\ DOMAIN run.made = DOMAIN MetricsOf(run.pass)
    BY <2>1 DEF RunInv
  <2> QED
    BY <2>1, <2>2, <2>3, <2>5, <2>6, <2>7, <2>8, <2>9, <2>10
    DEF RunInv, unmoved, OpenCalls, Saving
<1>4. CASE CallStep
  <2>1. /\ run.at = "scan" /\ run' = run /\ UNCHANGED unmoved
        /\ WriteRow \/ WriteCards \/ Release \/ Flush
    BY <1>4 DEF CallStep
  <2>2. BoxTypeOK'
    BY <2>1, BoxStepTyped DEF MetricTypeOK
  <2>3. MetricTypeOK'
    BY <2>1, <2>2, TypesFrom DEF MetricTypeOK, unmoved
  <2>4. /\ call'.at # "stamp"
        /\ call.at \in OpenCalls \cup {"flush"}
    <3>1. call.at \in OpenCalls => [call EXCEPT !.at = "cards"].at = "cards"
                                   /\ [call EXCEPT !.at = "release"].at = "release"
      BY DEF OpenCalls, MetricTypeOK, BoxTypeOK, Call
    <3>2. CASE WriteRow \/ WriteCards
      BY <3>1, <3>2 DEF WriteRow, WriteCards, OpenCalls
    <3>3. CASE Release \/ Flush
      BY <3>3 DEF Release, Flush, OpenCalls, Idle
    <3> QED
      BY <2>1, <3>2, <3>3
  <2>5. run.step > 1
    BY <2>4 DEF RunInv
  <2>6. Program' = Program /\ (\A p, u, v : ReadableRows(p, u, v)' = ReadableRows(p, u, v))
        /\ (\A p : MetricsOf(p)' = MetricsOf(p))
    BY <2>1 DEF Program, MetricsOf, ReadableRows, RowOf, unmoved
  <2> QED
    BY <2>1, <2>3, <2>4, <2>5, <2>6 DEF RunInv, unmoved, Saving, OwnsBox
<1>5. CASE EndOfRows
  <2>1. /\ run' = [run EXCEPT !.at = "finalize", !.metric = 1, !.step = 1]
        /\ UNCHANGED <<boxVars, unmoved>> /\ run.at = "scan" /\ call.at = "idle"
    BY <1>5 DEF EndOfRows
  <2>2. BoxTypeOK' /\ call' = call
    BY <2>1, SameBoxTyped DEF MetricTypeOK
  <2>3. run \in RunState
    BY DEF MetricTypeOK
  <2>4. run' \in RunState
    BY <2>1, <2>3 DEF RunState
  <2>5. /\ run'.at = "finalize" /\ run'.pass = run.pass /\ run'.metric = 1
        /\ run'.binder = run.binder /\ run'.upTo = run.upTo /\ run'.made = run.made
    BY <2>1, <2>3 DEF RunState
  <2>6. MetricTypeOK'
    BY <2>1, <2>2, <2>4, TypesFrom DEF MetricTypeOK, unmoved
  <2>7. 1 \in DOMAIN MetricsOf(run.pass)
    BY <2>1, PassFacts DEF RunInv, MetricTypeOK
  <2>8. \A p, m : MetricsOf(p)' = MetricsOf(p)
    BY <2>1 DEF MetricsOf, unmoved
  <2> QED
    BY <2>1, <2>2, <2>5, <2>6, <2>7, <2>8 DEF RunInv, unmoved, OpenCalls, Saving
<1> QED
  BY <1>1, <1>2, <1>3, <1>4, <1>5

LEMMA FaultTyped ==
    ASSUME ScenarioAssumption, MetricTypeOK, RunInv,
           \/ CallRaises \/ BatchLost \/ MetricRaises
    PROVE  MetricTypeOK' /\ RunInv' /\ Scans(run') /\ NextPlace(run') /\ run.at = "scan"
           /\ run' = Isolated /\ call'.at = "idle"
           /\ run.row \in ReadableRows(run.pass, run.upTo, run.binder)
<1>1. /\ run.at = "scan" /\ run' = Isolated /\ scenario' = scenario
      /\ UNCHANGED <<files, binder, copy, arrived, started>>
      /\ lost' = lost \/ lost' = lost \cup (view.rows \ stored.rows)
  BY DEF CallRaises, BatchLost, MetricRaises, Scanning
<1>2. BoxTypeOK' /\ call'.at = "idle"
  <2>1. CASE CallRaises
    BY <2>1, BoxStepTyped DEF CallRaises, StatementFails, CommitFails, Idle, MetricTypeOK
  <2>2. CASE BatchLost
    BY <2>2, BoxStepTyped DEF BatchLost, Discard, Idle, MetricTypeOK
  <2>3. CASE MetricRaises
    BY <2>3, SameBoxTyped DEF MetricRaises, Scanning, MetricTypeOK
  <2> QED
    BY <2>1, <2>2, <2>3
<1>3. run.row \in ReadableRows(run.pass, run.upTo, run.binder)
  <2>1. CASE CallRaises
    <3>1. call.at \in OpenCalls \cup {"flush", "stamp"}
      BY <2>1 DEF CallRaises, StatementFails, CommitFails, OpenCalls
    <3> QED
      BY <1>1, <3>1 DEF RunInv
  <2>2. CASE BatchLost
    <3>1. call.at \in OpenCalls \cup {"flush", "stamp"}
      BY <2>2 DEF BatchLost, OpenCalls, MetricTypeOK, BoxTypeOK, Call
    <3> QED
      BY <1>1, <3>1 DEF RunInv
  <2>3. CASE MetricRaises
    BY <2>3, RowInHand DEF MetricRaises
  <2> QED
    BY <2>1, <2>2, <2>3
<1>4. Scans(run') /\ NextPlace(run')
  BY <1>1, IsolatedFacts
<1>5. lost' \subseteq DeckIds
  BY <1>1 DEF MetricTypeOK, BoxTypeOK, BoxContent
<1>6. MetricTypeOK'
  BY <1>1, <1>2, <1>4, <1>5, TypesFrom DEF MetricTypeOK, Scans
<1> QED
  BY <1>1, <1>2, <1>3, <1>4, <1>6, ScanStepKeepsRun DEF OpenCalls

LEMMA EndPassTyped ==
    ASSUME ScenarioAssumption, MetricTypeOK, RunInv, BadRowEndsPass \/ MetricEndsPass
    PROVE  MetricTypeOK' /\ RunInv' /\ CutShort /\ run.at = "scan" /\ call.at = "idle"
           /\ run' = AfterPass /\ run.pass \in Passes
           /\ UNCHANGED <<boxVars, scenario, binder, copy, arrived, started, lost>>
<1>1. /\ CutShort /\ run.at = "scan" /\ call.at = "idle" /\ run' = AfterPass
      /\ UNCHANGED <<boxVars, scenario, binder, copy, arrived, started, lost>>
  BY DEF BadRowEndsPass, MetricEndsPass, EndPassEarly, Scanning
<1>2. BoxTypeOK' /\ call' = call
  BY <1>1, SameBoxTyped DEF MetricTypeOK
<1>3. run.pass \in Passes
  BY <1>1 DEF RunInv
<1>4. RunInv' /\ run' \in RunState
  BY <1>1, <1>2, <1>3, AfterPassKeepsRun
<1>5. files' \in [Outputs -> OutputFile]
  BY <1>1, CutShortFacts
<1>6. MetricTypeOK'
  BY <1>1, <1>2, <1>4, <1>5, TypesFrom DEF MetricTypeOK
<1> QED
  BY <1>1, <1>3, <1>4, <1>6

\* The process is gone, for one reason or another.
LEMMA GoneTyped ==
    ASSUME ScenarioAssumption, MetricTypeOK, RunInv,
           \/ BadRowEndsRun \/ StampCopy \/ SaveRaises \/ Die
    PROVE  /\ MetricTypeOK' /\ RunInv' /\ BoxGone /\ run' = Down /\ run.at # "down"
           /\ UNCHANGED <<scenario, binder, arrived, started>>
           /\ copy'.rows = copy.rows
           /\ files' = files \/ (run.at = "scan" /\ CutShort)
<1>1. /\ BoxGone /\ run' = Down /\ run.at # "down"
      /\ UNCHANGED <<scenario, binder, arrived, started>>
      /\ files' = files \/ (run.at = "scan" /\ CutShort)
      /\ copy' = copy \/ copy' = [copy EXCEPT !.stamp = run.binder]
  BY DEF BadRowEndsRun, StampCopy, SaveRaises, Die, Scanning
<1>2. BoxTypeOK' /\ call'.at = "idle" /\ lost' \subseteq DeckIds
  BY <1>1, BoxGoneFacts DEF MetricTypeOK
<1>3. RunInv' /\ run' \in RunState
  BY <1>1, <1>2, DownKeepsRun
<1>4. files' \in [Outputs -> OutputFile]
  BY <1>1, CutShortFacts DEF MetricTypeOK
<1>5. run.binder \in Stamps
  BY FamilyFacts DEF RunInv, MetricTypeOK
<1>6. copy' \in BoxContent /\ copy'.rows = copy.rows
  BY <1>1, <1>5 DEF MetricTypeOK, BoxContent
<1>7. MetricTypeOK'
  BY <1>1, <1>2, <1>3, <1>4, <1>6, TypesFrom DEF MetricTypeOK
<1> QED
  BY <1>1, <1>3, <1>6, <1>7

LEMMA StartTyped ==
    ASSUME ScenarioAssumption, MetricTypeOK, RunInv, StartRun
    PROVE  MetricTypeOK' /\ RunInv'
<1>1. /\ run' = BeforePass(1, binder) /\ UNCHANGED <<boxVars, scenario, binder, copy, arrived, lost>>
      /\ run.at = "down" /\ started' \in {0, started + 1}
      /\ files' \in {StreamsOpened(Passes), files}
  BY DEF StartRun
<1>2. BoxTypeOK' /\ call' = call
  BY <1>1, SameBoxTyped DEF MetricTypeOK
<1>3. started' \in Nat /\ binder \in Nat /\ binder \in 0..scenario.versions
      /\ 0 \in 0..Len(scenario.raw[1])
  BY <1>1, FamilyFacts DEF MetricTypeOK
<1>4. files' \in [Outputs -> OutputFile]
  BY <1>1, <1>3, OpenedTyped DEF MetricTypeOK
<1>5. /\ run' \in RunState /\ run'.at = "open" /\ run'.pass = 1 /\ run'.binder = binder
      /\ run'.upTo = 0
  <2> DEFINE r == BeforePass(1, binder)
  <2>1. /\ r \in RunState /\ r.at = "open" /\ r.pass = 1 /\ r.binder = binder
        /\ r.upTo = 0
    BY <1>3, BeforePassFacts
  <2> QED
    BY <1>1, <2>1
<1>6. MetricTypeOK'
  BY <1>1, <1>2, <1>3, <1>4, <1>5, TypesFrom DEF MetricTypeOK
<1>7. 1 \in Passes
  BY FamilyFacts DEF MetricTypeOK
<1>8. call.at \notin OpenCalls \cup {"flush", "stamp"}
  BY <1>1 DEF RunInv
<1> QED
  BY <1>1, <1>2, <1>3, <1>5, <1>6, <1>7, <1>8, RestKeepsRun DEF Saving

LEMMA OpenPassFacts ==
    ASSUME ScenarioAssumption, MetricTypeOK, RunInv, OpenPass
    PROVE  /\ run' \in RunState /\ run'.at = "scan" /\ run'.pass = run.pass /\ run'.row = 1
           /\ run'.metric = 1 /\ run'.step = 1 /\ run'.binder = run.binder
           /\ run'.upTo = arrived
           /\ run'.made = [m \in DOMAIN MetricsOf(run.pass) |-> Nothing]
           /\ run.pass \in Passes /\ run.at = "open"
<1> DEFINE made == [m \in DOMAIN MetricsOf(run.pass) |-> Nothing]
<1>1. /\ run' = [run EXCEPT !.at = "scan", !.row = 1, !.metric = 1, !.step = 1,
                            !.upTo = arrived, !.made = made]
      /\ run.at = "open" /\ run.pass \in Passes
  BY DEF OpenPass, RunInv
<1>2. made \in Seq(Made)
  <2>1. Nothing \in Made
    BY DEF Nothing, Made
  <2>2. DOMAIN MetricsOf(run.pass) = 1..Len(MetricsOf(run.pass))
        /\ Len(MetricsOf(run.pass)) \in Nat
    BY <1>1, PassFacts DEF MetricTypeOK
  <2> HIDE DEF Nothing
  <2> QED
    BY <2>1, <2>2
<1>3. run \in RunState /\ arrived \in Nat
  BY DEF MetricTypeOK
<1> HIDE DEF made
<1>4. run' \in RunState
  BY <1>1, <1>2, <1>3 DEF RunState
<1>5. /\ run'.at = "scan" /\ run'.pass = run.pass /\ run'.row = 1
      /\ run'.metric = 1 /\ run'.step = 1 /\ run'.binder = run.binder
      /\ run'.upTo = arrived /\ run'.made = made
  BY <1>1, <1>3 DEF RunState
<1> QED
  BY <1>1, <1>4, <1>5 DEF made

LEMMA OpenPassTyped ==
    ASSUME ScenarioAssumption, MetricTypeOK, RunInv, OpenPass
    PROVE  MetricTypeOK' /\ RunInv'
<1>1. /\ UNCHANGED <<boxVars, scenario, binder, copy, arrived, lost, started>>
      /\ files' \in {StreamsOpened({run.pass}), files}
  BY DEF OpenPass
<1>2. BoxTypeOK' /\ call' = call
  BY <1>1, SameBoxTyped DEF MetricTypeOK
<1>3. files' \in [Outputs -> OutputFile]
  BY <1>1, OpenedTyped DEF MetricTypeOK
<1>4. MetricTypeOK'
  BY <1>1, <1>2, <1>3, OpenPassFacts, TypesFrom DEF MetricTypeOK
<1>5. call.at \notin OpenCalls \cup {"flush", "stamp"}
  BY OpenPassFacts DEF RunInv
<1>6. /\ 1 \in DOMAIN MetricsOf(run.pass)
      /\ 1 \in DOMAIN MetricsOf(run.pass)[1].program
  BY OpenPassFacts, PassFacts, MetricFacts DEF MetricTypeOK
<1>7. DOMAIN [m \in DOMAIN MetricsOf(run.pass) |-> Nothing] = DOMAIN MetricsOf(run.pass)
  OBVIOUS
<1>8. \A p : MetricsOf(p)' = MetricsOf(p)
  BY <1>1 DEF MetricsOf
<1>9. Program' = MetricsOf(run.pass)[1].program
  BY <1>8, OpenPassFacts DEF Program
<1>10. arrived \in 0..Len(scenario.raw[1]) /\ run.binder \in 0..scenario.versions
  BY DEF MetricTypeOK, RunInv
<1> QED
  BY <1>1, <1>2, <1>4, <1>5, <1>6, <1>7, <1>8, <1>9, <1>10, OpenPassFacts
  DEF RunInv, Saving

LEMMA NextFinalizeKeepsRun ==
    ASSUME ScenarioAssumption, MetricTypeOK, RunInv, run.at = "finalize", NextFinalize,
           scenario' = scenario, UNCHANGED boxVars
    PROVE  /\ RunInv' /\ run' \in RunState /\ run.pass \in Passes
           /\ \/ /\ run'.at = "finalize" /\ run'.pass = run.pass /\ run'.made = run.made
                 /\ run'.metric = run.metric + 1 /\ run'.upTo = run.upTo
                 /\ run'.binder = run.binder
              \/ run' = AfterPass /\ run.metric = Len(MetricsOf(run.pass))
<1>1. /\ run.pass \in Passes /\ run.metric \in 1..Len(MetricsOf(run.pass))
      /\ DOMAIN MetricsOf(run.pass) = 1..Len(MetricsOf(run.pass))
      /\ Len(MetricsOf(run.pass)) \in Nat /\ DOMAIN run.made = DOMAIN MetricsOf(run.pass)
      /\ call.at \notin OpenCalls \cup {"flush", "stamp"}
  BY PassFacts DEF RunInv, MetricTypeOK
<1>2. call' = call /\ call.at = "idle"
  BY <1>1 DEF boxVars, MetricTypeOK, BoxTypeOK, Call, OpenCalls
<1>3. CASE run.metric < Len(MetricsOf(run.pass))
  <2>1. run' = [run EXCEPT !.metric = run.metric + 1, !.step = 1]
    BY <1>3 DEF NextFinalize
  <2>2. run \in RunState /\ run.metric + 1 \in Nat
    BY DEF MetricTypeOK, RunState
  <2>3. run' \in RunState
    BY <2>1, <2>2, PlacedRun
  <2>4. /\ run'.at = "finalize" /\ run'.pass = run.pass /\ run'.made = run.made
        /\ run'.metric = run.metric + 1 /\ run'.upTo = run.upTo /\ run'.binder = run.binder
    BY <2>1, <2>2 DEF RunState
  <2>5. run.metric + 1 \in DOMAIN MetricsOf(run.pass)
    BY <1>1, <1>3
  <2>6. \A p : MetricsOf(p)' = MetricsOf(p)
    BY DEF MetricsOf
  <2>7. RunInv'
    BY <1>1, <1>2, <2>4, <2>5, <2>6 DEF RunInv, Saving
  <2> QED
    BY <1>1, <2>3, <2>4, <2>7
<1>4. CASE ~(run.metric < Len(MetricsOf(run.pass)))
  <2>1. run' = AfterPass
    BY <1>4 DEF NextFinalize
  <2> QED
    BY <1>1, <1>2, <1>4, <2>1, AfterPassKeepsRun
<1> QED
  BY <1>3, <1>4

\* A table that is begun stays at its metric.
LEMMA BeginTableFacts ==
    ASSUME ScenarioAssumption, MetricTypeOK, RunInv, BeginTable
    PROVE  /\ RunInv' /\ run' \in RunState /\ run.at = "finalize"
           /\ run'.at = "finalize" /\ run'.pass = run.pass /\ run'.made = run.made
           /\ run'.metric = run.metric /\ run'.upTo = run.upTo /\ run'.binder = run.binder
           /\ <<run.pass, run.metric>> \in Outputs
<1>1. /\ run' = [run EXCEPT !.step = 2] /\ run.at = "finalize" /\ scenario' = scenario
      /\ UNCHANGED boxVars
  BY DEF BeginTable, FinalizeStep
<1>2. run \in RunState
  BY DEF MetricTypeOK
<1>3. run' \in RunState
  BY <1>1, <1>2, PlacedRun
<1>4. /\ run'.at = "finalize" /\ run'.pass = run.pass /\ run'.made = run.made
      /\ run'.metric = run.metric /\ run'.upTo = run.upTo /\ run'.binder = run.binder
  BY <1>1, <1>2 DEF RunState
<1>5. <<run.pass, run.metric>> \in Outputs
  BY <1>1, PassFacts DEF RunInv, MetricTypeOK
<1>6. (\A p : MetricsOf(p)' = MetricsOf(p)) /\ call' = call
  BY <1>1 DEF MetricsOf, boxVars
<1>7. RunInv'
  BY <1>1, <1>4, <1>6 DEF RunInv, Saving
<1> QED
  BY <1>1, <1>3, <1>4, <1>5, <1>7

LEMMA FinalizeTyped ==
    ASSUME ScenarioAssumption, MetricTypeOK, RunInv,
           \/ BeginTable \/ FinishOutput \/ FinalizeRaises
    PROVE  MetricTypeOK' /\ RunInv'
<1>1. /\ UNCHANGED <<boxVars, scenario, binder, copy, arrived, started, lost>>
      /\ run.at = "finalize"
  BY DEF BeginTable, FinishOutput, FinalizeRaises, FinalizeStep
<1>2. BoxTypeOK' /\ call' = call
  BY <1>1, SameBoxTyped DEF MetricTypeOK
<1>3. RunInv' /\ run' \in RunState
  BY <1>1, BeginTableFacts, NextFinalizeKeepsRun DEF FinishOutput, FinalizeRaises
<1>4. files' \in [Outputs -> OutputFile]
  <2>1. CASE BeginTable
    <3>1. Torn \in OutputFile /\ files' = [files EXCEPT ![<<run.pass, run.metric>>] = Torn]
      BY <1>1, <2>1, TornTyped DEF BeginTable, MetricTypeOK
    <3> HIDE DEF Torn
    <3> QED
      BY <3>1 DEF MetricTypeOK
  <2>2. CASE FinishOutput
    <3>1. run.made[run.metric] \in Made /\ run.upTo \in Nat /\ run.binder \in Nat
          /\ started \in Nat
      BY <1>1, MadeTyped DEF RunInv, MetricTypeOK
    <3>2. Written(run.metric) \in OutputFile
      BY <3>1, WholeTyped DEF Written
    <3>3. files' = [files EXCEPT ![<<run.pass, run.metric>>] = Written(run.metric)]
      BY <2>2 DEF FinishOutput
    <3> QED
      BY <3>2, <3>3 DEF MetricTypeOK
  <2>3. CASE FinalizeRaises
    BY <2>3 DEF FinalizeRaises, MetricTypeOK
  <2> QED
    BY <2>1, <2>2, <2>3
<1>5. MetricTypeOK'
  BY <1>1, <1>2, <1>3, <1>4, TypesFrom DEF MetricTypeOK
<1> QED
  BY <1>3, <1>5

LEMMA SaveTyped ==
    ASSUME ScenarioAssumption, MetricTypeOK, RunInv,
           \/ SaveBox \/ StampBox \/ BackUpBox
    PROVE  /\ MetricTypeOK' /\ RunInv'
           /\ UNCHANGED <<scenario, files, binder, arrived, started, lost>>
           /\ view'.rows = view.rows /\ call'.at \notin OpenCalls
           /\ run.at \in Saving /\ run'.at \in Saving \cup {"down"}
<1>1. UNCHANGED <<scenario, files, binder, arrived, started, lost>>
  BY DEF SaveBox, StampBox, BackUpBox, unmoved
<1>2. run \in RunState /\ run.binder \in Stamps /\ run.binder \in 0..scenario.versions
      /\ run.upTo \in 0..Len(scenario.raw[1]) /\ pending \in Nat
      /\ view \in BoxContent /\ stored \in BoxContent
  BY FamilyFacts DEF RunInv, MetricTypeOK, BoxTypeOK
<1>3. \A at \in Saving : /\ [run EXCEPT !.at = at] \in RunState
                         /\ [run EXCEPT !.at = at].at = at
                         /\ [run EXCEPT !.at = at].pass = run.pass
                         /\ [run EXCEPT !.at = at].binder = run.binder
                         /\ [run EXCEPT !.at = at].upTo = run.upTo
  BY <1>2 DEF RunState
<1>4. CASE SaveBox
  <2> DEFINE at == IF TheFamily.box = "memory" THEN "backup" ELSE "stamp"
  <2>1. run' = [run EXCEPT !.at = at] /\ run.at = "save" /\ at \in Saving /\ copy' = copy
    BY <1>4 DEF SaveBox, Saving, unmoved
  <2>2. /\ run' \in RunState /\ run'.at = at /\ run'.pass = run.pass
        /\ run'.binder = run.binder /\ run'.upTo = run.upTo
    BY <1>3, <2>1
  <2>3. OwnsBox /\ run.pass \in Passes /\ call.at \notin OpenCalls \cup {"flush", "stamp"}
    BY <2>1 DEF RunInv, Saving
  <2>4. /\ BoxTypeOK' /\ view' = view
        /\ call'.at \notin OpenCalls \cup {"flush"}
        /\ call'.at = "stamp" => at = "stamp"
    <3>1. CASE TheFamily.box = "memory"
      BY <1>2, <1>4, <2>3, <3>1 DEF SaveBox, BoxTypeOK, MetricTypeOK
    <3>2. CASE TheFamily.box # "memory"
      <4>1. Save(run.binder)
        BY <1>4, <3>2 DEF SaveBox
      <4>2. BoxTypeOK'
        BY <1>2, <4>1, BoxStepTyped DEF MetricTypeOK
      <4> QED
        BY <3>2, <4>1, <4>2 DEF Save, OpenCalls
    <3> QED
      BY <3>1, <3>2
  <2>5. RunInv'
    BY <1>1, <1>2, <2>1, <2>2, <2>3, <2>4, RestKeepsRun DEF Saving
  <2>6. MetricTypeOK'
    BY <1>1, <2>1, <2>2, <2>4, TypesFrom DEF MetricTypeOK
  <2> QED
    BY <1>1, <2>1, <2>2, <2>4, <2>5, <2>6 DEF Saving
<1>5. CASE StampBox
  <2>1. /\ WriteStamp /\ run.at = "stamp" /\ run' = Down /\ copy' = copy
    BY <1>5 DEF StampBox, unmoved
  <2>2. BoxTypeOK' /\ call'.at = "idle"
    BY <2>1, BoxStepTyped DEF MetricTypeOK, WriteStamp, Idle
  <2>3. RunInv' /\ run' \in RunState /\ run'.at = "down"
    BY <1>1, <2>1, <2>2, DownKeepsRun, DownFacts
  <2>4. view'.rows = view.rows
    BY <1>2, <2>1 DEF WriteStamp, BoxContent
  <2>5. MetricTypeOK'
    BY <1>1, <2>1, <2>2, <2>3, TypesFrom DEF MetricTypeOK
  <2> QED
    BY <1>1, <2>1, <2>2, <2>3, <2>4, <2>5 DEF Saving, OpenCalls
<1>6. CASE BackUpBox
  <2>1. /\ run' = [run EXCEPT !.at = "stampCopy"] /\ run.at = "backup"
        /\ copy' = stored /\ UNCHANGED boxVars
    BY <1>6 DEF BackUpBox
  <2>2. /\ run' \in RunState /\ run'.at = "stampCopy" /\ run'.pass = run.pass
        /\ run'.binder = run.binder /\ run'.upTo = run.upTo
    BY <1>3, <2>1 DEF Saving
  <2>3. OwnsBox /\ run.pass \in Passes /\ call.at \notin OpenCalls \cup {"flush", "stamp"}
    BY <2>1 DEF RunInv, Saving
  <2>4. BoxTypeOK' /\ call' = call /\ view' = view
    BY <2>1, SameBoxTyped DEF MetricTypeOK, boxVars
  <2>5. RunInv'
    BY <1>1, <1>2, <2>1, <2>2, <2>3, <2>4, RestKeepsRun DEF Saving
  <2>6. MetricTypeOK'
    BY <1>1, <1>2, <2>1, <2>2, <2>4, TypesFrom DEF MetricTypeOK
  <2> QED
    BY <1>1, <2>1, <2>2, <2>3, <2>4, <2>5, <2>6 DEF Saving
<1> QED
  BY <1>4, <1>5, <1>6

\* Nothing a run keeps is moved by what goes on around it.
LEMMA RunUnmoved ==
    ASSUME RunInv, UNCHANGED <<run, scenario>>,
           call' = call
    PROVE  RunInv'
<1>1. Program' = Program /\ (\A p, u, v : ReadableRows(p, u, v)' = ReadableRows(p, u, v))
      /\ (\A p : MetricsOf(p)' = MetricsOf(p)) /\ OwnsBox' = OwnsBox
  BY DEF Program, MetricsOf, ReadableRows, RowOf, OwnsBox
<1> QED
  BY <1>1 DEF RunInv

Ingested == UNION {UNION {DecksOf(p, i, binder) : i \in ReadableRows(p, arrived, binder)} :
                     p \in Passes}

LEMMA IngestFacts ==
    ASSUME ScenarioAssumption, MetricTypeOK, RunInv, IngestBox
    PROVE  /\ TheFamily.box = "published" /\ BoxTypeOK' /\ view' = stored'
           /\ stored'.rows = stored.rows \cup Ingested
           /\ UNCHANGED <<savepoint, call, pending, run, unmoved>>
<1> DEFINE after == [rows |-> stored.rows \cup Ingested,
                     cards |-> [d \in DeckIds |-> IF d \in stored.rows \cup Ingested
                                                  THEN d ELSE None],
                     stamp |-> binder]
<1>1. /\ TheFamily.box = "published" /\ stored' = after /\ view' = after
      /\ UNCHANGED <<savepoint, call, pending, run, unmoved>>
  BY DEF IngestBox, Ingested
<1>2. DeckIds = CardLists /\ binder \in 0..scenario.versions /\ binder \in Stamps
      /\ arrived \in 0..Len(scenario.raw[1]) /\ Len(scenario.raw[1]) \in Nat
  BY FamilyFacts DEF MetricTypeOK
<1>3. Ingested \subseteq DeckIds
  <2>1. SUFFICES ASSUME NEW p \in Passes, NEW i \in ReadableRows(p, arrived, binder),
                        NEW n \in 1..2
                 PROVE  RowOf(p, i, binder)[n] \in DeckIds
    BY DEF Ingested, DecksOf
  <2>2. i \in 1..Len(scenario.raw[1]) /\ RowOf(p, i, binder) # Malformed
    BY <1>2 DEF ReadableRows
  <2> QED
    BY <1>2, <2>2, RowFacts DEF MetricTypeOK
<1>4. stored.rows \subseteq DeckIds
  BY DEF MetricTypeOK, BoxTypeOK, BoxContent
<1>5. after \in BoxContent /\ after.rows = stored.rows \cup Ingested
  BY <1>2, <1>3, <1>4 DEF BoxContent
<1> HIDE DEF after
<1> QED
  BY <1>1, <1>5 DEF BoxTypeOK, MetricTypeOK

LEMMA WorldTyped ==
    ASSUME ScenarioAssumption, MetricTypeOK, RunInv,
           \/ BinderChanges \/ RawGrows \/ IngestBox \/ UNCHANGED metricVars
    PROVE  MetricTypeOK' /\ RunInv' /\ UNCHANGED <<run, scenario, files, copy, started, lost>>
           /\ call' = call
<1>1. UNCHANGED <<run, scenario, files, copy, started, lost, call>>
  BY IngestFacts DEF BinderChanges, RawGrows, metricVars, boxVars, unmoved
<1>2. BoxTypeOK'
  <2>1. CASE IngestBox
    BY <2>1, IngestFacts
  <2>2. CASE UNCHANGED boxVars
    BY <2>2, SameBoxTyped DEF MetricTypeOK
  <2> QED
    BY <2>1, <2>2 DEF BinderChanges, RawGrows, metricVars
<1>3. /\ binder' \in 0..scenario.versions
      /\ arrived' \in 0..Len(scenario.raw[1])
  BY FamilyFacts, IngestFacts DEF BinderChanges, RawGrows, metricVars, unmoved, MetricTypeOK
<1>4. MetricTypeOK'
  BY <1>1, <1>2, <1>3, TypesFrom DEF MetricTypeOK
<1> QED
  BY <1>1, <1>4, RunUnmoved

LEMMA TypesAndPlaces ==
    ASSUME ScenarioAssumption, MetricTypeOK, RunInv, MetricNext \/ UNCHANGED metricVars
    PROVE  MetricTypeOK' /\ RunInv'
BY StartTyped, OpenPassTyped, ScanTyped, EndPassTyped, GoneTyped, FinalizeTyped, SaveTyped,
   FaultTyped, WorldTyped
DEF MetricNext, RunStep

LEMMA TypesInit ==
    ScenarioAssumption /\ MetricInit => MetricTypeOK /\ RunInv
<1> SUFFICES ASSUME ScenarioAssumption, MetricInit PROVE MetricTypeOK /\ RunInv
  OBVIOUS
<1>1. /\ scenario \in Scenarios /\ run = Down /\ binder = 0 /\ copy = EmptyBox
      /\ arrived = scenario.first /\ started = 0 /\ lost = {} /\ BoxInit
  BY DEF MetricInit
<1>2. EmptyBox \in BoxContent /\ Idle \in Call
  BY DEF EmptyBox, BoxContent, Idle, Call
<1>3. BoxTypeOK /\ call.at = "idle"
  BY <1>1, <1>2 DEF BoxInit, BoxTypeOK, Idle
<1>4. 0 \in 0..scenario.versions /\ scenario.first \in 0..Len(scenario.raw[1])
      /\ 0 \in 0..Len(scenario.raw[1])
  BY <1>1, FamilyFacts
<1>5. files \in [Outputs -> OutputFile]
  BY DEF MetricInit, OutputFile
<1>6. MetricTypeOK
  BY <1>1, <1>2, <1>3, <1>4, <1>5, DownFacts DEF MetricTypeOK
<1>7. RunInv
  BY <1>1, <1>3, <1>4, DownFacts DEF RunInv, Saving, OpenCalls
<1> QED
  BY <1>6, <1>7

-----------------------------------------------------------------------------
(* An output is written once a run. *)

\* No step but the first takes a run back behind what it has written.
GoesOn ==
    run'.at # "down" =>
      /\ run.at # "down"
      /\ \/ run'.at \in Saving
         \/ run.at \notin Saving /\ run'.pass > run.pass
         \/ /\ run.at \notin Saving /\ run'.pass = run.pass
            /\ run.at = "finalize" => run'.at = "finalize" /\ run'.metric >= run.metric

\* A file is left as it is, or it is one the run has not finished: torn it
\* stays unfinished, whole it is finished.
Rewritten(o) ==
    /\ run.at # "down" /\ ~Finished(o)
    /\ files'[o].time = started
    /\ \/ files'[o].state = "torn"
       \/ files'[o].state = "whole" /\ (run'.at # "down" => Finished(o)')

OutputStep ==
    /\ GoesOn /\ started' = started
    /\ \A o \in Outputs : files'[o] = files[o] \/ Rewritten(o)

LEMMA RunTyped ==
    ASSUME ScenarioAssumption, MetricTypeOK, RunInv
    PROVE  /\ run \in RunState /\ run.pass \in Nat /\ run.metric \in Nat
           /\ started \in Nat
           /\ \A o \in Outputs : /\ files[o] \in OutputFile
                                 /\ files[o].time \in Nat
                                 /\ files[o].state \in {"none", "torn", "whole"}
                                 /\ o[1] \in Nat /\ o[2] \in Nat
BY OutputFacts DEF MetricTypeOK, RunState, OutputFile

LEMMA AfterPassGoesOn ==
    ASSUME ScenarioAssumption, MetricTypeOK, RunInv, run.pass \in Passes,
           run.at \notin Saving \cup {"down"}, run' = AfterPass
    PROVE  /\ GoesOn
           /\ \A o \in Outputs : o[1] = run.pass /\ run'.at # "down" => Finished(o)'
<1>1. \/ run'.at = "open" /\ run'.pass = run.pass + 1
      \/ run'.at = "save"
      \/ run'.at = "down"
  BY AfterPassFacts, DownFacts
<1>2. run.pass \in Nat
  BY RunTyped
<1> QED
  BY <1>1, <1>2 DEF GoesOn, Finished, Saving

LEMMA ScanOutputs ==
    ASSUME ScenarioAssumption, MetricTypeOK, RunInv,
           \/ PutDeck \/ SeeDeck \/ MissDeck \/ WriteOutputRow \/ SkipRow \/ CallStep
           \/ EndOfRows \/ CallRaises \/ BatchLost \/ MetricRaises
           \/ BinderChanges \/ RawGrows \/ IngestBox \/ UNCHANGED metricVars
    PROVE  OutputStep
<1>1. files' = files /\ started' = started
  BY WorldTyped DEF PutDeck, SeeDeck, MissDeck, WriteOutputRow, SkipRow, CallStep, EndOfRows, unmoved,
     CallRaises, BatchLost, MetricRaises
<1>2. GoesOn
  <2>1. CASE PutDeck \/ SeeDeck \/ MissDeck \/ WriteOutputRow \/ CallRaises \/ BatchLost
             \/ MetricRaises
    <3>1. run.at = "scan" /\ run'.pass = run.pass
      BY <2>1, PutDeckRun, SeeDeckRun, MissDeckRun, WriteOutputRowRun, FaultTyped
      DEF Scans, Scanning
    <3> QED
      BY <3>1 DEF GoesOn, Saving
  <2>2. CASE SkipRow \/ EndOfRows
    <3>1. run.at = "scan" /\ run'.pass = run.pass
      BY <2>2, RunTyped DEF SkipRow, EndOfRows, Scanning, RunState
    <3> QED
      BY <3>1 DEF GoesOn, Saving
  <2>3. CASE run' = run
    BY <2>3, RunTyped DEF GoesOn
  <2> QED
    BY <2>1, <2>2, <2>3, WorldTyped DEF CallStep
<1> QED
  BY <1>1, <1>2 DEF OutputStep

LEMMA OpenPassOutputs ==
    ASSUME ScenarioAssumption, MetricTypeOK, RunInv, OpenPass
    PROVE  OutputStep
<1>1. run.at = "open" /\ run'.pass = run.pass /\ started' = started /\ started \in Nat
  BY OpenPassFacts, RunTyped DEF OpenPass
<1>2. Torn.state = "torn" /\ Torn.time = started
  BY <1>1, TornTyped
<1> HIDE DEF Torn
<1>3. ASSUME NEW o \in Outputs
      PROVE  files'[o] = files[o] \/ Rewritten(o)
  <2>1. files'[o] = files[o] \/ (files'[o] = Torn /\ o[1] = run.pass)
    BY DEF OpenPass, StreamsOpened
  <2>2. o[1] \in Nat
    BY RunTyped
  <2> QED
    BY <1>1, <1>2, <2>1, <2>2 DEF Rewritten, Finished, Saving
<1> QED
  BY <1>1, <1>3 DEF OutputStep, GoesOn, Saving

LEMMA EndPassOutputs ==
    ASSUME ScenarioAssumption, MetricTypeOK, RunInv, BadRowEndsPass \/ MetricEndsPass
    PROVE  OutputStep
<1>1. CutShort /\ run.at = "scan" /\ run' = AfterPass /\ run.pass \in Passes
      /\ started' = started
  BY EndPassTyped
<1>2. /\ GoesOn
      /\ \A o \in Outputs : o[1] = run.pass /\ run'.at # "down" => Finished(o)'
  BY <1>1, AfterPassGoesOn DEF Saving
<1>3. ASSUME NEW o \in Outputs
      PROVE  files'[o] = files[o] \/ Rewritten(o)
  <2>1. files'[o] = files[o] \/ (/\ o[1] = run.pass /\ files'[o].state = "whole"
                                 /\ files'[o].time = started)
    BY <1>1, CutShortFacts
  <2>2. o[1] \in Nat
    BY RunTyped
  <2> QED
    BY <1>1, <1>2, <2>1, <2>2 DEF Rewritten, Finished, Saving
<1> QED
  BY <1>1, <1>2, <1>3 DEF OutputStep

LEMMA GoneOutputs ==
    ASSUME ScenarioAssumption, MetricTypeOK, RunInv,
           \/ BadRowEndsRun \/ StampCopy \/ SaveRaises \/ Die
    PROVE  OutputStep
<1>1. /\ run' = Down /\ run'.at = "down" /\ run.at # "down" /\ started' = started
      /\ files' = files \/ (run.at = "scan" /\ CutShort)
  BY GoneTyped, DownFacts
<1>2. ASSUME NEW o \in Outputs
      PROVE  files'[o] = files[o] \/ Rewritten(o)
  <2>1. files'[o] = files[o] \/ (/\ o[1] = run.pass /\ files'[o].state = "whole"
                                 /\ files'[o].time = started /\ run.at = "scan")
    BY <1>1, CutShortFacts
  <2>2. o[1] \in Nat
    BY RunTyped
  <2> QED
    BY <1>1, <2>1, <2>2 DEF Rewritten, Finished, Saving
<1> QED
  BY <1>1, <1>2 DEF OutputStep, GoesOn

LEMMA FinalizeOutputs ==
    ASSUME ScenarioAssumption, MetricTypeOK, RunInv,
           \/ BeginTable \/ FinishOutput \/ FinalizeRaises
    PROVE  OutputStep
<1> DEFINE this == <<run.pass, run.metric>>
<1>1. /\ run.at = "finalize" /\ started' = started /\ started \in Nat
      /\ run.pass \in Nat /\ run.metric \in Nat
  BY RunTyped DEF BeginTable, FinishOutput, FinalizeRaises, FinalizeStep
<1>2. /\ GoesOn
      /\ \A o \in Outputs : o = this /\ FinishOutput /\ run'.at # "down" => Finished(o)'
  <2>1. CASE BeginTable
    <3>1. ~FinishOutput
      BY <2>1 DEF BeginTable, FinishOutput, FinalizeStep
    <3> QED
      BY <1>1, <2>1, <3>1, BeginTableFacts DEF GoesOn, Saving
  <2>2. CASE FinishOutput \/ FinalizeRaises
    <3>1. NextFinalize /\ scenario' = scenario /\ UNCHANGED boxVars
      BY <2>2 DEF FinishOutput, FinalizeRaises
    <3>2. CASE /\ run'.at = "finalize" /\ run'.pass = run.pass
               /\ run'.metric = run.metric + 1
      BY <1>1, <3>2 DEF GoesOn, Saving, Finished
    <3>3. CASE run' = AfterPass /\ run.pass \in Passes
      <4>1. run.at \notin Saving \cup {"down"}
        BY <1>1 DEF Saving
      <4> QED
        BY <3>3, <4>1, AfterPassGoesOn
    <3> QED
      BY <1>1, <3>1, <3>2, <3>3, NextFinalizeKeepsRun
  <2> QED
    BY <2>1, <2>2
<1>3. ASSUME NEW o \in Outputs
      PROVE  files'[o] = files[o] \/ Rewritten(o)
  <2>1. CASE BeginTable
    <3>1. Torn.state = "torn" /\ Torn.time = started
      BY <1>1, TornTyped
    <3>2. files'[o] = IF o = this THEN Torn ELSE files[o]
      BY <2>1 DEF BeginTable, MetricTypeOK
    <3> HIDE DEF Torn
    <3> QED
      BY <1>1, <3>1, <3>2 DEF Rewritten, Finished, Saving
  <2>2. CASE FinishOutput
    <3>1. run.made[run.metric] \in Made /\ run.upTo \in Nat /\ run.binder \in Nat
      BY <1>1, MadeTyped DEF RunInv
    <3>2. Written(run.metric).state = "whole" /\ Written(run.metric).time = started
      BY <1>1, <3>1, WholeTyped DEF Written
    <3>3. files'[o] = IF o = this THEN Written(run.metric) ELSE files[o]
      BY <2>2 DEF FinishOutput, MetricTypeOK
    <3>4. ~Finished(this) /\ run.at # "down"
      BY <1>1 DEF Finished, Saving
    <3> QED
      BY <1>2, <2>2, <3>2, <3>3, <3>4 DEF Rewritten
  <2>3. CASE FinalizeRaises
    BY <2>3 DEF FinalizeRaises
  <2> QED
    BY <2>1, <2>2, <2>3
<1> QED
  BY <1>1, <1>2, <1>3 DEF OutputStep

LEMMA SaveOutputs ==
    ASSUME ScenarioAssumption, MetricTypeOK, RunInv, SaveBox \/ StampBox \/ BackUpBox
    PROVE  OutputStep
BY SaveTyped DEF OutputStep, GoesOn, Saving

LEMMA EveryOutputStep ==
    ASSUME ScenarioAssumption, MetricTypeOK, RunInv, MetricNext \/ UNCHANGED metricVars
    PROVE  OutputStep \/ StartRun
BY ScanOutputs, OpenPassOutputs, EndPassOutputs, GoneOutputs, FinalizeOutputs, SaveOutputs
DEF MetricNext, RunStep

\* A file with a stamp that changes, changes to a later one; and a file that
\* keeps its stamp keeps what it holds, if it can be read.
Advances(o) ==
    \/ files'[o] = files[o]
    \/ /\ NotAfter(<<files[o].state, files[o].time>>, <<files'[o].state, files'[o].time>>)
       /\ \/ <<files'[o].state, files'[o].time>> # <<files[o].state, files[o].time>>
          \/ files[o].state # "whole"

LEMMA ScenarioKept ==
    MetricNext \/ UNCHANGED metricVars => scenario' = scenario
BY DEF MetricNext, RunStep, StartRun, OpenPass, PutDeck, SeeDeck, MissDeck, WriteOutputRow,
   SkipRow, CallStep, EndOfRows, BadRowEndsPass, BadRowEndsRun, EndPassEarly, BeginTable,
   FinishOutput, SaveBox, StampBox, BackUpBox, StampCopy, CallRaises, BatchLost,
   MetricRaises, MetricEndsPass, FinalizeRaises, SaveRaises, Die, BinderChanges, RawGrows,
   IngestBox, unmoved, metricVars

LEMMA FilesStep ==
    ASSUME ScenarioAssumption, MetricTypeOK, RunInv, FilesInv,
           MetricNext \/ UNCHANGED metricVars
    PROVE  /\ FilesInv'
           /\ ~scenario.endless => \A o \in Outputs : Advances(o)
<1>1. MetricTypeOK' /\ RunInv' /\ scenario' = scenario
  BY TypesAndPlaces, ScenarioKept
<1>2. Outputs' = Outputs
  BY <1>1 DEF Outputs, MetricsOf
<1> SUFFICES ASSUME ~scenario.endless, NEW o \in Outputs
             PROVE  /\ files'[o].time <= started'
                    /\ run'.at # "down" /\ files'[o].state = "whole"
                         /\ files'[o].time = started' => Finished(o)'
                    /\ Advances(o)
  BY <1>1, <1>2 DEF FilesInv
<1>3. /\ files[o].time \in Nat /\ files[o].state \in {"none", "torn", "whole"}
      /\ files[o].time <= started /\ started \in Nat /\ o[1] \in Nat /\ o[2] \in Nat
      /\ run.pass \in Nat /\ run.metric \in Nat
      /\ run.at # "down" /\ files[o].state = "whole" /\ files[o].time = started => Finished(o)
  BY RunTyped DEF FilesInv
<1>4. CASE StartRun
  <2>1. /\ started' = started + 1 /\ started' \in Nat
        /\ files'[o] = files[o] \/ files'[o] = Torn
    BY <1>3, <1>4 DEF StartRun, StreamsOpened
  <2>2. Torn.state = "torn" /\ Torn.time = started'
    BY <2>1, TornTyped
  <2> HIDE DEF Torn
  <2> QED
    BY <1>3, <2>1, <2>2 DEF Advances, NotAfter
<1>5. CASE OutputStep
  <2>1. started' = started /\ GoesOn /\ (files'[o] = files[o] \/ Rewritten(o))
    BY <1>5 DEF OutputStep
  <2>2. CASE files'[o] = files[o]
    <3>1. /\ run'.at # "down" => run.at # "down"
          /\ Finished(o) /\ run'.at # "down" => Finished(o)'
      <4>1. run'.pass \in Nat /\ run'.metric \in Nat
        BY <1>1 DEF MetricTypeOK, RunState
      <4> QED
        BY <1>3, <2>1, <4>1 DEF GoesOn, Finished, Saving
    <3> QED
      BY <1>3, <2>1, <2>2, <3>1 DEF Advances
  <2>3. CASE Rewritten(o)
    BY <1>3, <2>1, <2>3 DEF Rewritten, Advances, NotAfter, Rank
  <2> QED
    BY <2>1, <2>2, <2>3
<1> QED
  BY <1>4, <1>5, EveryOutputStep

-----------------------------------------------------------------------------
(* Files are of the rows they were made of. *)

LEMMA SameRows ==
    ASSUME scenario' = scenario
    PROVE  /\ Outputs' = Outputs
           /\ \A p : MetricsOf(p)' = MetricsOf(p)
           /\ \A o : KindOf(o)' = KindOf(o)
           /\ \A p, u, v : ReadableRows(p, u, v)' = ReadableRows(p, u, v)
           /\ \A p, i, v : RowOf(p, i, v)' = RowOf(p, i, v)
           /\ \A made, p, u, v : OfReadRows(made, p, u, v)' = OfReadRows(made, p, u, v)
BY DEF Outputs, MetricsOf, KindOf, ReadableRows, RowOf, OfReadRows, DecksOf

LEMMA SameFileOfRows ==
    ASSUME scenario' = scenario, NEW o \in Outputs, files'[o] = files[o], FileOfRows(o)
    PROVE  FileOfRows(o)'
BY SameRows DEF FileOfRows

\* A step of a scan, and nothing else, brings the metric's turn to an end.
LEMMA TurnEnds ==
    ASSUME ScenarioAssumption, MetricTypeOK, RunInv, run.at = "scan", run'.at = "scan",
           NextPlace(run'), NEW m \in DOMAIN MetricsOf(run.pass), NEW i \in Nat, HasHad(m, i)'
    PROVE  HasHad(m, i) \/ (m = run.metric /\ i = run.row)
<1>1. /\ m \in 1..Len(MetricsOf(run.pass)) /\ Len(MetricsOf(run.pass)) \in Nat
      /\ run.metric \in 1..Len(MetricsOf(run.pass)) /\ run.row \in Nat
  BY PassFacts DEF RunInv, MetricTypeOK, RunState
<1>2. i < run'.row \/ (i = run'.row /\ m < run'.metric)
  BY DEF HasHad
<1> QED
  BY <1>1, <1>2 DEF NextPlace, HasHad

\* A scan's step that makes nothing of the row, or all there is to be made.
LEMMA MadeGoesOn ==
    ASSUME ScenarioAssumption, MetricTypeOK, RunInv, scenario' = scenario,
           run.at = "scan", Scans(run'), NextPlace(run'),
           NEW m \in DOMAIN MetricsOf(run.pass), MadeOfRows(m),
           run'.made[m] = run.made[m],
           LeavesNoneOut(MetricsOf(run.pass)[m]) =>
             \A i \in Nat : i = run.row /\ HasHad(m, i)' => HasHad(m, i)
    PROVE  MadeOfRows(m)'
<1>1. /\ run'.at = "scan" /\ run'.pass = run.pass /\ run'.binder = run.binder
      /\ run'.upTo = run.upTo
  BY DEF Scans
<1>2. \A i \in Nat : HasHad(m, i)' => HasHad(m, i) \/ i = run.row
  BY <1>1, TurnEnds
<1>3. \A i \in ReadableRows(run.pass, run.upTo, run.binder) : i \in Nat
  BY DEF ReadableRows, RunInv
<1> DEFINE kind == MetricsOf(run.pass)[m]
           readable == ReadableRows(run.pass, run.upTo, run.binder)
<1>4. OfReadRows(run.made[m], run.pass, run.upTo, run.binder)
  BY DEF MadeOfRows
<1>5. \A made, p, u, v : made = run.made[m] /\ p = run.pass /\ u = run.upTo /\ v = run.binder =>
        OfReadRows(made, p, u, v)'
  BY <1>4, SameRows
<1>6. MetricsOf(run.pass)'[m] = kind /\ ReadableRows(run.pass, run.upTo, run.binder)' = readable
  BY <1>1, SameRows
<1>7. run.made[m].clean /\ LeavesNoneOut(kind) =>
        \A i \in readable : HasHad(m, i)' => i \in run.made[m].rows
  BY <1>2, <1>3 DEF MadeOfRows
<1> QED
  BY <1>1, <1>5, <1>6, <1>7 DEF MadeOfRows, LeavesNoneOut

LEMMA MarkedGoesOn ==
    ASSUME ScenarioAssumption, MetricTypeOK, RunInv, scenario' = scenario,
           run.at = "scan", run' = Isolated,
           \A m \in DOMAIN MetricsOf(run.pass) : MadeOfRows(m)
    PROVE  \A m \in DOMAIN MetricsOf(run.pass) : MadeOfRows(m)'
<1> DEFINE old == run.made[run.metric]
<1>1. /\ Scans(run') /\ NextPlace(run')
      /\ run'.made = [run.made EXCEPT ![run.metric] = Marked(old)]
      /\ run.metric \in DOMAIN run.made /\ old \in Made
      /\ DOMAIN run.made = DOMAIN MetricsOf(run.pass)
  BY IsolatedFacts, MadeTyped DEF RunInv
<1>2. /\ Marked(old).rows = old.rows /\ Marked(old).decks = old.decks
      /\ Marked(old).clean = FALSE
  BY <1>1, MarkedFacts
<1> HIDE DEF old
<1> SUFFICES ASSUME NEW m \in DOMAIN MetricsOf(run.pass) PROVE MadeOfRows(m)'
  OBVIOUS
<1>3. CASE m = run.metric
  <2>1. run'.made[m] = Marked(old)
    BY <1>1, <1>3
  <2>2. /\ run'.pass = run.pass /\ run'.binder = run.binder /\ run'.upTo = run.upTo
    BY <1>1 DEF Scans
  <2>3. OfReadRows(old, run.pass, run.upTo, run.binder)
    BY <1>3 DEF MadeOfRows, old
  <2>4. OfReadRows(Marked(old), run.pass, run.upTo, run.binder)
    BY <1>2, <2>3 DEF OfReadRows
  <2>5. \A r, p, u, v : r = Marked(old) /\ p = run.pass /\ u = run.upTo /\ v = run.binder =>
          OfReadRows(r, p, u, v)'
    BY <2>4, SameRows
  <2> QED
    BY <1>2, <2>1, <2>2, <2>5 DEF MadeOfRows
<1>4. CASE m # run.metric
  <2>1. run'.made[m] = run.made[m]
    BY <1>1, <1>4
  <2>2. run.row \in Nat /\ run'.at = "scan"
    BY <1>1 DEF MetricTypeOK, RunState, Scans
  <2>3. \A i \in Nat : HasHad(m, i)' => HasHad(m, i)
    BY <1>1, <1>4, <2>2, TurnEnds
  <2> QED
    BY <1>1, <2>1, <2>3, MadeGoesOn
<1> QED
  BY <1>3, <1>4

\* A row is written: it is now among those the metric was given.
LEMMA WrittenGoesOn ==
    ASSUME ScenarioAssumption, MetricTypeOK, RunInv, scenario' = scenario, WriteOutputRow,
           \A m \in DOMAIN MetricsOf(run.pass) : MadeOfRows(m)
    PROVE  \A m \in DOMAIN MetricsOf(run.pass) : MadeOfRows(m)'
<1> DEFINE old == run.made[run.metric]
           readable == ReadableRows(run.pass, run.upTo, run.binder)
<1>1. /\ Scans(run') /\ NextPlace(run') /\ Scanning /\ Readable /\ run.at = "scan"
      /\ run'.made = [run.made EXCEPT ![run.metric] = WithRow(old)]
      /\ run.metric \in DOMAIN run.made /\ old \in Made
      /\ DOMAIN run.made = DOMAIN MetricsOf(run.pass)
      /\ run.row \in Nat /\ Program[run.step].do = "row"
  BY WriteOutputRowRun, MadeTyped DEF RunInv, Scanning, MetricTypeOK, RunState
<1>2. Named \subseteq CardLists /\ run.row \in readable
  BY <1>1, StepIs, RowInHand DEF WriteOutputRow
<1>3. /\ WithRow(old).rows = old.rows \cup {run.row}
      /\ WithRow(old).decks = old.decks \cup Named
      /\ WithRow(old).clean = old.clean
  BY <1>1, <1>2, WithRowFacts
<1>4. Named \subseteq DecksOf(run.pass, run.row, run.binder)
  <2>1. Program[run.step].decks \subseteq 1..2
    BY <1>1, ScanFacts DEF MetricStep
  <2> QED
    BY <2>1 DEF Named, DecksOf
<1>5. run'.pass = run.pass /\ run'.binder = run.binder /\ run'.upTo = run.upTo
      /\ run'.at = "scan"
  BY <1>1 DEF Scans
<1> HIDE DEF old
<1> SUFFICES ASSUME NEW m \in DOMAIN MetricsOf(run.pass) PROVE MadeOfRows(m)'
  OBVIOUS
<1>6. CASE m = run.metric
  <2> DEFINE new == WithRow(old)
             kind == MetricsOf(run.pass)[m]
  <2>1. run'.made[m] = new
    BY <1>1, <1>6
  <2>2. OfReadRows(old, run.pass, run.upTo, run.binder)
    BY <1>6 DEF MadeOfRows, old
  <2>3. OfReadRows(new, run.pass, run.upTo, run.binder)
    <3>1. new.rows \subseteq readable
      BY <1>2, <1>3, <2>2 DEF OfReadRows
    <3>2. ASSUME NEW d \in new.decks
          PROVE  \E i \in new.rows : d \in DecksOf(run.pass, i, run.binder)
      BY <1>3, <1>4, <2>2, <3>2 DEF OfReadRows
    <3> QED
      BY <3>1, <3>2 DEF OfReadRows
  <2>4. \A r, p, u, v : r = new /\ p = run.pass /\ u = run.upTo /\ v = run.binder =>
          OfReadRows(r, p, u, v)'
    BY <2>3, SameRows
  <2>5. MetricsOf(run.pass)'[m] = kind /\ ReadableRows(run.pass, run.upTo, run.binder)' = readable
    BY <1>5, SameRows
  <2>6. \A i \in readable : i \in Nat
    BY DEF ReadableRows, RunInv
  <2>7. \A i \in Nat : HasHad(m, i)' => HasHad(m, i) \/ i = run.row
    BY <1>1, <1>5, TurnEnds
  <2>8. new.clean /\ LeavesNoneOut(kind) =>
          \A i \in readable : HasHad(m, i)' => i \in new.rows
    BY <1>3, <1>6, <2>6, <2>7 DEF MadeOfRows, old
  <2> HIDE DEF new, kind, readable
  <2> QED
    BY <1>5, <2>1, <2>4, <2>5, <2>8 DEF MadeOfRows, LeavesNoneOut
<1>7. CASE m # run.metric
  <2>1. run'.made[m] = run.made[m]
    BY <1>1, <1>7
  <2>2. \A i \in Nat : HasHad(m, i)' => HasHad(m, i)
    BY <1>1, <1>5, <1>7, TurnEnds
  <2> QED
    BY <1>1, <2>1, <2>2, MadeGoesOn
<1> QED
  BY <1>6, <1>7

\* The steps of a scan that write nothing: the row is not over, or it could not
\* be found.
LEMMA SilentGoesOn ==
    ASSUME ScenarioAssumption, MetricTypeOK, RunInv, scenario' = scenario,
           PutDeck \/ SeeDeck \/ MissDeck,
           \A m \in DOMAIN MetricsOf(run.pass) : MadeOfRows(m)
    PROVE  \A m \in DOMAIN MetricsOf(run.pass) : MadeOfRows(m)'
<1>1. Scans(run') /\ NextPlace(run') /\ run'.made = run.made /\ run.at = "scan" /\ run'.at = "scan"
  BY PutDeckRun, SeeDeckRun, MissDeckRun DEF Scans, Scanning
<1>2. ASSUME NEW m \in DOMAIN MetricsOf(run.pass), LeavesNoneOut(MetricsOf(run.pass)[m]),
             NEW i \in Nat, i = run.row, HasHad(m, i)'
      PROVE  HasHad(m, i)
  <2>1. CASE PutDeck \/ SeeDeck
    <3>1. run'.row = run.row /\ run'.metric = run.metric
      BY <2>1, PutDeckRun, SeeDeckRun
    <3> QED
      BY <1>1, <1>2, <3>1 DEF HasHad
  <2>2. CASE MissDeck
    <3>1. m # run.metric
      <4>1. Program[run.step].do = "find" /\ run.step \in DOMAIN Program
            /\ Program = MetricsOf(run.pass)[run.metric].program
            /\ KindAssumption(MetricsOf(run.pass)[run.metric])
        BY <1>1, <2>2, MissDeckRun, ScanFacts
      <4> QED
        BY <1>2, <4>1 DEF KindAssumption, LeavesNoneOut
    <3> QED
      BY <1>1, <1>2, <3>1, TurnEnds
  <2> QED
    BY <2>1, <2>2
<1> QED
  BY <1>1, <1>2, MadeGoesOn

\* Steps that leave what is made as it is, and end no metric's turn with a row
\* that could be read.
LEMMA StayingGoesOn ==
    ASSUME ScenarioAssumption, MetricTypeOK, RunInv, scenario' = scenario,
           run.at \in {"scan", "finalize"},
           run'.pass = run.pass, run'.binder = run.binder, run'.upTo = run.upTo,
           run'.made = run.made,
           \A m \in DOMAIN MetricsOf(run.pass) :
             \A i \in ReadableRows(run.pass, run.upTo, run.binder) :
               HasHad(m, i)' => HasHad(m, i),
           \A m \in DOMAIN MetricsOf(run.pass) : MadeOfRows(m)
    PROVE  \A m \in DOMAIN MetricsOf(run.pass) : MadeOfRows(m)'
<1> SUFFICES ASSUME NEW m \in DOMAIN MetricsOf(run.pass) PROVE MadeOfRows(m)'
  OBVIOUS
<1> DEFINE kind == MetricsOf(run.pass)[m]
           readable == ReadableRows(run.pass, run.upTo, run.binder)
<1>1. OfReadRows(run.made[m], run.pass, run.upTo, run.binder)
  BY DEF MadeOfRows
<1>2. \A made, p, u, v : made = run.made[m] /\ p = run.pass /\ u = run.upTo /\ v = run.binder =>
        OfReadRows(made, p, u, v)'
  BY <1>1, SameRows
<1>3. MetricsOf(run.pass)'[m] = kind /\ ReadableRows(run.pass, run.upTo, run.binder)' = readable
  BY SameRows
<1>4. run.made[m].clean /\ LeavesNoneOut(kind) =>
        \A i \in readable : HasHad(m, i)' => i \in run.made[m].rows
  BY DEF MadeOfRows
<1> QED
  BY <1>2, <1>3, <1>4 DEF MadeOfRows, LeavesNoneOut

\* What a pass has made, whatever the step.
LEMMA MadeRowsStep ==
    ASSUME ScenarioAssumption, MetricTypeOK, RunInv, RowsInv,
           MetricNext \/ UNCHANGED metricVars,
           run'.at \in {"scan", "finalize"}
    PROVE  \A m \in DOMAIN MetricsOf(run'.pass) : MadeOfRows(m)'
<1>1. scenario' = scenario
  BY ScenarioKept
<1> DEFINE Had == \A m \in DOMAIN MetricsOf(run.pass) : MadeOfRows(m)
<1>2. run.at \in {"scan", "finalize"} => Had
  BY DEF RowsInv
<1> HIDE DEF Had
<1>3. CASE PutDeck \/ SeeDeck \/ MissDeck
  <2>1. run.at = "scan" /\ run'.pass = run.pass
    BY <1>3, PutDeckRun, SeeDeckRun, MissDeckRun DEF Scanning, Scans
  <2> QED
    BY <1>1, <1>2, <1>3, <2>1, SilentGoesOn DEF Had
<1>4. CASE WriteOutputRow
  <2>1. run.at = "scan" /\ run'.pass = run.pass
    BY <1>4, WriteOutputRowRun DEF Scanning, Scans
  <2> QED
    BY <1>1, <1>2, <1>4, <2>1, WrittenGoesOn DEF Had
<1>5. CASE CallRaises \/ BatchLost \/ MetricRaises
  <2>1. run.at = "scan" /\ run' = Isolated /\ run'.pass = run.pass
    BY <1>5, FaultTyped DEF Scans
  <2> QED
    BY <1>1, <1>2, <2>1, MarkedGoesOn DEF Had
<1>6. CASE SkipRow
  <2>1. /\ run.at = "scan" /\ run'.at = "scan" /\ run'.pass = run.pass /\ run'.row = run.row + 1
        /\ run'.metric = run.metric /\ run'.binder = run.binder /\ run'.upTo = run.upTo
        /\ run'.made = run.made /\ ~Readable
        /\ run.row \in Nat
    BY <1>6 DEF SkipRow, Scanning, MetricTypeOK, RunState
  <2>2. run.row \notin ReadableRows(run.pass, run.upTo, run.binder) /\ run.metric = 1
    BY <2>1 DEF ReadableRows, Readable, RunInv
  <2>3. ASSUME NEW m \in DOMAIN MetricsOf(run.pass),
               NEW i \in ReadableRows(run.pass, run.upTo, run.binder), HasHad(m, i)'
        PROVE  HasHad(m, i)
    <3>1. m \in Nat /\ m >= 1 /\ i \in Nat
      <4>1. run.pass \in Passes
        BY <2>1 DEF RunInv, MetricTypeOK
      <4>2. /\ Len(MetricsOf(run.pass)) \in Nat
            /\ DOMAIN MetricsOf(run.pass) = 1..Len(MetricsOf(run.pass))
        BY <4>1, PassFacts
      <4>3. m \in 1..Len(MetricsOf(run.pass))
        BY <4>2
      <4>4. i \in Nat
        BY DEF ReadableRows
      <4> QED
        BY ONLY <4>2, <4>3, <4>4
    <3>2. i # run.row /\ (i < run.row + 1 \/ (i = run.row + 1 /\ m < 1))
      BY <2>1, <2>2, <2>3 DEF HasHad
    <3> QED
      BY <2>1, <3>1, <3>2 DEF HasHad
  <2> QED
    BY <1>1, <1>2, <2>1, <2>3, StayingGoesOn DEF Had
<1>7. CASE EndOfRows
  <2>1. /\ run.at = "scan" /\ run'.at = "finalize" /\ run'.pass = run.pass
        /\ run'.binder = run.binder /\ run'.upTo = run.upTo
        /\ run'.made = run.made /\ run.row > run.upTo /\ run.row \in Nat /\ run.upTo \in Nat
    BY <1>7 DEF EndOfRows, MetricTypeOK, RunState
  <2>2. ASSUME NEW m \in DOMAIN MetricsOf(run.pass),
               NEW i \in ReadableRows(run.pass, run.upTo, run.binder)
        PROVE  HasHad(m, i)
    <3>1. i \in 1..run.upTo
      BY DEF ReadableRows
    <3> QED
      BY <2>1, <3>1 DEF HasHad
  <2> QED
    BY <1>1, <1>2, <2>1, <2>2, StayingGoesOn DEF Had
<1>8. CASE OpenPass
  <2>1. /\ run'.at = "scan" /\ run'.pass = run.pass /\ run'.row = 1 /\ run'.metric = 1
        /\ run'.made = [m \in DOMAIN MetricsOf(run.pass) |-> Nothing]
        /\ run.pass \in Passes
    BY <1>8, OpenPassFacts
  <2>2. ASSUME NEW m \in DOMAIN MetricsOf(run.pass)
        PROVE  MadeOfRows(m)'
    <3>1. run'.made[m].rows = {} /\ run'.made[m].decks = {}
      BY <2>1 DEF Nothing
    <3>2. m \in Nat /\ m >= 1
      BY <2>1, PassFacts DEF MetricTypeOK
    <3>3. \A i \in Nat : HasHad(m, i)' => i < 1
      BY <2>1, <3>2 DEF HasHad
    <3>4. \A p, u, v : \A i \in ReadableRows(p, u, v) : i \in 1..u
      BY DEF ReadableRows
    <3>5. ReadableRows(run'.pass, run'.upTo, run'.binder) =
            ReadableRows(run.pass, run.upTo, run.binder)'
      BY <1>1 DEF ReadableRows, RowOf
    <3>6. \A i \in ReadableRows(run.pass, run.upTo, run.binder)' : i \in Nat /\ ~(i < 1)
      <4>1. \A i \in ReadableRows(run.pass, run.upTo, run.binder)' : i \in 1..run'.upTo
        BY <3>4, <3>5
      <4>2. run'.upTo \in Nat
        BY <1>8, OpenPassTyped DEF MetricTypeOK, RunState
      <4> QED
        BY <4>1, <4>2
    <3>7. OfReadRows(run.made[m], run.pass, run.upTo, run.binder)'
      BY <3>1 DEF OfReadRows
    <3> QED
      BY <3>3, <3>6, <3>7 DEF MadeOfRows
  <2> QED
    BY <2>1, <2>2
<1>9. CASE BeginTable \/ FinishOutput \/ FinalizeRaises
  <2>1. run.at = "finalize" /\ UNCHANGED boxVars
    BY <1>9 DEF BeginTable, FinishOutput, FinalizeRaises, FinalizeStep
  <2>2. /\ run'.pass = run.pass /\ run'.made = run.made /\ run'.binder = run.binder
        /\ run'.upTo = run.upTo
    <3>1. CASE BeginTable
      BY <3>1, BeginTableFacts
    <3>2. CASE FinishOutput \/ FinalizeRaises
      <4>1. NextFinalize
        BY <3>2 DEF FinishOutput, FinalizeRaises
      <4>2. run' # AfterPass
        <5>1. run.pass \in Passes
          BY <2>1 DEF RunInv
        <5> QED
          BY <5>1, AfterPassFacts, DownFacts
      <4> QED
        BY <1>1, <2>1, <4>1, <4>2, NextFinalizeKeepsRun
    <3> QED
      BY <1>9, <3>1, <3>2
  <2>3. \A m, i : HasHad(m, i)
    BY <2>1 DEF HasHad
  <2> QED
    BY <1>1, <1>2, <2>1, <2>2, <2>3, StayingGoesOn DEF Had
<1>10. CASE run' = run
  <2>1. \A m, i : HasHad(m, i)' <=> HasHad(m, i)
    BY <1>10 DEF HasHad
  <2> QED
    BY <1>1, <1>2, <1>10, <2>1, StayingGoesOn DEF Had
<1>11. CASE BadRowEndsPass \/ MetricEndsPass
  BY <1>11, EndPassTyped, AfterPassFacts, DownFacts
<1>12. CASE BadRowEndsRun \/ StampCopy \/ SaveRaises \/ Die
  BY <1>12, GoneTyped, DownFacts
<1>13. CASE SaveBox \/ StampBox \/ BackUpBox
  BY <1>13, SaveTyped DEF Saving
<1>14. CASE StartRun
  <2>1. binder \in Nat
    BY FamilyFacts DEF MetricTypeOK
  <2> QED
    BY <1>14, <2>1, BeforePassFacts DEF StartRun
<1>15. CASE BinderChanges \/ RawGrows \/ IngestBox \/ CallStep \/ UNCHANGED metricVars
  <2>1. run' = run
    BY <1>15, WorldTyped DEF CallStep
  <2> QED
    BY <1>10, <2>1
<1> QED
  BY <1>3, <1>4, <1>5, <1>6, <1>7, <1>8, <1>9, <1>11, <1>12, <1>13, <1>14, <1>15
  DEF MetricNext, RunStep

LEMMA FinishedOfRows ==
    ASSUME ScenarioAssumption, MetricTypeOK, RunInv, RowsInv, FinishOutput
    PROVE  \A o \in Outputs : files'[o].state = "whole" => FileOfRows(o)'
<1> DEFINE this == <<run.pass, run.metric>>
           made == run.made[run.metric]
<1>1. /\ run.at = "finalize" /\ scenario' = scenario
      /\ files' = [files EXCEPT ![this] = Written(run.metric)]
      /\ run.pass \in Passes /\ run.metric \in DOMAIN MetricsOf(run.pass)
  BY DEF FinishOutput, FinalizeStep, RunInv
<1>2. made \in Made /\ run.upTo \in Nat /\ run.binder \in Nat /\ started \in Nat
  BY <1>1, MadeTyped DEF RunInv, MetricTypeOK
<1> DEFINE f == Written(run.metric)
<1>3. /\ f.version = run.binder /\ f.upTo = run.upTo /\ f.rows = made.rows
      /\ f.decks = made.decks /\ f.clean = made.clean
  BY <1>2, WholeTyped DEF Written
<1> HIDE DEF f
<1>4. MadeOfRows(run.metric)
  BY <1>1 DEF RowsInv
<1>5. OfReadRows(f, run.pass, run.upTo, run.binder)
  BY <1>3, <1>4 DEF MadeOfRows, OfReadRows
<1>6. f.clean /\ LeavesNoneOut(MetricsOf(run.pass)[run.metric]) =>
        ReadableRows(run.pass, run.upTo, run.binder) \subseteq f.rows
  BY <1>1, <1>3, <1>4 DEF MadeOfRows, HasHad
<1> SUFFICES ASSUME NEW o \in Outputs, files'[o].state = "whole" PROVE FileOfRows(o)'
  OBVIOUS
<1>7. CASE o = this
  <2>1. o[1] = run.pass /\ o[2] = run.metric
    BY <1>7
  <2>2. files'[o] = f
    BY <1>1, <1>7 DEF f, MetricTypeOK
  <2>3. OfReadRows(f, o[1], f.upTo, f.version)
    BY <1>3, <1>5, <2>1
  <2>4. f.clean /\ LeavesNoneOut(KindOf(o)) => ReadableRows(o[1], f.upTo, f.version) \subseteq f.rows
    BY <1>3, <1>6, <2>1 DEF KindOf
  <2>5. \A r, u, v : r = f /\ u = f.upTo /\ v = f.version =>
          OfReadRows(r, o[1], u, v)'
    BY <1>1, <2>3, SameRows
  <2>6. KindOf(o)' = KindOf(o) /\ \A p, u, v : ReadableRows(p, u, v)' = ReadableRows(p, u, v)
    BY <1>1, SameRows
  <2> QED
    BY <2>2, <2>4, <2>5, <2>6 DEF FileOfRows, LeavesNoneOut
<1>8. CASE o # this
  <2>1. files'[o] = files[o]
    BY <1>1, <1>8 DEF MetricTypeOK
  <2> QED
    BY <1>1, <2>1, SameFileOfRows DEF RowsInv
<1> QED
  BY <1>7, <1>8

LEMMA CutOfRows ==
    ASSUME ScenarioAssumption, MetricTypeOK, RunInv, RowsInv, scenario' = scenario,
           run.at = "scan", CutShort
    PROVE  \A o \in Outputs : files'[o].state = "whole" => FileOfRows(o)'
<1> SUFFICES ASSUME NEW o \in Outputs, files'[o].state = "whole" PROVE FileOfRows(o)'
  OBVIOUS
<1>1. CASE files'[o] = files[o]
  BY <1>1, SameFileOfRows DEF RowsInv
<1>2. CASE files'[o] # files[o]
  <2> DEFINE f == files'[o]
  <2>1. /\ o[1] = run.pass /\ f.version = run.binder /\ f.upTo = run.upTo /\ ~f.clean
        /\ \E made \in {Nothing, run.made[o[2]]} : f.rows = made.rows /\ f.decks = made.decks
    BY <1>2, CutShortFacts
  <2>2. MadeOfRows(o[2])
    BY <2>1, OutputFacts DEF RowsInv, MetricTypeOK
  <2> HIDE DEF f
  <2>3. OfReadRows(Nothing, run.pass, run.upTo, run.binder)
    BY DEF OfReadRows, Nothing
  <2>4. OfReadRows(f, o[1], f.upTo, f.version)
    BY <2>1, <2>2, <2>3 DEF MadeOfRows, OfReadRows
  <2>5. \A r, u, v : r = f /\ u = f.upTo /\ v = f.version => OfReadRows(r, o[1], u, v)'
    BY <2>4, SameRows
  <2> QED
    BY <2>1, <2>5 DEF FileOfRows, f
<1> QED
  BY <1>1, <1>2

\* How a file can change.
LEMMA FileSteps ==
    ASSUME ScenarioAssumption, MetricTypeOK, RunInv, MetricNext \/ UNCHANGED metricVars,
           NEW o \in Outputs
    PROVE  \/ files'[o] = files[o]
           \/ files'[o].state = "torn"
           \/ run.at = "scan" /\ CutShort
           \/ FinishOutput
<1>1. CASE StartRun \/ OpenPass \/ BeginTable
  <2>1. started' \in Nat
    BY <1>1, RunTyped DEF StartRun, OpenPass, BeginTable
  <2>2. Torn.state = "torn"
    BY <2>1, TornTyped
  <2> HIDE DEF Torn
  <2>3. files'[o] = files[o] \/ files'[o] = Torn
    BY <1>1 DEF StartRun, OpenPass, BeginTable, StreamsOpened, MetricTypeOK
  <2> QED
    BY <2>2, <2>3
<1>2. CASE PutDeck \/ SeeDeck \/ MissDeck \/ WriteOutputRow \/ SkipRow \/ CallStep
           \/ EndOfRows \/ CallRaises \/ BatchLost \/ MetricRaises \/ FinalizeRaises
  BY <1>2 DEF PutDeck, SeeDeck, MissDeck, WriteOutputRow, SkipRow, CallStep, EndOfRows,
     unmoved, CallRaises, BatchLost, MetricRaises, FinalizeRaises
<1>3. CASE \/ SaveBox \/ StampBox \/ BackUpBox
           \/ BinderChanges \/ RawGrows \/ IngestBox \/ UNCHANGED metricVars
  BY <1>3, SaveTyped, WorldTyped
<1> QED
  BY <1>1, <1>2, <1>3, EndPassTyped, GoneTyped DEF MetricNext, RunStep

LEMMA RowsStep ==
    ASSUME ScenarioAssumption, MetricTypeOK, RunInv, RowsInv,
           MetricNext \/ UNCHANGED metricVars
    PROVE  RowsInv'
<1>1. scenario' = scenario /\ Outputs' = Outputs
  BY ScenarioKept, SameRows
<1>2. \A p : MetricsOf(p)' = MetricsOf(p)
  BY <1>1, SameRows
<1>3. ASSUME NEW o \in Outputs, files'[o].state = "whole"
      PROVE  FileOfRows(o)'
  <2>1. CASE files'[o] = files[o]
    BY <1>1, <1>3, <2>1, SameFileOfRows DEF RowsInv
  <2>2. CASE FinishOutput
    BY <1>3, <2>2, FinishedOfRows
  <2>3. CASE run.at = "scan" /\ CutShort
    BY <1>1, <1>3, <2>3, CutOfRows
  <2> QED
    BY <1>3, <2>1, <2>2, <2>3, FileSteps
<1> QED
  BY <1>1, <1>2, <1>3, MadeRowsStep DEF RowsInv

-----------------------------------------------------------------------------
(* A run only adds to its box. *)

LEMMA PutsOwnTheBox ==
    ASSUME ScenarioAssumption, MetricTypeOK, RunInv, PutDeck
    PROVE  OwnsBox
<1>1. DoesNext("put") /\ run.at = "scan"
  BY DEF PutDeck, DoesNext, Scanning
<1>2. /\ run.pass \in Passes /\ run.metric \in DOMAIN MetricsOf(run.pass)
      /\ run.step \in DOMAIN Program /\ Program[run.step].do = "put"
  BY <1>1 DEF RunInv, DoesNext
<1>3. FamilyAssumption(TheFamily)
  BY FamilyFacts DEF MetricTypeOK
<1> QED
  BY <1>2, <1>3 DEF FamilyAssumption, MetricsOf, Program, OwnsBox

\* A step of a call, by what it does to the decks there are.
LEMMA CallStepBox ==
    ASSUME MetricTypeOK, BoxInv, CallStep
    PROVE  /\ OwnsBox /\ call.at \in OpenCalls \cup {"flush"} /\ call'.at # "stamp"
           /\ call'.at \in OpenCalls \cup {"flush", "idle"}
           /\ view.rows \subseteq view'.rows
           /\ call'.at \in OpenCalls =>
                /\ call.at \in OpenCalls /\ call'.kind = call.kind /\ call'.deck = call.deck
                /\ savepoint' = savepoint /\ call.deck \in view'.rows
           /\ call.at \in OpenCalls /\ call'.at \notin OpenCalls => call.deck \in view'.rows
<1>1. /\ call.at \in OpenCalls =>
           \A at : /\ [call EXCEPT !.at = at].at = at
                   /\ [call EXCEPT !.at = at].kind = call.kind
                   /\ [call EXCEPT !.at = at].deck = call.deck
      /\ \A rows : [view EXCEPT !.rows = rows].rows = rows
      /\ \A cards : [view EXCEPT !.cards = cards].rows = view.rows
  BY DEF OpenCalls, MetricTypeOK, BoxTypeOK, Call, BoxContent
<1>2. CASE WriteRow
  BY <1>1, <1>2 DEF WriteRow, BoxInv, OpenCalls, RowsAfter
<1>3. CASE WriteCards
  BY <1>1, <1>3 DEF WriteCards, BoxInv, OpenCalls
<1>4. CASE Release
  BY <1>4 DEF Release, BoxInv, OpenCalls, Idle
<1>5. CASE Flush
  BY <1>5 DEF Flush, BoxInv, OpenCalls, Idle
<1> QED
  BY <1>2, <1>3, <1>4, <1>5 DEF CallStep

LEMMA BoxStep ==
    ASSUME ScenarioAssumption, MetricTypeOK, RunInv, BoxInv,
           MetricNext \/ UNCHANGED metricVars
    PROVE  BoxInv'
<1>1. scenario' = scenario /\ OwnsBox' = OwnsBox /\ TheFamily' = TheFamily
  BY ScenarioKept DEF OwnsBox
<1>2. CASE UNCHANGED boxVars
  BY <1>1, <1>2 DEF BoxInv, boxVars
<1>3. CASE PutDeck
  <2>1. /\ call' = [at |-> "row", kind |-> "create_if_absent", deck |-> DeckOfStep,
                    cards |-> DeckOfStep]
        /\ savepoint' = view /\ view' = [view EXCEPT !.stamp = None]
    BY <1>3 DEF PutDeck, BeginCall, Cleared
  <2>2. view'.rows = view.rows /\ call'.at = "row" /\ call'.kind = "create_if_absent"
    BY <2>1 DEF MetricTypeOK, BoxTypeOK, BoxContent
  <2> QED
    BY <1>1, <1>3, <2>1, <2>2, PutsOwnTheBox DEF BoxInv, OpenCalls
<1>4. CASE CallStep
  <2>1. savepoint.rows \subseteq view.rows \/ call'.at \notin OpenCalls
    BY <1>4, CallStepBox DEF BoxInv
  <2> QED
    BY <1>1, <1>4, <2>1, CallStepBox DEF BoxInv
<1>5. CASE call'.at = "idle" /\ (OwnsBox \/ stored'.rows = view'.rows)
  BY <1>1, <1>5 DEF BoxInv, OpenCalls
<1>6. CASE CallRaises \/ BatchLost
  <2>1. call'.at = "idle" /\ OwnsBox
    BY <1>6 DEF CallRaises, BatchLost, StatementFails, CommitFails, Discard, Idle, OwnsBox
  <2> QED
    BY <1>5, <2>1
<1>7. CASE BadRowEndsRun \/ StampCopy \/ SaveRaises \/ Die
  <2>1. BoxGone
    BY <1>7, GoneTyped
  <2> QED
    BY <1>5, <2>1, BoxGoneFacts DEF MetricTypeOK
<1>8. CASE SaveBox
  <2>1. OwnsBox
    BY <1>8 DEF SaveBox, RunInv, Saving
  <2>2. CASE TheFamily.box = "memory"
    BY <1>1, <1>8, <2>1, <2>2 DEF SaveBox, BoxInv
  <2>3. CASE TheFamily.box # "memory"
    BY <1>1, <1>8, <2>1, <2>3 DEF SaveBox, Save, BoxInv, OpenCalls
  <2> QED
    BY <2>2, <2>3
<1>9. CASE StampBox
  BY <1>5, <1>9 DEF StampBox, WriteStamp, Idle, RunInv, Saving
<1>10. CASE IngestBox
  BY <1>1, <1>10, IngestFacts DEF BoxInv, OwnsBox
<1>11. CASE \/ StartRun \/ OpenPass \/ SeeDeck \/ MissDeck \/ WriteOutputRow \/ SkipRow
            \/ BadRowEndsPass \/ EndOfRows \/ BeginTable \/ FinishOutput \/ BackUpBox
            \/ MetricRaises \/ MetricEndsPass \/ FinalizeRaises \/ BinderChanges \/ RawGrows
            \/ UNCHANGED metricVars
  <2>1. UNCHANGED boxVars
    BY <1>11 DEF StartRun, OpenPass, SeeDeck, MissDeck, WriteOutputRow, SkipRow, BadRowEndsPass,
       EndPassEarly, EndOfRows, BeginTable, FinishOutput, BackUpBox, MetricRaises,
       MetricEndsPass, FinalizeRaises, BinderChanges, RawGrows, metricVars
  <2> QED
    BY <1>2, <2>1
<1> QED
  BY <1>3, <1>4, <1>6, <1>7, <1>8, <1>9, <1>10, <1>11 DEF MetricNext, RunStep

-----------------------------------------------------------------------------
(* What was settled is settled, or is lost. *)

LEMMA SettledBelow ==
    ASSUME BoxInv PROVE Settled \subseteq view.rows
BY DEF BoxInv, Settled

LEMMA SettledKept ==
    ASSUME ScenarioAssumption, MetricTypeOK, RunInv, BoxInv,
           MetricNext \/ UNCHANGED metricVars
    PROVE  /\ lost \subseteq lost'
           /\ \/ Settled \subseteq lost' \cup Settled'
              \/ BoxGone /\ run' = Down /\ run.at # "down" /\ copy'.rows = copy.rows
<1>1. CASE UNCHANGED <<call, view, savepoint, lost>>
  BY <1>1 DEF Settled
<1>2. CASE PutDeck
  <2>1. /\ call.at = "idle" /\ call'.at = "row" /\ savepoint' = view /\ lost' = lost
    BY <1>2 DEF PutDeck, BeginCall, unmoved
  <2> QED
    BY <2>1 DEF Settled, OpenCalls
<1>3. CASE CallStep
  <2>1. lost' = lost
    BY <1>3 DEF CallStep, unmoved
  <2>2. call.at \in OpenCalls => savepoint.rows \subseteq view.rows
    BY DEF BoxInv
  <2> QED
    BY <1>3, <2>1, <2>2, CallStepBox DEF Settled
<1>4. CASE CallRaises
  BY <1>4 DEF CallRaises, StatementFails, CommitFails, Settled, OpenCalls, Idle
<1>5. CASE BatchLost
  BY <1>5, SettledBelow DEF BatchLost, Discard, Settled, OpenCalls, Idle
<1>6. CASE BadRowEndsRun \/ StampCopy \/ SaveRaises \/ Die
  BY <1>6, GoneTyped, BoxGoneFacts DEF MetricTypeOK
<1>7. CASE SaveBox \/ StampBox \/ BackUpBox
  BY <1>7, SaveTyped, SettledBelow DEF Settled
<1>8. CASE IngestBox
  <2>1. /\ ~OwnsBox /\ view' = stored' /\ stored'.rows = stored.rows \cup Ingested
        /\ call' = call /\ lost' = lost
    BY <1>8, IngestFacts DEF OwnsBox, unmoved
  <2> QED
    BY <2>1 DEF BoxInv, Settled
<1>9. CASE \/ StartRun \/ OpenPass \/ SeeDeck \/ MissDeck \/ WriteOutputRow \/ SkipRow
           \/ BadRowEndsPass \/ EndOfRows \/ BeginTable \/ FinishOutput
           \/ MetricRaises \/ MetricEndsPass \/ FinalizeRaises \/ BinderChanges \/ RawGrows
           \/ UNCHANGED metricVars
  <2>1. UNCHANGED <<boxVars, lost>>
    BY <1>9 DEF StartRun, OpenPass, SeeDeck, MissDeck, WriteOutputRow, SkipRow, BadRowEndsPass,
       EndPassEarly, EndOfRows, BeginTable, FinishOutput, MetricRaises,
       MetricEndsPass, FinalizeRaises, BinderChanges, RawGrows, metricVars, unmoved
  <2> QED
    BY <1>1, <2>1 DEF boxVars
<1> QED
  BY <1>2, <1>3, <1>4, <1>5, <1>6, <1>7, <1>8, <1>9 DEF MetricNext, RunStep

\* What readers will find only grows, but for a box in memory that is begun anew.
LEMMA ReachableKept ==
    ASSUME ScenarioAssumption, MetricTypeOK, RunInv, BoxInv,
           MetricNext \/ UNCHANGED metricVars,
           ~(StartRun /\ TheFamily.box = "memory")
    PROVE  Reachable \subseteq lost' \cup Reachable'
<1>1. scenario' = scenario /\ TheFamily' = TheFamily
  BY ScenarioKept
<1>2. CASE BoxGone /\ run' = Down /\ run.at # "down" /\ copy'.rows = copy.rows
  <2>1. run'.at = "down" /\ Reachable = Settled
    BY <1>2, DownFacts DEF Reachable
  <2>2. Settled \subseteq lost' \cup BoxFile.rows
    BY <1>2, SettledBelow, BoxGoneFacts DEF MetricTypeOK
  <2>3. CASE TheFamily.box = "memory"
    BY <1>1, <1>2, <2>1, <2>2, <2>3 DEF BoxFile, Reachable
  <2>4. CASE TheFamily.box # "memory"
    <3>1. call'.at = "idle" /\ view' = stored
      BY <1>2, <2>4, BoxGoneFacts DEF MetricTypeOK
    <3> QED
      BY <1>1, <2>1, <2>2, <2>4, <3>1 DEF BoxFile, Reachable, Settled, OpenCalls
  <2> QED
    BY <2>3, <2>4
<1>3. CASE Settled \subseteq lost' \cup Settled'
  <2>1. CASE TheFamily.box # "memory"
    BY <1>1, <1>3, <2>1 DEF Reachable
  <2>2. CASE TheFamily.box = "memory" /\ run.at # "down" /\ run'.at # "down"
    BY <1>3, <2>2 DEF Reachable
  <2>3. CASE TheFamily.box = "memory" /\ run.at = "down"
    <3>1. BinderChanges \/ RawGrows \/ UNCHANGED metricVars
      <4>1. ~IngestBox
        BY <2>3 DEF IngestBox
      <4>2. ~(SaveBox \/ StampBox \/ BackUpBox)
        BY <2>3, SaveTyped DEF Saving
      <4>3. ~(PutDeck \/ SeeDeck \/ MissDeck \/ WriteOutputRow \/ SkipRow \/ CallStep
                \/ EndOfRows \/ BadRowEndsPass \/ BadRowEndsRun \/ OpenPass)
        BY <2>3 DEF PutDeck, SeeDeck, MissDeck, WriteOutputRow, SkipRow, CallStep, EndOfRows,
           BadRowEndsPass, BadRowEndsRun, OpenPass, DoesNext, Scanning
      <4>4. ~(BeginTable \/ FinishOutput \/ StampCopy)
        BY <2>3 DEF BeginTable, FinishOutput, StampCopy, FinalizeStep
      <4>5. ~(CallRaises \/ BatchLost \/ MetricRaises \/ MetricEndsPass \/ FinalizeRaises
                \/ SaveRaises \/ Die)
        BY <2>3 DEF CallRaises, BatchLost, MetricRaises, MetricEndsPass, FinalizeRaises,
           SaveRaises, Die, Scanning
      <4> QED
        BY <2>3, <4>1, <4>2, <4>3, <4>4, <4>5 DEF MetricNext, RunStep
    <3>2. UNCHANGED <<copy, run>>
      BY <3>1, WorldTyped
    <3> QED
      BY <1>1, <2>3, <3>2 DEF Reachable
  <2>4. CASE TheFamily.box = "memory" /\ run.at # "down" /\ run'.at = "down"
    <3>1. OwnsBox
      BY <2>4 DEF OwnsBox
    <3>2. CASE BadRowEndsRun \/ StampCopy \/ SaveRaises \/ Die
      BY <1>2, <3>2, GoneTyped
    <3>3. CASE StampBox
      <4>1. call.at = "stamp"
        BY <3>3 DEF StampBox, WriteStamp
      <4> QED
        BY <2>4, <4>1 DEF BoxInv
    <3>4. ~(SaveBox \/ BackUpBox)
      BY <2>4, RunTyped DEF SaveBox, BackUpBox, RunState
    <3>5. ~(PutDeck \/ SeeDeck \/ MissDeck \/ WriteOutputRow \/ CallRaises \/ BatchLost
              \/ MetricRaises \/ OpenPass)
      BY <2>4, PutDeckRun, SeeDeckRun, MissDeckRun, WriteOutputRowRun, FaultTyped,
         OpenPassFacts DEF Scans
    <3>6. ~(SkipRow \/ EndOfRows)
      BY <2>4, RunTyped DEF SkipRow, EndOfRows, RunState
    <3>7. ~(CallStep \/ BinderChanges \/ RawGrows \/ IngestBox \/ UNCHANGED metricVars)
      BY <2>4, WorldTyped DEF CallStep
    <3>8. ~(BadRowEndsPass \/ MetricEndsPass)
      BY <2>4, <3>1, EndPassTyped, AfterPassFacts DEF Saving
    <3>9. ~(BeginTable \/ FinishOutput \/ FinalizeRaises)
      <4>1. ASSUME FinishOutput \/ FinalizeRaises
            PROVE  FALSE
        <5>1. NextFinalize /\ run.at = "finalize" /\ UNCHANGED boxVars
          BY <4>1 DEF FinishOutput, FinalizeRaises, FinalizeStep
        <5> QED
          BY <1>1, <2>4, <3>1, <5>1, NextFinalizeKeepsRun, AfterPassFacts
      <4> QED
        BY <2>4, <4>1, BeginTableFacts
    <3>10. ~StartRun
      BY <2>4 DEF StartRun
    <3> QED
      BY <3>2, <3>3, <3>4, <3>5, <3>6, <3>7, <3>8, <3>9, <3>10 DEF MetricNext, RunStep
  <2> QED
    BY <2>1, <2>2, <2>3, <2>4
<1> QED
  BY <1>2, <1>3, SettledKept

-----------------------------------------------------------------------------
(* The decks a metric keeps. *)

\* The files, whatever the step: those the step makes are of what the pass has.
LEMMA FileDecksStep ==
    ASSUME ScenarioAssumption, MetricTypeOK, RunInv, BoxInv, DecksInv,
           MetricNext \/ UNCHANGED metricVars, NEW o \in Outputs
    PROVE  FileKeepsDecks(o)'
<1>1. scenario' = scenario /\ KindOf(o)' = KindOf(o)
  BY ScenarioKept, SameRows
<1>2. lost \subseteq lost'
  BY SettledKept
<1>3. ASSUME files'[o].decks \subseteq lost \cup Reachable,
             ~(StartRun /\ TheFamily.box = "memory")
      PROVE  FileKeepsDecks(o)'
  BY <1>2, <1>3, ReachableKept DEF FileKeepsDecks
<1>4. CASE StartRun /\ TheFamily.box = "memory"
  <2>1. KeepsDecks(KindOf(o)) => TheFamily.opens = "run" /\ KindOf(o).output = "stream"
    <3>1. FamilyAssumption(TheFamily)
      BY FamilyFacts DEF MetricTypeOK
    <3>2. o[1] \in Passes /\ o[2] \in DOMAIN MetricsOf(o[1]) /\ KindOf(o) = MetricsOf(o[1])[o[2]]
      BY OutputFacts DEF MetricTypeOK
    <3> QED
      BY <1>4, <3>1, <3>2 DEF FamilyAssumption, MetricsOf
  <2>2. KeepsDecks(KindOf(o)) => files'[o] = Torn
    BY <1>4, <2>1, OutputFacts DEF StartRun, StreamsOpened, MetricTypeOK
  <2>3. Torn.state = "torn"
    BY <1>4, RunTyped, TornTyped DEF StartRun
  <2> HIDE DEF Torn
  <2> QED
    BY <1>1, <2>2, <2>3 DEF FileKeepsDecks, KeepsDecks
<1>5. CASE files'[o] = files[o] /\ ~(StartRun /\ TheFamily.box = "memory")
  <2>1. files[o].state = "whole" /\ KeepsDecks(KindOf(o)) =>
          files[o].decks \subseteq lost \cup Reachable
    BY DEF DecksInv, FileKeepsDecks
  <2> QED
    BY <1>1, <1>2, <1>5, <2>1, ReachableKept DEF FileKeepsDecks, KeepsDecks
<1>6. CASE files'[o].state = "torn"
  BY <1>6 DEF FileKeepsDecks
<1>7. CASE run.at = "scan" /\ CutShort
  <2>1. CASE files'[o] # files[o]
    <3>1. /\ o[1] = run.pass
          /\ \E made \in {Nothing, run.made[o[2]]} : files'[o].decks = made.decks
      BY <1>7, <2>1, CutShortFacts
    <3>2. KeepsDecks(KindOf(o)) => run.made[o[2]].decks \subseteq lost \cup Settled
      BY <1>7, <3>1, OutputFacts DEF DecksInv, MadeKeepsDecks, MetricTypeOK
    <3>3. Nothing.decks = {} /\ Reachable = Settled /\ ~StartRun
      BY <1>7 DEF Nothing, Reachable, StartRun
    <3>4. KeepsDecks(KindOf(o)) => files'[o].decks \subseteq lost \cup Reachable
      BY <3>1, <3>2, <3>3
    <3> QED
      BY <1>1, <1>3, <3>3, <3>4 DEF FileKeepsDecks, KeepsDecks
  <2> QED
    BY <1>5, <1>7, <2>1 DEF StartRun
<1>8. CASE FinishOutput
  <2> DEFINE this == <<run.pass, run.metric>>
  <2>1. /\ run.at = "finalize" /\ files' = [files EXCEPT ![this] = Written(run.metric)]
        /\ run.metric \in DOMAIN MetricsOf(run.pass)
    BY <1>8 DEF FinishOutput, FinalizeStep, RunInv
  <2>2. CASE o = this
    <3>1. run.made[run.metric] \in Made /\ run.upTo \in Nat /\ run.binder \in Nat
          /\ started \in Nat
      BY <2>1, MadeTyped DEF MetricTypeOK
    <3>2. Written(run.metric).decks = run.made[run.metric].decks
      BY <3>1, WholeTyped DEF Written
    <3>3. files'[o] = Written(run.metric)
      BY <2>1, <2>2 DEF MetricTypeOK
    <3>4. KindOf(o) = MetricsOf(run.pass)[run.metric]
      BY <2>2 DEF KindOf
    <3>5. Reachable = Settled /\ ~StartRun
      BY <2>1 DEF Reachable, StartRun
    <3>6. KeepsDecks(KindOf(o)) => files'[o].decks \subseteq lost \cup Reachable
      BY <2>1, <3>2, <3>3, <3>4, <3>5 DEF DecksInv, MadeKeepsDecks
    <3> QED
      BY <1>1, <1>3, <3>5, <3>6 DEF FileKeepsDecks, KeepsDecks
  <2>3. CASE o # this
    <3>1. files'[o] = files[o]
      BY <2>1, <2>3 DEF MetricTypeOK
    <3> QED
      BY <1>5, <2>1, <3>1 DEF StartRun
  <2> QED
    BY <2>2, <2>3
<1>9. \/ files'[o] = files[o] \/ files'[o].state = "torn"
      \/ run.at = "scan" /\ CutShort
      \/ FinishOutput
  BY FileSteps
<1> QED
  BY <1>4, <1>5, <1>6, <1>7, <1>8, <1>9

\* How what a pass has made can change.
LEMMA MadeSteps ==
    ASSUME ScenarioAssumption, MetricTypeOK, RunInv, MetricNext \/ UNCHANGED metricVars,
           run'.at \in {"scan", "finalize"}
    PROVE  \/ OpenPass
           \/ /\ run.at \in {"scan", "finalize"} /\ run'.pass = run.pass
              /\ \A m \in DOMAIN MetricsOf(run.pass) :
                   \/ run'.made[m].decks = run.made[m].decks
                   \/ /\ WriteOutputRow /\ m = run.metric
                      /\ run'.made[m].decks = run.made[m].decks \cup Named
<1>1. scenario' = scenario
  BY ScenarioKept
<1>2. CASE PutDeck \/ SeeDeck \/ MissDeck
  BY <1>2, PutDeckRun, SeeDeckRun, MissDeckRun DEF Scanning, Scans
<1>3. CASE WriteOutputRow
  <2> DEFINE old == run.made[run.metric]
  <2>1. /\ run.at = "scan" /\ run'.pass = run.pass
        /\ run'.made = [run.made EXCEPT ![run.metric] = WithRow(old)]
    BY <1>3, WriteOutputRowRun DEF Scanning, Scans
  <2>2. /\ old \in Made /\ DOMAIN run.made = DOMAIN MetricsOf(run.pass)
        /\ run.row \in Nat /\ Named \subseteq CardLists
    BY <1>3, <2>1, MadeTyped, StepIs DEF RunInv, MetricTypeOK, RunState, WriteOutputRow
  <2>3. WithRow(old).decks = old.decks \cup Named
    BY <2>2, WithRowFacts
  <2> HIDE DEF old
  <2>4. ASSUME NEW m \in DOMAIN MetricsOf(run.pass)
        PROVE  \/ run'.made[m] = run.made[m]
               \/ m = run.metric /\ run'.made[m] = WithRow(old)
    BY <2>1, <2>2
  <2> QED
    BY <1>3, <2>1, <2>3, <2>4 DEF old
<1>4. CASE CallRaises \/ BatchLost \/ MetricRaises
  <2> DEFINE old == run.made[run.metric]
  <2>1. /\ run.at = "scan" /\ run'.pass = run.pass /\ run' = Isolated
    BY <1>4, FaultTyped DEF Scans
  <2>2. /\ run'.made = [run.made EXCEPT ![run.metric] = Marked(old)]
        /\ old \in Made /\ DOMAIN run.made = DOMAIN MetricsOf(run.pass)
    BY <2>1, IsolatedFacts, MadeTyped DEF RunInv
  <2>3. Marked(old).decks = old.decks
    BY <2>2, MarkedFacts
  <2> HIDE DEF old
  <2>4. ASSUME NEW m \in DOMAIN MetricsOf(run.pass)
        PROVE  \/ run'.made[m] = run.made[m]
               \/ m = run.metric /\ run'.made[m] = Marked(old)
    BY <2>2
  <2> QED
    BY <2>1, <2>3, <2>4 DEF old
<1>5. CASE SkipRow \/ EndOfRows
  BY <1>5, RunTyped DEF SkipRow, EndOfRows, Scanning, RunState
<1>6. CASE BeginTable
  BY <1>6, BeginTableFacts
<1>7. CASE FinishOutput \/ FinalizeRaises
  <2>1. run.at = "finalize" /\ UNCHANGED boxVars /\ NextFinalize /\ run.pass \in Passes
    BY <1>7 DEF FinishOutput, FinalizeRaises, FinalizeStep, RunInv
  <2>2. run' # AfterPass
    BY <2>1, AfterPassFacts, DownFacts
  <2> QED
    BY <1>1, <2>1, <2>2, NextFinalizeKeepsRun
<1>8. CASE run' = run
  BY <1>8
<1>9. CASE BadRowEndsPass \/ MetricEndsPass
  BY <1>9, EndPassTyped, AfterPassFacts, DownFacts
<1>10. CASE BadRowEndsRun \/ StampCopy \/ SaveRaises \/ Die
  BY <1>10, GoneTyped, DownFacts
<1>11. CASE SaveBox \/ StampBox \/ BackUpBox
  BY <1>11, SaveTyped DEF Saving
<1>12. CASE StartRun
  <2>1. binder \in Nat
    BY FamilyFacts DEF MetricTypeOK
  <2> QED
    BY <1>12, <2>1, BeforePassFacts DEF StartRun
<1>13. CASE BinderChanges \/ RawGrows \/ IngestBox \/ CallStep \/ UNCHANGED metricVars
  BY <1>8, <1>13, WorldTyped DEF CallStep
<1> QED
  BY <1>2, <1>3, <1>4, <1>5, <1>6, <1>7, <1>9, <1>10, <1>11, <1>12, <1>13
  DEF MetricNext, RunStep

\* What a row names, its program has put or found.
LEMMA NamedHaveCome ==
    ASSUME ScenarioAssumption, MetricTypeOK, RunInv, DecksInv, WriteOutputRow,
           KeepsDecks(MetricsOf(run.pass)[run.metric])
    PROVE  Named \subseteq lost \cup Settled
<1>1. /\ run.at = "scan" /\ call.at = "idle" /\ Program[run.step].do = "row"
      /\ run.step \in DOMAIN Program
      /\ Program = MetricsOf(run.pass)[run.metric].program
      /\ KindAssumption(MetricsOf(run.pass)[run.metric])
  BY WriteOutputRowRun, ScanFacts DEF Scanning
<1>2. InHand = {}
  BY <1>1 DEF InHand, OpenCalls
<1> SUFFICES ASSUME NEW i \in Program[run.step].decks
             PROVE  RowOf(run.pass, run.row, run.binder)[i] \in lost \cup Settled
  BY DEF Named
<1>3. HasDeck(Program, run.step, i)
  BY <1>1 DEF KindAssumption
<1>4. PICK j \in 1..(run.step - 1) : Program[j].do # "row" /\ Program[j].deck = i
  BY <1>3 DEF HasDeck
<1>5. HasCome(j)
  BY <1>1, <1>4 DEF DecksInv
<1> QED
  BY <1>2, <1>4, <1>5 DEF HasCome

LEMMA LivesOn ==
    ASSUME ScenarioAssumption, MetricTypeOK, RunInv, BoxInv,
           MetricNext \/ UNCHANGED metricVars, run'.at # "down"
    PROVE  lost \subseteq lost' /\ Settled \subseteq lost' \cup Settled'
BY SettledKept, DownFacts

LEMMA MadeDecksStep ==
    ASSUME ScenarioAssumption, MetricTypeOK, RunInv, BoxInv, DecksInv,
           MetricNext \/ UNCHANGED metricVars, run'.at \in {"scan", "finalize"}
    PROVE  \A m \in DOMAIN MetricsOf(run'.pass) : MadeKeepsDecks(m)'
<1>1. scenario' = scenario /\ \A p : MetricsOf(p)' = MetricsOf(p)
  BY ScenarioKept, SameRows
<1>2. lost \subseteq lost' /\ Settled \subseteq lost' \cup Settled'
  BY LivesOn
<1>3. CASE OpenPass
  <2>1. /\ run'.pass = run.pass
        /\ run'.made = [m \in DOMAIN MetricsOf(run.pass) |-> Nothing]
    BY <1>3, OpenPassFacts
  <2> QED
    BY <1>1, <2>1 DEF MadeKeepsDecks, Nothing
<1>4. CASE /\ run.at \in {"scan", "finalize"} /\ run'.pass = run.pass
           /\ \A m \in DOMAIN MetricsOf(run.pass) :
                \/ run'.made[m].decks = run.made[m].decks
                \/ /\ WriteOutputRow /\ m = run.metric
                   /\ run'.made[m].decks = run.made[m].decks \cup Named
  <2> SUFFICES ASSUME NEW m \in DOMAIN MetricsOf(run.pass) PROVE MadeKeepsDecks(m)'
    BY <1>1, <1>4
  <2>1. MadeKeepsDecks(m)
    BY <1>4 DEF DecksInv
  <2>2. KeepsDecks(MetricsOf(run.pass)[m]) => run'.made[m].decks \subseteq lost \cup Settled
    BY <1>4, <2>1, NamedHaveCome DEF MadeKeepsDecks
  <2>3. MetricsOf(run.pass)'[m] = MetricsOf(run.pass)[m]
    BY <1>1, <1>4
  <2> QED
    BY <1>2, <2>2, <2>3 DEF MadeKeepsDecks, KeepsDecks
<1> QED
  BY <1>3, <1>4, MadeSteps

\* The row's decks so far, as its program goes on.
LEMMA RowDecksStep ==
    ASSUME ScenarioAssumption, MetricTypeOK, RunInv, BoxInv, DecksInv,
           MetricNext \/ UNCHANGED metricVars, run'.at = "scan",
           NEW j \in 1..(run'.step - 1)
    PROVE  HasCome(j)'
<1>1. /\ scenario' = scenario /\ (\A p : MetricsOf(p)' = MetricsOf(p))
      /\ \A p, i, v : RowOf(p, i, v)' = RowOf(p, i, v)
  BY ScenarioKept, SameRows
<1>2. lost \subseteq lost' /\ Settled \subseteq lost' \cup Settled'
  BY LivesOn
<1>3. run'.step # 1
  <2>1. run'.step \in Nat
    BY TypesAndPlaces DEF MetricTypeOK, RunState
  <2> QED
    BY <2>1
<1> DEFINE Goes == /\ run.at = "scan" /\ run'.pass = run.pass /\ run'.row = run.row
                   /\ run'.metric = run.metric /\ run'.binder = run.binder
           Deck == RowOf(run.pass, run.row, run.binder)[Program[j].deck]
<1>4. ASSUME Goes, Program[j].do # "row" => Deck \in lost' \cup Settled' \cup InHand'
      PROVE  HasCome(j)'
  <2>1. Program' = Program
    BY <1>1, <1>4 DEF Program
  <2>2. RowOf(run.pass, run.row, run.binder)' = RowOf(run.pass, run.row, run.binder)
    BY <1>1, <1>4
  <2> QED
    BY <1>4, <2>1, <2>2 DEF HasCome
<1>5. ASSUME Goes, j \in 1..(run.step - 1), InHand \subseteq Settled' \cup InHand'
      PROVE  HasCome(j)'
  <2>1. HasCome(j)
    BY <1>5 DEF DecksInv
  <2> QED
    BY <1>2, <1>4, <1>5, <2>1 DEF HasCome
<1>6. run.step \in Nat
  BY DEF MetricTypeOK, RunState
<1>7. CASE PutDeck \/ SeeDeck
  <2>1. /\ Goes /\ run'.step = run.step + 1 /\ call.at = "idle"
    BY <1>7, PutDeckRun, SeeDeckRun DEF Scanning, Scans
  <2>2. InHand = {}
    BY <2>1 DEF InHand, OpenCalls
  <2>3. CASE j \in 1..(run.step - 1)
    BY <1>5, <2>1, <2>2, <2>3
  <2>4. CASE j = run.step
    <3>1. Deck = DeckOfStep
      BY <2>4 DEF DeckOfStep
    <3>2. CASE PutDeck
      BY <1>4, <2>1, <3>1, <3>2 DEF PutDeck, BeginCall, InHand, OpenCalls
    <3>3. CASE SeeDeck
      <4>1. DeckOfStep \in Settled
        BY <2>1, <3>3, SeeDeckRun DEF Settled, OpenCalls
      <4> QED
        BY <1>2, <1>4, <2>1, <3>1, <4>1
    <3> QED
      BY <1>7, <3>2, <3>3
  <2> QED
    BY <1>6, <2>1, <2>3, <2>4
<1>8. CASE WriteOutputRow
  <2>1. /\ Goes /\ run'.step = run.step + 1 /\ call.at = "idle"
        /\ Program[run.step].do = "row"
    BY <1>3, <1>8, WriteOutputRowRun DEF Scanning, Scans
  <2>2. InHand = {}
    BY <2>1 DEF InHand, OpenCalls
  <2>3. CASE j \in 1..(run.step - 1)
    BY <1>5, <2>1, <2>2, <2>3
  <2>4. CASE j = run.step
    BY <1>4, <2>1, <2>4
  <2> QED
    BY <1>6, <2>1, <2>3, <2>4
<1>9. CASE MissDeck
  BY <1>3, <1>9, MissDeckRun
<1>10. CASE CallRaises \/ BatchLost \/ MetricRaises
  BY <1>3, <1>10, FaultTyped, IsolatedFacts
<1>11. CASE OpenPass
  BY <1>3, <1>11, OpenPassFacts
<1>12. CASE SkipRow
  <2>1. run'.step = run.step /\ ~Readable /\ run.at = "scan"
    BY <1>12, RunTyped DEF SkipRow, Scanning, RunState
  <2>2. run.step = 1
    BY <2>1 DEF RunInv, ReadableRows, Readable
  <2> QED
    BY <1>3, <2>1, <2>2
<1>13. CASE CallStep
  <2>1. run' = run /\ run.at = "scan"
    BY <1>13 DEF CallStep
  <2>2. InHand \subseteq Settled' \cup InHand'
    BY <1>13, CallStepBox DEF InHand, Settled
  <2> QED
    BY <1>5, <2>1, <2>2
<1>14. CASE BinderChanges \/ RawGrows \/ IngestBox \/ UNCHANGED metricVars
  <2>1. run' = run /\ call' = call
    BY <1>14, WorldTyped
  <2>2. InHand' = InHand
    BY <2>1 DEF InHand
  <2> QED
    BY <1>5, <2>1, <2>2
<1>15. CASE EndOfRows \/ BeginTable
  <2>1. run'.at = "finalize"
    BY <1>15, BeginTableFacts, RunTyped DEF EndOfRows, RunState
  <2> QED
    BY <2>1
<1>16. CASE FinishOutput \/ FinalizeRaises
  <2>1. run.at = "finalize" /\ UNCHANGED boxVars /\ NextFinalize
    BY <1>16 DEF FinishOutput, FinalizeRaises, FinalizeStep
  <2> QED
    BY <1>1, <2>1, NextFinalizeKeepsRun, AfterPassFacts, DownFacts
<1>17. CASE BadRowEndsPass \/ MetricEndsPass
  BY <1>17, EndPassTyped, AfterPassFacts, DownFacts
<1>18. CASE BadRowEndsRun \/ StampCopy \/ SaveRaises \/ Die
  BY <1>18, GoneTyped, DownFacts
<1>19. CASE SaveBox \/ StampBox \/ BackUpBox
  BY <1>19, SaveTyped DEF Saving
<1>20. CASE StartRun
  <2>1. binder \in Nat
    BY FamilyFacts DEF MetricTypeOK
  <2> QED
    BY <1>20, <2>1, BeforePassFacts DEF StartRun
<1> QED
  BY <1>7, <1>8, <1>9, <1>10, <1>11, <1>12, <1>13, <1>14, <1>15, <1>16, <1>17, <1>18,
     <1>19, <1>20
  DEF MetricNext, RunStep

LEMMA DecksStep ==
    ASSUME ScenarioAssumption, MetricTypeOK, RunInv, BoxInv, DecksInv,
           MetricNext \/ UNCHANGED metricVars
    PROVE  DecksInv'
<1>1. /\ Outputs' = Outputs /\ \A p : MetricsOf(p)' = MetricsOf(p)
  BY ScenarioKept, SameRows
<1>2. \A o \in Outputs : FileKeepsDecks(o)'
  BY FileDecksStep
<1>3. run'.at \in {"scan", "finalize"} =>
        \A m \in DOMAIN MetricsOf(run'.pass) : MadeKeepsDecks(m)'
  BY MadeDecksStep
<1>4. run'.at = "scan" => \A j \in 1..(run'.step - 1) : HasCome(j)'
  BY RowDecksStep
<1> QED
  BY <1>1, <1>2, <1>3, <1>4 DEF DecksInv

-----------------------------------------------------------------------------
(* An accepted metric is sound. *)

MetricsInv == MetricTypeOK /\ RunInv /\ BoxInv /\ DecksInv /\ RowsInv

LEMMA MetricsInit ==
    ASSUME ScenarioAssumption PROVE Init => MetricsInv
<1> SUFFICES ASSUME Init PROVE MetricsInv
  OBVIOUS
<1>1. MetricTypeOK /\ RunInv
  BY TypesInit DEF Init
<1>2. /\ run.at = "down" /\ call.at = "idle" /\ stored = view
      /\ \A o \in Outputs : files[o].state = "none"
  BY DownFacts DEF Init, MetricInit, BoxInit, Idle
<1>3. BoxInv
  BY <1>2 DEF BoxInv, OpenCalls
<1>4. DecksInv
  BY <1>2 DEF DecksInv, FileKeepsDecks
<1>5. RowsInv
  BY <1>2 DEF RowsInv
<1> QED
  BY <1>1, <1>3, <1>4, <1>5 DEF MetricsInv

LEMMA MetricsNext ==
    ASSUME ScenarioAssumption PROVE MetricsInv /\ [Next]_vars => MetricsInv'
<1> SUFFICES ASSUME MetricsInv, [Next]_vars PROVE MetricsInv'
  OBVIOUS
<1>1. MetricNext \/ UNCHANGED metricVars
  BY DEF Next, vars, DojoNext, OpenDojo, FindSlice, ReadVersions, ReadPartition, WriteSlice,
     CheckVersions, UseSplits, StartSplits, ShuffleSource, DeleteOldSplit, RenameSplit, StopDojo
<1> QED
  BY <1>1, TypesAndPlaces, BoxStep, DecksStep, RowsStep DEF MetricsInv

\* Whatever the families' programs, the raw data, the binder's changes and the
\* faults: a file a dojo accepts is of readable rows there were, names their
\* decks only, leaves none of the rows out that its metric did not fail on or
\* look for in vain, and the decks its metric keeps are in the box it is opened
\* with, about to be committed, or of a batch that was lost.
THEOREM AcceptedMetricsAreSound ==
    ASSUME ScenarioAssumption PROVE Spec => []AcceptedMetricIsSound
<1>1. MetricsInv => AcceptedMetricIsSound
  <2> SUFFICES ASSUME MetricsInv, NEW o \in Outputs, Accepts(o)
               PROVE  LET f == files[o]
                          kind == KindOf(o)
                          readable == ReadableRows(o[1], f.upTo, binder)
                      IN  /\ f.rows \subseteq readable
                          /\ f.decks \subseteq UNION {DecksOf(o[1], i, binder) : i \in f.rows}
                          /\ KeepsDecks(kind) =>
                               f.decks \subseteq BoxFile.rows \cup view.rows \cup lost
                          /\ f.clean /\ kind.program[1].do # "find" => f.rows = readable
    BY DEF AcceptedMetricIsSound
  <2>1. files[o].state = "whole" /\ files[o].version = binder
    BY DEF Accepts
  <2>2. FileOfRows(o) /\ FileKeepsDecks(o) /\ BoxInv
    BY <2>1 DEF MetricsInv, RowsInv, DecksInv
  <2>3. Reachable \subseteq BoxFile.rows \cup view.rows
    BY <2>2, SettledBelow DEF Reachable, BoxFile
  <2>4. /\ files[o].rows \subseteq ReadableRows(o[1], files[o].upTo, binder)
        /\ files[o].decks \subseteq UNION {DecksOf(o[1], i, binder) : i \in files[o].rows}
        /\ files[o].clean /\ LeavesNoneOut(KindOf(o)) =>
             ReadableRows(o[1], files[o].upTo, binder) \subseteq files[o].rows
    BY <2>1, <2>2 DEF FileOfRows, OfReadRows
  <2>5. KeepsDecks(KindOf(o)) => files[o].decks \subseteq BoxFile.rows \cup view.rows \cup lost
    BY <2>1, <2>2, <2>3 DEF FileKeepsDecks
  <2>6. files[o].clean /\ KindOf(o).program[1].do # "find" =>
          files[o].rows = ReadableRows(o[1], files[o].upTo, binder)
    BY <2>4 DEF LeavesNoneOut
  <2> QED
    BY <2>4, <2>5, <2>6
<1> QED
  BY <1>1, MetricsInit, MetricsNext, PTL DEF Spec

-----------------------------------------------------------------------------
(* Dojos. *)

LEMMA StampsAreOrdered ==
    ASSUME NEW s \in FileStamp, NEW t \in FileStamp, NEW u \in FileStamp,
           NotAfter(s, t), NotAfter(t, u)
    PROVE  NotAfter(s, u) /\ (s = u => s = t)
BY DEF FileStamp, NotAfter, Rank

LEMMA PartitionFacts ==
    ASSUME ScenarioAssumption, MetricTypeOK, RunInv, NEW p \in Passes
    PROVE  /\ <<p, 1>> \in Outputs
           /\ PartitionStamp(p) \in FileStamp /\ NotAfter(PartitionStamp(p), PartitionStamp(p))
<1>1. <<p, 1>> \in Outputs
  BY PassFacts DEF MetricTypeOK
<1>2. files[<<p, 1>>].state \in {"none", "torn", "whole"} /\ files[<<p, 1>>].time \in Nat
  BY <1>1, RunTyped
<1> QED
  BY <1>1, <1>2 DEF PartitionStamp, FileStamp, NotAfter, Rank

\* A stamp of the past, and what was read under it, survive what runs do.
LEMMA StampsKept ==
    ASSUME ScenarioAssumption, MetricTypeOK, RunInv, MetricTypeOK', RunInv',
           scenario' = scenario, \A o \in Outputs : Advances(o),
           NEW stamps, StampsOfThePast(stamps)
    PROVE  /\ StampsOfThePast(stamps)'
           /\ \A version, parts : ReadAsStamped(stamps, version, parts) =>
                                  ReadAsStamped(stamps, version, parts)'
<1> SUFFICES ASSUME NEW p \in DOMAIN stamps
             PROVE  /\ NotAfter(stamps[p], PartitionStamp(p)')
                    /\ stamps[p] = PartitionStamp(p)' =>
                         /\ stamps[p] = PartitionStamp(p)
                         /\ files[<<p, 1>>].state = "whole" => files'[<<p, 1>>] = files[<<p, 1>>]
  BY DEF StampsOfThePast, ReadAsStamped, Content
<1> DEFINE old == PartitionStamp(p)
           new == <<files'[<<p, 1>>].state, files'[<<p, 1>>].time>>
<1>1. p \in Passes /\ p \in Passes'
  BY DEF StampsOfThePast
<1>2. /\ stamps[p] \in FileStamp /\ NotAfter(stamps[p], old)
  BY DEF StampsOfThePast
<1>3. <<p, 1>> \in Outputs /\ old \in FileStamp
  BY <1>1, PartitionFacts
<1>4. new \in FileStamp /\ PartitionStamp(p)' = new
  <2>1. /\ files'[<<p, 1>>].state \in {"none", "torn", "whole"}
        /\ files'[<<p, 1>>].time \in Nat
    <3>1. Outputs' = Outputs
      BY DEF Outputs, MetricsOf
    <3> QED
      BY <1>3, <3>1 DEF MetricTypeOK, OutputFile
  <2> QED
    BY <2>1 DEF FileStamp, PartitionStamp
<1>5. CASE files'[<<p, 1>>] = files[<<p, 1>>]
  <2>1. new = old
    BY <1>5 DEF PartitionStamp
  <2> QED
    BY <1>2, <1>4, <1>5, <2>1
<1>6. CASE /\ NotAfter(old, new)
           /\ new # old \/ files[<<p, 1>>].state # "whole"
  BY <1>2, <1>3, <1>4, <1>6, StampsAreOrdered
<1> QED
  BY <1>3, <1>5, <1>6 DEF Advances, PartitionStamp

DojoInv == SliceInv /\ ReadingInv /\ NoDojosInv /\ SplitsInv

LEMMA DojoInvKept ==
    ASSUME ScenarioAssumption, MetricTypeOK, RunInv, FilesInv, DojoInv,
           MetricNext \/ UNCHANGED metricVars, UNCHANGED dojoVars
    PROVE  DojoInv'
<1>1. MetricTypeOK' /\ RunInv' /\ scenario' = scenario
  BY TypesAndPlaces, ScenarioKept
<1>2. /\ slice' = slice /\ splits' = splits /\ partials' = partials /\ dojo' = dojo
      /\ opened' = opened
  BY DEF dojoVars
<1>3. NoDojosInv' /\ SplitsInv'
  BY <1>1, <1>2 DEF DojoInv, NoDojosInv, SplitsInv, SplitsAreOfOneBuild, SplitsExist, Same
<1>4. CASE scenario.endless
  BY <1>1, <1>2, <1>3, <1>4 DEF DojoInv, NoDojosInv, SliceInv, ReadingInv
<1>5. CASE ~scenario.endless
  <2>1. \A o \in Outputs : Advances(o)
    BY <1>5, FilesStep
  <2>2. SliceInv'
    <3> SUFFICES ASSUME slice # None PROVE SliceInv'
      BY <1>2 DEF SliceInv
    <3>1. /\ StampsOfThePast(slice.stamps)
          /\ ReadAsStamped(slice.stamps, slice.version, slice.parts)
          /\ DOMAIN slice.parts = DOMAIN slice.stamps
      BY DEF DojoInv, SliceInv
    <3>2. \A stamps, version, parts :
            stamps = slice.stamps /\ version = slice.version /\ parts = slice.parts =>
              StampsOfThePast(stamps)' /\ ReadAsStamped(stamps, version, parts)'
      BY <1>1, <2>1, <3>1, StampsKept
    <3> QED
      BY <1>2, <3>1, <3>2 DEF SliceInv
  <2>3. ReadingInv'
    <3>1. CASE dojo.at = "versions"
      <4>1. \A stamps : stamps = dojo.stamps => StampsOfThePast(stamps)'
        BY <1>1, <2>1, <3>1, StampsKept DEF DojoInv, ReadingInv
      <4> QED
        BY <1>2, <3>1, <4>1 DEF ReadingInv
    <3>2. CASE dojo.at = "read"
      <4>1. \A stamps, version, parts :
              stamps = dojo.stamps /\ version = dojo.version /\ parts = dojo.parts =>
                StampsOfThePast(stamps)' /\ ReadAsStamped(stamps, version, parts)'
        BY <1>1, <2>1, <3>2, StampsKept DEF DojoInv, ReadingInv
      <4>2. dojo = [at |-> "read", forced |-> dojo.forced, stamps |-> dojo.stamps,
                    version |-> dojo.version, parts |-> dojo.parts]
        BY <3>2 DEF DojoInv, ReadingInv
      <4> QED
        BY <1>2, <3>2, <4>1, <4>2 DEF ReadingInv
    <3>3. CASE dojo.at \notin {"versions", "read"}
      BY <1>2, <3>3 DEF ReadingInv
    <3> QED
      BY <3>1, <3>2, <3>3
  <2> QED
    BY <1>3, <2>2, <2>3 DEF DojoInv
<1> QED
  BY <1>4, <1>5

\* Nothing of a run or its files is a dojo's to change.
LEMMA SameFiles ==
    ASSUME UNCHANGED metricVars
    PROVE  /\ scenario' = scenario /\ Partitions' = Partitions /\ Passes' = Passes
           /\ \A p : PartitionStamp(p)' = PartitionStamp(p)
           /\ \A o : Content(o)' = Content(o)
           /\ \A stamps : StampsOfThePast(stamps)' = StampsOfThePast(stamps)
           /\ \A stamps, version, parts : ReadAsStamped(stamps, version, parts)' =
                                            ReadAsStamped(stamps, version, parts)
BY DEF metricVars, Partitions, PartitionStamp, Content, StampsOfThePast, ReadAsStamped

LEMMA SliceStep ==
    ASSUME ScenarioAssumption, MetricTypeOK, RunInv, DojoInv, DojoNext
    PROVE  SliceInv' /\ NoDojosInv'
<1>1. UNCHANGED metricVars
  BY DEF DojoNext, OpenDojo, FindSlice, ReadVersions, ReadPartition, WriteSlice, CheckVersions,
     UseSplits, StartSplits, ShuffleSource, DeleteOldSplit, RenameSplit, StopDojo, Raise
<1>2. ~scenario.endless
  <2> SUFFICES ASSUME scenario.endless PROVE FALSE
    OBVIOUS
  <2>1. dojo.at = "down" /\ slice = None
    BY DEF DojoInv, NoDojosInv
  <2>2. scenario.dojos = 0 /\ scenario.endless
    BY FamilyFacts DEF MetricTypeOK
  <2>3. opened < scenario.dojos /\ opened \in Nat
    BY <2>1 DEF DojoNext, OpenDojo, FindSlice, ReadVersions, ReadPartition, WriteSlice,
       CheckVersions, UseSplits, StartSplits, ShuffleSource, DeleteOldSplit, RenameSplit,
       StopDojo, DojoInv, NoDojosInv
  <2> QED
    BY <2>2, <2>3
<1>3. NoDojosInv'
  <2>1. opened' = opened \/ opened' = opened + 1
    BY DEF DojoNext, OpenDojo, FindSlice, ReadVersions, ReadPartition, WriteSlice,
       CheckVersions, UseSplits, StartSplits, ShuffleSource, DeleteOldSplit, RenameSplit,
       StopDojo
  <2> QED
    BY <1>1, <1>2, <2>1, SameFiles DEF DojoInv, NoDojosInv
<1>4. CASE slice' = slice
  <2>0. CASE slice = None
    BY <1>3, <1>4, <2>0 DEF SliceInv
  <2>1. slice # None =>
        /\ StampsOfThePast(slice.stamps)
        /\ ReadAsStamped(slice.stamps, slice.version, slice.parts)
        /\ DOMAIN slice.parts = DOMAIN slice.stamps
    BY DEF DojoInv, SliceInv
  <2>2. CASE slice # None
    <3>1. \A stamps, version, parts :
            stamps = slice.stamps /\ version = slice.version /\ parts = slice.parts =>
              StampsOfThePast(stamps)' /\ ReadAsStamped(stamps, version, parts)'
      BY <1>1, <2>1, <2>2, SameFiles
    <3> QED
      BY <1>3, <1>4, <2>1, <2>2, <3>1 DEF SliceInv
  <2> QED
    BY <2>0, <2>2
<1>5. CASE WriteSlice
  <2>1. /\ dojo.at = "read" /\ DOMAIN dojo.parts = DOMAIN dojo.stamps
        /\ slice' = [stamps |-> dojo.stamps, version |-> dojo.version, parts |-> dojo.parts]
    BY <1>5 DEF WriteSlice, FingerprintOf
  <2>2. StampsOfThePast(dojo.stamps) /\ ReadAsStamped(dojo.stamps, dojo.version, dojo.parts)
    BY <2>1 DEF DojoInv, ReadingInv
  <2>3. /\ slice'.stamps = dojo.stamps /\ slice'.version = dojo.version
        /\ slice'.parts = dojo.parts /\ DOMAIN slice'.parts = DOMAIN slice'.stamps
    BY <2>1
  <2>4. \A stamps, version, parts :
          stamps = dojo.stamps /\ version = dojo.version /\ parts = dojo.parts =>
            StampsOfThePast(stamps)' /\ ReadAsStamped(stamps, version, parts)'
    BY <1>1, <2>2, SameFiles
  <2> QED
    BY <1>3, <2>3, <2>4 DEF SliceInv
<1> QED
  BY <1>3, <1>4, <1>5 DEF DojoNext, OpenDojo, FindSlice, ReadVersions, ReadPartition,
     CheckVersions, UseSplits, StartSplits, ShuffleSource, DeleteOldSplit, RenameSplit, StopDojo

LEMMA ReadingStep ==
    ASSUME ScenarioAssumption, MetricTypeOK, RunInv, DojoInv, DojoNext
    PROVE  ReadingInv'
<1>1. CASE FindSlice
  <2> DEFINE stamps == [p \in Partitions |-> PartitionStamp(p)]
  <2>1. UNCHANGED metricVars /\ (dojo'.at \notin {"versions", "read"} \/
          (dojo'.at = "versions" /\ dojo'.stamps = stamps))
    BY <1>1 DEF FindSlice, Raise, NoDojo
  <2>2. StampsOfThePast(stamps)
    <3>1. Partitions \subseteq Passes
      BY DEF Partitions
    <3>2. \A p \in Partitions : PartitionStamp(p) \in FileStamp
                                /\ NotAfter(PartitionStamp(p), PartitionStamp(p))
      BY <3>1, PartitionFacts
    <3> QED
      BY <3>1, <3>2 DEF StampsOfThePast
  <2> HIDE DEF stamps
  <2>3. \A s : s = stamps => StampsOfThePast(s)'
    BY <2>1, <2>2, SameFiles
  <2> QED
    BY <2>1, <2>3 DEF ReadingInv
<1>2. CASE ReadVersions
  <2> DEFINE versions == {files[<<p, 1>>].version : p \in DOMAIN dojo.stamps}
             version == CHOOSE v \in versions : TRUE
             AllWhole == \A p \in DOMAIN dojo.stamps :
                 files[<<p, 1>>].state = "whole" /\ versions = {files[<<p, 1>>].version}
  <2>1. /\ UNCHANGED metricVars /\ dojo.at = "versions"
        /\ \/ dojo'.at = "down"
           \/ /\ AllWhole
              /\ dojo' = [at |-> "read", forced |-> dojo.forced, stamps |-> dojo.stamps,
                          version |-> version, parts |-> <<>>]
    <3>1. /\ UNCHANGED metricVars /\ dojo.at = "versions"
          /\ IF AllWhole
             THEN dojo' = [at |-> "read", forced |-> dojo.forced, stamps |-> dojo.stamps,
                           version |-> version, parts |-> <<>>]
             ELSE Raise
      BY <1>2 DEF ReadVersions
    <3> HIDE DEF AllWhole, version
    <3> QED
      BY <3>1 DEF Raise, NoDojo
  <2>2. StampsOfThePast(dojo.stamps)
    BY <2>1 DEF DojoInv, ReadingInv
  <2>3. ASSUME AllWhole
        PROVE  ReadAsStamped(dojo.stamps, version, <<>>)
    <3>1. ASSUME NEW p \in DOMAIN dojo.stamps
          PROVE  files[<<p, 1>>].state = "whole" /\ version = files[<<p, 1>>].version
      <4>1. files[<<p, 1>>].state = "whole" /\ versions = {files[<<p, 1>>].version}
        BY <2>3, <3>1
      <4> HIDE DEF versions
      <4> QED
        BY <4>1
    <3> HIDE DEF version
    <3> QED
      BY <3>1 DEF ReadAsStamped
  <2> HIDE DEF versions, version, AllWhole
  <2>4. CASE AllWhole /\ dojo' = [at |-> "read", forced |-> dojo.forced, stamps |-> dojo.stamps,
                                  version |-> version, parts |-> <<>>]
    <3>1. \A s, v, parts : s = dojo.stamps /\ v = version /\ parts = <<>> =>
            StampsOfThePast(s)' /\ ReadAsStamped(s, v, parts)'
      BY <2>1, <2>2, <2>3, <2>4, SameFiles
    <3>2. /\ dojo'.at = "read" /\ dojo'.stamps = dojo.stamps /\ dojo'.version = version
          /\ dojo'.parts = <<>> /\ dojo'.forced = dojo.forced
      BY <2>4
    <3>3. dojo' = [at |-> "read", forced |-> dojo'.forced, stamps |-> dojo'.stamps,
                   version |-> dojo'.version, parts |-> dojo'.parts]
      BY <2>4, <3>2
    <3> QED
      BY <3>1, <3>2, <3>3 DEF ReadingInv
  <2> QED
    BY <2>1, <2>4 DEF ReadingInv
<1>3. CASE ReadPartition
  <2> DEFINE left == DOMAIN dojo.stamps \ DOMAIN dojo.parts
             p == CHOOSE q \in left : \A other \in left : q <= other
             parts == [q \in DOMAIN dojo.parts \cup {p} |->
                         IF q = p THEN Content(<<p, 1>>) ELSE dojo.parts[q]]
  <2>1. /\ UNCHANGED metricVars /\ dojo.at = "read"
        /\ \/ dojo'.at = "down"
           \/ /\ files[<<p, 1>>].state = "whole"
              /\ dojo' = [dojo EXCEPT !.parts = parts]
    BY <1>3 DEF ReadPartition, Raise, NoDojo
  <2>2. /\ StampsOfThePast(dojo.stamps)
        /\ ReadAsStamped(dojo.stamps, dojo.version, dojo.parts)
        /\ dojo = [at |-> "read", forced |-> dojo.forced, stamps |-> dojo.stamps,
                   version |-> dojo.version, parts |-> dojo.parts]
    BY <2>1 DEF DojoInv, ReadingInv
  <2> HIDE DEF p
  <2>3. \A q \in DOMAIN parts :
          parts[q] = IF q = p THEN Content(<<p, 1>>) ELSE dojo.parts[q]
    OBVIOUS
  <2>4. DOMAIN parts = {p} \cup DOMAIN dojo.parts
    OBVIOUS
  <2> HIDE DEF parts
  <2>5. ReadAsStamped(dojo.stamps, dojo.version, parts)
    BY <2>2, <2>3, <2>4 DEF ReadAsStamped
  <2>6. CASE dojo' = [dojo EXCEPT !.parts = parts]
    <3>1. /\ dojo'.at = "read" /\ dojo'.stamps = dojo.stamps /\ dojo'.version = dojo.version
          /\ dojo'.parts = parts
          /\ dojo' = [at |-> "read", forced |-> dojo.forced, stamps |-> dojo.stamps,
                      version |-> dojo.version, parts |-> parts]
      <4>1. dojo' = [at |-> "read", forced |-> dojo.forced, stamps |-> dojo.stamps,
                      version |-> dojo.version, parts |-> parts]
        BY <2>2, <2>6
      <4> QED
        BY <4>1
    <3>2. dojo' = [at |-> "read", forced |-> dojo'.forced, stamps |-> dojo'.stamps,
                   version |-> dojo'.version, parts |-> dojo'.parts]
      BY <3>1
    <3>3. \A s, v, ps : s = dojo.stamps /\ v = dojo.version /\ ps = parts =>
            StampsOfThePast(s)' /\ ReadAsStamped(s, v, ps)'
      BY <2>1, <2>2, <2>5, SameFiles
    <3> QED
      BY <3>1, <3>2, <3>3 DEF ReadingInv
  <2> QED
    BY <2>1, <2>6 DEF ReadingInv
<1>4. CASE dojo'.at \notin {"versions", "read"}
  BY <1>4 DEF ReadingInv
<1>5. CASE OpenDojo
  BY <1>4, <1>5 DEF OpenDojo
<1>6. CASE WriteSlice \/ CheckVersions \/ UseSplits \/ StartSplits \/ ShuffleSource \/ StopDojo
  BY <1>4, <1>6 DEF WriteSlice, CheckVersions, UseSplits, StartSplits, ShuffleSource, StopDojo,
     Raise, NoDojo
<1>7. CASE DeleteOldSplit
  BY <1>4, <1>7 DEF DeleteOldSplit
<1>8. CASE RenameSplit
  <2>1. dojo = [at |-> "rename", next |-> dojo.next] /\ dojo.at = "rename"
    BY <1>8 DEF RenameSplit, DojoInv, SplitsInv
  <2>2. dojo' = [dojo EXCEPT !.next = dojo.next + 1] \/ dojo' = [at |-> "open"]
    BY <1>8 DEF RenameSplit
  <2>3. ASSUME dojo' = [dojo EXCEPT !.next = dojo.next + 1]
        PROVE  dojo'.at = "rename"
    <3>1. dojo' = [at |-> "rename", next |-> dojo.next + 1]
      BY <2>1, <2>3
    <3> QED
      BY <3>1
  <2>4. dojo'.at \in {"rename", "open"}
    BY <2>2, <2>3
  <2> QED
    BY <1>4, <2>4
<1> QED
  BY <1>1, <1>2, <1>3, <1>5, <1>6, <1>7, <1>8 DEF DojoNext

LEMMA SplitsStep ==
    ASSUME DojoInv, DojoNext
    PROVE  SplitsInv'
<1>1. /\ SplitsInv
      /\ Split = 1..3
  BY DEF DojoInv, Split
<1>2. ASSUME splits' = splits, partials' = partials, dojo.at \notin {"delete", "rename"},
             dojo'.at \notin {"delete", "rename"}
      PROVE  SplitsInv'
  BY <1>1, <1>2 DEF SplitsInv, SplitsAreOfOneBuild, SplitsExist
<1>3. CASE OpenDojo \/ FindSlice \/ ReadVersions \/ WriteSlice \/ CheckVersions \/ UseSplits
  <2>1. /\ dojo.at \in {"down", "slice", "versions", "read", "source", "splits"}
        /\ UNCHANGED <<splits, partials>>
    BY <1>3 DEF OpenDojo, FindSlice, ReadVersions, WriteSlice, CheckVersions, UseSplits
  <2>2. CASE OpenDojo
    BY <1>2, <2>1, <2>2 DEF OpenDojo
  <2>3. CASE FindSlice
    <3>1. dojo'.at \in {"source", "versions", "down"}
      BY <2>3 DEF FindSlice, Raise, NoDojo
    <3> QED
      BY <1>2, <2>1, <3>1
  <2>4. CASE ReadVersions
    <3>1. dojo'.at \in {"read", "down"}
      BY <2>4 DEF ReadVersions, Raise, NoDojo
    <3> QED
      BY <1>2, <2>1, <3>1
  <2>5. CASE WriteSlice \/ CheckVersions \/ UseSplits
    <3>1. dojo'.at \in {"source", "splits", "open", "down"}
      BY <2>5 DEF WriteSlice, CheckVersions, UseSplits, Raise, NoDojo
    <3> QED
      BY <1>2, <2>1, <3>1
  <2> QED
    BY <1>3, <2>2, <2>3, <2>4, <2>5
<1>4. CASE ReadPartition
  <2>1. dojo.at = "read" /\ UNCHANGED <<splits, partials>>
    BY <1>4 DEF ReadPartition
  <2>2. dojo = [at |-> "read", forced |-> dojo.forced, stamps |-> dojo.stamps,
                version |-> dojo.version, parts |-> dojo.parts]
    BY <2>1 DEF DojoInv, ReadingInv
  <2>3. \A parts : [dojo EXCEPT !.parts = parts] =
                     [at |-> "read", forced |-> dojo.forced, stamps |-> dojo.stamps,
                      version |-> dojo.version, parts |-> parts]
    BY <2>2
  <2>4. (\E parts : dojo' = [dojo EXCEPT !.parts = parts]) \/ dojo' = NoDojo
    BY <1>4 DEF ReadPartition, Raise
  <2>5. dojo'.at \in {"read", "down"}
    <3>1. CASE dojo' = NoDojo
      BY <3>1 DEF NoDojo
    <3>2. ASSUME NEW parts, dojo' = [dojo EXCEPT !.parts = parts]
          PROVE  dojo'.at = "read"
      <4>1. dojo' = [at |-> "read", forced |-> dojo.forced, stamps |-> dojo.stamps,
                     version |-> dojo.version, parts |-> parts]
        BY <2>3, <3>2
      <4> QED
        BY <4>1
    <3> QED
      BY <2>4, <3>1, <3>2
  <2> QED
    BY <1>2, <2>1, <2>5
<1>5. CASE StartSplits
  BY <1>1, <1>5 DEF StartSplits, Raise, NoDojo, SplitsInv, SplitsAreOfOneBuild, SplitsExist
<1>6. CASE ShuffleSource
  <2>1. /\ dojo.at = "shuffle" /\ splits' = splits /\ DOMAIN partials' = Split
        /\ \/ dojo'.at = "down"
           \/ /\ dojo'.at = "delete"
              /\ \A s \in Split : /\ partials'[s] = partials'[1]
                                  /\ partials'[s].whole
    <3>1. CASE Source.whole
      <4> DEFINE part == [build |-> opened, whole |-> TRUE, parts |-> Source.parts]
      <4>1. /\ dojo.at = "shuffle" /\ splits' = splits
            /\ partials' = [s \in Split |-> part] /\ dojo' = [at |-> "delete"]
        BY <1>6, <3>1 DEF ShuffleSource
      <4>2. part.whole
        OBVIOUS
      <4> HIDE DEF part
      <4> QED
        BY <1>1, <4>1, <4>2
    <3>2. CASE ~Source.whole
      BY <1>1, <1>6, <3>2 DEF ShuffleSource, Raise, NoDojo
    <3> QED
      BY <3>1, <3>2
  <2> QED
    BY <1>1, <2>1 DEF SplitsInv, SplitsAreOfOneBuild, SplitsExist, Same
<1>7. CASE DeleteOldSplit
  <2>1. /\ dojo.at = "delete" /\ partials' = partials /\ partials[1].whole /\ Same(partials)
        /\ DOMAIN splits = Split /\ DOMAIN partials = Split
    BY <1>1, <1>7 DEF DeleteOldSplit, SplitsInv
  <2>2. ASSUME NEW s \in Split, splits' = [splits EXCEPT ![s] = None], dojo' = dojo
        PROVE  SplitsInv'
    <3>1. splits'[s] = None /\ DOMAIN splits' = Split
      BY <2>1, <2>2
    <3> QED
      BY <2>1, <2>2, <3>1 DEF SplitsInv, SplitsAreOfOneBuild, SplitsExist, Same
  <2>3. ASSUME \A s \in Split : splits[s] = None, dojo' = [at |-> "rename", next |-> 1],
               splits' = splits
        PROVE  SplitsInv'
    <3>1. \A s \in Split : s >= 1 /\ partials[s] = partials[1]
      BY <1>1, <2>1 DEF Same
    <3> QED
      BY <1>1, <2>1, <2>3, <3>1 DEF SplitsInv
  <2> QED
    BY <1>7, <2>2, <2>3 DEF DeleteOldSplit
<1>8. CASE RenameSplit
  <2>1. /\ dojo = [at |-> "rename", next |-> dojo.next] /\ dojo.next \in Split
        /\ DOMAIN splits = Split /\ DOMAIN partials = Split
    BY <1>8 DEF RenameSplit, DojoInv, SplitsInv
  <2>2. PICK build :
          /\ build.whole
          /\ \A s \in Split : IF s < dojo.next THEN splits[s] = build
                              ELSE splits[s] = None /\ partials[s] = build
    BY <1>8 DEF RenameSplit, DojoInv, SplitsInv
  <2>3. /\ splits' = [splits EXCEPT ![dojo.next] = build]
        /\ partials' = [partials EXCEPT ![dojo.next] = None]
    <3>1. partials[dojo.next] = build
      BY <1>1, <2>1, <2>2
    <3> QED
      BY <1>8, <3>1 DEF RenameSplit
  <2>4. CASE dojo.next < 3
    <3>1. dojo' = [at |-> "rename", next |-> dojo.next + 1]
      BY <1>8, <2>1, <2>4 DEF RenameSplit
    <3>2. dojo'.at = "rename" /\ dojo'.next = dojo.next + 1 /\ dojo'.next \in Split
      BY <1>1, <2>1, <2>4, <3>1
    <3>3. \A s \in Split : IF s < dojo.next + 1 THEN splits'[s] = build
                           ELSE splits'[s] = None /\ partials'[s] = build
      BY <1>1, <2>1, <2>2, <2>3
    <3> QED
      BY <2>1, <2>2, <2>3, <3>1, <3>2, <3>3 DEF SplitsInv
  <2>5. CASE ~(dojo.next < 3)
    <3>1. dojo' = [at |-> "open"]
      BY <1>8, <2>5 DEF RenameSplit
    <3>2. \A s \in Split : splits'[s] = build
      BY <1>1, <2>1, <2>2, <2>3, <2>5
    <3>3. 1 \in Split
      BY <1>1
    <3> QED
      BY <2>1, <2>2, <2>3, <3>1, <3>2, <3>3 DEF SplitsInv, SplitsAreOfOneBuild
  <2> QED
    BY <2>4, <2>5
<1>9. CASE StopDojo
  <2>1. dojo'.at = "down" /\ UNCHANGED <<splits, partials>>
    BY <1>9 DEF StopDojo, Raise, NoDojo
  <2>2. SplitsAreOfOneBuild
    BY <1>1 DEF SplitsInv, SplitsAreOfOneBuild, SplitsExist
  <2> QED
    BY <1>1, <2>1, <2>2 DEF SplitsInv, SplitsAreOfOneBuild, SplitsExist
<1> QED
  BY <1>3, <1>4, <1>5, <1>6, <1>7, <1>8, <1>9 DEF DojoNext

\* Everything about a run's place, its files and its dojos.
FilesAndDojosInv == MetricTypeOK /\ RunInv /\ FilesInv /\ DojoInv

LEMMA FilesAndDojosInit ==
    ASSUME ScenarioAssumption PROVE Init => FilesAndDojosInv
<1> SUFFICES ASSUME Init PROVE FilesAndDojosInv
  OBVIOUS
<1>1. MetricTypeOK /\ RunInv
  BY TypesInit DEF Init
<1>2. FilesInv
  BY DownFacts DEF Init, MetricInit, FilesInv
<1>3. DojoInv
  BY DEF Init, NoDojo, DojoInv, SliceInv, ReadingInv, NoDojosInv, SplitsInv,
     SplitsAreOfOneBuild, SplitsExist, Split
<1> QED
  BY <1>1, <1>2, <1>3 DEF FilesAndDojosInv

LEMMA FilesAndDojosNext ==
    ASSUME ScenarioAssumption PROVE FilesAndDojosInv /\ [Next]_vars => FilesAndDojosInv'
<1> SUFFICES ASSUME FilesAndDojosInv, [Next]_vars PROVE FilesAndDojosInv'
  OBVIOUS
<1>1. MetricTypeOK /\ RunInv /\ FilesInv /\ DojoInv
  BY DEF FilesAndDojosInv
<1>2. CASE (MetricNext \/ UNCHANGED metricVars) /\ UNCHANGED dojoVars
  BY <1>1, <1>2, TypesAndPlaces, FilesStep, DojoInvKept DEF FilesAndDojosInv
<1>3. CASE DojoNext
  <2>1. UNCHANGED metricVars
    BY <1>3 DEF DojoNext, OpenDojo, FindSlice, ReadVersions, ReadPartition, WriteSlice,
       CheckVersions, UseSplits, StartSplits, ShuffleSource, DeleteOldSplit, RenameSplit,
       StopDojo
  <2> QED
    BY <1>1, <1>3, <2>1, TypesAndPlaces, FilesStep, SliceStep, ReadingStep, SplitsStep
    DEF FilesAndDojosInv, DojoInv
<1> QED
  BY <1>2, <1>3 DEF Next, vars

\* A slice that would be used as it is was read from what its partitions still
\* hold: a stamp that is true again would be of an earlier state of the file.
LEMMA SliceIsCurrent ==
    ASSUME SliceInv PROVE CurrentSliceIsItsPartitions
<1> SUFFICES ASSUME slice # None, slice.stamps = [p \in Partitions |-> PartitionStamp(p)],
                    NEW p \in Partitions
             PROVE  /\ slice.parts[p] = Content(<<p, 1>>)
                    /\ slice.version = files[<<p, 1>>].version
  BY DEF CurrentSliceIsItsPartitions
<1>1. p \in DOMAIN slice.stamps /\ slice.stamps[p] = PartitionStamp(p)
  OBVIOUS
<1>2. /\ ReadAsStamped(slice.stamps, slice.version, slice.parts)
      /\ DOMAIN slice.parts = DOMAIN slice.stamps
  BY DEF SliceInv
<1> QED
  BY <1>1, <1>2 DEF ReadAsStamped

\* Whatever runs rewrite while dojos are opened, and wherever either is killed:
\* three split files that exist are one whole build, and a slice whose
\* fingerprint is true holds what its partitions hold.
THEOREM DerivedFilesOfOneReading ==
    ASSUME ScenarioAssumption PROVE Spec => []DerivedFilesAreOfOneReading
<1>1. FilesAndDojosInv => DerivedFilesAreOfOneReading
  <2> SUFFICES ASSUME FilesAndDojosInv PROVE DerivedFilesAreOfOneReading
    OBVIOUS
  <2>1. SplitsAreOfOneBuild
    <3>1. SplitsInv
      BY DEF FilesAndDojosInv, DojoInv
    <3>2. CASE dojo.at = "rename"
      <4>1. dojo.next \in Split /\ splits[dojo.next] = None
        BY <3>1, <3>2 DEF SplitsInv, Split
      <4> QED
        BY <4>1 DEF SplitsAreOfOneBuild, SplitsExist
    <3> QED
      BY <3>1, <3>2 DEF SplitsInv
  <2>2. CurrentSliceIsItsPartitions
    BY SliceIsCurrent DEF FilesAndDojosInv, DojoInv
  <2> QED
    BY <2>1, <2>2 DEF DerivedFilesAreOfOneReading
<1> QED
  BY <1>1, FilesAndDojosInit, FilesAndDojosNext, PTL DEF Spec
=============================================================================
