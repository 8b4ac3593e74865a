--------------------------- MODULE MetricFamilies ---------------------------
(***************************************************************************)
(* scripts/run_metrics.py, run again and again on one metric family: a     *)
(* process scans the raw data, pass by pass, and hands each row to every   *)
(* metric of the pass; the metrics store decks in the deck box through its *)
(* batched calls and write their outputs, which are closed or written when *)
(* the pass is over; the box is saved after the last pass.  A metric that  *)
(* raises, in a row or at the end, is logged and left out of that step     *)
(* (call_isolated), whatever it raised.  A file and the box carry the      *)
(* binder version they were made with; a dojo that opens the file compares *)
(* both with the current one.                                              *)
(*                                                                         *)
(* A deck is known by its cards.  The published box is ingested by another *)
(* process in one step here (DeckIngestion has its steps).                 *)
(***************************************************************************)
EXTENDS DeckBox, MetricKinds, Sequences

CONSTANTS
    Scenarios, \* what a behaviour may be about, see ScenarioAssumption
    Malformed  \* a row that cannot be read

VARIABLES
    scenario,  \* the family, its raw data, and the bounds
    files,     \* the outputs, by pass and place in the pass
    run,       \* the process
    binder,    \* the card binder's version
    copy,      \* the file a box in memory is saved to
    arrived,   \* the rows the raw data has, in every pass
    started,   \* processes started, as bounded by scenario.runs
    lost,      \* history: decks that were in a box and rolled back
    incidents  \* history: faults, as bounded by scenario.incidents

metricVars ==
    <<boxVars, scenario, files, run, binder, copy, arrived, started, lost, incidents>>

Faults == {"statement", "commit", "lost", "metric", "finalize", "save", "kill"}

TheFamily == scenario.family
Passes == DOMAIN TheFamily.passes
MetricsOf(p) == TheFamily.passes[p]
Outputs == UNION {{p} \X DOMAIN MetricsOf(p) : p \in Passes}
KindOf(output) == MetricsOf(output[1])[output[2]]

\* The two decks row i of a pass has under a binder, or Malformed.
RowOf(p, i, version) == scenario.raw[p][i][version]
DecksOf(p, i, version) == {RowOf(p, i, version)[n] : n \in 1..2}
ReadableRows(p, upTo, version) == {i \in 1..upTo : RowOf(p, i, version) # Malformed}

ASSUME ScenarioAssumption ==
    /\ DeckIds = CardLists
    /\ \A s \in Scenarios :
         /\ FamilyAssumption(s.family)
         /\ DOMAIN s.raw = DOMAIN s.family.passes
         /\ s.first \in Nat /\ Len(s.raw[1]) \in Nat /\ s.first <= Len(s.raw[1])
         /\ \A p \in DOMAIN s.raw :
              /\ DOMAIN s.raw[p] = 1..Len(s.raw[1])
              /\ \A i \in DOMAIN s.raw[p] : \A v \in 0..s.versions :
                   s.raw[p][i][v] \in (CardLists \X CardLists) \cup {Malformed}
         /\ s.versions \in Nat /\ 0..s.versions \subseteq Stamps
         /\ s.faults \subseteq Faults /\ s.incidents \in Nat /\ s.runs \in Nat
         /\ s.endless \in BOOLEAN /\ s.dojos \in Nat
         /\ s.endless => s.dojos = 0

-----------------------------------------------------------------------------
(* Files *)

File(state, made, upTo, version) ==
    [state |-> state, version |-> version, rows |-> made.rows, decks |-> made.decks,
     clean |-> made.clean, upTo |-> upTo, time |-> started]

Nothing == [rows |-> {}, decks |-> {}, clean |-> TRUE]

\* A file without its footer does not open.
Torn == [File("torn", Nothing, 0, 0) EXCEPT !.time = started']

Down == [at |-> "down", pass |-> 0, row |-> 0, metric |-> 0, step |-> 0,
         binder |-> 0, upTo |-> 0, made |-> <<>>]

\* A run about to open a pass's input.
BeforePass(p, version) == [Down EXCEPT !.at = "open", !.pass = p, !.binder = version]

MetricInit ==
    /\ BoxInit
    /\ scenario \in Scenarios
    /\ files = [o \in Outputs |->
                  [state |-> "none", version |-> 0, rows |-> {}, decks |-> {},
                   clean |-> TRUE, upTo |-> 0, time |-> 0]]
    /\ run = Down
    /\ binder = 0
    /\ copy = EmptyBox
    /\ arrived = scenario.first
    /\ started = 0 /\ lost = {} /\ incidents = 0

\* The streams of some passes are opened: ParquetBuilder truncates them.
StreamsOpened(passes) ==
    [o \in Outputs |->
       IF o[1] \in passes /\ KindOf(o).output = "stream" THEN Torn ELSE files[o]]

\* Mutant of StampVersion: the version of the binder there is at the time.
LiveVersion == binder

\* The binder version a file's metadata names: the loaded binder's.
StampVersion == run.binder

Written(m) == File("whole", run.made[m], run.upTo, StampVersion)

-----------------------------------------------------------------------------
(* A run *)

\* The box a dojo of this family opens.
BoxFile == IF TheFamily.box = "memory" THEN copy ELSE stored

\* The process is gone: with a box in memory, or a file's open batch.
BoxGone ==
    /\ IF TheFamily.box = "memory"
       THEN /\ stored' = EmptyBox /\ view' = EmptyBox /\ savepoint' = EmptyBox
            /\ call' = Idle /\ pending' = 0
       ELSE Discard
    /\ lost' = lost \cup (view.rows \ BoxFile.rows)

\* The binder and the box are loaded and, but for 17lands, every metric made.
\* The held-out metric raises on a box of another binder.
StartRun ==
    /\ run.at = "down"
    /\ scenario.endless \/ started < scenario.runs
    /\ TheFamily.needsStamp => stored.stamp = binder
    /\ started' = IF scenario.endless THEN 0 ELSE started + 1
    /\ run' = BeforePass(1, binder)
    /\ files' = IF TheFamily.opens = "run" THEN StreamsOpened(Passes) ELSE files
    /\ UNCHANGED <<boxVars, scenario, binder, copy, arrived, lost, incidents>>

\* The input of a pass is opened.
OpenPass ==
    /\ run.at = "open"
    /\ run' = [run EXCEPT !.at = "scan", !.row = 1, !.metric = 1, !.step = 1,
                          !.upTo = arrived,
                          !.made = [m \in DOMAIN MetricsOf(run.pass) |-> Nothing]]
    /\ started' = started
    /\ files' = IF TheFamily.opens = "pass" THEN StreamsOpened({run.pass}) ELSE files
    /\ UNCHANGED <<boxVars, scenario, binder, copy, arrived, lost, incidents>>

\* Mutant of OwnsBox: a box to which nothing is to be committed is not saved.
OwnsPending == TheFamily.box \in {"memory", "file"} /\ pending > 0

\* The box is the metrics' own.
OwnsBox == TheFamily.box \in {"memory", "file"}

\* After the last pass the box is saved.
AfterPass ==
    IF run.pass < Len(TheFamily.passes)
    THEN BeforePass(run.pass + 1, run.binder)
    ELSE IF OwnsBox THEN [run EXCEPT !.at = "save"]
    ELSE Down

Program == MetricsOf(run.pass)[run.metric].program

\* The next metric gets the row, or the first one the next row.
AfterMetric(r) ==
    IF r.metric < Len(MetricsOf(r.pass)) THEN [r EXCEPT !.metric = @ + 1, !.step = 1]
    ELSE [r EXCEPT !.row = @ + 1, !.metric = 1, !.step = 1]

AfterStep(r) ==
    IF r.step < Len(Program) THEN [r EXCEPT !.step = @ + 1] ELSE AfterMetric(r)

\* call_isolated: logged, and the row is over for this metric.
Isolated == AfterMetric([run EXCEPT !.made[run.metric].clean = FALSE])

Scanning == run.at = "scan" /\ call.at = "idle" /\ run.row <= run.upTo
Readable == RowOf(run.pass, run.row, run.binder) # Malformed
DoesNext(action) == Scanning /\ Readable /\ Program[run.step].do = action
DeckOfStep == RowOf(run.pass, run.row, run.binder)[Program[run.step].deck]

unmoved == <<scenario, files, binder, copy, arrived, started, lost, incidents>>

\* create_if_absent, of a deck that is not there.
PutDeck ==
    /\ DoesNext("put")
    /\ BeginCall("create_if_absent", DeckOfStep, DeckOfStep)
    /\ run' = AfterStep(run)
    /\ UNCHANGED unmoved

\* The rest of the call.
CallStep ==
    /\ run.at = "scan"
    /\ WriteRow \/ WriteCards \/ Release \/ Flush
    /\ UNCHANGED <<run, unmoved>>

\* create_if_absent of a deck that is there, or get_by_uuid.
SeeDeck ==
    /\ DoesNext("put") \/ DoesNext("find")
    /\ DeckOfStep \in view.rows
    /\ run' = AfterStep(run)
    /\ UNCHANGED <<boxVars, unmoved>>

\* get_by_uuid returns None: the row is left out.
MissDeck ==
    /\ DoesNext("find")
    /\ DeckOfStep \notin view.rows
    /\ run' = AfterMetric(run)
    /\ UNCHANGED <<boxVars, unmoved>>

\* A row is written or tallied, naming decks.
WriteOutputRow ==
    LET named == {RowOf(run.pass, run.row, run.binder)[i] :
                    i \in Program[run.step].decks}
    IN  /\ DoesNext("row")
        /\ run' = AfterStep([run EXCEPT !.made[run.metric].rows = @ \cup {run.row},
                                        !.made[run.metric].decks = @ \cup named])
        /\ UNCHANGED <<boxVars, unmoved>>

\* A row that is logged and left out.
SkipRow ==
    /\ Scanning /\ ~Readable /\ TheFamily.scan.bad = "row"
    /\ run' = [run EXCEPT !.row = @ + 1]
    /\ UNCHANGED <<boxVars, unmoved>>

\* An exception passes through a scan.  HeldOutDeckCardMetric closes its
\* output; the other writers are closed when they are collected, or never, and
\* without the rows ParquetBuilder may have been buffering.
CutShort ==
    \E closed, buffered \in BOOLEAN :
        /\ TheFamily.scan.closes => closed /\ ~buffered
        /\ files' =
             [o \in Outputs |->
                IF closed /\ o[1] = run.pass /\ KindOf(o).output = "stream"
                THEN LET made == IF buffered THEN Nothing ELSE run.made[o[2]]
                     IN  File("whole", [made EXCEPT !.clean = FALSE], run.upTo,
                              StampVersion)
                ELSE files[o]]

\* A row, or a metric that is not isolated, ends the pass.
EndPassEarly ==
    /\ CutShort
    /\ run' = AfterPass
    /\ UNCHANGED <<boxVars, scenario, binder, copy, arrived, started, lost>>

BadRowEndsPass ==
    /\ Scanning /\ ~Readable /\ TheFamily.scan.bad = "pass"
    /\ EndPassEarly
    /\ UNCHANGED incidents

\* A row that cannot be read ends the run; nothing is saved.
BadRowEndsRun ==
    /\ Scanning /\ ~Readable /\ TheFamily.scan.bad = "run"
    /\ CutShort
    /\ BoxGone
    /\ run' = Down
    /\ UNCHANGED <<scenario, binder, copy, arrived, started, incidents>>

-----------------------------------------------------------------------------
(* The end of a pass and of a run *)

EndOfRows ==
    /\ run.at = "scan" /\ call.at = "idle" /\ run.row > run.upTo
    /\ run' = [run EXCEPT !.at = "finalize", !.metric = 1, !.step = 1]
    /\ UNCHANGED <<boxVars, unmoved>>

NextFinalize ==
    run' = IF run.metric < Len(MetricsOf(run.pass))
           THEN [run EXCEPT !.metric = @ + 1, !.step = 1] ELSE AfterPass

FinalizeStep(kind, step) ==
    run.at = "finalize" /\ MetricsOf(run.pass)[run.metric].output = kind /\ run.step = step

\* ParquetBuilder.close, or a table's last write.
FinishOutput ==
    /\ FinalizeStep("stream", 1) \/ FinalizeStep("table", 2)
    /\ files' = [files EXCEPT ![<<run.pass, run.metric>>] = Written(run.metric)]
    /\ NextFinalize
    /\ UNCHANGED <<boxVars, scenario, binder, copy, arrived, started, lost, incidents>>

\* A table is written over the one of the run before.
BeginTable ==
    /\ FinalizeStep("table", 1)
    /\ started' = started
    /\ files' = [files EXCEPT ![<<run.pass, run.metric>>] = Torn]
    /\ run' = [run EXCEPT !.step = 2]
    /\ UNCHANGED <<boxVars, scenario, binder, copy, arrived, lost, incidents>>

\* save(): what is pending is committed; then the stamp, or a backup first.
SaveBox ==
    /\ run.at = "save"
    /\ IF TheFamily.box = "memory"
       THEN /\ stored' = view /\ pending' = 0
            /\ UNCHANGED <<view, savepoint, call>>
       ELSE Save(run.binder)
    /\ run' = [run EXCEPT !.at = IF TheFamily.box = "memory" THEN "backup" ELSE "stamp"]
    /\ UNCHANGED unmoved

StampBox ==
    /\ run.at = "stamp"
    /\ WriteStamp
    /\ run' = Down
    /\ UNCHANGED unmoved

\* _backup_to replaces the file's whole content,
BackUpBox ==
    /\ run.at = "backup"
    /\ copy' = stored
    /\ run' = [run EXCEPT !.at = "stampCopy"]
    /\ UNCHANGED <<boxVars, scenario, files, binder, arrived, started, lost, incidents>>

\* and stamp_metadata_at stamps it over a connection of its own.
StampCopy ==
    /\ run.at = "stampCopy"
    /\ copy' = [copy EXCEPT !.stamp = run.binder]
    /\ BoxGone
    /\ run' = Down
    /\ UNCHANGED <<scenario, files, binder, arrived, started, incidents>>

RunStep ==
    \/ OpenPass \/ PutDeck \/ CallStep \/ SeeDeck \/ MissDeck \/ WriteOutputRow
    \/ SkipRow \/ BadRowEndsPass \/ BadRowEndsRun
    \/ EndOfRows \/ BeginTable \/ FinishOutput
    \/ SaveBox \/ StampBox \/ BackUpBox \/ StampCopy

-----------------------------------------------------------------------------
(* Faults *)

Incident(fault) ==
    /\ fault \in scenario.faults /\ incidents < scenario.incidents
    /\ incidents' = incidents + 1

\* A statement of create_if_absent, or the commit of its batch, raises.
CallRaises ==
    /\ run.at = "scan" /\ TheFamily.box = "file"
    /\ \/ Incident("statement") /\ StatementFails
       \/ Incident("commit") /\ CommitFails
    /\ run' = Isolated
    /\ UNCHANGED <<scenario, files, binder, copy, arrived, started, lost>>

\* SQLite discards the transaction: create_if_absent raises DeckBatchLostError.
BatchLost ==
    /\ run.at = "scan" /\ TheFamily.box = "file" /\ call.at # "idle"
    /\ Incident("lost")
    /\ Discard
    /\ lost' = lost \cup (view.rows \ stored.rows)
    /\ run' = Isolated
    /\ UNCHANGED <<scenario, files, binder, copy, arrived, started>>

\* accumulate() raises, in a scan that isolates it
MetricRaises ==
    /\ Scanning /\ Readable /\ TheFamily.scan.raised = "row"
    /\ Incident("metric")
    /\ run' = Isolated
    /\ UNCHANGED <<boxVars, scenario, files, binder, copy, arrived, started, lost>>

\* or in one that does not.
MetricEndsPass ==
    /\ Scanning /\ Readable /\ TheFamily.scan.raised = "pass"
    /\ Incident("metric")
    /\ EndPassEarly

\* finalize() raises: the file stays as it is.
FinalizeRaises ==
    /\ run.at = "finalize"
    /\ Incident("finalize")
    /\ NextFinalize
    /\ UNCHANGED <<boxVars, scenario, files, binder, copy, arrived, started, lost>>

\* save() raises, before any of its steps, and the process ends; or a kill.
SaveRaises ==
    /\ run.at \in {"save", "stamp", "backup", "stampCopy"}
    /\ Incident("save")
    /\ BoxGone
    /\ run' = Down
    /\ UNCHANGED <<scenario, files, binder, copy, arrived, started>>

Die ==
    /\ run.at # "down"
    /\ Incident("kill")
    /\ BoxGone
    /\ run' = Down
    /\ UNCHANGED <<scenario, files, binder, copy, arrived, started>>

-----------------------------------------------------------------------------
(* The world *)

BinderChanges ==
    /\ binder < scenario.versions
    /\ binder' = binder + 1
    /\ UNCHANGED <<boxVars, scenario, files, run, copy, arrived, started, lost, incidents>>

RawGrows ==
    /\ arrived < Len(scenario.raw[1])
    /\ arrived' = arrived + 1
    /\ UNCHANGED <<boxVars, scenario, files, run, binder, copy, started, lost, incidents>>

\* run_deck_box_ingestion, over the rows there are.
IngestBox ==
    LET foundIn(p) == UNION {DecksOf(p, i, binder) : i \in ReadableRows(p, arrived, binder)}
        found == UNION {foundIn(p) : p \in Passes}
        after == [rows |-> stored.rows \cup found,
                  cards |-> [d \in DeckIds |-> IF d \in stored.rows \cup found
                                               THEN d ELSE None],
                  stamp |-> binder]
    IN  /\ TheFamily.box = "published" /\ after # stored
        /\ stored' = after /\ view' = after
        /\ UNCHANGED <<savepoint, call, pending, run, unmoved>>

MetricNext ==
    \/ StartRun \/ RunStep
    \/ CallRaises \/ BatchLost \/ MetricRaises \/ MetricEndsPass
    \/ FinalizeRaises \/ SaveRaises \/ Die
    \/ BinderChanges \/ RawGrows \/ IngestBox

-----------------------------------------------------------------------------
(* Properties *)

\* GenericDojo._check_metric_version.
Accepts(o) ==
    /\ files[o].state = "whole"
    /\ files[o].version = binder
    /\ KindOf(o).boxed => BoxFile.stamp = binder

\* What a dojo may build on: every deck an accepted file names is, under the
\* current binder, a deck of the rows the file was made of, and, if the metric
\* stores or finds its decks, is in the box, about to be committed, or of a
\* batch that was rolled back; and a file no exception passed by has every row
\* there was.
AcceptedMetricIsSound ==
    \A o \in Outputs :
        LET f == files[o]
            kind == KindOf(o)
            readable == ReadableRows(o[1], f.upTo, binder)
        IN  Accepts(o) =>
              /\ f.rows \subseteq readable
              /\ f.decks \subseteq UNION {DecksOf(o[1], i, binder) : i \in f.rows}
              /\ KeepsDecks(kind) => f.decks \subseteq BoxFile.rows \cup view.rows \cup lost
              /\ f.clean /\ kind.program[1].do # "find" => f.rows = readable

\* "A caller that catches per-row sqlite3.Error and carries on can't swallow it
\* and later save() a box missing those decks": between runs, the box has every
\* deck an accepted file names.
AcceptedMetricHasItsDecks ==
    run.at = "down" =>
        \A o \in Outputs :
            Accepts(o) /\ KeepsDecks(KindOf(o)) => files[o].decks \subseteq BoxFile.rows

\* Run again and again, a family has infinitely often every output accepted and
\* made of all the rows there are, whatever was interrupted and whenever the
\* binder changed.
MetricsConverge ==
    scenario.endless =>
        []<>(\A o \in Outputs :
               Accepts(o) /\ files[o].rows = ReadableRows(o[1], arrived, binder))
=============================================================================
