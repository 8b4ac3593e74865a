------------------------------ MODULE MCTrainer ------------------------------
(* A training run and what it keeps on disk, one part in each behaviour.     *)
(* The trainer has two dojos: some runs are about steps and their failures,  *)
(* the others about evaluations, where an easy dojo scores less than a hard  *)
(* one may.  Its checkpoints are those of three phases of two rounds, with *)
(* names of their own.  The arms of an experiment that share a directory of  *)
(* modded binders are three, of two specs.  The diets are of four dojos, with *)
(* tables in tables, a row of no weight and a dojo with no examples; and two  *)
(* runs are given one run directory.                                          *)
EXTENDS Trainer, DirectoryCheckpointer, BinderBakes, TrainingRuns, TLC

CONSTANTS
    warmup, joint, anneal,
    a, b, c, d, NoDojo,
    x, y,
    Parts       \* the parts this run is about

MCNames == <<warmup, joint, anneal>>

MCTrained == {a, b}
MCLossOfOne == [dojo \in MCTrained |-> IF dojo = a THEN {0} ELSE {}]
MCFewLosses == [dojo \in MCTrained |-> IF dojo = a THEN 0..2 ELSE 0..1]

MCFaults ==
    [phases |-> 2, maxRounds |-> 4, stepsPerRound |-> 3, fullScale |-> 1,
     outcomes |-> {"ran", "noBaseline", "raised", "notFinite", "feedDead"},
     broken |-> {b}, mayFail |-> {"sampler", "evaluation"}, losses |-> MCLossOfOne]

MCEvaluations ==
    [phases |-> 1, maxRounds |-> 5, stepsPerRound |-> 1, fullScale |-> 0,
     outcomes |-> {"ran"}, broken |-> {}, mayFail |-> {"save", "evaluation"},
     losses |-> MCFewLosses]

MCSettings == {MCFaults, MCEvaluations}

Flat(alpha) == [kind |-> "flat", alpha |-> alpha]
DojoRow(weight, dojo) == [kind |-> "dojo", weight |-> weight, dojo |-> dojo]
GroupRow(weight, dojos, alpha) ==
    [kind |-> "dojos", weight |-> weight, dojos |-> dojos, alpha |-> alpha]
SubTable(weight, rows) == [kind |-> "table", weight |-> weight, rows |-> rows]
Table(rows) == [kind |-> "table", rows |-> rows]

MCRules ==
    {Flat(0), Flat(1), Flat(2),
     Table(<<DojoRow(2, a), GroupRow(1, <<b, c, d>>, 1)>>),
     Table(<<DojoRow(0, a), SubTable(1, <<DojoRow(1, b), DojoRow(0, c)>>), DojoRow(3, d)>>),
     Table(<<SubTable(1, <<GroupRow(2, <<a, b>>, 2), DojoRow(1, c)>>), DojoRow(1, d)>>),
     Table(<<SubTable(2, <<SubTable(1, <<DojoRow(1, a), DojoRow(2, b)>>), DojoRow(1, c)>>),
             GroupRow(1, <<d>>, 0)>>)}
MCExamples ==
    {(a :> 1) @@ (b :> 2) @@ (c :> 1) @@ (d :> 1), (a :> 2) @@ (b :> 1) @@ (c :> 1) @@ (d :> 0)}

\* Every share in these diets is a whole number of parts.
MCDiets ==
    {[rule |-> rule, dojos |-> <<a, b, c, d>>, counts |-> examples] :
       rule \in MCRules, examples \in MCExamples}
MCWhole == 1512000

MCArms == {"first", "second", "third"}
MCSpecOf == [first |-> "A", second |-> "A", third |-> "B"]

VARIABLES
    part,
    diet, able, counted, dietTable, drawn

dietVars == <<diet, able, counted, dietTable, drawn>>

Diet == INSTANCE Diets WITH
    DietsToTry <- MCDiets, Whole <- MCWhole, table <- dietTable

MCRuns == {x, y}

ASSUME TrainerAssumption ==
    FaultPolicyAssumption /\ SaturationAssumption /\ SettingsAssumption
ASSUME BinderAssumption == BakeAssumption
ASSUME DietsAssumption == Diet!DietAssumption
ASSUME RecordAssumption == RunAssumption

\* Only a behaviour's own part starts in more than one way.
OneDiet == diet = CHOOSE one \in MCDiets : one.rule = Flat(0)
NoCheck == ~main[x].checkOnly /\ ~main[y].checkOnly
MCInit ==
    /\ part \in Parts
    /\ TrainerInit /\ Init /\ BakesInit /\ Diet!DietInit /\ RunsInit
    /\ part # "trainer" => setting = MCEvaluations
    /\ part # "diets" => OneDiet
    /\ part # "recording" => NoCheck

TrainerPart ==
    part = "trainer" /\ TrainerNext /\ UNCHANGED <<part, vars, bakeVars, dietVars, runsVars>>
CheckpointsPart ==
    part = "checkpoints" /\ Next /\ UNCHANGED <<part, trainerVars, bakeVars, dietVars, runsVars>>
BakesPart ==
    part = "bakes" /\ BakesNext /\ UNCHANGED <<part, vars, trainerVars, dietVars, runsVars>>
DietsPart ==
    part = "diets" /\ Diet!DietNext /\ UNCHANGED <<part, vars, trainerVars, bakeVars, runsVars>>
RecordPart ==
    /\ part = "recording" /\ RunsNext
    /\ UNCHANGED <<part, vars, trainerVars, bakeVars, dietVars>>

MCNext == TrainerPart \/ CheckpointsPart \/ BakesPart \/ DietsPart \/ RecordPart

MCSpec == MCInit /\ [][MCNext]_<<part, vars, trainerVars, bakeVars, dietVars, runsVars>>

\* The two runs are alike.
MCSymmetry == Permutations({x, y})

\* Draws, and the shares a diet promises, are what its rules say of the dojos
\* that are active and have examples (Diets).
DrawsFollowTheDiet == Diet!DrawsFollowTheDiet
=============================================================================
