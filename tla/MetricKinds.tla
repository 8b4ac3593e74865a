----------------------------- MODULE MetricKinds -----------------------------
(***************************************************************************)
(* The metrics of data_refinement/metrics/ and the families                *)
(* scripts/run_metrics.py runs them in, as far as they differ in what they *)
(* do to their output file and to the deck box, and when.                  *)
(*                                                                         *)
(* A row of raw data stands for a run, a game, a guide or a chunk; it has  *)
(* two decks (a player's and the other's, the kingdom and a player's, two  *)
(* turns of one player).  A metric does with each row what its program     *)
(* says: it puts decks into the deck box (create_if_absent), looks decks   *)
(* up there, and writes output rows that name decks.                       *)
(***************************************************************************)
LOCAL INSTANCE SequencesExt
LOCAL INSTANCE Integers

Put(i) == [do |-> "put", deck |-> i]
Find(i) == [do |-> "find", deck |-> i]   \* the row is left out without it
Row(decks) == [do |-> "row", decks |-> decks]
Tally == Row({})

\* An output open from the constructor on, one row after the other; it
\* truncates the file of the run before.
Stream(program) == [output |-> "stream", program |-> program, boxed |-> FALSE]

\* An output written by finalize(), in place, from what was tallied.
Table(program) == [output |-> "table", program |-> program, boxed |-> FALSE]

\* requires_deck_box in the file's version metadata
Boxed(kind) == [kind EXCEPT !.boxed = TRUE]

-----------------------------------------------------------------------------
(* Metrics that keep their decks in a box of the metrics' own.             *)

PutAndName == Boxed(Stream(<<Put(1), Row({1})>>))
PutAndNameEach == Boxed(Stream(<<Put(1), Row({1}), Put(2), Row({2})>>))
PutAndNameTwice == Boxed(Stream(<<Put(1), Row({1}), Row({1})>>))
PutBothAndName == Boxed(Stream(<<Put(1), Put(2), Row({1, 2})>>))

StsGgDeckLabelMetric == PutAndName
FullDeckWinPredictionMetric == PutAndNameEach
KingdomGameLengthMetric == PutAndName
KingdomVetoPredictionMetric == PutAndName
KingdomMemberLabelMetric == PutAndNameTwice
DeckCardSetCopyCountMetric == PutAndNameTwice
WinningDeckMaskedCardMetric == PutAndName
DeckPairWinnerMetric == PutBothAndName
MultiplayerPlacementMetric == PutBothAndName

KingdomOpeningBuyPredictionMetric == PutAndName
KingdomEndingPilePredictionMetric == PutAndNameTwice
KingdomEndingTypeMetric == PutAndName
OpeningBuyOutcomeMetric == PutBothAndName

NextBuyPredictionMetric == PutBothAndName
NextTrashedCardMetric == PutAndNameEach
NextTurnActionCountMetric == PutAndNameEach
EventualWinProbabilityMetric == PutBothAndName
MidGameDeckPairWinnerMetric == PutBothAndName

\* The decks of a chunk, then all its rows at once.
CombatAggressionProfileMetric == PutBothAndName

-----------------------------------------------------------------------------
(* Metrics that look their decks up in the published box.                  *)

LeaderMaskedFromDeckMetric == Boxed(Stream(<<Find(1), Row({1})>>))
HeroMaskedFromDeckMetric == Boxed(Stream(<<Find(1), Row({1})>>))
GuideVotesMetric == Boxed(Stream(<<Find(1), Row({1})>>))
HeldOutDeckCardMetric == Boxed(Stream(<<Find(1), Row({1})>>))

\* Rates per card; the file names no deck.
FactionInclusionMetric == Table(<<Find(1), Tally>>)
HeroInclusionMetric == Table(<<Find(1), Tally>>)

(* Metrics that name decks of the published box by their ids, unseen.      *)
Sts2DeckLabelMetric == Boxed(Stream(<<Row({1}), Row({2})>>))
GameDeckLabelMetric == Boxed(Stream(<<Row({1, 2})>>))
DeckOccurrenceCountMetric == Boxed(Table(<<Row({1, 2})>>))
OnPlayWinRateSensitivityByDeckMetric == Boxed(Table(<<Row({1, 2})>>))

-----------------------------------------------------------------------------
(* Metrics that name no deck.                                              *)

CopiesBoughtDistributionMetric == Stream(<<Tally>>)
PickChoiceMetric == Stream(<<Tally>>)
DraftChoiceStreamMetric == Stream(<<Tally>>)
AttackerBlockerCombatOutcomeMetric == Stream(<<Tally>>)

StsGgCardAverageMetric == Table(<<Tally>>)
StsGgCardUpgradeRateMetric == Table(<<Tally>>)
StsGgCardWinRateAtAct2Metric == Table(<<Tally>>)
StsGgCardCharacterPredictionMetric == Table(<<Tally>>)
Sts2CardAverageMetric == Table(<<Tally>>)
AverageCopiesBoughtMetric == Table(<<Tally>>)
TurnCountAssociationMetric == Table(<<Tally>>)
VetoRateMetric == Table(<<Tally>>)
OpeningBuyRateMetric == Table(<<Tally>>)
PileExhaustionRateMetric == Table(<<Tally>>)
CardCountTableMetric == Table(<<Tally>>)
PackCardTallyMetric == Table(<<Tally>>)
CodeCountTableMetric == Table(<<Tally>>)
MaskedFieldMetric == Table(<<Tally>>)
MaskedFieldRegressionMetric == Table(<<Tally>>)
MaskedFieldMultiLabelMetric == Table(<<Tally>>)
DominionSetMaskMetric == Table(<<Tally>>)
RarityTierMetric == Table(<<Tally>>)

-----------------------------------------------------------------------------
(* Scans.  What a row that cannot be read ends; what a metric that raises  *)
(* on a row ends; whether a pass that is cut short closes its outputs.     *)

Scan(bad, raised, closes) == [bad |-> bad, raised |-> raised, closes |-> closes]

StsGgScan == Scan("run", "row", FALSE)
IsotropicSummaryScan == Scan("run", "row", FALSE)
IsotropicGamesScan == Scan("row", "row", FALSE)
Sts2RunsScan == Scan("row", "row", FALSE)
GuidesScan == Scan("row", "row", FALSE)
DecklistsScan == Scan("row", "row", FALSE)
ChunkScan == Scan("pass", "row", FALSE)
CorpusScan == Scan("pass", "pass", FALSE)
HeldOutScan == Scan("pass", "pass", TRUE)

-----------------------------------------------------------------------------
(* Families.  A pass scans one input for some metrics.  The deck box is of *)
(* the metrics' own, in memory until it is saved or a file throughout, or  *)
(* the published one, or none.  Outputs are opened before the first pass   *)
(* or with each pass.  Metrics that do the same are listed but kept once.  *)

OneOfEach(metrics) == SetToSeq(metrics)

Family(scan, passes, box) ==
    [scan |-> scan, passes |-> passes, box |-> box,
     opens |-> "run", sliced |-> FALSE, needsStamp |-> FALSE]

StsGg ==
    Family(StsGgScan,
           <<OneOfEach({StsGgDeckLabelMetric, StsGgCardAverageMetric,
                        StsGgCardUpgradeRateMetric, StsGgCardWinRateAtAct2Metric,
                        StsGgCardCharacterPredictionMetric})>>, "memory")

Sts2Runs ==
    Family(Sts2RunsScan,
           <<OneOfEach({Sts2DeckLabelMetric, Sts2CardAverageMetric, PickChoiceMetric})>>,
           "published")

IsotropicSummary ==
    Family(IsotropicSummaryScan,
           <<OneOfEach({VetoRateMetric, CopiesBoughtDistributionMetric,
                        AverageCopiesBoughtMetric, TurnCountAssociationMetric,
                        FullDeckWinPredictionMetric, KingdomVetoPredictionMetric,
                        KingdomGameLengthMetric, KingdomMemberLabelMetric,
                        WinningDeckMaskedCardMetric, DeckCardSetCopyCountMetric,
                        DeckPairWinnerMetric, MultiplayerPlacementMetric})>>, "file")

\* The headers' metrics and the whole logs', over the same archives.
IsotropicGames ==
    Family(IsotropicGamesScan,
           <<OneOfEach({OpeningBuyRateMetric, PileExhaustionRateMetric,
                        KingdomOpeningBuyPredictionMetric, OpeningBuyOutcomeMetric,
                        KingdomEndingPilePredictionMetric, KingdomEndingTypeMetric}),
             OneOfEach({NextBuyPredictionMetric, NextTrashedCardMetric,
                        NextTurnActionCountMetric, EventualWinProbabilityMetric,
                        MidGameDeckPairWinnerMetric})>>, "file")

PlayGwent == Family(GuidesScan, <<<<LeaderMaskedFromDeckMetric>>>>, "published")

PlayGwentGuides ==
    Family(GuidesScan, <<OneOfEach({FactionInclusionMetric, GuideVotesMetric})>>,
           "published")

FabtcgDecklists ==
    Family(DecklistsScan, <<OneOfEach({HeroMaskedFromDeckMetric, HeroInclusionMetric})>>,
           "published")

\* A 17lands family: each CSV is a pass with outputs of its own, its
\* partitions of the metrics, which training reads in slices.
SeventeenLands(metrics, box) ==
    [Family(ChunkScan, <<metrics, metrics>>, box) EXCEPT
        !.opens = "pass", !.sliced = TRUE]

DraftData ==
    SeventeenLands(OneOfEach({PackCardTallyMetric, DraftChoiceStreamMetric}), "none")

GameData ==
    SeventeenLands(OneOfEach({CardCountTableMetric, GameDeckLabelMetric,
                              OnPlayWinRateSensitivityByDeckMetric,
                              DeckOccurrenceCountMetric}), "published")

ReplayData ==
    SeventeenLands(OneOfEach({CodeCountTableMetric, CombatAggressionProfileMetric,
                              AttackerBlockerCombatOutcomeMetric}), "file")

\* Each metric scans the corpus by itself.
Corpus(metrics) ==
    Family(CorpusScan, [i \in DOMAIN metrics |-> <<metrics[i]>>], "none")

GwentOne == Corpus(<<MaskedFieldMetric, MaskedFieldMetric>>)
Dominiontabs ==
    Corpus(<<MaskedFieldRegressionMetric, MaskedFieldMetric, DominionSetMaskMetric>>)
Scryfall == Corpus(<<MaskedFieldRegressionMetric, MaskedFieldMultiLabelMetric>>)
PokemonTcg == Corpus(<<MaskedFieldRegressionMetric, MaskedFieldMultiLabelMetric>>)
CardvaultFabtcg == Corpus(<<MaskedFieldMetric, MaskedFieldRegressionMetric>>)
SpireCodex == Corpus(<<MaskedFieldMetric, MaskedFieldMetric>>)
Hearthstonejson == Corpus(<<MaskedFieldRegressionMetric, MaskedFieldMetric>>)
CrossGame == Corpus(<<RarityTierMetric>>)

\* One metric over the published box, which must be of the binder loaded.
FinalDecks ==
    [Family(HeldOutScan, <<<<HeldOutDeckCardMetric>>>>, "published") EXCEPT
        !.needsStamp = TRUE]

-----------------------------------------------------------------------------
(* What they have in common.                                               *)

MetricStep == [do : {"put", "find"}, deck : 1..2] \cup [do : {"row"}, decks : SUBSET (1..2)]
MetricKind == [output : {"stream", "table"}, program : Seq(MetricStep), boxed : BOOLEAN]

\* The metric put its decks into the box, or found them there.
KeepsDecks(kind) ==
    kind.boxed /\ \E i \in DOMAIN kind.program : kind.program[i].do \in {"put", "find"}

\* A step that names a row's deck has it from the box by then.
HasDeck(program, step, deck) ==
    \E j \in 1..(step - 1) : program[j].do # "row" /\ program[j].deck = deck

\* A program ends with a row; it finds decks from its first step on, or none;
\* and one that keeps decks names those it has put or found.
KindAssumption(kind) ==
    LET program == kind.program
    IN  /\ kind \in MetricKind
        /\ Len(program) > 0 /\ program[Len(program)].do = "row"
        /\ program[1].do # "find" => \A i \in DOMAIN program : program[i].do # "find"
        /\ KeepsDecks(kind) =>
             \A i \in DOMAIN program : program[i].do = "row" =>
               \A deck \in program[i].decks : HasDeck(program, i, deck)

\* Only a box of the metrics' own is put into; what a box in memory is saved to
\* is named by outputs that every run opens anew.
FamilyAssumption(family) ==
    /\ family.passes \in Seq(Seq(MetricKind)) /\ Len(family.passes) > 0
    /\ \A p \in DOMAIN family.passes :
         /\ Len(family.passes[p]) > 0
         /\ \A m \in DOMAIN family.passes[p] :
              LET kind == family.passes[p][m]
              IN  /\ KindAssumption(kind)
                  /\ (\E i \in DOMAIN kind.program : kind.program[i].do = "put") =>
                       family.box \in {"memory", "file"}
                  /\ family.box = "memory" /\ KeepsDecks(kind) =>
                       family.opens = "run" /\ kind.output = "stream"
=============================================================================
