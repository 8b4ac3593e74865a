---------------------------- MODULE DojoCatalog ----------------------------
(* The dojos a training run may name, file by file, and the augmentations it *)
(* may give them (src/training/dojo_catalog.py, dojo_recipes and the dojo    *)
(* modules of every game).  A dojo here is what its class makes of it, so    *)
(* dojos that differ only in their table, their game or their loss are one.  *)
EXTENDS DojoKinds

CONSTANTS
    BaseSupply, \* the cards of every Dominion supply (BASE_SUPPLY_NAMES)
    Games       \* games that have a rarity translator

---------------------------------------------------------------------------
(* A field of the card is the answer.                                        *)

Tell == <<"tell">>

ScryfallDojos == {MaskedFieldRegressionMetricDojo(Tell), MaskedFieldMetricDojo(Tell),
                  MaskedFieldMetricDojo(<<>>), MaskedFieldMultiLabelMetricDojo(Tell),
                  MaskedFieldRegressionMetricDojo(<<>>)}
HearthstoneDojos == {MaskedFieldRegressionMetricDojo(<<>>), MaskedFieldMetricDojo(Tell),
                     MaskedFieldMetricDojo(<<>>), MaskedFieldMultiLabelMetricDojo(<<>>)}
PokemonDojos == {MaskedFieldRegressionMetricDojo(<<>>), MaskedFieldMultiLabelMetricDojo(Tell),
                 MaskedFieldMetricDojo(Tell), MaskedFieldMetricDojo(<<>>)}
SpireCodexDojos == {MaskedFieldMetricDojo(Tell), MaskedFieldMetricDojo(<<>>)}
GwentOneDojos == {MaskedFieldMetricDojo(Tell), MaskedFieldMetricDojo(<<>>)}
CardvaultDojos == {MaskedFieldMetricDojo(Tell), MaskedFieldMetricDojo(<<>>),
                   MaskedFieldRegressionMetricDojo(<<>>)}

\* The sets of a Dominion card are not in its content: nothing is masked.
DominionCostDojo == MaskedFieldRegressionMetricDojo(<<>>)
DominionFieldDojos == {MaskedFieldMetricDojo(<<>>), Dojo("field")}

\* masked_paths: the rarity field alone.
MaskedPaths == <<"answer">>
MaskingPipelines ==
    [g \in Games |-> [i \in DOMAIN MaskedPaths |-> MaskTarget(MaskedPaths[i], FALSE)]]
RarityTierDojo == [Dojo("rarity") EXCEPT !.own = <<PerGame(MaskingPipelines, FALSE)>>,
                                         !.hides = ToSet(MaskedPaths)]

---------------------------------------------------------------------------
(* What was measured over many decks, games or picks is the answer.          *)

PlayGwentCardDojos == {CardAverageMetricDojo, Dojo("fieldValue")}
FabtcgCardDojos == {CardAverageMetricDojo, Dojo("fieldValue")}
IsotropicCardDojos == {CardAverageMetricDojo}
CopiesBoughtDistributionDojo == Dojo("fieldValue")
StsCardDojos == {CardAverageMetricDojo}
CardCharacterPredictionDojo == Dojo("fieldValue")
SeventeenLandsCardDojos == {SeventeenLandsCardLabelDojo}
PickNumberDecayCurveDojo == Dojo("fieldValue")

---------------------------------------------------------------------------
(* Decks and groups of cards.                                                *)

LeaderMaskedFromDeckDojo == Thinned(DeckCardMaskMetricDojo, {1})
GuideVotesDojo == Thinned(DeckLabelMetricDojo, {1})
HeroMaskedFromDeckDojo == Thinned(DeckCardMaskMetricDojo, {1})
HeldOutCardDojos == {HeldOutDeckCardMetricDojo}

WinningDeckMaskedCardDojo == DeckCardMaskMetricDojo
IsotropicDeckDojos ==
    {IsotropicDeckRegressionDojo, Thinned(DeckBinaryLabelMetricDojo, {1}),
     Exact(Dojo("deckLabel"), {1})}
IsotropicGroupDojos ==
    {Thinned(IsotropicGroupBinaryDojo(TRUE), {1, 2}),
     Exact(Thinned(IsotropicGroupBinaryDojo(FALSE), {1}), {2}),
     Exact(IsotropicGroupBinaryDojo(FALSE), {1, 2}), IsotropicGroupRegressionDojo}

KingdomOpeningBuyDojo == IsotropicOptionPickDojo(BaseSupply)
KingdomVetoDojo == IsotropicOptionPickDojo(<<>>)
NextBuyDojo == Thinned(IsotropicContextPickDojo(BaseSupply), {2})
NextTrashedCardDojo == IsotropicContextPickDojo(<<>>)

\* A deck's length, copies and totals of its run track its size.
StsDeckDojos ==
    {Exact(DeckLabelMetricDojo, {1}), Thinned(DeckLabelMetricDojo, {1}),
     Thinned(DeckBinaryLabelMetricDojo, {1}), Thinned(DeckFixedLabelMetricDojo, {1})}
Sts2PickDojos == {Thinned(Sts2RunPickDojo(canSkip), {2}) : canSkip \in BOOLEAN}

PackToPickChoiceSetDojo == [Dojo("packPick") EXCEPT !.exact = {1}]
PoolConditionedPickDojo == [Thinned(Dojo("poolPick"), {2}) EXCEPT !.exact = {1}]
SeventeenLandsDeckDojos ==
    {Thinned(SeventeenLandsDeckRegressionDojo, {1}),
     Thinned(SeventeenLandsDeckBinaryLabelDojo, {1}),
     Thinned(SeventeenLandsDeckFixedLabelDojo, {1})}
AttackerBlockerCombatOutcomeDojo == [Dojo("combat") EXCEPT !.exact = {1, 2}]

---------------------------------------------------------------------------
(* The catalog, section by section.                                          *)

CardContentDojos ==
    GwentOneDojos \cup {DominionCostDojo} \cup DominionFieldDojos \cup ScryfallDojos
      \cup PokemonDojos \cup CardvaultDojos \cup SpireCodexDojos \cup HearthstoneDojos
IsotropicDojos ==
    IsotropicCardDojos \cup IsotropicDeckDojos \cup IsotropicGroupDojos
      \cup {CopiesBoughtDistributionDojo, WinningDeckMaskedCardDojo,
            KingdomOpeningBuyDojo, KingdomVetoDojo, NextBuyDojo, NextTrashedCardDojo}
\* sts_gg lists winning runs only: who won there is no question.
StsGgDojos ==
    StsCardDojos \cup {CardCharacterPredictionDojo, Exact(DeckLabelMetricDojo, {1}),
        Thinned(DeckLabelMetricDojo, {1}), Thinned(DeckFixedLabelMetricDojo, {1})}
Sts2RunsDojos == StsCardDojos \cup StsDeckDojos \cup Sts2PickDojos
DecklistDojos ==
    HeldOutCardDojos \cup PlayGwentCardDojos \cup FabtcgCardDojos
      \cup {LeaderMaskedFromDeckDojo, GuideVotesDojo, HeroMaskedFromDeckDojo}
SeventeenLandsDojos ==
    SeventeenLandsCardDojos \cup SeventeenLandsDeckDojos
      \cup {PickNumberDecayCurveDojo, PackToPickChoiceSetDojo, PoolConditionedPickDojo,
            AttackerBlockerCombatOutcomeDojo}

DOJO_CATALOG ==
    CardContentDojos \cup IsotropicDojos \cup StsGgDojos \cup Sts2RunsDojos \cup DecklistDojos
      \cup SeventeenLandsDojos \cup {RarityTierDojo}

---------------------------------------------------------------------------
(* What a run adds to a dojo.                                                *)

\* The table of masks of a game, mask-nothing among them, then one key at
\* random; a run's rates replace the probability and the variants of each.
DefaultAugmentations(variants) ==
    <<WeightedFieldMask({{}, {"other"}, {"tell", "other"}}, variants, TRUE),
      RandomKeyMask(variants, FALSE)>>

\* A bug the checks look for: the groups a spec names are not looked at.
AllowedByKind(dojo, mods) ==
    \A i \in DOMAIN mods : mods[i].does \in DeckMods => dojo.thins # {}

RequireAllowedSpecs(dojo, mods) ==
    \A i \in DOMAIN mods :
        mods[i].does \in DeckMods => dojo.thins # {} /\ mods[i].groups \subseteq dojo.thins

\* A run's mods come after the task's own; those of a dojo of many games are
\* its card's game's.
BuildMods(dojo, mods) ==
    dojo.own \o (IF dojo.kind # "rarity" \/ mods = <<>> THEN mods
                 ELSE <<PerGame([g \in Games |-> mods], TRUE)>>)

=============================================================================
