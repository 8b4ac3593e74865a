----------------------------- MODULE DojoKinds -----------------------------
(* How a dojo turns a row of its metric's table into examples, and which     *)
(* dojos there are (src/dojos).  A row names cards (`first', and `second'    *)
(* where there are two lists of them), what was taken of them (`picks') and  *)
(* a label, None where the metric left it empty.  Decks are given by their   *)
(* cards: the deck boxes that keep them are DeckIngestion's.                 *)
(*                                                                           *)
(* Fields are "answer", the one a task asks for, "tell", those the dojo      *)
(* lists as giving it away, and "other".  Positions and labels that index    *)
(* them count from 1.                                                        *)
EXTENDS CardMods

CONSTANTS
    TierOf,     \* a card's holdout tier: "TRAIN", "TEST" or "VALIDATION"
    None,
    OffLadder   \* the rarity off the ladder

---------------------------------------------------------------------------
(* The cards a split may see.                                                *)

VisibleTiers(split) ==
    CASE split = "TRAIN" -> {"TRAIN"}
      [] split = "TEST" -> {"TRAIN", "TEST"}
      [] split = "VALIDATION" -> {"TRAIN", "TEST", "VALIDATION"}

Visible(card, split) == TierOf[card] \in VisibleTiers(split)

\* cards_for_uuids: the visible ones, in order, copies included.
CardsFor(cards, split) == SelectSeq(cards, LAMBDA c : Visible(c, split))

DeckCardsExcluding(cards, target, split) ==
    SelectSeq(cards, LAMBDA c : c # target /\ Visible(c, split))

Distinct(cards) ==
    FoldLeft(LAMBDA kept, c : IF c \in ToSet(kept) THEN kept ELSE Append(kept, c),
             <<>>, cards)

\* The first place of a card, or None.
PickPosition(cards, card) ==
    IF card \in ToSet(cards) THEN SelectInSeq(cards, LAMBDA c : c = card) ELSE None

AllShown(cards) == [i \in DOMAIN cards |-> Shown(cards[i])]

Example(shape, groups, label, row) ==
    [shape |-> shape, groups |-> [i \in DOMAIN groups |-> AllShown(groups[i])],
     label |-> label, of |-> [row |-> row, groups |-> groups, label |-> label]]

---------------------------------------------------------------------------
(* The data constructors: the examples of one row, in order.                 *)

When(condition, example) == IF condition THEN <<example>> ELSE <<>>

MaskedFieldExamples(row, split) ==
    When(Visible(row.first[1], split), Example("card", <<row.first>>, row.label, row))

MaskedFieldRegressionExamples(row, split) ==
    When(Visible(row.first[1], split) /\ row.label # None,
         Example("card", <<row.first>>, row.label, row))

DeckLabelExamples(row, split) ==
    LET deck == CardsFor(row.first, split)
    IN When(row.label # None /\ deck # <<>>, Example("deck", <<deck>>, row.label, row))

DeckCardMaskExamples(row, split) ==
    LET deck == DeckCardsExcluding(row.first, row.picks[1], split)
    IN When(deck # <<>>, Example("deck", <<deck>>, row.label, row))

HeldOutDeckCardExamples(row, split) ==
    LET options == CardsFor(row.first, split)
        context == DeckCardsExcluding(row.second, row.picks[1], split)
        target == PickPosition(options, row.picks[1])
    IN When(target # None /\ Len(options) >= 2 /\ context # <<>>,
            Example("groups", <<options, context>>, target, row))

CombatOutcomeExamples(row, split) ==
    LET attackers == CardsFor(row.first, split)
    IN When(attackers # <<>>,
            Example("groups", <<attackers, CardsFor(row.second, split)>>, row.label, row))

\* An option that cannot be shown loses the whole choice.
OptionCardsAndPick(row, split) ==
    IF CardsFor(row.first, split) # row.first \/ row.picks = <<>> THEN None
    ELSE PickPosition(row.first, row.picks[1])

PackToPickExamples(row, split) ==
    LET pick == OptionCardsAndPick(row, split)
    IN When(pick # None, Example("deck", <<row.first>>, pick, row))

PoolConditionedPickExamples(row, split) ==
    LET pick == OptionCardsAndPick(row, split)
    IN When(pick # None,
            Example("groups", <<row.first, CardsFor(row.second, split)>>, pick, row))

\* No pick is the pick of the option after the last one.
OptionPickExamples(row, split) ==
    LET offered == CardsFor(row.first, split)
        label == IF row.picks = <<>> THEN Len(offered) + 1
                 ELSE PickPosition(offered, row.picks[1])
    IN When(offered = row.first /\ label # None,
            Example("groups", <<offered, CardsFor(row.second, split)>>, label, row))

\* The distinct cards of a group and those always supplied; an example of each
\* pick that is among the options.
GroupPickExamples(dojo, row, split) ==
    LET options == CardsFor(Distinct(row.first \o dojo.always), split)
        groups == IF dojo.context THEN <<options, CardsFor(row.second, split)>>
                  ELSE <<options>>
        shape == IF dojo.context THEN "groups" ELSE "deck"
        picked == SelectSeq(row.picks, LAMBDA c : c \in ToSet(options))
    IN IF Len(options) < 2 THEN <<>>
       ELSE [i \in DOMAIN picked |->
               Example(shape, groups, PickPosition(options, picked[i]), row)]

GroupLabelExamples(row, split) ==
    LET groups == <<CardsFor(row.first, split), CardsFor(row.second, split)>>
    IN When(row.label # None /\ groups[1] # <<>> /\ groups[2] # <<>>,
            Example("groups", groups, row.label, row))

\* A rarity outside the ladder is no example.
TrainableRow(row) == row.label # OffLadder
RarityTierExamples(row, split) ==
    IF TrainableRow(row) THEN MaskedFieldExamples(row, split) ELSE <<>>

---------------------------------------------------------------------------
(* The families of dojos.  `own' is the task's own mods, `thins' the groups  *)
(* that a run's deck mods may thin, `exact' those whose label is about       *)
(* exactly the cards they hold, `skips' whether the head scores taking       *)
(* nothing.                                                                  *)

Dojo(kind) ==
    [kind |-> kind, own |-> <<>>, hides |-> {}, thins |-> {}, exact |-> {},
     skips |-> FALSE, always |-> <<>>, context |-> FALSE]

\* A bug the checks look for: the extra fields are masked in training only.
FieldMaskingPipelineOfTraining(extra) ==
    <<MaskTarget("answer", FALSE)>> \o
        [i \in DOMAIN extra |-> MaskTarget(extra[i], TRUE)]

FieldMaskingPipeline(extra) ==
    <<MaskTarget("answer", FALSE)>> \o
        [i \in DOMAIN extra |-> MaskTarget(extra[i], FALSE)]

Masking(kind, extra) ==
    [Dojo(kind) EXCEPT !.own = FieldMaskingPipeline(extra),
                       !.hides = {"answer"} \cup ToSet(extra)]

MaskedFieldMetricDojo(extra) == Masking("field", extra)
MaskedFieldRegressionMetricDojo(extra) == Masking("fieldValue", extra)
MaskedFieldMultiLabelMetricDojo(extra) == Masking("field", extra)
CardAverageMetricDojo == Dojo("fieldValue")
DeckLabelMetricDojo == Dojo("deckLabel")
DeckBinaryLabelMetricDojo == Dojo("deckLabel")
DeckFixedLabelMetricDojo == Dojo("deckLabel")
DeckCardMaskMetricDojo == Dojo("deckMask")
HeldOutDeckCardMetricDojo == [Dojo("heldOut") EXCEPT !.exact = {1, 2}]

SeventeenLandsCardLabelDojo == Dojo("fieldValue")
SeventeenLandsDeckRegressionDojo == Dojo("deckLabel")
SeventeenLandsDeckBinaryLabelDojo == Dojo("deckLabel")
SeventeenLandsDeckFixedLabelDojo == Dojo("deckLabel")

IsotropicDeckRegressionDojo == [Dojo("deckLabel") EXCEPT !.exact = {1}]
IsotropicGroupBinaryDojo(symmetric) ==
    [Dojo("groupLabel") EXCEPT !.own = IF symmetric THEN <<GroupSwap>> ELSE <<>>]
IsotropicGroupRegressionDojo == [Dojo("groupLabel") EXCEPT !.exact = {1, 2}]
IsotropicOptionPickDojo(always) ==
    [Dojo("groupPick") EXCEPT !.always = always, !.exact = {1}]
IsotropicContextPickDojo(always) ==
    [Dojo("groupPick") EXCEPT !.always = always, !.context = TRUE,
                               !.exact = {1}]
Sts2RunPickDojo(canSkip) == [Dojo("optionPick") EXCEPT !.skips = canSkip, !.exact = {1}]

\* The groups the catalog lets a run's deck mods thin.
Thinned(dojo, groups) == [dojo EXCEPT !.thins = groups]
Exact(dojo, groups) == [dojo EXCEPT !.exact = groups]

RowExamples(dojo, row, split) ==
    CASE dojo.kind = "field" -> MaskedFieldExamples(row, split)
      [] dojo.kind = "fieldValue" -> MaskedFieldRegressionExamples(row, split)
      [] dojo.kind = "rarity" -> RarityTierExamples(row, split)
      [] dojo.kind = "deckLabel" -> DeckLabelExamples(row, split)
      [] dojo.kind = "deckMask" -> DeckCardMaskExamples(row, split)
      [] dojo.kind = "heldOut" -> HeldOutDeckCardExamples(row, split)
      [] dojo.kind = "combat" -> CombatOutcomeExamples(row, split)
      [] dojo.kind = "packPick" -> PackToPickExamples(row, split)
      [] dojo.kind = "poolPick" -> PoolConditionedPickExamples(row, split)
      [] dojo.kind = "optionPick" -> OptionPickExamples(row, split)
      [] dojo.kind = "groupPick" -> GroupPickExamples(dojo, row, split)
      [] dojo.kind = "groupLabel" -> GroupLabelExamples(row, split)

---------------------------------------------------------------------------
(* The options a head scores, the skip included: a label is one of them.     *)

OptionKinds == {"heldOut", "packPick", "poolPick", "optionPick", "groupPick"}
Scores(dojo, e) == Len(e.groups[1]) + (IF dojo.skips THEN 1 ELSE 0)

=============================================================================
