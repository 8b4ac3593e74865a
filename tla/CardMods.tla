------------------------------ MODULE CardMods ------------------------------
(* What a dojo's mods do to one example (src/dojos/mods): the task's own     *)
(* masks, the card-field augmentations a run adds, the deck mods and the     *)
(* swap of a symmetric pair.                                                 *)
(*                                                                           *)
(* A shown card is the card, the fields of it whose value can still be read, *)
(* whether its keys were renamed, whether its words were reordered or        *)
(* respelled, and whether its text may be cached.  An example is the shape   *)
(* of its input, its groups of shown cards, its label and what it was built  *)
(* as (`of', which no mod reads).  A mod draws from a random generator: an      *)
(* operator here gives the SET of the outcomes it may have.                  *)
EXTENDS Integers, FiniteSets, SequencesExt

CONSTANTS
    FieldsOf,   \* the fields of a card's raw content, as the binder has it
    GameOf      \* the game of a card

Shown(card) ==
    [card |-> card, legible |-> FieldsOf[card], renamed |-> FALSE,
     restyled |-> FALSE, cacheable |-> TRUE]

(* Values are replaced by [MASK] at the paths that are there.  After a       *)
(* rename a path may or may not lead to its field still.                     *)
Masked(s, paths) ==
    LET hidden == [s EXCEPT !.legible = @ \ paths]
    IN IF s.renamed THEN {s, hidden} ELSE {hidden}

---------------------------------------------------------------------------
(* The mods.                                                                 *)

MaskTarget(path, trainOnly) ==
    [does |-> "maskTarget", train_only |-> trainOnly, path |-> path]
PerGame(pipelines, trainOnly) ==
    [does |-> "perGame", train_only |-> trainOnly, pipelines |-> pipelines]
GroupSwap == [does |-> "swap", train_only |-> TRUE]

\* variants: -1 unbounded, 0 off, more: that many texts for each card;
\* sure: its probability is 1; oneStyle: it leaves nothing to a draw
CardField(does, variants, sure, oneStyle, table) ==
    [does |-> does, train_only |-> TRUE, variants |-> variants, sure |-> sure,
     oneStyle |-> oneStyle, table |-> table]
WeightedFieldMask(table, variants, sure) ==
    CardField("hide", variants, sure, FALSE, table)
RandomKeyMask(variants, sure) == CardField("hideAny", variants, sure, FALSE, {})
ShuffleKeys(variants, sure) == CardField("restyle", variants, sure, FALSE, {})
StyleChoice(does, variants, sure, styles) ==
    CardField(does, variants, sure, styles = 1, {})
NumberToString(variants, sure) == CardField("restyle", variants, sure, TRUE, {})

\* groups: the positions of the groups it may thin
CardDropout(groups) ==
    [does |-> "dropout", train_only |-> TRUE, groups |-> groups]
CardSubsample(groups, part, of) ==
    [does |-> "subsample", train_only |-> TRUE, groups |-> groups,
     part |-> part, of |-> of]
DuplicateCollapse(groups) ==
    [does |-> "collapse", train_only |-> TRUE, groups |-> groups]

CardFieldMods == {"hide", "hideAny", "restyle", "rename"}
DeckMods == {"dropout", "subsample", "collapse"}

DeterministicCards(m) == m.variants > 0 \/ m.oneStyle

StampedIfRandom(m, s) ==
    IF DeterministicCards(m) THEN s ELSE [s EXCEPT !.cacheable = FALSE]

---------------------------------------------------------------------------
(* Card-field augmentations, a card at a time.                               *)

\* One mask of the table, of those of which a field is there; the mask of
\* nothing is always one of them and leaves the card as it is, as does a table
\* no mask of which fits.  A mask that applies makes a new card even when the
\* value was masked before.
HideOutcomes(m, s) ==
    LET fitting == {p \in m.table : p \cap FieldsOf[s.card] # {}}
    IN {StampedIfRandom(m, [s EXCEPT !.legible = @ \ p]) : p \in fitting}
         \cup (IF {} \in m.table \/ s.renamed \/ fitting = {} THEN {s} ELSE {})

\* What a rewrite may make of the card: a text that comes out the same, or keys
\* that would collide under their new names, leave the card unchanged.
Rewrites(m, s) ==
    CASE m.does = "hide" -> HideOutcomes(m, s)
      [] m.does = "hideAny" -> {StampedIfRandom(m, [s EXCEPT !.legible = @ \ {f}]) :
                                   f \in FieldsOf[s.card]}
      [] m.does = "restyle" -> {s, StampedIfRandom(m, [s EXCEPT !.restyled = TRUE])}
      [] m.does = "rename" -> {s, StampedIfRandom(m, [s EXCEPT !.renamed = TRUE])}

ModifiedCards(m, s) ==
    IF m.variants = 0 THEN {s}
    ELSE Rewrites(m, s) \cup (IF m.sure THEN {} ELSE {s})

\* Every sequence whose i-th is one of the outcomes of the i-th.
Each(items, outcomes(_)) ==
    FoldLeft(LAMBDA sofar, x : {Append(s, o) : s \in sofar, o \in outcomes(x)},
             {<<>>}, items)

WithGroups(e, groupings) == {[e EXCEPT !.groups = g] : g \in groupings}

\* map_cards: every card of the input, each with a draw of its own.
CardFieldOutcomes(m, e) ==
    WithGroups(e, Each(e.groups, LAMBDA cards :
                            Each(cards, LAMBDA s : ModifiedCards(m, s))))

---------------------------------------------------------------------------
(* Own mods of the tasks.                                                    *)

\* Only a single-card example is masked; where the key is missing it is added
\* or passed over, and neither shows anything.
MaskedCard(paths, e) ==
    {[e EXCEPT !.groups = << <<s>> >>] : s \in Masked(e.groups[1][1], paths)}

\* The label of a pair is 1 when its first group won.
SwapOutcomes(e) ==
    {e, [e EXCEPT !.groups = <<e.groups[2], e.groups[1]>>, !.label = 1 - @]}

---------------------------------------------------------------------------
(* Deck mods: some groups of a training example lose cards, never all.       *)

\* Half goes to the even neighbour, as Python's round does.
Rounded(n, d) ==
    LET twice == 2 * (n % d)
    IN IF twice > d \/ (twice = d /\ (n \div d) % 2 = 1) THEN n \div d + 1 ELSE n \div d

\* Some of a sequence, in its order.
SomeInOrder(s) ==
    {LET at == SetToSortSeq(D, <) IN [i \in DOMAIN at |-> s[at[i]]] : D \in SUBSET DOMAIN s}

KeptByDropout(cards) == SomeInOrder(cards) \ {<<>>}

KeepCount(m, cards) ==
    LET kept == Rounded(m.part * Len(cards), m.of) IN IF kept < 1 THEN 1 ELSE kept

KeptBySubsample(m, cards) ==
    IF KeepCount(m, cards) >= Len(cards) THEN {cards}
    ELSE {kept \in SomeInOrder(cards) : Len(kept) = KeepCount(m, cards)}

FirstCopies(cards) ==
    FoldLeft(LAMBDA kept, s : IF \E i \in DOMAIN kept : kept[i].card = s.card
                              THEN kept ELSE Append(kept, s), <<>>, cards)

KeptCards(m, cards) ==
    CASE m.does = "dropout" -> KeptByDropout(cards)
      [] m.does = "subsample" -> KeptBySubsample(m, cards)
      [] m.does = "collapse" -> {FirstCopies(cards)}

\* A single card, or an example without a group that is named, passes through;
\* an empty group stays empty.
ThinningOutcomes(m, e) ==
    IF e.shape = "card" \/ ~ m.groups \subseteq DOMAIN e.groups THEN {e}
    ELSE WithGroups(e, Each([i \in DOMAIN e.groups |-> i], LAMBDA i :
                IF i \in m.groups /\ e.groups[i] # <<>> THEN KeptCards(m, e.groups[i])
                ELSE {e.groups[i]}))

---------------------------------------------------------------------------
(* A pipeline: every mod in its place, the train-only ones in training only. *)

CardOutcomes(m, e) ==
    IF m.does = "maskTarget" THEN MaskedCard({m.path}, e) ELSE CardFieldOutcomes(m, e)

After(mods, outcomes(_, _), e) ==
    FoldLeft(LAMBDA sofar, m : UNION {outcomes(m, x) : x \in sofar}, {e}, mods)

\* The card's own game's pipeline, if it has one, whatever the split.
PerGameOutcomes(m, e) ==
    LET game == GameOf[e.groups[1][1].card]
    IN IF game \in DOMAIN m.pipelines
       THEN After(m.pipelines[game], CardOutcomes, e) ELSE {e}

Outcomes(m, e) ==
    CASE m.does \in CardFieldMods \cup {"maskTarget"} -> CardOutcomes(m, e)
      [] m.does \in DeckMods -> ThinningOutcomes(m, e)
      [] m.does = "perGame" -> PerGameOutcomes(m, e)
      [] m.does = "swap" -> SwapOutcomes(e)

PipelineOutcomes(mods, e, training) ==
    After(SelectSeq(mods, LAMBDA m : training \/ ~m.train_only), Outcomes, e)

=============================================================================
