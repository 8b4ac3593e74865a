---------------------------- MODULE MCCardsAndDojos ----------------------------
(* From a game's catalogue to the examples, part by part, each in behaviours *)
(* of its own.  The binder: stages of every kind, with catalogues that       *)
(* rename, drop, bring back, split, join and reorder cards, and prints of    *)
(* cards that are not there.  The dojos of the catalog: every one with every *)
(* kind of mod a run may give it, on one row at a time; whole passes of      *)
(* three of them over three rows; the contrastive dojos on decks of a few    *)
(* cards, in samples of two or of three.  And the rows some dojos read, made *)
(* of the logs of games of Dominion.                                         *)
EXTENDS DojoBatches, CardIngestion

CONSTANTS
    apple, berry, cherry, damson,   \* the cards
    orchard, garden,                \* their games
    Stranger,                       \* the Unknown card of their decks
    alice, bob, carol,              \* players of Dominion (Nobody is none of them)
    NoCard                          \* no card of Dominion

MCFieldsOf == [c \in {apple, berry, cherry, damson} |->
                 CASE c = apple -> {"answer", "tell", "other"}
                   [] c = berry -> {"answer", "other"}
                   [] OTHER -> {"answer", "tell"}]
MCGameOf == [c \in {apple, berry, cherry, damson} |->
               IF c \in {apple, cherry} THEN orchard ELSE garden]
MCTierOf == [c \in {apple, berry, cherry, damson} |->
               CASE c \in {apple, berry} -> "TRAIN"
                 [] c = cherry -> "TEST"
                 [] c = damson -> "VALIDATION"]
MCCostOf == [c \in {apple, berry, cherry, damson} |-> IF c = apple THEN 2 ELSE 1]
MCBaseSupply == <<berry>>
MCGames == {orchard, garden}

Row(first, second, picks, label) ==
    [first |-> first, second |-> second, picks |-> picks, label |-> label]

MCDecks == {<<>>, <<apple, apple, berry>>, <<cherry, apple>>}
MCSeconds == {<<>>, <<apple>>, <<cherry, apple>>}
MCOptions == {<<apple, berry>>, <<berry, cherry, apple>>}
CardRows(labels) == {Row(<<c>>, <<>>, <<>>, l) : c \in {apple, berry, cherry, damson}, l \in labels}

\* Only a card reward may be declined.
TakenOf(dojo) ==
    {<<apple>>, <<cherry>>} \cup (IF dojo.kind = "optionPick" /\ ~dojo.skips THEN {} ELSE {<<>>})

RowsOf(dojo) ==
    CASE dojo.kind = "field" -> CardRows({0})
      [] dojo.kind = "fieldValue" -> CardRows({0, None})
      [] dojo.kind = "rarity" -> CardRows({0, OffLadder})
      [] dojo.kind = "deckLabel" -> {Row(f, <<>>, <<>>, l) : f \in MCDecks, l \in {0, None}}
      [] dojo.kind = "deckMask" ->
           {Row(f, <<>>, <<c>>, 0) : f \in MCDecks, c \in {apple, cherry}}
      [] dojo.kind = "heldOut" ->
           {Row(f, s, <<c>>, 0) : f \in MCOptions, s \in MCSeconds, c \in {apple, cherry}}
      [] dojo.kind = "combat" -> {Row(f, s, <<>>, 0) : f \in MCDecks, s \in MCSeconds}
      [] dojo.kind \in {"packPick", "poolPick", "optionPick"} ->
           {Row(f, s, p, 0) : f \in MCOptions, s \in MCSeconds, p \in TakenOf(dojo)}
      [] dojo.kind = "groupPick" ->
           {Row(f, s, p, 0) : f \in MCDecks, s \in MCSeconds,
                              p \in {<<>>, <<apple, berry>>, <<cherry>>}}
      [] dojo.kind = "groupLabel" ->
           {Row(f, s, <<>>, l) : f \in MCDecks, s \in {<<apple>>, <<berry, cherry>>},
                                 l \in {0, 1, None}}

\* Card-field mods draw for each card alone: the longer chains are for dojos of
\* one card.
MCChains(dojo) ==
    IF dojo.kind \in {"field", "fieldValue", "rarity"}
    THEN {<<>>, DefaultAugmentations(-1), DefaultAugmentations(2),
          <<StyleChoice("rename", -1, TRUE, 2), RandomKeyMask(0, TRUE)>>,
          <<StyleChoice("rename", 3, FALSE, 1), RandomKeyMask(-1, TRUE)>>,
          <<NumberToString(-1, FALSE), ShuffleKeys(-1, TRUE)>>,
          <<CardDropout({1})>>}
    ELSE {<<>>, <<RandomKeyMask(-1, FALSE)>>, <<CardDropout({1})>>, <<CardDropout({2})>>,
          <<CardSubsample({2}, 1, 2)>>, <<DuplicateCollapse({1, 2}), ShuffleKeys(1, FALSE)>>}

Splits == {"TRAIN", "TEST", "VALIDATION"}

OneRow ==
    UNION {{[dojo |-> d, mods |-> mods, split |-> split, file |-> <<row>>, budget |-> 100,
             cap |-> IF split = "TRAIN" THEN None ELSE 9, passes |-> 1] :
              mods \in MCChains(d), split \in Splits, row \in RowsOf(d)} :
           d \in DOJO_CATALOG}

\* An example of each cost up to five, a row without any, a row with two.
MCPassRows(dojo) ==
    CASE dojo.kind = "deckLabel" ->
           {Row(<<berry>>, <<>>, <<>>, 0), Row(<<apple>>, <<>>, <<>>, 1),
            Row(<<apple, apple, berry>>, <<>>, <<>>, 2), Row(<<damson>>, <<>>, <<>>, 3)}
      [] dojo.kind = "groupPick" ->
           {Row(<<apple, berry>>, <<>>, <<apple, berry>>, 0), Row(<<apple, berry>>, <<>>, <<berry>>, 1),
            Row(<<damson>>, <<>>, <<damson>>, 2)}
      [] dojo.kind = "rarity" ->
           {Row(<<apple>>, <<>>, <<>>, 0), Row(<<cherry>>, <<>>, <<>>, 1),
            Row(<<berry>>, <<>>, <<>>, OffLadder)}

MCPassDojos == {GuideVotesDojo, KingdomVetoDojo, RarityTierDojo}
MCPasses ==
    UNION {{[dojo |-> d, mods |-> <<>>, split |-> split, file |-> order, budget |-> budget,
             cap |-> cap, passes |-> IF split = "TRAIN" THEN 3 ELSE 1] :
              split \in {"TRAIN", "TEST"}, order \in [1 .. 3 -> MCPassRows(d)],
              budget \in {4, 5, 7}, cap \in {None, 1, 3}} :
           d \in MCPassDojos}

MCSetups == OneRow \cup {s \in MCPasses : s.split = "TRAIN" <=> s.cap = None}

---------------------------------------------------------------------------
(* The contrastive dojos.                                                    *)

Pool(style, size, parts, hands) ==
    [style |-> style, size |-> size, parts |-> parts, source |-> "box",
     decks |-> hands, least |-> 0, most |-> 0]

\* A deck with copies, one with a card no one knows, one of the hidden tiers.
MCDealt == <<<<apple, apple, berry, cherry>>, <<berry, Stranger, cherry, apple>>,
             <<berry, damson, berry, apple>>>>
MCStyles ==
    {Pool("single", 1, 2, MCDealt), Pool("crossSlice", 1, 2, MCDealt),
     Pool("crossSlice", 2, 2, SubSeq(MCDealt, 1, 2)), Pool("sliceMatch", 1, 2, MCDealt),
     Pool("sliceMatch", 2, 2, <<MCDealt[1], MCDealt[1]>>), Pool("missing", 2, 1, MCDealt),
     Pool("contexts", 1, 2, MCDealt), Pool("odd", 3, 1, MCDealt),
     Pool("odd", 3, 1, <<<<apple, apple>>, <<berry, berry>>, <<cherry, apple>>>>)}
MCTaught ==
    {[Pool("single", 1, 2, <<<<apple, berry, cherry>>, <<berry, apple, apple>>,
                             <<cherry, apple, berry>>, <<damson, apple>>>>)
        EXCEPT !.source = "teacher", !.least = 2, !.most = m] : m \in {1, 2, 3}}

CardsOf(p) ==
    CASE p.style \in {"single", "odd"} -> IF p.style = "odd" THEN p.size ELSE p.parts
      [] p.style = "missing" -> p.size + 1
      [] p.style = "contexts" -> p.parts * (1 + p.size)
      [] OTHER -> p.parts * p.size

AskedOf(p) ==
    {[style |-> p.style, size |-> p.size, parts |-> p.parts, source |-> p.source,
      decks |-> p.decks, least |-> p.least, most |-> p.most,
      staples |-> staples, split |-> split, budget |-> n * CardsOf(p) + extra, cap |-> cap] :
        staples \in {{}, {apple}}, split \in Splits, n \in {1, 2, 3}, extra \in {0, 1},
        cap \in {None, 2, 3}}

MCPools ==
    {p \in UNION {AskedOf(p) : p \in MCStyles \cup MCTaught} :
        p.split = "TRAIN" <=> p.cap = None}

---------------------------------------------------------------------------
(* What the sources of cards may publish.                                    *)

Entry(ids, name, text) == [ids |-> ids, name |-> name, text |-> text]
Further(id, card) == [id |-> id, card |-> card]
Of(stage, prints, rowLists) ==
    {[stage |-> stage, rows |-> list, prints |-> prints] : list \in rowLists}

MCCardsById ==
    {<<Entry(<<"1", "1a">>, "X", 1), Entry(<<"1", "1b">>, "X", 2), Entry(<<"2">>, "X", 1)>>,
     <<Entry(<<"2">>, "Y", 1), Entry(<<"1", "1a">>, "X", 1)>>,
     <<Entry(<<"2">>, "Y", 1)>>}

MCCatalogues ==
    Of(Scryfall, {Further("1p", "1"), Further("2p", "2")}, MCCardsById)
    \cup Of(CardvaultFabtcg, {Further("1p", "1"), Further("2p", "2")}, MCCardsById)
    \cup Of(Tcgjson, {}, {<<Entry(<<"1", "2">>, "X", 1), Entry(<<"3">>, "Y", 1)>>,
                          <<Entry(<<"1">>, "X", 1), Entry(<<"2", "3">>, "X", 2)>>,
                          <<Entry(<<"2">>, "X", 1), Entry(<<"3">>, "Y", 2)>>,
                          <<Entry(<<"1">>, "X", 1), Entry(<<"2">>, "Y", 1), Entry(<<"3">>, "X", 2)>>})
    \cup Of(PokemonTcg, {}, {<<Entry(<<"1">>, "X", 1), Entry(<<"2">>, "X", 2), Entry(<<"3">>, "Y", 1)>>,
                             <<Entry(<<"2">>, "Y", 2), Entry(<<"1">>, "X", 1)>>,
                             <<Entry(<<"3">>, "Y", 1)>>})

---------------------------------------------------------------------------
(* The logs of Dominion: plurals of each kind, and a card no binder has.     *)

DominionCard(stem, ends, plural, action) ==
    [stem |-> stem, ends |-> ends, plural |-> plural, action |-> action]
province == DominionCard("Provinc", "e", "es", FALSE)
colony == DominionCard("Colon", "y", "ies", FALSE)
witch == DominionCard("Witch", "", "es", TRUE)
wharf == DominionCard("Whar", "f", "ves", TRUE)
DominionCards == {province, colony, witch, wharf}

Table(seats, cards, verbs, turns, n) ==
    [seats |-> seats, cards |-> cards, verbs |-> verbs, turns |-> turns, lines |-> n]
MCTables ==
    {Table(<<alice, bob>>, {province, witch},
           {"plays", "plays again", "buys", "gains", "copies", "trashes",
            "reveals and trashes", "trashes and gains", "returns"}, 3, 2),
     Table(<<alice, bob>>, {province, colony}, {"gains", "trashes"}, 3, 3),
     Table(<<alice, bob>>, {province, wharf}, {"buys", "trashes and gains", "plays"}, 3, 2),
     Table(<<alice, bob, carol>>, {province}, {"gains", "trashes", "buys"}, 5, 2)}

VARIABLES part, pool, going, left, used, batch, batches,
          table, decks, unseen, history, lines, resigned, emptied, file

Contrast == INSTANCE ContrastiveBatches WITH Pools <- MCPools, Unknown <- Stranger
Dominion == INSTANCE DominionGames WITH
    AllCards <- DominionCards, Known <- DominionCards \ {wharf},
    StartingDeck <- [c \in DominionCards |-> IF c = province THEN 1 ELSE 0],
    Tables <- MCTables, Provinces <- province, Colonies <- colony

contrast == <<pool, going, left, used, batch, batches>>
dominion == <<table, decks, unseen, history, lines, resigned, emptied, file>>

\* The parts that are not tried stay where they started, wherever that is.
AnyPool == CHOOSE p \in MCPools : TRUE
AnySetup == CHOOSE s \in MCPasses : TRUE
AnyTable == CHOOSE t \in MCTables : TRUE
AnyCatalogue == CHOOSE c \in Catalogues : TRUE
NoPool == pool = AnyPool /\ Contrast!Idle
NoPass == setup = AnySetup /\ Idle
NoGame == table = AnyTable /\ Dominion!NewGame
NoIngestion == Init /\ raw = AnyCatalogue

BinderInit == part = "binder" /\ Init /\ NoPass /\ NoPool /\ NoGame
RowsInit == part = "rows" /\ PassInit /\ NoIngestion /\ NoPool /\ NoGame
DecksInit == part = "decks" /\ Contrast!ContrastInit /\ NoIngestion /\ NoPass /\ NoGame
GamesInit == part = "games" /\ Dominion!GameInit /\ NoIngestion /\ NoPass /\ NoPool

MCInit == BinderInit \/ RowsInit \/ DecksInit \/ GamesInit

MCNext ==
    \/ part = "binder" /\ Next /\ UNCHANGED <<part, passVars, contrast, dominion>>
    \/ part = "rows" /\ PassNext /\ UNCHANGED <<part, vars, contrast, dominion>>
    \/ part = "decks" /\ Contrast!ContrastNext /\ UNCHANGED <<part, vars, passVars, dominion>>
    \/ part = "games" /\ Dominion!GameNext /\ UNCHANGED <<part, vars, passVars, contrast>>

allVars == <<part, vars, passVars, contrast, dominion>>
MCSpec == MCInit /\ [][MCNext]_allVars

\* The games alone.
GamesSpec == GamesInit /\ [][MCNext]_allVars

\* A contrastive batch teaches what its style means it to (ContrastiveBatches).
ContrastivePairsAreSound == Contrast!ContrastivePairsAreSound

\* A partial deck is off by no more than the log leaves unsaid (DominionGames).
DecksDriftByTheUnseen == Dominion!DecksDriftByTheUnseen

\* Only a game of two yields pairs of decks, say its docs (DominionGames).
PairsAreOfTwoPlayerGames == Dominion!PairsAreOfTwoPlayerGames

\* A row's label is what was done in the turn it is about (DominionGames).
LabelsAreOfTheirTurn == Dominion!LabelsAreOfTheirTurn
=============================================================================
