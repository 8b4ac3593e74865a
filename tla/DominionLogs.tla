---------------------------- MODULE DominionLogs ----------------------------
(* How a game log of isotropic becomes rows: header_parser.py reads the top  *)
(* of a file, game_log_parser.py the turns below it, partial_deck.py         *)
(* rebuilds a player's deck before a turn, and the Metric[GameLog] metrics   *)
(* take a row from each turn.  A file is                                     *)
(*   [first, second : its first two lines, players : the blocks between the  *)
(*    separators, lines : everything after "Game log"]                       *)
(* and a line of the log is [verb, nick, cards, gained], its shape, the      *)
(* player it names (or Nobody) and its one or two lists of cards.  A list    *)
(* names cards as English does: a name is [stem, ends], and more than one    *)
(* copy is written in the plural.                                            *)
EXTENDS Integers, SequencesExt, FiniteSetsExt

CONSTANTS
    AllCards,       \* [stem, ends, plural, action], every card of the game
    Known,          \* those the binder has
    StartingDeck,   \* what every player starts with: copies of each card
    Nobody,         \* no player
    NoCard          \* no card

(***************************************************************************)
(* Names.                                                                  *)
(***************************************************************************)

NameOf(card) == [stem |-> card.stem, ends |-> card.ends]
Plural(card) == [stem |-> card.stem, ends |-> card.plural]
CardQuantity(card, count) ==
    [name |-> IF count = 1 THEN NameOf(card) ELSE Plural(card), count |-> count]

\* card_uuid_for_name: the card of exactly this name.
CardNamed(name) ==
    IF \E c \in Known : NameOf(c) = name THEN CHOOSE c \in Known : NameOf(c) = name ELSE NoCard

\* Mutant: a plural only ever loses its s.
SingularEndsOfSAlone(ends) ==
    CASE ends = "ies" -> <<"ies", "ie">>
      [] ends = "ves" -> <<"ves", "ve">>
      [] ends = "es" -> <<"es", "e">>
      [] ends = "s" -> <<"s", "">>
      [] OTHER -> <<ends>>

\* _plural_word_singular_forms, by what a word ends in: the word itself first.
SingularEnds(ends) ==
    CASE ends = "ies" -> <<"ies", "y", "iis", "i", "ie">>
      [] ends = "ves" -> <<"ves", "f", "vis", "v", "ve">>
      [] ends = "es" -> <<"es", "is", "", "e">>
      [] ends = "s" -> <<"s", "">>
      [] OTHER -> <<ends>>

\* pile_card_uuid_for_name: the first form the binder has.
PileCardNamed(name) ==
    LET forms == SelectSeq(SingularEnds(name.ends),
                           LAMBDA ends : CardNamed([name EXCEPT !.ends = ends]) # NoCard)
    IN IF forms = <<>> THEN NoCard ELSE CardNamed([name EXCEPT !.ends = Head(forms)])

\* How many copies of a card some quantities come to (expand_card_quantity).
Copies(quantities, card) ==
    FoldLeft(LAMBDA n, q : n + IF PileCardNamed(q.name) = card THEN q.count ELSE 0, 0, quantities)

\* distinct_card_uuids
DistinctCards(quantities) ==
    {PileCardNamed(quantities[i].name) : i \in DOMAIN quantities} \ {NoCard}

(***************************************************************************)
(* The turns.                                                              *)
(***************************************************************************)

IsTurnHeader(line) == line.verb = "turn"

\* _split_into_turn_blocks: what comes before the first header is dropped.
TurnBlocks(lines) ==
    FoldLeft(LAMBDA blocks, line :
               IF IsTurnHeader(line) THEN Append(blocks, <<line>>)
               ELSE IF blocks = <<>> THEN blocks
               ELSE [blocks EXCEPT ![Len(blocks)] = Append(@, line)],
             <<>>, lines)

\* Mutant: a line that names someone else counts as the owner's all the same.
LineBelongsToAnyone(line, owner) == TRUE

\* _line_belongs_to_owner
LineBelongsToOwner(line, owner) == line.nick \in {Nobody, owner}

\* The matchers of the lines, each the cards of a line it takes.  An action line
\* always names its player; "copies" (a revealed card of which another is
\* gained) and a replay name none.
CardsIf(matches, cards) == IF matches THEN cards ELSE <<>>
OwnerAction(line, owner, verb) == CardsIf(line.verb = verb /\ line.nick = owner, line.cards)
Played(line, owner) == OwnerAction(line, owner, "plays")
Replayed(line, owner) == CardsIf(line.verb = "plays again", line.cards)
Bought(line, owner) == OwnerAction(line, owner, "buys")
TrashesAndGains(line, owner) ==
    line.verb = "trashes and gains" /\ LineBelongsToOwner(line, owner)
Trashed(line, owner) ==
    CardsIf(/\ line.verb \in {"trashes", "reveals and trashes"}
            /\ LineBelongsToOwner(line, owner), line.cards)
Gained(line, owner) ==
    CardsIf(\/ line.verb = "copies"
            \/ line.verb = "gains" /\ LineBelongsToOwner(line, owner), line.cards)

\* _parse_turn_block: the first matcher that takes a line has it; what is bought
\* is gained as well.
TurnOf(block, number) ==
    LET owner == block[1].nick
        body == Tail(block)
        Of(Match(_)) == FlattenSeq([i \in DOMAIN body |-> Match(body[i])])
        Both(line) == TrashesAndGains(line, owner)
    IN [nick |-> owner, number |-> number,
        bought |-> Of(LAMBDA line : Bought(line, owner)),
        gained |-> Of(LAMBDA line : Bought(line, owner) \o CardsIf(Both(line), line.gained)
                                      \o Gained(line, owner)),
        trashed |-> Of(LAMBDA line : CardsIf(Both(line), line.cards) \o Trashed(line, owner)),
        played |-> Of(LAMBDA line : Played(line, owner) \o Replayed(line, owner))]

\* parse_game_log, below the header: a player's turns are counted, not read.
TurnsOf(lines) ==
    LET blocks == TurnBlocks(lines)
        NumberOf(i) == Cardinality({j \in 1 .. i : blocks[j][1].nick = blocks[i][1].nick})
    IN [i \in DOMAIN blocks |-> TurnOf(blocks[i], NumberOf(i))]

(***************************************************************************)
(* The header.                                                             *)
(***************************************************************************)

\* parse_game_header: only of a game with a winner that ended by its piles.
HasHeader(file) == file.first # Nobody /\ file.second.kind = "piles"

\* _parse_player_blocks: a player who resigned is left out.
PlayersOf(file) == SelectSeq(file.players, LAMBDA p : ~p.resigned)

ExhaustedCards(file) ==
    {PileCardNamed(name) : name \in ToSet(file.second.names)} \ {NoCard}

\* KingdomEndingTypeMetric._ending_type, with is_single_pile_ending.
EndingType(file, province, colony) ==
    LET card == PileCardNamed(file.second.names[1])
    IN CASE Len(file.second.names) # 1 -> "multi_pile"
         [] card # NoCard /\ card = CardNamed(NameOf(province)) -> "province"
         [] card # NoCard /\ card = CardNamed(NameOf(colony)) -> "colony"
         [] OTHER -> "multi_pile"

(***************************************************************************)
(* The decks and the rows.                                                 *)
(***************************************************************************)

Monus(n, m) == IF n > m THEN n - m ELSE 0

\* partial_deck_card_uuids: turn by turn, all it gained and then what it trashed
\* of what is there.
PartialDeck(turns, nick, before) ==
    LET earlier == SelectSeq(turns, LAMBDA t : t.nick = nick /\ t.number < before)
        After(deck, turn) ==
            [c \in Known |-> Monus(deck[c] + Copies(turn.gained, c), Copies(turn.trashed, c))]
    IN FoldLeft(After, [c \in Known |-> StartingDeck[c]], earlier)

DeckBefore(turns, turn) == PartialDeck(turns, turn.nick, turn.number)

\* NextBuyPredictionMetric and NextTrashedCardMetric: a row of each turn with any.
NextBuyRows(turns) ==
    {[turn |-> t, deck |-> DeckBefore(turns, t), label |-> DistinctCards(t.bought)] :
        t \in {u \in ToSet(turns) : DistinctCards(u.bought) # {}}}
NextTrashedRows(turns) ==
    {[turn |-> t, deck |-> DeckBefore(turns, t), label |-> DistinctCards(t.trashed)] :
        t \in {u \in ToSet(turns) : DistinctCards(u.trashed) # {}}}

\* NextTurnActionCountMetric._action_play_count
ActionPlays(turn) ==
    FoldLeft(LAMBDA n, q :
               LET card == PileCardNamed(q.name)
               IN IF card = NoCard THEN n ELSE IF card.action THEN n + q.count ELSE n,
             0, turn.played)

\* NextTurnActionCountMetric: of each turn that has a next one of its player's.
NextActionRows(turns) ==
    {[turn |-> p[1], deck |-> DeckBefore(turns, p[1]), label |-> ActionPlays(p[2])] :
        p \in {q \in ToSet(turns) \X ToSet(turns) :
                 q[1].nick = q[2].nick /\ q[2].number = q[1].number + 1}}

\* EventualWinProbabilityMetric
WinRows(file, turns) ==
    {[turn |-> t, deck |-> DeckBefore(turns, t), label |-> t.nick = file.first] :
        t \in ToSet(turns)}

\* MidGameDeckPairWinnerMetric: the decks of two players at the same turn of
\* each, when they differ.  Which of the two goes first is left out.
DeckPairRows(file, turns) ==
    LET players == PlayersOf(file)
        winner == file.first
        loser == CHOOSE p \in ToSet(players) : p.nick # winner
        checkpoints == 1 .. Min({players[1].turns, players[2].turns})
    IN IF Len(players) # 2 THEN {}
       ELSE {row \in {[at |-> n, won |-> PartialDeck(turns, winner, n),
                       lost |-> PartialDeck(turns, loser.nick, n)] : n \in checkpoints} :
               row.won # row.lost}
=============================================================================
