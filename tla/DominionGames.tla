---------------------------- MODULE DominionGames ---------------------------
(* Games of Dominion on isotropic, the file the site writes of each, and     *)
(* what the metrics make of it (DominionLogs).  The game and the site are    *)
(* not part of the repository: an action is what a player does and the line  *)
(* the site writes of it, by the shapes the parsers' docstrings confirm.     *)
(* Beside the file the module keeps the truth, which no file tells: what     *)
(* every deck held before each turn, and what was done in the turn.          *)
EXTENDS DominionLogs

CONSTANTS
    Tables,         \* the games to try: [seats, cards, verbs, turns, lines], the
                    \* players in turn order, the cards and the shapes of line
                    \* that occur, and bounds on the turns of all and on the lines
                    \* beside their headers
    Provinces,      \* the card whose empty pile ends a game
    Colonies        \* the other such card

VARIABLES
    table,      \* the game, one of Tables
    decks,      \* the copies each player has of each card
    unseen,     \* of each player and card, changes the log tells of nobody, or
                \* in another player's turn
    history,    \* of each player, for each own turn: the deck and the unseen
                \* changes before it, the cards bought and trashed in it, the
                \* actions played
    lines,      \* the log so far
    resigned,   \* the players who resigned
    emptied,    \* the piles that ended the game
    file        \* the finished file, or NotWritten while the game is on

game == <<table, decks, unseen, history, lines, resigned, emptied, file>>

NotWritten == [first |-> Nobody]
playing == file = NotWritten
players == ToSet(table.seats)
turnsTaken == Cardinality({i \in DOMAIN lines : lines[i].verb = "turn"})
effects == Len(lines) - turnsTaken
owner == lines[CHOOSE i \in DOMAIN lines :
                 /\ lines[i].verb = "turn"
                 /\ \A j \in i + 1 .. Len(lines) : lines[j].verb # "turn"].nick
others == players \ {owner}

Line(verb, nick, cards, gained) ==
    [verb |-> verb, nick |-> nick, cards |-> cards, gained |-> gained]
One(card) == <<CardQuantity(card, 1)>>

Without(deck, card, n) == [deck EXCEPT ![card] = @ - n]
With(deck, card, n) == [deck EXCEPT ![card] = @ + n]

NewGame ==
    /\ decks = [p \in players |-> StartingDeck]
    /\ unseen = [p \in players |-> [c \in AllCards |-> 0]]
    /\ history = [p \in players |-> <<>>]
    /\ lines = <<>> /\ resigned = {} /\ emptied = {} /\ file = NotWritten
GameInit == table \in Tables /\ NewGame

---------------------------------------------------------------------------

\* The next player who has not resigned, in turn order.
NextPlayer ==
    LET n == Len(table.seats)
        at == IF lines = <<>> THEN 0 ELSE CHOOSE i \in 1 .. n : table.seats[i] = owner
        After(k) == table.seats[((at + k - 1) % n) + 1]
    IN After(Min({k \in 1 .. n : After(k) \notin resigned}))

BeginTurn ==
    /\ playing /\ turnsTaken < table.turns /\ Cardinality(players \ resigned) > 1
    /\ lines' = Append(lines, Line("turn", NextPlayer, <<>>, <<>>))
    /\ history' = [history EXCEPT ![NextPlayer] =
                     Append(@, [deck |-> decks[NextPlayer], unseen |-> unseen[NextPlayer],
                                bought |-> {}, trashed |-> {}, actions |-> 0])]
    /\ UNCHANGED <<table, decks, unseen, resigned, emptied, file>>

\* What every action of a turn shares.
Writes(line) ==
    /\ line.verb \in table.verbs
    /\ lines' = Append(lines, line)
    /\ UNCHANGED <<table, resigned, emptied, file>>

Notes(field, value) ==
    history' = [history EXCEPT ![owner][Len(history[owner])][field] = value]
ThisTurn == history[owner][Len(history[owner])]

\* A card is played, or played once more by a Throne Room.
Play(card, shape, count) ==
    /\ Writes(IF shape = "plays" THEN Line("plays", owner, <<CardQuantity(card, count)>>, <<>>)
              ELSE Line("plays again", Nobody, <<CardQuantity(card, count)>>, <<>>))
    /\ shape = "plays" \/ count = 1
    /\ Notes("actions", ThisTurn.actions + IF card.action /\ card \in Known THEN count ELSE 0)
    /\ UNCHANGED <<decks, unseen>>

Buy(card, count) ==
    /\ Writes(Line("buys", owner, <<CardQuantity(card, count)>>, <<>>))
    /\ decks' = [decks EXCEPT ![owner] = With(@, card, count)]
    /\ Notes("bought", ThisTurn.bought \cup {card})
    /\ UNCHANGED unseen

\* The owner gains a card: named, not named, or a copy of one revealed.
Gain(card, verb, nick) ==
    /\ Writes(Line(verb, nick, One(card), <<>>))
    /\ decks' = [decks EXCEPT ![owner] = With(@, card, 1)]
    /\ UNCHANGED <<unseen, history>>

Trash(card, verb, nick) ==
    /\ Writes(Line(verb, nick, One(card), <<>>))
    /\ decks[owner][card] > 0
    /\ decks' = [decks EXCEPT ![owner] = Without(@, card, 1)]
    /\ Notes("trashed", ThisTurn.trashed \cup {card})
    /\ UNCHANGED unseen

TrashAndGain(card, gained, nick) ==
    /\ Writes(Line("trashes and gains", nick, One(card), One(gained)))
    /\ decks[owner][card] > 0
    /\ decks' = [decks EXCEPT ![owner] = With(Without(@, card, 1), gained, 1)]
    /\ Notes("trashed", ThisTurn.trashed \cup {card})
    /\ UNCHANGED unseen

\* An attack: another player gains a card, trashes one, or both.
OtherGains(other, card) ==
    /\ Writes(Line("gains", other, One(card), <<>>))
    /\ decks' = [decks EXCEPT ![other] = With(@, card, 1)]
    /\ unseen' = [unseen EXCEPT ![other] = With(@, card, 1)]
    /\ UNCHANGED history

OtherTrashes(other, card, verb) ==
    /\ Writes(Line(verb, other, One(card), <<>>))
    /\ decks[other][card] > 0
    /\ decks' = [decks EXCEPT ![other] = Without(@, card, 1)]
    /\ unseen' = [unseen EXCEPT ![other] = With(@, card, 1)]
    /\ UNCHANGED history

OtherTrashesAndGains(other, card, gained) ==
    /\ Writes(Line("trashes and gains", other, One(card), One(gained)))
    /\ decks[other][card] > 0
    /\ decks' = [decks EXCEPT ![other] = With(Without(@, card, 1), gained, 1)]
    /\ unseen' = [unseen EXCEPT ![other] = With(With(@, card, 1), gained, 1)]
    /\ UNCHANGED history

\* A card goes back to the supply: of no shape the parser takes.
Return(card) ==
    /\ Writes(Line("returns", Nobody, One(card), <<>>))
    /\ decks[owner][card] > 0
    /\ decks' = [decks EXCEPT ![owner] = Without(@, card, 1)]
    /\ unseen' = [unseen EXCEPT ![owner] = With(@, card, 1)]
    /\ UNCHANGED history

TurnAction ==
    /\ playing /\ turnsTaken > 0 /\ effects < table.lines /\ owner \notin resigned
    /\ \/ \E c \in table.cards, shape \in {"plays", "plays again"}, n \in {1, 2} : Play(c, shape, n)
       \/ \E c \in table.cards, n \in {1, 2} : Buy(c, n)
       \/ \E c \in table.cards, nick \in {Nobody, owner} : Gain(c, "gains", nick)
       \/ \E c \in table.cards : Gain(c, "copies", Nobody)
       \/ \E c \in table.cards, nick \in {Nobody, owner} : Trash(c, "trashes", nick)
       \/ \E c \in table.cards : Trash(c, "reveals and trashes", owner)
       \/ \E c, d \in table.cards, nick \in {Nobody, owner} : TrashAndGain(c, d, nick)
       \/ \E p \in others, c \in table.cards : OtherGains(p, c)
       \/ \E p \in others, c \in table.cards, verb \in {"trashes", "reveals and trashes"} :
            OtherTrashes(p, c, verb)
       \/ \E p \in others, c, d \in table.cards : OtherTrashesAndGains(p, c, d)
       \/ \E c \in table.cards : Return(c)

Resign ==
    /\ playing /\ turnsTaken > 0 /\ owner \notin resigned
    /\ resigned' = resigned \cup {owner}
    /\ UNCHANGED <<table, decks, unseen, history, lines, emptied, file>>

\* The site writes the file: who won, how it ended, a block of each player.
Blocks ==
    [i \in DOMAIN table.seats |->
       LET p == table.seats[i]
       IN [nick |-> p, turns |-> Len(history[p]), resigned |-> p \in resigned]]
File(first, second) ==
    [first |-> first, second |-> second, players |-> Blocks, lines |-> lines]

\* One pile that ends a game alone, or any that do together.
EmptyPiles ==
    {{Provinces}, {Colonies}} \cup {piles \in SUBSET table.cards : Cardinality(piles) > 1}

EndByPiles ==
    /\ playing /\ turnsTaken > 0 /\ Cardinality(players \ resigned) > 1
    /\ \E winner \in players \ resigned, piles \in EmptyPiles :
         /\ emptied' = piles
         /\ file' = File(winner, [kind |-> "piles", names |-> SetToSeq({Plural(c) : c \in piles})])
    /\ UNCHANGED <<table, decks, unseen, history, lines, resigned>>

\* The file names a winner or only that all but one resigned.
EndByResigning ==
    /\ playing /\ Cardinality(players \ resigned) = 1
    /\ \E winner \in (players \ resigned) \cup {Nobody} :
         file' = File(winner, [kind |-> "resigned", names |-> <<>>])
    /\ UNCHANGED <<table, decks, unseen, history, lines, resigned, emptied>>

GameNext == BeginTurn \/ TurnAction \/ Resign \/ EndByPiles \/ EndByResigning

---------------------------------------------------------------------------
(* What the rows are worth.                                                  *)

parsed == ~playing /\ HasHeader(file)
Turns == TurnsOf(file.lines)
Drift(deck, then) ==
    \A c \in Known : /\ deck[c] - then.deck[c] <= then.unseen[c]
                     /\ then.deck[c] - deck[c] <= then.unseen[c]

\* The deck a player is known to have had, and whether the log told all of it.
Held(then) == [c \in Known |-> then.deck[c]]
Told(then) == \A c \in Known : then.unseen[c] = 0

\* The deck rebuilt before any turn of any player, over whatever was gained,
\* trashed, remodelled, copied and played before, by whomever, differs from the
\* deck the player held in no more copies of a card than there were changes the
\* log tells of nobody or in another player's turn; without those it is that
\* deck (partial_deck_card_uuids over parse_game_log, and the measured accuracy
\* of the games' TODO.md).  Of a game of two it is so for both decks of every
\* pair at the turn they are compared, the winner's said to have won; and two
\* decks the log told whole that differ are paired
\* (MidGameDeckPairWinnerMetric.accumulate).  The pairs of a larger table are the
\* subject of PairsAreOfTwoPlayerGames.
DecksDriftByTheUnseen ==
    parsed =>
      LET turns == Turns
          pairs == DeckPairRows(file, turns)
      IN
      /\ \A p \in players : \A n \in 1 .. Len(history[p]) :
           Drift(PartialDeck(turns, p, n), history[p][n])
      /\ Cardinality(players) = 2 =>
           \A loser \in players \ {file.first} :
             /\ \A row \in pairs : /\ Drift(row.won, history[file.first][row.at])
                                   /\ Drift(row.lost, history[loser][row.at])
             /\ \A n \in DOMAIN history[file.first] \cap DOMAIN history[loser] :
                  LET won == history[file.first][n]
                      lost == history[loser][n]
                  IN Told(won) /\ Told(lost) /\ Held(won) # Held(lost) =>
                       [at |-> n, won |-> Held(won), lost |-> Held(lost)] \in pairs

\* What the docs say of resignations: "a game containing any resignation is
\* already rejected by header_parser.parse_game_header()"
\* (_continuation_line_parsers.py:20-23), it "returns None" for "winner-decided
\* games where a DIFFERENT player resigned mid-game" too (games/README.md:166-171),
\* and the deck pairs are "RESTRICTED TO REAL 2-PLAYER GAMES"
\* (mid_game_deck_pair_winner_metric.py:7-11): what is paired was a game of two.
PairsAreOfTwoPlayerGames ==
    parsed /\ DeckPairRows(file, Turns) # {} => Cardinality(players) = 2

\* A label is of the turn its row says and of nobody else: what the player bought
\* or trashed in the very turn the deck is before, what actions were played in
\* the player's next, and the piles that ended the game, whatever the turns, the
\* shapes of the lines and the plurals between.  Each turn the winner took, and no
\* other, is called one that leads to a win, of the deck before it.  So too for a
\* game of three one of whom resigned, which the parser does not refuse.
LabelsAreOfTheirTurn ==
    parsed =>
      LET turns == Turns
          wins == WinRows(file, turns)
          Then(t) == history[t.nick][t.number]
          NextOf(t) == history[t.nick][t.number + 1]
      IN
      /\ \A p \in players : \A n \in 1 .. Len(history[p]) :
           /\ history[p][n].bought \cap Known # {} =>
                \E row \in NextBuyRows(turns) : row.turn.nick = p /\ row.turn.number = n
           /\ history[p][n].trashed \cap Known # {} =>
                \E row \in NextTrashedRows(turns) : row.turn.nick = p /\ row.turn.number = n
      /\ \A row \in NextBuyRows(turns) :
           Drift(row.deck, Then(row.turn)) /\ row.label = Then(row.turn).bought \cap Known
      /\ \A row \in NextTrashedRows(turns) :
           Drift(row.deck, Then(row.turn)) /\ row.label = Then(row.turn).trashed \cap Known
      /\ \A row \in NextActionRows(turns) : row.label = NextOf(row.turn).actions
      /\ \A row \in wins : Drift(row.deck, Then(row.turn))
      /\ {<<row.turn.nick, row.turn.number>> : row \in {r \in wins : r.label}} =
           {file.first} \X (1 .. Len(history[file.first]))
      /\ ExhaustedCards(file) = emptied \cap Known
      /\ EndingType(file, Provinces, Colonies) =
           (CASE emptied = {Provinces} /\ Provinces \in Known -> "province"
              [] emptied = {Colonies} /\ Colonies \in Known -> "colony"
              [] OTHER -> "multi_pile")
=============================================================================
