---------------------------- MODULE DeckIngestion ----------------------------
(***************************************************************************)
(* scripts/run_deck_box_ingestion.py over one game: its sources extract    *)
(* their raw rows into the game's one deck box, one source after another   *)
(* in one process (run_all) or one source alone (run_one).  Cards are      *)
(* matched with the card binder as it was loaded when the source began,    *)
(* and the finished source stamps the box with that binder's version       *)
(* (build_or_update_deck_box).  A source that raises is logged and the     *)
(* next one begins; the process may be killed anywhere; the card binder    *)
(* may be ingested anew at any time.                                       *)
(***************************************************************************)
EXTENDS DeckBox, Sequences

(***************************************************************************)
(* What the deck extraction stages of data_refinement/deck_box differ in.  *)
(* A stage is a record of                                                  *)
(*                                                                         *)
(*   identity   what a deck's uuid is derived from: the source's own id of *)
(*              the row (such a deck is updated when its cards change), or *)
(*              the cards themselves (such a deck never changes: a row     *)
(*              whose cards resolve otherwise makes another deck)          *)
(*   malformed  what a row that gives no deck does: it is left out and     *)
(*              counted, or it raises and ends the stage                   *)
(*                                                                         *)
(* and a game is its stages in the order run_all takes them (by name): all *)
(* of them write to the game's one box.                                    *)
(***************************************************************************)

Stage == [identity : {"source id", "cards"}, malformed : {"raise", "skip"}]

\* get_by_uuid, then create, or update when the cards differ
BySourceId == [identity |-> "source id", malformed |-> "raise"]

\* store_multiset_deck: create_if_absent under deck_uuid_from_cards
ByCards == [identity |-> "cards", malformed |-> "skip"]

StsGg == BySourceId
SpireCodexRuns == BySourceId
FabtcgDecklists == BySourceId
PlayGwent == BySourceId
PokemonTcg == BySourceId

FabtcgmetaOnlineDecks == ByCards
HearthstoneTopDecks == ByCards
LimitlessPlay == ByCards
\* get_by_uuid, then create
Isotropic == ByCards

\* a file that is not what its format says ends the stage
ZenodoHearthstoneDecks == [ByCards EXCEPT !.malformed = "raise"]
MtgjsonDecks == [ByCards EXCEPT !.malformed = "raise"]
SeventeenlandsGameData == [ByCards EXCEPT !.malformed = "raise"]

FleshAndBlood == <<FabtcgDecklists, FabtcgmetaOnlineDecks>>
Hearthstone == <<HearthstoneTopDecks, ZenodoHearthstoneDecks>>
Pokemon == <<LimitlessPlay, PokemonTcg>>
MTG == <<MtgjsonDecks, SeventeenlandsGameData>>
SlayTheSpire2 == <<SpireCodexRuns, StsGg>>
Gwent == <<PlayGwent>>
Dominion == <<Isotropic>>

-----------------------------------------------------------------------------
CONSTANTS
    Games,       \* the games: sequences of stages
    RawFiles,    \* what the sources' raw files may hold
    Malformed,   \* a row that gives no deck
    MaxVersion,  \* bound: times the card binder changes
    MaxIncidents \* bound: sources run alone, sources that raise, kills

VARIABLES
    game,     \* the game's stages
    raw,      \* per source, its rows; per row, its cards under each binder
    binder,   \* the card binder's version
    run,      \* the ingestion process
    stamper,  \* history: the source whose save wrote the file's stamp
    incidents \* history: as bounded by MaxIncidents

world == <<game, raw>>
ingestionVars == <<boxVars, game, raw, binder, run, stamper, incidents>>

Versions == 0..MaxVersion

\* Positions of a source's rows in its game; source ids of decks.
Positions == (1..2) \X (1..2)

ASSUME IngestionAssumption ==
    /\ Stamps = Versions /\ MaxVersion \in Nat /\ MaxIncidents \in Nat
    /\ CardLists \cup Positions \subseteq DeckIds
    /\ CardLists \cap Positions = {}   \* each kind of uuid has its own namespace
    /\ Malformed \notin CardLists
    /\ \A g \in Games : g \in Seq(Stage) /\ Len(g) \in 1..2
    /\ \A f \in RawFiles, s \in 1..2 :
         f[s] \in Seq([Versions -> CardLists \cup {Malformed}]) /\ Len(f[s]) <= 2

Down == [at |-> "down", source |-> 0, last |-> 0, row |-> 0, binder |-> 0]

IngestionInit ==
    /\ BoxInit
    /\ game \in Games /\ raw \in RawFiles
    /\ binder = 0
    /\ run = Down
    /\ stamper = 0 /\ incidents = 0

\* The cards row i of source s has under a binder.
CardsOf(s, i, version) == raw[s][i][version]

\* Its deck's uuid.
DeckIdOf(s, i, version) ==
    IF game[s].identity = "source id" THEN <<s, i>> ELSE CardsOf(s, i, version)

\* The loop over the sources goes on, or the process ends.
NextSource ==
    run' = IF run.source < run.last
           THEN [Down EXCEPT !.at = "load", !.source = run.source + 1, !.last = run.last]
           ELSE Down

\* run_all
StartAll ==
    /\ run.at = "down"
    /\ run' = [Down EXCEPT !.at = "load", !.source = 1, !.last = Len(game)]
    /\ UNCHANGED <<boxVars, world, binder, stamper, incidents>>

\* run_one, of a source of one's choice
StartOne ==
    /\ run.at = "down" /\ incidents < MaxIncidents
    /\ \E s \in DOMAIN game :
         run' = [Down EXCEPT !.at = "load", !.source = s, !.last = s]
    /\ incidents' = incidents + 1
    /\ UNCHANGED <<boxVars, world, binder, stamper>>

\* The binder and the box are loaded.
Load ==
    /\ run.at = "load"
    /\ run' = [run EXCEPT !.at = "extract", !.row = 1, !.binder = binder]
    /\ UNCHANGED <<boxVars, world, binder, stamper, incidents>>

Extracting == run.at = "extract" /\ call.at = "idle" /\ run.row <= Len(raw[run.source])

RowCards == CardsOf(run.source, run.row, run.binder)

RowDeck == DeckIdOf(run.source, run.row, run.binder)

Advance == run' = [run EXCEPT !.row = @ + 1]

\* Mutant of Differs: a stored deck is never written again.
NeverDiffers == FALSE

\* The stored deck of a source-keyed row holds other cards.
Differs == view.cards[RowDeck] # RowCards

CreateDeck ==
    /\ Extracting /\ RowCards # Malformed
    /\ RowDeck \notin view.rows
    /\ BeginCall("create", RowDeck, RowCards)
    /\ Advance
    /\ UNCHANGED <<world, binder, stamper, incidents>>

UpdateDeck ==
    /\ Extracting /\ RowCards # Malformed
    /\ RowDeck \in view.rows
    /\ game[run.source].identity = "source id" /\ Differs
    /\ BeginCall("update", RowDeck, RowCards)
    /\ Advance
    /\ UNCHANGED <<world, binder, stamper, incidents>>

\* A deck that is stored as it should be, or a row that is left out.
PassRow ==
    /\ Extracting
    /\ IF RowCards = Malformed
       THEN game[run.source].malformed = "skip"
       ELSE RowDeck \in view.rows /\ (game[run.source].identity = "source id" => ~Differs)
    /\ Advance
    /\ UNCHANGED <<boxVars, world, binder, stamper, incidents>>

\* The rest of a call of the box, the commit of a full batch included.
CallStep ==
    /\ run.at = "extract"
    /\ WriteRow \/ WriteCards \/ Release \/ Flush
    /\ UNCHANGED <<world, binder, run, stamper, incidents>>

\* extract() returns: save() commits what is pending.
SaveBox ==
    /\ run.at = "extract" /\ run.row > Len(raw[run.source])
    /\ Save(run.binder)
    /\ run' = [run EXCEPT !.at = "stamp"]
    /\ UNCHANGED <<world, binder, stamper, incidents>>

\* save() writes the stamp of the binder the source was extracted with.
StampBox ==
    /\ run.at = "stamp"
    /\ WriteStamp
    /\ stamper' = run.source
    /\ NextSource
    /\ UNCHANGED <<world, binder, incidents>>

\* A row that cannot be read raises out of extract(), every time.
MalformedRaises ==
    /\ Extracting /\ RowCards = Malformed
    /\ game[run.source].malformed = "raise"
    /\ Discard
    /\ NextSource
    /\ UNCHANGED <<world, binder, stamper, incidents>>

\* The disk, the database or the raw file raises; run_all goes on, and the
\* connection closes with the box.
SourceFails ==
    /\ run.at \in {"load", "extract", "stamp"} /\ incidents < MaxIncidents
    /\ Discard
    /\ NextSource
    /\ incidents' = incidents + 1
    /\ UNCHANGED <<world, binder, stamper>>

Die ==
    /\ run.at # "down" /\ incidents < MaxIncidents
    /\ Discard
    /\ run' = Down
    /\ incidents' = incidents + 1
    /\ UNCHANGED <<world, binder, stamper>>

\* scripts/run_card_binder_ingestion.py finds other cards.
BinderChanges ==
    /\ binder < MaxVersion
    /\ binder' = binder + 1
    /\ UNCHANGED <<boxVars, world, run, stamper, incidents>>

IngestionStep ==
    \/ Load \/ CreateDeck \/ UpdateDeck \/ PassRow \/ CallStep
    \/ SaveBox \/ StampBox \/ MalformedRaises

IngestionNext ==
    \/ StartAll \/ StartOne \/ IngestionStep
    \/ SourceFails \/ Die \/ BinderChanges

IngestionSpec == IngestionInit /\ [][IngestionNext]_ingestionVars

-----------------------------------------------------------------------------
(* Properties *)

IngestionTypeOK ==
    /\ game \in Games /\ raw \in RawFiles
    /\ binder \in Versions
    /\ run \in [at : {"down", "load", "extract", "stamp"}, source : 0..2, last : 0..2,
               row : Nat, binder : Versions]
    /\ run.at # "down" => 1 <= run.source /\ run.source <= run.last
    /\ run.at = "extract" => 1 <= run.row
    /\ stamper \in 0..2 /\ incidents \in Nat

\* Source s gave the file all its decks under a binder.
Extracted(s, version) ==
    \A i \in DOMAIN raw[s] :
        LET c == CardsOf(s, i, version)
        IN  c # Malformed => stored.cards[DeckIdOf(s, i, version)] = c

\* A stamped file holds every deck of the source that stamped it, with the
\* cards they have under the stamp's binder: neither a batch still open at the
\* stamp, nor a run that died half-way since, leaves a stamp without its decks.
StampedSourceIsWhole ==
    /\ IngestionTypeOK
    /\ stored.stamp # None => stamper # 0 /\ Extracted(stamper, stored.stamp)

\* "The card_binder_version each game's decks were minted against": a deck
\* kept under its source's id has the cards its row has under the stamp.  The
\* one stamp of a game with two sources breaks it: a source that was extracted
\* with the new binder stamps the other one's decks, which were not (because
\* it ran alone, or because the other one raised or was killed).
DecksAreOfTheStampedBinder ==
    stored.stamp # None =>
        \A s \in DOMAIN game : game[s].identity = "source id" =>
            \A i \in DOMAIN raw[s] : <<s, i>> \in stored.rows =>
                stored.cards[<<s, i>>] = CardsOf(s, i, stored.stamp)
=============================================================================
