-------------------------- MODULE TrainingSnapshots --------------------------
(***************************************************************************)
(* What training derives from one game's deck box, while ingestion may be  *)
(* writing it: scripts/build_training_snapshots.py writes a card snapshot  *)
(* and a deck snapshot, a training process opens them (CardShelf), assigns *)
(* its decks to splits and makes a teacher of them.  Each file carries the *)
(* stamp of what it was derived from and is used while that stamp is       *)
(* current; none is read under a lock, and all are replaced in one rename. *)
(*                                                                         *)
(* A deck box version is the hash of the binder version and the deck count *)
(* (version_for): here the pair.  A file that was never written is None.   *)
(***************************************************************************)
EXTENDS DeckIngestion

CONSTANT MaxTrainers  \* bound: training processes started

\* A version that is not there is no version.
ASSUME SnapshotAssumption == MaxTrainers \in Nat /\ None \notin Stamps \X Nat

VARIABLES
    cardFile,   \* cards.arrow: the binder version it was made of
    deckFile,   \* decks.arrow: its stamp and its decks
    builder,    \* the process that builds them
    splitFile,  \* the deck split cache
    tableFile,  \* the teacher table
    nearFile,   \* its neighbours, kept in a file of their own
    trainer,    \* the training process
    trained     \* history: training processes started

builderVars == <<cardFile, deckFile, builder>>
trainerVars == <<splitFile, tableFile, nearFile, trainer, trained>>
vars == <<ingestionVars, builderVars, trainerVars>>

NoProcess == [at |-> "down"]

Init ==
    /\ IngestionInit
    /\ cardFile = None /\ deckFile = None /\ builder = NoProcess
    /\ splitFile = None /\ tableFile = None /\ nearFile = None
    /\ trainer = NoProcess /\ trained = 0

\* DeckBox.version_for, of the committed decks.
VersionFor(stamp, rows) == IF stamp = None THEN None ELSE <<stamp, Cardinality(rows)>>

\* Mutant of CurrentFor: a deck snapshot is current for its cards.
CurrentForCards(file, cards, box) == file # None /\ file.cards = cards /\ box # None

\* DeckSnapshot.open's _require_current_stamp, of a file and a box version.
CurrentFor(file, cards, box) == file # None /\ file.cards = cards /\ file.box = box

-----------------------------------------------------------------------------
(* The builder *)

\* build_game: the binder is loaded.
StartBuild ==
    /\ builder.at = "down"
    /\ builder' = [at |-> "cards", cards |-> binder]
    /\ UNCHANGED <<ingestionVars, cardFile, deckFile, trainerVars>>

\* _current_or_rebuilt_card_snapshot: rebuilt or not, it is of this binder.
BuildCards ==
    /\ builder.at = "cards"
    /\ cardFile' = builder.cards
    /\ builder' = [builder EXCEPT !.at = "decks"]
    /\ UNCHANGED <<ingestionVars, deckFile, trainerVars>>

\* The deck snapshot is current, and no rebuild is forced.
KeepDecks ==
    /\ builder.at = "decks"
    /\ CurrentFor(deckFile, builder.cards, VersionFor(stored.stamp, stored.rows))
    /\ builder' = NoProcess
    /\ UNCHANGED <<ingestionVars, cardFile, deckFile, trainerVars>>

\* The deck snapshot is not current, or a rebuild is forced (--force).
\* _require_box_minted_against: the box's stamp is read and compared,
CheckStamp ==
    /\ builder.at = "decks"
    /\ builder' = IF stored.stamp = builder.cards
                  THEN [at |-> "stamp", cards |-> builder.cards] ELSE NoProcess
    /\ UNCHANGED <<ingestionVars, cardFile, deckFile, trainerVars>>

\* then version_for reads it again
ReadStamp ==
    /\ builder.at = "stamp"
    /\ builder' = IF stored.stamp = None THEN NoProcess
                  ELSE [at |-> "count", cards |-> builder.cards, stamp |-> stored.stamp]
    /\ UNCHANGED <<ingestionVars, cardFile, deckFile, trainerVars>>

\* and counts the decks;
CountDecks ==
    /\ builder.at = "count"
    /\ builder' = [at |-> "read", cards |-> builder.cards,
                   box |-> VersionFor(builder.stamp, stored.rows)]
    /\ UNCHANGED <<ingestionVars, cardFile, deckFile, trainerVars>>

\* the decks are streamed in one query after that.
ReadDecks ==
    /\ builder.at = "read"
    /\ builder' = [at |-> "write", cards |-> builder.cards, box |-> builder.box,
                   decks |-> stored.rows]
    /\ UNCHANGED <<ingestionVars, cardFile, deckFile, trainerVars>>

\* write_table_atomically (the file is opened again, which only may raise).
WriteDecks ==
    /\ builder.at = "write"
    /\ deckFile' = [cards |-> builder.cards, box |-> builder.box,
                    decks |-> builder.decks]
    /\ builder' = NoProcess
    /\ UNCHANGED <<ingestionVars, cardFile, trainerVars>>

\* A locked database, a full disk, a kill: nothing but a temporary file is left.
BuildFails ==
    /\ builder.at # "down"
    /\ builder' = NoProcess
    /\ UNCHANGED <<ingestionVars, cardFile, deckFile, trainerVars>>

BuilderNext ==
    \/ StartBuild \/ BuildCards \/ KeepDecks \/ CheckStamp \/ ReadStamp
    \/ CountDecks \/ ReadDecks \/ WriteDecks \/ BuildFails

-----------------------------------------------------------------------------
(* The training process *)

\* CardSnapshot.open and DeckSnapshot.open both found their file current.
Opens ==
    /\ cardFile = binder
    /\ CurrentFor(deckFile, cardFile, VersionFor(stored.stamp, stored.rows))

\* CardShelf.deck_snapshot; a stale file raises and the process ends.
OpenSnapshots ==
    /\ trainer.at = "down" /\ trained < MaxTrainers /\ Opens
    /\ trained' = trained + 1
    /\ trainer' = [at |-> "split", decks |-> deckFile]
    /\ UNCHANGED <<ingestionVars, builderVars, splitFile, tableFile, nearFile>>

StampOf(snapshot) == <<snapshot.cards, snapshot.box>>

\* Mutant of UsableSplit: a cached split is used as it is.
AnySplit(stamp) == splitFile # None

\* _read_cache, and load_or_build's comparison of the stamps.
UsableSplit(stamp) == splitFile # None /\ splitFile.stamp = stamp

\* DeckSplitIndex.load_or_build: the split codes of the snapshot's rows.
LoadSplit ==
    LET stamp == StampOf(trainer.decks)
        built == [stamp |-> stamp, rows |-> trainer.decks.decks]
    IN  /\ trainer.at = "split"
        /\ splitFile' = IF UsableSplit(stamp) THEN splitFile ELSE built
        /\ trainer' = [at |-> "table", decks |-> trainer.decks, rows |-> splitFile'.rows]
        /\ UNCHANGED <<ingestionVars, builderVars, tableFile, nearFile, trained>>

\* load_or_build_teacher: the table, counted over the snapshot's decks.
LoadTable ==
    LET stamp == StampOf(trainer.decks)
        built == [stamp |-> stamp, of |-> trainer.decks.decks]
    IN  /\ trainer.at = "table"
        /\ tableFile' = IF tableFile # None /\ tableFile.stamp = stamp
                        THEN tableFile ELSE built
        /\ trainer' = [at |-> "neighbours", decks |-> trainer.decks,
                       rows |-> trainer.rows, table |-> tableFile'.of]
        /\ UNCHANGED <<ingestionVars, builderVars, splitFile, nearFile, trained>>

\* Then its neighbours, by the same stamp (and the table's row count).
LoadNeighbours ==
    LET stamp == StampOf(trainer.decks)
        built == [stamp |-> stamp, of |-> trainer.table]
    IN  /\ trainer.at = "neighbours"
        /\ nearFile' = IF nearFile # None /\ nearFile.stamp = stamp
                       THEN nearFile ELSE built
        /\ trainer' = [at |-> "done", decks |-> trainer.decks, rows |-> trainer.rows,
                       table |-> trainer.table, near |-> nearFile'.of]
        /\ UNCHANGED <<ingestionVars, builderVars, splitFile, tableFile, trained>>

StopTraining ==
    /\ trainer.at # "down"
    /\ trainer' = NoProcess
    /\ UNCHANGED <<ingestionVars, builderVars, splitFile, tableFile, nearFile, trained>>

TrainerNext ==
    OpenSnapshots \/ LoadSplit \/ LoadTable \/ LoadNeighbours \/ StopTraining

-----------------------------------------------------------------------------
Next ==
    \/ IngestionNext /\ UNCHANGED <<builderVars, trainerVars>>
    \/ BuilderNext
    \/ TrainerNext

Spec == Init /\ [][Next]_vars

\* A process that runs goes on; run_all is started again and again.
FairSpec ==
    /\ Spec
    /\ WF_vars(IngestionStep /\ UNCHANGED <<builderVars, trainerVars>>)
    /\ SF_vars(StartAll /\ UNCHANGED <<builderVars, trainerVars>>)

-----------------------------------------------------------------------------
(* Properties *)

\* A deck snapshot that opens holds every deck of the box and no other, though
\* its version names only their number, which is read before the decks.
OpenSnapshotHoldsEveryDeck ==
    Opens => deckFile.decks = stored.rows

\* The split, the teacher and its neighbours a process loads, each from a file
\* of its own, are of the decks it opened, whoever made them and from when.
TrainerHoldsOneDeckSet ==
    /\ trainer.at \in {"table", "neighbours", "done"} =>
         trainer.rows = trainer.decks.decks
    /\ trainer.at = "done" =>
         /\ trainer.table = trainer.rows
         /\ trainer.near = trainer.table

\* No source of this game raises on a row it will find there again.
Readable ==
    \A s \in DOMAIN game : game[s].malformed = "raise" =>
        \A i \in DOMAIN raw[s], v \in Versions : raw[s][i][v] # Malformed

\* run_all, run again after the last fault and the last change of the binder,
\* leaves every source's decks in the box and the current binder's stamp on it.
IngestionConverges ==
    Readable => <>[](/\ stored.stamp = binder
                     /\ \A s \in DOMAIN game : Extracted(s, binder))
=============================================================================
