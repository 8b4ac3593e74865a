---------------------------- MODULE DeckBoxProofs ----------------------------
(***************************************************************************)
(* The deck box, for any client, any decks and any batch size: its file    *)
(* holds whole calls, a kill loses no more than the calls counted since    *)
(* the last commit, and no commit leaves a stamp beside changed decks.     *)
(* Ingestion and the training processes use the box as such a client, so   *)
(* the same holds of them; and of what they do with it: a stamp stands for *)
(* its source's decks, and what training derives from the box, without a   *)
(* lock, is of one set of decks.                                           *)
(***************************************************************************)
EXTENDS TrainingSnapshots, FiniteSetTheorems, TLAPS

\* The decks a box value holds otherwise than the file.
UnsavedIn(box, file) == {d \in DeckIds : box.cards[d] # file.cards[d]}

\* What holds of a value the open batch may fall back to, after so many calls.
Sound(box, file, calls) ==
    /\ Whole(box)
    /\ IsFiniteSet(UnsavedIn(box, file))
    /\ Cardinality(UnsavedIn(box, file)) <= calls
    /\ box.rows # file.rows \/ box.cards # file.cards => box.stamp = None

InCall == call.at \in {"row", "cards", "release"}

\* The rows and the cards a call makes of what it found.
RowsOf(c, box) ==
    IF c.kind = "delete" THEN box.rows \ {c.deck} ELSE box.rows \cup {c.deck}

CardsIn(c, box) ==
    [box.cards EXCEPT ![c.deck] = IF c.kind = "delete" THEN None ELSE c.cards]

\* The view in the middle of a call: the savepoint and what the call has done.
CallSoFar ==
    /\ Sound(savepoint, stored, pending)
    /\ view.stamp = None
    /\ view.rows = IF call.at = "row" THEN savepoint.rows ELSE RowsOf(call, savepoint)
    /\ view.cards = IF call.at = "release" THEN CardsIn(call, savepoint)
                    ELSE savepoint.cards

BoxInv ==
    /\ BoxTypeOK
    /\ Whole(stored)
    /\ InCall => CallSoFar
    /\ ~InCall => Sound(view, stored, pending)
    /\ call.at = "stamp" => view.rows = stored.rows /\ view.cards = stored.cards

-----------------------------------------------------------------------------

\* A call in progress names its kind, its deck and its cards.
LEMMA CallFields ==
    ASSUME call \in Call, InCall
    PROVE  /\ call.kind \in Kinds /\ call.deck \in DeckIds /\ call.cards \in CardLists
           /\ \A at \in {"row", "cards", "release"} :
                [call EXCEPT !.at = at] \in Call
BY DEF Call, InCall

\* A box that reads as the file does has nothing to lose.
LEMMA SameIsSound ==
    ASSUME NEW box, NEW file, NEW calls \in Nat,
           box.rows = file.rows, box.cards = file.cards, Whole(file)
    PROVE  Sound(box, file, calls)
<1>1. UnsavedIn(box, file) = {}
  BY DEF UnsavedIn
<1>2. IsFiniteSet({}) /\ Cardinality({}) = 0
  BY FS_EmptySet
<1>3. Whole(box)
  BY DEF Whole
<1> QED
  BY <1>1, <1>2, <1>3 DEF Sound

\* A call on a sound box leaves a sound one, with one call more to lose.
LEMMA CallIsSound ==
    ASSUME NEW box \in BoxContent, NEW file \in BoxContent, NEW calls \in Nat,
           NEW after \in BoxContent, NEW c,
           c.deck \in DeckIds, c.cards \in CardLists,
           Sound(box, file, calls),
           after.stamp = None, after.rows = RowsOf(c, box),
           after.cards = CardsIn(c, box)
    PROVE  Sound(after, file, calls + 1)
<1>1. Whole(after)
  BY DeckBoxAssumption DEF Sound, Whole, RowsOf, CardsIn, BoxContent
<1>2. UnsavedIn(after, file) \subseteq UnsavedIn(box, file) \cup {c.deck}
  BY DEF UnsavedIn, CardsIn, BoxContent
<1>3. /\ IsFiniteSet(UnsavedIn(box, file) \cup {c.deck})
      /\ Cardinality(UnsavedIn(box, file) \cup {c.deck}) <= calls + 1
  <2>1. IsFiniteSet(UnsavedIn(box, file)) /\ Cardinality(UnsavedIn(box, file)) <= calls
    BY DEF Sound
  <2>2. Cardinality(UnsavedIn(box, file)) \in Nat
    BY <2>1, FS_CardinalityType
  <2>3. /\ IsFiniteSet(UnsavedIn(box, file) \cup {c.deck})
        /\ \/ Cardinality(UnsavedIn(box, file) \cup {c.deck})
                 = Cardinality(UnsavedIn(box, file))
           \/ Cardinality(UnsavedIn(box, file) \cup {c.deck})
                 = Cardinality(UnsavedIn(box, file)) + 1
    BY <2>1, FS_AddElement
  <2> QED
    BY <2>1, <2>2, <2>3
<1>4. /\ IsFiniteSet(UnsavedIn(after, file))
      /\ Cardinality(UnsavedIn(after, file)) <= calls + 1
  <2>1. /\ IsFiniteSet(UnsavedIn(after, file))
        /\ Cardinality(UnsavedIn(after, file))
             <= Cardinality(UnsavedIn(box, file) \cup {c.deck})
    BY <1>2, <1>3, FS_Subset
  <2>2. /\ Cardinality(UnsavedIn(after, file)) \in Nat
        /\ Cardinality(UnsavedIn(box, file) \cup {c.deck}) \in Nat
    BY <1>3, <2>1, FS_CardinalityType
  <2> QED
    BY <1>3, <2>1, <2>2
<1> QED
  BY <1>1, <1>4 DEF Sound

-----------------------------------------------------------------------------

\* An empty box is sound.
LEMMA BoxInvInit == BoxInit => BoxInv
<1> SUFFICES ASSUME BoxInit PROVE BoxInv
  OBVIOUS
<1>1. EmptyBox \in BoxContent /\ Whole(EmptyBox)
  BY DEF EmptyBox, BoxContent, Whole
<1>2. BoxTypeOK
  BY <1>1 DEF BoxInit, BoxTypeOK, Call, Idle
<1>3. Sound(view, stored, pending)
  BY <1>1, SameIsSound DEF BoxInit
<1> QED
  BY <1>1, <1>2, <1>3 DEF BoxInv, BoxInit, InCall, Idle

\* One step per action of the box.
LEMMA BoxInvNext == BoxInv /\ [BoxNext]_boxVars => BoxInv'
<1> SUFFICES ASSUME BoxInv, [BoxNext]_boxVars PROVE BoxInv'
  OBVIOUS
<1> USE DEF BoxInv
<1>0. EmptyBox \in BoxContent /\ Idle \in Call
  BY DEF EmptyBox, BoxContent, Idle, Call
<1>1. ASSUME NEW kind \in Kinds, NEW d \in DeckIds, NEW c \in CardLists,
             BeginCall(kind, d, c)
      PROVE  BoxInv'
  <2>1. Sound(view, stored, pending)
    BY <1>1 DEF BeginCall, InCall
  <2>2. BoxTypeOK'
    BY <1>1 DEF BeginCall, BoxTypeOK, Call, Cleared, BoxContent
  <2>3. CallSoFar'
    BY <1>1, <2>1 DEF BeginCall, CallSoFar, Cleared, BoxTypeOK, BoxContent
  <2> QED
    BY <1>1, <2>2, <2>3 DEF BeginCall, InCall
<1>2. CASE WriteRow
  <2>1. InCall /\ call.kind \in Kinds /\ call.deck \in DeckIds /\ call' \in Call
    BY <1>2, CallFields DEF WriteRow, InCall, BoxTypeOK
  <2>2. BoxTypeOK'
    BY <1>2, <2>1 DEF WriteRow, BoxTypeOK, RowsAfter, BoxContent
  <2>3. CallSoFar'
    BY <1>2, <2>1 DEF WriteRow, CallSoFar, RowsAfter, RowsOf, CardsIn, BoxTypeOK, BoxContent, Call
  <2> QED
    BY <1>2, <2>1, <2>2, <2>3 DEF WriteRow, InCall
<1>3. CASE WriteCards
  <2>1. /\ InCall /\ call.kind \in Kinds /\ call.deck \in DeckIds
        /\ call.cards \in CardLists /\ call' \in Call
    BY <1>3, CallFields DEF WriteCards, InCall, BoxTypeOK
  <2>2. BoxTypeOK'
    BY <1>3, <2>1 DEF WriteCards, BoxTypeOK, BoxContent
  <2>3. CallSoFar'
    BY <1>3, <2>1 DEF WriteCards, CallSoFar, RowsOf, CardsIn, BoxTypeOK, BoxContent, Call
  <2> QED
    BY <1>3, <2>1, <2>2, <2>3 DEF WriteCards, InCall
<1>4. CASE Release
  <2>1. InCall /\ call.deck \in DeckIds /\ call.cards \in CardLists
    BY <1>4, CallFields DEF Release, InCall, BoxTypeOK
  <2>2. Sound(view, stored, pending + 1)
    BY <1>4, <2>1, CallIsSound DEF Release, CallSoFar, BoxTypeOK
  <2>3. BoxTypeOK' /\ ~InCall' /\ call'.at # "stamp"
    BY <1>0, <1>4 DEF Release, BoxTypeOK, Call, Idle, InCall
  <2> QED
    BY <1>4, <2>2, <2>3 DEF Release
<1>5. CASE Flush
  <2>1. Sound(view, stored, pending)
    BY <1>5 DEF Flush, InCall
  <2>2. Sound(view, stored, pending)'
    BY <1>5, <2>1, SameIsSound DEF Flush, Sound
  <2> QED
    BY <1>0, <1>5, <2>1, <2>2 DEF Flush, BoxTypeOK, Idle, InCall, Sound
<1>6. CASE StatementFails
  BY <1>0, <1>6 DEF StatementFails, BoxTypeOK, CallSoFar, Idle, InCall
<1>7. CASE CommitFails
  BY <1>0, <1>7 DEF CommitFails, BoxTypeOK, Idle, InCall
<1>8. CASE Discard
  <2>1. Sound(view, stored, pending)'
    BY <1>8, SameIsSound DEF Discard
  <2> QED
    BY <1>0, <1>8, <2>1 DEF Discard, BoxTypeOK, Idle, InCall
<1>9. ASSUME NEW stamp \in Stamps, Save(stamp)
      PROVE  BoxInv'
  <2>1. Sound(view, stored, pending)
    BY <1>9 DEF Save, InCall
  <2>2. Sound(view, stored, pending)'
    BY <1>9, <2>1, SameIsSound DEF Save, Sound
  <2>3. BoxTypeOK'
    BY <1>9 DEF Save, BoxTypeOK, Call
  <2> QED
    BY <1>9, <2>1, <2>2, <2>3 DEF Save, InCall, Sound
<1>10. CASE WriteStamp
  <2>1. call.stamp \in Stamps
    BY <1>10 DEF WriteStamp, BoxTypeOK, Call
  <2>2. BoxTypeOK' /\ Whole(stored)' /\ view'.rows = stored'.rows
        /\ view'.cards = stored'.cards
    BY <1>0, <1>10, <2>1 DEF WriteStamp, BoxTypeOK, BoxContent, Whole
  <2>3. Sound(view, stored, pending)'
    BY <2>2, SameIsSound DEF BoxTypeOK
  <2> QED
    BY <1>10, <2>2, <2>3 DEF WriteStamp, Idle, InCall
<1>11. CASE UNCHANGED boxVars
  BY <1>11 DEF boxVars, BoxTypeOK, InCall, CallSoFar
<1> QED
  BY <1>1, <1>2, <1>3, <1>4, <1>5, <1>6, <1>7, <1>8, <1>9, <1>10, <1>11 DEF BoxNext

\* Every box is sound: well-typed, its calls whole, its losses counted.
THEOREM BoxInvariant == BoxSpec => []BoxInv
<1> QED
  BY BoxInvInit, BoxInvNext, PTL DEF BoxSpec

\* "Never keeps half of one call", and what a kill loses is bounded by the
\* calls counted since the last commit, for every client of the box.
THEOREM BoxCallsAreWhole == BoxSpec => []CallsAreWhole
<1>1. BoxInv => CallsAreWhole
  BY DEF BoxInv, CallsAreWhole, Sound, Unsaved, UnsavedIn, InCall
<1> QED
  BY <1>1, BoxInvariant, PTL

\* What one step does to the file, under the invariant.
LEMMA ChangeClearsStampStep ==
    BoxInv /\ [BoxNext]_boxVars
      => [stored'.rows # stored.rows \/ stored'.cards # stored.cards
            => stored'.stamp = None]_boxVars
<1> SUFFICES ASSUME BoxInv, BoxNext,
                    stored'.rows # stored.rows \/ stored'.cards # stored.cards
             PROVE  stored'.stamp = None
  BY DEF boxVars
<1>1. CASE stored' = view
  <2>1. ~InCall
    BY <1>1 DEF BoxNext, BeginCall, WriteRow, WriteCards, Release, Flush,
                StatementFails, CommitFails, Discard, Save, WriteStamp, InCall
  <2> QED
    BY <1>1, <2>1 DEF BoxInv, Sound
<1>2. CASE stored' # view
  BY <1>2 DEF BoxNext, BeginCall, WriteRow, WriteCards, Release, Flush,
              StatementFails, CommitFails, Discard, Save, WriteStamp,
              BoxInv, BoxTypeOK, BoxContent
<1> QED
  BY <1>1, <1>2

\* "A committed deck change is always committed together with its stamp's
\* deletion", for every client of the box.
THEOREM BoxChangeClearsStamp == BoxSpec => ChangeClearsStamp
<1> QED
  BY BoxInvariant, ChangeClearsStampStep, PTL DEF BoxSpec, ChangeClearsStamp

-----------------------------------------------------------------------------

\* A source that is being extracted is one of the game's, and its rows give
\* decks and cards the box knows.
LEMMA RowIsADeck ==
    ASSUME IngestionTypeOK, Extracting, RowCards # Malformed
    PROVE  RowCards \in CardLists /\ RowDeck \in DeckIds
<1>1. run.source \in 1..2 /\ run.row \in 1..Len(raw[run.source]) /\ run.binder \in Versions
  <2>1. run.source \in 1..2 /\ run.row \in Nat /\ 1 <= run.row /\ run.binder \in Versions
        /\ run.row <= Len(raw[run.source])
    BY DEF IngestionTypeOK, Extracting
  <2>2. Len(raw[run.source]) \in Nat
    BY <2>1, IngestionAssumption DEF IngestionTypeOK
  <2> QED
    BY <2>1, <2>2
<1>2. raw[run.source] \in Seq([Versions -> CardLists \cup {Malformed}])
      /\ Len(raw[run.source]) <= 2
  BY <1>1, IngestionAssumption DEF IngestionTypeOK
<1>3. RowCards \in CardLists
  BY <1>1, <1>2 DEF RowCards, CardsOf
<1>4. <<run.source, run.row>> \in Positions
  BY <1>1, <1>2 DEF Positions
<1> QED
  BY <1>3, <1>4, IngestionAssumption DEF RowDeck, DeckIdOf, RowCards

\* Ingestion starts with well-typed fields.
LEMMA IngestionTypeInit == IngestionInit => IngestionTypeOK
BY IngestionAssumption DEF IngestionInit, IngestionTypeOK, Down, Versions

\* One step per action of ingestion.
LEMMA IngestionTypeNext ==
    IngestionTypeOK /\ [IngestionNext]_ingestionVars => IngestionTypeOK'
<1> SUFFICES ASSUME IngestionTypeOK, [IngestionNext]_ingestionVars
             PROVE  IngestionTypeOK'
  OBVIOUS
<1> USE DEF IngestionTypeOK
<1>0. Len(game) \in 1..2 /\ DOMAIN game = 1..Len(game) /\ 0 \in Versions
  BY IngestionAssumption DEF Versions
<1>1. CASE StartAll
  <2>1. run' = [at |-> "load", source |-> 1, last |-> Len(game), row |-> 0, binder |-> 0]
    BY <1>1 DEF StartAll, Down
  <2>2. Len(game) \in 0..2 /\ 1 <= Len(game)
    BY <1>0
  <2> QED
    BY <1>0, <1>1, <2>1, <2>2 DEF StartAll, world
<1>2. CASE StartOne
  <2>1. PICK s \in DOMAIN game :
          run' = [at |-> "load", source |-> s, last |-> s, row |-> 0, binder |-> 0]
    BY <1>2 DEF StartOne, Down
  <2>2. s \in 0..2 /\ 1 <= s
    BY <1>0
  <2> QED
    BY <1>0, <1>2, <2>1, <2>2 DEF StartOne, world
<1>3. CASE Load
  <2>1. run' = [run EXCEPT !.at = "extract", !.row = 1, !.binder = binder]
    BY <1>3 DEF Load
  <2>2. /\ run' \in [at : {"down", "load", "extract", "stamp"}, source : 0..2,
                     last : 0..2, row : Nat, binder : Versions]
        /\ run'.source = run.source /\ run'.last = run.last /\ run'.row = 1
    BY <2>1
  <2> QED
    BY <1>3, <2>2 DEF Load, world
<1>4. CASE CreateDeck \/ UpdateDeck \/ PassRow
  <2>1. run' = [run EXCEPT !.row = run.row + 1] /\ run.at = "extract"
    BY <1>4 DEF CreateDeck, UpdateDeck, PassRow, Extracting, Advance
  <2>2. /\ run' \in [at : {"down", "load", "extract", "stamp"}, source : 0..2,
                     last : 0..2, row : Nat, binder : Versions]
        /\ run'.source = run.source /\ run'.last = run.last
        /\ run'.row = run.row + 1 /\ run'.at = run.at
    BY <2>1
  <2>3. UNCHANGED <<game, raw, binder, stamper, incidents>>
    BY <1>4 DEF CreateDeck, UpdateDeck, PassRow, world
  <2> QED
    BY <2>1, <2>2, <2>3
<1>5. CASE CallStep
  BY <1>5 DEF CallStep, world
<1>6. CASE SaveBox
  BY <1>6 DEF SaveBox, world
<1>7. ASSUME NextSource, run.at # "down"
      PROVE  /\ run' \in [at : {"down", "load", "extract", "stamp"}, source : 0..2,
                          last : 0..2, row : Nat, binder : Versions]
             /\ run'.at # "down" => 1 <= run'.source /\ run'.source <= run'.last
             /\ run'.at # "extract"
  <2>1. CASE run.source < run.last
    <3>1. run' = [at |-> "load", source |-> run.source + 1, last |-> run.last,
                  row |-> 0, binder |-> 0]
      BY <1>7, <2>1 DEF NextSource, Down
    <3> QED
      BY <1>0, <2>1, <3>1
  <2>2. CASE ~(run.source < run.last)
    BY <1>0, <1>7, <2>2 DEF NextSource, Down
  <2> QED
    BY <2>1, <2>2
<1>8. CASE StampBox
  BY <1>7, <1>8 DEF StampBox, world
<1>9. CASE MalformedRaises
  BY <1>7, <1>9 DEF MalformedRaises, Extracting, world
<1>10. CASE SourceFails
  BY <1>7, <1>10 DEF SourceFails, world
<1>11. CASE Die
  BY <1>0, <1>11 DEF Die, Down, world
<1>12. CASE BinderChanges
  BY <1>12, IngestionAssumption DEF BinderChanges, world, Versions
<1>13. CASE UNCHANGED ingestionVars
  BY <1>13 DEF ingestionVars
<1> QED
  BY <1>1, <1>2, <1>3, <1>4, <1>5, <1>6, <1>8, <1>9, <1>10, <1>11, <1>12, <1>13
     DEF IngestionNext, IngestionStep

\* A step of the whole is one of ingestion, or leaves it alone.
LEMMA SnapshotStep == [Next]_vars => [IngestionNext]_ingestionVars
BY DEF Next, vars, BuilderNext, StartBuild, BuildCards, KeepDecks, CheckStamp,
       ReadStamp, CountDecks, ReadDecks, WriteDecks, BuildFails, TrainerNext,
       OpenSnapshots, LoadSplit, LoadTable, LoadNeighbours, StopTraining

\* The fields of ingestion keep their types, snapshots and training beside it.
THEOREM IngestionTypes == Spec => []IngestionTypeOK
<1>1. Init => IngestionInit
  BY DEF Init
<1> QED
  BY <1>1, IngestionTypeInit, IngestionTypeNext, SnapshotStep, PTL DEF Spec

\* A step of ingestion is a call, a write, a save or the end of a connection.
LEMMA IngestionStepIsTheBoxs ==
    IngestionTypeOK /\ [IngestionNext]_ingestionVars => [BoxNext]_boxVars
<1> SUFFICES ASSUME IngestionTypeOK, [IngestionNext]_ingestionVars
             PROVE  [BoxNext]_boxVars
  OBVIOUS
<1>1. CASE StartAll \/ StartOne \/ BinderChanges \/ Load \/ PassRow
  BY <1>1 DEF StartAll, StartOne, BinderChanges, Load, PassRow, boxVars
<1>2. CASE CreateDeck \/ UpdateDeck
  BY <1>2, RowIsADeck DEF CreateDeck, UpdateDeck, BoxNext, Kinds
<1>3. CASE CallStep \/ StampBox
  BY <1>3 DEF CallStep, StampBox, BoxNext
<1>4. CASE SaveBox
  BY <1>4, IngestionAssumption DEF SaveBox, BoxNext, IngestionTypeOK
<1>5. CASE MalformedRaises \/ SourceFails \/ Die
  BY <1>5 DEF MalformedRaises, SourceFails, Die, BoxNext
<1>6. CASE UNCHANGED ingestionVars
  BY <1>6 DEF ingestionVars, boxVars
<1> QED
  BY <1>1, <1>2, <1>3, <1>4, <1>5, <1>6 DEF IngestionNext, IngestionStep

\* Ingestion and what is derived from it use the box as it is meant to be used:
\* every step is a step of the box or leaves it alone.
THEOREM SnapshotsUseTheBox == Spec => BoxSpec
<1>1. Init => BoxInit
  BY DEF Init, IngestionInit
<1> QED
  BY <1>1, IngestionTypes, IngestionStepIsTheBoxs, SnapshotStep, PTL DEF Spec, BoxSpec

\* So what holds of the box holds while it is ingested and read.
THEOREM SnapshotsKeepCallsWhole == Spec => []CallsAreWhole
<1> QED
  BY SnapshotsUseTheBox, BoxCallsAreWhole, PTL

\* Nor does any process commit a change of decks beside a stamp.
THEOREM SnapshotsClearStamps == Spec => ChangeClearsStamp
<1> QED
  BY SnapshotsUseTheBox, BoxChangeClearsStamp, PTL

-----------------------------------------------------------------------------
(* What a stamped box holds (StampedSourceIsWhole).                        *)

\* The cards the open batch has once the call in progress is through.
CardsThen == IF InCall THEN CardsIn(call, savepoint) ELSE view.cards

\* A deck kept under its own cards has no other cards.
KeyedByCards(cards) == \A c \in CardLists : cards[c] \in {None, c}

\* The open batch has the decks of the source's rows so far.
RowsTaken ==
    \A i \in DOMAIN raw[run.source] : i < run.row =>
        LET c == CardsOf(run.source, i, run.binder)
        IN  c # Malformed => CardsThen[DeckIdOf(run.source, i, run.binder)] = c

StampInv ==
    /\ view.stamp \in {None, stored.stamp}
    /\ KeyedByCards(stored.cards) /\ KeyedByCards(CardsThen)
    /\ run.at \in {"down", "load"} => call.at = "idle"
    /\ run.at = "extract" => call.at # "stamp" /\ RowsTaken
    /\ run.at = "stamp" => /\ call.at = "stamp" /\ call.stamp = run.binder
                          /\ Extracted(run.source, run.binder)
    /\ stored.stamp # None => stamper # 0 /\ Extracted(stamper, stored.stamp)

\* What a step of ingestion keeps when it leaves the box alone.
LEMMA SameBoxSameStamp ==
    ASSUME UNCHANGED <<boxVars, game, raw>>
    PROVE  /\ CardsThen' = CardsThen /\ InCall' = InCall
           /\ \A s, v : Extracted(s, v)' <=> Extracted(s, v)
           /\ \A s, i, v : DeckIdOf(s, i, v)' = DeckIdOf(s, i, v) /\ CardsOf(s, i, v)' = CardsOf(s, i, v)
  BY DEF boxVars, CardsThen, CardsIn, InCall, Extracted, DeckIdOf, CardsOf

LEMMA StampInvInit ==
    ASSUME IngestionInit
    PROVE  StampInv
<1>1. /\ stored = EmptyBox /\ view = EmptyBox /\ call.at = "idle" /\ run.at = "down"
      /\ ~InCall
  BY DEF IngestionInit, BoxInit, Idle, Down, InCall
<1>2. KeyedByCards(EmptyBox.cards)
  BY IngestionAssumption DEF KeyedByCards, EmptyBox
<1> QED
  BY <1>1, <1>2 DEF StampInv, CardsThen, EmptyBox

\* A fresh connection reads what the file says.
LEMMA DiscardKeepsStamp ==
    ASSUME StampInv, Discard, NextSource \/ run' = Down,
           UNCHANGED <<world, stamper>>
    PROVE  StampInv'
<1>1. /\ stored' = stored /\ view' = stored /\ call'.at = "idle" /\ ~InCall'
      /\ run'.at \in {"down", "load"}
  <2>1. /\ [Down EXCEPT !.at = "load", !.source = run.source + 1, !.last = run.last].at = "load"
        /\ Down.at = "down"
    BY DEF Down
  <2>2. run'.at \in {"down", "load"}
    BY <2>1 DEF NextSource
  <2>3. stored' = stored /\ view' = stored /\ call'.at = "idle"
    BY DEF Discard, Idle
  <2> QED
    BY <2>2, <2>3 DEF InCall
<1>2. stored.stamp # None => Extracted(stamper, stored.stamp)'
  BY <1>1 DEF world, Extracted, DeckIdOf, CardsOf, StampInv
<1>3. KeyedByCards(stored.cards)' /\ KeyedByCards(CardsThen)'
  BY <1>1 DEF StampInv, CardsThen, KeyedByCards
<1> QED
  BY <1>1, <1>2, <1>3 DEF StampInv


\* A row that gives a deck names one the box knows.
LEMMA RowsGiveDecks ==
    ASSUME IngestionTypeOK, NEW s \in 1..2, NEW v \in Versions
    PROVE  /\ Len(raw[s]) \in Nat /\ DOMAIN raw[s] = 1..Len(raw[s])
           /\ \A i \in DOMAIN raw[s] :
                /\ i \in Int /\ 1 <= i /\ i <= Len(raw[s]) /\ <<s, i>> \in Positions
                /\ CardsOf(s, i, v) # Malformed =>
                     CardsOf(s, i, v) \in CardLists /\ DeckIdOf(s, i, v) \in DeckIds
<1>1. raw[s] \in Seq([Versions -> CardLists \cup {Malformed}]) /\ Len(raw[s]) <= 2
  BY IngestionAssumption DEF IngestionTypeOK
<1>2. Len(raw[s]) \in Nat /\ DOMAIN raw[s] = 1..Len(raw[s])
  BY <1>1
<1>3. ASSUME NEW i \in DOMAIN raw[s]
      PROVE  /\ i \in 1..2 /\ i <= Len(raw[s]) /\ <<s, i>> \in Positions
             /\ raw[s][i] \in [Versions -> CardLists \cup {Malformed}]
  BY <1>1, <1>2, <1>3 DEF Positions
<1>4. ASSUME NEW i \in DOMAIN raw[s], CardsOf(s, i, v) # Malformed
      PROVE  CardsOf(s, i, v) \in CardLists /\ DeckIdOf(s, i, v) \in DeckIds
  BY <1>3, <1>4, IngestionAssumption DEF CardsOf, DeckIdOf
<1> QED
  BY <1>2, <1>3, <1>4

\* A row of the source that gives a deck: its deck is keyed by its place or by
\* its cards, and no earlier row gave that deck other cards.
LEMMA RowKey ==
    ASSUME IngestionTypeOK, Extracting, RowCards # Malformed
    PROVE  /\ RowCards \in CardLists /\ RowDeck \in DeckIds
           /\ RowDeck = RowCards \/ RowDeck \notin CardLists
           /\ \A i \in DOMAIN raw[run.source] :
                i < run.row /\ DeckIdOf(run.source, i, run.binder) = RowDeck
                  => CardsOf(run.source, i, run.binder) = RowCards
<1>1. RowCards \in CardLists /\ RowDeck \in DeckIds
  BY RowIsADeck
<1>2. /\ run.source \in 1..2 /\ run.row \in Nat /\ 1 <= run.row
      /\ run.row <= Len(raw[run.source]) /\ run.binder \in Versions
  BY DEF IngestionTypeOK, Extracting
<1>3. run.row \in DOMAIN raw[run.source]
  BY <1>2, RowsGiveDecks
<1>4. CASE game[run.source].identity = "source id"
  <2>1. RowDeck = <<run.source, run.row>> /\ RowDeck \in Positions
    BY <1>2, <1>3, <1>4, RowsGiveDecks DEF RowDeck, DeckIdOf
  <2>2. ASSUME NEW i \in DOMAIN raw[run.source], i < run.row,
               DeckIdOf(run.source, i, run.binder) = RowDeck
        PROVE  FALSE
    <3>1. i \in Int
      BY <1>2, RowsGiveDecks
    <3>2. i # run.row
      BY <1>2, <2>2, <3>1
    <3>3. <<run.source, i>> = <<run.source, run.row>>
      BY <1>4, <2>1, <2>2 DEF DeckIdOf
    <3> QED
      BY <3>2, <3>3
  <2> QED
    BY <1>1, <2>1, <2>2, IngestionAssumption
<1>5. CASE game[run.source].identity # "source id"
  BY <1>1, <1>5 DEF RowDeck, RowCards, DeckIdOf
<1> QED
  BY <1>4, <1>5

-----------------------------------------------------------------------------

\* The process starts, loads its box, or the binder changes.
LEMMA StartKeepsStamp ==
    ASSUME StampInv, IngestionTypeOK,
           StartAll \/ StartOne \/ Load \/ BinderChanges
    PROVE  StampInv'
<1>1. UNCHANGED <<boxVars, game, raw>> /\ stamper' = stamper
  BY DEF StartAll, StartOne, Load, BinderChanges, world
<1>2. /\ CardsThen' = CardsThen /\ stored' = stored /\ view' = view /\ call' = call
      /\ \A s, v : Extracted(s, v)' <=> Extracted(s, v)
  BY <1>1, SameBoxSameStamp DEF boxVars
<1>3. /\ KeyedByCards(stored.cards)' /\ KeyedByCards(CardsThen)'
      /\ stored'.stamp # None => stamper' # 0 /\ Extracted(stamper, stored.stamp)'
  BY <1>1, <1>2 DEF StampInv, KeyedByCards, Extracted, CardsOf, DeckIdOf
<1>4. CASE StartAll \/ StartOne
  <2>1. run'.at = "load" /\ run.at = "down"
    BY <1>4 DEF StartAll, StartOne, Down
  <2> QED
    BY <1>1, <1>2, <1>3, <2>1 DEF StampInv
<1>5. CASE Load
  <2>1. run'.at = "extract" /\ run.at = "load" /\ run'.row = 1 /\ run'.source = run.source
    BY <1>5 DEF Load, IngestionTypeOK
  <2>2. RowsTaken'
    <3>1. run.source \in 1..2 /\ 0 \in Versions
      BY <2>1, IngestionAssumption DEF IngestionTypeOK, Versions
    <3>2. \A i \in DOMAIN raw[run.source] : ~(i < 1)
      <4> SUFFICES ASSUME NEW i \in DOMAIN raw[run.source] PROVE ~(i < 1)
        OBVIOUS
      <4>1. i \in Int /\ 1 <= i
        BY <3>1, RowsGiveDecks
      <4> QED
        BY <4>1
    <3> QED
      BY <1>1, <2>1, <3>2 DEF RowsTaken
  <2> QED
    BY <1>1, <1>2, <1>3, <2>1, <2>2 DEF StampInv
<1>6. CASE BinderChanges
  <2>1. run' = run /\ game' = game /\ raw' = raw
    BY <1>6 DEF BinderChanges, world
  <2>2. RowsTaken => RowsTaken'
    BY <1>2, <2>1 DEF RowsTaken, CardsOf, DeckIdOf
  <2>3. Extracted(run.source, run.binder) => Extracted(run.source, run.binder)'
    <3>1. stored' = stored
      BY <1>2
    <3> QED
      BY <2>1, <3>1 DEF Extracted, CardsOf, DeckIdOf
  <2> QED
    BY <1>2, <1>3, <2>1, <2>2, <2>3 DEF StampInv
<1> QED
  BY <1>4, <1>5, <1>6

\* One more row of the source is in the open batch.
LEMMA OneRowMore ==
    ASSUME IngestionTypeOK, Extracting, Advance, UNCHANGED world,
           \A i \in DOMAIN raw[run.source] : i < run.row =>
             LET c == CardsOf(run.source, i, run.binder)
             IN  c # Malformed => CardsThen'[DeckIdOf(run.source, i, run.binder)] = c,
           RowCards # Malformed => CardsThen'[RowDeck] = RowCards
    PROVE  RowsTaken' /\ run'.at = "extract"
<1>1. /\ run'.row = run.row + 1 /\ run'.source = run.source
      /\ run'.binder = run.binder /\ run'.at = "extract"
  BY DEF Advance, Extracting, IngestionTypeOK
<1>2. game' = game /\ raw' = raw
  BY DEF world
<1>3. run.source \in 1..2 /\ run.binder \in Versions /\ run.row \in Nat
  BY DEF Extracting, IngestionTypeOK
<1>4. ASSUME NEW i \in DOMAIN raw[run.source], i < run.row + 1
      PROVE  CardsOf(run.source, i, run.binder) # Malformed =>
               CardsThen'[DeckIdOf(run.source, i, run.binder)]
                 = CardsOf(run.source, i, run.binder)
  <2>1. i \in Int
    BY <1>3, RowsGiveDecks
  <2>2. i < run.row \/ i = run.row
    BY <1>3, <1>4, <2>1
  <2> QED
    BY <2>2 DEF RowCards, RowDeck
<1> QED
  BY <1>1, <1>2, <1>4 DEF RowsTaken, CardsOf, DeckIdOf

\* A row is left alone: the batch has its deck already, or it gives none.
LEMMA PassKeepsStamp ==
    ASSUME StampInv, BoxInv, IngestionTypeOK, PassRow
    PROVE  StampInv'
<1>1. UNCHANGED <<boxVars, game, raw>> /\ stamper' = stamper /\ Extracting /\ Advance
      /\ run.at = "extract" /\ call.at = "idle"
  BY DEF PassRow, world, Extracting
<1>2. /\ CardsThen' = CardsThen /\ stored' = stored /\ view' = view /\ call' = call
      /\ \A s, v : Extracted(s, v)' <=> Extracted(s, v)
  BY <1>1, SameBoxSameStamp DEF boxVars
<1>3. CardsThen = view.cards /\ Whole(view)
  BY <1>1 DEF CardsThen, InCall, BoxInv, Sound
<1>4. ASSUME RowCards # Malformed PROVE CardsThen[RowDeck] = RowCards
  <2>1. /\ RowCards \in CardLists /\ RowDeck \in DeckIds
        /\ RowDeck \in view.rows
        /\ game[run.source].identity = "source id" => ~Differs
    BY <1>1, <1>4, RowKey DEF PassRow
  <2>2. CASE game[run.source].identity = "source id"
    BY <1>3, <2>1, <2>2 DEF Differs
  <2>3. CASE game[run.source].identity # "source id"
    <3>1. RowDeck = RowCards
      BY <2>3 DEF RowDeck, RowCards, DeckIdOf
    <3>2. view.cards[RowDeck] # None
      BY <1>3, <2>1 DEF Whole
    <3>3. KeyedByCards(view.cards)
      BY <1>3 DEF StampInv
    <3> QED
      BY <1>3, <2>1, <3>1, <3>2, <3>3 DEF KeyedByCards
  <2> QED
    BY <2>2, <2>3
<1>5. RowsTaken' /\ run'.at = "extract"
  <2>1. RowsTaken
    BY <1>1 DEF StampInv
  <2> QED
    BY <1>1, <1>2, <1>4, <2>1, OneRowMore DEF RowsTaken, world
<1>6. stored'.stamp # None => stamper' # 0 /\ Extracted(stamper, stored.stamp)'
  BY <1>1, <1>2 DEF StampInv
<1> QED
  BY <1>1, <1>2, <1>5, <1>6 DEF StampInv, KeyedByCards, Extracted, CardsOf, DeckIdOf

\* A row's call begins.
LEMMA CallKeepsStamp ==
    ASSUME StampInv, BoxInv, IngestionTypeOK, CreateDeck \/ UpdateDeck
    PROVE  StampInv'
<1>1. /\ UNCHANGED <<stored, game, raw, stamper>> /\ Extracting /\ Advance
      /\ run.at = "extract" /\ call.at = "idle" /\ RowCards # Malformed
      /\ BeginCall("create", RowDeck, RowCards) \/ BeginCall("update", RowDeck, RowCards)
  BY DEF CreateDeck, UpdateDeck, BeginCall, world, Extracting
<1>2. /\ call'.at = "row" /\ call'.deck = RowDeck /\ call'.cards = RowCards
      /\ call'.kind # "delete" /\ savepoint' = view /\ view'.stamp = None
  BY <1>1 DEF BeginCall, Cleared, BoxInv, BoxTypeOK, BoxContent
<1>3. /\ CardsThen = view.cards
      /\ CardsThen' = [view.cards EXCEPT ![RowDeck] = RowCards]
  BY <1>1, <1>2 DEF CardsThen, InCall, CardsIn
<1>4. /\ RowCards \in CardLists /\ RowDeck \in DeckIds
      /\ RowDeck = RowCards \/ RowDeck \notin CardLists
  BY <1>1, RowKey
<1>5. view.cards \in [DeckIds -> CardLists \cup {None}]
  BY DEF BoxInv, BoxTypeOK, BoxContent
<1>6. KeyedByCards(CardsThen)'
  <2>1. KeyedByCards(view.cards) /\ CardLists \subseteq DeckIds
    BY <1>3, IngestionAssumption DEF StampInv
  <2> QED
    BY <1>3, <1>4, <1>5, <2>1 DEF KeyedByCards
<1>7. RowsTaken' /\ run'.at = "extract"
  <2>1. RowsTaken /\ run.source \in 1..2 /\ run.binder \in Versions
    BY <1>1 DEF StampInv, IngestionTypeOK
  <2>2. ASSUME NEW i \in DOMAIN raw[run.source], i < run.row,
               CardsOf(run.source, i, run.binder) # Malformed
        PROVE  CardsThen'[DeckIdOf(run.source, i, run.binder)]
                 = CardsOf(run.source, i, run.binder)
    <3>1. DeckIdOf(run.source, i, run.binder) \in DeckIds
      BY <2>1, <2>2, RowsGiveDecks
    <3>2. view.cards[DeckIdOf(run.source, i, run.binder)] = CardsOf(run.source, i, run.binder)
      BY <1>3, <2>1, <2>2 DEF RowsTaken
    <3>3. DeckIdOf(run.source, i, run.binder) = RowDeck
            => CardsOf(run.source, i, run.binder) = RowCards
      BY <1>1, <2>2, RowKey
    <3> QED
      BY <1>3, <1>5, <3>1, <3>2, <3>3
  <2>3. CardsThen'[RowDeck] = RowCards
    BY <1>3, <1>4, <1>5
  <2> QED
    BY <1>1, <2>2, <2>3, OneRowMore DEF world
<1>8. stored'.stamp # None => stamper' # 0 /\ Extracted(stamper, stored.stamp)'
  BY <1>1 DEF StampInv, Extracted, CardsOf, DeckIdOf
<1>9. KeyedByCards(stored.cards)'
  BY <1>1 DEF StampInv, KeyedByCards
<1> QED
  BY <1>2, <1>6, <1>7, <1>8, <1>9 DEF StampInv

\* The rest of a call, and the commit of a full batch: a batch that still has
\* the file's stamp has the file's decks.
LEMMA CallStepKeepsStamp ==
    ASSUME StampInv, BoxInv, IngestionTypeOK, CallStep
    PROVE  StampInv'
<1>1. UNCHANGED <<game, raw, stamper, run>> /\ run.at = "extract"
  BY DEF CallStep, world
<1>2. ASSUME CardsThen' = CardsThen, view'.stamp \in {None, stored'.stamp},
             stored' = stored, call'.at # "stamp"
      PROVE  StampInv'
  BY <1>1, <1>2 DEF StampInv, KeyedByCards, RowsTaken, Extracted, CardsOf, DeckIdOf
<1>3. CASE WriteRow \/ WriteCards
  <2>1. InCall /\ call \in Call
    BY <1>3 DEF WriteRow, WriteCards, InCall, BoxInv, BoxTypeOK
  <2>2. /\ call'.kind = call.kind /\ call'.deck = call.deck /\ call'.cards = call.cards
        /\ call'.at \in {"cards", "release"} /\ savepoint' = savepoint
    BY <1>3, <2>1 DEF WriteRow, WriteCards, Call, InCall
  <2>3. CardsThen' = CardsThen
    BY <2>1, <2>2 DEF CardsThen, CardsIn, InCall
  <2>4. view'.stamp = view.stamp /\ stored' = stored
    BY <1>3 DEF WriteRow, WriteCards, BoxInv, BoxTypeOK, BoxContent
  <2> QED
    BY <1>2, <2>2, <2>3, <2>4 DEF StampInv
<1>4. CASE Release
  <2>1. InCall /\ call.at = "release"
    BY <1>4 DEF Release, InCall
  <2>2. call'.at \in {"flush", "idle"} /\ view' = view /\ stored' = stored
    BY <1>4 DEF Release, Idle
  <2>3. CardsThen' = CardsThen
    BY <2>1, <2>2 DEF CardsThen, InCall, BoxInv, CallSoFar
  <2> QED
    BY <1>2, <2>2, <2>3 DEF StampInv
<1>5. CASE Flush
  <2>1. ~InCall /\ ~InCall' /\ view' = view /\ stored' = view /\ call'.at = "idle"
    BY <1>5 DEF Flush, InCall, Idle
  <2>2. CardsThen = view.cards /\ CardsThen' = view.cards
    BY <2>1 DEF CardsThen
  <2>3. view.stamp # None => view.stamp = stored.stamp /\ view.cards = stored.cards
    BY <2>1 DEF BoxInv, Sound, StampInv
  <2>4. stored'.stamp # None => stamper # 0 /\ Extracted(stamper, stored.stamp)'
    BY <1>1, <2>1, <2>3 DEF StampInv, Extracted, CardsOf, DeckIdOf
  <2>5. RowsTaken'
    BY <1>1, <2>2 DEF StampInv, RowsTaken, CardsOf, DeckIdOf
  <2> QED
    BY <1>1, <2>1, <2>2, <2>4, <2>5 DEF StampInv, KeyedByCards
<1> QED
  BY <1>3, <1>4, <1>5 DEF CallStep

\* save() commits the whole of the source before its stamp is written.
LEMMA SaveKeepsStamp ==
    ASSUME StampInv, BoxInv, IngestionTypeOK, SaveBox
    PROVE  StampInv'
<1>1. /\ UNCHANGED <<game, raw, stamper>> /\ run.at = "extract"
      /\ run.row > Len(raw[run.source]) /\ Save(run.binder) /\ call.at = "idle"
      /\ run'.at = "stamp" /\ run'.source = run.source /\ run'.binder = run.binder
  BY DEF SaveBox, Save, world, IngestionTypeOK
<1>2. /\ ~InCall /\ ~InCall' /\ view' = view /\ stored' = view
      /\ call'.at = "stamp" /\ call'.stamp = run.binder
  BY <1>1 DEF Save, InCall
<1>3. CardsThen = view.cards /\ CardsThen' = view.cards
  BY <1>2 DEF CardsThen
<1>4. view.stamp # None => view.stamp = stored.stamp /\ view.cards = stored.cards
  BY <1>2 DEF BoxInv, Sound, StampInv
<1>5. stored'.stamp # None => stamper # 0 /\ Extracted(stamper, stored.stamp)'
  BY <1>1, <1>2, <1>4 DEF StampInv, Extracted, CardsOf, DeckIdOf
<1>6. Extracted(run.source, run.binder)'
  <2>1. /\ RowsTaken /\ run.source \in 1..2 /\ run.binder \in Versions
        /\ run.row \in Nat
    BY <1>1 DEF StampInv, IngestionTypeOK
  <2>2. ASSUME NEW i \in DOMAIN raw[run.source] PROVE i < run.row
    <3>1. i \in Int /\ i <= Len(raw[run.source]) /\ Len(raw[run.source]) \in Nat
      BY <2>1, RowsGiveDecks
    <3> QED
      BY <1>1, <2>1, <3>1
  <2>3. \A i \in DOMAIN raw[run.source] :
          CardsOf(run.source, i, run.binder) # Malformed =>
            view.cards[DeckIdOf(run.source, i, run.binder)]
              = CardsOf(run.source, i, run.binder)
    BY <1>3, <2>1, <2>2 DEF RowsTaken
  <2> QED
    BY <1>1, <1>2, <2>3 DEF Extracted, CardsOf, DeckIdOf
<1> QED
  BY <1>1, <1>2, <1>3, <1>5, <1>6 DEF StampInv, KeyedByCards

\* The stamp is written: of the binder the committed decks were made with.
LEMMA StampKeepsStamp ==
    ASSUME StampInv, BoxInv, IngestionTypeOK, StampBox
    PROVE  StampInv'
<1>1. /\ UNCHANGED <<game, raw>> /\ stamper' = run.source /\ run.at = "stamp"
      /\ WriteStamp /\ NextSource
  BY DEF StampBox, world
<1>2. run'.at \in {"down", "load"}
  <2>1. /\ [Down EXCEPT !.at = "load", !.source = run.source + 1, !.last = run.last].at = "load"
        /\ Down.at = "down"
    BY DEF Down
  <2> QED
    BY <1>1, <2>1 DEF NextSource
<1>3. /\ call.at = "stamp" /\ call.stamp = run.binder /\ ~InCall
      /\ call'.at = "idle" /\ ~InCall'
  BY <1>1 DEF StampInv, WriteStamp, InCall, Idle
<1>4. /\ stored'.stamp = run.binder /\ view'.stamp = run.binder
      /\ stored'.cards = stored.cards /\ view'.cards = view.cards
  BY <1>1, <1>3 DEF WriteStamp, BoxInv, BoxTypeOK, BoxContent
<1>5. CardsThen = view.cards /\ CardsThen' = view.cards
  BY <1>3, <1>4 DEF CardsThen
<1>6. stamper' # 0 /\ Extracted(stamper, stored.stamp)'
  <2>1. Extracted(run.source, run.binder)
    BY <1>1 DEF StampInv
  <2>2. run.source # 0
    BY <1>1 DEF IngestionTypeOK
  <2> QED
    BY <1>1, <1>4, <2>1, <2>2 DEF Extracted, CardsOf, DeckIdOf
<1> QED
  BY <1>2, <1>3, <1>4, <1>5, <1>6 DEF StampInv, KeyedByCards

\* One step per action of ingestion.
LEMMA StampInvNext ==
    ASSUME StampInv, BoxInv, IngestionTypeOK, [IngestionNext]_ingestionVars
    PROVE  StampInv'
<1>1. CASE StartAll \/ StartOne \/ Load \/ BinderChanges
  BY <1>1, StartKeepsStamp
<1>2. CASE PassRow
  BY <1>2, PassKeepsStamp
<1>3. CASE CreateDeck \/ UpdateDeck
  BY <1>3, CallKeepsStamp
<1>4. CASE CallStep
  BY <1>4, CallStepKeepsStamp
<1>5. CASE SaveBox
  BY <1>5, SaveKeepsStamp
<1>6. CASE StampBox
  BY <1>6, StampKeepsStamp
<1>7. CASE MalformedRaises \/ SourceFails \/ Die
  BY <1>7, DiscardKeepsStamp DEF MalformedRaises, SourceFails, Die
<1>8. CASE UNCHANGED ingestionVars
  BY <1>8 DEF ingestionVars, boxVars, StampInv, KeyedByCards, CardsThen, CardsIn, InCall,
              RowsTaken, Extracted, CardsOf, DeckIdOf
<1> QED
  BY <1>1, <1>2, <1>3, <1>4, <1>5, <1>6, <1>7, <1>8 DEF IngestionNext, IngestionStep

\* Ingestion keeps the stamp invariant, with every reader of the box beside it.
LEMMA StampInvariant == Spec => []StampInv
<1>1. Init => StampInv
  BY StampInvInit DEF Init
<1>2. Spec => []BoxInv
  BY SnapshotsUseTheBox, BoxInvariant, PTL
<1>3. StampInv /\ BoxInv /\ IngestionTypeOK /\ [Next]_vars => StampInv'
  BY StampInvNext, SnapshotStep
<1> QED
  BY <1>1, <1>2, <1>3, IngestionTypes, PTL DEF Spec

\* A stamped file holds every deck of the source that stamped it, with the
\* cards they have under the stamp's binder, for any sources, rows and batches.
THEOREM StampedSourcesAreWhole == Spec => []StampedSourceIsWhole
<1>1. StampInv /\ IngestionTypeOK => StampedSourceIsWhole
  BY DEF StampInv, StampedSourceIsWhole
<1> QED
  BY <1>1, StampInvariant, IngestionTypes, PTL

-----------------------------------------------------------------------------
(* What is derived from a box that grows (OpenSnapshotHoldsEveryDeck).     *)

\* Ingestion takes no deck out of the box again.
Growing ==
    /\ InCall => call.kind # "delete"
    /\ stored.rows \subseteq view.rows
    /\ IsFiniteSet(view.rows) /\ IsFiniteSet(stored.rows)

LEMMA GrowingInit == IngestionInit => Growing
BY FS_EmptySet DEF IngestionInit, BoxInit, EmptyBox, Idle, InCall, Growing

\* One step per action of ingestion that changes the box.
LEMMA GrowingNext ==
    ASSUME Growing, BoxInv, IngestionTypeOK, [IngestionNext]_ingestionVars
    PROVE  Growing' /\ stored.rows \subseteq stored'.rows
<1> USE DEF Growing
<1>1. CASE CreateDeck \/ UpdateDeck
  <2>1. /\ BeginCall("create", RowDeck, RowCards) \/ BeginCall("update", RowDeck, RowCards)
        /\ stored' = stored
    BY <1>1 DEF CreateDeck, UpdateDeck, BeginCall
  <2>2. call'.kind # "delete" /\ view'.rows = view.rows
    BY <2>1 DEF BeginCall, Cleared, BoxInv, BoxTypeOK, BoxContent
  <2> QED
    BY <2>1, <2>2
<1>2. CASE CallStep
  <2>1. CASE WriteRow
    <3>1. /\ InCall /\ call.kind # "delete" /\ stored' = stored
          /\ call'.kind = call.kind
      BY <2>1 DEF WriteRow, InCall, BoxInv, BoxTypeOK, Call
    <3>2. view'.rows = view.rows \cup {call.deck}
      BY <2>1, <3>1 DEF WriteRow, RowsAfter, BoxInv, BoxTypeOK, BoxContent
    <3>3. IsFiniteSet(view.rows \cup {call.deck})
      BY FS_AddElement
    <3> QED
      BY <3>1, <3>2, <3>3
  <2>2. CASE WriteCards
    <3>1. /\ InCall /\ call.kind # "delete" /\ stored' = stored
          /\ call'.kind = call.kind
      BY <2>2 DEF WriteCards, InCall, BoxInv, BoxTypeOK, Call
    <3>2. view'.rows = view.rows
      BY <2>2 DEF WriteCards, BoxInv, BoxTypeOK, BoxContent
    <3> QED
      BY <3>1, <3>2
  <2>3. CASE Release
    BY <2>3 DEF Release, Idle, InCall
  <2>4. CASE Flush
    BY <2>4 DEF Flush, Idle, InCall
  <2> QED
    BY <1>2, <2>1, <2>2, <2>3, <2>4 DEF CallStep
<1>3. CASE SaveBox
  BY <1>3 DEF SaveBox, Save, InCall
<1>4. CASE StampBox
  BY <1>4 DEF StampBox, WriteStamp, Idle, InCall, BoxInv, BoxTypeOK, BoxContent
<1>5. CASE MalformedRaises \/ SourceFails \/ Die
  BY <1>5 DEF MalformedRaises, SourceFails, Die, Discard, Idle, InCall
<1>6. CASE UNCHANGED boxVars
  BY <1>6 DEF boxVars, InCall
<1>7. StartAll \/ StartOne \/ Load \/ BinderChanges \/ PassRow \/ UNCHANGED ingestionVars
        => UNCHANGED boxVars
  BY DEF StartAll, StartOne, Load, BinderChanges, PassRow, ingestionVars
<1> HIDE DEF Growing
<1> QED
  BY <1>1, <1>2, <1>3, <1>4, <1>5, <1>6, <1>7 DEF IngestionNext, IngestionStep

\* A number of decks a finite set has no fewer than.
AtLeast(n, decks) == n \in Nat /\ n <= Cardinality(decks)

\* Of a set of decks of the box: read after so many were counted.
ReadAfter(version, decks) ==
    /\ version \in Stamps \X Nat
    /\ decks \subseteq stored.rows
    /\ AtLeast(version[2], decks)

BuilderInv ==
    /\ Growing
    /\ builder.at \in {"down", "cards", "decks", "stamp", "count", "read", "write"}
    /\ "at" \in DOMAIN builder
    /\ builder.at = "count" => builder.stamp \in Stamps
    /\ builder.at = "read" => ReadAfter(builder.box, stored.rows)
    /\ builder.at = "write" => ReadAfter(builder.box, builder.decks)
    /\ deckFile # None => ReadAfter(deckFile.box, deckFile.decks)

\* What was read stays in the box as it grows; so does the count of it.
LEMMA BoxGrows ==
    ASSUME Growing, Growing', stored.rows \subseteq stored'.rows
    PROVE  /\ \A version, decks : ReadAfter(version, decks) => ReadAfter(version, decks)'
           /\ \A version : ReadAfter(version, stored.rows)
                            => ReadAfter(version, stored.rows)'
<1>1. \A version, decks : ReadAfter(version, decks) => ReadAfter(version, decks)'
  BY DEF ReadAfter, AtLeast
<1>2. /\ Cardinality(stored.rows) <= Cardinality(stored'.rows)
      /\ Cardinality(stored.rows) \in Nat /\ Cardinality(stored'.rows) \in Nat
  BY FS_Subset, FS_CardinalityType DEF Growing
<1>3. \A version : ReadAfter(version, stored.rows) => ReadAfter(version, stored.rows)'
  <2> SUFFICES ASSUME NEW version, ReadAfter(version, stored.rows)
               PROVE  ReadAfter(version, stored.rows)'
    OBVIOUS
  <2>1. version[2] \in Nat /\ version[2] <= Cardinality(stored'.rows)
    BY <1>2 DEF ReadAfter, AtLeast
  <2> QED
    BY <2>1 DEF ReadAfter, AtLeast
<1> QED
  BY <1>1, <1>3

LEMMA BuilderInvInit == Init => BuilderInv
BY GrowingInit DEF Init, BuilderInv, NoProcess

\* One step per action of the builder: the decks are counted before they are read.
LEMMA BuilderInvNext ==
    ASSUME BuilderInv, BoxInv, IngestionTypeOK, [Next]_vars
    PROVE  BuilderInv'
<1>1. Growing' /\ stored.rows \subseteq stored'.rows
  BY GrowingNext, SnapshotStep DEF BuilderInv
<1>2. /\ \A version, decks : ReadAfter(version, decks) => ReadAfter(version, decks)'
      /\ \A version : ReadAfter(version, stored.rows) => ReadAfter(version, stored.rows)'
  BY <1>1, BoxGrows DEF BuilderInv
<1>3. CASE UNCHANGED <<builder, deckFile>>
  BY <1>1, <1>2, <1>3 DEF BuilderInv
<1>4. CASE BuilderNext
  <2>1. stored' = stored
    BY <1>4 DEF BuilderNext, StartBuild, BuildCards, KeepDecks, CheckStamp, ReadStamp,
                CountDecks, ReadDecks, WriteDecks, BuildFails, ingestionVars, boxVars
  <2>2. CASE StartBuild \/ BuildCards \/ KeepDecks \/ CheckStamp \/ BuildFails
    <3>1. CASE BuildCards
      BY <1>1, <1>2, <3>1 DEF BuildCards, BuilderInv
    <3>2. CASE StartBuild \/ KeepDecks \/ CheckStamp \/ BuildFails
      <4>1. /\ deckFile' = deckFile /\ "at" \in DOMAIN builder'
            /\ builder'.at \in {"down", "cards", "decks", "stamp"}
        BY <3>2 DEF StartBuild, KeepDecks, CheckStamp, BuildFails, NoProcess
      <4> QED
        BY <1>1, <1>2, <4>1 DEF BuilderInv
    <3> QED
      BY <2>2, <3>1, <3>2
  <2>3. CASE ReadStamp
    <3>1. stored.stamp \in Stamps \cup {None}
      BY DEF BoxInv, BoxTypeOK, BoxContent
    <3>2. /\ deckFile' = deckFile /\ "at" \in DOMAIN builder'
          /\ builder'.at = "down" \/ (builder'.at = "count" /\ builder'.stamp \in Stamps)
      BY <2>3, <3>1 DEF ReadStamp, NoProcess
    <3> QED
      BY <1>1, <1>2, <3>2 DEF BuilderInv
  <2>4. CASE CountDecks
    <3>1. /\ deckFile' = deckFile /\ "at" \in DOMAIN builder' /\ builder'.at = "read"
          /\ builder'.box = <<builder.stamp, Cardinality(stored.rows)>>
          /\ builder.stamp \in Stamps
      BY <2>4, DeckBoxAssumption DEF CountDecks, VersionFor, BuilderInv
    <3>2. Cardinality(stored.rows) \in Nat
      BY FS_CardinalityType DEF BuilderInv, Growing
    <3>3. ReadAfter(builder.box, stored.rows)'
      BY <2>1, <3>1, <3>2 DEF ReadAfter, AtLeast
    <3> QED
      BY <1>1, <1>2, <3>1, <3>3 DEF BuilderInv
  <2>5. CASE ReadDecks
    <3>1. /\ deckFile' = deckFile /\ "at" \in DOMAIN builder' /\ builder'.at = "write"
          /\ builder'.box = builder.box /\ builder'.decks = stored.rows
          /\ builder.at = "read"
      BY <2>5 DEF ReadDecks
    <3>2. ReadAfter(builder.box, builder.decks)'
      BY <2>1, <3>1 DEF BuilderInv, ReadAfter
    <3> QED
      BY <1>1, <1>2, <3>1, <3>2 DEF BuilderInv
  <2>6. CASE WriteDecks
    <3>1. /\ deckFile'.box = builder.box /\ deckFile'.decks = builder.decks
          /\ builder.at = "write" /\ "at" \in DOMAIN builder' /\ builder'.at = "down"
      BY <2>6 DEF WriteDecks, NoProcess
    <3>2. ReadAfter(deckFile.box, deckFile.decks)'
      BY <2>1, <3>1 DEF BuilderInv, ReadAfter
    <3> QED
      BY <1>1, <3>1, <3>2 DEF BuilderInv
  <2> QED
    BY <1>4, <2>2, <2>3, <2>4, <2>5, <2>6 DEF BuilderNext
<1>5. (IngestionNext /\ UNCHANGED <<builderVars, trainerVars>>) \/ TrainerNext \/ UNCHANGED vars
        => UNCHANGED <<builder, deckFile>>
  BY DEF TrainerNext, OpenSnapshots, LoadSplit, LoadTable, LoadNeighbours, StopTraining,
         builderVars, vars
<1> QED
  BY <1>3, <1>4, <1>5 DEF Next

\* The builder's invariant, with ingestion and training beside it.
LEMMA BuilderInvariant == Spec => []BuilderInv
<1>1. Spec => []BoxInv
  BY SnapshotsUseTheBox, BoxInvariant, PTL
<1>2. BuilderInv /\ BoxInv /\ IngestionTypeOK /\ [Next]_vars => BuilderInv'
  BY BuilderInvNext
<1> QED
  BY BuilderInvInit, <1>1, <1>2, IngestionTypes, PTL DEF Spec

\* A file that opens has as many decks as the box, and they are of the box.
LEMMA OpenedIsWhole ==
    ASSUME BuilderInv, Opens
    PROVE  /\ deckFile.decks = stored.rows
           /\ deckFile.box[2] = Cardinality(stored.rows)
<1>1. /\ deckFile # None /\ ReadAfter(deckFile.box, deckFile.decks)
      /\ deckFile.box = VersionFor(stored.stamp, stored.rows)
  BY DEF Opens, CurrentFor, BuilderInv
<1>2. deckFile.box # None
  BY <1>1, SnapshotAssumption DEF ReadAfter
<1>3. deckFile.box[2] = Cardinality(stored.rows)
  BY <1>1, <1>2 DEF VersionFor
<1>4. /\ deckFile.decks \subseteq stored.rows /\ IsFiniteSet(stored.rows)
      /\ Cardinality(stored.rows) <= Cardinality(deckFile.decks)
  BY <1>1, <1>3 DEF ReadAfter, AtLeast, BuilderInv, Growing
<1>5. /\ Cardinality(deckFile.decks) <= Cardinality(stored.rows)
      /\ Cardinality(deckFile.decks) = Cardinality(stored.rows)
           => deckFile.decks = stored.rows
      /\ Cardinality(stored.rows) \in Nat /\ Cardinality(deckFile.decks) \in Nat
  BY <1>4, FS_Subset, FS_CardinalityType
<1> QED
  BY <1>3, <1>4, <1>5

\* A deck snapshot that opens holds every deck of the box and no other, though
\* its version names only their number, which is read before the decks.
THEOREM OpenSnapshotsAreWhole == Spec => []OpenSnapshotHoldsEveryDeck
<1>1. BuilderInv => OpenSnapshotHoldsEveryDeck
  BY OpenedIsWhole DEF OpenSnapshotHoldsEveryDeck
<1> QED
  BY <1>1, BuilderInvariant, PTL

-----------------------------------------------------------------------------
(* What a training process makes of it (TrainerHoldsOneDeckSet).           *)

\* The sets of decks that training holds or keeps in a file, by their number.
Held ==
    (IF trainer.at = "down" THEN {}
     ELSE {<<trainer.decks.box[2], trainer.decks.decks>>})
    \cup (IF splitFile = None THEN {} ELSE {<<splitFile.stamp[2][2], splitFile.rows>>})
    \cup (IF tableFile = None THEN {} ELSE {<<tableFile.stamp[2][2], tableFile.of>>})
    \cup (IF nearFile = None THEN {} ELSE {<<nearFile.stamp[2][2], nearFile.of>>})

\* Each was all of the box once, and the box only grows.
OfTheBox(held) ==
    /\ \A h \in held : h[2] \subseteq stored.rows /\ h[1] = Cardinality(h[2])
    /\ \A g, h \in held : g[2] \subseteq h[2] \/ h[2] \subseteq g[2]

TrainerInv ==
    /\ OfTheBox(Held)
    /\ trainer.at \in {"down", "split", "table", "neighbours", "done"}
    /\ trainer.at \in {"table", "neighbours", "done"} =>
         trainer.rows = trainer.decks.decks
    /\ trainer.at \in {"neighbours", "done"} => trainer.table = trainer.rows
    /\ trainer.at = "done" => trainer.near = trainer.table

\* Sets of one number, one of them inside the other, are one set.
LEMMA SameNumberSameDecks ==
    ASSUME Growing, NEW held, OfTheBox(held), NEW g \in held, NEW h \in held,
           g[1] = h[1]
    PROVE  g[2] = h[2]
<1>1. /\ g[2] \subseteq stored.rows /\ h[2] \subseteq stored.rows
      /\ Cardinality(g[2]) = Cardinality(h[2])
  BY DEF OfTheBox
<1>2. IsFiniteSet(g[2]) /\ IsFiniteSet(h[2])
  BY <1>1, FS_Subset DEF Growing
<1>3. CASE g[2] \subseteq h[2]
  BY <1>1, <1>2, <1>3, FS_Subset
<1>4. CASE h[2] \subseteq g[2]
  BY <1>1, <1>2, <1>4, FS_Subset
<1> QED
  BY <1>3, <1>4 DEF OfTheBox

LEMMA TrainerInvInit == Init => TrainerInv
BY DEF Init, TrainerInv, OfTheBox, Held, NoProcess

\* One step per action of training.
LEMMA TrainerInvNext ==
    ASSUME TrainerInv, BuilderInv, BoxInv, IngestionTypeOK, [Next]_vars
    PROVE  TrainerInv'
<1> USE DEF TrainerInv
<1>0. Growing /\ stored.rows \subseteq stored'.rows
  BY GrowingNext, SnapshotStep DEF BuilderInv
<1>1. ASSUME Held' \subseteq Held PROVE OfTheBox(Held)'
  BY <1>0, <1>1 DEF OfTheBox
<1>2. CASE UNCHANGED <<trainer, splitFile, tableFile, nearFile>>
  BY <1>1, <1>2 DEF Held
<1>3. CASE OpenSnapshots
  <2>1. /\ trainer'.at = "split" /\ trainer'.decks = deckFile
        /\ UNCHANGED <<stored, splitFile, tableFile, nearFile>>
    BY <1>3 DEF OpenSnapshots, ingestionVars, boxVars
  <2>2. deckFile.decks = stored.rows /\ deckFile.box[2] = Cardinality(stored.rows)
    BY <1>3, OpenedIsWhole DEF OpenSnapshots
  <2>3. Held' \subseteq Held \cup {<<Cardinality(stored.rows), stored.rows>>}
    BY <2>1, <2>2 DEF Held
  <2>4. OfTheBox(Held \cup {<<Cardinality(stored.rows), stored.rows>>})
    BY DEF OfTheBox
  <2>5. OfTheBox(Held)'
    BY <2>1, <2>3, <2>4 DEF OfTheBox
  <2> QED
    BY <2>1, <2>5
<1>4. CASE LoadSplit
  <2> DEFINE stamp == StampOf(trainer.decks)
             built == [stamp |-> stamp, rows |-> trainer.decks.decks]
             mine == <<trainer.decks.box[2], trainer.decks.decks>>
  <2>1. /\ trainer.at = "split" /\ trainer'.at = "table"
        /\ splitFile' = IF UsableSplit(stamp) THEN splitFile ELSE built
        /\ trainer'.decks = trainer.decks /\ trainer'.rows = splitFile'.rows
        /\ UNCHANGED <<tableFile, nearFile>>
    BY <1>4 DEF LoadSplit
  <2>2. mine \in Held
    BY <2>1 DEF Held
  <2>3. stamp[2][2] = trainer.decks.box[2]
    BY DEF StampOf
  <2>4. CASE UsableSplit(stamp)
    <3>1. <<splitFile.stamp[2][2], splitFile.rows>> \in Held
          /\ splitFile.stamp[2][2] = trainer.decks.box[2]
      BY <2>3, <2>4 DEF UsableSplit, Held
    <3>2. splitFile.rows = trainer.decks.decks
      BY <1>0, <2>2, <3>1, SameNumberSameDecks
    <3>3. Held' \subseteq Held
      BY <2>1, <2>4 DEF Held
    <3> QED
      BY <1>1, <2>1, <2>4, <3>2, <3>3
  <2>5. CASE ~UsableSplit(stamp)
    <3>1. splitFile'.rows = trainer.decks.decks
          /\ splitFile'.stamp[2][2] = trainer.decks.box[2]
      BY <2>1, <2>3, <2>5
    <3>2. Held' \subseteq Held
      BY <2>1, <3>1 DEF Held
    <3> QED
      BY <1>1, <2>1, <3>1, <3>2
  <2> QED
    BY <2>4, <2>5
<1>5. CASE LoadTable
  <2> DEFINE stamp == StampOf(trainer.decks)
             built == [stamp |-> stamp, of |-> trainer.decks.decks]
             mine == <<trainer.decks.box[2], trainer.decks.decks>>
  <2>1. /\ trainer.at = "table" /\ trainer'.at = "neighbours"
        /\ tableFile' = IF tableFile # None /\ tableFile.stamp = stamp
                        THEN tableFile ELSE built
        /\ trainer'.decks = trainer.decks /\ trainer'.rows = trainer.rows
        /\ trainer'.table = tableFile'.of
        /\ UNCHANGED <<splitFile, nearFile>>
    BY <1>5 DEF LoadTable
  <2>2. mine \in Held
    BY <2>1 DEF Held
  <2>3. stamp[2][2] = trainer.decks.box[2]
    BY DEF StampOf
  <2>4. CASE tableFile # None /\ tableFile.stamp = stamp
    <3>1. <<tableFile.stamp[2][2], tableFile.of>> \in Held
          /\ tableFile.stamp[2][2] = trainer.decks.box[2]
      BY <2>3, <2>4 DEF Held
    <3>2. tableFile.of = trainer.decks.decks
      BY <1>0, <2>2, <3>1, SameNumberSameDecks
    <3>3. Held' \subseteq Held
      BY <2>1, <2>4 DEF Held
    <3> QED
      BY <1>1, <2>1, <2>4, <3>2, <3>3
  <2>5. CASE ~(tableFile # None /\ tableFile.stamp = stamp)
    <3>1. tableFile'.of = trainer.decks.decks
          /\ tableFile'.stamp[2][2] = trainer.decks.box[2]
      BY <2>1, <2>3, <2>5
    <3>2. Held' \subseteq Held
      BY <2>1, <3>1 DEF Held
    <3> QED
      BY <1>1, <2>1, <3>1, <3>2
  <2> QED
    BY <2>4, <2>5
<1>6. CASE LoadNeighbours
  <2> DEFINE stamp == StampOf(trainer.decks)
             built == [stamp |-> stamp, of |-> trainer.table]
             mine == <<trainer.decks.box[2], trainer.decks.decks>>
  <2>1. /\ trainer.at = "neighbours" /\ trainer'.at = "done"
        /\ nearFile' = IF nearFile # None /\ nearFile.stamp = stamp
                       THEN nearFile ELSE built
        /\ trainer'.decks = trainer.decks /\ trainer'.rows = trainer.rows
        /\ trainer'.table = trainer.table /\ trainer'.near = nearFile'.of
        /\ UNCHANGED <<splitFile, tableFile>>
    BY <1>6 DEF LoadNeighbours
  <2>2. mine \in Held /\ trainer.table = trainer.decks.decks
    BY <2>1 DEF Held
  <2>3. stamp[2][2] = trainer.decks.box[2]
    BY DEF StampOf
  <2>4. CASE nearFile # None /\ nearFile.stamp = stamp
    <3>1. <<nearFile.stamp[2][2], nearFile.of>> \in Held
          /\ nearFile.stamp[2][2] = trainer.decks.box[2]
      BY <2>3, <2>4 DEF Held
    <3>2. nearFile.of = trainer.decks.decks
      BY <1>0, <2>2, <3>1, SameNumberSameDecks
    <3>3. Held' \subseteq Held
      BY <2>1, <2>4 DEF Held
    <3> QED
      BY <1>1, <2>1, <2>2, <2>4, <3>2, <3>3
  <2>5. CASE ~(nearFile # None /\ nearFile.stamp = stamp)
    <3>1. nearFile'.of = trainer.decks.decks
          /\ nearFile'.stamp[2][2] = trainer.decks.box[2]
      BY <2>1, <2>2, <2>3, <2>5
    <3>2. Held' \subseteq Held
      BY <2>1, <3>1 DEF Held
    <3> QED
      BY <1>1, <2>1, <2>2, <3>1, <3>2
  <2> QED
    BY <2>4, <2>5
<1>7. CASE StopTraining
  <2>1. trainer'.at = "down" /\ UNCHANGED <<splitFile, tableFile, nearFile>>
    BY <1>7 DEF StopTraining, NoProcess
  <2>2. Held' \subseteq Held
    BY <2>1 DEF Held
  <2> QED
    BY <1>1, <2>1, <2>2
<1>8. (IngestionNext /\ UNCHANGED <<builderVars, trainerVars>>) \/ BuilderNext \/ UNCHANGED vars
        => UNCHANGED <<trainer, splitFile, tableFile, nearFile>>
  BY DEF BuilderNext, StartBuild, BuildCards, KeepDecks, CheckStamp, ReadStamp,
         CountDecks, ReadDecks, WriteDecks, BuildFails, trainerVars, vars
<1> QED
  BY <1>2, <1>3, <1>4, <1>5, <1>6, <1>7, <1>8 DEF Next, TrainerNext

\* The split, the teacher and its neighbours a process loads are of the decks it
\* opened, whoever made their files and from when, for any number of processes.
THEOREM TrainersHoldOneDeckSet == Spec => []TrainerHoldsOneDeckSet
<1>1. Spec => []BoxInv
  BY SnapshotsUseTheBox, BoxInvariant, PTL
<1>2. TrainerInv /\ BuilderInv /\ BoxInv /\ IngestionTypeOK /\ [Next]_vars => TrainerInv'
  BY TrainerInvNext
<1>3. TrainerInv => TrainerHoldsOneDeckSet
  BY DEF TrainerInv, TrainerHoldsOneDeckSet
<1> QED
  BY TrainerInvInit, <1>1, <1>2, <1>3, BuilderInvariant, IngestionTypes, PTL DEF Spec
=============================================================================
