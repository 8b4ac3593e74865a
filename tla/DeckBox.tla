------------------------------- MODULE DeckBox -------------------------------
(***************************************************************************)
(* One game's deck box: an SQLite file reached over one connection         *)
(* (data_refinement/deck_box/deck_box.py).  Every mutating call clears the *)
(* game's version stamp and writes a deck row and its card rows inside a   *)
(* savepoint of the open batch; the batch is committed after               *)
(* CommitBatchSize calls, on flush, and before save writes the stamp.      *)
(*                                                                         *)
(* The client is any program that uses the class, also one that catches    *)
(* what a call raises and carries on.  A deck is its cards (a multiset,    *)
(* here a value of CardLists); name and provenance are left out.           *)
(***************************************************************************)
EXTENDS FiniteSets, Integers

CONSTANTS
    DeckIds,          \* nocab_uuids
    CardLists,        \* what a deck may hold
    Stamps,           \* card binder versions
    None,             \* no deck, no stamp
    CommitBatchSize   \* commit_batch_size

ASSUME DeckBoxAssumption ==
    /\ CommitBatchSize \in Nat \ {0}
    /\ None \notin CardLists /\ None \notin Stamps

VARIABLES
    stored,     \* the file: what was committed
    view,       \* what the connection reads: the file and the open batch
    savepoint,  \* view as the call in progress found it
    call,       \* the call in progress, and how far it has come
    pending     \* _pending_writes

boxVars == <<stored, view, savepoint, call, pending>>

\* The tables: decks, deck_cards, metadata.
BoxContent ==
    [rows : SUBSET DeckIds,
     cards : [DeckIds -> CardLists \cup {None}],
     stamp : Stamps \cup {None}]

EmptyBox == [rows |-> {}, cards |-> [d \in DeckIds |-> None], stamp |-> None]

Kinds == {"create", "create_if_absent", "update", "replace", "delete"}

Call ==
    [at : {"row", "cards", "release"}, kind : Kinds, deck : DeckIds,
     cards : CardLists]
    \cup [at : {"flush"}] \cup [at : {"stamp"}, stamp : Stamps]
    \cup [at : {"idle"}]

Idle == [at |-> "idle"]

\* load([path]) of a file that may not exist yet.
BoxInit ==
    /\ stored = EmptyBox /\ view = EmptyBox /\ savepoint = EmptyBox
    /\ call = Idle
    /\ pending = 0

\* Mutant of Cleared: the stamp stays until save replaces it.
StampKept(box) == box

\* clear_metadata
Cleared(box) == [box EXCEPT !.stamp = None]

\* create raises and create_if_absent returns what is there when the deck is
\* stored; the others raise when it is not.
Applies(kind, d) ==
    (d \in view.rows) <=> (kind \notin {"create", "create_if_absent"})

\* _batched_write is entered and the stamp cleared.
BeginCall(kind, d, c) ==
    /\ call.at = "idle"
    /\ Applies(kind, d)
    /\ call' = [at |-> "row", kind |-> kind, deck |-> d, cards |-> c]
    /\ savepoint' = view
    /\ view' = Cleared(view)
    /\ UNCHANGED <<stored, pending>>

\* The rows a call leaves: insert_deck_row, update_deck_row, delete_deck_row.
RowsAfter(kind, d) ==
    IF kind = "delete" THEN view.rows \ {d} ELSE view.rows \cup {d}

\* Mutant of WriteRow: no BEGIN, so that the statement commits itself.
WriteRowOutsideBatch ==
    /\ call.at = "row"
    /\ view' = [view EXCEPT !.rows = RowsAfter(call.kind, call.deck)]
    /\ stored' = view'
    /\ call' = [call EXCEPT !.at = "cards"]
    /\ UNCHANGED <<savepoint, pending>>

WriteRow ==
    /\ call.at = "row"
    /\ view' = [view EXCEPT !.rows = RowsAfter(call.kind, call.deck)]
    /\ call' = [call EXCEPT !.at = "cards"]
    /\ UNCHANGED <<stored, savepoint, pending>>

\* insert_deck_cards, replace_deck_cards, delete_deck_cards
WriteCards ==
    /\ call.at = "cards"
    /\ view' = [view EXCEPT !.cards[call.deck] =
                    IF call.kind = "delete" THEN None ELSE call.cards]
    /\ call' = [call EXCEPT !.at = "release"]
    /\ UNCHANGED <<stored, savepoint, pending>>

BatchIsFull(calls) == calls >= CommitBatchSize

\* The savepoint is released; a full batch is committed by the same call.
Release ==
    /\ call.at = "release"
    /\ pending' = pending + 1
    /\ call' = IF BatchIsFull(pending + 1) THEN [at |-> "flush"] ELSE Idle
    /\ savepoint' = EmptyBox
    /\ UNCHANGED <<stored, view>>

\* flush(), as the end of a call.
Flush ==
    /\ call.at = "flush"
    /\ stored' = view
    /\ pending' = 0
    /\ call' = Idle
    /\ UNCHANGED <<view, savepoint>>

\* A write of the call raises: rolled back to the savepoint.
StatementFails ==
    /\ call.at \in {"row", "cards", "release"}
    /\ view' = savepoint
    /\ savepoint' = EmptyBox
    /\ call' = Idle
    /\ UNCHANGED <<stored, pending>>

\* A commit or the stamp's own write raises; its transaction survives.
CommitFails ==
    /\ call.at \in {"flush", "stamp"}
    /\ call' = Idle
    /\ UNCHANGED <<stored, view, savepoint, pending>>

\* Mutant of Save: the stamp is written and the last batch is not committed.
SaveUnflushed(stamp) ==
    /\ call.at = "idle"
    /\ call' = [at |-> "stamp", stamp |-> stamp]
    /\ UNCHANGED <<stored, view, savepoint, pending>>

\* save() to the box's own file: everything pending is committed first.
Save(stamp) ==
    /\ call.at = "idle"
    /\ stored' = view
    /\ pending' = 0
    /\ call' = [at |-> "stamp", stamp |-> stamp]
    /\ UNCHANGED <<view, savepoint>>

\* upsert_metadata, committed on its own.
WriteStamp ==
    /\ call.at = "stamp"
    /\ stored' = [stored EXCEPT !.stamp = call.stamp]
    /\ view' = [view EXCEPT !.stamp = call.stamp]
    /\ call' = Idle
    /\ UNCHANGED <<savepoint, pending>>

\* SQLite gives up the whole transaction (DeckBatchLostError), or the process
\* dies, or the connection closes: what was not committed is gone.
Discard ==
    /\ view' = stored
    /\ savepoint' = EmptyBox
    /\ call' = Idle
    /\ pending' = 0
    /\ UNCHANGED stored

BoxNext ==
    \/ \E kind \in Kinds, d \in DeckIds, c \in CardLists : BeginCall(kind, d, c)
    \/ WriteRow \/ WriteCards \/ Release \/ Flush
    \/ StatementFails \/ CommitFails \/ Discard
    \/ \E stamp \in Stamps : Save(stamp)
    \/ WriteStamp

BoxSpec == BoxInit /\ [][BoxNext]_boxVars

-----------------------------------------------------------------------------
(* Properties *)

BoxTypeOK ==
    /\ stored \in BoxContent /\ view \in BoxContent /\ savepoint \in BoxContent
    /\ call \in Call
    /\ pending \in Nat

\* A deck has its row and its cards, or neither.
Whole(box) == \A d \in DeckIds : d \in box.rows <=> box.cards[d] # None

\* The decks a kill would take back to what the file says.
Unsaved == {d \in DeckIds : view.cards[d] # stored.cards[d]}

\* Whatever calls fail or are cut off, the file never holds half of a call,
\* and the batch a kill loses is at most the calls counted since the last
\* commit: "never keeps half of one call".
CallsAreWhole ==
    /\ BoxTypeOK
    /\ Whole(stored)
    /\ call.at = "idle" => Whole(view) /\ Cardinality(Unsaved) <= pending

\* "A committed deck change is always committed together with its stamp's
\* deletion": no commit leaves a stamp beside decks it was not written for.
ChangeClearsStamp ==
    [][stored'.rows # stored.rows \/ stored'.cards # stored.cards
         => stored'.stamp = None]_boxVars
=============================================================================
