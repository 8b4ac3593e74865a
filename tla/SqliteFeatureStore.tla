------------------------- MODULE SqliteFeatureStore -------------------------
(***************************************************************************)
(* The disk tier of the feature cache                                      *)
(* (src/encoder_model/feature_cache/sqlite_feature_store.py): one SQLite   *)
(* file that several stores, each in a process of its own, write the rows  *)
(* of one row set into.  A store counts the rows in the file when it first *)
(* opens it, and then keeps the count itself.                              *)
(*                                                                         *)
(* A store's lock makes each of its calls whole, so a store does one thing *)
(* at a time; between the statements of a put the other stores commit      *)
(* theirs.  The insert is one transaction, which may fail as a whole.  A   *)
(* process may end, or be killed, at any step, and a new one takes its     *)
(* place.  A lookup changes nothing but the count taken by its first open. *)
(***************************************************************************)
EXTENDS TierContract

CONSTANTS
    Stores,        \* the stores (processes) that share the file
    FileCapacity,  \* capacity_rows
    DurableOffers  \* the keys a durable put may offer, in order

\* What the constants are assumed to be; a module that makes an instance of
\* this one states it of its constants.
StoreAssumption ==
    /\ IsFiniteSet(Stores)
    /\ RowsAreCounted
    /\ FileCapacity \in Nat \ {0}
    /\ DurableOffers \subseteq Seq(Keys)

VARIABLES
    file,       \* the keys whose rows are in the row set
    at,         \* store -> "closed", "idle", or the statement of its put
    used,       \* store -> _rows_used
    fresh,      \* store -> the keys its put is about to insert, in order
    written,    \* store -> the keys its transaction inserted
    leftOut,    \* history: store -> the first new key its put left out
    uncounted   \* history: keys whose rows their store failed to count

storeVars == <<file, at, used, fresh, written, leftOut, uncounted>>

\* held_for_cut's answer taken out of the offer, in its order.
Unheld(keys) == Without(keys, file)

\* Mutant of FittingLength: room is tested before the key's rows are added.
FittingLengthLate(keys, free) ==
    LET fits == {n \in 0..Len(keys) : n = 0 \/ RowsOf(SubSeq(keys, 1, n - 1)) < free}
    IN  CHOOSE n \in fits : \A o \in fits : o <= n

\* The rows of the longest prefix that has room (_fitting_fresh stops at the
\* first key that has none).
FittingLength(keys, free) ==
    LET fits == {n \in 0..Len(keys) : RowsOf(SubSeq(keys, 1, n)) <= free}
    IN  CHOOSE n \in fits : \A o \in fits : o <= n

StoreInit ==
    /\ file = {}
    /\ at = [s \in Stores |-> "closed"]
    /\ used = [s \in Stores |-> 0]
    /\ fresh = [s \in Stores |-> <<>>]
    /\ written = [s \in Stores |-> {}]
    /\ leftOut = [s \in Stores |-> {}]
    /\ uncounted = {}

\* The first lookup or put: the file is opened and its rows are counted.
Open(s) ==
    /\ at[s] = "closed"
    /\ at' = [at EXCEPT ![s] = "idle"]
    /\ used' = [used EXCEPT ![s] = RowsIn(file)]
    /\ UNCHANGED <<file, fresh, written, leftOut, uncounted>>

\* put_many with room: the held keys are read, and what fits is kept.
StorePut(s) ==
    /\ at[s] = "idle"
    /\ used[s] < FileCapacity
    /\ \E keys \in DurableOffers :
         LET new == Unheld(keys)
             n   == FittingLength(new, FileCapacity - used[s])
         IN  /\ fresh' = [fresh EXCEPT ![s] = SubSeq(new, 1, n)]
             /\ leftOut' = [leftOut EXCEPT ![s] =
                              IF n < Len(new) THEN {new[n + 1]} ELSE {}]
    /\ at' = [at EXCEPT ![s] = "insert"]
    /\ UNCHANGED <<file, used, written, uncounted>>

\* INSERT OR IGNORE of the fresh keys, committed.
Insert(s) ==
    /\ at[s] = "insert"
    /\ file' = file \cup ToSet(fresh[s])
    /\ written' = [written EXCEPT ![s] = ToSet(fresh[s]) \ file]
    /\ at' = [at EXCEPT ![s] = "count"]
    /\ UNCHANGED <<used, fresh, leftOut, uncounted>>

UsedAfterError(s) == used[s]

\* The transaction fails and is rolled back; put_many raises.
FailInsert(s) ==
    /\ at[s] = "insert"
    /\ fresh[s] # <<>>
    /\ at' = [at EXCEPT ![s] = "idle"]
    /\ used' = [used EXCEPT ![s] = UsedAfterError(s)]
    /\ fresh' = [fresh EXCEPT ![s] = <<>>]
    /\ leftOut' = [leftOut EXCEPT ![s] = {}]
    /\ UNCHANGED <<file, written, uncounted>>

\* The store's count after its insert: recounted when a row was there already.
Account(s) ==
    /\ at[s] = "count"
    /\ used' = [used EXCEPT ![s] =
                  IF Cardinality(written[s]) = Len(fresh[s])
                  THEN used[s] + RowsOf(fresh[s])
                  ELSE RowsIn(file)]
    /\ at' = [at EXCEPT ![s] = "idle"]
    /\ fresh' = [fresh EXCEPT ![s] = <<>>]
    /\ written' = [written EXCEPT ![s] = {}]
    /\ leftOut' = [leftOut EXCEPT ![s] = {}]
    /\ UNCHANGED <<file, uncounted>>

\* The recount fails: the rows are in the file and put_many raises.
FailCount(s) ==
    /\ at[s] = "count" /\ Cardinality(written[s]) # Len(fresh[s])
    /\ uncounted' = uncounted \cup written[s]
    /\ at' = [at EXCEPT ![s] = "idle"]
    /\ fresh' = [fresh EXCEPT ![s] = <<>>]
    /\ written' = [written EXCEPT ![s] = {}]
    /\ leftOut' = [leftOut EXCEPT ![s] = {}]
    /\ UNCHANGED <<file, used>>

\* The process closes its store, or is killed, and another takes its place.
Restart(s) ==
    /\ at[s] # "closed"
    /\ at' = [at EXCEPT ![s] = "closed"]
    /\ used' = [used EXCEPT ![s] = 0]
    /\ fresh' = [fresh EXCEPT ![s] = <<>>]
    /\ written' = [written EXCEPT ![s] = {}]
    /\ leftOut' = [leftOut EXCEPT ![s] = {}]
    /\ UNCHANGED <<file, uncounted>>

StoreNext == \E s \in Stores :
    \/ Open(s) \/ StorePut(s) \/ Insert(s) \/ FailInsert(s) \/ Account(s)
    \/ FailCount(s) \/ Restart(s)

StoreSpec == StoreInit /\ [][StoreNext]_storeVars

-----------------------------------------------------------------------------
(* Properties *)

\* A row set grows past its capacity at most once over for each further store
\* that shares it, restarts included: a stale count never lets one store write
\* more than its own capacity, beside rows a failed recount left it unaware of.
\* A put leaves a new key out only when the rows in the file, its own now among
\* them, have no room for it: a stale count errs on the side of writing
\* (put_many, _fitting_fresh).
StaleCountsErrBoundedly ==
    /\ RowsIn(file \ uncounted) <= Cardinality(Stores) * FileCapacity
    /\ \A s \in Stores : at[s] = "count" =>
        \A k \in leftOut[s] : k \in file \/ RowsIn(file) + RowsPerKey[k] > FileCapacity

\* The fields are what the code's are.
StoreTypes ==
    /\ file \in SUBSET Keys /\ IsFiniteSet(file)
    /\ at \in [Stores -> {"closed", "idle", "insert", "count"}]
    /\ used \in [Stores -> Nat]
    /\ fresh \in [Stores -> Seq(Keys)]
    /\ written \in [Stores -> SUBSET file]
    /\ leftOut \in [Stores -> SUBSET Keys]
    /\ uncounted \in SUBSET file

\* The rows a store knows of: what it counted, and what it is about to count.
Known(s) == IF at[s] = "closed" THEN RowsIn(file) ELSE used[s] + RowsIn(written[s])

\* What a store may still write before it knows better.
Room == [s \in Stores |->
           IF Known(s) >= FileCapacity THEN 0 ELSE FileCapacity - Known(s)]

\* What a store counted are whole keys of the file, and none it is writing.
CountedAreKeys(s) ==
    \E counted \in SUBSET file :
        /\ RowsIn(counted) = used[s]
        /\ counted \cap ToSet(fresh[s]) = {}

\* What holds between the statements of a put.
PutInv(s) ==
    /\ at[s] # "count" => written[s] = {}
    /\ at[s] = "count" => ToSet(fresh[s]) \subseteq file
    /\ written[s] \subseteq ToSet(fresh[s]) \ uncounted
    /\ at[s] \in {"closed", "idle"} => fresh[s] = <<>>
    /\ at[s] \in {"insert", "count"} =>
         /\ used[s] + RowsOf(fresh[s]) <= FileCapacity
         /\ \A k \in leftOut[s] :
              used[s] + RowsOf(fresh[s]) + RowsPerKey[k] > FileCapacity

\* The inductive invariant of the stores: what each may still write is taken
\* from what all of them together may write.
StoreInv ==
    /\ StoreTypes
    /\ \A s \in Stores : PutInv(s) /\ (at[s] # "closed" => CountedAreKeys(s))
    /\ \A s, t \in Stores : s # t => written[s] \cap written[t] = {}
    /\ RowsIn(file \ uncounted) + SumFunction(Room)
         <= Cardinality(Stores) * FileCapacity
=============================================================================
