----------------------------- MODULE BinderBakes -----------------------------
(***************************************************************************)
(* Binder mods (src/training/binder_mods.py): the arms of an experiment    *)
(* each mod a game's cards before training, and share what they made in a  *)
(* save directory.  An arm loads the saved bake when its stamp was made by *)
(* the arm's own spec, is refused when it was made by another, and when    *)
(* there is no stamp bakes the clean binder itself and saves it: the two   *)
(* data files are moved into place, then the stamp.  Arms run at once, any *)
(* of them may raise or be killed anywhere, and the clean binder may be    *)
(* ingested again.                                                         *)
(*                                                                         *)
(* A bake is the spec and the clean version it was made from: the mods are *)
(* seeded and run in the order of the cards' identities, so the same two   *)
(* give the same cards.  Staging is a directory of the process, which no   *)
(* other arm reads.                                                        *)
(***************************************************************************)
EXTENDS Integers, Sequences

CONSTANTS
    Arms,
    SpecOf,         \* the pipeline and seed of each arm's configuration
    MaxReingests,   \* bound: times the clean binder is ingested again
    NoBake

BakeAssumption == DOMAIN SpecOf = Arms /\ MaxReingests \in Nat

VARIABLES
    clean,      \* the version of the clean binder
    saved,      \* the save directory: the bake in each of its files
    arm,        \* what each arm is doing, and the bake it holds
    contended   \* history: two different bakes were moved into place at once

bakeVars == <<clean, saved, arm, contended>>

Bake(spec, version) == [spec |-> spec, version |-> version]

Files == {"aliases", "cards", "stamp"}

\* Mutant of MoveOrder: the stamp first.
StampFirst == <<"stamp", "aliases", "cards">>

\* The staged files are sorted by name, and the stamp kept for last.
MoveOrder == <<"aliases", "cards", "stamp">>

\* stamp is what the arm takes its cards to be, cards and aliases what it read;
\* moved counts the files it has moved into place.
Down == [at |-> "down", stamp |-> NoBake, cards |-> NoBake, aliases |-> NoBake, moved |-> 0]

BakesInit ==
    /\ clean = 0
    /\ saved = [f \in Files |-> NoBake]
    /\ arm = [a \in Arms |-> Down]
    /\ contended = FALSE

Goes(a, next) == arm' = [arm EXCEPT ![a] = next]

\* _load_saved_bake reads the stamp: another spec's is a BinderModsMismatchError,
\* and with none the arm bakes the clean binder.
ReadStamp(a) ==
    /\ arm[a].at = "down"
    /\ LET stamp == saved["stamp"]
       IN \/ stamp = NoBake /\ Goes(a, [Down EXCEPT !.at = "bake"])
          \/ /\ stamp # NoBake /\ stamp.spec = SpecOf[a]
             /\ Goes(a, [Down EXCEPT !.at = "loadCards", !.stamp = stamp])
    /\ UNCHANGED <<clean, saved, contended>>

\* from_saved_bake reads the cards, then their aliases.
LoadCards(a) ==
    /\ arm[a].at = "loadCards"
    /\ Goes(a, [arm[a] EXCEPT !.at = "loadAliases", !.cards = saved["cards"]])
    /\ UNCHANGED <<clean, saved, contended>>

LoadAliases(a) ==
    /\ arm[a].at = "loadAliases"
    /\ Goes(a, [arm[a] EXCEPT !.at = "training", !.aliases = saved["aliases"]])
    /\ UNCHANGED <<clean, saved, contended>>

\* baked_from_clean_file, and what _save_bake stages of it.
BakeClean(a) ==
    /\ arm[a].at = "bake"
    /\ LET made == Bake(SpecOf[a], clean)
       IN Goes(a, [Down EXCEPT !.at = "move", !.stamp = made, !.cards = made, !.aliases = made])
    /\ UNCHANGED <<clean, saved, contended>>

\* Another bake than the arm's is being moved, or is stamped already.
Rivalled(a) ==
    \/ saved["stamp"] \notin {NoBake, arm[a].stamp}
    \/ \E other \in Arms :
        arm[other].at = "move" /\ arm[other].moved > 0 /\ arm[other].stamp # arm[a].stamp

\* os.replace of the next staged file.
MoveFile(a) ==
    /\ arm[a].at = "move"
    /\ LET moved == arm[a].moved + 1
       IN /\ saved' = [saved EXCEPT ![MoveOrder[moved]] = arm[a].stamp]
          /\ Goes(a, [arm[a] EXCEPT !.moved = moved,
                                    !.at = IF moved = Len(MoveOrder) THEN "training" ELSE @])
    /\ contended' = (contended \/ Rivalled(a))
    /\ UNCHANGED clean

\* The run ends, or raises, or is killed; what it moved stays.
Stop(a) ==
    /\ arm[a].at # "down"
    /\ Goes(a, Down)
    /\ UNCHANGED <<clean, saved, contended>>

Reingest ==
    /\ clean < MaxReingests
    /\ clean' = clean + 1
    /\ UNCHANGED <<saved, arm, contended>>

BakesNext ==
    \/ \E a \in Arms :
        \/ ReadStamp(a) \/ LoadCards(a) \/ LoadAliases(a)
        \/ BakeClean(a) \/ MoveFile(a) \/ Stop(a)
    \/ Reingest

BakesSpec == BakesInit /\ [][BakesNext]_bakeVars

-----------------------------------------------------------------------------
(* Properties *)

Bakes == {NoBake} \cup [spec : {SpecOf[a] : a \in Arms}, version : 0..MaxReingests]

ArmState ==
    [at : {"down", "bake", "move", "loadCards", "loadAliases", "training"},
     stamp : Bakes, cards : Bakes, aliases : Bakes, moved : 0..3]

BakesTypeOK ==
    /\ clean \in 0..MaxReingests
    /\ saved \in [Files -> Bakes]
    /\ arm \in [Arms -> ArmState]
    /\ contended \in BOOLEAN

\* The cards an arm trains on are those its stamp says: of its own spec, and of
\* the clean version that snapshots and metrics are checked against.
TrainsOnItsStamp(a) ==
    arm[a].at = "training" => arm[a].cards = arm[a].stamp /\ arm[a].aliases = arm[a].stamp

\* What is in the directory and in the hands of the arms while no two different
\* bakes were moved at once: what an arm has moved stays as it moved it, a stamp
\* stands on files of its own bake, and an arm that loads holds the stamp there is.
MovedFilesStay(a) ==
    arm[a].at = "move" =>
        /\ arm[a].cards = arm[a].stamp /\ arm[a].aliases = arm[a].stamp
        /\ \A i \in 1..arm[a].moved : saved[MoveOrder[i]] = arm[a].stamp

LoadsTheStamp(a) ==
    arm[a].at \in {"loadCards", "loadAliases"} =>
        /\ arm[a].stamp = saved["stamp"] /\ arm[a].stamp # NoBake
        /\ arm[a].at = "loadAliases" => arm[a].cards = arm[a].stamp

StampedIsWhole ==
    saved["stamp"] # NoBake => \A f \in Files : saved[f] = saved["stamp"]

BakeInv ==
    /\ BakesTypeOK
    /\ \A a \in Arms : arm[a].at = "move" => arm[a].moved < Len(MoveOrder)
    /\ ~contended =>
        /\ StampedIsWhole
        /\ \A a \in Arms :
             MovedFilesStay(a) /\ LoadsTheStamp(a) /\ TrainsOnItsStamp(a)

\* Whichever arms died where, and however often the clean binder was ingested
\* again, an arm trains on the bake its stamp names, unless two different bakes
\* were moved into the directory at once.
BakesAreTheirStamps ==
    /\ BakesTypeOK
    /\ ~contended => \A a \in Arms : TrainsOnItsStamp(a)

\* "no run ever reads a half-written bake as complete" (_save_bake): false of
\* two arms of different specs that found the directory empty, when a third
\* loads the first's stamp over what the second has moved so far.
NoHalfWrittenBakeIsRead == \A a \in Arms : TrainsOnItsStamp(a)

=============================================================================
