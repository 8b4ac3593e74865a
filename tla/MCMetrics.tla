------------------------------ MODULE MCMetrics ------------------------------
(* Every family over two rows, the second of which may come late, and the    *)
(* first of which a second binder matches otherwise; over a row that cannot  *)
(* be read; run for ever; and beside dojos that open what it writes.         *)
EXTENDS MetricSplits

CONSTANTS a, b, c, d

MCDecks == {a, b, c, d}
MCStamps == 0..1
Steady(x, y) == [v \in MCStamps |-> <<x, y>>]
Rematched(x, y, z) == [v \in MCStamps |-> IF v = 0 THEN <<x, y>> ELSE <<x, z>>]
Unreadable == [v \in MCStamps |-> Malformed]

TwoRows == <<Rematched(a, b, c), Steady(b, d)>>
OneUnreadable == <<Unreadable, Rematched(a, b, c)>>

Twice(family, rows, first) ==
    [family |-> family, raw |-> [p \in DOMAIN family.passes |-> rows],
     first |-> first, versions |-> 1, faults |-> Faults, incidents |-> 1,
     runs |-> 2, endless |-> FALSE, dojos |-> 0]
ForEver(family, rows) ==
    [Twice(family, rows, 1) EXCEPT !.endless = TRUE, !.runs = 0]
BesideDojos(family) ==
    [Twice(family, <<Rematched(a, b, c)>>, 1) EXCEPT !.faults = {"kill"}, !.dojos = 2]

MCFamilies ==
    {StsGg, Sts2Runs, IsotropicSummary, IsotropicGames, PlayGwent, PlayGwentGuides,
     FabtcgDecklists, DraftData, GameData, ReplayData, GwentOne, Dominiontabs, Scryfall,
     PokemonTcg, CardvaultFabtcg, SpireCodex, Hearthstonejson, CrossGame, FinalDecks}

\* The families whose scans leave out what they cannot read.
MCLenient == {f \in MCFamilies : f.scan.bad = "row"}

MCScenarios ==
    {Twice(f, TwoRows, 1) : f \in MCFamilies}
    \cup {Twice(f, OneUnreadable, 2) : f \in MCFamilies}
    \cup {ForEver(f, TwoRows) : f \in MCFamilies}
    \cup {ForEver(f, OneUnreadable) : f \in MCLenient}
    \cup {BesideDojos(f) : f \in {DraftData, FinalDecks}}

\* Replays of two files with a deck of their own each, where only batches are
\* lost: the first row's deck is not committed when the second row's is put.
MCLostBatches ==
    {[Twice(ReplayData, <<>>, 2) EXCEPT
        !.raw = <<<<Steady(a, a), Steady(b, d)>>, <<Steady(c, c), Steady(b, d)>>>>,
        !.versions = 0, !.faults = {"lost"}]}
=============================================================================
