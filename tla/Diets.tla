-------------------------------- MODULE Diets --------------------------------
(* How a phase of training decides which dojo the next step is of: its diet  *)
(* rule (plan.py), the drop table a rule becomes over the dojos that are     *)
(* active (table_diet.py, drop_table.py), and the sampler that keeps such a  *)
(* table while the set of active dojos stays the same.  A flat rule is       *)
(*   [kind "flat", alpha]                                                    *)
(* and weighs a dojo by that power of its TRAIN examples; a table is rows,   *)
(*   [kind "dojo", weight, dojo], [kind "dojos", weight, dojos, alpha] or    *)
(*   [kind "table", weight, rows].                                           *)
(* A drop table is a sequence of entries [weight, dojo, table], one of the   *)
(* two given; the empty sequence is no table.                                *)
EXTENDS Integers, SequencesExt, FiniteSetsExt

CONSTANTS
    DietsToTry,  \* [rule, dojos, counts : the TRAIN examples of each]
    NoDojo,      \* no dojo, or none yet
    Whole        \* a share is this many parts of all draws

VARIABLES
    diet,     \* the phase's diet, one of DietsToTry
    able,     \* the dojos that are active
    counted,  \* TrainCountCache: the counts asked for so far
    table,    \* the sampler's table and the active dojos it was built for
    drawn     \* the draw from these active dojos: a dojo, Failed, or NoDojo

dietVars == <<diet, able, counted, table, drawn>>

Failed == "nothing drawable"

\* What plan.py's checks let pass: no dojo twice, no weight below zero, and in
\* every table a row to draw.
RECURSIVE LeafDojos(_)
LeafDojos(rows) ==
    FlattenSeq([i \in DOMAIN rows |->
                  CASE rows[i].kind = "dojo" -> <<rows[i].dojo>>
                    [] rows[i].kind = "dojos" -> rows[i].dojos
                    [] rows[i].kind = "table" -> LeafDojos(rows[i].rows)])

RECURSIVE RowsPullable(_)
RowsPullable(rows) ==
    /\ \E i \in DOMAIN rows : rows[i].weight > 0
    /\ \A i \in DOMAIN rows :
         /\ rows[i].weight >= 0
         /\ rows[i].kind = "dojos" => rows[i].dojos # <<>>
         /\ rows[i].kind = "table" => RowsPullable(rows[i].rows)

TableDiet(rule) ==
    rule.kind = "table" =>
      RowsPullable(rule.rows) /\ Len(LeafDojos(rule.rows)) = Cardinality(ToSet(LeafDojos(rule.rows)))

Phase(d) ==
    /\ TableDiet(d.rule)
    /\ d.rule.kind = "table" => ToSet(LeafDojos(d.rule.rows)) = ToSet(d.dojos)

DietAssumption == Whole \in Nat \ {0} /\ \A d \in DietsToTry : Phase(d)

---------------------------------------------------------------------------
(* The drop table of a rule.                                                 *)

CountWeight(count, alpha) == IF count > 0 THEN count ^ alpha ELSE 0

Entry(weight, dojo, sub) == [weight |-> weight, dojo |-> dojo, table |-> sub]
DropTable(entries) == IF \E i \in DOMAIN entries : entries[i].weight > 0 THEN entries ELSE <<>>
TotalWeight(entries) == FoldLeft(LAMBDA n, entry : n + entry.weight, 0, entries)

\* Counts are given for the active dojos only.
GroupDropTable(row, counts) ==
    LET known == SelectSeq(row.dojos, LAMBDA d : d \in DOMAIN counts)
    IN DropTable([i \in DOMAIN known |->
                    Entry(CountWeight(counts[known[i]], row.alpha), known[i], <<>>)])

\* _drop_table_from_rows: a row without a drawable dojo is left out, and its share
\* goes to the rows beside it.
RECURSIVE DropTableFromRows(_, _)
DropTableFromRows(rows, counts) ==
    LET SubTable(row) == IF row.kind = "dojos" THEN GroupDropTable(row, counts)
                         ELSE DropTableFromRows(row.rows, counts)
        Drawable(row) == row.dojo \in DOMAIN counts /\ counts[row.dojo] > 0
        Kept(row) ==
            CASE row.kind = "dojo" /\ Drawable(row) -> <<Entry(row.weight, row.dojo, <<>>)>>
              [] row.kind # "dojo" /\ SubTable(row) # <<>> ->
                   <<Entry(row.weight, NoDojo, SubTable(row))>>
              [] OTHER -> <<>>
    IN DropTable(FlattenSeq([i \in DOMAIN rows |-> Kept(rows[i])]))

AsTableDiet(rule, dojos) ==
    IF rule.kind = "table" THEN rule.rows
    ELSE <<[kind |-> "dojos", weight |-> 1, dojos |-> dojos, alpha |-> rule.alpha]>>

\* outcome_probabilities, by parts: pull draws an entry by its weight, table
\* after table.
RECURSIVE OutcomeShares(_, _)
OutcomeShares(entries, reach) ==
    UNION {LET entry == entries[i]
               parts == (reach * entry.weight) \div TotalWeight(entries)
           IN IF entry.table = <<>> THEN {[dojo |-> entry.dojo, parts |-> parts]}
              ELSE OutcomeShares(entry.table, parts) :
             i \in {j \in DOMAIN entries : entries[j].weight > 0}}

Outcomes(entries) == {share.dojo : share \in OutcomeShares(entries, Whole)}

\* expected_dojo_shares: what diet_shares.csv says a run's steps will be of.
ExpectedDojoShares(rule, dojos, counts) ==
    LET shares == OutcomeShares(DropTableFromRows(AsTableDiet(rule, dojos), counts), Whole)
    IN [d \in ToSet(dojos) |-> MapThenSumSet(LAMBDA s : s.parts, {s \in shares : s.dojo = d})]

---------------------------------------------------------------------------
(* The sampler.                                                              *)

NoTable == [names |-> {}, entries |-> <<>>]

DietInit ==
    /\ diet \in DietsToTry /\ able = ToSet(diet.dojos)
    /\ counted = [d \in {} |-> 0] /\ table = NoTable /\ drawn = NoDojo

\* Saturation, reactivation and quarantine change which dojos are active.
ActiveChanges ==
    /\ able' \in (SUBSET ToSet(diet.dojos)) \ {able, {}}
    /\ drawn' = NoDojo
    /\ UNCHANGED <<diet, counted, table>>

\* TrainCountCache.count, of every active dojo: an example_count that raises
\* counts as none, for good.
CountsAfter ==
    {[d \in able \cup DOMAIN counted |->
        IF d \in DOMAIN counted THEN counted[d] ELSE IF d \in fail THEN 0 ELSE diet.counts[d]] :
       fail \in SUBSET (able \ DOMAIN counted)}

\* TemperatureDietSampler.next_dojo
DrawByTemperature ==
    /\ diet.rule.kind = "flat"
    /\ counted' \in CountsAfter
    /\ LET weighted == {d \in able : CountWeight(counted'[d], diet.rule.alpha) > 0}
       IN drawn' \in IF weighted = {} THEN {Failed} ELSE weighted
    /\ UNCHANGED table

\* Mutant: the active dojos are noted before their table is there.
NamesNotedFirst(entries) == [names |-> able, entries |-> IF entries = <<>> THEN table.entries ELSE entries]

\* What next_dojo keeps: a table that could not be built changes nothing.
TableAfter(entries) == IF entries = <<>> THEN table ELSE [names |-> able, entries |-> entries]

\* TableDietSampler.next_dojo
DrawFromTable ==
    /\ diet.rule.kind = "table"
    /\ IF able = table.names
       THEN /\ drawn' \in Outcomes(table.entries)
            /\ UNCHANGED <<counted, table>>
       ELSE /\ counted' \in CountsAfter
            /\ LET built == DropTableFromRows(diet.rule.rows, [d \in able |-> counted'[d]])
               IN /\ table' = TableAfter(built)
                  /\ drawn' \in IF built = <<>> THEN {Failed} ELSE Outcomes(built)

NextDojo == (DrawByTemperature \/ DrawFromTable) /\ UNCHANGED <<diet, able>>

DietNext == ActiveChanges \/ NextDojo

---------------------------------------------------------------------------
(* What a diet means.                                                        *)

HasExamples(d) == d \in able /\ d \in DOMAIN counted /\ counted[d] > 0

\* A row leads to a dojo with something to train on, by rows that can be drawn.
RECURSIVE Leads(_)
Leads(row) ==
    CASE row.kind = "dojo" -> HasExamples(row.dojo)
      [] row.kind = "dojos" -> \E d \in ToSet(row.dojos) : HasExamples(d)
      [] row.kind = "table" -> \E i \in DOMAIN row.rows : row.rows[i].weight > 0 /\ Leads(row.rows[i])

\* The shares keep the weights' proportions among the rows of every table that
\* lead somewhere, and the rows that do not have none.
RECURSIVE InProportion(_, _)
InProportion(rows, share) ==
    LET ShareOf(row) ==
            MapThenSumSet(LAMBDA d : share[d], ToSet(LeafDojos(<<row>>)))
        WeightOf(row) == IF Leads(row) THEN row.weight ELSE 0
    IN /\ \A i, j \in DOMAIN rows :
            ShareOf(rows[i]) * WeightOf(rows[j]) = ShareOf(rows[j]) * WeightOf(rows[i])
       /\ \A i \in DOMAIN rows :
            CASE WeightOf(rows[i]) = 0 -> ShareOf(rows[i]) = 0
              [] rows[i].kind = "dojos" ->
                   LET Weight(d) == IF HasExamples(d) THEN counted[d] ^ rows[i].alpha ELSE 0
                   IN \A d, e \in ToSet(rows[i].dojos) : share[d] * Weight(e) = share[e] * Weight(d)
              [] rows[i].kind = "table" -> InProportion(rows[i].rows, share)
              [] OTHER -> TRUE

\* However the active dojos change between draws, and whichever of them could
\* not be counted: a draw is of an active dojo with something to train on, and
\* fails only where the diet leads to none; the shares a diet promises, and a
\* table in use, add up to the whole and keep the rule's proportions at every
\* level, those of a row that leads nowhere shared by the rows beside it; and the
\* two samplers of a flat rule, by its weights and by its table, agree
\* (TableDietSampler.next_dojo, build_dojo_drop_table, expected_dojo_shares).
DrawsFollowTheDiet ==
    LET rows == AsTableDiet(diet.rule, diet.dojos)
        share == ExpectedDojoShares(diet.rule, diet.dojos, [d \in able |-> counted[d]])
        leading == \E i \in DOMAIN rows : rows[i].weight > 0 /\ Leads(rows[i])
    IN drawn # NoDojo =>
         /\ drawn = Failed <=> ~leading
         /\ drawn # Failed => HasExamples(drawn) /\ share[drawn] > 0
         /\ leading => /\ MapThenSumSet(LAMBDA d : share[d], ToSet(diet.dojos)) = Whole
                       /\ InProportion(rows, share)
         /\ table.names = able =>
              OutcomeShares(table.entries, Whole) =
                {[dojo |-> d, parts |-> share[d]] : d \in {e \in ToSet(diet.dojos) : share[e] > 0}}
=============================================================================
