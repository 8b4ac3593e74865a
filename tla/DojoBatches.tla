---------------------------- MODULE DojoBatches ----------------------------
(* A dojo of the catalog at work: it reads the rows of a split in chunks,    *)
(* builds their examples, puts each through the mods and deals them out in   *)
(* groups of which each fits the budget (GenericDojo.batches with            *)
(* group_by_budget).  Training reads TRAIN through a DojoBatchStream, which  *)
(* opens the next pass when one is over; an evaluation is one pass over      *)
(* another split, capped.                                                    *)
EXTENDS DojoCatalog

CONSTANTS
    Setups,         \* what to try: [dojo, mods, split, file, budget, cap,
                    \* passes], the last a bound: how often one is opened
    ROWS_PER_CHUNK,
    CostOf          \* what a card costs of the budget

VARIABLES
    setup,      \* the dojo, its mods, and the pass that is asked for
    state,      \* "idle": no pass; "open"; "over"; "raised"
    rows,       \* the rows of the pass, in the order they are read
    chunk,      \* the examples of the chunk that are still to be dealt
    emitted,    \* examples dealt into a group so far
    group,      \* the group being filled
    dealt,      \* the groups of this pass that were handed over
    passes,     \* passes opened so far, whatever became of them
    reopened,   \* this pass was opened because the one before was over
    barren      \* the RuntimeError of a dojo without batches

pass == <<rows, chunk, emitted, group, dealt>>
passVars == <<setup, state, pass, passes, reopened, barren>>

training == setup.split = "TRAIN"
balanced == setup.dojo.kind = "rarity" /\ training

---------------------------------------------------------------------------

\* padded_cost: every example is padded to the longest of its group.
ExampleCost(e) ==
    FoldLeft(LAMBDA cost, s : cost + CostOf[s.card], 0, FlattenSeq(e.groups))
CostOfCostliest(g) ==
    IF g = <<>> THEN 0 ELSE Max({ExampleCost(g[i]) : i \in DOMAIN g})
PaddedCost(g) == Len(g) * CostOfCostliest(g)

\* GameBalancedChunkReader: as many draws as there are rows it keeps, each a
\* game first and then a row of it, so any rows in any order.
BalancedDraws(file) ==
    LET kept == SelectSeq(file, TrainableRow)
    IN [DOMAIN kept -> ToSet(kept)]

\* A dojo is only built when some row of TRAIN is an example (its loss is
\* calibrated on them).
Calibrates(s) ==
    s.split = "TRAIN" =>
        \E i \in DOMAIN s.file : RowExamples(s.dojo, s.file[i], "TRAIN") # <<>>

Idle ==
    /\ state = "idle"
    /\ rows = <<>> /\ chunk = <<>> /\ emitted = 0 /\ group = <<>> /\ dealt = <<>>
    /\ passes = 0 /\ reopened = FALSE /\ barren = FALSE

PassInit ==
    /\ setup \in {s \in Setups : RequireAllowedSpecs(s.dojo, s.mods) /\ Calibrates(s)}
    /\ Idle

---------------------------------------------------------------------------

OpenPass ==
    /\ passes < setup.passes
    /\ rows' \in (IF balanced THEN BalancedDraws(setup.file) ELSE {setup.file})
    /\ chunk' = <<>> /\ emitted' = 0 /\ group' = <<>> /\ dealt' = <<>>
    /\ state' = "open" /\ passes' = passes + 1

\* next_batch with no iterator: at first, and after an exception of it.
Open ==
    /\ state \in {"idle", "raised"}
    /\ OpenPass
    /\ reopened' = FALSE
    /\ UNCHANGED <<setup, barren>>

\* The pass was over: the next is opened, and must yield something.
Reopen ==
    /\ training /\ state = "over"
    /\ OpenPass
    /\ reopened' = TRUE
    /\ UNCHANGED <<setup, barren>>

ReadChunk ==
    LET n == IF Len(rows) < ROWS_PER_CHUNK THEN Len(rows) ELSE ROWS_PER_CHUNK
        built == FoldLeft(LAMBDA es, row : es \o RowExamples(setup.dojo, row, setup.split),
                          <<>>, SubSeq(rows, 1, n))
        mods == BuildMods(setup.dojo, setup.mods)
    IN /\ state = "open" /\ chunk = <<>> /\ rows # <<>>
       /\ rows' = SubSeq(rows, n + 1, Len(rows))
       /\ chunk' \in Each(built, LAMBDA e : PipelineOutcomes(mods, e, training))
       /\ UNCHANGED <<setup, state, emitted, group, dealt, passes, reopened, barren>>

HandOver == dealt' = IF group = <<>> THEN dealt ELSE Append(dealt, group)

capped == setup.cap # None /\ emitted >= setup.cap

\* A bug the checks look for: an example that does not fit is not put in the
\* group that it starts.
NextExampleLost ==
    LET e == Head(chunk)
        fits == PaddedCost(Append(group, e)) <= setup.budget
    IN /\ state = "open" /\ chunk # <<>> /\ ~capped
       /\ ExampleCost(e) <= setup.budget
       /\ chunk' = Tail(chunk) /\ emitted' = emitted + 1
       /\ IF fits THEN group' = Append(group, e) /\ UNCHANGED dealt
          ELSE group' = <<>> /\ HandOver
       /\ UNCHANGED <<setup, state, rows, passes, reopened, barren>>

NextExample ==
    LET e == Head(chunk)
        fits == PaddedCost(Append(group, e)) <= setup.budget
    IN /\ state = "open" /\ chunk # <<>> /\ ~capped
       /\ ExampleCost(e) <= setup.budget
       /\ chunk' = Tail(chunk) /\ emitted' = emitted + 1
       /\ IF fits THEN group' = Append(group, e) /\ UNCHANGED dealt
          ELSE group' = <<e>> /\ HandOver
       /\ UNCHANGED <<setup, state, rows, passes, reopened, barren>>

\* One example is over the budget: the pass ends there, without its group.
RaiseOverBudget ==
    /\ state = "open" /\ chunk # <<>> /\ ~capped
    /\ ExampleCost(Head(chunk)) > setup.budget
    /\ state' = "raised" /\ group' = <<>>
    /\ UNCHANGED <<setup, rows, chunk, emitted, dealt, passes, reopened, barren>>

\* The rows are read, or the cap is reached with an example at hand: the last
\* group is handed over.  The stream refuses a second pass in a row of nothing.
End ==
    /\ state = "open"
    /\ (chunk # <<>> /\ capped) \/ (chunk = <<>> /\ rows = <<>>)
    /\ HandOver /\ group' = <<>>
    /\ state' = "over"
    /\ barren' = (training /\ reopened /\ dealt' = <<>>)
    /\ UNCHANGED <<setup, rows, chunk, emitted, passes, reopened>>

PassNext == Open \/ Reopen \/ ReadChunk \/ NextExample \/ RaiseOverBudget \/ End
PassSpec == PassInit /\ [][PassNext]_passVars

---------------------------------------------------------------------------
(* What must hold of the examples.                                           *)

inHand == ToSet(chunk) \cup ToSet(group) \cup UNION {ToSet(dealt[i]) : i \in DOMAIN dealt}
ShownIn(e) == UNION {ToSet(e.groups[i]) : i \in DOMAIN e.groups}
CardsIn(shown) == {s.card : s \in ToSet(shown)}

\* No example lets a model read the answer: a field the dojo hides is illegible
\* on every card whatever mods came after, in an evaluation as in training; a
\* card that is to be told from its deck is not in the deck; and no card is
\* shown of which the split must not know.
ExamplesGiveNothingAway ==
    \A e \in inHand :
        /\ \A s \in ShownIn(e) :
              s.legible \cap setup.dojo.hides = {} /\ Visible(s.card, setup.split)
        /\ setup.dojo.kind = "deckMask" => e.of.row.picks[1] \notin CardsIn(e.groups[1])
        /\ setup.dojo.kind = "heldOut" => e.of.row.picks[1] \notin CardsIn(e.groups[2])

\* A mod that rewrites a card always the same way, or in a few fixed ones.
Settled ==
    \E i \in DOMAIN setup.mods :
        setup.mods[i].does \in CardFieldMods /\ DeterministicCards(setup.mods[i])

\* The cards of a group as built, of which the ones shown are some, in order.
WasBuilt(e, i) == IF e.label = e.of.label THEN e.of.groups[i] ELSE e.of.groups[3 - i]
SomeOf(shown, cards) == [j \in DOMAIN shown |-> shown[j].card] \in SomeInOrder(cards)

PicksItsCard(e) ==
    LET options == e.groups[1]
    IN /\ e.label \in 1 .. Scores(setup.dojo, e)
       /\ IF e.label \in DOMAIN options
          THEN options[e.label].card \in ToSet(e.of.row.picks)
          ELSE e.of.row.picks = <<>>

Plain(s) ==
    s = [Shown(s.card) EXCEPT !.legible = @ \ setup.dojo.hides]

\* Whatever the mods did, the label is still about what is shown: a pick is the
\* place of the card that was taken, or the place past the options when none
\* was; the label of a pair turned with it; a group keeps cards of its own in
\* their order, never none, and all of them where the label counts them.  A
\* text that a draw made is never one that may be cached, and an evaluation
\* shows the cards as they are.
ModsKeepLabelsTrue ==
    \A e \in inHand :
        /\ setup.dojo.kind \in OptionKinds => PicksItsCard(e)
        /\ \A i \in DOMAIN e.groups :
              /\ SomeOf(e.groups[i], WasBuilt(e, i))
              /\ e.groups[i] = <<>> => WasBuilt(e, i) = <<>>
              /\ i \in setup.dojo.exact => Len(e.groups[i]) = Len(WasBuilt(e, i))
        /\ \A s \in ShownIn(e) : Plain(s) \/ (training /\ (s.cacheable => Settled))

---------------------------------------------------------------------------
(* What must hold of a pass.                                                 *)

BuiltAs(es) == [i \in DOMAIN es |-> es[i].of]
AllBuilt ==
    BuiltAs(FoldLeft(LAMBDA es, row : es \o RowExamples(setup.dojo, row, setup.split),
                     <<>>, setup.file))
handed == BuiltAs(FlattenSeq(dealt))
Least(m, n) == IF m < n THEN m ELSE n

\* A pass deals every example of its split once and in order, in groups that fit
\* the budget: none is lost between two chunks or two groups, an evaluation
\* stops at its cap, an example that is over the budget loses only the group
\* before it, and a dojo that could be built always has a batch for training.
\* (What a balanced dojo reads of TRAIN is drawn anew in each pass.)
PassDealsEachRowOnce ==
    /\ \A i \in DOMAIN dealt : dealt[i] # <<>> /\ PaddedCost(dealt[i]) <= setup.budget
    /\ ~balanced =>
          /\ IsPrefix(handed \o BuiltAs(group), AllBuilt)
          /\ state = "over" =>
                Len(handed) = Least(Len(AllBuilt), IF setup.cap = None THEN Len(AllBuilt)
                                                   ELSE setup.cap)
          /\ ~barren

=============================================================================
