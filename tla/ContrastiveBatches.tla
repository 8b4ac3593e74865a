------------------------- MODULE ContrastiveBatches -------------------------
(* A contrastive dojo at work (src/dojos/contrastive): decks are dealt in    *)
(* samples, each deck of a sample gives a clique of items, and every unit of *)
(* the batch is compared with the others of its clique and with those of the *)
(* other decks.  A deck box deals the decks of a split; a teacher's dealer   *)
(* makes a pseudo-deck of a card and of some of its neighbours.              *)
(*                                                                           *)
(* An item is the sequence of its cards, a clique that of its items.  A card *)
(* costs 1 of the budget, as the trainer has it.  The mods of a run change   *)
(* texts only here, so what is shown is told by the cards.                   *)
EXTENDS DojoKinds

CONSTANTS
    Pools,          \* what to try: [style, size, parts, source, decks, least,
                    \* most, staples, split, budget, cap]
    Unknown         \* the card that stands for cards no one knows

VARIABLES
    pool,       \* the dojo and the pass that is asked for
    going,      \* "idle", "open", "over"
    left,       \* the decks of the pass that are not dealt yet
    used,       \* decks dealt in samples so far
    batch,      \* the batch that was last handed over: [deck, items] each
    batches     \* batches handed over in this pass

contrastVars == <<pool, going, left, used, batch, batches>>

---------------------------------------------------------------------------
(* Drawing cards of a deck.                                                  *)

Arrangements(n, k) == {f \in [1 .. k -> 1 .. n] : \A i, j \in 1 .. k : f[i] = f[j] => i = j}

\* k of them without replacement, in any order; none if there are too few.
Draw(cards, k) ==
    {[i \in 1 .. k |-> cards[f[i]]] : f \in Arrangements(Len(cards), k)}

KnownCards(deck) == SelectSeq(deck, LAMBDA c : c # Unknown /\ Visible(c, pool.split))

\* Staples are dropped by chance, a copy at a time.
Kept(cards) ==
    {kept \in SomeInOrder(cards) :
        \A c \in ToSet(cards) \ pool.staples :
            Len(SelectSeq(kept, LAMBDA x : x = c)) = Len(SelectSeq(cards, LAMBDA x : x = c))}

\* candidate_uuids: a set of at most one, none if too few are left.
Candidates(deck, least) ==
    IF Len(KnownCards(deck)) < least THEN {<<>>}
    ELSE {IF Len(kept) < least THEN <<>> ELSE kept : kept \in Kept(KnownCards(deck))}

\* A bug the checks look for: only the copy that was drawn is held out.
HeldOutDrawsOfOthers(cards, k) ==
    {<<cards[i], rest>> : i \in DOMAIN cards,
                          rest \in UNION {Draw(RemoveAt(cards, j), k) : j \in DOMAIN cards}}

\* A card, and k of the others, of which no copy of it is one.
HeldOutDraws(cards, k) ==
    UNION {{<<card, rest>> : rest \in Draw(SelectSeq(cards, LAMBDA c : c # card), k)} :
           card \in ToSet(cards)}

Slices(cards, size) ==
    [i \in 1 .. Len(cards) \div size |-> SubSeq(cards, (i - 1) * size + 1, i * size)]

---------------------------------------------------------------------------
(* The styles: the cliques that a deck may give, <<>> if none.               *)

CardsPerDeck ==
    CASE pool.style = "single" -> pool.parts
      [] pool.style \in {"crossSlice", "sliceMatch"} -> pool.size * pool.parts
      [] pool.style = "missing" -> pool.size + 1
      [] pool.style = "contexts" -> pool.parts * (1 + pool.size)
      [] pool.style = "odd" -> pool.size

OrNone(cliques) == IF cliques = {} THEN {<<>>} ELSE cliques

SingleCardCliques(deck) ==
    UNION {IF cards = <<>> THEN {<<>>} ELSE {Slices(drawn, 1) : drawn \in Draw(cards, pool.parts)} :
           cards \in Candidates(deck, pool.parts)}

DeckSlicesCliques(deck) ==
    UNION {IF cards = <<>> THEN {<<>>}
           ELSE {Slices(drawn, pool.size) : drawn \in Draw(cards, CardsPerDeck)} :
           cards \in Candidates(deck, CardsPerDeck)}

MissingCardCliques(deck) ==
    UNION {OrNone({<<d[2], <<d[1]>>>> : d \in HeldOutDraws(cards, pool.size)}) :
           cards \in Candidates(deck, CardsPerDeck)}

CardInContextsCliques(deck) ==
    LET rest == pool.parts * pool.size
    IN UNION {OrNone({[i \in 1 .. pool.parts |-> <<d[1]>> \o Slices(d[2], pool.size)[i]] :
                        d \in HeldOutDraws(cards, rest)}) :
              cards \in Candidates(deck, 1 + rest)}

CliquesOfADeck(deck) ==
    CASE pool.style = "single" -> SingleCardCliques(deck)
      [] pool.style \in {"crossSlice", "sliceMatch"} -> DeckSlicesCliques(deck)
      [] pool.style = "missing" -> MissingCardCliques(deck)
      [] pool.style = "contexts" -> CardInContextsCliques(deck)

InSample(deck, items) == [deck |-> deck, items |-> items]
WithItems(sample) == SelectSeq(sample, LAMBDA s : s.items # <<>>)

PairedSamples(decks) ==
    {WithItems(sample) : sample \in Each(decks, LAMBDA deck :
        {InSample(deck, items) : items \in CliquesOfADeck(deck)})}

\* Each host's slice ends with a card of another deck that the host does not
\* hold; a host whose donor has none gives no item.
IntrudersOf(pools, host) ==
    UNION {LET donor == pools[j]
               options == {c \in ToSet(donor.items) : c \notin ToSet(KnownCards(pools[host].deck))}
           IN IF options = {} THEN {None} ELSE options :
           j \in DOMAIN pools \ {host}}

OddItems(pools, host) ==
    UNION {IF intruder = None THEN {<<>>}
           ELSE {<<Append(slice, intruder)>> : slice \in Draw(pools[host].items, pool.size - 1)} :
           intruder \in IntrudersOf(pools, host)}

OddSamples(decks) ==
    LET poolings == {WithItems(s) : s \in Each(decks, LAMBDA deck :
            {InSample(deck, cards) : cards \in Candidates(deck, pool.size - 1)})}
    IN UNION {IF Len(pools) < 2 THEN {<<>>}
              ELSE {WithItems(s) : s \in Each([i \in DOMAIN pools |-> i], LAMBDA i :
                       {InSample(pools[i].deck, items) : items \in OddItems(pools, i)})} :
              pools \in poolings}

Builds(decks) == IF pool.style = "odd" THEN OddSamples(decks) ELSE PairedSamples(decks)

---------------------------------------------------------------------------
(* What is compared with what.  A unit is a card of an item, or an item.     *)

Copies(cards) == [c \in ToSet(cards) |-> Len(SelectSeq(cards, LAMBDA x : x = c))]

Unit(b, i, j, k) == [clique |-> i, item |-> j, place |-> k, cards |-> b[i].items[j]]

Units(b) ==
    UNION {UNION {{Unit(b, i, j, k) :
                     k \in IF pool.style = "crossSlice" THEN DOMAIN b[i].items[j] ELSE {1}} :
                  j \in DOMAIN b[i].items} : i \in DOMAIN b}

Identity(u) ==
    CASE pool.style \in {"single", "missing"} -> u.cards
      [] pool.style = "crossSlice" -> <<u.cards[u.place]>>
      [] pool.style = "contexts" -> <<u.cards[1]>>
      [] pool.style = "sliceMatch" -> Copies(u.cards)

MissingFrom(b, u) == b[u.clique].items[2]

ExcludedByStyle(b, u, v) ==
    CASE pool.style = "crossSlice" -> u.clique = v.clique /\ u.item = v.item
      [] pool.style = "missing" ->
           u.item = v.item \/ MissingFrom(b, u) = MissingFrom(b, v)
      [] OTHER -> FALSE

Positive(u, v) == u.clique = v.clique /\ u.item # v.item

Negative(b, u, v) ==
    u # v /\ ~Positive(u, v) /\ Identity(u) # Identity(v) /\ ~ExcludedByStyle(b, u, v)

\* The loss and its baseline are defined: some unit has a positive, and some
\* such unit a negative.
UsableBaseline(b) ==
    IF pool.style = "odd" THEN b # <<>>
    ELSE \E u, v, w \in Units(b) : Positive(u, v) /\ Negative(b, u, w)

---------------------------------------------------------------------------
(* Dealing the decks of a pass.                                              *)

DecksPerBatch == pool.budget \div CardsPerDeck

InAnyOrder(decks) ==
    {[i \in DOMAIN decks |-> decks[f[i]]] : f \in Arrangements(Len(decks), Len(decks))}

\* NeighbourDealer: a card of the split's own tier with its neighbours, as many
\* as are asked for or there are.
PseudoDecks(anchor, neighbours) ==
    {<<anchor>> \o drawn :
        drawn \in Draw(neighbours, IF pool.most < Len(neighbours) THEN pool.most ELSE Len(neighbours))}

DealtAnchors ==
    SelectSeq(pool.decks, LAMBDA d : Len(d) > pool.least /\ TierOf[d[1]] = pool.split)

Dealt ==
    IF pool.source = "box" THEN {pool.decks}
    ELSE Each(DealtAnchors, LAMBDA d : PseudoDecks(d[1], Tail(d)))

Idle ==
    /\ going = "idle" /\ left = <<>> /\ used = 0 /\ batch = <<>> /\ batches = 0
ContrastInit == pool \in Pools /\ Idle

\* A budget of fewer than two decks is refused.  TRAIN is shuffled.
OpenDeal ==
    /\ going = "idle" /\ DecksPerBatch >= 2
    /\ left' \in UNION {IF pool.split = "TRAIN" THEN InAnyOrder(decks) ELSE {decks} :
                        decks \in Dealt}
    /\ going' = "open"
    /\ UNCHANGED <<pool, used, batch, batches>>

NextSample ==
    LET n == IF Len(left) < DecksPerBatch THEN Len(left) ELSE DecksPerBatch
        m == IF pool.cap # None /\ pool.cap - used < n THEN pool.cap - used ELSE n
    IN [decks |-> SubSeq(left, 1, m), rest |-> SubSeq(left, n + 1, Len(left))]

\* Fewer than two decks are no batch: the pass is over.
EndDeal ==
    /\ going = "open" /\ Len(NextSample.decks) < 2
    /\ going' = "over" /\ batch' = <<>>
    /\ UNCHANGED <<pool, left, used, batches>>

\* A batch without a usable baseline is passed over.
DealBatch ==
    /\ going = "open" /\ Len(NextSample.decks) >= 2
    /\ \E b \in Builds(NextSample.decks) :
          IF UsableBaseline(b) THEN batch' = b /\ batches' = batches + 1
          ELSE batch' = <<>> /\ UNCHANGED batches
    /\ left' = NextSample.rest /\ used' = used + Len(NextSample.decks)
    /\ UNCHANGED <<pool, going>>

ContrastNext == OpenDeal \/ EndDeal \/ DealBatch

---------------------------------------------------------------------------
(* What must hold of a batch.                                                *)

CardsUsed(clique) ==
    LET cards == FlattenSeq(clique.items)
    IN CASE pool.style = "odd" -> Front(cards)
         [] pool.style = "contexts" ->
              <<cards[1]>> \o FlattenSeq([i \in DOMAIN clique.items |-> Tail(clique.items[i])])
         [] OTHER -> cards

WithinTheDeck(clique) ==
    LET drawn == Copies(CardsUsed(clique))
        held == Copies(KnownCards(clique.deck))
    IN \A c \in DOMAIN drawn : c \in DOMAIN held /\ drawn[c] <= held[c]

\* A batch teaches what its style means it to.  The items of a clique are cards
\* that its deck really holds, the split may see and have a name, each copy used
\* once; a card that was held out is nowhere in what it is held out of, and an
\* intruder nowhere in its host's deck; no unit is pushed away from its like, a
\* context from the card it misses, or a slice from one of the same cards; some
\* unit has something to tell apart, and all of it fits the budget.
ContrastivePairsAreSound ==
    /\ \A i \in DOMAIN batch : WithinTheDeck(batch[i])
    /\ pool.style = "missing" =>
          \A i \in DOMAIN batch : batch[i].items[2][1] \notin ToSet(batch[i].items[1])
    /\ pool.style = "contexts" =>
          \A i \in DOMAIN batch : \A j \in DOMAIN batch[i].items :
              batch[i].items[j][1] \notin ToSet(Tail(batch[i].items[j]))
    /\ pool.style = "odd" =>
          \A i \in DOMAIN batch : Last(batch[i].items[1]) \notin ToSet(batch[i].deck)
    /\ pool.style # "odd" =>
          \A u, v \in Units(batch) : Negative(batch, u, v) =>
              CASE pool.style = "missing" -> u.clique # v.clique /\ MissingFrom(batch, u) # v.cards
                [] pool.style = "crossSlice" -> u.cards[u.place] # v.cards[v.place]
                [] pool.style = "contexts" -> u.cards[1] # v.cards[1]
                [] OTHER -> Copies(u.cards) # Copies(v.cards)
    /\ batch # <<>> => UsableBaseline(batch)
    /\ FoldLeft(LAMBDA n, c : n + Len(FlattenSeq(c.items)), 0, batch) <= pool.budget

=============================================================================
