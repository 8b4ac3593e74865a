------------------------- MODULE CardIngestionProofs -------------------------
(***************************************************************************)
(* Theorems of CardIngestion, for any catalogues that are well-formed, any *)
(* number of changes upstream and any number of saves cut short.           *)
(***************************************************************************)
EXTENDS CardIngestion, FiniteSetTheorems, WellFoundedInduction, TLAPS

-----------------------------------------------------------------------------
(* What a catalogue is.                                                    *)

LEMMA StageFacts ==
    ASSUME NEW c \in Catalogues
    PROVE  /\ c.stage.match \in {"id", "name", "group"}
           /\ c.stage.merge = IF c.stage.match = "name" THEN "longer" ELSE "differing"
           /\ c.stage.deletes <=> c.stage.match = "group"
<1>1. c.stage \in Stages
  BY CardAssumption DEF WellFormed
<1> QED
  BY <1>1 DEF Stages, Scryfall, CardvaultFabtcg, GwentOne, SpireCodex, Dominiontabs,
              PokemonTcg, Tcgjson, Hearthstonejson, Stage

LEMMA RangeIsFinite ==
    ASSUME NEW f, IsFiniteSet(DOMAIN f)
    PROVE  IsFiniteSet(Range(f))
<1> DEFINE g == [k \in DOMAIN f |-> f[k]]
<1>1. g \in Surjection(DOMAIN f, Range(f))
  BY DEF Surjection, Range
<1> QED
  BY <1>1, FS_Surjection

LEMMA RowFacts ==
    ASSUME NEW c \in Catalogues, NEW r \in Rows(c)
    PROVE  /\ 1 \in DOMAIN r.ids /\ r.ids[1] \in Range(r.ids)
           /\ IsFiniteSet(Range(r.ids))
           /\ r.text \in Nat /\ r.name # "Unknown"
<1>1. r.ids # <<>> /\ r.ids \in Seq(Range(r.ids)) /\ r.text \in Nat /\ r.name # "Unknown"
  BY CardAssumption DEF WellFormed, UnknownCard
<1>2. Len(r.ids) \in Nat /\ Len(r.ids) # 0 /\ DOMAIN r.ids = 1..Len(r.ids)
  BY <1>1
<1>3. IsFiniteSet(DOMAIN r.ids)
  BY <1>2, FS_Interval
<1>4. IsFiniteSet(Range(r.ids))
  BY <1>3, RangeIsFinite
<1> QED
  BY <1>1, <1>2, <1>4 DEF Range

LEMMA RowsAreListed ==
    ASSUME NEW c \in Catalogues
    PROVE  /\ Len(c.rows) \in Nat /\ Len(c.rows) > 0 /\ DOMAIN c.rows = 1..Len(c.rows)
           /\ \A j \in 1..Len(c.rows) : c.rows[j] \in Rows(c)
           /\ Rows(c) = {c.rows[j] : j \in 1..Len(c.rows)}
<1>1. c.rows # <<>> /\ c.rows \in Seq(Rows(c))
  BY CardAssumption DEF WellFormed
<1> QED
  BY <1>1 DEF Rows, Range

LEMMA RowsAreApart ==
    ASSUME NEW c \in Catalogues, NEW r \in Rows(c), NEW s \in Rows(c),
           NEW i \in Range(r.ids), i \in Range(s.ids)
    PROVE  SameCard(c.stage.match, r, s)
  BY CardAssumption DEF WellFormed

LEMMA GroupsAreOnce ==
    ASSUME NEW c \in Catalogues, c.stage.match = "group",
           NEW j \in DOMAIN c.rows, NEW k \in DOMAIN c.rows, c.rows[j] = c.rows[k]
    PROVE  j = k
  BY CardAssumption DEF WellFormed

LEMMA PrintFacts ==
    ASSUME NEW c \in Catalogues, NEW p \in c.prints
    PROVE  /\ ~c.stage.deletes
           /\ IsFiniteSet(c.prints)
           /\ \A r \in Rows(c) : p.id \notin Range(r.ids)
           /\ \A q \in c.prints : p.id # q.card /\ (p.id = q.id => p = q)
  BY CardAssumption DEF WellFormed

LEMMA FirstIdsAreApart ==
    ASSUME NEW c \in Catalogues, c.stage = raw.stage, raw.stage.match = "id"
    PROVE  /\ \A r \in Rows(c) : r.ids[1] \in FirstIds
           /\ \A r \in Rows(c), i \in FirstIds : i \in Range(r.ids) => i = r.ids[1]
           /\ \A p \in c.prints : p.id \notin FirstIds
<1>1. \A r \in Rows(c) : r.ids[1] \in FirstIds
  BY DEF FirstIds
<1>2. ASSUME NEW i \in FirstIds
      PROVE  /\ \A r \in Rows(c) : \A k \in DOMAIN r.ids \ {1} : r.ids[k] # i
             /\ \A p \in c.prints : p.id # i
  <2>1. PICK d \in Catalogues : \E s \in Rows(d) : i = s.ids[1]
    BY DEF FirstIds
  <2>2. FirstIdentifiersAreApart(c, d)
    BY CardAssumption
  <2> QED
    BY <2>1, <2>2 DEF FirstIdentifiersAreApart
<1> QED
  BY <1>1, <1>2 DEF Range

LEMMA SameCardIs ==
    ASSUME NEW c \in Catalogues, NEW r, NEW s
    PROVE  /\ SameCard(c.stage.match, r, r)
           /\ SameCard(c.stage.match, r, s) <=> SameCard(c.stage.match, s, r)
  BY StageFacts DEF SameCard

-----------------------------------------------------------------------------
(* What the operations do to a binder.                                     *)

LEMMA UpsertIs ==
    ASSUME NEW b, IsBinder(b), NEW u, NEW card
    PROVE  /\ IsBinder(Upsert(b, u, card))
           /\ DOMAIN Upsert(b, u, card).cards = DOMAIN b.cards \cup {u}
           /\ Upsert(b, u, card).cards[u] = card
           /\ \A v \in DOMAIN b.cards \ {u} : Upsert(b, u, card).cards[v] = b.cards[v]
           /\ Upsert(b, u, card).aliases = b.aliases
<1> DEFINE cards == [v \in DOMAIN b.cards \cup {u} |-> IF v = u THEN card ELSE b.cards[v]]
           names == (b.byName \ NamesOf(b.cards, {u})) \cup {<<card.name, u>>}
<1>1. b.byName = NamesOf(b.cards, DOMAIN b.cards)
  BY DEF IsBinder
<1>2. Upsert(b, u, card) = [cards |-> cards, byName |-> names, aliases |-> b.aliases]
  BY DEF Upsert
<1>3. names = NamesOf(cards, DOMAIN cards)
  <2>1. b.byName = {<<b.cards[v].name, v>> : v \in DOMAIN b.cards}
    BY <1>1 DEF NamesOf
  <2>2. NamesOf(b.cards, {u}) = {<<b.cards[v].name, v>> : v \in {u} \cap DOMAIN b.cards}
    BY DEF NamesOf
  <2>3. NamesOf(cards, DOMAIN cards) = {<<cards[v].name, v>> : v \in DOMAIN b.cards \cup {u}}
    BY DEF NamesOf
  <2>4. ASSUME NEW v \in DOMAIN b.cards, v # u
        PROVE  <<cards[v].name, v>> \in names
    <3>1. \A w \in {u} \cap DOMAIN b.cards : <<b.cards[v].name, v>> # <<b.cards[w].name, w>>
      BY <2>4
    <3>2. <<b.cards[v].name, v>> \notin NamesOf(b.cards, {u})
      BY <2>2, <3>1
    <3>3. cards[v] = b.cards[v]
      BY <2>4
    <3> QED
      BY <2>1, <3>2, <3>3
  <2>5. ASSUME NEW x \in names, x # <<card.name, u>>
        PROVE  x \in NamesOf(cards, DOMAIN cards)
    <3>1. x \in b.byName /\ x \notin NamesOf(b.cards, {u})
      BY <2>5
    <3>2. PICK v \in DOMAIN b.cards : x = <<b.cards[v].name, v>>
      BY <2>1, <3>1
    <3>3. v # u
      BY <2>2, <3>1, <3>2
    <3>4. cards[v] = b.cards[v]
      BY <3>3
    <3> QED
      BY <2>3, <3>2, <3>4
  <2>6. cards[u] = card /\ <<card.name, u>> \in names
    OBVIOUS
  <2>7. names \subseteq NamesOf(cards, DOMAIN cards)
    BY <2>3, <2>5, <2>6
  <2>8. NamesOf(cards, DOMAIN cards) \subseteq names
    BY <2>3, <2>4, <2>6
  <2> QED
    BY <2>7, <2>8
<1>4. /\ DOMAIN cards = DOMAIN b.cards \cup {u} /\ cards[u] = card
      /\ \A v \in DOMAIN b.cards \ {u} : cards[v] = b.cards[v]
  OBVIOUS
<1> HIDE DEF cards, names
<1>5. /\ Upsert(b, u, card).cards = cards /\ Upsert(b, u, card).byName = names
      /\ Upsert(b, u, card).aliases = b.aliases
  BY <1>2
<1>6. IsBinder(Upsert(b, u, card))
  BY <1>2, <1>3, <1>5 DEF IsBinder
<1> QED
  BY <1>4, <1>5, <1>6

LEMMA StoredRowIs ==
    ASSUME NEW b, IsBinder(b), NEW r, NEW u
    PROVE  /\ IsBinder(StoredRow(b, r, u))
           /\ DOMAIN StoredRow(b, r, u).cards = DOMAIN b.cards \cup {u}
           /\ StoredRow(b, r, u).cards[u] =
                IF u \in DOMAIN b.cards THEN Merged(b.cards[u], r) ELSE CardOfRow(r)
           /\ \A v \in DOMAIN b.cards \ {u} : StoredRow(b, r, u).cards[v] = b.cards[v]
           /\ DOMAIN StoredRow(b, r, u).aliases = DOMAIN b.aliases \cup Range(r.ids)
           /\ \A i \in Range(r.ids) : StoredRow(b, r, u).aliases[i] = u
           /\ \A i \in DOMAIN b.aliases \ Range(r.ids) :
                StoredRow(b, r, u).aliases[i] = b.aliases[i]
<1> DEFINE card == IF u \in DOMAIN b.cards THEN Merged(b.cards[u], r) ELSE CardOfRow(r)
           m == Upsert(b, u, card)
<1> HIDE DEF card
<1>1. /\ IsBinder(m) /\ DOMAIN m.cards = DOMAIN b.cards \cup {u} /\ m.cards[u] = card
      /\ \A v \in DOMAIN b.cards \ {u} : m.cards[v] = b.cards[v]
      /\ m.aliases = b.aliases
  BY UpsertIs
<1>2. StoredRow(b, r, u) = RegisterAliases(m, Range(r.ids), u)
  BY DEF StoredRow, card
<1> HIDE DEF m
<1>3. RegisterAliases(m, Range(r.ids), u) =
        [cards |-> m.cards, byName |-> NamesOf(m.cards, DOMAIN m.cards),
         aliases |-> [i \in DOMAIN m.aliases \cup Range(r.ids) |->
                        IF i \in Range(r.ids) THEN u ELSE m.aliases[i]]]
  BY <1>1 DEF RegisterAliases, IsBinder
<1> QED
  BY <1>1, <1>2, <1>3 DEF IsBinder, card

LEMMA DeleteIs ==
    ASSUME NEW b, IsBinder(b), NEW uuids
    PROVE  /\ IsBinder(Delete(b, uuids))
           /\ DOMAIN Delete(b, uuids).cards = DOMAIN b.cards \ uuids
           /\ \A v \in DOMAIN b.cards \ uuids : Delete(b, uuids).cards[v] = b.cards[v]
           /\ Delete(b, uuids).aliases = b.aliases
<1> DEFINE cards == [v \in DOMAIN b.cards \ uuids |-> b.cards[v]]
           names == b.byName \ NamesOf(b.cards, uuids)
<1>1. b.byName = {<<b.cards[v].name, v>> : v \in DOMAIN b.cards}
  BY DEF IsBinder, NamesOf
<1>2. NamesOf(b.cards, uuids) = {<<b.cards[v].name, v>> : v \in uuids \cap DOMAIN b.cards}
  BY DEF NamesOf
<1>3. NamesOf(cards, DOMAIN cards) = {<<cards[v].name, v>> : v \in DOMAIN b.cards \ uuids}
  BY DEF NamesOf
<1>4. ASSUME NEW v \in DOMAIN b.cards \ uuids
      PROVE  <<cards[v].name, v>> \in names
  <2>1. \A w \in uuids \cap DOMAIN b.cards : <<b.cards[v].name, v>> # <<b.cards[w].name, w>>
    BY <1>4
  <2>2. <<b.cards[v].name, v>> \notin NamesOf(b.cards, uuids)
    BY <1>2, <2>1
  <2> QED
    BY <1>1, <2>2
<1>5. ASSUME NEW x \in names
      PROVE  x \in NamesOf(cards, DOMAIN cards)
  <2>1. PICK v \in DOMAIN b.cards : x = <<b.cards[v].name, v>>
    BY <1>1
  <2>2. v \notin uuids
    BY <1>2, <1>5, <2>1
  <2> QED
    BY <1>3, <2>1, <2>2
<1>6. names = NamesOf(cards, DOMAIN cards)
  BY <1>3, <1>4, <1>5
<1> QED
  BY <1>6 DEF Delete, IsBinder

LEMMA EnsureUnknownIs ==
    ASSUME NEW b, IsBinder(b), SoundCards(b.cards)
    PROVE  /\ IsBinder(EnsureUnknown(b))
           /\ DOMAIN EnsureUnknown(b).cards = DOMAIN b.cards \cup {Unknown}
           /\ EnsureUnknown(b).cards[Unknown] = UnknownCard
           /\ \A v \in DOMAIN b.cards : EnsureUnknown(b).cards[v] = b.cards[v]
           /\ EnsureUnknown(b).aliases = b.aliases
<1>1. CASE Unknown \in DOMAIN b.cards
  BY <1>1 DEF EnsureUnknown, SoundCards
<1>2. CASE Unknown \notin DOMAIN b.cards
  BY <1>2, UpsertIs DEF EnsureUnknown
<1> QED
  BY <1>1, <1>2

LEMMA WithPrintsIs ==
    ASSUME NEW b, IsBinder(b), NEW c \in Catalogues
    PROVE  LET named == {p \in c.prints : ByAlias(b, p.card) # Nobody}
               aliases == WithPrints(b, c.prints).aliases
           IN  /\ IsBinder(WithPrints(b, c.prints))
               /\ WithPrints(b, c.prints).cards = b.cards
               /\ DOMAIN aliases = DOMAIN b.aliases \cup {p.id : p \in named}
               /\ \A p \in named : aliases[p.id] = ByAlias(b, p.card)
               /\ \A i \in DOMAIN b.aliases :
                    (\A p \in named : p.id # i) => aliases[i] = b.aliases[i]
<1> DEFINE named == {p \in c.prints : ByAlias(b, p.card) # Nobody}
           One(i) == CHOOSE p \in named : p.id = i
           f == [i \in DOMAIN b.aliases \cup {p.id : p \in named} |->
                    IF \E p \in named : p.id = i
                    THEN ByAlias(b, One(i).card) ELSE b.aliases[i]]
<1>1. WithPrints(b, c.prints) = [cards |-> b.cards, byName |-> b.byName, aliases |-> f]
  BY DEF WithPrints
<1>2. \A p \in named : One(p.id) = p
  BY PrintFacts
<1>3. /\ DOMAIN f = DOMAIN b.aliases \cup {p.id : p \in named}
      /\ \A p \in named : f[p.id] = ByAlias(b, p.card)
      /\ \A i \in DOMAIN b.aliases : (\A p \in named : p.id # i) => f[i] = b.aliases[i]
  BY <1>2
<1> HIDE DEF f
<1> QED
  BY <1>1, <1>3 DEF IsBinder

LEMMA FreshIs ==
    ASSUME NEW b, SoundCards(b.cards), SoundAliases(b.aliases), FilesInv
    PROVE  /\ Fresh(b) \in Nat \ {Unknown}
           /\ Fresh(b) \notin DOMAIN b.cards /\ Fresh(b) \notin Range(b.aliases)
           /\ Fresh(b) \notin DOMAIN binderFile.lines /\ Fresh(b) \notin Range(ledgerFile.lines)
<1> DEFINE used == {Unknown} \cup DOMAIN b.cards \cup Range(b.aliases)
                     \cup DOMAIN binderFile.lines \cup Range(ledgerFile.lines)
           n == Cardinality(used)
<1>1. IsFiniteSet(DOMAIN b.cards) /\ IsFiniteSet(Range(b.aliases))
      /\ IsFiniteSet(DOMAIN binderFile.lines) /\ IsFiniteSet(Range(ledgerFile.lines))
  BY RangeIsFinite DEF FilesInv, SoundCards, SoundAliases
<1>2. IsFiniteSet({Unknown})
  BY FS_Singleton
<1>3. IsFiniteSet(used)
  <2>1. IsFiniteSet({Unknown} \cup DOMAIN b.cards)
    BY <1>1, <1>2, FS_Union
  <2>2. IsFiniteSet({Unknown} \cup DOMAIN b.cards \cup Range(b.aliases))
    BY <1>1, <2>1, FS_Union
  <2>3. IsFiniteSet({Unknown} \cup DOMAIN b.cards \cup Range(b.aliases)
                      \cup DOMAIN binderFile.lines)
    BY <1>1, <2>2, FS_Union
  <2> QED
    BY <1>1, <2>3, FS_Union
<1>4. 0 \in used
  BY DEF Unknown
<1> HIDE DEF used
<1>5. \E u \in 1..n : u \notin used
  <2> SUFFICES ASSUME 1..n \subseteq used
               PROVE  FALSE
    OBVIOUS
  <2>1. n \in Nat /\ IsFiniteSet(used \ {0}) /\ Cardinality(used \ {0}) = n - 1
    BY <1>3, <1>4, FS_CardinalityType, FS_RemoveElement
  <2>2. 1..n \subseteq used \ {0}
    BY <2>1
  <2>3. Cardinality(1..n) <= n - 1
    BY <2>1, <2>2, FS_Subset
  <2>4. Cardinality(1..n) = n
    BY <2>1, FS_Interval
  <2> QED
    BY <2>1, <2>3, <2>4
<1>6. Fresh(b) = CHOOSE u \in 1..n : u \notin used
  BY DEF Fresh, used
<1>7. Fresh(b) \in 1..n /\ Fresh(b) \notin used
  BY <1>5, <1>6
<1>8. n \in Nat
  BY <1>3, FS_CardinalityType
<1> QED
  BY <1>7, <1>8 DEF used, Unknown

LEMMA ByAliasIs ==
    ASSUME NEW b, SoundCards(b.cards), NEW i
    PROVE  /\ ByAlias(b, i) # Nobody <=> i \in DOMAIN b.aliases /\ b.aliases[i] \in DOMAIN b.cards
           /\ ByAlias(b, i) # Nobody => ByAlias(b, i) = b.aliases[i]
           /\ ByAlias(b, i) \in DOMAIN b.cards <=> ByAlias(b, i) # Nobody
<1>1. Nobody \notin DOMAIN b.cards
  BY CardAssumption DEF SoundCards
<1> QED
  BY <1>1 DEF ByAlias

-----------------------------------------------------------------------------
(* A row is stored.                                                        *)

\* A process of catalogue c has come to row r, and has stored the others of done.
Storing(b, c, done, r) ==
    /\ FilesInv
    /\ IsBinder(b) /\ SoundCards(b.cards) /\ SoundAliases(b.aliases)
    /\ ~raw.stage.deletes => Range(b.aliases) \subseteq DOMAIN b.cards
    /\ c.stage = raw.stage /\ done \subseteq Rows(c) /\ r \in Rows(c)
    /\ raw.stage.match = "group" => r \notin done
    /\ HoldsRows(b, done)

CardsOf(b, rows) == {ByAlias(b, s.ids[1]) : s \in rows}

\* The cards StoreRow chooses from.
Chosen(b, r, taken) ==
    LET existing == ExistingCards(b, r, taken)
    IN IF existing = {} THEN {Fresh(b)} ELSE existing

LEMMA ChosenByIdIs ==
    ASSUME NEW b, NEW c \in Catalogues, NEW done, NEW r, Storing(b, c, done, r),
           NEW u \in Chosen(b, r, CardsOf(b, done)), raw.stage.match = "id"
    PROVE  /\ u \in Nat \ {Unknown}
           /\ u \notin DOMAIN b.cards => u \notin Range(b.aliases)
           /\ \A i \in FirstIds \cap DOMAIN b.aliases : b.aliases[i] = u <=> i = r.ids[1]
<1>1. ExistingCards(b, r, CardsOf(b, done)) = {ByAlias(b, r.ids[1])} \ {Nobody}
  BY DEF ExistingCards
<1>2. ~raw.stage.deletes
  BY StageFacts DEF Storing
<1>3. r.ids[1] \in FirstIds
  BY FirstIdsAreApart DEF Storing
<1>4. \A i \in DOMAIN b.aliases : b.aliases[i] \in DOMAIN b.cards
  BY <1>2 DEF Storing, Range
<1>5. CASE ByAlias(b, r.ids[1]) # Nobody
  <2>1. u = b.aliases[r.ids[1]] /\ r.ids[1] \in DOMAIN b.aliases
    BY <1>1, <1>5, ByAliasIs DEF Chosen, Storing
  <2> QED
    BY <1>3, <1>4, <2>1 DEF Storing, SoundAliases
<1>6. CASE ByAlias(b, r.ids[1]) = Nobody
  <2>1. u = Fresh(b)
    BY <1>1, <1>6 DEF Chosen
  <2>2. r.ids[1] \notin DOMAIN b.aliases
    BY <1>4, <1>6, ByAliasIs DEF Storing
  <2> QED
    BY <2>1, <2>2, FreshIs DEF Storing, Range
<1> QED
  BY <1>5, <1>6

LEMMA ChosenByNameIs ==
    ASSUME NEW b, NEW c \in Catalogues, NEW done, NEW r, Storing(b, c, done, r),
           NEW u \in Chosen(b, r, CardsOf(b, done)), raw.stage.match = "name"
    PROVE  /\ u \in Nat \ {Unknown}
           /\ u \notin DOMAIN b.cards => u \notin Range(b.aliases)
           /\ \A v \in DOMAIN b.cards : b.cards[v].name = r.name <=> v = u
<1>1. ExistingCards(b, r, CardsOf(b, done)) = ByName(b, r.name)
  BY DEF ExistingCards
<1>2. b.byName = {<<b.cards[v].name, v>> : v \in DOMAIN b.cards}
  BY DEF Storing, IsBinder, NamesOf
<1>3. ByName(b, r.name) = {v \in DOMAIN b.cards : b.cards[v].name = r.name}
  BY <1>2 DEF ByName
<1>4. CASE ByName(b, r.name) # {}
  <2>1. u \in DOMAIN b.cards /\ b.cards[u].name = r.name
    BY <1>1, <1>3, <1>4 DEF Chosen
  <2>2. r.name # "Unknown"
    BY RowFacts DEF Storing
  <2>3. u # Unknown
    BY <2>1, <2>2 DEF Storing, SoundCards, UnknownCard
  <2> QED
    BY <2>1, <2>3 DEF Storing, SoundCards
<1>5. CASE ByName(b, r.name) = {}
  <2>1. u = Fresh(b)
    BY <1>1, <1>5 DEF Chosen
  <2> QED
    BY <1>3, <1>5, <2>1, FreshIs DEF Storing
<1> QED
  BY <1>4, <1>5

LEMMA ChosenByGroupIs ==
    ASSUME NEW b, NEW c \in Catalogues, NEW done, NEW r, Storing(b, c, done, r),
           NEW u \in Chosen(b, r, CardsOf(b, done)), raw.stage.match = "group"
    PROVE  /\ u \in Nat \ {Unknown}
           /\ u \notin DOMAIN b.cards => u \notin Range(b.aliases)
           /\ u \notin CardsOf(b, done)
<1> DEFINE taken == CardsOf(b, done)
<1>1. \A x \in ExistingCards(b, r, taken) : \E k \in DOMAIN r.ids :
        x = ByAlias(b, r.ids[k]) /\ x \notin taken \cup {Nobody}
  BY DEF ExistingCards
<1>2. taken \subseteq DOMAIN b.cards
  BY DEF CardsOf, Storing, HoldsRows, Cards
<1>3. CASE u \in ExistingCards(b, r, taken)
  <2>1. PICK k \in DOMAIN r.ids : u = ByAlias(b, r.ids[k]) /\ u \notin taken \cup {Nobody}
    BY <1>1, <1>3
  <2>2. r.ids[k] \in DOMAIN b.aliases /\ u = b.aliases[r.ids[k]] /\ u \in DOMAIN b.cards
    BY <2>1, ByAliasIs DEF Storing
  <2> QED
    BY <2>1, <2>2 DEF Storing, SoundAliases
<1>4. CASE u = Fresh(b)
  BY <1>2, <1>4, FreshIs DEF Storing
<1> QED
  BY <1>3, <1>4 DEF Chosen
\* The card chosen for a row is that of the stored rows of its card, no other's.
LEMMA ChosenIs ==
    ASSUME NEW b, NEW c \in Catalogues, NEW done, NEW r, Storing(b, c, done, r),
           NEW u \in Chosen(b, r, CardsOf(b, done))
    PROVE  /\ u \in Nat \ {Unknown}
           /\ u \notin DOMAIN b.cards => u \notin Range(b.aliases)
           /\ \A s \in done : ByAlias(b, s.ids[1]) = u <=> SameCard(raw.stage.match, r, s)
<1>1. raw.stage.match \in {"id", "name", "group"}
  BY StageFacts DEF Storing
<1>2. \A s \in done : ByAlias(b, s.ids[1]) \in Cards(b)
  BY DEF Storing, HoldsRows
<1>3. \A s \in done : /\ s.ids[1] \in DOMAIN b.aliases
                     /\ ByAlias(b, s.ids[1]) = b.aliases[s.ids[1]]
  BY <1>2, ByAliasIs DEF Cards, Storing
<1>4. CASE raw.stage.match = "id"
  <2>1. \A s \in done : s.ids[1] \in FirstIds
    BY <1>4, FirstIdsAreApart DEF Storing
  <2>2. /\ u \in Nat \ {Unknown}
        /\ u \notin DOMAIN b.cards => u \notin Range(b.aliases)
        /\ \A i \in FirstIds \cap DOMAIN b.aliases : b.aliases[i] = u <=> i = r.ids[1]
    BY <1>4, ChosenByIdIs
  <2> QED
    BY <1>3, <1>4, <2>1, <2>2 DEF SameCard
<1>5. CASE raw.stage.match = "name"
  <2>1. raw.stage.merge = "longer"
    BY <1>5, StageFacts DEF Storing
  <2>2. \A s \in done : b.cards[ByAlias(b, s.ids[1])].name = s.name
    BY <2>1 DEF Storing, HoldsRows, HoldsRow
  <2> QED
    BY <1>2, <1>5, <2>2, ChosenByNameIs DEF SameCard, Cards
<1>6. CASE raw.stage.match = "group"
  <2>1. \A s \in done : ByAlias(b, s.ids[1]) \in CardsOf(b, done)
    BY DEF CardsOf
  <2>2. r \notin done
    BY <1>6 DEF Storing
  <2> QED
    BY <1>6, <2>1, <2>2, ChosenByGroupIs DEF SameCard
<1> QED
  BY <1>1, <1>4, <1>5, <1>6

\* Storing a row leaves the aliases of the others, and gives it its own.
LEMMA StoredAliasesAre ==
    ASSUME NEW b, NEW c \in Catalogues, NEW done, NEW r, Storing(b, c, done, r),
           NEW u \in Chosen(b, r, CardsOf(b, done)),
           SoundCards(StoredRow(b, r, u).cards)
    PROVE  /\ \A i \in Range(r.ids) : ByAlias(StoredRow(b, r, u), i) = u
           /\ \A s \in done : \A i \in Range(s.ids) :
                ByAlias(StoredRow(b, r, u), i) = ByAlias(b, s.ids[1])
<1> DEFINE m == StoredRow(b, r, u)
<1>1. IsBinder(b) /\ SoundCards(b.cards)
  BY DEF Storing
<1>2. /\ DOMAIN m.cards = DOMAIN b.cards \cup {u}
      /\ DOMAIN m.aliases = DOMAIN b.aliases \cup Range(r.ids)
      /\ \A i \in Range(r.ids) : m.aliases[i] = u
      /\ \A i \in DOMAIN b.aliases \ Range(r.ids) : m.aliases[i] = b.aliases[i]
  BY <1>1, StoredRowIs
<1> HIDE DEF m
<1>3. \A i \in Range(r.ids) : ByAlias(m, i) = u
  BY <1>2 DEF ByAlias
<1>4. /\ u \in Nat \ {Unknown}
      /\ u \notin DOMAIN b.cards => u \notin Range(b.aliases)
      /\ \A s \in done : ByAlias(b, s.ids[1]) = u <=> SameCard(raw.stage.match, r, s)
  BY ChosenIs
<1>5. ASSUME NEW s \in done, NEW i \in Range(s.ids)
      PROVE  ByAlias(m, i) = ByAlias(b, s.ids[1])
  <2>1. s \in Rows(c) /\ r \in Rows(c) /\ c.stage = raw.stage
    BY DEF Storing
  <2>2. ByAlias(b, i) = ByAlias(b, s.ids[1]) /\ ByAlias(b, i) \in DOMAIN b.cards
    BY DEF Storing, HoldsRows, Cards
  <2>3. CASE i \in Range(r.ids)
    <3>1. SameCard(raw.stage.match, r, s)
      BY <2>1, <2>3, RowsAreApart
    <3>2. ByAlias(b, s.ids[1]) = u
      BY <1>4, <3>1
    <3> QED
      BY <1>3, <2>3, <3>2
  <2>4. CASE i \notin Range(r.ids)
    <3>1. i \in DOMAIN b.aliases /\ b.aliases[i] = ByAlias(b, i)
      BY <1>1, <2>2, ByAliasIs
    <3>2. m.aliases[i] = b.aliases[i] /\ i \in DOMAIN m.aliases
      BY <1>2, <2>4, <3>1
    <3> QED
      BY <1>2, <2>2, <3>1, <3>2 DEF ByAlias
  <2> QED
    BY <2>3, <2>4
<1> QED
  BY <1>3, <1>5 DEF m

\* What Merged keeps of the two.
LEMMA MergedIs ==
    ASSUME NEW old, NEW r, old.text \in Nat, r.text \in Nat
    PROVE  /\ Merged(old, r).text \in Nat
           /\ Merged(old, r).name \in {old.name, r.name}
           /\ old.name = r.name => Merged(old, r).name = r.name
           /\ raw.stage.merge = "longer" =>
                Merged(old, r).text >= old.text /\ Merged(old, r).text >= r.text
           /\ raw.stage.merge = "differing" =>
                Merged(old, r).text = r.text /\ Merged(old, r).name = r.name
  BY DEF Merged, CardOfRow

LEMMA StoredIsSound ==
    ASSUME NEW b, NEW c \in Catalogues, NEW done, NEW r, Storing(b, c, done, r),
           NEW u \in Chosen(b, r, CardsOf(b, done))
    PROVE  LET m == StoredRow(b, r, u)
           IN  /\ SoundCards(m.cards) /\ SoundAliases(m.aliases)
               /\ ~raw.stage.deletes => Range(m.aliases) \subseteq DOMAIN m.cards
<1> DEFINE m == StoredRow(b, r, u)
<1>1. /\ IsBinder(b) /\ SoundCards(b.cards) /\ SoundAliases(b.aliases)
      /\ c.stage = raw.stage /\ r \in Rows(c)
  BY DEF Storing
<1>2. /\ DOMAIN m.cards = DOMAIN b.cards \cup {u}
      /\ m.cards[u] = IF u \in DOMAIN b.cards THEN Merged(b.cards[u], r) ELSE CardOfRow(r)
      /\ \A v \in DOMAIN b.cards \ {u} : m.cards[v] = b.cards[v]
      /\ DOMAIN m.aliases = DOMAIN b.aliases \cup Range(r.ids)
      /\ \A i \in Range(r.ids) : m.aliases[i] = u
      /\ \A i \in DOMAIN b.aliases \ Range(r.ids) : m.aliases[i] = b.aliases[i]
  BY <1>1, StoredRowIs
<1> HIDE DEF m
<1>3. u \in Nat \ {Unknown} /\ r.text \in Nat /\ IsFiniteSet(Range(r.ids))
  BY <1>1, ChosenIs, RowFacts
<1>4. ASSUME raw.stage.match = "id"
      PROVE  /\ u \in Nat \ {Unknown}
             /\ u \notin DOMAIN b.cards => u \notin Range(b.aliases)
             /\ \A i \in FirstIds \cap DOMAIN b.aliases : b.aliases[i] = u <=> i = r.ids[1]
  BY <1>4, ChosenByIdIs
<1>5. SoundCards(m.cards)
  <2>1. IsFiniteSet(DOMAIN m.cards) /\ DOMAIN m.cards \subseteq Nat
    BY <1>1, <1>2, <1>3, FS_AddElement DEF SoundCards
  <2>2. m.cards[u].text \in Nat
    BY <1>1, <1>2, <1>3, MergedIs DEF SoundCards, CardOfRow
  <2>3. Unknown \in DOMAIN m.cards => m.cards[Unknown] = UnknownCard
    BY <1>1, <1>2, <1>3 DEF SoundCards
  <2>4. ASSUME raw.stage.match = "name"
        PROVE  \A v, w \in DOMAIN m.cards : m.cards[v].name = m.cards[w].name => v = w
    <3>1. \A v \in DOMAIN b.cards : b.cards[v].name = r.name <=> v = u
      BY <2>4, ChosenByNameIs
    <3>2. m.cards[u].name = r.name
      BY <1>1, <1>2, <1>3, <3>1, MergedIs DEF CardOfRow, SoundCards
    <3> QED
      BY <1>1, <1>2, <2>4, <3>1, <3>2 DEF SoundCards
  <2>5. u # Unknown /\ m.cards[u].name # UnknownCard.name
    <3>1. r.name # UnknownCard.name
      BY <1>1, RowFacts DEF UnknownCard
    <3>2. CASE u \in DOMAIN b.cards
      <4>1. b.cards[u].name # UnknownCard.name /\ b.cards[u].text \in Nat
        BY <1>1, <1>3, <3>2 DEF SoundCards
      <4>2. Merged(b.cards[u], r).name \in {b.cards[u].name, r.name}
        BY <1>3, <4>1, MergedIs
      <4> QED
        BY <1>2, <1>3, <3>1, <3>2, <4>1, <4>2
    <3>3. CASE u \notin DOMAIN b.cards
      BY <1>2, <1>3, <3>1, <3>3 DEF CardOfRow
    <3> QED
      BY <3>2, <3>3
  <2>6. \A v \in DOMAIN m.cards : v = Unknown <=> m.cards[v].name = UnknownCard.name
    BY <1>1, <1>2, <2>5 DEF SoundCards
  <2> QED
    BY <1>1, <1>2, <2>1, <2>2, <2>3, <2>4, <2>6 DEF SoundCards
<1>6. SoundAliases(m.aliases)
  <2>1. IsFiniteSet(DOMAIN m.aliases)
    <3>1. IsFiniteSet(DOMAIN b.aliases)
      BY <1>1 DEF SoundAliases
    <3>2. IsFiniteSet(DOMAIN b.aliases \cup Range(r.ids))
      BY <1>3, <3>1, FS_Union
    <3> QED
      BY <1>2, <3>2
  <2>2. \A i \in DOMAIN m.aliases : m.aliases[i] \in Nat \ {Unknown}
    BY <1>1, <1>2, <1>3 DEF SoundAliases
  <2>3. ASSUME raw.stage.match = "id", NEW i \in FirstIds \cap DOMAIN m.aliases
        PROVE  /\ m.aliases[i] = u <=> i = r.ids[1]
               /\ i # r.ids[1] => i \in DOMAIN b.aliases /\ m.aliases[i] = b.aliases[i]
    <3>1. i \in Range(r.ids) => i = r.ids[1]
      BY <1>1, <2>3, FirstIdsAreApart
    <3>2. r.ids[1] \in Range(r.ids)
      BY <1>1, RowFacts
    <3> QED
      BY <1>2, <1>4, <2>3, <3>1, <3>2
  <2>4. ASSUME raw.stage.match = "id", NEW i \in FirstIds \cap DOMAIN m.aliases,
               NEW j \in FirstIds \cap DOMAIN m.aliases, m.aliases[i] = m.aliases[j]
        PROVE  i = j
    BY <1>1, <2>3, <2>4 DEF SoundAliases
  <2> QED
    BY <2>1, <2>2, <2>4 DEF SoundAliases
<1>7. ~raw.stage.deletes => Range(m.aliases) \subseteq DOMAIN m.cards
  BY <1>2 DEF Storing, Range
<1> QED
  BY <1>5, <1>6, <1>7 DEF m
\* The content that rows must find in their cards is there after one more row.
LEMMA MergedHolds ==
    ASSUME NEW c \in Catalogues, c.stage = raw.stage, NEW done, NEW r, NEW s \in done,
           NEW old, old.text \in Nat, r.text \in Nat, s.text \in Nat,
           HoldsRow(old, s, done), SameCard(raw.stage.match, r, s),
           raw.stage.match = "name" => old.name = r.name
    PROVE  /\ HoldsRow(Merged(old, r), s, done \cup {r})
           /\ HoldsRow(Merged(old, r), r, done \cup {r})
<1>1. /\ raw.stage.match \in {"id", "name", "group"}
      /\ raw.stage.merge = IF raw.stage.match = "name" THEN "longer" ELSE "differing"
      /\ SameCard(raw.stage.match, r, r) /\ SameCard(raw.stage.match, s, r)
  BY StageFacts, SameCardIs
<1>2. CASE raw.stage.match = "name"
  <2>1. raw.stage.merge = "longer" /\ r.name = s.name /\ old.name = r.name
    BY <1>1, <1>2 DEF SameCard
  <2>2. /\ Merged(old, r).name = r.name /\ Merged(old, r).text \in Nat
        /\ Merged(old, r).text >= old.text /\ Merged(old, r).text >= r.text
    BY <2>1, MergedIs
  <2> QED
    BY <2>1, <2>2 DEF HoldsRow
<1>3. CASE raw.stage.match # "name"
  <2>1. raw.stage.merge = "differing"
    BY <1>1, <1>3
  <2>2. Merged(old, r).text = r.text /\ Merged(old, r).name = r.name
    BY <2>1, MergedIs
  <2> QED
    BY <1>1, <2>1, <2>2 DEF HoldsRow
<1> QED
  BY <1>2, <1>3

LEMMA HoldsRowGrows ==
    ASSUME NEW card, NEW s, NEW done, NEW r, HoldsRow(card, s, done)
    PROVE  HoldsRow(card, s, done \cup {r})
  BY DEF HoldsRow

\* After a row is stored as u, the stage has done it and the others.
StoredWith(b, r, u, done) ==
    LET m == StoredRow(b, r, u)
    IN  /\ HoldsRows(m, done \cup {r})
        /\ ByAlias(m, r.ids[1]) = u
        /\ \A s \in done : ByAlias(m, s.ids[1]) = ByAlias(b, s.ids[1])

LEMMA StoredHolds ==
    ASSUME NEW b, NEW c \in Catalogues, NEW done, NEW r, Storing(b, c, done, r),
           NEW u \in Chosen(b, r, CardsOf(b, done))
    PROVE  StoredWith(b, r, u, done)
<1> DEFINE m == StoredRow(b, r, u)
           all == done \cup {r}
<1>1. /\ IsBinder(b) /\ SoundCards(b.cards) /\ HoldsRows(b, done)
      /\ c.stage = raw.stage /\ r \in Rows(c) /\ done \subseteq Rows(c)
  BY DEF Storing
<1>2. /\ DOMAIN m.cards = DOMAIN b.cards \cup {u}
      /\ m.cards[u] = IF u \in DOMAIN b.cards THEN Merged(b.cards[u], r) ELSE CardOfRow(r)
      /\ \A v \in DOMAIN b.cards \ {u} : m.cards[v] = b.cards[v]
  BY <1>1, StoredRowIs
<1>3. /\ u \in Nat \ {Unknown}
      /\ u \notin DOMAIN b.cards => u \notin Range(b.aliases)
      /\ \A s \in done : ByAlias(b, s.ids[1]) = u <=> SameCard(raw.stage.match, r, s)
  BY ChosenIs
<1>4. SoundCards(m.cards)
  BY StoredIsSound
<1>5. /\ \A i \in Range(r.ids) : ByAlias(m, i) = u
      /\ \A s \in done : \A i \in Range(s.ids) : ByAlias(m, i) = ByAlias(b, s.ids[1])
  BY <1>4, StoredAliasesAre
<1> HIDE DEF m
<1>6. \A s \in all : s.ids[1] \in Range(s.ids) /\ s.text \in Nat
  BY <1>1, RowFacts
<1>7. /\ ByAlias(m, r.ids[1]) = u
      /\ \A s \in done : ByAlias(m, s.ids[1]) = ByAlias(b, s.ids[1])
  BY <1>5, <1>6
<1>8. \A s \in done : /\ ByAlias(b, s.ids[1]) \in Cards(b)
                     /\ HoldsRow(b.cards[ByAlias(b, s.ids[1])], s, done)
  BY <1>1 DEF HoldsRows
<1>9. \A s \in all : /\ \A i \in Range(s.ids) : ByAlias(m, i) = ByAlias(m, s.ids[1])
                    /\ ByAlias(m, s.ids[1]) \in Cards(m)
  BY <1>2, <1>3, <1>5, <1>7, <1>8 DEF Cards
<1>10. \A s \in all : HoldsRow(m.cards[ByAlias(m, s.ids[1])], s, all)
  <2>1. ASSUME u \in DOMAIN b.cards, raw.stage.match = "name"
        PROVE  b.cards[u].name = r.name
    <3>1. /\ u \in Nat \ {Unknown}
          /\ u \notin DOMAIN b.cards => u \notin Range(b.aliases)
          /\ \A v \in DOMAIN b.cards : b.cards[v].name = r.name <=> v = u
      BY <2>1, ChosenByNameIs
    <3> QED
      BY <2>1, <3>1
  <2>2. ASSUME NEW s \in done
        PROVE  HoldsRow(m.cards[ByAlias(m, s.ids[1])], s, all)
    <3>1. CASE ByAlias(b, s.ids[1]) # u
      <4>1. m.cards[ByAlias(m, s.ids[1])] = b.cards[ByAlias(b, s.ids[1])]
        BY <1>2, <1>7, <1>8, <3>1 DEF Cards
      <4> QED
        BY <1>8, <4>1, HoldsRowGrows
    <3>2. CASE ByAlias(b, s.ids[1]) = u
      <4>1. u \in DOMAIN b.cards /\ m.cards[ByAlias(m, s.ids[1])] = Merged(b.cards[u], r)
        BY <1>2, <1>7, <1>8, <3>2 DEF Cards
      <4>2. b.cards[u].text \in Nat /\ r.text \in Nat /\ s.text \in Nat
        BY <1>1, <1>6, <4>1 DEF SoundCards
      <4>3. HoldsRow(b.cards[u], s, done) /\ SameCard(raw.stage.match, r, s)
        BY <1>3, <1>8, <3>2
      <4>4. /\ HoldsRow(Merged(b.cards[u], r), s, done \cup {r})
            /\ HoldsRow(Merged(b.cards[u], r), r, done \cup {r})
        BY <1>1, <2>1, <4>1, <4>2, <4>3, MergedHolds
      <4> QED
        BY <4>1, <4>4
    <3> QED
      BY <3>1, <3>2
  <2>3. HoldsRow(m.cards[u], r, all)
    <3>1. r.text \in Nat /\ SameCard(raw.stage.match, r, r)
      BY <1>1, <1>6, SameCardIs
    <3>2. CASE u \notin DOMAIN b.cards
      BY <1>2, <3>1, <3>2 DEF HoldsRow, CardOfRow
    <3>3. CASE u \in DOMAIN b.cards
      <4>1. m.cards[u] = Merged(b.cards[u], r) /\ b.cards[u].text \in Nat
        BY <1>1, <1>2, <3>3 DEF SoundCards
      <4>2. raw.stage.merge = IF raw.stage.match = "name" THEN "longer" ELSE "differing"
        BY <1>1, StageFacts
      <4>3. CASE raw.stage.match = "name"
        <5>1. b.cards[u].name = r.name /\ raw.stage.merge = "longer"
          BY <2>1, <3>3, <4>2, <4>3
        <5> QED
          BY <3>1, <4>1, <5>1, MergedIs DEF HoldsRow
      <4>4. CASE raw.stage.match # "name"
        <5>1. raw.stage.merge = "differing"
          BY <4>2, <4>4
        <5>2. m.cards[u].text = r.text /\ m.cards[u].name = r.name
          BY <3>1, <4>1, <5>1, MergedIs
        <5> QED
          BY <3>1, <5>1, <5>2 DEF HoldsRow
      <4> QED
        BY <4>3, <4>4
    <3> QED
      BY <3>2, <3>3
  <2> QED
    BY <1>7, <2>2, <2>3
<1>11. \A s, t \in all : ByAlias(m, s.ids[1]) = ByAlias(m, t.ids[1])
                         <=> SameCard(raw.stage.match, s, t)
  <2>1. \A s, t \in done : ByAlias(b, s.ids[1]) = ByAlias(b, t.ids[1])
                          <=> SameCard(raw.stage.match, s, t)
    BY <1>1 DEF HoldsRows
  <2>2. /\ SameCard(raw.stage.match, r, r)
        /\ \A s \in done : SameCard(raw.stage.match, r, s) <=> SameCard(raw.stage.match, s, r)
    BY <1>1, SameCardIs
  <2> QED
    BY <1>3, <1>7, <2>1, <2>2
<1>12. HoldsRows(m, all)
  BY <1>9, <1>10, <1>11 DEF HoldsRows
<1> QED
  BY <1>7, <1>12 DEF m, StoredWith
-----------------------------------------------------------------------------
(* The stage ends.                                                         *)

\* A process of catalogue c has stored all its rows.
Finishing(b, c) ==
    /\ IsBinder(b) /\ SoundCards(b.cards) /\ SoundAliases(b.aliases)
    /\ ~raw.stage.deletes => Range(b.aliases) \subseteq DOMAIN b.cards
    /\ c.stage = raw.stage
    /\ HoldsRows(b, Rows(c))

Kept(b, c) ==
    LET untaken == DOMAIN b.cards \ (CardsOf(b, Rows(c)) \cup {Unknown})
    IN IF raw.stage.deletes THEN Delete(b, untaken) ELSE b

\* Rows are held by a binder that has their aliases and their cards.
LEMMA HoldsRowsStays ==
    ASSUME NEW b, NEW m, NEW rows, HoldsRows(b, rows),
           \A r \in rows : /\ r.ids[1] \in Range(r.ids)
                          /\ \A i \in Range(r.ids) : ByAlias(m, i) = ByAlias(b, i)
                          /\ ByAlias(b, r.ids[1]) \in DOMAIN m.cards
                          /\ m.cards[ByAlias(b, r.ids[1])] = b.cards[ByAlias(b, r.ids[1])]
    PROVE  HoldsRows(m, rows)
  BY DEF HoldsRows, Cards

LEMMA KeptIs ==
    ASSUME NEW b, NEW c \in Catalogues, Finishing(b, c)
    PROVE  LET m == Kept(b, c)
           IN  /\ Finishing(m, c) /\ m.aliases = b.aliases
               /\ ~raw.stage.deletes => m = b
               /\ DOMAIN m.cards \subseteq DOMAIN b.cards
               /\ \A i : ByAlias(m, i) # Nobody => ByAlias(m, i) = ByAlias(b, i)
               /\ raw.stage.deletes => Cards(m) = CardsOf(m, Rows(c))
<1>1. CASE ~raw.stage.deletes
  BY <1>1 DEF Kept
<1>2. CASE raw.stage.deletes
  <2> DEFINE taken == CardsOf(b, Rows(c))
             untaken == DOMAIN b.cards \ (taken \cup {Unknown})
             m == Delete(b, untaken)
  <2>1. Kept(b, c) = m
    BY <1>2 DEF Kept
  <2>2. /\ IsBinder(m) /\ DOMAIN m.cards = DOMAIN b.cards \ untaken
        /\ \A v \in DOMAIN b.cards \ untaken : m.cards[v] = b.cards[v]
        /\ m.aliases = b.aliases
    BY DeleteIs DEF Finishing
  <2> HIDE DEF m
  <2>3. SoundCards(m.cards)
    <3>1. SoundCards(b.cards)
      BY DEF Finishing
    <3>2. IsFiniteSet(DOMAIN m.cards)
      BY <2>2, <3>1, FS_Subset DEF SoundCards
    <3> QED
      BY <2>2, <3>1, <3>2 DEF SoundCards
  <2>4. taken \subseteq DOMAIN b.cards \ {Unknown}
    BY DEF CardsOf, Finishing, HoldsRows, Cards
  <2>5. \A r \in Rows(c) : /\ r.ids[1] \in Range(r.ids)
                         /\ \A i \in Range(r.ids) : ByAlias(b, i) = ByAlias(b, r.ids[1])
                         /\ ByAlias(b, r.ids[1]) \in taken
    BY RowFacts DEF Finishing, HoldsRows, CardsOf
  <2>6. \A i : ByAlias(b, i) \in taken => ByAlias(m, i) = ByAlias(b, i)
    <3>1. \A i : ByAlias(b, i) \in taken =>
            i \in DOMAIN b.aliases /\ b.aliases[i] = ByAlias(b, i)
      BY <2>4, ByAliasIs DEF Finishing
    <3> QED
      BY <2>2, <2>4, <3>1 DEF ByAlias
  <2>7. HoldsRows(m, Rows(c))
    <3>1. \A r \in Rows(c) :
            /\ \A i \in Range(r.ids) : ByAlias(m, i) = ByAlias(b, i)
            /\ ByAlias(b, r.ids[1]) \in DOMAIN m.cards
            /\ m.cards[ByAlias(b, r.ids[1])] = b.cards[ByAlias(b, r.ids[1])]
      BY <2>2, <2>4, <2>5, <2>6
    <3> QED
      BY <2>5, <3>1, HoldsRowsStays DEF Finishing
  <2>8. Cards(m) = CardsOf(m, Rows(c))
    <3>1. Cards(m) = taken
      BY <2>2, <2>4 DEF Cards
    <3> QED
      BY <2>5, <2>6, <3>1 DEF CardsOf
  <2>9. \A i : ByAlias(m, i) # Nobody => ByAlias(m, i) = ByAlias(b, i)
    BY <2>2 DEF ByAlias
  <2> QED
    BY <1>2, <2>1, <2>2, <2>3, <2>7, <2>8, <2>9 DEF Finishing
<1> QED
  BY <1>1, <1>2

\* The last pass registers prints, and nothing else.
LEMMA PrintsAre ==
    ASSUME NEW b, NEW c \in Catalogues, Finishing(b, c)
    PROVE  LET m == WithPrints(b, c.prints)
           IN  /\ Finishing(m, c) /\ m.cards = b.cards
               /\ \A i : (\A p \in c.prints : p.id # i) =>
                    /\ i \in DOMAIN m.aliases <=> i \in DOMAIN b.aliases
                    /\ i \in DOMAIN b.aliases => m.aliases[i] = b.aliases[i]
                    /\ ByAlias(m, i) = ByAlias(b, i)
               /\ \A p \in c.prints : p.card \in DOMAIN m.aliases =>
                    ByAlias(m, p.id) = ByAlias(m, p.card)
<1> DEFINE named == {p \in c.prints : ByAlias(b, p.card) # Nobody}
           m == WithPrints(b, c.prints)
<1>1. /\ IsBinder(b) /\ SoundCards(b.cards) /\ SoundAliases(b.aliases)
      /\ c.stage = raw.stage /\ HoldsRows(b, Rows(c))
      /\ ~raw.stage.deletes => Range(b.aliases) \subseteq DOMAIN b.cards
  BY DEF Finishing
<1>2. /\ IsBinder(m) /\ m.cards = b.cards
      /\ DOMAIN m.aliases = DOMAIN b.aliases \cup {p.id : p \in named}
      /\ \A p \in named : m.aliases[p.id] = ByAlias(b, p.card)
      /\ \A i \in DOMAIN b.aliases :
            (\A p \in named : p.id # i) => m.aliases[i] = b.aliases[i]
  BY <1>1, WithPrintsIs
<1> HIDE DEF m
<1>3. \A p \in named : /\ p.card \in DOMAIN b.aliases
                      /\ ByAlias(b, p.card) = b.aliases[p.card]
                      /\ b.aliases[p.card] \in DOMAIN b.cards
  BY <1>1, ByAliasIs
<1>4. \A i : (\A p \in c.prints : p.id # i) =>
        /\ i \in DOMAIN m.aliases <=> i \in DOMAIN b.aliases
        /\ i \in DOMAIN b.aliases => m.aliases[i] = b.aliases[i]
        /\ ByAlias(m, i) = ByAlias(b, i)
  BY <1>2 DEF ByAlias
<1>5. \A i \in DOMAIN m.aliases :
        \E j \in DOMAIN b.aliases : m.aliases[i] = b.aliases[j]
                                 /\ (i # j => b.aliases[j] \in DOMAIN b.cards)
  BY <1>2, <1>3
<1>6. SoundAliases(m.aliases)
  <2>1. IsFiniteSet(DOMAIN m.aliases)
    <3>1. IsFiniteSet(named)
      BY PrintFacts, FS_Subset, FS_EmptySet
    <3>2. IsFiniteSet({p.id : p \in named})
      <4> DEFINE f == [p \in named |-> p.id]
      <4>1. DOMAIN f = named /\ Range(f) = {p.id : p \in named}
        BY DEF Range
      <4> QED
        BY <3>1, <4>1, RangeIsFinite
    <3>3. IsFiniteSet(DOMAIN b.aliases)
      BY <1>1 DEF SoundAliases
    <3>4. IsFiniteSet(DOMAIN b.aliases \cup {p.id : p \in named})
      BY <3>2, <3>3, FS_Union
    <3> QED
      BY <1>2, <3>4
  <2>2. \A i \in DOMAIN m.aliases : m.aliases[i] \in Nat \ {Unknown}
    BY <1>1, <1>5 DEF SoundAliases
  <2>3. ASSUME raw.stage.match = "id"
        PROVE  \A i \in FirstIds \cap DOMAIN m.aliases :
                    i \in DOMAIN b.aliases /\ m.aliases[i] = b.aliases[i]
    <3>1. \A p \in c.prints : p.id \notin FirstIds
      BY <1>1, <2>3, FirstIdsAreApart
    <3> QED
      BY <1>2, <3>1
  <2> QED
    BY <1>1, <2>1, <2>2, <2>3 DEF SoundAliases
<1>7. HoldsRows(m, Rows(c))
  <2>1. \A r \in Rows(c) : r.ids[1] \in Range(r.ids)
    BY RowFacts
  <2>2. \A r \in Rows(c) : \A i \in Range(r.ids) : ByAlias(m, i) = ByAlias(b, i)
    BY <1>4, PrintFacts
  <2>3. \A r \in Rows(c) : ByAlias(b, r.ids[1]) \in DOMAIN b.cards
    BY <1>1 DEF HoldsRows, Cards
  <2> QED
    BY <1>1, <1>2, <2>1, <2>2, <2>3, HoldsRowsStays
<1>8. ~raw.stage.deletes => Range(m.aliases) \subseteq DOMAIN m.cards
  BY <1>1, <1>2, <1>5 DEF Range
<1>9. ASSUME NEW p \in c.prints, p.card \in DOMAIN m.aliases
      PROVE  ByAlias(m, p.id) = ByAlias(m, p.card)
  <2>1. ~raw.stage.deletes /\ \A q \in c.prints : q.id # p.card
    BY <1>1, PrintFacts
  <2>2. p.card \in DOMAIN b.aliases /\ ByAlias(m, p.card) = ByAlias(b, p.card)
    BY <1>4, <1>9, <2>1
  <2>3. b.aliases[p.card] \in DOMAIN b.cards
    BY <1>1, <2>1, <2>2 DEF Range
  <2>4. p \in named
    BY <1>1, <2>2, <2>3, ByAliasIs
  <2> QED
    BY <1>2, <1>3, <2>2, <2>4 DEF ByAlias
<1> QED
  BY <1>1, <1>2, <1>4, <1>6, <1>7, <1>8, <1>9 DEF m, Finishing
Finished(b, c) == EnsureUnknown(WithPrints(Kept(b, c), c.prints))

\* A stage that ends has in memory what it promises to save.
LEMMA FinishedMirrors ==
    ASSUME NEW b, NEW c \in Catalogues, Finishing(b, c)
    PROVE  LET m == Finished(b, c)
           IN  /\ IsBinder(m) /\ SoundCards(m.cards) /\ SoundAliases(m.aliases)
               /\ ~raw.stage.deletes => Range(m.aliases) \subseteq DOMAIN m.cards
               /\ Mirrors(m, Rows(c), c.prints)
<1> DEFINE k == Kept(b, c)
           w == WithPrints(k, c.prints)
           m == Finished(b, c)
<1>1. Finishing(k, c) /\ (raw.stage.deletes => Cards(k) = CardsOf(k, Rows(c)))
  BY KeptIs
<1> HIDE DEF k
<1>2. /\ Finishing(w, c) /\ w.cards = k.cards
      /\ \A i : (\A p \in c.prints : p.id # i) =>
            /\ i \in DOMAIN w.aliases <=> i \in DOMAIN k.aliases
            /\ ByAlias(w, i) = ByAlias(k, i)
      /\ \A p \in c.prints : p.card \in DOMAIN w.aliases =>
            ByAlias(w, p.id) = ByAlias(w, p.card)
  BY <1>1, PrintsAre
<1>3. m = EnsureUnknown(w)
  BY DEF Finished, k
<1> HIDE DEF w, m
<1>4. /\ IsBinder(w) /\ SoundCards(w.cards) /\ SoundAliases(w.aliases)
      /\ HoldsRows(w, Rows(c)) /\ c.stage = raw.stage
      /\ ~raw.stage.deletes => Range(w.aliases) \subseteq DOMAIN w.cards
  BY <1>2 DEF Finishing
<1>5. /\ IsBinder(m) /\ DOMAIN m.cards = DOMAIN w.cards \cup {Unknown}
      /\ m.cards[Unknown] = UnknownCard
      /\ \A v \in DOMAIN w.cards : m.cards[v] = w.cards[v]
      /\ m.aliases = w.aliases
  BY <1>3, <1>4, EnsureUnknownIs
<1>6. SoundCards(m.cards)
  <2>1. IsFiniteSet(DOMAIN m.cards) /\ DOMAIN m.cards \subseteq Nat
    BY <1>4, <1>5, FS_AddElement DEF SoundCards, Unknown
  <2>2. \A u \in DOMAIN m.cards : m.cards[u].text \in Nat
    BY <1>4, <1>5 DEF SoundCards, UnknownCard
  <2>3. ASSUME raw.stage.match = "name"
        PROVE  \A u, v \in DOMAIN m.cards : m.cards[u].name = m.cards[v].name => u = v
    BY <1>4, <1>5, <2>3 DEF SoundCards, UnknownCard
  <2>4. \A u \in DOMAIN m.cards : u = Unknown <=> m.cards[u].name = UnknownCard.name
    BY <1>4, <1>5 DEF SoundCards, UnknownCard
  <2> QED
    BY <1>5, <2>1, <2>2, <2>3, <2>4 DEF SoundCards
<1>7. \A i : ByAlias(m, i) = ByAlias(w, i)
  BY <1>4, <1>5 DEF ByAlias, SoundAliases
<1>8. HoldsRows(m, Rows(c))
  <2>1. \A r \in Rows(c) : r.ids[1] \in Range(r.ids)
    BY RowFacts
  <2>2. \A r \in Rows(c) : ByAlias(w, r.ids[1]) \in DOMAIN w.cards
    BY <1>4 DEF HoldsRows, Cards
  <2> QED
    BY <1>4, <1>5, <1>7, <2>1, <2>2, HoldsRowsStays
<1>9. \A p \in c.prints : p.card \in DOMAIN m.aliases => ByAlias(m, p.id) = ByAlias(m, p.card)
  BY <1>2, <1>5, <1>7
<1>10. ASSUME raw.stage.deletes
       PROVE  Cards(m) = {ByAlias(m, r.ids[1]) : r \in Rows(c)}
  <2>1. \A p \in c.prints : FALSE
    BY <1>4, <1>10, PrintFacts
  <2>2. \A i : ByAlias(w, i) = ByAlias(k, i)
    BY <1>2, <2>1
  <2>3. Cards(m) = Cards(k)
    BY <1>2, <1>5 DEF Cards
  <2> QED
    BY <1>1, <1>7, <1>10, <2>2, <2>3 DEF CardsOf
<1>11. Mirrors(m, Rows(c), c.prints)
  BY <1>5, <1>8, <1>9, <1>10 DEF Mirrors
<1>12. ~raw.stage.deletes => Range(m.aliases) \subseteq DOMAIN m.cards
  BY <1>4, <1>5
<1> QED
  BY <1>4, <1>5, <1>6, <1>11, <1>12 DEF m
-----------------------------------------------------------------------------
(* The invariant.                                                          *)

\* A game keeps its stage, and what is said of it what it says.
LEMMA StageStays ==
    ASSUME raw'.stage = raw.stage
    PROVE  /\ \A cards : SoundCards(cards)' <=> SoundCards(cards)
           /\ \A aliases : SoundAliases(aliases)' <=> SoundAliases(aliases)
           /\ \A b, rows : HoldsRows(b, rows)' <=> HoldsRows(b, rows)
           /\ \A b, rows, prints : Mirrors(b, rows, prints)' <=> Mirrors(b, rows, prints)
<1>1. FirstIds' = FirstIds
  BY DEF FirstIds
<1>2. \A cards : SoundCards(cards)' <=> SoundCards(cards)
  BY DEF SoundCards
<1>3. \A aliases : SoundAliases(aliases)' <=> SoundAliases(aliases)
  BY <1>1 DEF SoundAliases
<1>4. \A card, r, rows : HoldsRow(card, r, rows)' <=> HoldsRow(card, r, rows)
  BY DEF HoldsRow
<1>5. \A b, rows : HoldsRows(b, rows)' <=> HoldsRows(b, rows)
  BY <1>4 DEF HoldsRows
<1>6. \A b, rows, prints : Mirrors(b, rows, prints)' <=> Mirrors(b, rows, prints)
  BY <1>5 DEF Mirrors
<1> QED
  BY <1>2, <1>3, <1>5, <1>6

LEMMA LoadIs ==
    ASSUME NEW cards, SoundCards(cards), NEW aliases, SoundAliases(aliases)
    PROVE  LET b == Load(cards, aliases)
           IN  /\ IsBinder(b) /\ b.cards = cards /\ SoundAliases(b.aliases)
               /\ Range(b.aliases) \subseteq DOMAIN b.cards
               /\ DOMAIN b.aliases = {i \in DOMAIN aliases : aliases[i] \in DOMAIN cards}
               /\ \A i \in DOMAIN b.aliases : b.aliases[i] = aliases[i]
<1> DEFINE held == {i \in DOMAIN aliases : aliases[i] \in DOMAIN cards}
           kept == [i \in held |-> aliases[i]]
<1>1. Load(cards, aliases) =
        [cards |-> cards, byName |-> NamesOf(cards, DOMAIN cards), aliases |-> kept]
  BY DEF Load
<1>2. DOMAIN kept = held /\ \A i \in held : kept[i] = aliases[i]
  OBVIOUS
<1> HIDE DEF kept
<1>3. IsFiniteSet(held)
  BY FS_Subset DEF SoundAliases
<1>4. IsFiniteSet(DOMAIN kept)
  BY <1>2, <1>3
<1>5. SoundAliases(kept)
  BY <1>2, <1>4 DEF SoundAliases
<1> QED
  BY <1>1, <1>2, <1>5 DEF IsBinder, Range

\* A load finds what was saved.
LEMMA LoadMirrors ==
    ASSUME NEW b, SoundCards(b.cards), SoundAliases(b.aliases),
           NEW c \in Catalogues, Mirrors(b, Rows(c), c.prints)
    PROVE  Mirrors(Load(b.cards, b.aliases), Rows(c), c.prints)
<1> DEFINE m == Load(b.cards, b.aliases)
<1>1. /\ m.cards = b.cards
      /\ DOMAIN m.aliases = {i \in DOMAIN b.aliases : b.aliases[i] \in DOMAIN b.cards}
      /\ \A i \in DOMAIN m.aliases : m.aliases[i] = b.aliases[i]
  BY LoadIs
<1> HIDE DEF m
<1>2. \A i : ByAlias(m, i) = ByAlias(b, i)
  BY <1>1 DEF ByAlias
<1>3. HoldsRows(m, Rows(c))
  <2>1. \A r \in Rows(c) : r.ids[1] \in Range(r.ids)
    BY RowFacts
  <2>2. HoldsRows(b, Rows(c)) /\ \A r \in Rows(c) : ByAlias(b, r.ids[1]) \in DOMAIN b.cards
    BY DEF Mirrors, HoldsRows, Cards
  <2> QED
    BY <1>1, <1>2, <2>1, <2>2, HoldsRowsStays
<1> QED
  BY <1>1, <1>2, <1>3 DEF Mirrors, Cards, m

LEMMA InitMirrors == Init => MirrorInv
<1> SUFFICES ASSUME Init
             PROVE  MirrorInv
  OBVIOUS
<1>1. binderFile = NoLines /\ ledgerFile = NoLines /\ run.at = "down" /\ built.rows = <<>>
  BY DEF Init, NoProcess, NeverBuilt
<1>2. TypeOK
  BY CardAssumption DEF TypeOK, Init, NoLines, NoProcess
<1>3. DOMAIN binderFile.lines = {} /\ DOMAIN ledgerFile.lines = {}
  BY <1>1 DEF NoLines
<1>4. IsFiniteSet({})
  BY FS_EmptySet
<1>5. FilesInv
  BY <1>3, <1>4 DEF FilesInv, SoundCards, SoundAliases
<1> QED
  BY <1>1, <1>2, <1>5 DEF MirrorInv, ProcessInv, RowsInv, SaveInv

LEMMA StartMirrors ==
    ASSUME MirrorInv, Start
    PROVE  MirrorInv'
<1>1. /\ run' = [at |-> "rows", b |-> Stored, catalogue |-> raw, next |-> 1, taken |-> {}]
      /\ UNCHANGED <<raw, binderFile, ledgerFile, built, changes, interrupted>>
  BY DEF Start
<1>2. TypeOK' /\ FilesInv'
  BY <1>1, StageStays DEF MirrorInv, TypeOK, FilesInv
<1>3. /\ IsBinder(Stored) /\ Stored.cards = binderFile.lines /\ SoundAliases(Stored.aliases)
      /\ Range(Stored.aliases) \subseteq DOMAIN Stored.cards
  BY LoadIs DEF MirrorInv, FilesInv, Stored
<1>4. raw \in Catalogues /\ Len(raw.rows) \in Nat
  BY RowsAreListed DEF MirrorInv, TypeOK
<1>5. ProcessInv'
  <2> DEFINE b == Stored
  <2>1. IsBinder(b) /\ SoundCards(b.cards) /\ SoundAliases(b.aliases)
        /\ Range(b.aliases) \subseteq DOMAIN b.cards
    BY <1>3 DEF MirrorInv, FilesInv
  <2> HIDE DEF b
  <2>2. run' = [at |-> "rows", b |-> b, catalogue |-> raw, next |-> 1, taken |-> {}]
    BY <1>1 DEF b
  <2> QED
    BY <1>1, <1>4, <2>1, <2>2, StageStays DEF ProcessInv, IsBinder
<1>6. RowsInv'
  <2>1. Done' = {}
    BY <1>1 DEF Done
  <2> QED
    BY <1>1, <2>1 DEF RowsInv, HoldsRows
<1>7. SaveInv'
  <2>1. Stored' = Stored
    BY <1>1 DEF Stored
  <2> QED
    BY <1>1, <2>1, StageStays DEF MirrorInv, SaveInv
<1> QED
  BY <1>2, <1>5, <1>6, <1>7 DEF MirrorInv
\* A process that has rows left is storing the next of them.
LEMMA RunIsStoring ==
    ASSUME MirrorInv, run.at = "rows", run.next <= Len(run.catalogue.rows)
    PROVE  LET r == run.catalogue.rows[run.next]
           IN  /\ Storing(run.b, run.catalogue, Done, r)
               /\ run.taken = CardsOf(run.b, Done)
               /\ run.catalogue \in Catalogues
               /\ run.next \in 1..Len(run.catalogue.rows)
               /\ {run.catalogue.rows[j] : j \in 1..run.next} = Done \cup {r}
<1> DEFINE c == run.catalogue
           r == c.rows[run.next]
<1>1. /\ FilesInv /\ IsBinder(run.b) /\ SoundCards(run.b.cards) /\ SoundAliases(run.b.aliases)
      /\ ~raw.stage.deletes => Range(run.b.aliases) \subseteq DOMAIN run.b.cards
      /\ c \in Catalogues /\ c.stage = raw.stage /\ run.next \in 1..(Len(c.rows) + 1)
      /\ HoldsRows(run.b, Done) /\ run.taken = CardsOf(run.b, Done)
  BY DEF MirrorInv, ProcessInv, RowsInv, CardsOf
<1>2. /\ Len(c.rows) \in Nat /\ DOMAIN c.rows = 1..Len(c.rows)
      /\ \A j \in 1..Len(c.rows) : c.rows[j] \in Rows(c)
  BY <1>1, RowsAreListed
<1>3. run.next \in 1..Len(c.rows)
  BY <1>1, <1>2
<1>4. Done \subseteq Rows(c) /\ r \in Rows(c)
  BY <1>2, <1>3 DEF Done
<1>5. raw.stage.match = "group" => r \notin Done
  <2> SUFFICES ASSUME raw.stage.match = "group", NEW j \in 1..(run.next - 1), c.rows[j] = r
               PROVE  FALSE
    BY DEF Done
  <2>1. j \in DOMAIN c.rows /\ run.next \in DOMAIN c.rows /\ j # run.next
    BY <1>2, <1>3
  <2> QED
    BY <1>1, <2>1, GroupsAreOnce
<1>6. {c.rows[j] : j \in 1..run.next} = Done \cup {r}
  <2>1. 1..run.next = (1..(run.next - 1)) \cup {run.next}
    BY <1>3
  <2> QED
    BY <2>1 DEF Done
<1> QED
  BY <1>1, <1>3, <1>4, <1>5, <1>6 DEF Storing

LEMMA RunStores ==
    ASSUME MirrorInv, run.at = "rows", run.next <= Len(run.catalogue.rows),
           NEW u \in Chosen(run.b, run.catalogue.rows[run.next], run.taken)
    PROVE  StoredWith(run.b, run.catalogue.rows[run.next], u, Done)
<1> DEFINE r == run.catalogue.rows[run.next]
<1>1. /\ run.catalogue \in Catalogues /\ Storing(run.b, run.catalogue, Done, r)
      /\ u \in Chosen(run.b, r, CardsOf(run.b, Done))
  BY RunIsStoring
<1> QED
  BY <1>1, StoredHolds

LEMMA StoreRowMirrors ==
    ASSUME MirrorInv, StoreRow
    PROVE  MirrorInv'
<1> DEFINE c == run.catalogue
           r == c.rows[run.next]
<1>1. /\ run.at = "rows" /\ run.next <= Len(c.rows)
      /\ UNCHANGED <<raw, binderFile, ledgerFile, built, changes, interrupted>>
  BY DEF StoreRow
<1>2. PICK u \in Chosen(run.b, r, run.taken) :
        run' = [run EXCEPT !.b = StoredRow(@, r, u), !.next = @ + 1, !.taken = @ \cup {u}]
  BY DEF StoreRow, Chosen
<1>3. /\ Storing(run.b, c, Done, r) /\ run.taken = CardsOf(run.b, Done) /\ c \in Catalogues
      /\ run.next \in 1..Len(c.rows) /\ {c.rows[j] : j \in 1..run.next} = Done \cup {r}
  BY <1>1, RunIsStoring
<1> DEFINE m == StoredRow(run.b, r, u)
<1>4. run = [at |-> run.at, b |-> run.b, catalogue |-> run.catalogue,
             next |-> run.next, taken |-> run.taken]
  BY <1>1 DEF MirrorInv, ProcessInv
<1>5. run' = [at |-> "rows", b |-> m, catalogue |-> c, next |-> run.next + 1,
              taken |-> run.taken \cup {u}]
  BY <1>1, <1>2, <1>4
<1>6. IsBinder(m)
  BY <1>3, StoredRowIs DEF Storing
<1>7. /\ SoundCards(m.cards) /\ SoundAliases(m.aliases)
      /\ ~raw.stage.deletes => Range(m.aliases) \subseteq DOMAIN m.cards
  BY <1>2, <1>3, StoredIsSound
<1>8. /\ HoldsRows(m, Done \cup {r}) /\ ByAlias(m, r.ids[1]) = u
      /\ \A s \in Done : ByAlias(m, s.ids[1]) = ByAlias(run.b, s.ids[1])
  BY <1>1, <1>2, RunStores DEF StoredWith
<1> HIDE DEF m
<1>9. TypeOK' /\ FilesInv'
  BY <1>1, <1>5, StageStays DEF MirrorInv, TypeOK, FilesInv
<1>10. ProcessInv'
  <2>1. c.stage = raw.stage /\ run.next + 1 \in 1..(Len(c.rows) + 1)
    BY <1>3, RowsAreListed DEF Storing
  <2> QED
    BY <1>1, <1>3, <1>5, <1>6, <1>7, <2>1, StageStays DEF ProcessInv, IsBinder
<1>11. RowsInv'
  <2>1. (run.next + 1) - 1 = run.next
    BY <1>3
  <2>2. Done' = Done \cup {r}
    BY <1>3, <1>5, <2>1 DEF Done
  <2> QED
    BY <1>1, <1>3, <1>5, <1>8, <2>2, StageStays DEF RowsInv, CardsOf
<1>12. SaveInv'
  <2>1. Stored' = Stored
    BY <1>1 DEF Stored
  <2> QED
    BY <1>1, <1>5, <2>1, StageStays DEF MirrorInv, SaveInv
<1> QED
  BY <1>9, <1>10, <1>11, <1>12 DEF MirrorInv

LEMMA RunIsFinishing ==
    ASSUME MirrorInv, run.at = "rows", run.next > Len(run.catalogue.rows)
    PROVE  /\ Finishing(run.b, run.catalogue) /\ run.catalogue \in Catalogues
           /\ run.taken = CardsOf(run.b, Rows(run.catalogue))
           /\ Done = Rows(run.catalogue)
<1> DEFINE c == run.catalogue
<1>1. /\ IsBinder(run.b) /\ SoundCards(run.b.cards) /\ SoundAliases(run.b.aliases)
      /\ ~raw.stage.deletes => Range(run.b.aliases) \subseteq DOMAIN run.b.cards
      /\ c \in Catalogues /\ c.stage = raw.stage /\ run.next \in 1..(Len(c.rows) + 1)
      /\ HoldsRows(run.b, Done) /\ run.taken = CardsOf(run.b, Done)
  BY DEF MirrorInv, ProcessInv, RowsInv, CardsOf
<1>2. Len(c.rows) \in Nat /\ Rows(c) = {c.rows[j] : j \in 1..Len(c.rows)}
  BY <1>1, RowsAreListed
<1>3. run.next - 1 = Len(c.rows)
  BY <1>1, <1>2
<1>4. Done = Rows(c)
  BY <1>2, <1>3 DEF Done
<1> QED
  BY <1>1, <1>4 DEF Finishing

LEMMA FinishMirrors ==
    ASSUME MirrorInv, Finish
    PROVE  MirrorInv'
<1> DEFINE c == run.catalogue
           m == Finished(run.b, c)
<1>1. /\ run.at = "rows" /\ run.next > Len(c.rows)
      /\ UNCHANGED <<raw, binderFile, ledgerFile, built, changes, interrupted>>
  BY DEF Finish
<1>2. /\ Finishing(run.b, c) /\ c \in Catalogues /\ run.taken = CardsOf(run.b, Rows(c))
  BY <1>1, RunIsFinishing
<1>3. run' = [run EXCEPT !.at = "save", !.b = m]
  BY <1>2 DEF Finish, Finished, Kept
<1>4. run = [at |-> run.at, b |-> run.b, catalogue |-> run.catalogue,
             next |-> run.next, taken |-> run.taken]
  BY <1>1 DEF MirrorInv, ProcessInv
<1>5. run' = [at |-> "save", b |-> m, catalogue |-> c, next |-> run.next, taken |-> run.taken]
  BY <1>3, <1>4
<1>6. /\ IsBinder(m) /\ SoundCards(m.cards) /\ SoundAliases(m.aliases)
      /\ ~raw.stage.deletes => Range(m.aliases) \subseteq DOMAIN m.cards
      /\ Mirrors(m, Rows(c), c.prints)
  BY <1>2, FinishedMirrors
<1> HIDE DEF m
<1>7. TypeOK' /\ FilesInv'
  BY <1>1, <1>5, StageStays DEF MirrorInv, TypeOK, FilesInv
<1>8. ProcessInv'
  <2>1. c.stage = raw.stage /\ run.next \in 1..(Len(c.rows) + 1)
    BY <1>1 DEF MirrorInv, ProcessInv
  <2> QED
    BY <1>1, <1>2, <1>5, <1>6, <2>1, StageStays DEF ProcessInv, IsBinder
<1>9. RowsInv'
  BY <1>5 DEF RowsInv
<1>10. SaveInv'
  <2>1. Stored' = Stored
    BY <1>1 DEF Stored
  <2> QED
    BY <1>1, <1>5, <1>6, <2>1, StageStays DEF MirrorInv, SaveInv
<1> QED
  BY <1>7, <1>8, <1>9, <1>10 DEF MirrorInv
LEMMA SaveBinderMirrors ==
    ASSUME MirrorInv, SaveBinder
    PROVE  MirrorInv'
<1>1. /\ run.at = "save" /\ binderFile' = [lines |-> run.b.cards, torn |-> FALSE]
      /\ run' = [run EXCEPT !.at = "ledger"]
      /\ built' = [stage |-> raw.stage, rows |-> <<>>, prints |-> {}]
      /\ UNCHANGED <<raw, ledgerFile, changes, interrupted>>
  BY DEF SaveBinder, NeverBuilt
<1>2. /\ run = [at |-> run.at, b |-> run.b, catalogue |-> run.catalogue,
                next |-> run.next, taken |-> run.taken]
      /\ SoundCards(run.b.cards) /\ SoundAliases(ledgerFile.lines)
  BY <1>1 DEF MirrorInv, ProcessInv, FilesInv
<1>3. run' = [at |-> "ledger", b |-> run.b, catalogue |-> run.catalogue,
              next |-> run.next, taken |-> run.taken]
  BY <1>1, <1>2
<1>4. TypeOK' /\ FilesInv'
  BY <1>1, <1>2, <1>3, StageStays DEF MirrorInv, TypeOK, FilesInv
<1>5. ProcessInv'
  BY <1>1, <1>3, StageStays DEF MirrorInv, ProcessInv, IsBinder
<1>6. RowsInv' /\ SaveInv'
  BY <1>1, <1>3, StageStays DEF MirrorInv, RowsInv, SaveInv
<1> QED
  BY <1>4, <1>5, <1>6 DEF MirrorInv

LEMMA SaveLedgerMirrors ==
    ASSUME MirrorInv, SaveLedger
    PROVE  MirrorInv'
<1> DEFINE c == run.catalogue
<1>1. /\ run.at = "ledger" /\ ledgerFile' = [lines |-> run.b.aliases, torn |-> FALSE]
      /\ built' = c /\ run' = [at |-> "down"]
      /\ UNCHANGED <<raw, binderFile, changes, interrupted>>
  BY DEF SaveLedger, NoProcess
<1>2. /\ c \in Catalogues /\ SoundCards(run.b.cards) /\ SoundAliases(run.b.aliases)
      /\ Mirrors(run.b, Rows(c), c.prints) /\ binderFile.lines = run.b.cards
  BY <1>1 DEF MirrorInv, ProcessInv, SaveInv
<1>3. TypeOK' /\ FilesInv'
  BY <1>1, <1>2, StageStays DEF MirrorInv, TypeOK, FilesInv
<1>4. Mirrors(Stored, Rows(built), built.prints)'
  <2>1. Stored' = Load(run.b.cards, run.b.aliases)
    BY <1>1, <1>2 DEF Stored, Load, NamesOf
  <2>2. Mirrors(Stored', Rows(c), c.prints)
    BY <1>2, <2>1, LoadMirrors
  <2>3. Rows(built)' = Rows(c)
    BY <1>1 DEF Rows
  <2> QED
    BY <1>1, <2>2, <2>3, StageStays
<1> QED
  BY <1>1, <1>3, <1>4 DEF MirrorInv, ProcessInv, RowsInv, SaveInv

\* A file cut short holds sound lines, if fewer.
LEMMA CutIsSound ==
    ASSUME NEW f, NEW file \in CutOf(f)
    PROVE  /\ file.torn \in BOOLEAN
           /\ SoundCards(f) => SoundCards(file.lines)
           /\ SoundAliases(f) => SoundAliases(file.lines)
<1>1. PICK kept \in SUBSET DOMAIN f, torn \in BOOLEAN :
        file = [lines |-> [x \in kept |-> f[x]], torn |-> torn]
  BY DEF CutOf
<1>2. /\ file.torn \in BOOLEAN /\ DOMAIN file.lines = kept
      /\ \A x \in kept : file.lines[x] = f[x]
  BY <1>1
<1>3. IsFiniteSet(DOMAIN f) => IsFiniteSet(DOMAIN file.lines)
  BY <1>2, FS_Subset
<1>4. SoundCards(f) => SoundCards(file.lines)
  BY <1>2, <1>3 DEF SoundCards
<1>5. SoundAliases(f) => SoundAliases(file.lines)
  BY <1>2, <1>3 DEF SoundAliases
<1> QED
  BY <1>2, <1>4, <1>5

LEMMA CutKeeps ==
    ASSUME NEW f, NEW file \in CutOf(f)
    PROVE  DOMAIN file.lines \subseteq DOMAIN f /\ \A x \in DOMAIN file.lines : file.lines[x] = f[x]
  BY DEF CutOf

LEMMA InterruptMirrors ==
    ASSUME MirrorInv, Interrupt
    PROVE  MirrorInv'
<1>1. run' = [at |-> "down"] /\ UNCHANGED raw
  BY DEF Interrupt, Abandon, CutBinder, CutLedger, NoProcess
<1>2. ProcessInv' /\ RowsInv'
  BY <1>1 DEF ProcessInv, RowsInv
<1>3. MaxInterruptions \in Nat
  BY CardAssumption
<1>4. CASE Abandon
  <2>1. UNCHANGED <<binderFile, ledgerFile, built, changes, interrupted>>
    BY <1>4 DEF Abandon
  <2>2. Stored' = Stored
    BY <2>1 DEF Stored
  <2>3. SaveInv'
    BY <1>1, <2>1, <2>2, StageStays DEF MirrorInv, SaveInv
  <2> QED
    BY <1>1, <1>2, <2>1, <2>3, StageStays DEF MirrorInv, TypeOK, FilesInv
<1>5. CASE CutBinder
  <2>1. /\ run.at = "save" /\ interrupted < MaxInterruptions
        /\ binderFile' \in CutOf(run.b.cards) /\ built'.rows = <<>>
        /\ interrupted' = interrupted + 1 /\ UNCHANGED <<ledgerFile, changes>>
    BY <1>5 DEF CutBinder, NeverBuilt
  <2>2. SoundCards(binderFile'.lines) /\ binderFile'.torn \in BOOLEAN
    BY <2>1, CutIsSound DEF MirrorInv, ProcessInv
  <2>3. TypeOK' /\ FilesInv'
    BY <1>1, <1>3, <2>1, <2>2, StageStays DEF MirrorInv, TypeOK, FilesInv
  <2>4. SaveInv'
    BY <1>1, <2>1 DEF SaveInv
  <2> QED
    BY <1>2, <2>3, <2>4 DEF MirrorInv
<1>6. CASE CutLedger
  <2>1. /\ run.at = "ledger" /\ interrupted < MaxInterruptions
        /\ ledgerFile' \in CutOf(run.b.aliases) \cup {ledgerFile}
        /\ interrupted' = interrupted + 1 /\ UNCHANGED <<binderFile, built, changes>>
    BY <1>6 DEF CutLedger
  <2>2. SoundAliases(ledgerFile'.lines) /\ ledgerFile'.torn \in BOOLEAN
    BY <2>1, CutIsSound DEF MirrorInv, ProcessInv, FilesInv, TypeOK
  <2>3. TypeOK' /\ FilesInv'
    BY <1>1, <1>3, <2>1, <2>2, StageStays DEF MirrorInv, TypeOK, FilesInv
  <2>4. SaveInv'
    BY <1>1, <2>1 DEF MirrorInv, SaveInv
  <2> QED
    BY <1>2, <2>3, <2>4 DEF MirrorInv
<1> QED
  BY <1>4, <1>5, <1>6 DEF Interrupt

LEMMA PublishMirrors ==
    ASSUME MirrorInv, Publish
    PROVE  MirrorInv'
<1>1. /\ raw' \in Catalogues /\ raw'.stage = raw.stage /\ changes < MaxChanges
      /\ changes' = changes + 1
      /\ UNCHANGED <<binderFile, ledgerFile, run, built, interrupted>>
  BY DEF Publish
<1>2. TypeOK' /\ FilesInv'
  BY <1>1, CardAssumption, StageStays DEF MirrorInv, TypeOK, FilesInv
<1>3. ProcessInv'
  BY <1>1, StageStays DEF MirrorInv, ProcessInv, IsBinder
<1>4. RowsInv'
  <2>1. Done' = Done
    BY <1>1 DEF Done
  <2> QED
    BY <1>1, <2>1, StageStays DEF MirrorInv, RowsInv
<1>5. SaveInv'
  <2>1. Stored' = Stored
    BY <1>1 DEF Stored
  <2> QED
    BY <1>1, <2>1, StageStays DEF MirrorInv, SaveInv
<1> QED
  BY <1>2, <1>3, <1>4, <1>5 DEF MirrorInv

LEMMA StutterMirrors ==
    ASSUME MirrorInv, UNCHANGED vars
    PROVE  MirrorInv'
<1>1. UNCHANGED <<raw, binderFile, ledgerFile, run, built, changes, interrupted>>
  BY DEF vars
<1>2. Done' = Done /\ Stored' = Stored
  BY <1>1 DEF Done, Stored
<1> QED
  BY <1>1, <1>2, StageStays
  DEF MirrorInv, TypeOK, FilesInv, ProcessInv, RowsInv, SaveInv, IsBinder

LEMMA StepMirrors == MirrorInv /\ [Next]_vars => MirrorInv'
  BY StartMirrors, StoreRowMirrors, FinishMirrors, SaveBinderMirrors, SaveLedgerMirrors,
     InterruptMirrors, PublishMirrors, StutterMirrors
  DEF Next, Save

LEMMA MirrorInvHolds == Spec => []MirrorInv
  BY InitMirrors, StepMirrors, PTL DEF Spec

\* What the process is about to save mirrors its catalogue whatever cut saves left in
\* the files, and so does what the files load as when no save was cut since
\* (BinderMirrorsCatalogue), for any catalogues, changes and interruptions.
THEOREM SavedBinderMirrorsCatalogue == Spec => []BinderMirrorsCatalogue
<1>1. MirrorInv => BinderMirrorsCatalogue
  BY DEF MirrorInv, ProcessInv, SaveInv, IsBinder, BinderMirrorsCatalogue
<1> QED
  BY <1>1, MirrorInvHolds, PTL
-----------------------------------------------------------------------------
(* Where cards are found by identifier: how many are made of one.          *)

LEMMA MadeOfIs ==
    ASSUME NEW cards, SoundCards(cards), NEW i
    PROVE  IsFiniteSet(MadeOf(cards, i)) /\ Cardinality(MadeOf(cards, i)) \in Nat
<1>1. IsFiniteSet(DOMAIN cards) /\ MadeOf(cards, i) \subseteq DOMAIN cards
  BY DEF SoundCards, MadeOf
<1> QED
  BY <1>1, FS_Subset, FS_CardinalityType

\* Other cards hold no more made of an identifier than these.
LEMMA FewerAreMade ==
    ASSUME NEW cards, SoundCards(cards), NEW fewer, DOMAIN fewer \subseteq DOMAIN cards,
           \A u \in DOMAIN fewer : fewer[u].of = cards[u].of, NEW i
    PROVE  Cardinality(MadeOf(fewer, i)) <= Cardinality(MadeOf(cards, i))
<1>1. MadeOf(fewer, i) \subseteq MadeOf(cards, i)
  BY DEF MadeOf
<1> QED
  BY <1>1, MadeOfIs, FS_Subset

LEMMA StageStaysOf ==
    ASSUME raw'.stage = raw.stage
    PROVE  /\ \A cards : OfFirstIds(cards)' <=> OfFirstIds(cards)
           /\ \A cards, aliases : OwnCards(cards, aliases)' <=> OwnCards(cards, aliases)
           /\ \A b, r : Claims(b, r)' = Claims(b, r)
           /\ FirstIds' = FirstIds
<1>1. FirstIds' = FirstIds
  BY DEF FirstIds
<1> QED
  BY <1>1 DEF OfFirstIds, OwnCards, Claims

LEMMA OrphansStay ==
    ASSUME raw'.stage = raw.stage, interrupted' = interrupted
    PROVE  \A cards, aliases : Orphans(cards, aliases)' <=> Orphans(cards, aliases)
  BY StageStaysOf DEF Orphans

\* An interruption more makes up for every alias it may have lost.
LEMMA OrphansAfterCut ==
    ASSUME raw'.stage = raw.stage, interrupted \in Nat, interrupted' = interrupted + 1,
           NEW cards, SoundCards(cards), NEW aliases, Orphans(cards, aliases),
           NEW fewer, SoundCards(fewer), DOMAIN fewer \subseteq DOMAIN cards,
           \A u \in DOMAIN fewer : fewer[u].of = cards[u].of, NEW others
    PROVE  Orphans(fewer, others)'
<1> SUFFICES ASSUME NEW i \in FirstIds
             PROVE  Cardinality(MadeOf(fewer, i)) <= interrupted'
  <2>1. ASSUME NEW i \in FirstIds, Cardinality(MadeOf(fewer, i)) <= interrupted'
        PROVE  Cardinality(MadeOf(fewer, i)) <= interrupted' +
                (IF i \in DOMAIN others /\ others[i] \in DOMAIN fewer THEN 1 ELSE 0)
    BY <2>1, MadeOfIs
  <2> QED
    BY <2>1, StageStaysOf DEF Orphans
<1>1. Cardinality(MadeOf(fewer, i)) <= Cardinality(MadeOf(cards, i))
  BY FewerAreMade
<1>2. Cardinality(MadeOf(cards, i)) <= interrupted + 1
  BY MadeOfIs DEF Orphans
<1>3. Cardinality(MadeOf(fewer, i)) \in Nat /\ Cardinality(MadeOf(cards, i)) \in Nat
  BY MadeOfIs
<1> QED
  BY <1>1, <1>2, <1>3
\* A card found by identifier was made of that identifier, or is a new one.
ChosenIsOwn(b, r, u) ==
    /\ u \in DOMAIN b.cards => b.cards[u].of = r.ids[1]
    /\ u \notin DOMAIN b.cards => /\ r.ids[1] \notin DOMAIN b.aliases
                               /\ u \notin Range(ledgerFile.lines)

LEMMA ChosenIsOwnIs ==
    ASSUME NEW b, NEW c \in Catalogues, NEW done, NEW r, Storing(b, c, done, r),
           NEW u \in Chosen(b, r, CardsOf(b, done)), raw.stage.match = "id", OwnIds(b)
    PROVE  ChosenIsOwn(b, r, u)
<1>1. /\ SoundCards(b.cards) /\ SoundAliases(b.aliases) /\ FilesInv
      /\ r.ids[1] \in FirstIds /\ ~raw.stage.deletes
  BY FirstIdsAreApart, StageFacts DEF Storing
<1>2. \A i \in DOMAIN b.aliases : b.aliases[i] \in DOMAIN b.cards
  BY <1>1 DEF Storing, Range
<1>3. ExistingCards(b, r, CardsOf(b, done)) = {ByAlias(b, r.ids[1])} \ {Nobody}
  BY DEF ExistingCards
<1>4. CASE ByAlias(b, r.ids[1]) # Nobody
  <2>1. /\ u = b.aliases[r.ids[1]] /\ r.ids[1] \in DOMAIN b.aliases
        /\ u \in DOMAIN b.cards
    BY <1>1, <1>3, <1>4, ByAliasIs DEF Chosen
  <2> QED
    BY <1>1, <2>1 DEF OwnIds, OwnCards, ChosenIsOwn
<1>5. CASE ByAlias(b, r.ids[1]) = Nobody
  <2>1. u = Fresh(b)
    BY <1>3, <1>5 DEF Chosen
  <2>2. r.ids[1] \notin DOMAIN b.aliases
    BY <1>1, <1>2, <1>5, ByAliasIs
  <2> QED
    BY <1>1, <2>1, <2>2, FreshIs DEF ChosenIsOwn
<1> QED
  BY <1>4, <1>5

LEMMA StoredKeepsIds ==
    ASSUME NEW b, NEW c \in Catalogues, NEW done, NEW r, Storing(b, c, done, r),
           NEW u \in Chosen(b, r, CardsOf(b, done)),
           raw.stage.match = "id", interrupted \in Nat, OwnIds(b)
    PROVE  OwnIds(StoredRow(b, r, u))
<1> DEFINE m == StoredRow(b, r, u)
           i0 == r.ids[1]
           Aliased(d, i) ==
             IF i \in DOMAIN d.aliases /\ d.aliases[i] \in DOMAIN d.cards THEN 1 ELSE 0
<1>1. /\ IsBinder(b) /\ SoundCards(b.cards) /\ c.stage = raw.stage /\ r \in Rows(c)
      /\ FilesInv /\ SoundAliases(b.aliases)
  BY DEF Storing
<1>2. /\ DOMAIN m.cards = DOMAIN b.cards \cup {u}
      /\ m.cards[u] = IF u \in DOMAIN b.cards THEN Merged(b.cards[u], r) ELSE CardOfRow(r)
      /\ \A v \in DOMAIN b.cards \ {u} : m.cards[v] = b.cards[v]
      /\ DOMAIN m.aliases = DOMAIN b.aliases \cup Range(r.ids)
      /\ \A i \in Range(r.ids) : m.aliases[i] = u
      /\ \A i \in DOMAIN b.aliases \ Range(r.ids) : m.aliases[i] = b.aliases[i]
  BY <1>1, StoredRowIs
<1>3. SoundCards(m.cards)
  BY StoredIsSound
<1> HIDE DEF m
<1>4. /\ u \in Nat \ {Unknown}
      /\ u \notin DOMAIN b.cards => u \notin Range(b.aliases)
      /\ \A i \in FirstIds \cap DOMAIN b.aliases : b.aliases[i] = u <=> i = i0
  BY ChosenByIdIs
<1>5. /\ i0 \in FirstIds /\ i0 \in Range(r.ids)
      /\ \A i \in FirstIds : i \in Range(r.ids) => i = i0
  BY <1>1, FirstIdsAreApart, RowFacts
<1>6. /\ OfFirstIds(b.cards) /\ OwnCards(b.cards, b.aliases)
      /\ OwnCards(b.cards, ledgerFile.lines) /\ Orphans(b.cards, b.aliases)
  BY DEF OwnIds
<1>7. i0 \in DOMAIN m.aliases /\ m.aliases[i0] = u /\ u \in DOMAIN m.cards
  BY <1>2, <1>5
<1>8. \A i \in FirstIds \ {i0} :
        /\ i \in DOMAIN m.aliases <=> i \in DOMAIN b.aliases
        /\ i \in DOMAIN b.aliases => m.aliases[i] = b.aliases[i] /\ b.aliases[i] # u
  BY <1>2, <1>4, <1>5
<1>9. ChosenIsOwn(b, r, u)
  BY ChosenIsOwnIs
<1>10. m.cards[u].of = i0
  BY <1>1, <1>2, <1>9 DEF ChosenIsOwn, Merged, CardOfRow
<1>11. \A v \in DOMAIN b.cards : m.cards[v].of = b.cards[v].of
  BY <1>2, <1>9, <1>10 DEF ChosenIsOwn
<1>12. OfFirstIds(m.cards)
  BY <1>2, <1>5, <1>6, <1>10, <1>11 DEF OfFirstIds
<1>13. OwnCards(m.cards, m.aliases)
  BY <1>2, <1>6, <1>7, <1>8, <1>10, <1>11 DEF OwnCards
<1>14. OwnCards(m.cards, ledgerFile.lines)
  BY <1>2, <1>6, <1>9, <1>11 DEF OwnCards, ChosenIsOwn, Range
<1>15. ASSUME NEW i \in FirstIds
       PROVE  Cardinality(MadeOf(m.cards, i)) <= interrupted + Aliased(m, i)
  <2>1. Cardinality(MadeOf(b.cards, i)) <= interrupted + Aliased(b, i)
    BY <1>6 DEF Orphans
  <2>2. IsFiniteSet(MadeOf(b.cards, i)) /\ Cardinality(MadeOf(b.cards, i)) \in Nat
    BY <1>1, MadeOfIs
  <2>3. CASE u \in DOMAIN b.cards \/ i # i0
    <3>1. MadeOf(m.cards, i) = MadeOf(b.cards, i)
      BY <1>2, <1>10, <1>11, <2>3 DEF MadeOf
    <3>2. Aliased(b, i) <= Aliased(m, i)
      BY <1>2, <1>7, <1>8
    <3> QED
      BY <2>1, <2>2, <3>1, <3>2
  <2>4. CASE u \notin DOMAIN b.cards /\ i = i0
    <3>1. MadeOf(m.cards, i) = MadeOf(b.cards, i) \cup {u} /\ u \notin MadeOf(b.cards, i)
      BY <1>2, <1>4, <1>10, <1>11, <2>4 DEF MadeOf
    <3>2. Cardinality(MadeOf(m.cards, i)) = Cardinality(MadeOf(b.cards, i)) + 1
      BY <2>2, <3>1, FS_AddElement
    <3>3. Aliased(m, i) = 1 /\ Aliased(b, i) = 0
      BY <1>7, <1>9, <2>4 DEF ChosenIsOwn
    <3> QED
      BY <2>1, <2>2, <3>2, <3>3
  <2> QED
    BY <2>3, <2>4
<1>16. Orphans(m.cards, m.aliases)
  BY <1>15 DEF Orphans
<1> QED
  BY <1>12, <1>13, <1>14, <1>16 DEF OwnIds, m
\* A stage that ends keeps the cards of its rows, and one that deletes nothing keeps
\* every card and every alias that is not a print's.
LEMMA FinishedKeeps ==
    ASSUME NEW b, NEW c \in Catalogues, Finishing(b, c)
    PROVE  LET m == Finished(b, c)
           IN  /\ \A r \in Rows(c) : ByAlias(m, r.ids[1]) = ByAlias(b, r.ids[1])
               /\ ~raw.stage.deletes =>
                    /\ DOMAIN m.cards = DOMAIN b.cards \cup {Unknown}
                    /\ \A v \in DOMAIN b.cards : m.cards[v] = b.cards[v]
                    /\ \A i : (\A p \in c.prints : p.id # i) =>
                        /\ i \in DOMAIN m.aliases <=> i \in DOMAIN b.aliases
                        /\ i \in DOMAIN b.aliases => m.aliases[i] = b.aliases[i]
<1> DEFINE k == Kept(b, c)
           w == WithPrints(k, c.prints)
           m == Finished(b, c)
<1>1. /\ Finishing(k, c) /\ (~raw.stage.deletes => k = b)
      /\ \A i : ByAlias(k, i) # Nobody => ByAlias(k, i) = ByAlias(b, i)
  BY KeptIs
<1> HIDE DEF k
<1>2. /\ Finishing(w, c) /\ w.cards = k.cards
      /\ \A i : (\A p \in c.prints : p.id # i) =>
            /\ i \in DOMAIN w.aliases <=> i \in DOMAIN k.aliases
            /\ i \in DOMAIN k.aliases => w.aliases[i] = k.aliases[i]
            /\ ByAlias(w, i) = ByAlias(k, i)
  BY <1>1, PrintsAre
<1>3. m = EnsureUnknown(w)
  BY DEF Finished, k
<1> HIDE DEF w, m
<1>4. IsBinder(w) /\ SoundCards(w.cards) /\ SoundAliases(w.aliases)
  BY <1>2 DEF Finishing
<1>5. /\ DOMAIN m.cards = DOMAIN w.cards \cup {Unknown}
      /\ \A v \in DOMAIN w.cards : m.cards[v] = w.cards[v]
      /\ m.aliases = w.aliases
  BY <1>3, <1>4, EnsureUnknownIs
<1>6. \A i : ByAlias(m, i) = ByAlias(w, i)
  BY <1>4, <1>5 DEF ByAlias, SoundAliases
<1>7. ASSUME NEW r \in Rows(c)
      PROVE  ByAlias(m, r.ids[1]) = ByAlias(b, r.ids[1])
  <2>1. \A p \in c.prints : p.id # r.ids[1]
    BY PrintFacts, RowFacts
  <2>2. ByAlias(k, r.ids[1]) # Nobody
    BY <1>1, CardAssumption DEF Finishing, HoldsRows, Cards, SoundCards
  <2> QED
    BY <1>1, <1>2, <1>6, <2>1, <2>2
<1>8. ASSUME ~raw.stage.deletes
      PROVE  /\ DOMAIN m.cards = DOMAIN b.cards \cup {Unknown}
             /\ \A v \in DOMAIN b.cards : m.cards[v] = b.cards[v]
             /\ \A i : (\A p \in c.prints : p.id # i) =>
                    /\ i \in DOMAIN m.aliases <=> i \in DOMAIN b.aliases
                    /\ i \in DOMAIN b.aliases => m.aliases[i] = b.aliases[i]
  BY <1>1, <1>2, <1>5, <1>8
<1> QED
  BY <1>7, <1>8 DEF m

LEMMA FinishedKeepsIds ==
    ASSUME NEW b, NEW c \in Catalogues, Finishing(b, c), FilesInv,
           raw.stage.match = "id", interrupted \in Nat, OwnIds(b)
    PROVE  OwnIds(Finished(b, c))
<1> DEFINE m == Finished(b, c)
<1>1. /\ SoundCards(b.cards) /\ SoundAliases(b.aliases) /\ c.stage = raw.stage
      /\ ~raw.stage.deletes
  BY StageFacts DEF Finishing
<1>2. /\ DOMAIN m.cards = DOMAIN b.cards \cup {Unknown}
      /\ \A v \in DOMAIN b.cards : m.cards[v] = b.cards[v]
      /\ \A i : (\A p \in c.prints : p.id # i) =>
            /\ i \in DOMAIN m.aliases <=> i \in DOMAIN b.aliases
            /\ i \in DOMAIN b.aliases => m.aliases[i] = b.aliases[i]
  BY <1>1, FinishedKeeps
<1> HIDE DEF m
<1>3. ASSUME NEW i \in FirstIds
      PROVE  /\ i \in DOMAIN m.aliases <=> i \in DOMAIN b.aliases
             /\ i \in DOMAIN b.aliases => m.aliases[i] = b.aliases[i]
  BY <1>1, <1>2, FirstIdsAreApart
<1>4. /\ DOMAIN m.cards = DOMAIN b.cards \cup {Unknown}
      /\ \A v \in DOMAIN b.cards : m.cards[v] = b.cards[v]
  BY <1>2
<1>5. /\ \A i \in DOMAIN b.aliases : b.aliases[i] # Unknown
      /\ \A i \in DOMAIN ledgerFile.lines : ledgerFile.lines[i] # Unknown
  BY <1>1 DEF FilesInv, SoundAliases
<1>6. /\ OfFirstIds(b.cards) /\ OwnCards(b.cards, b.aliases)
      /\ OwnCards(b.cards, ledgerFile.lines) /\ Orphans(b.cards, b.aliases)
  BY DEF OwnIds
<1>7. OfFirstIds(m.cards) /\ OwnCards(m.cards, ledgerFile.lines)
  BY <1>4, <1>5, <1>6 DEF OfFirstIds, OwnCards
<1>8. OwnCards(m.cards, m.aliases)
  <2> SUFFICES ASSUME NEW i \in FirstIds, i \in DOMAIN m.aliases, m.aliases[i] \in DOMAIN m.cards
               PROVE  m.cards[m.aliases[i]].of = i
    BY DEF OwnCards
  <2>1. i \in DOMAIN b.aliases /\ m.aliases[i] = b.aliases[i] /\ b.aliases[i] # Unknown
    <3>1. i \in DOMAIN b.aliases
      BY <1>3
    <3>2. m.aliases[i] = b.aliases[i]
      BY <1>3, <3>1
    <3> QED
      BY <1>5, <3>1, <3>2
  <2> QED
    BY <1>4, <1>6, <2>1 DEF OwnCards
<1>9. Orphans(m.cards, m.aliases)
  <2>1. \A i : MadeOf(m.cards, i) = MadeOf(b.cards, i)
    BY <1>4 DEF MadeOf
  <2>2. ASSUME NEW i \in FirstIds
        PROVE  i \in DOMAIN m.aliases /\ m.aliases[i] \in DOMAIN m.cards
                <=> i \in DOMAIN b.aliases /\ b.aliases[i] \in DOMAIN b.cards
    <3>1. /\ i \in DOMAIN m.aliases <=> i \in DOMAIN b.aliases
          /\ i \in DOMAIN b.aliases => m.aliases[i] = b.aliases[i]
      BY <1>3
    <3>2. i \in DOMAIN b.aliases => b.aliases[i] # Unknown
      BY <1>5
    <3> QED
      BY <1>4, <3>1, <3>2
  <2> QED
    BY <1>6, <2>1, <2>2 DEF Orphans
<1> QED
  BY <1>7, <1>8, <1>9 DEF OwnIds, m

LEMMA InitIds == Init => IdsInv
<1>1. Init => binderFile.lines = <<>> /\ ledgerFile.lines = <<>> /\ run.at = "down"
              /\ interrupted = 0
  BY DEF Init, NoLines, NoProcess
<1>2. \A i : MadeOf(<<>>, i) = {}
  BY DEF MadeOf
<1>3. Cardinality({}) = 0
  BY FS_EmptySet
<1>4. OfFirstIds(<<>>) /\ OwnCards(<<>>, <<>>)
  BY DEF OfFirstIds, OwnCards
<1>5. interrupted = 0 => Orphans(<<>>, <<>>)
  <2>1. \A i : Cardinality(MadeOf(<<>>, i)) = 0
    BY <1>2, <1>3
  <2>2. \A n : n \in {0, 1} => 0 <= 0 + n
    OBVIOUS
  <2> QED
    BY <2>1, <2>2 DEF Orphans
<1> QED
  BY <1>1, <1>4, <1>5 DEF IdsInv

\* The invariant about identifiers is kept by every step.
LEMMA StepIds ==
    ASSUME MirrorInv, IdsInv, [Next]_vars
    PROVE  IdsInv'
<1> SUFFICES ASSUME raw'.stage.match = "id"
             PROVE  IdsInv'
  BY DEF IdsInv
<1>1. raw'.stage = raw.stage
  BY DEF Next, Start, StoreRow, Finish, Save, SaveBinder, SaveLedger, Interrupt, Abandon,
         CutBinder, CutLedger, Publish, vars
<1>2. /\ OfFirstIds(binderFile.lines) /\ OwnCards(binderFile.lines, ledgerFile.lines)
      /\ run.at # "ledger" => Orphans(binderFile.lines, ledgerFile.lines)
      /\ run.at # "down" => OwnIds(run.b)
      /\ raw.stage.match = "id" /\ interrupted \in Nat
  BY <1>1 DEF IdsInv, MirrorInv, TypeOK
<1>3. /\ SoundCards(binderFile.lines) /\ SoundAliases(ledgerFile.lines)
      /\ run.at # "down" => SoundCards(run.b.cards) /\ SoundAliases(run.b.aliases)
  BY DEF MirrorInv, FilesInv, ProcessInv
<1>4. ASSUME UNCHANGED <<binderFile, ledgerFile, interrupted>>, run.at # "ledger",
             run'.at # "down" => OwnIds(run'.b)
      PROVE  IdsInv'
  <2>1. OwnIds(run'.b) => OwnIds(run.b)'
    BY <1>1, <1>4, StageStaysOf, OrphansStay DEF OwnIds
  <2> QED
    BY <1>1, <1>2, <1>4, <2>1, StageStaysOf, OrphansStay DEF IdsInv
<1>5. CASE Start
  <2>1. /\ run.at = "down" /\ run'.b = Stored
        /\ UNCHANGED <<binderFile, ledgerFile, interrupted>>
    BY <1>5 DEF Start
  <2>2. /\ Stored.cards = binderFile.lines
        /\ DOMAIN Stored.aliases = {i \in DOMAIN ledgerFile.lines :
                                        ledgerFile.lines[i] \in DOMAIN binderFile.lines}
        /\ \A i \in DOMAIN Stored.aliases : Stored.aliases[i] = ledgerFile.lines[i]
    BY <1>3, LoadIs DEF Stored
  <2>3. OwnCards(Stored.cards, Stored.aliases)
    BY <1>2, <2>2 DEF OwnCards
  <2>4. Orphans(Stored.cards, Stored.aliases)
    BY <1>2, <2>1, <2>2 DEF Orphans
  <2>5. OwnIds(Stored)
    BY <1>2, <2>2, <2>3, <2>4 DEF OwnIds
  <2> QED
    BY <1>4, <2>1, <2>5
<1>6. CASE StoreRow
  <2> DEFINE r == run.catalogue.rows[run.next]
  <2>1. /\ run.at = "rows" /\ run.next <= Len(run.catalogue.rows)
        /\ UNCHANGED <<binderFile, ledgerFile, interrupted>>
    BY <1>6 DEF StoreRow
  <2>2. PICK u \in Chosen(run.b, r, run.taken) :
          run' = [run EXCEPT !.b = StoredRow(@, r, u), !.next = @ + 1, !.taken = @ \cup {u}]
    BY <1>6 DEF StoreRow, Chosen
  <2>3. run = [at |-> run.at, b |-> run.b, catalogue |-> run.catalogue,
               next |-> run.next, taken |-> run.taken]
    BY <2>1 DEF MirrorInv, ProcessInv
  <2>4. run'.b = StoredRow(run.b, r, u)
    BY <2>2, <2>3
  <2>5. /\ Storing(run.b, run.catalogue, Done, r) /\ run.catalogue \in Catalogues
        /\ u \in Chosen(run.b, r, CardsOf(run.b, Done))
    BY <2>1, <2>2, RunIsStoring
  <2>6. OwnIds(StoredRow(run.b, r, u))
    BY <1>2, <2>1, <2>5, StoredKeepsIds
  <2> QED
    BY <1>4, <2>1, <2>4, <2>6
<1>7. CASE Finish
  <2>1. /\ run.at = "rows" /\ run.next > Len(run.catalogue.rows)
        /\ UNCHANGED <<binderFile, ledgerFile, interrupted>>
    BY <1>7 DEF Finish
  <2>2. /\ Finishing(run.b, run.catalogue) /\ run.catalogue \in Catalogues
        /\ run.taken = CardsOf(run.b, Rows(run.catalogue))
    BY <2>1, RunIsFinishing
  <2>3. run' = [run EXCEPT !.at = "save", !.b = Finished(run.b, run.catalogue)]
    BY <1>7, <2>2 DEF Finish, Finished, Kept
  <2>4. run = [at |-> run.at, b |-> run.b, catalogue |-> run.catalogue,
               next |-> run.next, taken |-> run.taken]
    BY <2>1 DEF MirrorInv, ProcessInv
  <2>5. run'.b = Finished(run.b, run.catalogue)
    BY <2>3, <2>4
  <2>6. OwnIds(Finished(run.b, run.catalogue))
    BY <1>2, <2>1, <2>2, FinishedKeepsIds DEF MirrorInv
  <2> QED
    BY <1>4, <2>1, <2>5, <2>6
<1>8. CASE SaveBinder
  <2>1. /\ run.at = "save" /\ binderFile'.lines = run.b.cards
        /\ run' = [run EXCEPT !.at = "ledger"] /\ UNCHANGED <<ledgerFile, interrupted>>
    BY <1>8 DEF SaveBinder
  <2>2. run = [at |-> run.at, b |-> run.b, catalogue |-> run.catalogue,
               next |-> run.next, taken |-> run.taken]
    BY <2>1 DEF MirrorInv, ProcessInv
  <2>3. run'.at = "ledger" /\ run'.b = run.b
    BY <2>1, <2>2
  <2>4. OwnIds(run.b)'
    BY <1>1, <1>2, <2>1, <2>3, StageStaysOf, OrphansStay DEF OwnIds
  <2> QED
    BY <1>1, <1>2, <2>1, <2>3, <2>4, StageStaysOf DEF IdsInv, OwnIds
<1>9. CASE SaveLedger
  <2>1. /\ run.at = "ledger" /\ ledgerFile'.lines = run.b.aliases /\ run'.at = "down"
        /\ UNCHANGED <<binderFile, interrupted>> /\ binderFile.lines = run.b.cards
    BY <1>9 DEF SaveLedger, NoProcess, MirrorInv, SaveInv
  <2> QED
    BY <1>1, <1>2, <2>1, StageStaysOf, OrphansStay DEF IdsInv, OwnIds
<1>10. CASE Abandon
  <2>1. run.at = "rows" /\ run'.at = "down" /\ UNCHANGED <<binderFile, ledgerFile, interrupted>>
    BY <1>10 DEF Abandon, NoProcess
  <2> QED
    BY <1>4, <2>1
<1>11. CASE CutBinder
  <2>1. /\ run.at = "save" /\ binderFile' \in CutOf(run.b.cards) /\ run'.at = "down"
        /\ interrupted' = interrupted + 1 /\ UNCHANGED ledgerFile
    BY <1>11 DEF CutBinder, NoProcess
  <2>2. /\ DOMAIN binderFile'.lines \subseteq DOMAIN run.b.cards
        /\ \A v \in DOMAIN binderFile'.lines : binderFile'.lines[v] = run.b.cards[v]
    BY <2>1, CutKeeps
  <2>3. SoundCards(binderFile'.lines)
    BY <1>3, <2>1, CutIsSound
  <2>4. OwnIds(run.b)
    BY <1>2, <2>1
  <2>5. OfFirstIds(binderFile'.lines) /\ OwnCards(binderFile'.lines, ledgerFile.lines)
    BY <2>2, <2>4 DEF OwnIds, OfFirstIds, OwnCards
  <2>6. Orphans(binderFile.lines, ledgerFile.lines)'
    <3>1. Orphans(run.b.cards, run.b.aliases)
      BY <2>4 DEF OwnIds
    <3>2. PICK cards, aliases : cards = binderFile'.lines /\ aliases = ledgerFile'.lines
      OBVIOUS
    <3>3. /\ SoundCards(cards) /\ DOMAIN cards \subseteq DOMAIN run.b.cards
          /\ \A v \in DOMAIN cards : cards[v].of = run.b.cards[v].of
      BY <2>2, <2>3, <3>2
    <3>4. Orphans(cards, aliases)'
      BY <1>1, <1>2, <1>3, <2>1, <3>1, <3>3, OrphansAfterCut
    <3> QED
      BY <3>2, <3>4
  <2> QED
    BY <1>1, <2>1, <2>5, <2>6, StageStaysOf DEF IdsInv
<1>12. CASE CutLedger
  <2>1. /\ run.at = "ledger" /\ ledgerFile' \in CutOf(run.b.aliases) \cup {ledgerFile}
        /\ run'.at = "down" /\ binderFile.lines = run.b.cards
        /\ interrupted' = interrupted + 1 /\ UNCHANGED binderFile
    BY <1>12 DEF CutLedger, NoProcess, MirrorInv, SaveInv
  <2>2. OwnIds(run.b)
    BY <1>2, <2>1
  <2>3. OwnCards(binderFile.lines, ledgerFile'.lines)
    <3>1. CASE ledgerFile' = ledgerFile
      BY <1>2, <3>1
    <3>2. CASE ledgerFile' \in CutOf(run.b.aliases)
      <4>1. /\ DOMAIN ledgerFile'.lines \subseteq DOMAIN run.b.aliases
            /\ \A i \in DOMAIN ledgerFile'.lines : ledgerFile'.lines[i] = run.b.aliases[i]
        BY <3>2, CutKeeps
      <4> QED
        BY <2>1, <2>2, <4>1 DEF OwnIds, OwnCards
    <3> QED
      BY <2>1, <3>1, <3>2
  <2>4. Orphans(binderFile.lines, ledgerFile.lines)'
    BY <1>1, <1>2, <1>3, <2>1, <2>2, OrphansAfterCut DEF OwnIds
  <2> QED
    BY <1>1, <1>2, <2>1, <2>3, <2>4, StageStaysOf DEF IdsInv
<1>13. CASE Publish \/ UNCHANGED vars
  <2>1. UNCHANGED <<binderFile, ledgerFile, run, interrupted>>
    BY <1>13 DEF Publish, vars
  <2>2. OwnIds(run.b) => OwnIds(run.b)'
    BY <1>1, <2>1, StageStaysOf, OrphansStay DEF OwnIds
  <2> QED
    BY <1>1, <1>2, <2>1, <2>2, StageStaysOf, OrphansStay DEF IdsInv
<1> QED
  BY <1>5, <1>6, <1>7, <1>8, <1>9, <1>10, <1>11, <1>12, <1>13 DEF Next, Save, Interrupt
-----------------------------------------------------------------------------
(* Rows keep the cards of the binder they were loaded with.                *)

\* Storing a row leaves the identifiers that are not its own.
LEMMA OtherAliasesStay ==
    ASSUME NEW b, NEW c \in Catalogues, NEW done, NEW r, Storing(b, c, done, r),
           NEW u \in Chosen(b, r, CardsOf(b, done)), NEW i, i \notin Range(r.ids)
    PROVE  ByAlias(StoredRow(b, r, u), i) = ByAlias(b, i)
<1> DEFINE m == StoredRow(b, r, u)
<1>1. IsBinder(b)
  BY DEF Storing
<1>2. /\ DOMAIN m.cards = DOMAIN b.cards \cup {u}
      /\ DOMAIN m.aliases = DOMAIN b.aliases \cup Range(r.ids)
      /\ \A j \in DOMAIN b.aliases \ Range(r.ids) : m.aliases[j] = b.aliases[j]
  BY <1>1, StoredRowIs
<1> HIDE DEF m
<1>3. u \notin DOMAIN b.cards => u \notin Range(b.aliases)
  BY ChosenIs
<1>4. i \in DOMAIN b.aliases => b.aliases[i] \in Range(b.aliases)
  BY DEF Range
<1>5. ByAlias(m, i) = ByAlias(b, i)
  BY <1>2, <1>3, <1>4 DEF ByAlias
<1> QED
  BY <1>5 DEF m

\* By identifier: one that named a card of d names it still.
LEMMA StoredKeepsNamed ==
    ASSUME NEW b, NEW c \in Catalogues, NEW done, NEW r, Storing(b, c, done, r),
           NEW u \in Chosen(b, r, CardsOf(b, done)), raw.stage.match = "id",
           NEW i \in FirstIds, ByAlias(b, i) # Nobody
    PROVE  ByAlias(StoredRow(b, r, u), i) = ByAlias(b, i)
<1>1. /\ SoundCards(b.cards) /\ c.stage = raw.stage /\ r \in Rows(c)
  BY DEF Storing
<1>2. CASE i \notin Range(r.ids)
  BY <1>2, OtherAliasesStay
<1>3. CASE i \in Range(r.ids)
  <2>1. i = r.ids[1]
    BY <1>1, <1>3, FirstIdsAreApart
  <2>2. i \in DOMAIN b.aliases /\ ByAlias(b, i) = b.aliases[i]
    BY <1>1, ByAliasIs
  <2>3. /\ u \in Nat \ {Unknown}
        /\ u \notin DOMAIN b.cards => u \notin Range(b.aliases)
        /\ \A j \in FirstIds \cap DOMAIN b.aliases : b.aliases[j] = u <=> j = r.ids[1]
    BY ChosenByIdIs
  <2>4. SoundCards(StoredRow(b, r, u).cards)
    BY StoredIsSound
  <2>5. /\ \A j \in Range(r.ids) : ByAlias(StoredRow(b, r, u), j) = u
        /\ \A s \in done : \A j \in Range(s.ids) :
            ByAlias(StoredRow(b, r, u), j) = ByAlias(b, s.ids[1])
    BY <2>4, StoredAliasesAre
  <2> QED
    BY <1>3, <2>1, <2>2, <2>3, <2>5
<1> QED
  BY <1>2, <1>3

\* By name: a card of d keeps its name.
LEMMA StoredKeepsNames ==
    ASSUME NEW b, NEW c \in Catalogues, NEW done, NEW r, Storing(b, c, done, r),
           NEW u \in Chosen(b, r, CardsOf(b, done)), raw.stage.match = "name",
           NEW v \in DOMAIN b.cards
    PROVE  /\ v \in DOMAIN StoredRow(b, r, u).cards
           /\ StoredRow(b, r, u).cards[v].name = b.cards[v].name
<1>1. IsBinder(b) /\ SoundCards(b.cards) /\ r \in Rows(c)
  BY DEF Storing
<1>2. /\ DOMAIN StoredRow(b, r, u).cards = DOMAIN b.cards \cup {u}
      /\ StoredRow(b, r, u).cards[u] =
            IF u \in DOMAIN b.cards THEN Merged(b.cards[u], r) ELSE CardOfRow(r)
      /\ \A w \in DOMAIN b.cards \ {u} : StoredRow(b, r, u).cards[w] = b.cards[w]
  BY <1>1, StoredRowIs
<1>3. /\ u \in Nat \ {Unknown}
      /\ u \notin DOMAIN b.cards => u \notin Range(b.aliases)
      /\ \A w \in DOMAIN b.cards : b.cards[w].name = r.name <=> w = u
  BY ChosenByNameIs
<1>4. r.text \in Nat /\ b.cards[v].text \in Nat
  BY <1>1, RowFacts DEF SoundCards
<1>5. v = u => Merged(b.cards[v], r).name = r.name
  BY <1>3, <1>4, MergedIs
<1> QED
  BY <1>2, <1>3, <1>5

\* By group: a row takes one of the cards its identifiers name, or other rows have
\* taken them all.
LEMMA ChosenIsClaimed ==
    ASSUME NEW b, NEW c \in Catalogues, NEW done, NEW r, Storing(b, c, done, r),
           NEW u \in Chosen(b, r, CardsOf(b, done)), raw.stage.match = "group"
    PROVE  \/ u \in Claims(b, r)
           \/ Claims(b, r) \subseteq CardsOf(b, done)
<1> DEFINE taken == CardsOf(b, done)
           Free(k) == ByAlias(b, r.ids[k]) \notin taken \cup {Nobody}
           free == {k \in DOMAIN r.ids : Free(k)}
           least == {k \in DOMAIN r.ids : Free(k) /\ \A j \in 1..(k - 1) : ~Free(j)}
<1>1. ExistingCards(b, r, taken) = {ByAlias(b, r.ids[k]) : k \in least}
  BY DEF ExistingCards
<1>2. Claims(b, r) = {ByAlias(b, i) : i \in Range(r.ids)} \ {Nobody}
  BY DEF Claims
<1>3. DOMAIN r.ids = 1..Len(r.ids) /\ Len(r.ids) \in Nat
  BY CardAssumption DEF Storing, WellFormed
<1>4. CASE free = {}
  <2>1. \A k \in DOMAIN r.ids : ByAlias(b, r.ids[k]) \in taken \cup {Nobody}
    BY <1>4
  <2>2. \A i \in Range(r.ids) : ByAlias(b, i) \in taken \cup {Nobody}
    BY <2>1 DEF Range
  <2> QED
    BY <1>2, <2>2
<1>5. CASE free # {}
  <2>1. PICK k \in free : \A j \in free : ~(j < k)
    <3>1. IsWellFoundedOn(OpToRel(<, Nat), Nat)
      BY NatLessThanWellFounded
    <3>2. free \subseteq Nat
      BY <1>3
    <3>3. PICK k \in free : \A j \in free : ~(<<j, k>> \in OpToRel(<, Nat))
      BY <1>5, <3>1, <3>2, WFMin
    <3>4. \A j \in Nat : j < k => <<j, k>> \in OpToRel(<, Nat)
      BY <3>2 DEF OpToRel
    <3> QED
      BY <3>2, <3>3, <3>4
  <2>2. k \in least
    BY <1>3, <2>1
  <2>3. u \in {ByAlias(b, r.ids[j]) : j \in least}
    BY <1>1, <2>2 DEF Chosen
  <2>4. PICK j \in DOMAIN r.ids : u = ByAlias(b, r.ids[j]) /\ u # Nobody
    BY <2>3
  <2>5. r.ids[j] \in Range(r.ids)
    BY DEF Range
  <2> QED
    BY <1>2, <2>4, <2>5
<1> QED
  BY <1>4, <1>5
\* A row to come is another group, with other identifiers.
LEMMA RowsToCome ==
    ASSUME MirrorInv, run.at = "rows", run.next <= Len(run.catalogue.rows),
           raw.stage.match = "group"
    PROVE  LET r == run.catalogue.rows[run.next]
               others == {run.catalogue.rows[j] :
                            j \in (run.next + 1)..Len(run.catalogue.rows)}
           IN  /\ ToCome = others \cup {r}
               /\ \A s \in others : Range(s.ids) \cap Range(r.ids) = {}
<1> DEFINE c == run.catalogue
           r == c.rows[run.next]
           others == {c.rows[j] : j \in (run.next + 1)..Len(c.rows)}
<1>1. /\ c \in Catalogues /\ run.next \in 1..Len(c.rows) /\ c.stage = raw.stage
  BY RunIsStoring DEF Storing
<1>2. /\ Len(c.rows) \in Nat /\ DOMAIN c.rows = 1..Len(c.rows)
      /\ \A j \in 1..Len(c.rows) : c.rows[j] \in Rows(c)
  BY <1>1, RowsAreListed
<1>3. run.next..Len(c.rows) = ((run.next + 1)..Len(c.rows)) \cup {run.next}
  BY <1>1, <1>2
<1>4. ToCome = others \cup {r}
  BY <1>3 DEF ToCome
<1>5. ASSUME NEW j \in (run.next + 1)..Len(c.rows)
      PROVE  Range(c.rows[j].ids) \cap Range(r.ids) = {}
  <2>1. j \in 1..Len(c.rows) /\ j # run.next
    BY <1>1, <1>2
  <2>2. c.rows[j] # r
    BY <1>1, <1>2, <2>1, GroupsAreOnce
  <2>3. c.rows[j] \in Rows(c) /\ r \in Rows(c)
    BY <1>1, <1>2, <2>1
  <2> SUFFICES ASSUME NEW i \in Range(c.rows[j].ids), i \in Range(r.ids)
               PROVE  FALSE
    OBVIOUS
  <2>4. SameCard("group", c.rows[j], r)
    BY <1>1, <2>3, RowsAreApart
  <2> QED
    BY <2>2, <2>4 DEF SameCard
<1> QED
  BY <1>4, <1>5

LEMMA StoredStays ==
    ASSUME raw'.stage = raw.stage, UNCHANGED <<binderFile, ledgerFile>>
    PROVE  /\ \A b : NamedStay(b)' <=> NamedStay(b)
           /\ \A b : NamesStay(b)' <=> NamesStay(b)
           /\ \A b, done, taken : GroupsClaim(b, done, taken)' <=> GroupsClaim(b, done, taken)
           /\ \A b, rows : ClaimsStay(b, rows)' <=> ClaimsStay(b, rows)
           /\ \A b, rows : KeepsCards(b, rows)' <=> KeepsCards(b, rows)
<1>1. Stored' = Stored /\ FirstIds' = FirstIds /\ \A b, r : Claims(b, r)' = Claims(b, r)
  BY StageStaysOf DEF Stored
<1>2. \A r : Claims(Stored, r)' = Claims(Stored, r)
  BY <1>1 DEF Claims
<1> QED
  BY <1>1, <1>2 DEF NamedStay, NamesStay, GroupsClaim, ClaimsStay, KeepsCards

LEMMA StartClaims ==
    ASSUME MirrorInv, Start
    PROVE  ClaimsInv'
<1>1. /\ run' = [at |-> "rows", b |-> Stored, catalogue |-> raw, next |-> 1, taken |-> {}]
      /\ raw' = raw /\ UNCHANGED <<binderFile, ledgerFile>>
  BY DEF Start
<1>2. Done' = {}
  BY <1>1 DEF Done
<1>3. NamedStay(Stored) /\ NamesStay(Stored') /\ ClaimsStay(Stored, ToCome')
  BY <1>1 DEF NamedStay, NamesStay, ClaimsStay, Stored
<1>4. GroupsClaim(Stored, {}, {})
  BY DEF GroupsClaim
<1>5. Stored' = Stored
  BY <1>1 DEF Stored
<1> QED
  BY <1>1, <1>2, <1>3, <1>4, <1>5, StoredStays DEF ClaimsInv

LEMMA StoreRowClaims ==
    ASSUME MirrorInv, ClaimsInv, StoreRow
    PROVE  ClaimsInv'
<1> DEFINE c == run.catalogue
           r == c.rows[run.next]
<1>1. /\ run.at = "rows" /\ run.next <= Len(c.rows)
      /\ raw' = raw /\ UNCHANGED <<binderFile, ledgerFile>>
  BY DEF StoreRow
<1>2. PICK u \in Chosen(run.b, r, run.taken) :
        run' = [run EXCEPT !.b = StoredRow(@, r, u), !.next = @ + 1, !.taken = @ \cup {u}]
  BY DEF StoreRow, Chosen
<1>3. /\ Storing(run.b, c, Done, r) /\ c \in Catalogues /\ run.taken = CardsOf(run.b, Done)
      /\ u \in Chosen(run.b, r, CardsOf(run.b, Done))
      /\ run.next \in 1..Len(c.rows) /\ {c.rows[j] : j \in 1..run.next} = Done \cup {r}
  BY <1>1, <1>2, RunIsStoring
<1> DEFINE m == StoredRow(run.b, r, u)
<1>4. run = [at |-> run.at, b |-> run.b, catalogue |-> run.catalogue,
             next |-> run.next, taken |-> run.taken]
  BY <1>1 DEF MirrorInv, ProcessInv
<1>5. run' = [at |-> "rows", b |-> m, catalogue |-> c, next |-> run.next + 1,
              taken |-> run.taken \cup {u}]
  BY <1>1, <1>2, <1>4
<1>6. Nobody \notin DOMAIN Stored.cards
  BY CardAssumption, LoadIs DEF MirrorInv, FilesInv, Stored, SoundCards
<1>7. ASSUME raw.stage.match = "id"
      PROVE  NamedStay(m)
  <2> SUFFICES ASSUME NEW i \in FirstIds, ByAlias(Stored, i) # Nobody
               PROVE  ByAlias(m, i) = ByAlias(Stored, i)
    BY DEF NamedStay
  <2>1. ByAlias(run.b, i) = ByAlias(Stored, i)
    BY <1>1, <1>7 DEF ClaimsInv, NamedStay
  <2> QED
    BY <1>3, <1>7, <2>1, StoredKeepsNamed
<1>8. ASSUME raw.stage.match = "name"
      PROVE  NamesStay(m)
  <2> SUFFICES ASSUME NEW v \in DOMAIN Stored.cards
               PROVE  v \in DOMAIN m.cards /\ m.cards[v].name = Stored.cards[v].name
    BY DEF NamesStay
  <2>1. v \in DOMAIN run.b.cards /\ run.b.cards[v].name = Stored.cards[v].name
    BY <1>1, <1>8 DEF ClaimsInv, NamesStay
  <2>2. v \in DOMAIN m.cards /\ m.cards[v].name = run.b.cards[v].name
    BY <1>3, <1>8, <2>1, StoredKeepsNames
  <2> QED
    BY <2>1, <2>2
<1>9. ASSUME raw.stage.match = "group"
      PROVE  GroupsClaim(m, Done \cup {r}, run.taken \cup {u}) /\ ClaimsStay(m, ToCome')
  <2> DEFINE others == {c.rows[j] : j \in (run.next + 1)..Len(c.rows)}
  <2>1. GroupsClaim(run.b, Done, run.taken) /\ ClaimsStay(run.b, ToCome)
    BY <1>1, <1>9 DEF ClaimsInv
  <2>2. /\ ToCome = others \cup {r} /\ \A s \in others : Range(s.ids) \cap Range(r.ids) = {}
    BY <1>1, <1>9, RowsToCome
  <2>3. ToCome' = others
    BY <1>5 DEF ToCome
  <2>4. ClaimsStay(m, others)
    <3> SUFFICES ASSUME NEW s \in others, NEW i \in Range(s.ids)
                 PROVE  ByAlias(m, i) = ByAlias(Stored, i)
      BY DEF ClaimsStay
    <3>1. i \notin Range(r.ids)
      BY <2>2
    <3>2. ByAlias(m, i) = ByAlias(run.b, i)
      BY <1>3, <3>1, OtherAliasesStay
    <3>3. ByAlias(run.b, i) = ByAlias(Stored, i)
      BY <2>1, <2>2 DEF ClaimsStay
    <3> QED
      BY <3>2, <3>3
  <2>5. /\ HoldsRows(m, Done \cup {r}) /\ ByAlias(m, r.ids[1]) = u
        /\ \A s \in Done : ByAlias(m, s.ids[1]) = ByAlias(run.b, s.ids[1])
    BY <1>1, <1>2, RunStores DEF StoredWith
  <2>6. Claims(Stored, r) = Claims(run.b, r)
    <3>1. \A i \in Range(r.ids) : ByAlias(run.b, i) = ByAlias(Stored, i)
      BY <2>1, <2>2 DEF ClaimsStay
    <3> QED
      BY <1>9, <3>1 DEF Claims
  <2>7. u \in Claims(run.b, r) \/ Claims(run.b, r) \subseteq run.taken
    BY <1>3, <1>9, ChosenIsClaimed
  <2> HIDE DEF m, r, c
  <2>8. GroupsClaim(m, Done \cup {r}, run.taken \cup {u})
    BY <2>1, <2>5, <2>6, <2>7 DEF GroupsClaim
  <2> QED
    BY <2>3, <2>4, <2>8
<1>10. Done' = Done \cup {r}
  <2>1. (run.next + 1) - 1 = run.next
    BY <1>3
  <2> QED
    BY <1>3, <1>5, <2>1 DEF Done
<1> HIDE DEF m
<1> QED
  BY <1>1, <1>5, <1>7, <1>8, <1>9, <1>10, StoredStays DEF ClaimsInv
\* What a stage that ends keeps of what it loaded.
LEMMA FinishClaims ==
    ASSUME MirrorInv, ClaimsInv, Finish
    PROVE  ClaimsInv' /\ KeepsCards(run.b, Rows(run.catalogue))'
<1> DEFINE c == run.catalogue
           m == Finished(run.b, c)
<1>1. /\ run.at = "rows" /\ run.next > Len(c.rows)
      /\ raw' = raw /\ UNCHANGED <<binderFile, ledgerFile>>
  BY DEF Finish
<1>2. /\ Finishing(run.b, c) /\ c \in Catalogues /\ run.taken = CardsOf(run.b, Rows(c))
      /\ Done = Rows(c) /\ c.stage = raw.stage
  BY <1>1, RunIsFinishing DEF Finishing
<1>3. run' = [run EXCEPT !.at = "save", !.b = m]
  BY <1>2 DEF Finish, Finished, Kept
<1>4. run = [at |-> run.at, b |-> run.b, catalogue |-> run.catalogue,
             next |-> run.next, taken |-> run.taken]
  BY <1>1 DEF MirrorInv, ProcessInv
<1>5. run' = [at |-> "save", b |-> m, catalogue |-> c, next |-> run.next, taken |-> run.taken]
  BY <1>3, <1>4
<1>6. /\ \A r \in Rows(c) : ByAlias(m, r.ids[1]) = ByAlias(run.b, r.ids[1])
      /\ ~raw.stage.deletes =>
            /\ DOMAIN m.cards = DOMAIN run.b.cards \cup {Unknown}
            /\ \A v \in DOMAIN run.b.cards : m.cards[v] = run.b.cards[v]
            /\ \A i : (\A p \in c.prints : p.id # i) =>
                /\ i \in DOMAIN m.aliases <=> i \in DOMAIN run.b.aliases
                /\ i \in DOMAIN run.b.aliases => m.aliases[i] = run.b.aliases[i]
  BY <1>2, FinishedKeeps
<1>7. HoldsRows(m, Rows(c)) /\ SoundCards(m.cards)
  BY <1>2, FinishedMirrors DEF Mirrors
<1> HIDE DEF m
<1>8. /\ raw.stage.match \in {"id", "name", "group"}
      /\ raw.stage.merge = IF raw.stage.match = "name" THEN "longer" ELSE "differing"
      /\ raw.stage.deletes <=> raw.stage.match = "group"
  BY <1>2, StageFacts
<1>9. /\ Stored.cards = binderFile.lines /\ SoundCards(Stored.cards) /\ IsBinder(Stored)
  BY LoadIs DEF MirrorInv, FilesInv, Stored
<1>10. ASSUME raw.stage.match = "id"
       PROVE  NamedStay(m) /\ KeepsCards(m, Rows(c))
  <2>1. ASSUME NEW i \in FirstIds, ByAlias(Stored, i) # Nobody
        PROVE  ByAlias(m, i) = ByAlias(Stored, i)
    <3>1. ByAlias(run.b, i) = ByAlias(Stored, i)
      BY <1>1, <1>10, <2>1 DEF ClaimsInv, NamedStay
    <3>2. /\ i \in DOMAIN run.b.aliases /\ run.b.aliases[i] \in DOMAIN run.b.cards
          /\ ByAlias(run.b, i) = run.b.aliases[i]
      BY <1>2, <2>1, <3>1, ByAliasIs DEF Finishing
    <3>3. \A p \in c.prints : p.id # i
      BY <1>2, <1>10, FirstIdsAreApart
    <3>4. i \in DOMAIN m.aliases /\ m.aliases[i] = run.b.aliases[i]
      BY <1>6, <1>8, <1>10, <3>2, <3>3
    <3>5. run.b.aliases[i] \in DOMAIN m.cards
      BY <1>6, <1>8, <1>10, <3>2
    <3> QED
      BY <3>1, <3>2, <3>4, <3>5 DEF ByAlias
  <2>2. NamedStay(m)
    BY <2>1 DEF NamedStay
  <2>3. \A r \in Rows(c) : r.ids[1] \in FirstIds
    BY <1>2, <1>10, FirstIdsAreApart
  <2>4. \A r \in Rows(c) : Claims(Stored, r) = {ByAlias(Stored, r.ids[1])} \ {Nobody}
    BY <1>10 DEF Claims
  <2>5. KeepsCards(m, Rows(c))
    BY <2>1, <2>3, <2>4 DEF KeepsCards
  <2> QED
    BY <2>2, <2>5
<1>11. ASSUME raw.stage.match = "name"
       PROVE  NamesStay(m) /\ KeepsCards(m, Rows(c))
  <2>1. NamesStay(run.b)
    BY <1>1, <1>11 DEF ClaimsInv
  <2>2. NamesStay(m)
    BY <1>6, <1>8, <1>11, <2>1 DEF NamesStay
  <2>3. ASSUME NEW r \in Rows(c), NEW v \in Claims(Stored, r)
        PROVE  ByAlias(m, r.ids[1]) = v
    <3>1. v \in DOMAIN Stored.cards /\ <<r.name, v>> \in Stored.byName
      BY <1>11, <2>3 DEF Claims, ByName
    <3>2. Stored.byName = {<<Stored.cards[w].name, w>> : w \in DOMAIN Stored.cards}
      BY <1>9 DEF IsBinder, NamesOf
    <3>3. Stored.cards[v].name = r.name
      BY <3>1, <3>2
    <3>4. v \in DOMAIN m.cards /\ m.cards[v].name = r.name
      BY <2>2, <3>1, <3>3 DEF NamesStay
    <3>5. /\ ByAlias(m, r.ids[1]) \in DOMAIN m.cards
          /\ m.cards[ByAlias(m, r.ids[1])].name = r.name
      BY <1>7, <1>8, <1>11 DEF HoldsRows, HoldsRow, Cards
    <3> QED
      BY <1>7, <1>11, <3>4, <3>5 DEF SoundCards
  <2>4. KeepsCards(m, Rows(c))
    BY <2>3 DEF KeepsCards
  <2> QED
    BY <2>2, <2>4
<1>12. ASSUME raw.stage.match = "group"
       PROVE  KeepsCards(m, Rows(c))
  <2>1. GroupsClaim(run.b, Rows(c), run.taken)
    BY <1>1, <1>2, <1>12 DEF ClaimsInv
  <2>2. run.taken = {ByAlias(m, s.ids[1]) : s \in Rows(c)}
    BY <1>2, <1>6 DEF CardsOf
  <2> QED
    BY <1>6, <2>1, <2>2 DEF GroupsClaim, KeepsCards
<1>13. ClaimsInv'
  BY <1>1, <1>5, <1>10, <1>11, StoredStays DEF ClaimsInv
<1>14. KeepsCards(m, Rows(c))
  BY <1>8, <1>10, <1>11, <1>12
<1>15. Rows(run.catalogue)' = Rows(c)
  BY <1>5 DEF Rows
<1>16. KeepsCards(run.b, Rows(run.catalogue))'
  BY <1>1, <1>5, <1>14, <1>15, StoredStays
<1> QED
  BY <1>13, <1>16
\* What the process keeps of what it loaded is kept by every step.
LEMMA StepClaims ==
    ASSUME MirrorInv, ClaimsInv, [Next]_vars,
           run.at = "save" => KeepsCards(run.b, Rows(run.catalogue))
    PROVE  ClaimsInv' /\ (run.at = "save" => KeepsCards(run.b, Rows(run.catalogue)))'
<1>1. CASE Start
  <2>1. run'.at # "save"
    BY <1>1 DEF Start
  <2> QED
    BY <1>1, <2>1, StartClaims
<1>2. CASE StoreRow
  <2>1. run.at = "rows" /\ run = [at |-> run.at, b |-> run.b, catalogue |-> run.catalogue,
                                  next |-> run.next, taken |-> run.taken]
    BY <1>2 DEF StoreRow, MirrorInv, ProcessInv
  <2>2. run'.at # "save"
    BY <1>2, <2>1 DEF StoreRow
  <2> QED
    BY <1>2, <2>2, StoreRowClaims
<1>3. CASE Finish
  BY <1>3, FinishClaims
<1>4. CASE Save \/ Interrupt
  <2>1. run.at = "save" => run = [at |-> run.at, b |-> run.b, catalogue |-> run.catalogue,
                                  next |-> run.next, taken |-> run.taken]
    BY DEF MirrorInv, ProcessInv
  <2>2. run'.at \in {"ledger", "down"}
    BY <1>4, <2>1 DEF Save, SaveBinder, SaveLedger, Interrupt, Abandon, CutBinder, CutLedger,
                      NoProcess
  <2> QED
    BY <2>2 DEF ClaimsInv
<1>5. CASE Publish \/ UNCHANGED vars
  <2>1. raw'.stage = raw.stage /\ UNCHANGED <<binderFile, ledgerFile, run>>
    BY <1>5 DEF Publish, vars
  <2>2. Done' = Done /\ ToCome' = ToCome /\ Rows(run.catalogue)' = Rows(run.catalogue)
    BY <2>1 DEF Done, ToCome, Rows
  <2> QED
    BY <2>1, <2>2, StoredStays DEF ClaimsInv
<1> QED
  BY <1>1, <1>2, <1>3, <1>4, <1>5 DEF Next

\* A card more of an identifier for each save cut short, whatever was cut of it.
LEMMA CutsMakeDuplicates ==
    ASSUME MirrorInv, IdsInv
    PROVE  DuplicatesAreOfInterruptions
<1>1. /\ Stored.cards = binderFile.lines /\ SoundCards(Stored.cards) /\ IsBinder(Stored)
  BY LoadIs DEF MirrorInv, FilesInv, Stored
<1>2. ASSUME NEW u \in Cards(Stored), raw.stage.match = "id"
      PROVE  Cardinality({v \in Cards(Stored) : Stored.cards[v].of = Stored.cards[u].of})
                <= 1 + interrupted
  <2> DEFINE i == Stored.cards[u].of
  <2>1. {v \in Cards(Stored) : Stored.cards[v].of = i} = MadeOf(Stored.cards, i)
    BY DEF Cards, MadeOf
  <2>2. i \in FirstIds
    BY <1>1, <1>2 DEF IdsInv, OfFirstIds, Cards
  <2>3. \E aliases : Orphans(Stored.cards, aliases)
    <3>1. CASE run.at # "ledger"
      BY <1>1, <1>2, <3>1 DEF IdsInv
    <3>2. CASE run.at = "ledger"
      BY <1>1, <1>2, <3>2 DEF IdsInv, OwnIds, MirrorInv, SaveInv
    <3> QED
      BY <3>1, <3>2
  <2>4. Cardinality(MadeOf(Stored.cards, i)) \in Nat /\ interrupted \in Nat
    BY <1>1, MadeOfIs DEF MirrorInv, TypeOK
  <2> HIDE DEF i
  <2>5. Cardinality(MadeOf(Stored.cards, i)) <= 1 + interrupted
    BY <2>2, <2>3, <2>4 DEF Orphans
  <2> QED
    BY <2>1, <2>5 DEF i
<1>3. ASSUME NEW u \in Cards(Stored), raw.stage.match = "name"
      PROVE  ByName(Stored, Stored.cards[u].name) = {u}
  <2>1. Stored.byName = {<<Stored.cards[w].name, w>> : w \in DOMAIN Stored.cards}
    BY <1>1 DEF IsBinder, NamesOf
  <2>2. \A v \in DOMAIN Stored.cards : <<Stored.cards[u].name, v>> \in Stored.byName
                                    <=> Stored.cards[u].name = Stored.cards[v].name
    BY <2>1
  <2>3. u \in DOMAIN Stored.cards
    BY <1>3 DEF Cards
  <2> QED
    BY <1>1, <1>3, <2>2, <2>3 DEF ByName, SoundCards
<1> QED
  BY <1>2, <1>3 DEF DuplicatesAreOfInterruptions

LEMMA KeepInvHolds == Spec => []KeepInv
<1>1. Init => KeepInv
  <2>1. Init => run.at = "down"
    BY DEF Init, NoProcess
  <2> QED
    BY <2>1, InitMirrors, InitIds DEF KeepInv, ClaimsInv
<1>2. KeepInv /\ [Next]_vars => KeepInv'
  BY StepMirrors, StepIds, StepClaims DEF KeepInv
<1> QED
  BY <1>1, <1>2, PTL DEF Spec

\* A row keeps the card that the files gave it, unless other rows of the catalogue took
\* all it may claim, and a card is minted twice only where a save was cut short
\* (RowsKeepTheirCards), for any catalogues, changes and interruptions.
THEOREM RowsKeepTheirIdentities == Spec => []RowsKeepTheirCards
<1>1. KeepInv => RowsKeepTheirCards
  BY CutsMakeDuplicates DEF KeepInv, RowsKeepTheirCards
<1> QED
  BY <1>1, KeepInvHolds, PTL
=============================================================================
