---------------------------- MODULE CardIngestion ----------------------------
(***************************************************************************)
(* Card ingestion of one game: build_or_update_card_binder loads the       *)
(* binder, the game's stage stores each row of the raw catalogue in it, and *)
(* save overwrites the binder file and then the ledger file, in place.  A  *)
(* process may raise or be killed anywhere; a file it was writing keeps    *)
(* some of its lines, and maybe part of one more, which no load can parse. *)
(* Which lines a cut file keeps follows the order they were added in; here *)
(* they may be any.                                                        *)
(*                                                                         *)
(* A catalogue is a stage's rows, each its identifiers, name and text, and *)
(* its further prints: identifiers that name the card of another.          *)
(***************************************************************************)
EXTENDS Integers, FiniteSets, Sequences, Functions

CONSTANT Nobody  \* no identity

(***************************************************************************)
(* One game's card binder in memory: its cards by identity, the index from *)
(* names to identities, and the ledger from the identifiers other sources  *)
(* use to identities.  A card is its name, its text (the rest of its       *)
(* content, a number that orders texts by length) and the identifier its   *)
(* provenance names.  Identities are minted in order (uuid4); the Unknown  *)
(* card has one of its own (uuid5).  The version cache is left out: no     *)
(* process that changes a binder reads a version.                          *)
(***************************************************************************)
Unknown == 0
UnknownCard == [name |-> "Unknown", text |-> 0, of |-> "unknown"]

\* The index entry of an identity, if it is held.
NamesOf(cards, uuids) == {<<cards[u].name, u>> : u \in uuids \cap DOMAIN cards}

\* _upsert_card, as create and replace call it.
Upsert(b, u, card) ==
    [cards |-> [v \in DOMAIN b.cards \cup {u} |-> IF v = u THEN card ELSE b.cards[v]],
     byName |-> (b.byName \ NamesOf(b.cards, {u})) \cup {<<card.name, u>>},
     aliases |-> b.aliases]

\* delete, of each of some cards: their aliases are left in the ledger.
Delete(b, uuids) ==
    [cards |-> [v \in DOMAIN b.cards \ uuids |-> b.cards[v]],
     byName |-> b.byName \ NamesOf(b.cards, uuids),
     aliases |-> b.aliases]

\* register_alias, for each of some identifiers.
RegisterAliases(b, ids, u) ==
    [b EXCEPT !.aliases = [i \in DOMAIN @ \cup ids |-> IF i \in ids THEN u ELSE @[i]]]

\* get_by_alias: an alias of a deleted card names nobody.
ByAlias(b, i) ==
    IF i \in DOMAIN b.aliases /\ b.aliases[i] \in DOMAIN b.cards
    THEN b.aliases[i] ELSE Nobody

\* get_by_name.
ByName(b, name) == {u \in DOMAIN b.cards : <<name, u>> \in b.byName}

\* ensure_unknown_card.
EnsureUnknown(b) ==
    IF Unknown \in DOMAIN b.cards THEN b ELSE Upsert(b, Unknown, UnknownCard)

\* load, of the lines of the two files: an alias of no loaded card is skipped.
Load(cards, aliases) ==
    [cards |-> cards,
     byName |-> NamesOf(cards, DOMAIN cards),
     aliases |-> [i \in {i \in DOMAIN aliases : aliases[i] \in DOMAIN cards} |-> aliases[i]]]

(***************************************************************************)
(* The card ingestion stages, one for each game that has cards, as what    *)
(* they do differently.  match: how the stored card of a row is found, by  *)
(* its first identifier, by the first identifier whose card no earlier row *)
(* took, or by its name (which stands for name and set).  merge: which     *)
(* content is kept, the incoming one where it differs or the longer one.   *)
(* deletes: cards no row took go.  missing: what a further print of a card *)
(* the binder has not got does.                                            *)
(***************************************************************************)
Stage(match, merge, deletes, missing) ==
    [match |-> match, merge |-> merge, deletes |-> deletes, missing |-> missing]

\* A row is an oracle card; arena, mtgo and gatherer identifiers are its further
\* identifiers, and names printed on only one card its further prints.
Scryfall == Stage("id", "differing", FALSE, "passedOver")

\* A row is an English print; prints in other languages are further prints.
CardvaultFabtcg == Stage("id", "differing", FALSE, "raises")

\* A row is a card, by the site's identifier or tag; there are no further prints.
GwentOne == Stage("id", "differing", FALSE, "passedOver")
SpireCodex == Stage("id", "differing", FALSE, "passedOver")
Dominiontabs == Stage("id", "differing", FALSE, "passedOver")

\* A row is a printing of a name in a set.
PokemonTcg == Stage("name", "longer", FALSE, "passedOver")

\* A row is a group of printings that are one card, its identifiers theirs.
Tcgjson == Stage("group", "differing", TRUE, "passedOver")
Hearthstonejson == Stage("group", "differing", TRUE, "passedOver")

Stages ==
    {Scryfall, CardvaultFabtcg, GwentOne, SpireCodex, Dominiontabs, PokemonTcg,
     Tcgjson, Hearthstonejson}

-----------------------------------------------------------------------------
CONSTANTS
    Catalogues,       \* what the sources may publish: [stage, rows, prints]
    MaxChanges,       \* bound: changes upstream
    MaxInterruptions  \* bound: saves cut short

VARIABLES
    raw,          \* the downloaded catalogue
    binderFile,   \* {game}.jsonl: the lines that parse, and whether one does not
    ledgerFile,   \* {game}.alias_ledger.jsonl, likewise
    run,          \* the ingestion process
    built,        \* history: the catalogue the files are a finished build of
    changes,      \* history: changes upstream
    interrupted   \* history: saves cut short

vars == <<raw, binderFile, ledgerFile, run, built, changes, interrupted>>

Rows(c) == Range(c.rows)

\* The rows of one card: a group's only row, the rows of one first identifier,
\* the rows of one name.
SameCard(match, r, s) ==
    CASE match = "group" -> r = s
      [] match = "id" -> r.ids[1] = s.ids[1]
      [] match = "name" -> r.name = s.name

\* What the raw files and the stages' own grouping guarantee of a catalogue.
WellFormed(c) ==
    /\ c.stage \in Stages /\ IsFiniteSet(c.prints)
    /\ c.rows # <<>> /\ c.rows \in Seq(Rows(c))
    /\ \A r \in Rows(c) : r.ids # <<>> /\ r.ids \in Seq(Range(r.ids))
    /\ \A r \in Rows(c) : r.text \in Nat /\ r.name # UnknownCard.name
    /\ \A r, s \in Rows(c) :
        Range(r.ids) \cap Range(s.ids) # {} => SameCard(c.stage.match, r, s)
    /\ c.stage.match = "group" =>
        \A j, k \in DOMAIN c.rows : c.rows[j] = c.rows[k] => j = k
    /\ \A p \in c.prints :
        /\ ~c.stage.deletes
        /\ \A r \in Rows(c) : p.id \notin Range(r.ids)
        /\ \A q \in c.prints : p.id # q.card /\ (p.id = q.id => p = q)

\* An identifier of a card is never a further identifier, or print, of another.
FirstIdentifiersAreApart(c, d) ==
    \A s \in Rows(d) :
        /\ \A r \in Rows(c) : \A k \in DOMAIN r.ids \ {1} : r.ids[k] # s.ids[1]
        /\ \A p \in c.prints : p.id # s.ids[1]

ASSUME CardAssumption ==
    /\ \A c \in Catalogues : WellFormed(c)
    /\ \A c, d \in Catalogues : c.stage.match = "id" => FirstIdentifiersAreApart(c, d)
    /\ Nobody \notin Nat
    /\ MaxChanges \in Nat /\ MaxInterruptions \in Nat

NoProcess == [at |-> "down"]
NoLines == [lines |-> <<>>, torn |-> FALSE]
NeverBuilt == [stage |-> raw.stage, rows |-> <<>>, prints |-> {}]

Init ==
    /\ raw \in Catalogues
    /\ binderFile = NoLines /\ ledgerFile = NoLines
    /\ run = NoProcess /\ built = NeverBuilt
    /\ changes = 0 /\ interrupted = 0

\* The binder the files make.
Stored == Load(binderFile.lines, ledgerFile.lines)

-----------------------------------------------------------------------------
(* A stage's row *)

\* Mutant of ExistingCards: every stage looks a row up by its first identifier.
ExistingOfFirst(b, r, taken) == {ByAlias(b, r.ids[1])} \ {Nobody}

\* Mutant of ExistingCards: a group takes a card an earlier group took.
ExistingOrTaken(b, r, taken) ==
    IF raw.stage.match = "name" THEN ByName(b, r.name)
    ELSE LET held == {k \in DOMAIN r.ids : ByAlias(b, r.ids[k]) # Nobody}
         IN {ByAlias(b, r.ids[k]) : k \in {k \in held : \A j \in held : k <= j}}

\* The stored cards a row may update, of the binder b and the cards taken.
ExistingCards(b, r, taken) ==
    CASE raw.stage.match = "id" -> {ByAlias(b, r.ids[1])} \ {Nobody}
      [] raw.stage.match = "name" -> ByName(b, r.name)
      [] raw.stage.match = "group" ->
            LET Free(k) == ByAlias(b, r.ids[k]) \notin taken \cup {Nobody}
            IN {ByAlias(b, r.ids[k]) :
                    k \in {k \in DOMAIN r.ids : Free(k) /\ \A j \in 1..(k-1) : ~Free(j)}}

CardOfRow(r) == [name |-> r.name, text |-> r.text, of |-> r.ids[1]]

\* keep_longer_content, or keep_incoming_if_content_differs.
Merged(old, r) ==
    IF \/ raw.stage.merge = "longer" /\ r.text <= old.text
       \/ raw.stage.merge = "differing" /\ r.text = old.text /\ r.name = old.name
    THEN old ELSE CardOfRow(r)

\* An identity uuid4 has not made, of those that still matter: the least that
\* neither the process nor a file has.
Fresh(b) ==
    LET used == {Unknown} \cup DOMAIN b.cards \cup Range(b.aliases)
                  \cup DOMAIN binderFile.lines \cup Range(ledgerFile.lines)
    IN CHOOSE u \in 1..Cardinality(used) : u \notin used

\* The binder after row r is stored as the card u.
StoredRow(b, r, u) ==
    RegisterAliases(
        Upsert(b, u, IF u \in DOMAIN b.cards THEN Merged(b.cards[u], r) ELSE CardOfRow(r)),
        Range(r.ids), u)

-----------------------------------------------------------------------------
(* A process *)

\* build_or_update_card_binder loads what exists; a line that does not parse raises.
Start ==
    /\ run.at = "down"
    /\ ~binderFile.torn /\ ~ledgerFile.torn
    /\ run' = [at |-> "rows", b |-> Stored, catalogue |-> raw, next |-> 1, taken |-> {}]
    /\ UNCHANGED <<raw, binderFile, ledgerFile, built, changes, interrupted>>

\* _ingest_row, or _store_group.
StoreRow ==
    /\ run.at = "rows" /\ run.next <= Len(run.catalogue.rows)
    /\ LET r == run.catalogue.rows[run.next]
           existing == ExistingCards(run.b, r, run.taken)
       IN \E u \in IF existing = {} THEN {Fresh(run.b)} ELSE existing :
            run' = [run EXCEPT !.b = StoredRow(@, r, u), !.next = @ + 1,
                               !.taken = @ \cup {u}]
    /\ UNCHANGED <<raw, binderFile, ledgerFile, built, changes, interrupted>>

\* The binder after the stage's last pass: prints are registered, of the cards
\* they name.
WithPrints(b, prints) ==
    LET named == {p \in prints : ByAlias(b, p.card) # Nobody}
    IN [cards |-> b.cards, byName |-> b.byName,
        aliases |-> [i \in DOMAIN b.aliases \cup {p.id : p \in named} |->
            IF \E p \in named : p.id = i
            THEN ByAlias(b, (CHOOSE p \in named : p.id = i).card) ELSE b.aliases[i]]]

\* The stage ends (_delete_untaken_cards) and ensure_unknown_card runs.  A print
\* of no card raises in cardvault_fabtcg (Abandon), and is passed over in scryfall.
Finish ==
    /\ run.at = "rows" /\ run.next > Len(run.catalogue.rows)
    /\ raw.stage.missing = "raises" =>
        \A p \in run.catalogue.prints : ByAlias(run.b, p.card) # Nobody
    /\ LET untaken == DOMAIN run.b.cards \ (run.taken \cup {Unknown})
           kept == IF raw.stage.deletes THEN Delete(run.b, untaken) ELSE run.b
       IN run' = [run EXCEPT !.at = "save",
                    !.b = EnsureUnknown(WithPrints(kept, run.catalogue.prints))]
    /\ UNCHANGED <<raw, binderFile, ledgerFile, built, changes, interrupted>>

\* save: the binder file,
SaveBinder ==
    /\ run.at = "save"
    /\ binderFile' = [lines |-> run.b.cards, torn |-> FALSE]
    /\ run' = [run EXCEPT !.at = "ledger"]
    /\ built' = NeverBuilt
    /\ UNCHANGED <<raw, ledgerFile, changes, interrupted>>

\* then its ledger, with the aliases of deleted cards.
SaveLedger ==
    /\ run.at = "ledger"
    /\ ledgerFile' = [lines |-> run.b.aliases, torn |-> FALSE]
    /\ built' = run.catalogue
    /\ run' = NoProcess
    /\ UNCHANGED <<raw, binderFile, changes, interrupted>>

\* The process raises or is killed before it saves anything.
Abandon ==
    /\ run.at = "rows"
    /\ run' = NoProcess
    /\ UNCHANGED <<raw, binderFile, ledgerFile, built, changes, interrupted>>

\* Files that hold some of what was being written.
CutOf(f) ==
    {[lines |-> [x \in kept |-> f[x]], torn |-> torn] :
        kept \in SUBSET DOMAIN f, torn \in BOOLEAN}

\* Or it is killed while it writes the binder file,
CutBinder ==
    /\ run.at = "save" /\ interrupted < MaxInterruptions
    /\ binderFile' \in CutOf(run.b.cards)
    /\ run' = NoProcess /\ built' = NeverBuilt
    /\ interrupted' = interrupted + 1
    /\ UNCHANGED <<raw, ledgerFile, changes>>

\* or between the two, or while it writes the ledger.
CutLedger ==
    /\ run.at = "ledger" /\ interrupted < MaxInterruptions
    /\ ledgerFile' \in CutOf(run.b.aliases) \cup {ledgerFile}
    /\ run' = NoProcess
    /\ interrupted' = interrupted + 1
    /\ UNCHANGED <<raw, binderFile, built, changes>>

\* The source publishes another catalogue, and it is downloaded.
Publish ==
    /\ changes < MaxChanges
    /\ raw' \in {c \in Catalogues : c.stage = raw.stage /\ c # raw}
    /\ changes' = changes + 1
    /\ UNCHANGED <<binderFile, ledgerFile, run, built, interrupted>>

Save == SaveBinder \/ SaveLedger
Interrupt == Abandon \/ CutBinder \/ CutLedger
Next == Start \/ StoreRow \/ Finish \/ Save \/ Interrupt \/ Publish

Spec == Init /\ [][Next]_vars

-----------------------------------------------------------------------------
(* Properties *)

Cards(b) == DOMAIN b.cards \ {Unknown}

\* What a card must hold after a row of the catalogue: a later row of the same
\* card may have replaced it, and the longer text is kept.
HoldsRow(card, r, rows) ==
    IF raw.stage.merge = "longer" THEN card.name = r.name /\ card.text >= r.text
    ELSE \E s \in rows : SameCard(raw.stage.match, r, s) /\ card.name = s.name /\ card.text = s.text

\* Each row's identifiers all name its card, no other row's, with its content.
HoldsRows(b, rows) ==
    /\ \A r \in rows :
        /\ \A i \in Range(r.ids) : ByAlias(b, i) = ByAlias(b, r.ids[1])
        /\ ByAlias(b, r.ids[1]) \in Cards(b)
        /\ HoldsRow(b.cards[ByAlias(b, r.ids[1])], r, rows)
    /\ \A r, s \in rows :
        ByAlias(b, r.ids[1]) = ByAlias(b, s.ids[1]) <=> SameCard(raw.stage.match, r, s)

\* b is what ingesting these rows promises: it holds them, a print of a card names
\* that card, a stage that deletes leaves no card but theirs, and the Unknown card
\* is there.
Mirrors(b, rows, prints) ==
    /\ Unknown \in DOMAIN b.cards
    /\ HoldsRows(b, rows)
    /\ \A p \in prints : p.card \in DOMAIN b.aliases => ByAlias(b, p.id) = ByAlias(b, p.card)
    /\ raw.stage.deletes => Cards(b) = {ByAlias(b, r.ids[1]) : r \in rows}

TypeOK ==
    /\ raw \in Catalogues
    /\ run.at \in {"down", "rows", "save", "ledger"}
    /\ binderFile.torn \in BOOLEAN /\ ledgerFile.torn \in BOOLEAN
    /\ changes \in 0..MaxChanges /\ interrupted \in 0..MaxInterruptions

\* What a process is about to save mirrors its catalogue, whatever earlier
\* processes left in the files; and while nobody has cut a save since the last
\* finished one, so does what the two files load as.  The name index is of the
\* cards held.
BinderMirrorsCatalogue ==
    /\ TypeOK
    /\ run.at = "save" => Mirrors(run.b, Rows(run.catalogue), run.catalogue.prints)
    /\ built.rows # <<>> => Mirrors(Stored, Rows(built), built.prints)
    /\ run.at # "down" => run.b.byName = NamesOf(run.b.cards, DOMAIN run.b.cards)

\* What makes it inductive.  Cards: only one has the name of the Unknown card, and no
\* two of them have a name where rows are found by it.  Aliases name cards other than
\* the Unknown one, and where rows are found by their first identifier two of those
\* name two cards.
FirstIds == UNION {{r.ids[1] : r \in Rows(c)} : c \in {c \in Catalogues : c.stage = raw.stage}}

SoundCards(cards) ==
    /\ IsFiniteSet(DOMAIN cards) /\ DOMAIN cards \subseteq Nat
    /\ \A u \in DOMAIN cards : cards[u].text \in Nat
    /\ \A u \in DOMAIN cards : u = Unknown <=> cards[u].name = UnknownCard.name
    /\ Unknown \in DOMAIN cards => cards[Unknown] = UnknownCard
    /\ raw.stage.match = "name" =>
        \A u, v \in DOMAIN cards : cards[u].name = cards[v].name => u = v

SoundAliases(aliases) ==
    /\ IsFiniteSet(DOMAIN aliases)
    /\ \A i \in DOMAIN aliases : aliases[i] \in Nat \ {Unknown}
    /\ raw.stage.match = "id" =>
        \A i, j \in FirstIds \cap DOMAIN aliases : aliases[i] = aliases[j] => i = j

IsBinder(b) ==
    b = [cards |-> b.cards, byName |-> NamesOf(b.cards, DOMAIN b.cards), aliases |-> b.aliases]

FilesInv == SoundCards(binderFile.lines) /\ SoundAliases(ledgerFile.lines)

\* A process holds such cards and aliases, and of those that are not deleted by its
\* stage every alias names one.
ProcessInv == run.at # "down" =>
    /\ run = [at |-> run.at, b |-> run.b, catalogue |-> run.catalogue,
              next |-> run.next, taken |-> run.taken]
    /\ IsBinder(run.b)
    /\ run.catalogue \in Catalogues /\ run.catalogue.stage = raw.stage
    /\ run.next \in 1..(Len(run.catalogue.rows) + 1)
    /\ SoundCards(run.b.cards) /\ SoundAliases(run.b.aliases)
    /\ ~raw.stage.deletes => Range(run.b.aliases) \subseteq DOMAIN run.b.cards

\* It has taken the cards of the rows it has stored, and saves what mirrors them all.
Done == {run.catalogue.rows[j] : j \in 1..(run.next - 1)}

RowsInv == run.at = "rows" =>
    /\ HoldsRows(run.b, Done)
    /\ run.taken = {ByAlias(run.b, r.ids[1]) : r \in Done}

SaveInv ==
    /\ run.at \in {"save", "ledger"} =>
        Mirrors(run.b, Rows(run.catalogue), run.catalogue.prints)
    /\ run.at = "ledger" => binderFile.lines = run.b.cards /\ built.rows = <<>>
    /\ built.rows # <<>> => Mirrors(Stored, Rows(built), built.prints)

MirrorInv == TypeOK /\ FilesInv /\ ProcessInv /\ RowsInv /\ SaveInv

\* The stored cards a row may claim as its own.
Claims(b, r) ==
    CASE raw.stage.match = "id" -> {ByAlias(b, r.ids[1])} \ {Nobody}
      [] raw.stage.match = "name" -> ByName(b, r.name)
      [] raw.stage.match = "group" -> {ByAlias(b, i) : i \in Range(r.ids)} \ {Nobody}

\* A stage that finds cards by identifier leaves one card more of an identifier
\* for each save that was cut short, and no other stage leaves any.
DuplicatesAreOfInterruptions ==
    \A u \in Cards(Stored) :
        LET card == Stored.cards[u]
        IN /\ raw.stage.match = "id" =>
                Cardinality({v \in Cards(Stored) : Stored.cards[v].of = card.of})
                    <= 1 + interrupted
           /\ raw.stage.match = "name" => ByName(Stored, card.name) = {u}

\* Decks name cards by identity: a row that the files it was loaded from gave
\* a card to keeps it, unless other rows of the catalogue took all it may claim;
\* and a card is minted again, beside the one decks name, only where a cut
\* ledger lost its alias.
KeepsCards(b, rows) == \A r \in rows :
    LET claims == Claims(Stored, r)
    IN claims # {} =>
        \/ ByAlias(b, r.ids[1]) \in claims
        \/ claims \subseteq {ByAlias(b, s.ids[1]) : s \in rows}

RowsKeepTheirCards ==
    /\ run.at = "save" => KeepsCards(run.b, Rows(run.catalogue))
    /\ DuplicatesAreOfInterruptions

\* What makes it inductive.  Where rows are found by their first identifier: an
\* alias of one names a card that was made of it, and a card no alias names was
\* left by an interruption.
OwnCards(cards, aliases) == \A i \in FirstIds \cap DOMAIN aliases :
    aliases[i] \in DOMAIN cards => cards[aliases[i]].of = i

MadeOf(cards, i) == {u \in DOMAIN cards \ {Unknown} : cards[u].of = i}

Orphans(cards, aliases) == \A i \in FirstIds :
    Cardinality(MadeOf(cards, i)) <=
        interrupted + (IF i \in DOMAIN aliases /\ aliases[i] \in DOMAIN cards THEN 1 ELSE 0)

OfFirstIds(cards) == \A u \in DOMAIN cards \ {Unknown} : cards[u].of \in FirstIds

OwnIds(b) ==
    /\ OfFirstIds(b.cards)
    /\ OwnCards(b.cards, b.aliases) /\ OwnCards(b.cards, ledgerFile.lines)
    /\ Orphans(b.cards, b.aliases)

IdsInv == raw.stage.match = "id" =>
    /\ OfFirstIds(binderFile.lines) /\ OwnCards(binderFile.lines, ledgerFile.lines)
    /\ run.at # "ledger" => Orphans(binderFile.lines, ledgerFile.lines)
    /\ run.at # "down" => OwnIds(run.b)

\* What the process has made so far of what it loaded: first identifiers name the
\* cards they named, cards have the names they had, and the groups it has stored have
\* theirs, the others' identifiers naming what they did.
NamedStay(b) == \A i \in FirstIds :
    ByAlias(Stored, i) # Nobody => ByAlias(b, i) = ByAlias(Stored, i)

NamesStay(b) == \A u \in DOMAIN Stored.cards :
    u \in DOMAIN b.cards /\ b.cards[u].name = Stored.cards[u].name

GroupsClaim(b, done, taken) == \A r \in done :
    ByAlias(b, r.ids[1]) \in Claims(Stored, r) \/ Claims(Stored, r) \subseteq taken

ToCome == {run.catalogue.rows[j] : j \in run.next..Len(run.catalogue.rows)}

ClaimsStay(b, rows) == \A r \in rows : \A i \in Range(r.ids) : ByAlias(b, i) = ByAlias(Stored, i)

ClaimsInv ==
    /\ raw.stage.match = "id" /\ run.at \in {"rows", "save"} => NamedStay(run.b)
    /\ raw.stage.match = "name" /\ run.at \in {"rows", "save"} => NamesStay(run.b)
    /\ raw.stage.match = "group" /\ run.at = "rows" =>
        GroupsClaim(run.b, Done, run.taken) /\ ClaimsStay(run.b, ToCome)

KeepInv ==
    /\ MirrorInv /\ IdsInv /\ ClaimsInv
    /\ run.at = "save" => KeepsCards(run.b, Rows(run.catalogue))
=============================================================================
