# TLA+ models of TradingCardGameEmbeddings

Specifications, model-checking runs and machine-checked proofs of the parts of
the repository that keep state between calls: threads that share it, files that
outlive a process, runs that go on after failures; and of the pure parts whose
mistakes no test would show, the dojos' examples and the parsing of game logs.
Paths below are relative to the repository's root; `PROJECT.json` writes them
with the checkout's `src/` in front.

Run a configuration with `tlc -config MCTrainer.cfg MCTrainer.tla`, and check proofs
with `tlapm` on any of the modules that hold them: `PrefetchingProofs`,
`FeatureCacheProofs`, `TrainingProofs`, `RetrievalProofs`, `CardIngestionProofs`,
`DeckBoxProofs`, `MetricProofs`.

## 1. The system and its parts

The repository trains a model that embeds trading cards. Data moves in one
direction, `data_retrieval` -> `data_refinement` -> `dojos` -> `training`. The
parts that keep state, or decide what training is shown, and how they meet:

| Part | State | Operations | Meets |
|---|---|---|---|
| Batch feed (`src/training/diet/batch_feed.py`, `prefetching_batch_streams.py`) | the round's unused steps, built steps, the step in flight, leftovers per dojo, reservations; one worker thread | `start`, `begin_round`, `next_batch`, `reschedule`, `end_round`, `close`; the worker's loop | called by the trainer; draws from dojos; reserves cards in the feature cache |
| Feature cache (`src/encoder_model/feature_cache/`) | per tier rows and pins, a policy's record of what is held, outstanding reservations; a SQLite file | `features`, `reserve`, `release`, `close`; per tier `lookup`, `put_many`, `pin`, `unpin` | called by the trainer's and the worker's thread; several processes share the file |
| Training run (`src/training/trainer.py`) | phase, round, the list of steps, loss scale, best checkpoint | `run`, and the round and step beneath it | fault ledger, saturation tracker, diet, batch feed, checkpointer, listener |
| Fault ledger, saturation tracker (`src/training/diet/`) | failures counted, dojos quarantined; each dojo's best loss and stagnation | `record_failure`, `record_success`, `gave_up`; `record_round`, `phase_done` | decide what the trainer still trains |
| Diets (`src/training/diet/table_diet.py`, `drop_table.py`) | the drop table of the dojos that are active | `draw`, `trainable`, the promised shares | asked for every round's schedule |
| Checkpointer (`src/training/recording/checkpointer.py`) | checkpoint directories, the best of each phase | `save`, `save_latest` | called by the trainer |
| Run recording (`src/training/recording/`, `scripts/run_training.py`) | a run directory with its tables; a sampling thread | the run from its config to its end; `on_round`, `on_checkpoint`, `start`, `stop` | beside the trainer; reads the cache's counters |
| Binder mods (`src/training/binder_mods.py`) | a directory of modded binders with a stamp | load or bake, save | shared by the arms of an experiment |
| Resumable crawl (`src/data_retrieval/resumable_crawl/`) | cursor, shards, rejects, all on disk; the memory of one session | `walk` and the file operations under it | a site that answers anything; an operator who starts sessions again |
| Downloaders (`src/data_retrieval/`) | per site a data file, a manifest or cursor, a list of failures, whole files, archives, pages | one session: list what is missing, fetch, store, retry, give up | sites that fail, change and answer nonsense; an operator who runs them again; read by refinement |
| Card binder and alias ledger (`src/data_refinement/card_binder/`) | cards by uuid, aliases by uuid, two files overwritten in place | a game's ingestion: `load`, match, merge, delete, `save` | read by everything after it; uuids are what decks name |
| Deck box (`src/data_refinement/deck_box/`) | decks and their cards in SQLite, written in batched transactions; a version stamp per game | `create_if_absent`, `replace_all`, `save`, `load`, `close` | the extraction stages of a game's sources; snapshots |
| Snapshots and stamped caches (`snapshots/`, `dojos/file_managers/deck_split_index.py`, `teacher/teacher_cache.py`) | files with a stamp of their sources | build and replace, or open | read the box while ingestion writes it; opened by training |
| Metric families (`scripts/run_metrics.py`, `data_refinement/metrics/`) | one output file per metric and raw file, a deck box of the family's own; the binder version in both | a family's run: scan, `accumulate`, `finalize`, `save` of the box | reads the raw data and the binder; stores decks in the box or looks them up; run again by an operator |
| Game logs of Dominion (`metrics/isotropic/games/`) | none | parse a file, rebuild decks turn by turn | rows of four metrics |
| Dojos and file managers (`src/dojos/`) | a slice file joined from partitions, three split files; a reader's place in a split; the group under way | open: build or reuse the slice, check versions, make or reuse the splits; `batches` | open the metrics while they may be rewritten; feed the trainer |

What is hard here: two threads under one condition variable with calls made
outside it (batch feed, feature cache); a thread beside the main one that shares its
tables (recording); a process that dies anywhere (crawl, checkpointer, SQLite store,
downloaders, binder, deck box); processes that write one place or read what another
is rebuilding (binder mods, run directories, snapshots and the caches cut from them,
slices and splits of metrics); counters and caches judged stale or full (SQLite store,
slot policies, stamped caches, drop tables); sequences of failures that must end in a
stop rather than a spin (trainer, crawl, downloaders); and combinations, of dojos with
mods or of lines in a log, that no test enumerates. The `hazards` of `PROJECT.json`
name each at its line, with the properties that would catch it.

What makes each part correct, in a sentence: the feed answers as if there were
no worker, and every pin it takes is given back; a tier never evicts what is
pinned and never mixes up rows; a run trains only what it should, in the shares its
diet promises, stops when it must, and keeps the best it recorded; a checkpoint on
record is on disk, whole; a run directory tells one run's story; arms that share
modded cards train on what the stamp says; a crawl's cursor never runs ahead of its
data and always reaches the end; a downloader loses, repeats or leaves half-written no
more than its faults explain, and gets what the site has in the end; a binder mirrors
its catalogue and never gives a card's identity to another; a box never holds half of a
call, nor a stamp beside decks it was not written for; what training opens is what the
box held; a metric a dojo accepts is what the raw rows say under the current binder, and
a family that is run again gets there whatever stopped it before; an example neither
gives its answer away nor carries a label its mods made false, and a pass deals each
one once.

## 2. The modules

`MC*` modules give constants their values, and put parts that have nothing to do with
each other side by side in one run: a behaviour is about one part, named by a variable
(`part`, `tier`), and the others stay where they started. The properties are those of
the parts' own modules.

### Training

**BatchFeed** is what a feed promises, and is the code of `DirectBatchFeed`: the
dojo asked for answers with the next position of its stream, in the schedule's
order; a build that raises uses its position up. A step is its dojo, its
position and whether building it fails (`Failing`).

**PrefetchingBatchStreams** is the worker-thread feed. A step of the module is
one critical section of `_condition` or one call made outside it; waiting is
explicit (`asleep`, emptied only by `NotifyAll`), so a forgotten notification
would be seen. Fields map one to one (`pending` is `_pending`, `ready` is
`_ready`, `inFlight` is `_in_flight`, and so on); `worker` and `consumer` are the
two threads' places in the code; `outstanding` is what the cache has pinned for
this feed, and `delivered` records what `next_batch` answered. `Feed` maps it to
`BatchFeed`: only the round's openness needs a mapping, because a round that
`end_round` is waiting on is over for the trainer. **PrefetchingProofs** holds its
theorems.

**SlotPolicies** gives the policies (`FillUntilFull`, FIFO, LRU, LFU and the
second-offer filter around any of them) as operators on a policy record. All
evicting policies are a sequence of buckets, one bucket for FIFO and LRU and one
per number of hits for LFU. **FeatureSlab** is `TensorFeatureSlab` with such a
policy: rows handed out from a stack of released ones and then from unused ones,
pins as counts, and `content`, a label for what was written into each row. A put
takes the decision's evicted keys' rows back (`Vacated`), claims rows for the admitted
keys one by one (`ClaimRows`) and writes them, or refuses the decision (`CarryOut`).

**TierContract** counts rows, says in one operator what a put into a tier may do, and
**FeatureTier** makes a specification of it. FeatureSlab implements FeatureTier
(`TierSpec`), and **FrozenFeatureCache**, the cache over a chain of tiers, is
built on the same operator. That is how the two are composed: the cache is
checked with every behaviour the contract allows, each slab with every behaviour
its policy has. In the cache, a tier's operation is one step (it holds that
tier's lock), so the calls of two threads interleave between tiers and around
the encoding, which holds no lock. **SqliteFeatureStore** is the disk tier in
detail: several processes on one file, each with the row count it took when it first
opened the file, `put_many` statement by statement, statements that fail, processes
that end. **FeatureCacheProofs** proves the cache, the slab and the disk tier.

**Trainer** holds the fault ledger and the saturation tracker's tracks as records with
operators on them, and is the run: `OpenPhase`, `BeginRound`, `AttemptStep`
(outcome of the step, loss scale, ledger, and the redraw of the rest of the round
when the diet changed), `FeedDies`, `GiveUp`, `EvaluateRound`. It carries the
trainer's own list of steps and the feed's side by side, since the code keeps
both. A behaviour has one `setting` (plan, possible outcomes, possible failures).
**TrainingProofs** holds its theorems, and those of the checkpointer, of the baked
binders and of the run directories.

**Diets** is what decides which dojo a step is of: a rule becomes a drop table of the
dojos that are active and have examples, a table in a table where a row names several;
a dojo is drawn by walking it; the sampler keeps the table while the active dojos stay
the same; and the shares of the preflight are computed beside it. Shares are parts of a
whole (`Whole`), a multiple of all the weights that occur, so that no share is rounded.

**DirectoryCheckpointer** is `save` and `save_latest` in the order the trainer
calls them at the end of each round, with writing, deleting (in two steps, since
`rmtree` can stop half way and its errors are ignored) and renaming each free to
fail, and a process that may die at any step.

**TrainingRuns** is a run of `scripts/run_training.py` from its config to its end:
`ReadConfig`, `Preflight`, `CreateRunDirectory`, the copies, the listener's header, the
sampler's thread, steps, rounds with their appends, the `finally` that stops the
sampler and the cache that closes after it. Several runs may be given one directory,
any append may fail or be cut short, any step may raise, any run be killed. A row
written after a cut one runs into its line, and ends it. A report's rows are one row.

**BinderBakes** is the directory of modded binders that an experiment's arms share:
an arm reads the stamp and then each data file, or bakes the clean binder and moves
the three files into place one by one; the clean binder may be ingested again.

### Retrieval

**ResumableCrawl** starts with the order in which a crawl visits ids (the sitemap's,
then a permutation of `1..n` by a stride, slots of ids visited already skipped), as
operators, and is `walk` over it: each file operation whose order matters is a step,
and a session may die between any two and in the middle of an append. The next session
starts from the files alone.

**Downloads** describes each downloader that fetches item after item by what
distinguishes its session (how it records what is done: manifest line, file name,
digest; how it stores; what it refuses; what it forgives), and is one session after
another of any of these sites: the listing of what is left, each attempt, the data
append and the manifest append as two steps, a download written under its final name
and removed on an exception, outages, full disks and the death of the process between
or inside any of these.

**BulkDownloads** is the same for those of whole files and archives (scryfall,
pokemon_tcg, mtgjson_decks, gwent_one, cardvault_fabtcg, dominiontabs, spire_codex's
cards): a session fetches everything the site lists, while the site moves on to newer
contents; mtgjson's archive is checked against its digest and the build's name, archives
are unpacked member by member, and builds are marked complete. A file is the version of
the contents it holds, all or part of it. A site publishes its contents and their
`Meta.json` at once and answers a request from one version; a `Meta.json` cut short
marks a build as done all the same. **RunExport** is the paged export of spire_codex:
pages in a chain, each with a sidecar that holds the next cursor, a window of time, and
callers that ask for another. The runs of a window do not change, and the site refuses
a cursor that was cut; the request for a progress bar's total is left out.

**RetrievalProofs** holds the theorems of these four modules and of `MCRetrieval`,
which runs the three kinds of downloaders and a crawl side by side.

### Refinement

**CardIngestion** is the binder as a function from uuids to cards with its operations
(`Upsert`, `Delete`, `RegisterAliases`, the look-ups by alias and name, `Load`), says for
each game's stage how a row is recognised again (`ExistingCards`: by the source's
identifier, by name, by a group of printings), how it changes the card it finds
(`Merged`), whether the stage deletes and what it records as aliases, and runs the stages
over catalogues that change between runs, with `save` as the writes it makes and an
interruption after any of them. What makes its properties inductive (`MirrorInv`,
`KeepInv`) is defined beside them; **CardIngestionProofs** proves them.

**DeckBox** is a deck box on its file: one connection, the open transaction, the
calls counted since the last commit, the committed decks and stamps, the error
after which the box refuses everything (`DeckBatchLostError`), the kill.
**DeckIngestion** EXTENDS it with the sources that write decks and is the ingestion
process over a game's sources. **TrainingSnapshots** EXTENDS DeckIngestion with the
processes that read the box: the builder of the deck and card snapshots, trainers that
open them, the split index and the teacher's table cut from them. Every step of it is a
step of the box or leaves the box alone, which **DeckBoxProofs** proves.

**MetricKinds** lists the metrics of `data_refinement/metrics/` by what they do with
a row (put decks into the box, look decks up, write rows that name decks) and how
they write their output (open from the start, or at the end), the scans by what
they forgive, and the families of `run_metrics.py`. **MetricFamilies** EXTENDS DeckBox
with the process that runs one family: passes, rows, each metric's calls of the
box statement by statement, `call_isolated`, finalization, the box saved after the
last pass (with its backup where it is a box in memory), and every way this stops
early. **MetricSplits** adds the dojos that open the family's first output:
`SeventeenLandsSliceFile.build` step by step (fingerprint, versions, each partition,
the replacement), `_check_metric_version`, and `FileManagerParquet`'s splits (partial
files, deletion of the old ones, three renames). A deck is known by its cards there,
and the published box is ingested in one step (DeckIngestion has the steps); reading
the versions of all partitions is one step too. **MetricProofs** proves both.

**DominionLogs** is the parsing of a game log as operators: the header, a line into
what it tells (whose, which verb, which cards, singular or plural), turns, the deck
each player is known to have before each turn, and the rows of the metrics made of
them. **DominionGames** plays games and writes their logs, keeping what the log does not
tell (the true decks and deeds), against which the rows are compared. The site and the
game are not code of the repository: the actions are the line shapes the parsers'
docstrings confirm, and marked external. A card's name is a stem and an ending. Left
out: names that are ambiguous, lines of shapes the parsers do not know other than
returning a card, extra turns, and the replacement of a gain by Trader.

### Dojos

**CardMods** gives every mod as the SET of what it may make of an example. A shown card
is the card, the fields of it that can still be read (`"answer"`, `"tell"`, `"other"`),
whether its keys or words were changed, and whether its text may be cached. **DojoKinds**
gives what each kind of dojo makes of a row, with the tiers of the holdout
(`CardsFor`), and **DojoCatalog** the dojos themselves and what a run may name. A dojo
stands for those that differ only in table, game or loss. **DojoBatches** is a dojo at
work: chunks, examples, mods, groups within the budget (`group_by_budget`), and the
passes of a `DojoBatchStream`. Cards cost 1 or 2, labels are numbers that stand for
what they name, positions count from 1. A row without a pick is a declined card reward
only, and a row of rarities is of a game whose translator has a ladder, as the metrics
write them. **ContrastiveBatches** deals decks in samples, builds cliques in each of the
styles and compares every unit with its own and the other cliques; mods change texts
only there, so cards tell what is shown.

## 3. The runs

| Run | What it asks | Instance |
|---|---|---|
| `MCPrefetchingBatchStreams` | Does the feed answer as the direct feed would (`FeedSpec`)? Is what is built what the schedule asks for (`BuiltFollowsSchedule`)? Has every pin exactly one owner (`PinsAccounted`)? Is the worker quiet between rounds and gone after close (`QuietBetweenRounds`)? Does every call return, and do the pins left after `end_round` go (`FeedSettles`)? | 2 dojos, 3 schedules of up to 3 steps that share a prefix, differ or swap, depth 2, 2 rounds, 2 reschedules, 2 failing positions, a worker that may die; under `FairSpec`: 434,570 states |
| `MCFeatureTiers` | Does the slab lose no row and its policy agree with it (`PolicyAgreesWithSlab`), does it implement the contract (`TierSpec`)? How far do stale counts overfill a row set on disk, and do they turn anything away that has room (`StaleCountsErrBoundedly`)? Do the pins equal the reservations and calls under way, through failing reserves and double releases (`PinsMatchReservations`)? Does a reserved card stay warm (`ReservedStaysWarm`)? | in memory 4 rows, keys of 1, 2 and 2 rows under every policy; on disk 2 processes, capacity 3, keys of 1, 2, 2 and 3 rows offered in every order; the cache with 2 threads, memory tiers of 2 and 3 rows and a disk of 1, the same keys in overlapping batches, one stamped card: 528,396 states |
| `MCTrainer` | Do trainer and feed agree on the round and is there always something to train (`FeedAgrees`), is a hopeless dojo dropped (`BrokenDojoIsDropped`)? Does only stagnation saturate (`SaturationIsStagnation`)? Is what is recorded on disk and whole (`RecordedBestIsWhole`), does a phase that had a best keep one at every moment (`EveryPhaseKeepsABest`)? Do arms train on what the stamp of their cards says (`BakesAreTheirStamps`)? Are draws and promised shares those of the active dojos (`DrawsFollowTheDiet`)? Does a run directory tell one run's story (`RecordTellsTheRun`)? | 2 dojos; runs of 2 phases of 4 rounds of 3 steps, one dojo's gradients never finite; and runs of 5 rounds, losses 0..2 and 0..1, any evaluation may miss, any save may fail; checkpoints of 3 phases of 2 rounds; 3 arms of 2 specs, one re-ingestion; diets of 4 dojos, 7 rules, 2 counts of examples; 2 runs in one directory, 3 rounds of a step, 2 samples, one failing write: 4,364,270 states |
| `MCRetrieval` | How much can each fault lose, repeat or leave half-written or of another build, window or version (`FaultsExplainTheData`)? Is the cursor behind the data, with one id repeated per crash and nothing on disk changed (`CursorBehindData`), is every id visited (`FinishedCrawlCoversEveryId`)? Does every item the site has arrive (`EveryItemArrives`) and every crawl end (`EveryCrawlFinishes`)? | every site over 3 items, one of them missing or senseless or one of each, 2 attempts, 2 outages, 2 cut writes, a death; a crawl of 3 ids with skipped slots in the middle and at the end, shards of 2 rows, 2 failures and 2 rejects in a row, 2 crashes; every site of whole files over 3 versions, 2 outages, a death, a full disk; an export of 3 pages and one of 2 in another window, 2 faults of each kind: 1,126,925 states |
| `MCTrainingSnapshots` | Is a call of the box committed whole (`CallsAreWhole`), a change of decks always with its stamp cleared (`ChangeClearsStamp`), a stamped source all there (`StampedSourceIsWhole`)? Does an opened snapshot hold the decks of the box it names (`OpenSnapshotHoldsEveryDeck`), do the splits, the table and its neighbours used in one run come of one set of decks (`TrainerHoldsOneDeckSet`), does ingestion converge when it is started again (`IngestionConverges`)? | four games, 2 sources of 2 rows and 1, batches of 2 calls, one change of the binder, one incident, 2 trainers: 1,332,919 states |
| `MCMetrics` | Is what a dojo accepts what the rows say (`AcceptedMetricIsSound`), are splits and slices of one reading of what they were cut from (`DerivedFilesAreOfOneReading`), does a family run again and again get every output right (`MetricsConverge`)? | all 19 families, 2 rows of which one comes late, cannot be read or is matched otherwise by a second binder; one fault of any kind; 2 runs, or runs for ever; 2 dojos beside a sliced family and a plain one: 695,868 states |
| `MCCardsAndDojos` | Does a saved binder mirror its catalogue (`BinderMirrorsCatalogue`), do rows keep the identity decks name, are duplicates only what an interrupted save leaves (`RowsKeepTheirCards`)? Is an answer gone wherever an example shows it (`ExamplesGiveNothingAway`)? Is a label still true after the mods (`ModsKeepLabelsTrue`)? Does a pass deal every example once, within the budget (`PassDealsEachRowOnce`)? Do contrastive pairs differ where they are pushed apart (`ContrastivePairsAreSound`)? Does a deck rebuilt from a log differ from the real one by what the log leaves out and no more (`DecksDriftByTheUnseen`), and is a row's label of its own turn (`LabelsAreOfTheirTurn`)? | every kind of stage, 2 changes of the catalogue, 2 interruptions; every dojo of the catalog over 4 cards of 2 games and 3 tiers, rows of every shape, chains of up to every augmentation, every split; passes over every file of 3 rows, budgets 4, 5 and 7, caps none, 1 and 3, 3 passes; pools of 3 decks in every style; games of 2 and 3 players, 3 to 5 turns a game, with 2 or 3 lines a game beside the turn headers: 1,877,505 states |
| `MCPairsAreOfTwoPlayerGames` | The docs of the Dominion metrics: a game with a resignation is refused and deck pairs are of games of two. Refuted, see section 7 | the games of `MCCardsAndDojos`, alone |
| `MCDecksAreOfTheStampedBinder` | A sentence of the deck box's README: refuted, see section 7 | all seven games, one change of the binder |
| `MCAcceptedMetricHasItsDecks` | A sentence of the deck box's docstring: refuted, see section 7 | the replays of two raw files with a deck of their own each, one lost batch |
| `MCNoHalfWrittenBakeIsRead` | A sentence of `_save_bake`'s docstring: refuted, see section 7 | 3 arms of 2 specs on one directory |
| `MCCompleteExportHasEveryPage` | A sentence of `_ExportComplete`'s docstring: refuted, see section 7 | the exports of `MCRetrieval` alone |

The parts of `MCCardsAndDojos` (the binder, passes over rows, contrastive decks, games) share
no state: each is tried in behaviours of its own, in which the others stay as they started.

**Why these bounds are enough for the cases that matter.** Two rounds with two
reschedules let a step be dropped, kept as a leftover, dropped again and taken in
a later round; depth 2 lets one step be built while another is in flight. Four
rows against keys of mixed sizes make evictions free more than one key and leave
gaps. Two phases show what a phase carries over (only the best), and a third that it
carries over what an earlier one did; four rounds leave room for a quarantine, a
reactivation and the end of a phase. Three arms of two specs are a writer, its rival
and a reader. Diets of four dojos give a table in a table in a table, a row of no
weight and a dojo with nothing to train on. Two runs race for a directory; two
samples are one of the thread and the last of the main thread, or two of the thread.
Three ids and shards of two rows make one rotation, with rows after it; two crashes
let a repair itself be cut short. Three items with two attempts let a session fail on
one item, be cut in the next and meet both again; three versions let a site move on
between any two requests of a session and again before the next. Two sources with
batches of two calls make a commit fall inside a source, between two and at the end,
so that a kill takes back part of one source beside the stamp of another. Two changes
of a catalogue let a row go and return; two interruptions let the repair of a torn
file be cut. Two rows, one of them late, unreadable or matched otherwise by a newer
binder, give every family a file of an older binder beside a box of a newer one, a
file with fewer rows than there are, and a scan that ends in the middle; the rows
share a deck, so that a deck is put, found again and put in vain. The families
that run for ever have one fault too, and must recover from it. Of four cards two are
trained on, one tested and one validated, in two games, of which one has the field
that gives the answer away; files of three rows with chunks of two end a chunk and a
group inside a pass. Decks of copies, of unknown cards and of hidden ones make
held-out draws coincide. Five turns of three players come back to the first.

Bounds of the model are the `phases`, `maxRounds` and so on of a trainer's `Settings`,
the `incidents`, `runs`, `versions` and `dojos` of a metric scenario, the `turns` and
`lines` of a Dominion table, `MaxRounds` and `MaxReschedules` of the feed, `RunRounds`,
`RoundSteps`, `MaxSamples` and `MaxFaults` of a recorded run, `MaxReingests`,
`MaxCrashes` of a crawl, `MaxOutages`, `MaxDeaths` and `MaxCuts` of downloads of items,
`LastVersion`, `MaxFileOutages`, `MaxFetchDeaths` and `MaxNoRooms` of whole files,
`MaxPageOutages`, `MaxSidecarCuts` and `MaxWalkDeaths` of an export, `MaxVersion`,
`MaxIncidents`, `MaxTrainers`, `MaxChanges`, `MaxInterruptions`, `MaxHits` (LFU
buckets), `MaxPins` (pin counts) and the set `Identities`. Parameters of the code are
`CommitBatchSize`, `MaxAttempts`, `MaxFileAttempts`, `MaxPageAttempts`,
`MaxSessionFailures`, `MaxConsecutiveRejects`, `RowsPerShard`, `ROWS_PER_CHUNK` and the
three failure limits.

**Symmetry.** The identities of reservations (`MCFeatureTiers`) and the two runs that
share a directory (`MCTrainer`) are symmetric; neither run has a liveness property.

**Deadlock** is checked except where the system really stops: in `MCTrainer`, whose
processes end or are dead; in `MCCardsAndDojos` and `MCPairsAreOfTwoPlayerGames`, where a
pass, a batch or a game is over and where a binder file torn by an interruption makes every
later load raise, so that ingestion stops until someone removes the line; and in the two
runs about metrics, where nothing is left to do once a family has been run `runs` times and
its dojos are opened. `MCNoHalfWrittenBakeIsRead` is about processes of `MCTrainer` alone.

**Each property has a mutant**: an operator beside the original (marked *fault*
or *Mutant of*) that changes it the way a plausible bug would, under which the
property fails.

## 4. Fairness

`MCPrefetchingBatchStreams`: `WF(ConsumerStep)` and `WF(WorkerStep)`. Both are threads
of a running interpreter whose condition waits are woken by `notify_all`, and
builds and warms are assumed to return (a hung dojo hangs `end_round`, as its
docstring says). The trainer owes the feed no further call (`ConsumerCall` is not
fair), and nothing makes the worker die (`Die` is not fair).

`MCRetrieval`: in a crawl and in a downloader of items alike, a session's steps (`Step`,
`DownloadsStep`) are fair because it is one thread and its requests time out, and its
start (`StartSession`, `StartDownloads`) because a downloader is run again after a
session that ended; without that no crawl need finish.
A session is to be started or takes steps, never both, so one weak fairness of their
disjunction is the two of them, which is what the run states. Crashes, outages, deaths
and cut writes are not fair and bounded: a crawl that dies in every session before its
first row lands makes no progress, and the code does not promise any. Nothing is
assumed of whole-file downloads and exports.

`MCTrainingSnapshots`: `WF(IngestionStep)`, because extraction is one thread reading
files, and `SF(StartAll)`: whoever ingests a game starts the whole of it again and
again (`run_all`), though between two starts it may be stopped. Nothing is assumed
of builders and trainers.

`MCMetrics`: `WF(RunStep)`, because a family's run is one thread that reads files,
`WF(StartRun)` and `WF(IngestBox)`: whoever runs the metrics runs them again, after the
ingestion of the decks they look up. `MetricsConverge` is asked where runs are endless;
nothing is assumed of faults, of changes of the binder or of dojos.

No other specification states fairness; their properties are safety properties.

## 5. What is proved

Seven modules hold theorems, each with its proof: every theorem below is of the
specification TLC runs, for every value of the constants that satisfies the assumptions
the specification names, and the sentences of `PROJECT.json` say what each establishes.
Nearly none of the properties is inductive; what follows says of each what the inductive
invariant adds to it and why it is needed. TLC evaluates the assumptions on each run's
constants and was used to try the strengthenings before they were proved.

**The batch feed** (`PrefetchingProofs`; dojos, schedules, depth, failing positions,
rounds and reschedules are any, and the worker may die or be told to stop).
`PrefetchAssumption`: schedules are non-empty sequences of dojos, the depth is at least
one, the bounds are naturals, `None` is neither a step nor a reservation.

- `TypeCorrect` (`TypeOK`). `CoreInv` adds `JobWhileProducing` (a job exists exactly
  while the worker produces or puts away a step, and the in-flight mark stands for it
  until it landed) and `WorkerLife` (when the thread exists).
- `Quiet` (`QuietBetweenRounds`), which lets evaluation and checkpoints use the dojos
  without a lock, by `RoundControl`: what a closed round and an ending one leave of the
  schedule.
- `FollowsSchedule` (`BuiltFollowsSchedule`), which lets `next_batch` check the head of
  the schedule and hand out the head of `_ready`. A leftover is taken for the step the
  schedule names, so leftovers must be filed under their own dojo (`LeftoversByDojo`),
  and `reschedule` keeps the common prefix of what is built and the new rest
  (`BuiltNamesFacts`).
- `PinsHaveOneOwner` (`PinsAccounted`). Every reservation outstanding in the cache is of
  the job, of a built step, of a leftover, of the step being handed out or of the list
  being released (`PinsOwned`), and no two of these owners share one; a step that moves
  a step from one owner to another moves its pin. What a closed feed has left is a
  question of control (`PinsControl`: a worker that stopped owns nothing, a list is only
  there while the consumer releases it).
- `PrefetchingImplementsFeed` (`FeedSpec`): the whole feed implements the direct one. The
  steps of a dojo that are built and not handed out are the next of its stream, without a
  gap, however they are spread over job, queue and leftovers; the queue's are before the
  leftovers' and among themselves in order (`StreamOrder`), so the head of the queue is
  the next one (`HeadIsNextOfStream`). A worker that failed or was told to stop does not
  build again (`StopsForGood`), otherwise a position could be lost.

**The feature cache** (`FeatureCacheProofs`; keys, batches, tiers, capacities, rows,
threads and reservations are any). `FeatureCacheAssumption` says the sets are what they
are named and that threads and the identities of reservations are finitely many, without
which a pin could not be a number.

- `PinsMatch` (`PinsMatchReservations`). `CacheInv` adds that what is outstanding is
  finite and that only a reserve pins. The proof counts: each step changes the set of
  reservations of a key, or of calls half through pinning it, by at most one element
  (`Recount`), and the count of pins by as much.
- `ReservedCardsStayWarm` (`ReservedStaysWarm`, an action property): a tier's put keeps
  what is pinned, and by `CacheInv` a card of an outstanding reservation is pinned.
- `StoresErrBoundedly` (`StaleCountsErrBoundedly`, of the stores that share a disk tier;
  stores, capacity, rows and offers are any: `StoreAssumption`, of which the finiteness of
  the stores gives the bound a number). The property bounds the file; `StoreInv` says
  where the rows came from. What a store counted are whole keys that are in the file and
  that it is not writing (*CountedAreKeys*), and what it writes fits beside them
  (*PutInv*), hence what it leaves out does not fit. What a store may still write before
  it counts again is its *Room*; the rows in the file and the room of all stores are
  together no more than the stores' capacities. A put moves rows from its store's room to
  the file, another store's insert is not seen by it, and a restart or a recount only
  takes room away: the file holds at least what was known. Two stores that insert the
  same key are why rows written are counted apart (one writes it, the other recounts).
- `SlabAgreesWithPolicy` (`PolicyAgreesWithSlab`, of `FeatureSlab` under any policies,
  capacity, keys, rows and offers: `SlotPolicyAssumption` and `FeatureSlabAssumption`;
  `MaxHits` and `MaxPins` are any numbers too). The property carries what makes it
  inductive: the rows held and the rows on the stack are together those below the unused
  mark, and no key is in two buckets of the policy or twice in one (*RecordedOnce*);
  beside it the proof needs only that what is held is finite (*SlabInv*). It goes in two
  halves that meet at the decision. On the policy's side, every policy's `admit` is sound
  (`Admits`): what it admits is offered and not held, what it evicts is recorded and
  unpinned, the rows of the ones fit the free rows and the rows of the others, and its
  record afterwards is what the slab will hold. For the evicting policies this is the
  arithmetic of `EvictingAdmit`: the admitted prefix fits the free rows and all unpinned
  rows, the victims are the shortest beginning of the eviction order that makes up what
  is short, and there is one because all unpinned keys would do (`Victims`). On the
  slab's side, the index stays sound (*IndexSound*) when rows go back to the stack
  (`VacatedIsSound`) and when a key claims some from the stack's top and the rest from
  the unused ones (`ClaimIsSound`), and what is written to the claimed rows disturbs no
  other key's (`WrittenRows`). So no decision is refused and no row is lost.
- `SlabImplementsTier` (`TierSpec`, a refinement): a put of the slab is a put of the
  contract with the offered keys it did not hold (`PutStep`), a pin and an unpin are the
  tier's, and a lookup, which only moves the policy's records, is a stutter. With
  `PinsMatch` and `ReservedCardsStayWarm`, proved of every tier the contract allows,
  this says of the slabs under each policy what the cache needs of them.

The last three need sums of rows over sets and folds over lists, which are defined by
recursion over the data. They are reasoned about without an induction theorem: if a
statement failed for some finite set, or some number, it would fail for a smallest one
(`SmallestSet`, `LeastOf`, from the well-foundedness of strict inclusion on finite sets),
and taking an element from that one contradicts it. So a sum and the
fold of a list have the equations their definitions suggest (`SumUnfolds`, `FoldExists`,
`FoldsAgree`), and from these follow that a sum splits over disjoint parts and grows with
its set, and what `Without` keeps.

**The training run** (`TrainingProofs`; dojos, plans, outcomes, losses, the scale and the
policies are any that `run_config` accepts: `TrainerAssumptions`).

- `TrainerAndFeedAgree` (`FeedAgrees`). `RoundInv` adds that a round goes on only while
  the phase has rounds, and that the steps left are of the diet there is: a redraw
  happens at once when the ledger or the tracks change.
- `BrokenDojoCostsBoundedly` (`BrokenDojoIsDropped`). `DropInv`: each attempt of a dojo
  whose gradients are never finite backed the scale off or was counted as a failure, and
  while the scale never grew the failures came in a row once it was at its minimum.
- `DojosSaturateOnStagnation` (`SaturationIsStagnation`). `TrackInv`: while a dojo is
  active, its best is the score of its last improvement, as many scores back as it is
  stale, below all earlier ones and not undercut by more than epsilon since. The theorem
  needs `Epsilon >= 0`, which the code does not check (`plan.py:193-217` refuses a
  patience below one and takes any epsilon): with a negative epsilon a dojo improves by
  getting a little worse.

**The checkpointer** (`TrainingProofs`; phases, rounds, failures and deaths are any).
`CheckpointerAssumption`: there is a phase and a round, two phases never share a name on
disk (`plan.py` refuses a plan whose names do), `None` is no directory.
`CheckpointsAreWellFormed` (its `TypeOK`), `BestIsWhole` (`RecordedBestIsWhole`), `PhaseKeepsABest` (`EveryPhaseKeepsABest`),
`OneBest` (between saves a phase has one best on disk unless a deletion failed) and
`LatestStaysWhole` (`latest/` is only lost by a failed swap). A save that stands between
its rename and the trainer's record has a new best on disk that nothing names yet, and an
old one that may be half deleted. `IInv` says where a save stands: the name a best takes
is free until the rename (`NoneAhead`, hence `NameIsFree`), so only `latest/` is ever
deleted before its replacement stands; from the rename to the record the new best is
whole (`NewWhole`); outside that window the recorded one is (`RecordedWhole`); and what is
deleted is the old best of this very phase (`SaveOfThisRound`, hence
`DeletesNoRecordedBest`). `PhaseKeepsABest` holds of a dead process too, where `IInv` no
longer says anything of the records: its own induction takes the last step, which changes
no file.

**The baked binders** (`TrainingProofs`; arms, specs, re-ingestions and deaths are any).
`ArmsTrainOnTheirStamps` (`BakesAreTheirStamps`). `BakeInv`: until two different bakes are
moved at once, a stamp that stands is beside its own files, an arm that moves has moved a
prefix of its files and they are still there, and an arm that loads has read files of the
stamp it read.

**The run directories** (`TrainingProofs`; runs, rounds, steps, samples and failing
writes are any). `RunAssumption`: the bounds are naturals, a round has a step, and
`NoDirectory` is no directory. `RunDirectoriesTellOneStory` (`RecordTellsTheRun`). The
property is about what the tables hold; what a thread is about to append depends on
where it is.

- *RunStages*: how far a run has come says what of it is in the directory. Only the
  owner is past the `mkdir`, its config is there once it was copied, and while its
  sampling thread lives its cache is open and it is between the thread's start and its
  join.
- *SamplesOf*: what either thread has read and not yet written is not behind what is
  written. The thread reads the steps before the texts, so that either may be behind
  the other; the last row is the main thread's, after the join, and of the run as it
  ended.
- *TablesOf* counts the rows that failing writes cost: a failed append loses at most its
  own row and the one that runs into its line, so rounds run are at most rows told and
  twice the failures. A line that is cut at the moment stands for a row still to be
  lost. The count showed that a cut line is ended by the row that runs into it: the
  third row has a line of its own.

**The crawl** (`RetrievalProofs`; plans, directories, shard size, the two limits and the
number of crashes are any: `CrawlAssumption`). `CursorStaysBehindTheData`
(`CursorBehindData`). `CrawlInv` has five parts. *WalkInv*: a session at work on an id is
at the first walked id not behind the cursor. *FilesInv*: the shards of a directory are
numbered without a gap; a plain file beside its `.gz` is a copy of it, and any other plain
file is the newest shard; the shard a session appends to is not compressed, has no torn
line, and as many rows as the session counted. Hence opening, repairing, compressing and
deleting change no whole line, nor does a crash (`SameData`), and an append adds one.
*RejectsInv* says so of the log of rejects. *DataInv*: the ids behind the cursor are in
the files, and what the session is about to write answers the id it is at. *RepeatInv*
counts: the records are no more than the crashes and the ids that have one, and one fewer
while the id to be written next is in the files already, for then a session died between
its row and its cursor.

**The downloaders** (`RetrievalProofs`; what the sites list and answer, their versions and
windows, attempts, outages, deaths, cut writes and full disks are any).
`DownloadsAssumption` and `BulkAssumption`: finitely many items and files, at least one
attempt, one version and one file of each. `ExportAssumption`: finitely many windows of
at least one page each. `DamageHasItsFault` (`FaultsExplainTheData`) is of the run's own
composition: a step of one part is a step of its component and none of the others'
(`PartsGoAlone`), so each component's theorem carries over.

- `ItemsAreKeptOrFaulty` (`FaultsExplainTheItems`), for all of the sites described in
  `Downloads`. The property counts damage that is done; `ItemsInv` counts what is under
  way too. *LossInv*: noted items without a row, a data line or a manifest line that is
  cut, and a note that is to be written for a row that ran into a cut line, are together
  no more than the cuts. *RowsInv*: repeated rows, rows whose item will be fetched
  again because nothing noted it, and a cut manifest line are no more than the deaths
  and twice the cuts (a cut note leaves its own item open and swallows the next one's).
  *PartFilesInv*: parts of files that no session is at are no more than cuts and deaths.
  *NotedFilesInv*: where a manifest speaks of files, it speaks of whole ones that no
  session touches again. *PlaceInv* and *StoringInv* say where a session can be at a
  site that stores as it does.
- `FilesAreWholeOrFaulty` (`FaultsExplainTheFiles`). `BulkInv`: the version a session got
  is one the site had since the session began, and that of its directory where the
  archive was checked (*FetchInv*); what is not left to do is there, whole
  (*DoneInv*), which is what a session that ends successfully leaves; a build's
  directory holds files of that build only, all of them once it is marked, and no
  session unpacks into a marked one (*MarksInv*), so that a mark stays true.
- `ExportsAreOneChain` (`ExportIsOneChain`). `ExportInv`: there is a number `n` so that the
  pages with a sidecar are the first `n`, all whole and of the window on disk, the last
  of them says whether more follow (*ChainInv*), and a session at work is at page `n`,
  which the window has (*PageInv*). A last page is followed only where a sidecar was
  cut.

Two statements were sharpened by these proofs: how a loss is bounded had cases that
overlapped, of which TLC took the first; and repeats are counted as the set of rows of an
item after its first.

**The card binder** (`CardIngestionProofs`; catalogues, changes upstream and saves cut
short are any). `CardAssumption`: catalogues are well-formed (`WellFormed` says what the
raw files and the stages' own grouping guarantee: rows with identifiers, no two cards
sharing one), a first identifier is never a later one of another card where rows are
found by it, and `Nobody` is no uuid.

- `SavedBinderMirrorsCatalogue` (`BinderMirrorsCatalogue`). `MirrorInv`: the files hold
  cards and aliases on which a look-up has one answer (`SoundCards`, `SoundAliases`), as
  does the binder of a process (*ProcessInv*); the rows stored so far are held, and the
  cards taken are exactly theirs (*RowsInv*); from the save on all rows are, and the
  deletion took the others (*SaveInv*). The core is `ChosenIs`: the card chosen for a row
  is that of the stored rows of the same card and no other row's. It differs for each of
  the three ways to find a row again, and is why a stored row is never overwritten by one
  of another card, whatever a cut ledger has forgotten.
- `RowsKeepTheirIdentities` (`RowsKeepTheirCards`). `KeepInv` adds *IdsInv*, an alias of a
  first identifier names a card made of it, and the cards made of one number at most the
  interruptions and one more if an alias still names one; and *ClaimsInv*, what of the
  loaded binder the process has kept so far: first identifiers keep their cards, cards
  found by name keep their names, and groups still to come find what they would have
  found at the load.

**The deck box and what reads it** (`DeckBoxProofs`; decks, cards, stamps, batch size,
games, sources, raw rows, binders, failures, kills and trainers are any).
`DeckBoxAssumption` (the batch size is positive), `IngestionAssumption` (a game's stages
and rows are what they are named; cards and positions are named apart, as the two uuid5
namespaces do) and `SnapshotAssumption`.

- `BoxCallsAreWhole` (`CallsAreWhole`) and `BoxChangeClearsStamp` (`ChangeClearsStamp`)
  of the box alone. A transaction holds the halves of calls while it is open. `BoxInv`:
  what is committed has all rows of every deck it names; between calls the open
  transaction does too, differs from what is committed by no more decks than the calls it
  counted, and where it differs has no stamp (*Sound*); within a call it is what it was
  when the call began and what the call's statements did since (*CallSoFar*).
- `SnapshotsUseTheBox` (`BoxSpec`): the composed system implements the box's own
  specification, so both carry over to it (`SnapshotsKeepCallsWhole`,
  `SnapshotsClearStamps`). `IngestionTypes` is the ingestion's type invariant.
- `StampedSourcesAreWhole` (`StampedSourceIsWhole`). `StampInv`: `save` commits a source
  that was extracted whole before the stamp it writes, and whatever is written later under
  that stamp has lost it; rows under one deck uuid have the same cards.
- `OpenSnapshotsAreWhole` (`OpenSnapshotHoldsEveryDeck`). A snapshot's version is the
  number of decks, counted before they are read, and no lock is held between. The box
  only grows while its stamp stands (*Growing*), so at every place of the builder
  (`BuilderInv`) what it counted is inside what it read and that is inside the box: equal
  numbers mean equal sets.
- `TrainersHoldOneDeckSet` (`TrainerHoldsOneDeckSet`). `TrainerInv`: every set of decks in
  a split index, a table or a list of neighbours was all of the box at one time, so any
  two are one inside the other, and those of the same number are the same.

**The metric families and what is cut from them** (`MetricProofs`; families, raw
data, binders, faults, runs and dojos are any). `ScenarioAssumption` says what a family is:
its passes list metrics whose program ends with the row and names in it only decks that
were put or found before (`KindAssumption`); only a box of the family's own is put into,
and the outputs that name decks of a box in memory are opened anew by every run
(`FamilyAssumption`); raw rows name two decks or cannot be read, and decks are known by
their cards. Without the opening anew a file of an earlier run could
name decks of a box that was never saved.

- `AcceptedMetricsAreSound` (`AcceptedMetricIsSound`). The file a dojo accepts was written
  by a run long gone, so all of it must be known when it is written. *RunInv*: a run is
  at a metric, a step and a row there are, and past its first step only at a row that
  could be read. *BoxInv*: a run only adds decks, only to a box of its own, and the
  call it is in either keeps what the box had or is undone. *DecksInv*: the decks named
  by files, by what the pass has made so far, and by the row under way are settled (in the
  box whether the call in progress succeeds or not), in the hand of that call, or of a
  batch that was lost; for a box in memory, a file's decks are in the copy once the
  process is gone. *RowsInv*: what is written is of readable rows, and a metric nothing
  went wrong with has every row it has had.
- `DerivedFilesOfOneReading` (`DerivedFilesAreOfOneReading`). A slice is trusted because
  its stamps are those of its partitions, and the stamps are taken before the contents
  are read. A partition only moves forward, from run to run and from torn to whole within
  one (*FilesInv*: a run never writes an output twice), so a stamp that is true at the
  end was true all along (*ReadingInv*, *SliceInv*), and what was read between is what
  the partition still holds. *SplitsInv*: between the deletion of the old
  splits and the last rename one of three is missing, the renamed ones are of the build
  of the partial ones still there, and a build is whole before anything is deleted.

**Only model-checked.** All liveness: fairness and `ENABLED` are outside what the proof
system handles. The permutation of a crawl's ids (`FinishedCrawlCoversEveryId` needs that a
stride coprime to `n` meets every slot, which is number theory no library here has).
`DrawsFollowTheDiet`: its module, `Diets`, is the one that uses `RECURSIVE`, which takes
the SMT prover away. The library's induction theorems take an operator as a parameter and
cannot be instantiated here; the way around them that section 5 uses for sums and lists needs
lemmas for each fold, which are there for the feature cache's lists only.
The dojos: what an example shows and means after a chain of mods
(`ExamplesGiveNothingAway`, `ModsKeepLabelsTrue`), the grouping of a pass
(`PassDealsEachRowOnce`), contrastive pairs (`ContrastivePairsAreSound`) and the reading
of a log line by line (`DecksDriftByTheUnseen`, `LabelsAreOfTheirTurn`) are each folds over
the mods, rows or lines they are given.

## 6. The plan

Done: (1) the batch feed with its first theorems, (2) the feature cache, (3) the
resumable crawl, (4) the training run with ledger, tracker and checkpointer, the
checkpointer's invariants proved, and the SQLite store, (5) the downloaders: items,
whole files, archives and the paged export, (6) the card binder's ingestion, (7) the
deck box, its ingestion, snapshots and stamped caches as one composition, with the
box's theorems, (8) the metric families, and the slices and splits dojos open, (9) the
recording of runs, the diets, the bakes of binders, (10) the dojos of the catalog with
their mods and batches, the contrastive dojos, (11) the logs of Dominion.

Next, in this order:

1. The planning of the three crawls by id (archidekt, moxfield, deckstats), and what
   they prune from a body.
2. `update` of a card binder and a binder loaded from several games' files.
3. What the other metrics count, row by row, as DominionGames does for one site.

The proof that remains: `PassDealsEachRowOnce`, without the grouping, on the lemmas about
folds of `FeatureCacheProofs`.

## 7. Where the code and its comments part

Five disagreements are runs. `MCDecksAreOfTheStampedBinder`:

- `deck_box/README.md:79` and `91-93`: a box's stamp says which card binder its decks
  were made with. The stamp is one per game (`deck_box.py:772-778`), and each source of
  a game stamps it when its own extraction ends (`build.py:81`): a source extracted
  with a newer binder stamps the box of which the other source's decks are older.

`MCAcceptedMetricHasItsDecks`:

- `deck_box.py:53-57`: a caller that carries on after an exception "can't swallow"
  `DeckBatchLostError` "and later save() a box missing those decks". The scans hand rows to metrics
  through `call_isolated` (`isolated_call.py:36-38`), whose `except Exception` swallows
  it, and the family saves and stamps its box afterwards (`run_metrics.py:1203-1213`). A
  file that names the lost decks is whole, of the current binder, beside a box
  stamped alike, so a dojo accepts it. The log line says to treat the metric as
  untrusted; nothing in its file does.

`MCNoHalfWrittenBakeIsRead`:

- `binder_mods.py:339-340`: a bake is moved into place "the stamp last, so no run ever
  reads a half-written bake as complete". Two arms with different mods find no stamp and
  both save. The second moves its data files under the first's stamp; a third arm, of the
  first's mods, reads that stamp and the second's cards. Arms of one spec do no harm
  (`BakesAreTheirStamps`).

`MCCompleteExportHasEveryPage`:

- `spire_codex/run_downloader.py:134`: `_ExportComplete` is "every page of this
  corpus/window is already on disk". A sidecar is written in place (514): a session
  killed there leaves it empty, which is how the last page is recorded (325), and no
  later session fetches the rest.

`MCPairsAreOfTwoPlayerGames`:

- `games/README.md:166-171` (of the isotropic metrics): games in which anybody resigned
  are out of scope, those with a winner too: "`header_parser.py` returns `None` for both
  cases". `_continuation_line_parsers.py:20-23`: "a game containing any resignation is
  already rejected". `mid_game_deck_pair_winner_metric.py:7-11`: "RESTRICTED TO REAL
  2-PLAYER GAMES". A game of three that ends by its piles after one resigned is not
  refused. `header_parser.py:418` skips the block of the player who resigned, as its own
  docstring (385) and `test_header_parser.py:104` want; the metric's check of two players
  (133) then passes, and the decks of the other two are paired. The other metrics take
  rows of such a game as well, also of the turns of the player who resigned; these rows
  are right about their turn (`LabelsAreOfTheirTurn`).

Others met while modelling, in prose only:

- `batch_feed.py:67-68`: after `end_round` "every reservation is released". The
  reservation of a step that was in flight and unwanted is released by the worker
  just after `end_round` may have returned (`prefetching_batch_streams.py:557`).
  It does go soon after (`FeedSettles`).
- `batch_feed.py:12-14`: at the end of a full round "every dojo's stream has
  advanced by exactly the batches the round used". After a mid-round redraw the
  prefetching feed's streams may be ahead by the leftovers. No batch is skipped or
  repeated (`FeedSpec`).
- `reports.py:90`: "the best round of the last phase". Two rounds are compared on
  the dojos both scored, and this comparison is not transitive once evaluations
  miss: the checkpoint kept may be worse, by the same comparison, than a round
  before it.
- `run_training.py:739`: sampling "must never stop a run". Where its thread cannot be
  started, `stop` joins a thread that was never started, which raises.
- `scripts/run_metrics.py`, module docstring: "One family's failure is logged and does
  not stop the rest". `run_all` (1560-1573) catches `Exception`; a family that has no binder
  (433-437) or whose files fail (1158-1219) raises `SystemExit`, which stops the rest.
- `chunk_scanner.py:89`: exceptions of reading and parsing a chunk "stop the whole family
  run". `_scan_one_csv` of `run_metrics.py` logs the CSV as failed and goes on to the next
  (as its own docstring says).

Facts the runs show that no comment denies: a binder or ledger line torn by an
interrupted save is never repaired by a later run; a ledger cut between its two
files leaves a permanent duplicate where rows are matched by the source's
identifier, and heals where they are matched by name or group; an identifier that
returns may take another row's card through a stale alias. Splits of a metric outlive
its regeneration: they are reused until `force_resplit` (`dojo_config.py:96-103` says so),
so what a dojo trains on may be of an older binder than what it checked. A whole-file
download that fails removes the file an earlier session had left whole, and the two
files of dominiontabs may be of two versions.

## 8. What is not modelled, and why

Parsers of the card and deck sources, tensors and losses, the parsing of plan files,
the encoder, evaluation, experiments and command lines: pure transformations without a
protocol, better served by tests. Tensors in the caches are labels, losses small
integers, a checkpoint's files one value that is whole or not. Left out of the modelled
parts: statistics and log output, precision and shape checks (a wrong shape is a
programming error that raises before anything changes), loading of checkpoints (it
changes nothing). Two sessions of the same crawl at the same time are not modelled: the
code takes no lock against it, and its files are written for one session after another.

Of the downloaders, the listings, the parsing of bodies, the planning and pruning of
the crawls by id, and the waits of the rate limiter are left out. Of the binder, `update`
and the version cache (no process that changes a binder calls them), look-ups by pattern
or name, and a binder loaded from several games' files. Of the box, boxes merged in
memory and saved to another file, decks' names and provenance. Of the metrics, what they
count (but for the Dominion logs) and the parsing of raw rows; the two tables of inclusions
name decks' factions and heroes, not decks, and need no box. The closing of a parquet
writer that is collected is a library's, and left free. Of the dojos, the values and
calibration of losses, how a card becomes text, and the shuffled reader's temporary
directory, which is of its own process; `shuffle_split_index` is called by nothing in
`src/`. Of the teacher, what its table holds. Of a training run, the optimizer and the
learning rate; of its diet, exponents that are not whole numbers; of its recording, the
columns of its tables and a sampling thread that cannot be started.

The components of `PROJECT.json` say the same, with their status. The definitions of the
modules stand for about 30 % of the implementation's lines; what remains is mostly the code
this section names.
