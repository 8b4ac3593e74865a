------------------------------ MODULE Downloads ------------------------------
(***************************************************************************)
(* Sessions of an item downloader (src/data_retrieval): phase 1 lists the  *)
(* items, phase 2 reads what is recorded as done and fetches the rest one  *)
(* by one.  A session may die anywhere, and a write may be cut short by a  *)
(* full disk or by a death; the next session starts from the files alone.  *)
(*                                                                         *)
(* One step is one request or one write.  A body is not modelled, only     *)
(* whether it is whole; a data file is how often it holds each item as a   *)
(* line that can be read, and whether its last line was cut, since the     *)
(* next append runs into it.                                               *)
(***************************************************************************)
EXTENDS FiniteSets, Integers

CONSTANTS
    Items,        \* what the site lists
    SiteAnswers,  \* what a site may have for them
    MaxAttempts,  \* _DEFAULT_MAX_ATTEMPTS
    MaxOutages,   \* bound: requests that fail for a time
    MaxDeaths,    \* bound: sessions killed
    MaxCuts,      \* bound: writes cut short
    Nothing       \* no item

ASSUME DownloadsAssumption ==
    /\ IsFiniteSet(Items) /\ Nothing \notin Items
    /\ SiteAnswers \subseteq [Items -> {"whole", "missing", "senseless"}]
    /\ MaxAttempts \in Nat \ {0}
    /\ MaxOutages \in Nat /\ MaxDeaths \in Nat /\ MaxCuts \in Nat

-----------------------------------------------------------------------------
(***************************************************************************)
(* What the downloaders differ in.  A site is a record of                  *)
(*                                                                         *)
(*   record    what tells a later session that an item is done: a line of  *)
(*             a manifest, that the item's file exists, or that the file   *)
(*             has the digest the site publishes                           *)
(*   storing   how an item is kept: a "line" appended to one data file, a  *)
(*             file streamed under its final name, a file streamed under a *)
(*             ".part" name and renamed, or a text written in one go       *)
(*   refuses   whether a body that answers but makes no sense is noticed   *)
(*   forgives  the failures of an item that are logged and skipped; any    *)
(*             other ends the session                                      *)
(*   ids       whether the manifest is read as text or as numbers          *)
(*                                                                         *)
(* Failures: "request" (three attempts failed), "notFound" (so did they,   *)
(* with a 404), "content" (the body is refused), "file" (no room on disk). *)
(***************************************************************************)
Failures == {"request", "notFound", "content", "file"}

SitePolicy ==
    [record : {"manifest", "exists", "digest"},
     storing : {"line", "stream", "staged", "text"},
     refuses : BOOLEAN,
     forgives : SUBSET Failures,
     ids : {"text", "numbers"}]

\* What one append to the manifest and the skip of a failed fetch give: the
\* append stands outside the try, so a full disk ends the session.
AppendingSite ==
    [record |-> "manifest", storing |-> "line", refuses |-> TRUE,
     forgives |-> Failures \ {"file"}, ids |-> "text"]

STSGG == AppendingSite

Pitchstack == AppendingSite

\* its guide ids are numbers, read back with int()
PlayGwent == [AppendingSite EXCEPT !.ids = "numbers"]

\* only requests' exceptions are skipped, its JSON error among them
LimitlessPlay == AppendingSite

\* a page without the expected elements gives a row of Nones
HearthstoneTopDecks ==
    [AppendingSite EXCEPT !.refuses = FALSE,
                          !.forgives = {"request", "notFound"}]

\* one file per game log, its manifest line after it
Isotropic ==
    [record |-> "manifest", storing |-> "stream", refuses |-> FALSE,
     forgives |-> Failures, ids |-> "text"]

HearthstoneJson ==
    [record |-> "exists", storing |-> "stream", refuses |-> FALSE,
     forgives |-> Failures, ids |-> "text"]

\* the .csv.gz is unpacked into the final name; a bad archive is refused
SeventeenLands == [HearthstoneJson EXCEPT !.refuses = TRUE]

FabtcgDecklists ==
    [record |-> "exists", storing |-> "text", refuses |-> TRUE,
     forgives |-> Failures \ {"file"}, ids |-> "text"]

\* a 404 is an empty shard, anything else ends the session
FabtcgmetaOnlineDecks ==
    [record |-> "exists", storing |-> "staged", refuses |-> FALSE,
     forgives |-> {"notFound"}, ids |-> "text"]

ZenodoHearthstoneDecks ==
    [record |-> "digest", storing |-> "stream", refuses |-> TRUE,
     forgives |-> {}, ids |-> "text"]

\* one catalog of a release; size and digest stand in the release's manifest
TcgjsonCatalogs == ZenodoHearthstoneDecks

Sites ==
    {STSGG, Pitchstack, PlayGwent, LimitlessPlay, HearthstoneTopDecks, Isotropic,
     HearthstoneJson, SeventeenLands, FabtcgDecklists, FabtcgmetaOnlineDecks,
     ZenodoHearthstoneDecks, TcgjsonCatalogs}

-----------------------------------------------------------------------------
VARIABLES
    site,       \* the downloader's policy
    siteAnswer, \* what the site has for each item, for good
    file,       \* the item's own file under its final name
    rows,       \* readable lines of the data file, per item
    dataCut,    \* the data file ends in a part of a line
    noted,      \* items the manifest's whole lines name
    noteCut,    \* what the manifest's cut last line reads as, if it has one
    fetching,   \* the running session
    outages, deaths, cuts  \* history: faults so far

data == <<file, rows, dataCut>>
manifest == <<noted, noteCut>>
faults == <<outages, deaths, cuts>>
itemVars == <<site, siteAnswer, file, rows, dataCut, noted, noteCut, fetching,
              outages, deaths, cuts>>

\* noteCut of a manifest that ends in a whole line.
Uncut == [cut |-> FALSE, as |-> Nothing]

NotFetching == [at |-> "down", left |-> {}, item |-> Nothing, attempt |-> 0]

DownloadsInit ==
    /\ site \in Sites
    /\ siteAnswer \in SiteAnswers
    /\ file = [i \in Items |-> "none"]
    /\ rows = [i \in Items |-> 0]
    /\ dataCut = FALSE
    /\ noted = {}
    /\ noteCut = Uncut
    /\ fetching = NotFetching
    /\ outages = 0 /\ deaths = 0 /\ cuts = 0

\* read_manifest: the lines, a cut one as what it reads as.
InManifest == noted \cup ({noteCut.as} \ {Nothing})

\* The items phase 2 would skip.
Recorded ==
    CASE site.record = "manifest" -> InManifest
      [] site.record = "exists"   -> {i \in Items : file[i] # "none"}
      [] site.record = "digest"   -> {i \in Items : file[i] = "whole"}

Goto(at) == fetching' = [fetching EXCEPT !.at = at]

EndSession == fetching' = NotFetching

\* Mutant of Forgiven: what is not forgiven ends the session for good reason,
\* and so does everything else.
NeverForgiven(failure) == FALSE

\* The try around one item's fetch.
Forgiven(failure) == failure \in site.forgives

\* The item is done with, one way or another.
NextItem ==
    fetching' = [fetching EXCEPT !.at = "choose", !.left = @ \ {fetching.item},
                                 !.item = Nothing, !.attempt = 0]

\* A failure of the item leaves the loop's try: skipped, or the session ends.
ItemFails(failure) == IF Forgiven(failure) THEN NextItem ELSE EndSession

StartDownloads ==
    /\ fetching.at = "down"
    /\ fetching' = [NotFetching EXCEPT !.at = "list"]
    /\ UNCHANGED <<site, siteAnswer, data, manifest, faults>>

\* What phase 2's loop does not skip; the manifest is read once, before it.
LeftToDo == Items \ Recorded

\* phase_1, and the read of the manifest phase_2 begins with.
ListItems ==
    /\ fetching.at = "list"
    /\ fetching' = [fetching EXCEPT !.at = "choose", !.left = LeftToDo]
    /\ UNCHANGED <<site, siteAnswer, data, manifest, faults>>

\* phase_1 raises: there is no best-effort listing.
ListingFails ==
    /\ fetching.at = "list" /\ outages < MaxOutages
    /\ outages' = outages + 1
    /\ EndSession
    /\ UNCHANGED <<site, siteAnswer, data, manifest, deaths, cuts>>

\* The loop takes an item (in the list's order, which no property is about).
TakeItem ==
    /\ fetching.at = "choose"
    /\ \E i \in fetching.left :
         fetching' = [fetching EXCEPT !.at = "request", !.item = i, !.attempt = 1]
    /\ UNCHANGED <<site, siteAnswer, data, manifest, faults>>

FinishSession ==
    /\ fetching.at = "choose" /\ fetching.left = {}
    /\ EndSession
    /\ UNCHANGED <<site, siteAnswer, data, manifest, faults>>

\* Mutant of Dropped: what arrived of a failed download stays.
KeptAsItIs(i) == file

\* download_to_file's cleanup, whatever the destination held before.
Dropped(i) == IF site.storing = "stream" THEN [file EXCEPT ![i] = "none"] ELSE file

\* One attempt fails with a RequestException: again, or no more attempts.
AttemptFails ==
    LET i == fetching.item
    IN  /\ fetching.at \in {"request", "stream"} /\ outages < MaxOutages
        /\ outages' = outages + 1
        /\ file' = Dropped(i)
        /\ IF fetching.attempt < MaxAttempts
           THEN fetching' = [fetching EXCEPT !.at = "request", !.attempt = @ + 1]
           ELSE ItemFails("request")
        /\ UNCHANGED <<site, siteAnswer, rows, dataCut, manifest, deaths, cuts>>

\* The site does not have the item: every attempt ends in its 404.
NotFound ==
    /\ fetching.at = "request" /\ siteAnswer[fetching.item] = "missing"
    /\ file' = Dropped(fetching.item)
    /\ ItemFails("notFound")
    /\ UNCHANGED <<site, siteAnswer, rows, dataCut, manifest, faults>>

\* A 2xx: the body is streamed to the item's file, or read into memory.
Answered ==
    LET i == fetching.item
    IN  /\ fetching.at = "request" /\ siteAnswer[i] # "missing"
        /\ IF site.storing = "stream"
           THEN file' = [file EXCEPT ![i] = "part"] /\ Goto("stream")
           ELSE file' = file /\ Goto(IF site.storing = "staged" THEN "stream" ELSE "body")
        /\ UNCHANGED <<site, siteAnswer, rows, dataCut, manifest, faults>>

\* After the item's data stands: its manifest line, where there is one.
AfterData == IF site.record = "manifest" THEN Goto("note") ELSE NextItem

\* The file as the last chunk (and the rename of a staged one) leaves it.
Arrived(i) == [file EXCEPT ![i] = "whole"]

\* The stream ends; a site that can tell refuses a senseless file, deletes it
\* and raises.
StreamEnds ==
    LET i == fetching.item
    IN  /\ fetching.at = "stream"
        /\ IF site.refuses /\ siteAnswer[i] = "senseless"
           THEN file' = [file EXCEPT ![i] = "none"] /\ ItemFails("content")
           ELSE file' = Arrived(i) /\ AfterData
        /\ UNCHANGED <<site, siteAnswer, rows, dataCut, manifest, faults>>

\* The disk is full: an OSError, not a RequestException, is not tried again.
StreamFindsNoRoom ==
    /\ fetching.at = "stream" /\ cuts < MaxCuts
    /\ cuts' = cuts + 1
    /\ file' = Dropped(fetching.item)
    /\ ItemFails("file")
    /\ UNCHANGED <<site, siteAnswer, rows, dataCut, manifest, outages, deaths>>

\* A body in memory is refused.
RefuseBody ==
    /\ fetching.at = "body"
    /\ site.refuses /\ siteAnswer[fetching.item] = "senseless"
    /\ ItemFails("content")
    /\ UNCHANGED <<site, siteAnswer, data, manifest, faults>>

\* A body in memory is written: append_with_manifest's data line, which a cut
\* line swallows, or a text file.
WriteBody ==
    LET i == fetching.item
    IN  /\ fetching.at = "body"
        /\ ~(site.refuses /\ siteAnswer[i] = "senseless")
        /\ IF site.storing = "line"
           THEN /\ rows' = [rows EXCEPT ![i] = IF dataCut THEN @ ELSE @ + 1]
                /\ dataCut' = FALSE
                /\ file' = file
           ELSE file' = Arrived(i) /\ UNCHANGED <<rows, dataCut>>
        /\ AfterData
        /\ UNCHANGED <<site, siteAnswer, manifest, faults>>

\* The write stops in the middle, by an OSError (raised outside the try) or
\* because the process dies: either way the session is over.
BodyIsCut ==
    /\ fetching.at = "body" /\ cuts < MaxCuts
    /\ cuts' = cuts + 1
    /\ IF site.storing = "line"
       THEN dataCut' = TRUE /\ file' = file
       ELSE file' = [file EXCEPT ![fetching.item] = "part"] /\ UNCHANGED dataCut
    /\ EndSession
    /\ UNCHANGED <<site, siteAnswer, rows, manifest, outages, deaths>>

\* What part of a manifest line, or a line that runs into one, reads as: no
\* item's id when ids are text, any number when they are numbers.
MisreadAs == {Nothing} \cup (IF site.ids = "numbers" THEN Items ELSE {})

\* append_with_manifest's second line (isotropic writes it on its own).
Note ==
    /\ fetching.at = "note"
    /\ IF noteCut.cut
       THEN \E read \in MisreadAs : noted' = noted \cup ({read} \ {Nothing})
       ELSE noted' = noted \cup {fetching.item}
    /\ noteCut' = Uncut
    /\ NextItem
    /\ UNCHANGED <<site, siteAnswer, data, faults>>

NoteIsCut ==
    /\ fetching.at = "note" /\ cuts < MaxCuts
    /\ cuts' = cuts + 1
    /\ \E read \in MisreadAs : noteCut' = [cut |-> TRUE, as |-> read]
    /\ EndSession
    /\ UNCHANGED <<site, siteAnswer, data, noted, outages, deaths>>

\* The session is killed between two steps.
Die ==
    /\ fetching.at # "down" /\ deaths < MaxDeaths
    /\ deaths' = deaths + 1
    /\ EndSession
    /\ UNCHANGED <<site, siteAnswer, data, manifest, outages, cuts>>

DownloadsStep ==
    \/ ListItems \/ TakeItem \/ FinishSession
    \/ NotFound \/ Answered \/ StreamEnds
    \/ RefuseBody \/ WriteBody \/ Note

DownloadsFault ==
    \/ ListingFails \/ AttemptFails \/ StreamFindsNoRoom
    \/ BodyIsCut \/ NoteIsCut \/ Die

DownloadsNext == StartDownloads \/ DownloadsStep \/ DownloadsFault

DownloadsSpec == DownloadsInit /\ [][DownloadsNext]_itemVars

\* The session is a thread whose requests time out, and it is run again.
DownloadsFairSpec == DownloadsSpec /\ WF_itemVars(DownloadsStep) /\ WF_itemVars(StartDownloads)

-----------------------------------------------------------------------------
(* Properties *)

\* The files and the session are well-formed.
DownloadsTypeOK ==
    /\ site \in Sites \cap SitePolicy
    /\ siteAnswer \in SiteAnswers
    /\ file \in [Items -> {"none", "part", "whole"}]
    /\ rows \in [Items -> Nat]
    /\ dataCut \in BOOLEAN
    /\ noted \subseteq Items
    /\ noteCut \in [cut : BOOLEAN, as : Items \cup {Nothing}]
    /\ fetching \in [at : {"down", "list", "choose", "request", "stream", "body", "note"},
                    left : SUBSET Items, item : Items \cup {Nothing}, attempt : 0..MaxAttempts]
    /\ fetching.at \in {"request", "stream", "body", "note"} => fetching.item \in Items
    /\ outages \in Nat /\ deaths \in Nat /\ cuts \in Nat

\* The item's data is on disk and can be read.
Kept(i) == rows[i] > 0 \/ file[i] = "whole"

\* What no session will fetch although its data is not there: the "silent,
\* undetectable loss" append_with_manifest is written against.
Lost ==
    {i \in Items : i \in Recorded /\ ~Kept(i)
                     /\ ~(fetching.at = "stream" /\ fetching.item = i)}

\* A site whose record cannot speak for data that is not whole.
Guarded ==
    \/ site.record = "digest" \/ site.storing = "staged"
    \/ site.record = "manifest" /\ site.storing = "stream" /\ site.ids = "text"

\* Each item lost has its own fault: a write cut short, which the next append
\* runs into, or, where a file of the final name is the record, a session
\* killed while that file was written.  A guarded site loses nothing whatever
\* happens, and the order of append_with_manifest alone (a death between its
\* two lines) loses nothing either.
LossIsBounded ==
    Cardinality(Lost) <=
        IF Guarded THEN 0 ELSE IF site.record = "manifest" THEN cuts ELSE cuts + deaths

\* The rows of an item after its first, each by its number.
RepeatedRows == UNION {{i} \X (2..rows[i]) : i \in Items}

\* A death repeats one row, "a duplicate line a downstream reader can de-dup
\* on", and a cut manifest line two: its own item and the one that ran into it.
RepeatsAreBounded == Cardinality(RepeatedRows) <= deaths + 2 * cuts

\* Whatever is lost or there twice is the work of a fault of its own.
FaultsExplainTheItems == DownloadsTypeOK /\ LossIsBounded /\ RepeatsAreBounded

\* Whatever this site answers for one item, a session goes on to the next.
Tolerant ==
    \A i \in Items :
        /\ siteAnswer[i] = "missing" => "notFound" \in site.forgives
        /\ siteAnswer[i] = "senseless" /\ site.refuses => "content" \in site.forgives

\* When outages, deaths and full disks end, every item the site has is done:
\* no item, and no earlier loss of a session, keeps the others from it.
ItemsArrive ==
    []Tolerant => <>[](\A i \in Items : siteAnswer[i] = "whole" => i \in Recorded)
=============================================================================
