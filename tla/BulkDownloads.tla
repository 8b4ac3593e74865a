---------------------------- MODULE BulkDownloads ----------------------------
(***************************************************************************)
(* Sessions of a downloader of whole files (src/data_retrieval): everything*)
(* the site lists is fetched anew in every session, a few files or one     *)
(* archive that is then unpacked, and overwrites what the session before   *)
(* left.  Meanwhile the site moves on to newer contents.                   *)
(*                                                                         *)
(* A file is the version of the contents it holds, all or a part of it.    *)
(* One step is one request, one member of an archive or one write.  What a *)
(* request answers is of one version.                                      *)
(***************************************************************************)
EXTENDS FiniteSets, Integers

CONSTANTS
    Versions,    \* per version of the site's contents, the files it lists
    MaxFileAttempts, \* _DEFAULT_MAX_ATTEMPTS
    MaxFileOutages,  \* bound: requests that fail for a time
    MaxFetchDeaths,   \* bound: sessions killed
    MaxNoRooms,  \* bound: writes that find the disk full
    NoName       \* no file

LastVersion == Cardinality(DOMAIN Versions)
Names == UNION {Versions[v] : v \in DOMAIN Versions}

ASSUME BulkAssumption ==
    /\ LastVersion \in Nat \ {0} /\ DOMAIN Versions = 1..LastVersion
    /\ NoName \notin Names
    /\ \A v \in DOMAIN Versions : Versions[v] # {} /\ IsFiniteSet(Versions[v])
    /\ MaxFileAttempts \in Nat \ {0}
    /\ MaxFileOutages \in Nat /\ MaxFetchDeaths \in Nat /\ MaxNoRooms \in Nat

(* What the downloaders differ in:                                         *)
(*   gets      one file, several one after the other, or an archive        *)
(*   inMemory  a body is read whole before its file is opened              *)
(*   dated     each version of the contents has a directory (or file name) *)
(*             of its own                                                  *)
(*   marked    a version is checked against its digest and its Meta.json,  *)
(*             which is written last and marks it done                     *)
SpireCodexCards == [gets |-> "one", inMemory |-> FALSE, dated |-> FALSE, marked |-> FALSE]

CardVaultFabtcg == SpireCodexCards

DominionTabs == [SpireCodexCards EXCEPT !.gets = "several"]

\* one attempt at each page, whose text is written in one go
GwentOne == [DominionTabs EXCEPT !.inMemory = TRUE]

PokemonTcgData == [SpireCodexCards EXCEPT !.gets = "archive"]

\* the dump's address and its files' names carry its date
ScryfallOracle == [PokemonTcgData EXCEPT !.dated = TRUE]

MtgjsonDeckFiles == [ScryfallOracle EXCEPT !.marked = TRUE]

BulkSites ==
    {CardVaultFabtcg, SpireCodexCards, DominionTabs, GwentOne, PokemonTcgData,
     ScryfallOracle, MtgjsonDeckFiles}

VARIABLES
    bulk,       \* the downloader's policy
    version,    \* the version of the contents the site has now
    disk,       \* per directory and name, the file there
    archives,   \* per directory, the archive there
    marks,      \* the versions whose directory holds Meta.json
    fetch,      \* the running session
    landed,     \* history: what the last session that finished had fetched
    troubles    \* history: faults so far

bulkVars == <<bulk, version, disk, archives, marks, fetch, landed, troubles>>

\* A file: none, the whole of a version, or a part of one.
NoFile == 0
WholeOf(v) == v
PartOf(v) == 0 - v

Builds == 0..LastVersion

NoFetch ==
    [at |-> "down", dir |-> 0, left |-> {}, name |-> NoName, attempt |-> 0,
     digest |-> 0, got |-> 0, since |-> 0]

NothingLanded == [dir |-> 0, since |-> 0, upTo |-> 0, files |-> {}]

BulkInit ==
    /\ bulk \in BulkSites
    /\ version = 1
    /\ disk = [d \in Builds |-> [n \in Names |-> NoFile]]
    /\ archives = [d \in Builds |-> NoFile]
    /\ marks = {}
    /\ fetch = NoFetch
    /\ landed = NothingLanded
    /\ troubles = [outages |-> 0, deaths |-> 0, noRooms |-> 0]

OnDisk == <<disk, archives, marks>>

Publish ==
    /\ version < LastVersion
    /\ version' = version + 1
    /\ UNCHANGED <<bulk, OnDisk, fetch, landed, troubles>>

\* The files a downloader names itself; an archive's are known when it is there.
Fixed ==
    CASE bulk.gets = "one"     -> {CHOOSE n \in Versions[1] : TRUE}
      [] bulk.gets = "several" -> Versions[1]
      [] bulk.gets = "archive" -> {}

\* A build that is marked is not fetched again.
StartFetch ==
    /\ fetch.at = "down"
    /\ fetch' = [NoFetch EXCEPT
            !.dir = IF bulk.dated THEN version ELSE 0,
            !.at = IF bulk.marked /\ version \in marks THEN "down"
                   ELSE IF bulk.marked THEN "digest"
                   ELSE IF bulk.gets = "archive" THEN "request" ELSE "choose",
            !.left = Fixed, !.attempt = 1, !.since = version]
    /\ landed' = NothingLanded
    /\ UNCHANGED <<bulk, version, OnDisk, troubles>>

\* The digest MTGJSON publishes beside its archive.
ReadDigest ==
    /\ fetch.at = "digest"
    /\ fetch' = [fetch EXCEPT !.at = "request", !.digest = version]
    /\ UNCHANGED <<bulk, version, OnDisk, landed, troubles>>

Choose ==
    /\ fetch.at = "choose"
    /\ \E n \in fetch.left :
         fetch' = [fetch EXCEPT !.at = IF bulk.gets = "archive" THEN "open" ELSE "request",
                                !.name = n, !.attempt = 1]
    /\ UNCHANGED <<bulk, version, OnDisk, landed, troubles>>

\* What download_to_file writes to: the archive, or the file itself.
Save(file) ==
    IF bulk.gets = "archive"
    THEN archives' = [archives EXCEPT ![fetch.dir] = file] /\ UNCHANGED disk
    ELSE disk' = [disk EXCEPT ![fetch.dir][fetch.name] = file] /\ UNCHANGED archives

\* A dated address stays what it was; any other gives what the site has now.
AnsweredVersion == IF bulk.dated /\ ~bulk.marked THEN fetch.dir ELSE version

Request ==
    /\ fetch.at = "request"
    /\ fetch' = [fetch EXCEPT !.at = "body", !.got = AnsweredVersion]
    /\ IF bulk.inMemory THEN UNCHANGED <<disk, archives>> ELSE Save(PartOf(AnsweredVersion))
    /\ UNCHANGED <<bulk, version, marks, landed, troubles>>

\* download_to_file removes what it wrote and tries again; a page fetched in
\* one attempt leaves the file of an earlier session.
RequestFails ==
    /\ fetch.at \in {"request", "body"} /\ troubles.outages < MaxFileOutages
    /\ ~(bulk.inMemory /\ fetch.at = "body")
    /\ troubles' = [troubles EXCEPT !.outages = @ + 1]
    /\ IF bulk.inMemory THEN UNCHANGED <<disk, archives>> ELSE Save(NoFile)
    /\ fetch' = IF bulk.inMemory \/ fetch.attempt = MaxFileAttempts THEN NoFetch
                ELSE [fetch EXCEPT !.at = "request", !.attempt = @ + 1]
    /\ UNCHANGED <<bulk, version, marks, landed>>

\* A file of the list is done: the next, or the end of the session.
AfterFile ==
    fetch' = [fetch EXCEPT !.left = @ \ {fetch.name}, !.name = NoName, !.at =
                IF fetch.left # {fetch.name} THEN "choose"
                ELSE IF bulk.marked THEN "unlink" ELSE "finish"]

BodyEnds ==
    /\ fetch.at = "body"
    /\ Save(WholeOf(fetch.got))
    /\ IF bulk.gets # "archive" THEN AfterFile
       ELSE fetch' = [fetch EXCEPT !.at = IF bulk.marked THEN "check" ELSE "choose",
                                   !.left = Versions[fetch.got]]
    /\ UNCHANGED <<bulk, version, marks, landed, troubles>>

\* check_sha256 deletes an archive of another digest and raises.
CheckDigest ==
    /\ fetch.at = "check"
    /\ IF fetch.digest = fetch.got
       THEN fetch' = [fetch EXCEPT !.at = "metaAgain"] /\ UNCHANGED archives
       ELSE fetch' = NoFetch /\ archives' = [archives EXCEPT ![fetch.dir] = NoFile]
    /\ UNCHANGED <<bulk, version, disk, marks, landed, troubles>>

\* Mutant of Rebuilt: Meta.json is not read a second time.
NeverRebuilt == FALSE

\* Meta.json no longer names the build the directory is named after.
Rebuilt == version # fetch.dir

ReadMetaAgain ==
    /\ fetch.at = "metaAgain"
    /\ fetch' = IF Rebuilt THEN NoFetch ELSE [fetch EXCEPT !.at = "choose"]
    /\ UNCHANGED <<bulk, version, OnDisk, landed, troubles>>

OpenMember ==
    /\ fetch.at = "open"
    /\ disk' = [disk EXCEPT ![fetch.dir][fetch.name] = PartOf(fetch.got)]
    /\ fetch' = [fetch EXCEPT !.at = "unpack"]
    /\ UNCHANGED <<bulk, version, archives, marks, landed, troubles>>

UnpackMember ==
    /\ fetch.at = "unpack"
    /\ disk' = [disk EXCEPT ![fetch.dir][fetch.name] = WholeOf(fetch.got)]
    /\ AfterFile
    /\ UNCHANGED <<bulk, version, archives, marks, landed, troubles>>

UnlinkArchive ==
    /\ fetch.at = "unlink"
    /\ archives' = [archives EXCEPT ![fetch.dir] = NoFile]
    /\ fetch' = [fetch EXCEPT !.at = "mark"]
    /\ UNCHANGED <<bulk, version, disk, marks, landed, troubles>>

\* Meta.json, the last file of a build; a cut one marks it too.
Mark ==
    /\ fetch.at = "mark"
    /\ marks' = marks \cup {fetch.dir}
    /\ fetch' = [fetch EXCEPT !.at = "finish"]
    /\ UNCHANGED <<bulk, version, disk, archives, landed, troubles>>

FinishFetch ==
    /\ fetch.at = "finish"
    /\ landed' = [dir |-> fetch.dir, since |-> fetch.since, upTo |-> version,
                  files |-> IF bulk.gets = "archive" THEN Versions[fetch.got] ELSE Fixed]
    /\ fetch' = NoFetch
    /\ UNCHANGED <<bulk, version, OnDisk, troubles>>

\* An OSError ends the session after the file in hand is removed; only the
\* members of MTGJSON's archive are written without such care.
NoRoom ==
    /\ fetch.at \in {"body", "unpack"} /\ troubles.noRooms < MaxNoRooms
    /\ troubles' = [troubles EXCEPT !.noRooms = @ + 1]
    /\ IF fetch.at = "body" THEN Save(NoFile)
       ELSE /\ disk' = IF bulk.marked THEN disk
                       ELSE [disk EXCEPT ![fetch.dir][fetch.name] = NoFile]
            /\ UNCHANGED archives
    /\ fetch' = NoFetch
    /\ UNCHANGED <<bulk, version, marks, landed>>

\* Killed: between two steps, or while a text in memory is being written.
FetchDies ==
    /\ fetch.at # "down" /\ troubles.deaths < MaxFetchDeaths
    /\ troubles' = [troubles EXCEPT !.deaths = @ + 1]
    /\ \/ UNCHANGED <<disk, archives>>
       \/ bulk.inMemory /\ fetch.at = "body" /\ Save(PartOf(fetch.got))
    /\ fetch' = NoFetch
    /\ UNCHANGED <<bulk, version, marks, landed>>

BulkNext ==
    \/ Publish \/ StartFetch \/ ReadDigest \/ Choose \/ Request \/ RequestFails
    \/ BodyEnds \/ CheckDigest \/ ReadMetaAgain \/ OpenMember \/ UnpackMember
    \/ UnlinkArchive \/ Mark \/ FinishFetch \/ NoRoom \/ FetchDies

BulkSpec == BulkInit /\ [][BulkNext]_bulkVars

-----------------------------------------------------------------------------
(* Properties *)

\* The disk and the session are well-formed.
BulkTypes ==
    LET File == (0 - LastVersion)..LastVersion
    IN  /\ bulk \in BulkSites
        /\ disk \in [Builds -> [Names -> File]]
        /\ archives \in [Builds -> File]
        /\ marks \subseteq DOMAIN Versions /\ version \in DOMAIN Versions
        /\ fetch.left \subseteq Names

\* A marked build is what its directory is named after: its files, whole, of
\* that version, and no others, whenever MTGJSON rebuilt
\* (latest_build_decks_dir reads a directory for its Meta.json alone).
MarkedBuildsAreWhole ==
    \A v \in marks, n \in Names :
        disk[v][n] = IF n \in Versions[v] THEN WholeOf(v) ELSE NoFile

\* The file in hand.
Writing ==
    IF fetch.at \in {"body", "unpack"} THEN {<<fetch.dir, fetch.name>>} ELSE {}

HalfWritten == {p \in Builds \X Names : disk[p[1]][p[2]] < NoFile} \ Writing

\* Files left half-written have a fault each: a session killed while it wrote
\* one, or, where no cleanup follows, a full disk.
PartsAreOfFaults ==
    Cardinality(HalfWritten)
        <= troubles.deaths + (IF bulk.marked THEN troubles.noRooms ELSE 0)

\* What a session that came to its end leaves: every file it was to fetch,
\* whole, as the site had it during that session; what an archive unpacks to
\* is of one version.
LandedIsWhole ==
    /\ \A n \in landed.files :
         \E v \in landed.since..landed.upTo : disk[landed.dir][n] = WholeOf(v)
    /\ bulk.gets = "archive" =>
         \A n, m \in landed.files : disk[landed.dir][n] = disk[landed.dir][m]

\* Whatever stands half-written or under another build's name is the work of a
\* fault of its own, and of no session that finished.
FaultsExplainTheFiles ==
    BulkTypes /\ MarkedBuildsAreWhole /\ PartsAreOfFaults /\ LandedIsWhole
=============================================================================
