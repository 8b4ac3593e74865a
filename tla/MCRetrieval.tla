----------------------------- MODULE MCRetrieval -----------------------------
(* The retrieval of raw data, one kind of downloader in each behaviour.      *)
(* Item after item: every site of Downloads over three items, two there and  *)
(* one missing or senseless, or one of each (in one order: they are alike).  *)
(* A crawl by ids: a plan of three ids with a skipped slot in the middle and *)
(* one at the end, whose second shard is reached.  Whole files: every site   *)
(* of BulkDownloads over contents that change twice.  Pages: an export of    *)
(* three pages, and callers that ask for another window of two.              *)
EXTENDS ResumableCrawl, Downloads, BulkDownloads, RunExport

CONSTANTS
    own,
    i1, i2, i3,
    Parts           \* the parts this run is about

MCKinds == <<"whole", "missing", "senseless">>
MCItems == {i1, i2, i3}
MCAnswers ==
    {[i \in MCItems |-> MCKinds[CASE i = i1 -> 1 [] i = i2 -> k[1] [] i = i3 -> k[2]]] :
        k \in {pair \in (1..3) \X (1..3) : pair[1] < pair[2]}}

MCDirectories == {own}
MCPlans == {SpreadOver(<<1, 2>>, 3)}
MCVersions == <<{"a", "b"}, {"b", "c"}, {"b"}>>
MCPages == [w \in {"recent", "all"} |-> IF w = "all" THEN 3 ELSE 2]
MCWindows == DOMAIN MCPages

VARIABLE part

allVars == <<part, vars, itemVars, bulkVars, exportVars>>

\* Only a behaviour's own part starts in more than one way.
MCInit ==
    /\ part \in Parts
    /\ Init /\ DownloadsInit /\ BulkInit /\ ExportInit
    /\ part # "items" => site = STSGG /\ siteAnswer = CHOOSE one \in SiteAnswers : TRUE
    /\ part # "bulk" => bulk = PokemonTcgData

OtherThanItems == UNCHANGED <<part, vars, bulkVars, exportVars>>
OtherThanCrawl == UNCHANGED <<part, itemVars, bulkVars, exportVars>>

ItemsGo == part = "items" /\ (DownloadsStep \/ StartDownloads) /\ OtherThanItems
ItemsFault == part = "items" /\ DownloadsFault /\ OtherThanItems
CrawlGo == part = "crawl" /\ (Step \/ StartSession) /\ OtherThanCrawl
CrawlCrash == part = "crawl" /\ Crash /\ OtherThanCrawl
FilesGo == part = "bulk" /\ BulkNext /\ UNCHANGED <<part, itemVars, vars, exportVars>>
PagesGo == part = "export" /\ ExportNext /\ UNCHANGED <<part, itemVars, vars, bulkVars>>

MCNext ==
    ItemsGo \/ ItemsFault \/ CrawlGo \/ CrawlCrash \/ FilesGo \/ PagesGo

\* DownloadsFairSpec and FairSpec of ResumableCrawl: a session is to be started
\* or takes steps, never both, so one condition is the two of theirs.
MCSpec == MCInit /\ [][MCNext]_allVars /\ WF_allVars(ItemsGo \/ CrawlGo)

\* Whatever is lost, repeated, half-written or of another build, window or
\* version is the work of a fault of its own (Downloads, BulkDownloads,
\* RunExport); a part that is not the behaviour's own stays as it started.
FaultsExplainTheData ==
    FaultsExplainTheItems /\ FaultsExplainTheFiles /\ ExportIsOneChain

\* Every item the site has is done in the end (Downloads).
EveryItemArrives == part = "items" => ItemsArrive

\* A crawl reaches its plan's end whatever the site answers (ResumableCrawl).
EveryCrawlFinishes == part = "crawl" => CrawlFinishes
=============================================================================
