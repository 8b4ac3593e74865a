------------------------------ MODULE RunExport ------------------------------
(***************************************************************************)
(* The paged export of runs (src/data_retrieval/spire_codex/               *)
(* run_downloader.py): pages of one window of time are fetched in a chain, *)
(* each by the cursor that came with the page before, and kept as a file   *)
(* with a sidecar that holds the next cursor, or nothing after the last    *)
(* page.  A session resumes from the files alone and may die anywhere.     *)
(*                                                                         *)
(* A page is the window it was asked for and whether it is all there.      *)
(***************************************************************************)
EXTENDS Integers, FiniteSets

CONSTANTS
    Windows,        \* the (start, end) a caller may ask for
    Pages,          \* per window, how many pages the site has
    MaxPageAttempts,    \* _PAGE_FETCH_MAX_ATTEMPTS
    MaxPageOutages,     \* bound: requests that fail for a time
    MaxSidecarCuts,        \* bound: writes of a small file cut short
    MaxWalkDeaths,      \* bound: sessions killed
    NoWindow, CutWindow  \* window.json absent, and unreadable

ASSUME ExportAssumption ==
    /\ Pages \in [Windows -> Nat \ {0}] /\ IsFiniteSet(Windows)
    /\ {NoWindow, CutWindow} \cap Windows = {} /\ NoWindow # CutWindow
    /\ MaxPageAttempts \in Nat \ {0}
    /\ MaxPageOutages \in Nat /\ MaxSidecarCuts \in Nat /\ MaxWalkDeaths \in Nat

VARIABLES
    window,     \* window.json
    pages,      \* page_<i>.jsonl.gz
    sidecar,    \* page_<i>.next_cursor: a cursor, a part of one, or empty
    walk,       \* the running session
    cutSidecars, mishaps  \* history: faults so far

exportVars == <<window, pages, sidecar, walk, cutSidecars, mishaps>>
exportDisk == <<window, pages, sidecar>>

Index == UNION {0..(Pages[w] - 1) : w \in Windows}

NoPage == [of |-> NoWindow, whole |-> FALSE]
NoWalk == [at |-> "down", want |-> NoWindow, page |-> 0, cursor |-> "none", attempt |-> 0]

ExportInit ==
    /\ window = NoWindow
    /\ pages = [i \in Index |-> NoPage]
    /\ sidecar = [i \in Index |-> "none"]
    /\ walk = NoWalk
    /\ cutSidecars = 0
    /\ mishaps = [outages |-> 0, cuts |-> 0, deaths |-> 0]

StartWalk ==
    /\ walk.at = "down"
    /\ \E w \in Windows : walk' = [NoWalk EXCEPT !.at = "window", !.want = w]
    /\ UNCHANGED <<exportDisk, cutSidecars, mishaps>>

\* A window other than the recorded one, or one that cannot be read, raises.
RecordWindow ==
    /\ walk.at = "window"
    /\ window' = IF window = NoWindow THEN walk.want ELSE window
    /\ walk' = IF window \in {NoWindow, walk.want} THEN [walk EXCEPT !.at = "scan"]
               ELSE NoWalk
    /\ UNCHANGED <<pages, sidecar, cutSidecars, mishaps>>

\* Mutant of Downloaded: a page's file is enough.
FileIsThere(i) == pages[i] # NoPage

Downloaded(i) == pages[i] # NoPage /\ sidecar[i] # "none"

\* _scan_downloaded_pages: it stops at the first gap.
Scanned == {i \in Index : \A j \in 0..i : Downloaded(j)}

\* _resume_point: the last page's sidecar is empty.
Complete ==
    Scanned # {} /\ sidecar[Cardinality(Scanned) - 1] = "empty"

Resume ==
    LET next == Cardinality(Scanned)
    IN  /\ walk.at = "scan"
        /\ walk' = IF Complete THEN NoWalk
                   ELSE [walk EXCEPT !.at = "request", !.page = next, !.attempt = 1,
                            !.cursor = IF next = 0 THEN "none" ELSE sidecar[next - 1]]
        /\ UNCHANGED <<exportDisk, cutSidecars, mishaps>>

\* The site knows its own cursors only.
Asked ==
    /\ walk.at = "request" /\ walk.cursor # "part"
    /\ pages' = [pages EXCEPT ![walk.page] = [of |-> walk.want, whole |-> FALSE]]
    /\ walk' = [walk EXCEPT !.at = "body"]
    /\ UNCHANGED <<window, sidecar, cutSidecars, mishaps>>

Refused ==
    /\ walk.at = "request" /\ walk.cursor = "part"
    /\ pages' = [pages EXCEPT ![walk.page] = NoPage]
    /\ walk' = NoWalk
    /\ UNCHANGED <<window, sidecar, cutSidecars, mishaps>>

\* An attempt fails: what arrived is removed, and the page asked for again.
AskAgain ==
    /\ walk.at \in {"request", "body"} /\ mishaps.outages < MaxPageOutages
    /\ mishaps' = [mishaps EXCEPT !.outages = @ + 1]
    /\ pages' = [pages EXCEPT ![walk.page] = NoPage]
    /\ walk' = IF walk.attempt < MaxPageAttempts
               THEN [walk EXCEPT !.at = "request", !.attempt = @ + 1] ELSE NoWalk
    /\ UNCHANGED <<window, sidecar, cutSidecars>>

PageArrives ==
    /\ walk.at = "body"
    /\ pages' = [pages EXCEPT ![walk.page].whole = TRUE]
    /\ walk' = [walk EXCEPT !.at = "sidecar"]
    /\ UNCHANGED <<window, sidecar, cutSidecars, mishaps>>

\* X-Next-Cursor, which the window's last page comes without.
NextCursor == IF walk.page = Pages[walk.want] - 1 THEN "empty" ELSE "cursor"

WriteSidecar ==
    /\ walk.at = "sidecar"
    /\ sidecar' = [sidecar EXCEPT ![walk.page] = NextCursor]
    /\ walk' = IF NextCursor = "empty" THEN NoWalk
               ELSE [walk EXCEPT !.at = "request", !.page = @ + 1, !.attempt = 1,
                                 !.cursor = "cursor"]
    /\ UNCHANGED <<window, pages, cutSidecars, mishaps>>

\* write_text truncates the file before it writes.
WriteIsCut ==
    /\ mishaps.cuts < MaxSidecarCuts
    /\ mishaps' = [mishaps EXCEPT !.cuts = @ + 1]
    /\ walk' = NoWalk
    /\ \/ /\ walk.at = "window" /\ window = NoWindow
          /\ window' = CutWindow
          /\ UNCHANGED <<pages, sidecar, cutSidecars>>
       \/ /\ walk.at = "sidecar"
          /\ \E left \in {"empty"} \cup (IF NextCursor = "cursor" THEN {"part"} ELSE {}) :
               sidecar' = [sidecar EXCEPT ![walk.page] = left]
          /\ cutSidecars' = cutSidecars + 1
          /\ UNCHANGED <<window, pages>>
       \/ /\ walk.at = "body"  \* a full disk: the page is removed
          /\ pages' = [pages EXCEPT ![walk.page] = NoPage]
          /\ UNCHANGED <<window, sidecar, cutSidecars>>

WalkDies ==
    /\ walk.at # "down" /\ mishaps.deaths < MaxWalkDeaths
    /\ mishaps' = [mishaps EXCEPT !.deaths = @ + 1]
    /\ walk' = NoWalk
    /\ UNCHANGED <<exportDisk, cutSidecars>>

ExportNext ==
    \/ StartWalk \/ RecordWindow \/ Resume \/ Asked \/ Refused \/ AskAgain
    \/ PageArrives \/ WriteSidecar \/ WriteIsCut \/ WalkDies

ExportSpec == ExportInit /\ [][ExportNext]_exportVars

-----------------------------------------------------------------------------
(* Properties *)

\* Pages with a sidecar are the first ones of one chain, each whole and of the
\* recorded window, whatever windows later sessions asked for; and a session
\* that stops there finds every page, unless a sidecar was cut (the sidecar is
\* "written only after that page's data file is fully written").
ExportIsOneChain ==
    LET sealed == {i \in Index : sidecar[i] # "none"}
    IN  /\ sealed = 0..(Cardinality(sealed) - 1)
        /\ \A i \in sealed : pages[i] = [of |-> window, whole |-> TRUE]
        /\ Cardinality({i \in Index : pages[i] # NoPage}) <= Cardinality(sealed) + 1
        /\ Complete /\ cutSidecars = 0 => Cardinality(sealed) = Pages[window]

\* "Resume point: every page of this corpus/window is already on disk", says
\* _ExportComplete.  A sidecar that a kill or a full disk left empty says so
\* after any page.
CompleteExportHasEveryPage == Complete => Cardinality(Scanned) = Pages[window]
=============================================================================
