--------------------------- MODULE ResumableCrawl ---------------------------
(***************************************************************************)
(* A resumable crawl's directory and the sessions that walk it             *)
(* (src/data_retrieval/resumable_crawl/: walk.py, crawl_files.py): the     *)
(* cursor, the shards of rows (one family in the crawl's own directory and *)
(* one in its private/ subdirectory), the log of rejects.                  *)
(*                                                                         *)
(* Every file operation the order of which matters is a step of its own:   *)
(* an append, the replacement of a shard by its .gz, the deletion of the   *)
(* plain file, the replacement of the cursor.  A session may die between   *)
(* any two of them (killed, or an OSError raised out of the walk), and in  *)
(* the middle of an append, which leaves a torn last line.  The next       *)
(* session starts from the files alone.                                    *)
(*                                                                         *)
(* A row or a reject is the walk position it answers.  What the site       *)
(* answers is free: any outcome, at any time, also a different one when an *)
(* id is asked for again.                                                  *)
(***************************************************************************)
EXTENDS Integers, SequencesExt

CONSTANTS
    Plans,                  \* the plans a crawl may have
    Directories,            \* where a row may land: the crawl's own, private/
    RowsPerShard,           \* rows_per_shard
    MaxSessionFailures,     \* WalkPolicy.max_session_failures
    MaxConsecutiveRejects,  \* WalkPolicy.max_consecutive_rejects
    MaxCrashes,             \* bound: sessions that die
    Torn,                   \* a partial last line
    Closed                  \* shards no row of this session landed in yet

ASSUME CrawlAssumption ==
    /\ \A walk \in Plans : walk.sitemap \in Seq(Nat) /\ walk.n \in Nat \ {0}
    /\ RowsPerShard \in Nat \ {0}
    /\ MaxSessionFailures \in Nat \ {0}
    /\ MaxConsecutiveRejects \in Nat \ {0}
    /\ MaxCrashes \in Nat
    /\ Torn \notin Nat \cup [position : Nat, why : {"reject", "giveUp"}]
    /\ Closed \notin [number : Nat, rows : Nat]

-----------------------------------------------------------------------------
(* The plan (spread_order.py, sitemap_spread_plan.py): the sitemap's ids     *)
(* first, then every id of 1..n in a fixed order whose slots that hold a     *)
(* sitemap id are skipped.  A plan is a record [sitemap, n, stride]; an item *)
(* is its id.  Positions count from 0 and count the skipped slots too, so    *)
(* one number is the whole cursor.                                           *)

Coprime(m, n) == \A d \in 2..n : n % d # 0 \/ m % d # 0

\* round(n / golden ratio); exact for the sizes a run can hold, where the
\* quotient stays far from a half.
NearGolden(n) == (n * 618034 + 500000) \div 1000000

\* The first stride at or above n / golden ratio that is coprime to n.
StrideFor(n) ==
    LET first == IF NearGolden(n) < 1 THEN 1 ELSE NearGolden(n)
    IN  CHOOSE s \in first..(first + n) :
            Coprime(s, n) /\ \A t \in first..(s - 1) : ~Coprime(t, n)

SpreadOver(sitemap, n) == [sitemap |-> sitemap, n |-> n, stride |-> StrideFor(n)]

PlanLength(walk) == Len(walk.sitemap) + walk.n

\* Mutant of IdAt: the ids count from 0.
IdFromZero(walk, k) == (k * walk.stride) % walk.n

IdAt(walk, k) == ((k * walk.stride) % walk.n) + 1

\* The id a walk position stands for; a spread slot's may be a skipped one.
IdOf(walk, position) ==
    IF position < Len(walk.sitemap)
    THEN walk.sitemap[position + 1]
    ELSE IdAt(walk, position - Len(walk.sitemap))

Walked(walk, position) ==
    \/ position < Len(walk.sitemap)
    \/ IdOf(walk, position) \notin Range(walk.sitemap)

\* The positions ids_from(position) yields.
IdsFrom(walk, position) ==
    {p \in position..(PlanLength(walk) - 1) : Walked(walk, p)}

-----------------------------------------------------------------------------
VARIABLES
    plan,       \* fixed when the crawl was planned
    cursor,     \* cursor.json: the next position, sessions failed on it
    plain,      \* per directory: decks-<n>.jsonl, number -> lines
    gz,         \* per directory: decks-<n>.jsonl.gz, number -> lines
    rejects,    \* rejects.jsonl: the positions rejected, and why
    session,    \* the memory of the running walk()
    answer,     \* history: the site's last answer for each position
    failed,     \* history: sessions that failed on each position, counted up
                \* to max_session_failures
    crashes     \* history: sessions that died

files == <<cursor, plain, gz, rejects>>
history == <<answer, failed, crashes>>
vars == <<plan, cursor, plain, gz, rejects, session, answer, failed, crashes>>

Answers == {"none", "found", "notFound", "rejected", "transient"}

Length == PlanLength(plan)

NoSession ==
    [at |-> "down", position |-> 0, left |-> 0, failures |-> 0, start |-> 0,
     consecutive |-> 0, directory |-> Closed,
     shards |-> [d \in Directories |-> Closed], checked |-> FALSE,
     shard |-> 0, landed |-> FALSE]

Init ==
    /\ plan \in Plans
    /\ cursor = [position |-> 0, failures |-> 0]
    /\ plain = [d \in Directories |-> <<>>]
    /\ gz = [d \in Directories |-> <<>>]
    /\ rejects = <<>>
    /\ session = NoSession
    /\ answer = [p \in 0..(Length - 1) |-> "none"]
    /\ failed = [p \in 0..(Length - 1) |-> 0]
    /\ crashes = 0

-----------------------------------------------------------------------------
(* Files *)

\* A file's whole lines: cut_torn_last_line.
Whole(lines) ==
    IF lines # <<>> /\ lines[Len(lines)] = Torn
    THEN SubSeq(lines, 1, Len(lines) - 1)
    ELSE lines

\* append_line; a file that is absent is created.
AppendTo(shardFiles, number, line) ==
    [n \in DOMAIN shardFiles \cup {number} |->
        IF n # number THEN shardFiles[n]
        ELSE IF n \in DOMAIN shardFiles THEN Append(shardFiles[n], line)
        ELSE <<line>>]

Without(shardFiles, number) == Restrict(shardFiles, DOMAIN shardFiles \ {number})

ShardNumbers(d) == DOMAIN plain[d] \cup DOMAIN gz[d]

Newest(d) ==
    IF ShardNumbers(d) = {} THEN 0
    ELSE CHOOSE n \in ShardNumbers(d) : \A m \in ShardNumbers(d) : m <= n

\* Plain files whose compression a crash cut short, as opening finds them.
HalfCompressed(d) == {n \in DOMAIN plain[d] : n < Newest(d) \/ n \in DOMAIN gz[d]}

-----------------------------------------------------------------------------
(* A session *)

\* walk(): reads the cursor; max_items may stop it early.
StartSession ==
    /\ session.at = "down"
    /\ \E left \in 0..(Length - cursor.position) :
         /\ left = 0 => cursor.position = Length
         /\ session' = [NoSession EXCEPT
                !.at = "next", !.position = cursor.position,
                !.start = cursor.position, !.failures = cursor.failures,
                !.left = left]
    /\ UNCHANGED <<plan, files, history>>

\* Mutants of FailuresAt: the count belongs to no position; it is not kept.
FailuresAnywhere(p) == session.failures
FailuresForgotten(p) == 0

\* Sessions already failed on p: only the cursor's own position has any.
FailuresAt(p) == IF p = session.start THEN session.failures ELSE 0

\* What the walk does with an answer for the position it is at.
AfterAnswer(p, what) ==
    CASE what = "found"     -> {[session EXCEPT !.at = "row", !.position = p,
                                    !.directory = d, !.landed = FALSE,
                                    !.consecutive = 0] : d \in Directories}
      [] what = "notFound"  -> {[session EXCEPT !.at = "cursor", !.position = p,
                                    !.consecutive = 0]}
      [] what = "rejected"  -> {[session EXCEPT !.at = "reject", !.position = p,
                                    !.consecutive = @ + 1]}
      [] what = "transient" -> {[session EXCEPT !.position = p, !.at =
                                    IF FailuresAt(p) + 1 < MaxSessionFailures
                                    THEN "failure" ELSE "giveUp"]}

Fetch ==
    /\ session.at = "next" /\ session.left > 0
    /\ \E p \in IdsFrom(plan, session.position), what \in Answers \ {"none"} :
         /\ \A q \in IdsFrom(plan, session.position) : p <= q
         /\ session' \in AfterAnswer(p, what)
         /\ answer' = [answer EXCEPT ![p] = what]
         /\ failed' = IF what = "transient" /\ failed[p] < MaxSessionFailures
                      THEN [failed EXCEPT ![p] = @ + 1] ELSE failed
    /\ UNCHANGED <<plan, files, crashes>>

\* JsonlShards.__init__: compressions a crash interrupted are finished first.
FinishCompression ==
    LET d == session.directory IN
    /\ session.at = "row" /\ session.shards[d] = Closed
    /\ \E n \in HalfCompressed(d) :
         /\ \A m \in HalfCompressed(d) : n <= m
         /\ session' = [session EXCEPT !.at = "compress", !.shard = n]
    /\ UNCHANGED <<plan, files, history>>

OpenedAt(d) ==
    IF Newest(d) \in DOMAIN gz[d]
    THEN [number |-> Newest(d) + 1, rows |-> 0]
    ELSE [number |-> Newest(d),
          rows |-> IF Newest(d) \in DOMAIN plain[d]
                   THEN Len(Whole(plain[d][Newest(d)])) ELSE 0]

OpenShards ==
    LET d == session.directory IN
    /\ session.at = "row" /\ session.shards[d] = Closed
    /\ HalfCompressed(d) = {}
    /\ session' = [session EXCEPT
            !.shards[d] = OpenedAt(d), !.shard = OpenedAt(d).number,
            !.at = IF OpenedAt(d).rows >= RowsPerShard THEN "compress" ELSE "row"]
    /\ plain' = [plain EXCEPT ![d] = [n \in DOMAIN plain[d] |->
            IF n = OpenedAt(d).number THEN Whole(plain[d][n]) ELSE plain[d][n]]]
    /\ UNCHANGED <<plan, cursor, gz, rejects, history>>

\* JsonlShards.append: a full shard is compressed before the cursor moves.
AppendRow ==
    LET d == session.directory IN
    /\ session.at = "row" /\ session.shards[d] # Closed
    /\ plain' = [plain EXCEPT
            ![d] = AppendTo(@, session.shards[d].number, session.position)]
    /\ session' = [session EXCEPT
            !.landed = TRUE, !.shards[d].rows = @ + 1,
            !.shard = session.shards[d].number,
            !.at = IF session.shards[d].rows + 1 >= RowsPerShard
                   THEN "compress" ELSE "cursor"]
    /\ UNCHANGED <<plan, cursor, gz, rejects, history>>

\* gzip_and_remove: the verified .gz replaces, then the plain file goes.
Compress ==
    LET d == session.directory IN
    /\ session.at = "compress"
    /\ gz' = [gz EXCEPT ![d] = [n \in DOMAIN gz[d] \cup {session.shard} |->
            IF n = session.shard THEN plain[d][n] ELSE gz[d][n]]]
    /\ session' = [session EXCEPT !.at = "unlink"]
    /\ UNCHANGED <<plan, cursor, plain, rejects, history>>

\* The shard after a full one starts empty (_rotate).
Rotated(opened) ==
    IF opened = Closed THEN Closed ELSE [number |-> opened.number + 1, rows |-> 0]

Unlink ==
    LET d == session.directory IN
    /\ session.at = "unlink"
    /\ plain' = [plain EXCEPT ![d] = Without(@, session.shard)]
    /\ session' = [session EXCEPT
            !.shards[d] = Rotated(@), !.shard = 0,
            !.at = IF session.landed THEN "cursor" ELSE "row"]
    /\ UNCHANGED <<plan, cursor, gz, rejects, history>>

\* RejectLog.append: the first one of a session cuts a torn line off.
Rejected(why) ==
    LET log == IF session.checked THEN rejects ELSE Whole(rejects)
    IN  Append(log, [position |-> session.position, why |-> why])

AppendReject ==
    /\ session.at \in {"reject", "giveUp"}
    /\ rejects' = Rejected(session.at)
    /\ session' = [session EXCEPT !.checked = TRUE,
            !.at = IF session.at = "reject" THEN "cursor" ELSE "cursorThenRaise"]
    /\ UNCHANGED <<plan, cursor, plain, gz, history>>

Blocked == session.consecutive >= MaxConsecutiveRejects

\* The cursor moves past the id; then _check_not_blocked.
MoveCursor ==
    /\ session.at \in {"cursor", "cursorThenRaise"}
    /\ cursor' = [position |-> session.position + 1, failures |-> 0]
    /\ session' = IF session.at = "cursorThenRaise" \/ Blocked THEN NoSession
                  ELSE [session EXCEPT !.at = "next", !.position = @ + 1,
                            !.left = @ - 1, !.directory = Closed,
                            !.landed = FALSE, !.shard = 0]
    /\ UNCHANGED <<plan, plain, gz, rejects, history>>

\* A transient failure below the limit: the cursor stays, its count rises.
RecordFailure ==
    /\ session.at = "failure"
    /\ cursor' = [position |-> session.position,
                  failures |-> FailuresAt(session.position) + 1]
    /\ session' = NoSession
    /\ UNCHANGED <<plan, plain, gz, rejects, history>>

\* The loop ends; _finish_if_only_skips_remain.
Finish ==
    /\ session.at = "next"
    /\ session.left = 0 \/ IdsFrom(plan, session.position) = {}
    /\ cursor' = IF session.position < Length /\ IdsFrom(plan, session.position) = {}
                 THEN [position |-> Length, failures |-> 0] ELSE cursor
    /\ session' = NoSession
    /\ UNCHANGED <<plan, plain, gz, rejects, history>>

\* A session dies between two steps, or in an append.
Crash ==
    /\ session.at # "down" /\ crashes < MaxCrashes
    /\ crashes' = crashes + 1
    /\ session' = NoSession
    /\ \/ UNCHANGED <<plain, rejects>>
       \/ /\ session.at = "row" /\ session.shards[session.directory] # Closed
          /\ plain' = [plain EXCEPT ![session.directory] =
                 AppendTo(@, session.shards[session.directory].number, Torn)]
          /\ UNCHANGED rejects
       \/ /\ session.at \in {"reject", "giveUp"}
          /\ rejects' = Append(IF session.checked THEN rejects ELSE Whole(rejects), Torn)
          /\ UNCHANGED plain
    /\ UNCHANGED <<plan, cursor, gz, answer, failed>>

Step ==
    \/ Fetch \/ FinishCompression \/ OpenShards \/ AppendRow \/ Compress
    \/ Unlink \/ AppendReject \/ MoveCursor \/ RecordFailure \/ Finish

Next == StartSession \/ Step \/ Crash

Spec == Init /\ [][Next]_vars

\* The walk is one thread and its GETs time out; whoever runs the crawl
\* starts a new session after one that ended.
FairSpec == Spec /\ WF_vars(StartSession) /\ WF_vars(Step)

-----------------------------------------------------------------------------
(* Properties *)

Position == 0..(Length - 1)

Lines == Seq(Position \cup {Torn})

\* The crawl's state is well-formed.
TypeOK ==
    /\ plan \in Plans
    /\ cursor \in [position : 0..Length, failures : 0..(MaxSessionFailures - 1)]
    /\ \A d \in Directories :
         /\ \A n \in DOMAIN plain[d] : n \in Nat /\ plain[d][n] \in Lines
         /\ \A n \in DOMAIN gz[d] : n \in Nat /\ gz[d][n] \in Seq(Position)
    /\ rejects \in Seq([position : Position, why : {"reject", "giveUp"}] \cup {Torn})
    /\ session.position \in 0..Length /\ session.left \in 0..Length
    /\ session.consecutive \in 0..MaxConsecutiveRejects
    /\ answer \in [Position -> Answers]

\* The lines of a shard, from whichever of its files holds them.
LinesOf(d, n) ==
    IF n \in DOMAIN gz[d] THEN gz[d][n]
    ELSE IF n \in DOMAIN plain[d] THEN Whole(plain[d][n]) ELSE <<>>

\* The rows that answer a position, each by its directory, shard and line.
RowsFor(d, p) ==
    {r \in {d} \X ShardNumbers(d) \X (1..RowsPerShard) :
        r[3] <= Len(LinesOf(d, r[2])) /\ LinesOf(d, r[2])[r[3]] = p}

RejectsFor(p, whys) ==
    {i \in DOMAIN Whole(rejects) : rejects[i].position = p /\ rejects[i].why \in whys}

Landed(p) ==
    \/ answer[p] = "notFound"
    \/ answer[p] = "found" /\ \E d \in Directories : RowsFor(d, p) # {}
    \/ answer[p] = "rejected" /\ RejectsFor(p, {"reject"}) # {}
    \/ answer[p] = "transient" /\ RejectsFor(p, {"giveUp"}) # {}

Records(p) ==
    (UNION {RowsFor(d, p) : d \in Directories})
        \cup {<<"rejects", i>> : i \in RejectsFor(p, {"reject", "giveUp"})}

\* A crash repeats at most one id: beyond one record for each id there is at
\* most one for each session that died (walk.py's promise about a crash).
OneRepeatPerCrash ==
    Cardinality(UNION {Records(p) : p \in Position})
        <= crashes + Cardinality({p \in Position : Records(p) # {}})

\* The cursor never runs ahead of the data: for every id behind it the files
\* hold what the site answered last, whatever died before (walk.py writes the
\* cursor after the row; crawl_files.py fsyncs the row and repairs the files);
\* and an id is given up only after max_session_failures sessions that failed
\* on that very id, across restarts (_fetch_or_record_failure).  Nor does it
\* fall further behind than the one id a crash may repeat.
CursorBehindData ==
    /\ TypeOK
    /\ OneRepeatPerCrash
    /\ \A p \in Position :
        /\ p < cursor.position /\ Walked(plan, p) => Landed(p)
        /\ RejectsFor(p, {"giveUp"}) # {} => failed[p] >= MaxSessionFailures
        /\ p = cursor.position => cursor.failures <= failed[p]

\* Every id of 1..n and of the sitemap is walked, at one position only, and a
\* crawl that reached its plan's end has landed each (SpreadOrder's
\* permutation, the skipped slots, _finish_if_only_skips_remain).
FinishedCrawlCoversEveryId == cursor.position = Length =>
    \A id \in 1..plan.n \cup Range(plan.sitemap) :
        \E p \in Position :
            /\ Walked(plan, p) /\ IdOf(plan, p) = id /\ Landed(p)
            /\ \A q \in Position : Walked(plan, q) /\ IdOf(plan, q) = id => q = p

\* One broken id cannot stall the crawl: whatever the site answers, sessions
\* that are started again and again reach the plan's end, and stay there.
CrawlFinishes == <>[](cursor.position = Length)

=============================================================================
