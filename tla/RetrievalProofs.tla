-------------------------- MODULE RetrievalProofs --------------------------
(***************************************************************************)
(* The downloaders, for any plans, items, versions, windows, limits and    *)
(* any number of faults:                                                   *)
(*                                                                         *)
(*   the resumable crawl   its cursor never runs ahead of the data, an id  *)
(*                         is given up only after the sessions it is       *)
(*                         entitled to, a crash repeats at most one id     *)
(*   items one by one      each item lost or repeated has its own fault    *)
(*   whole files           what a finished session leaves is whole, a      *)
(*                         marked build is of one version, each part left  *)
(*                         behind has its own fault                        *)
(*   an export's pages     the sealed pages are one chain of one window    *)
(*                                                                         *)
(* and that MCRetrieval, which takes them together, has them all.          *)
(***************************************************************************)
EXTENDS MCRetrieval, FiniteSetTheorems, TLAPS

-----------------------------------------------------------------------------
(* Counting                                                                *)

LEMMA Fewer ==
    ASSUME NEW S, IsFiniteSet(S), NEW T, T \subseteq S
    PROVE  /\ IsFiniteSet(T) /\ Cardinality(T) \in Nat /\ Cardinality(S) \in Nat
           /\ Cardinality(T) <= Cardinality(S)
BY FS_Subset, FS_CardinalityType

LEMMA OneMore ==
    ASSUME NEW S, IsFiniteSet(S), NEW x, NEW T, T \subseteq S \cup {x}
    PROVE  /\ IsFiniteSet(T) /\ Cardinality(T) \in Nat /\ Cardinality(S) \in Nat
           /\ Cardinality(T) <= Cardinality(S) + 1
<1> DEFINE more == S \cup {x}
<1>1. /\ IsFiniteSet(more)
      /\ \/ Cardinality(more) = Cardinality(S)
         \/ Cardinality(more) = Cardinality(S) + 1
  BY FS_AddElement
<1> HIDE DEF more
<1>2. T \subseteq more
  BY DEF more
<1>3. /\ IsFiniteSet(T) /\ Cardinality(T) \in Nat /\ Cardinality(more) \in Nat
      /\ Cardinality(T) <= Cardinality(more) /\ Cardinality(S) \in Nat
  BY <1>1, <1>2, FS_Subset, FS_CardinalityType
<1> QED
  BY <1>1, <1>3

LEMMA OneLess ==
    ASSUME NEW S, IsFiniteSet(S), NEW x \in S, NEW T, T \subseteq S \ {x}
    PROVE  /\ IsFiniteSet(T) /\ Cardinality(T) \in Nat /\ Cardinality(S) \in Nat
           /\ Cardinality(T) + 1 <= Cardinality(S)
<1> DEFINE less == S \ {x}
<1>1. /\ IsFiniteSet(less) /\ Cardinality(less) = Cardinality(S) - 1
      /\ Cardinality(S) \in Nat
  BY FS_RemoveElement, FS_CardinalityType
<1> HIDE DEF less
<1>2. T \subseteq less
  BY DEF less
<1>3. /\ IsFiniteSet(T) /\ Cardinality(T) \in Nat /\ Cardinality(less) \in Nat
      /\ Cardinality(T) <= Cardinality(less)
  BY <1>1, <1>2, FS_Subset, FS_CardinalityType
<1> QED
  BY <1>1, <1>3

-----------------------------------------------------------------------------
(* The resumable crawl                                                    *)

Reject == [position : Position, why : {"reject", "giveUp"}]

-----------------------------------------------------------------------------
(* The walk                                                                *)

\* Between a session's answer for an id and the cursor's move past it.
AtAnId == session.at \notin {"down", "next"}

WalkTypes ==
    /\ plan \in Plans
    /\ cursor \in [position : 0..Length, failures : 0..(MaxSessionFailures - 1)]
    /\ DOMAIN session = DOMAIN NoSession
    /\ session.at \in {"down", "next", "row", "compress", "unlink", "cursor",
                       "cursorThenRaise", "reject", "giveUp", "failure"}
    /\ session.position \in 0..Length /\ session.left \in 0..Length
    /\ session.failures \in 0..(MaxSessionFailures - 1) /\ session.start \in 0..Length
    /\ session.consecutive \in 0..MaxConsecutiveRejects
    /\ session.checked \in BOOLEAN /\ session.landed \in BOOLEAN
    /\ answer \in [Position -> Answers]
    /\ failed \in [Position -> 0..MaxSessionFailures]
    /\ crashes \in Nat

\* The session is at the first walked position that is not behind the cursor.
FirstWalked(p) ==
    /\ p \in Position /\ cursor.position <= p /\ Walked(plan, p)
    /\ \A q \in cursor.position..(p - 1) : ~Walked(plan, q)

WalkInv ==
    /\ WalkTypes
    /\ session.at = "next" => session.position = cursor.position /\ ~Blocked
    /\ AtAnId => FirstWalked(session.position) /\ session.left >= 1
    /\ session.at # "down" => session.start <= cursor.position
    /\ session.at \in {"row", "compress", "unlink"} => session.directory \in Directories
    /\ session.landed => session.at \in {"compress", "unlink", "cursor"}

-----------------------------------------------------------------------------
(* The shards                                                              *)

\* Shards are numbered from 0 without a gap: the first number not taken.
NextShard(d) == IF ShardNumbers(d) = {} THEN 0 ELSE Newest(d) + 1

\* A file's lines: rows, and at most a torn one after them.
IsRows(lines) == lines \in Seq(Position) /\ Len(lines) <= RowsPerShard

\* Between any two steps: a plain file beside its .gz is a copy of it, and
\* every other plain file is of the newest shard.
Shelf(d) ==
    /\ NextShard(d) \in Nat /\ ShardNumbers(d) = 0..(NextShard(d) - 1)
    /\ \A n \in DOMAIN gz[d] : IsRows(gz[d][n])
    /\ \A n \in DOMAIN plain[d] :
        /\ plain[d][n] \in Lines /\ IsRows(Whole(plain[d][n]))
        /\ n \in DOMAIN gz[d] => plain[d][n] = gz[d][n]
        /\ n < NextShard(d) - 1 => n \in DOMAIN gz[d]

\* The shard the session appends to is the newest, or the next; it is not
\* compressed, has no torn line and as many as the session counted.
OpenShard(d) ==
    LET open == session.shards[d]
        full == session.at \in {"compress", "unlink"} /\ session.directory = d
    IN  open # Closed =>
        /\ open \in [number : Nat, rows : 0..RowsPerShard]
        /\ open.number \in {NextShard(d) - 1, NextShard(d)}
        /\ open.number \in DOMAIN gz[d] => full /\ session.at = "unlink"
        /\ open.rows = RowsPerShard => full
        /\ \A n \in DOMAIN plain[d] : n < open.number => n \in DOMAIN gz[d]
        /\ IF open.number \in DOMAIN plain[d]
           THEN plain[d][open.number] \in Seq(Position) /\ Len(plain[d][open.number]) = open.rows
           ELSE open.rows = 0

\* The shard under compression is the open one, or one a crash left beside its
\* .gz.
Compression ==
    LET d == session.directory  n == session.shard IN
    session.at \in {"compress", "unlink"} =>
        /\ n \in DOMAIN plain[d] /\ IsRows(plain[d][n])
        /\ session.at = "unlink" => n \in DOMAIN gz[d]
        /\ IF session.shards[d] = Closed THEN n \in DOMAIN gz[d]
           ELSE n = session.shards[d].number

FilesInv ==
    /\ DOMAIN plain = Directories /\ DOMAIN gz = Directories
    /\ DOMAIN session.shards = Directories
    /\ \A d \in Directories : Shelf(d) /\ OpenShard(d)
    /\ Compression

-----------------------------------------------------------------------------
(* The data                                                                *)

RejectsInv ==
    /\ rejects \in Seq(Reject \cup {Torn}) /\ Whole(rejects) \in Seq(Reject)
    /\ session.checked => Whole(rejects) = rejects

Behind ==
    \A p \in Position :
        /\ p < cursor.position /\ Walked(plan, p) => Landed(p)
        /\ RejectsFor(p, {"giveUp"}) # {} => failed[p] >= MaxSessionFailures
        /\ p = cursor.position => cursor.failures <= failed[p]
        /\ session.at # "down" /\ p = session.start => session.failures <= failed[p]

\* The session has written what it had to write of the id it is at.
Done == session.at \in {"cursor", "cursorThenRaise"} \/ session.landed

\* What each step of the session's work on an id knows of the answer.
AtStep ==
    /\ session.at \in {"row", "compress", "unlink"} => answer[session.position] = "found"
    /\ session.at = "reject" => answer[session.position] = "rejected"
    /\ session.at = "giveUp" => answer[session.position] = "transient"
                                /\ failed[session.position] >= MaxSessionFailures
    /\ session.at = "failure" =>
         FailuresAt(session.position) < failed[session.position]
         /\ FailuresAt(session.position) + 1 < MaxSessionFailures
    /\ Done => Landed(session.position)

DataInv == Behind /\ AtStep

-----------------------------------------------------------------------------
(* Repeats                                                                 *)

AllRecords == UNION {Records(p) : p \in Position}

PlacesKept == {p \in Position : Records(p) # {}}

\* The id the session is to write of next is in the files already.
Again == ~Done /\ \E p \in PlacesKept : cursor.position <= p

RepeatInv ==
    /\ \A p \in PlacesKept : cursor.position <= p => FirstWalked(p)
    /\ IsFiniteSet(AllRecords)
    /\ Cardinality(AllRecords) + (IF Again THEN 1 ELSE 0)
         <= crashes + Cardinality(PlacesKept)

CrawlInv == WalkInv /\ FilesInv /\ RejectsInv /\ DataInv /\ RepeatInv

-----------------------------------------------------------------------------
(* Positions and lines                                                     *)

LEMMA Positions ==
    ASSUME plan \in Plans
    PROVE  /\ Length \in Nat /\ Position = 0..(Length - 1) /\ Position \subseteq Nat
           /\ IsFiniteSet(Position) /\ Torn \notin Position /\ Torn \notin Reject
           /\ \A p \in Position : 0 <= p /\ p < Length /\ p + 1 \in 0..Length
<1>1. Length \in Nat
  BY CrawlAssumption DEF Length, PlanLength
<1>2. Position = 0..(Length - 1)
  BY DEF Position
<1>3. IsFiniteSet(Position)
  BY <1>1, <1>2, FS_Interval
<1>4. \A p \in Position : p \in Nat /\ 0 <= p /\ p < Length /\ p + 1 \in 0..Length
  BY <1>1, <1>2
<1>5. Torn \notin Reject
  BY <1>4, CrawlAssumption DEF Reject
<1> QED
  BY <1>1, <1>2, <1>3, <1>4, <1>5, CrawlAssumption

\* A file without a torn line is whole.
LEMMA WholeIsIt ==
    ASSUME NEW S, Torn \notin S, NEW lines \in Seq(S)
    PROVE  Whole(lines) = lines
<1>1. lines # <<>> => Len(lines) \in DOMAIN lines
  OBVIOUS
<1>2. lines # <<>> => lines[Len(lines)] \in S
  BY <1>1
<1> QED
  BY <1>2 DEF Whole

\* A torn line is what is cut off.
LEMMA WholeCutsTorn ==
    ASSUME NEW S, NEW lines \in Seq(S)
    PROVE  /\ Whole(Append(lines, Torn)) = lines
           /\ Append(lines, Torn) \in Seq(S \cup {Torn})
<1>1. /\ Append(lines, Torn) \in Seq(S \cup {Torn}) /\ Append(lines, Torn) # <<>>
      /\ Len(Append(lines, Torn)) = Len(lines) + 1
      /\ Append(lines, Torn)[Len(lines) + 1] = Torn
  OBVIOUS
<1>2. Whole(Append(lines, Torn)) = SubSeq(Append(lines, Torn), 1, Len(lines))
  BY <1>1 DEF Whole
<1>3. SubSeq(Append(lines, Torn), 1, Len(lines)) = lines
  OBVIOUS
<1> QED
  BY <1>1, <1>2, <1>3

\* What is left of a file is its beginning.
LEMMA WholeIsThere ==
    ASSUME NEW S, NEW lines \in Seq(S)
    PROVE  /\ Whole(lines) \in Seq(S) /\ Len(Whole(lines)) <= Len(lines)
           /\ \A i \in DOMAIN Whole(lines) : Whole(lines)[i] = lines[i]
<1>1. CASE lines # <<>> /\ lines[Len(lines)] = Torn
  <2>1. Whole(lines) = SubSeq(lines, 1, Len(lines) - 1)
    BY <1>1 DEF Whole
  <2>2. Len(lines) \in Nat /\ Len(lines) - 1 \in 0..Len(lines)
    BY <1>1
  <2> QED
    BY <2>1, <2>2
<1>2. CASE ~(lines # <<>> /\ lines[Len(lines)] = Torn)
  BY <1>2 DEF Whole
<1> QED
  BY <1>1, <1>2

-----------------------------------------------------------------------------
(* The walk                                                                *)

\* A session that is over keeps nothing.
LEMMA NoSessionIsTyped ==
    /\ NoSession.at = "down" /\ NoSession.landed = FALSE /\ NoSession.checked = FALSE
    /\ NoSession.position = 0 /\ NoSession.left = 0 /\ NoSession.failures = 0
    /\ NoSession.start = 0 /\ NoSession.consecutive = 0
    /\ NoSession.shards = [d \in Directories |-> Closed]
BY DEF NoSession

LEMMA SessionOver ==
    ASSUME WalkTypes, session' = NoSession,
           plan' = plan,
           cursor' \in [position : 0..Length, failures : 0..(MaxSessionFailures - 1)],
           answer' = answer, failed' = failed, crashes' \in Nat
    PROVE  WalkInv'
<1>1. Length \in Nat /\ Length' = Length /\ Position' = Position
  BY Positions DEF WalkTypes, Length, Position
<1>2. 0 \in 0..Length /\ 0 \in 0..(MaxSessionFailures - 1) /\ 0 \in 0..MaxConsecutiveRejects
  BY <1>1, CrawlAssumption
<1>3. WalkTypes'
  BY <1>1, <1>2, NoSessionIsTyped DEF WalkTypes
<1> QED
  BY <1>3, NoSessionIsTyped DEF WalkInv, AtAnId

\* A step at an id that moves neither the session nor the cursor.
LEMMA StillAtTheId ==
    ASSUME WalkInv, AtAnId, AtAnId',
           UNCHANGED <<plan, cursor, answer, failed, crashes>>,
           DOMAIN session' = DOMAIN session,
           session'.at \in {"row", "compress", "unlink", "cursor", "cursorThenRaise"},
           session'.position = session.position, session'.left = session.left,
           session'.failures = session.failures, session'.start = session.start,
           session'.consecutive = session.consecutive,
           session'.checked \in BOOLEAN, session'.landed \in BOOLEAN,
           session'.directory = session.directory,
           session'.at \in {"row", "compress", "unlink"} => session.directory \in Directories,
           session'.landed => session'.at \in {"compress", "unlink", "cursor"}
    PROVE  WalkInv'
<1>1. Length' = Length /\ Position' = Position
  BY DEF Length, Position
<1>2. WalkTypes'
  BY <1>1 DEF WalkInv, WalkTypes
<1>3. FirstWalked(session.position)'
  BY <1>1 DEF WalkInv, FirstWalked
<1> QED
  BY <1>2, <1>3 DEF WalkInv, AtAnId

LEMMA WalkInvInit == Init => WalkInv
<1> SUFFICES ASSUME Init PROVE WalkInv
  OBVIOUS
<1>1. /\ plan \in Plans /\ cursor = [position |-> 0, failures |-> 0]
      /\ session = NoSession /\ answer = [p \in Position |-> "none"]
      /\ failed = [p \in Position |-> 0] /\ crashes = 0
  BY DEF Init, Position
<1>2. Length \in Nat
  BY <1>1, Positions
<1>3. /\ 0 \in 0..Length /\ 0 \in 0..(MaxSessionFailures - 1)
      /\ 0 \in 0..MaxConsecutiveRejects /\ 0 \in 0..MaxSessionFailures
      /\ "none" \in Answers
  BY <1>2, CrawlAssumption DEF Answers
<1>4. cursor \in [position : 0..Length, failures : 0..(MaxSessionFailures - 1)]
  BY <1>1, <1>3
<1>5. /\ answer \in [Position -> Answers] /\ failed \in [Position -> 0..MaxSessionFailures]
      /\ crashes \in Nat
  BY <1>1, <1>3
<1>6. WalkTypes
  BY <1>1, <1>3, <1>4, <1>5, NoSessionIsTyped DEF WalkTypes
<1> QED
  BY <1>1, <1>6, NoSessionIsTyped DEF WalkInv, AtAnId

LEMMA StartKeepsWalk ==
    ASSUME WalkInv, StartSession
    PROVE  /\ WalkInv' /\ session'.at = "next" /\ session'.landed = FALSE
           /\ session'.start = cursor.position /\ session'.failures = cursor.failures
           /\ session'.shards = [d \in Directories |-> Closed] /\ session'.checked = FALSE
<1>1. Length \in Nat /\ Length' = Length /\ Position' = Position
  BY Positions DEF WalkInv, WalkTypes, StartSession, Length, Position
<1>2. PICK left \in 0..(Length - cursor.position) :
        session' = [NoSession EXCEPT !.at = "next", !.position = cursor.position,
                      !.start = cursor.position, !.failures = cursor.failures,
                      !.left = left]
  BY DEF StartSession
<1>3. /\ session'.at = "next" /\ session'.position = cursor.position
      /\ session'.start = cursor.position /\ session'.failures = cursor.failures
      /\ session'.left = left /\ session'.consecutive = 0 /\ session'.landed = FALSE
      /\ session'.checked = FALSE /\ session'.shards = [d \in Directories |-> Closed]
      /\ DOMAIN session' = DOMAIN NoSession
  BY <1>2 DEF NoSession
<1>4. UNCHANGED <<plan, cursor, answer, failed, crashes>>
  BY DEF StartSession, files, history
<1>5. left \in 0..Length
  BY <1>1, <1>2 DEF WalkInv, WalkTypes
<1>6. WalkTypes'
  <2>1. cursor.position \in 0..Length /\ cursor.failures \in 0..(MaxSessionFailures - 1)
    BY DEF WalkInv, WalkTypes
  <2>2. 0 \in 0..MaxConsecutiveRejects
    BY CrawlAssumption
  <2> QED
    BY <1>1, <1>3, <1>4, <1>5, <2>1, <2>2 DEF WalkInv, WalkTypes
<1>7. WalkInv'
  BY <1>1, <1>3, <1>4, <1>6, CrawlAssumption DEF WalkInv, WalkTypes, AtAnId, Blocked
<1> QED
  BY <1>3, <1>7

\* What a session keeps of itself while it asks for an id.
LEMMA FetchFields ==
    ASSUME WalkTypes, NEW p, NEW what \in Answers \ {"none"},
           session' \in AfterAnswer(p, what)
    PROVE  /\ DOMAIN session' = DOMAIN NoSession
           /\ session'.position = p /\ session'.left = session.left
           /\ session'.failures = session.failures /\ session'.start = session.start
           /\ session'.checked = session.checked /\ session'.shards = session.shards
           /\ session'.landed \in {FALSE, session.landed}
           /\ \/ /\ what = "found" /\ session'.at = "row"
                 /\ session'.directory \in Directories
                 /\ session'.consecutive = 0 /\ session'.landed = FALSE
              \/ /\ what = "notFound" /\ session'.at = "cursor"
                 /\ session'.consecutive = 0
              \/ /\ what = "rejected" /\ session'.at = "reject"
                 /\ session'.consecutive = session.consecutive + 1
              \/ /\ what = "transient" /\ session'.consecutive = session.consecutive
                 /\ session'.at = IF FailuresAt(p) + 1 < MaxSessionFailures
                                  THEN "failure" ELSE "giveUp"
<1> USE DEF WalkTypes, NoSession
<1>1. CASE what = "found"
  <2>1. PICK d \in Directories :
          session' = [session EXCEPT !.at = "row", !.position = p, !.directory = d,
                                     !.landed = FALSE, !.consecutive = 0]
    BY <1>1 DEF AfterAnswer
  <2> QED
    BY <1>1, <2>1
<1>2. CASE what = "notFound"
  <2>1. session' = [session EXCEPT !.at = "cursor", !.position = p, !.consecutive = 0]
    BY <1>2 DEF AfterAnswer
  <2> QED
    BY <1>2, <2>1
<1>3. CASE what = "rejected"
  <2>1. session' = [session EXCEPT !.at = "reject", !.position = p,
                                   !.consecutive = session.consecutive + 1]
    BY <1>3 DEF AfterAnswer
  <2> QED
    BY <1>3, <2>1
<1>4. CASE what = "transient"
  <2>1. session' = [session EXCEPT !.position = p, !.at =
                      IF FailuresAt(p) + 1 < MaxSessionFailures
                      THEN "failure" ELSE "giveUp"]
    BY <1>4 DEF AfterAnswer
  <2> QED
    BY <1>4, <2>1
<1> QED
  BY <1>1, <1>2, <1>3, <1>4 DEF Answers

\* The id asked for is the first one the cursor has not passed.
LEMMA FetchesFirst ==
    ASSUME WalkInv, session.at = "next", NEW p \in IdsFrom(plan, session.position),
           \A q \in IdsFrom(plan, session.position) : p <= q
    PROVE  FirstWalked(p) /\ p \in Position
<1>1. /\ Length \in Nat /\ session.position = cursor.position
      /\ session.position \in Nat /\ Position = 0..(Length - 1)
  BY Positions DEF WalkInv, WalkTypes
<1>2. /\ IdsFrom(plan, session.position)
           = {q \in cursor.position..(Length - 1) : Walked(plan, q)}
  BY <1>1 DEF IdsFrom, Length
<1>3. p \in Position /\ cursor.position <= p /\ Walked(plan, p)
  BY <1>1, <1>2
<1>4. ASSUME NEW q \in cursor.position..(p - 1), Walked(plan, q)
      PROVE  FALSE
  <2>1. q \in cursor.position..(Length - 1) /\ q < p
    BY <1>1, <1>3
  <2> QED
    BY <1>1, <1>2, <1>3, <1>4, <2>1
<1> QED
  BY <1>3, <1>4 DEF FirstWalked

LEMMA FetchKeepsWalk ==
    ASSUME WalkInv, Fetch
    PROVE  WalkInv'
<1>1. PICK p \in IdsFrom(plan, session.position), what \in Answers \ {"none"} :
        /\ \A q \in IdsFrom(plan, session.position) : p <= q
        /\ session' \in AfterAnswer(p, what)
        /\ answer' = [answer EXCEPT ![p] = what]
        /\ failed' = IF what = "transient" /\ failed[p] < MaxSessionFailures
                     THEN [failed EXCEPT ![p] = failed[p] + 1] ELSE failed
  BY DEF Fetch
<1>2. /\ session.at = "next" /\ session.left > 0 /\ UNCHANGED <<plan, cursor, crashes>>
  BY DEF Fetch, files
<1>3. FirstWalked(p) /\ p \in Position
  BY <1>1, <1>2, FetchesFirst
<1>4. Length \in Nat /\ Length' = Length /\ Position' = Position
  BY <1>2, Positions DEF WalkInv, WalkTypes, Length, Position
<1>5. /\ DOMAIN session' = DOMAIN NoSession
      /\ session'.position = p /\ session'.left = session.left
      /\ session'.failures = session.failures /\ session'.start = session.start
      /\ session'.checked = session.checked
      /\ session'.landed \in {FALSE, session.landed}
      /\ \/ /\ session'.at = "row" /\ session'.directory \in Directories
            /\ session'.consecutive = 0
         \/ /\ session'.at = "cursor" /\ session'.consecutive = 0
         \/ /\ session'.at = "reject" /\ session'.consecutive = session.consecutive + 1
         \/ /\ session'.at \in {"failure", "giveUp"}
            /\ session'.consecutive = session.consecutive
  BY <1>1, FetchFields DEF WalkInv
<1>6. session.landed = FALSE
  BY <1>2 DEF WalkInv, WalkTypes
<1>7. session'.consecutive \in 0..MaxConsecutiveRejects
  BY <1>2, <1>5, CrawlAssumption DEF WalkInv, WalkTypes, Blocked
<1>8. answer' \in [Position -> Answers]
  BY <1>1, <1>3 DEF WalkInv, WalkTypes
<1>9. failed' \in [Position -> 0..MaxSessionFailures]
  <2>1. failed[p] < MaxSessionFailures => failed[p] + 1 \in 0..MaxSessionFailures
    BY <1>3, CrawlAssumption DEF WalkInv, WalkTypes
  <2> QED
    BY <1>1, <1>3, <2>1 DEF WalkInv, WalkTypes
<1>10. p \in 0..Length
  BY <1>3, <1>4 DEF Position
<1>11. WalkTypes'
  BY <1>2, <1>4, <1>5, <1>6, <1>7, <1>8, <1>9, <1>10 DEF WalkInv, WalkTypes
<1>12. FirstWalked(session.position)'
  BY <1>2, <1>3, <1>4, <1>5 DEF FirstWalked
<1>13. session.left >= 1
  BY <1>2, <1>4 DEF WalkInv, WalkTypes
<1> QED
  BY <1>2, <1>5, <1>6, <1>11, <1>12, <1>13 DEF WalkInv, AtAnId

\* What a step at an id keeps of the session.
LEMMA ShardStepFields ==
    ASSUME WalkTypes,
           FinishCompression \/ OpenShards \/ AppendRow \/ Compress \/ Unlink
    PROVE  /\ DOMAIN session' = DOMAIN session
           /\ session'.position = session.position /\ session'.left = session.left
           /\ session'.failures = session.failures /\ session'.start = session.start
           /\ session'.consecutive = session.consecutive
           /\ session'.checked = session.checked
           /\ session'.directory = session.directory
           /\ UNCHANGED <<plan, cursor, rejects, answer, failed, crashes>>
<1> USE DEF WalkTypes, NoSession, files, history
<1>1. CASE FinishCompression
  BY <1>1 DEF FinishCompression
<1>2. CASE OpenShards
  BY <1>2 DEF OpenShards
<1>3. CASE AppendRow
  BY <1>3 DEF AppendRow
<1>4. CASE Compress
  BY <1>4 DEF Compress
<1>5. CASE Unlink
  BY <1>5 DEF Unlink
<1> QED
  BY <1>1, <1>2, <1>3, <1>4, <1>5

\* Where it goes.
LEMMA ShardStepGoes ==
    ASSUME WalkTypes
    PROVE  /\ FinishCompression => session.at = "row" /\ session'.at = "compress"
                                   /\ session'.landed = session.landed
           /\ OpenShards => session.at = "row" /\ session'.at \in {"row", "compress"}
                            /\ session'.landed = session.landed
           /\ AppendRow => session.at = "row" /\ session'.at \in {"compress", "cursor"}
                           /\ session'.landed = TRUE
           /\ Compress => session.at = "compress" /\ session'.at = "unlink"
                          /\ session'.landed = session.landed
           /\ Unlink => session.at = "unlink" /\ session'.landed = session.landed
                        /\ session'.at = IF session.landed THEN "cursor" ELSE "row"
<1> USE DEF WalkTypes, NoSession
<1>1. FinishCompression => session.at = "row" /\ session'.at = "compress"
                                   /\ session'.landed = session.landed
  BY DEF FinishCompression
<1>2. OpenShards => session.at = "row" /\ session'.at \in {"row", "compress"}
                            /\ session'.landed = session.landed
  BY DEF OpenShards
<1>3. AppendRow => session.at = "row" /\ session'.at \in {"compress", "cursor"}
                           /\ session'.landed = TRUE
  BY DEF AppendRow
<1>4. Compress => session.at = "compress" /\ session'.at = "unlink"
                          /\ session'.landed = session.landed
  BY DEF Compress
<1>5. Unlink => session.at = "unlink" /\ session'.landed = session.landed
                        /\ session'.at = IF session.landed THEN "cursor" ELSE "row"
  BY DEF Unlink
<1> QED
  BY <1>1, <1>2, <1>3, <1>4, <1>5

LEMMA ShardStepKeepsWalk ==
    ASSUME WalkInv,
           FinishCompression \/ OpenShards \/ AppendRow \/ Compress \/ Unlink
    PROVE  WalkInv'
<1>1. WalkTypes
  BY DEF WalkInv
<1>2. /\ session.at \in {"row", "compress", "unlink"}
      /\ session'.at \in {"row", "compress", "unlink", "cursor"}
      /\ session'.landed \in BOOLEAN
      /\ session'.landed => session'.at \in {"compress", "unlink", "cursor"}
  BY <1>1, ShardStepGoes DEF WalkInv, WalkTypes
<1>3. AtAnId /\ AtAnId'
  BY <1>2 DEF AtAnId
<1>4. session.directory \in Directories /\ session.checked \in BOOLEAN
  BY <1>2 DEF WalkInv, WalkTypes
<1> QED
  BY <1>1, <1>2, <1>3, <1>4, ShardStepFields, StillAtTheId

\* A reject is written of the id the session is at.
LEMMA RejectFields ==
    ASSUME WalkTypes, AppendReject
    PROVE  /\ DOMAIN session' = DOMAIN session
           /\ session'.position = session.position /\ session'.left = session.left
           /\ session'.failures = session.failures /\ session'.start = session.start
           /\ session'.consecutive = session.consecutive
           /\ session'.checked = TRUE /\ session'.landed = session.landed
           /\ session'.directory = session.directory /\ session'.shards = session.shards
           /\ session.at \in {"reject", "giveUp"}
           /\ session'.at = IF session.at = "reject" THEN "cursor" ELSE "cursorThenRaise"
           /\ rejects' = Rejected(session.at)
           /\ UNCHANGED <<plan, cursor, plain, gz, answer, failed, crashes>>
BY DEF AppendReject, WalkTypes, NoSession, history

LEMMA RejectKeepsWalk ==
    ASSUME WalkInv, AppendReject
    PROVE  WalkInv'
<1>1. WalkTypes
  BY DEF WalkInv
<1>2. session.at \in {"reject", "giveUp"} /\ session'.at \in {"cursor", "cursorThenRaise"}
      /\ session'.checked \in BOOLEAN /\ session'.landed = session.landed
  BY <1>1, RejectFields
<1>3. session.landed = FALSE
  BY <1>2 DEF WalkInv, WalkTypes
<1>4. AtAnId /\ AtAnId'
  BY <1>2 DEF AtAnId
<1> QED
  BY <1>1, <1>2, <1>3, <1>4, RejectFields, StillAtTheId

\* The cursor moves past the id; the session goes on, or it ends.
LEMMA MoveFields ==
    ASSUME WalkInv, MoveCursor
    PROVE  /\ session.at \in {"cursor", "cursorThenRaise"}
           /\ cursor' = [position |-> session.position + 1, failures |-> 0]
           /\ UNCHANGED <<plan, plain, gz, rejects, answer, failed, crashes>>
           /\ FirstWalked(session.position) /\ session.position \in Position
           /\ \/ session' = NoSession
              \/ /\ DOMAIN session' = DOMAIN NoSession /\ session'.at = "next"
                 /\ session'.position = session.position + 1
                 /\ session'.left = session.left - 1
                 /\ session'.failures = session.failures /\ session'.start = session.start
                 /\ session'.consecutive = session.consecutive /\ ~Blocked
                 /\ session'.checked = session.checked /\ session'.landed = FALSE
                 /\ session'.shards = session.shards
<1>1. /\ session.at \in {"cursor", "cursorThenRaise"}
      /\ cursor' = [position |-> session.position + 1, failures |-> 0]
      /\ UNCHANGED <<plan, plain, gz, rejects, answer, failed, crashes>>
  BY DEF MoveCursor, history
<1>2. FirstWalked(session.position) /\ session.position \in Position
  BY <1>1 DEF WalkInv, AtAnId, FirstWalked
<1>3. CASE session.at = "cursorThenRaise" \/ Blocked
  BY <1>1, <1>2, <1>3 DEF MoveCursor
<1>4. CASE ~(session.at = "cursorThenRaise" \/ Blocked)
  <2>1. session' = [session EXCEPT !.at = "next", !.position = session.position + 1,
                      !.left = session.left - 1, !.directory = Closed,
                      !.landed = FALSE, !.shard = 0]
    BY <1>4 DEF MoveCursor
  <2> QED
    BY <1>1, <1>2, <1>4, <2>1 DEF WalkInv, WalkTypes, NoSession
<1> QED
  BY <1>3, <1>4

LEMMA MoveKeepsWalk ==
    ASSUME WalkInv, MoveCursor
    PROVE  WalkInv'
<1>1. /\ session.at \in {"cursor", "cursorThenRaise"}
      /\ cursor' = [position |-> session.position + 1, failures |-> 0]
      /\ UNCHANGED <<plan, answer, failed, crashes>> /\ session.position \in Position
  BY MoveFields
<1>2. Length \in Nat /\ Length' = Length /\ Position' = Position
      /\ session.position + 1 \in 0..Length
  BY <1>1, Positions DEF WalkInv, WalkTypes, Length, Position
<1>3. cursor' \in [position : 0..Length, failures : 0..(MaxSessionFailures - 1)]
  BY <1>1, <1>2, CrawlAssumption
<1>4. CASE session' = NoSession
  BY <1>1, <1>3, <1>4, SessionOver DEF WalkInv, WalkTypes
<1>5. CASE session' # NoSession
  <2>1. /\ DOMAIN session' = DOMAIN NoSession /\ session'.at = "next"
        /\ session'.position = session.position + 1
        /\ session'.left = session.left - 1
        /\ session'.failures = session.failures /\ session'.start = session.start
        /\ session'.consecutive = session.consecutive /\ ~Blocked
        /\ session'.checked = session.checked /\ session'.landed = FALSE
    BY <1>5, MoveFields
  <2>2. session.left - 1 \in 0..Length
    BY <1>1, <1>2 DEF WalkInv, WalkTypes, AtAnId
  <2>3. WalkTypes'
    BY <1>1, <1>2, <1>3, <2>1, <2>2 DEF WalkInv, WalkTypes
  <2>4. session.start <= session.position + 1
    <3>1. session.start <= cursor.position /\ cursor.position <= session.position
      BY <1>1 DEF WalkInv, AtAnId, FirstWalked
    <3> QED
      BY <1>2, <3>1 DEF WalkInv, WalkTypes
  <2>5. cursor'.position = session.position + 1 /\ ~Blocked'
    BY <1>1, <2>1 DEF Blocked
  <2> QED
    BY <2>1, <2>3, <2>4, <2>5 DEF WalkInv, AtAnId
<1> QED
  BY <1>4, <1>5

\* The other ends of a session.
LEMMA EndKeepsWalk ==
    ASSUME WalkInv, DataInv, RecordFailure \/ Finish \/ Crash
    PROVE  WalkInv' /\ session' = NoSession
<1>1. session' = NoSession /\ UNCHANGED <<plan, answer, failed>> /\ crashes' \in Nat
  BY DEF RecordFailure, Finish, Crash, history, WalkInv, WalkTypes
<1>2. Length \in Nat
  BY Positions DEF WalkInv, WalkTypes
<1>3. cursor' \in [position : 0..Length, failures : 0..(MaxSessionFailures - 1)]
  <2>1. CASE RecordFailure
    <3>1. /\ session.at = "failure"
          /\ cursor' = [position |-> session.position,
                        failures |-> FailuresAt(session.position) + 1]
      BY <2>1 DEF RecordFailure
    <3>2. FailuresAt(session.position) \in Nat
          /\ FailuresAt(session.position) + 1 < MaxSessionFailures
      BY <3>1, CrawlAssumption DEF DataInv, AtStep, FailuresAt, WalkInv, WalkTypes
    <3> QED
      BY <3>1, <3>2, CrawlAssumption DEF WalkInv, WalkTypes
  <2>2. CASE Finish
    BY <1>2, <2>2, CrawlAssumption DEF Finish, WalkInv, WalkTypes
  <2>3. CASE Crash
    BY <2>3 DEF Crash, WalkInv, WalkTypes
  <2> QED
    BY <2>1, <2>2, <2>3
<1> QED
  BY <1>1, <1>3, SessionOver DEF WalkInv

-----------------------------------------------------------------------------
(* The shards                                                              *)

\* Where shards are numbered without a gap, the newest is the one before the next.
LEMMA NewestIs ==
    ASSUME NEW d, NEW m \in Nat, m > 0
    PROVE  /\ ShardNumbers(d) = 0..(m - 1) => Newest(d) = m - 1
           /\ ShardNumbers(d)' = 0..(m - 1) => Newest(d)' = m - 1
<1>0. m - 1 \in 0..(m - 1) /\ \A k \in 0..(m - 1) : k <= m - 1
  OBVIOUS
<1>1. ASSUME ShardNumbers(d) = 0..(m - 1) PROVE Newest(d) = m - 1
  <2>1. Newest(d) \in ShardNumbers(d) /\ \A k \in ShardNumbers(d) : k <= Newest(d)
    BY <1>0, <1>1 DEF Newest
  <2> QED
    BY <1>0, <1>1, <2>1
<1>2. ASSUME ShardNumbers(d)' = 0..(m - 1) PROVE Newest(d)' = m - 1
  <2>1. Newest(d)' \in ShardNumbers(d)' /\ \A k \in ShardNumbers(d)' : k <= Newest(d)'
    BY <1>0, <1>2 DEF Newest
  <2> QED
    BY <1>0, <1>2, <2>1
<1> QED
  BY <1>1, <1>2

LEMMA NewestOnShelf ==
    ASSUME NEW d, Shelf(d)
    PROVE  Newest(d) = IF NextShard(d) = 0 THEN 0 ELSE NextShard(d) - 1
<1>1. NextShard(d) \in Nat /\ ShardNumbers(d) = 0..(NextShard(d) - 1)
  BY DEF Shelf
<1>2. NextShard(d) = 0 => ShardNumbers(d) = {}
  BY <1>1
<1> QED
  BY <1>1, <1>2, NewestIs DEF Newest

\* The numbers tell the next one.
LEMMA NextIs ==
    ASSUME NEW d, NEW m \in Nat, ShardNumbers(d)' = 0..(m - 1)
    PROVE  NextShard(d)' = m
<1>1. CASE m = 0
  <2>1. ShardNumbers(d)' = {}
    BY <1>1
  <2> QED
    BY <1>1, <2>1 DEF NextShard
<1>2. CASE m > 0
  <2>1. ShardNumbers(d)' # {} /\ Newest(d)' = m - 1
    BY <1>2, NewestIs
  <2> QED
    BY <2>1 DEF NextShard
<1> QED
  BY <1>1, <1>2

\* A shelf no step has touched.
LEMMA SameShelf ==
    ASSUME NEW d, plain'[d] = plain[d], gz'[d] = gz[d], plan' = plan
    PROVE  /\ Shelf(d)' <=> Shelf(d)
           /\ ShardNumbers(d)' = ShardNumbers(d) /\ NextShard(d)' = NextShard(d)
           /\ \A n : LinesOf(d, n)' = LinesOf(d, n)
<1>1. Position' = Position /\ Lines' = Lines
  BY DEF Position, Length, Lines
<1>2. ShardNumbers(d)' = ShardNumbers(d)
  BY DEF ShardNumbers
<1>3. NextShard(d)' = NextShard(d)
  BY <1>2 DEF NextShard, Newest
<1> QED
  BY <1>1, <1>2, <1>3 DEF Shelf, IsRows, LinesOf

LEMMA FilesInvInit == Init => FilesInv
<1> SUFFICES ASSUME Init PROVE FilesInv
  OBVIOUS
<1>1. /\ plain = [d \in Directories |-> <<>>] /\ gz = [d \in Directories |-> <<>>]
      /\ session.at = "down" /\ session.shards = [d \in Directories |-> Closed]
  BY NoSessionIsTyped DEF Init
<1>2. ASSUME NEW d \in Directories PROVE Shelf(d) /\ OpenShard(d)
  <2>1. DOMAIN plain[d] = {} /\ DOMAIN gz[d] = {}
    BY <1>1
  <2>2. ShardNumbers(d) = {}
    BY <2>1 DEF ShardNumbers
  <2>3. NextShard(d) = 0 /\ 0..(0 - 1) = {}
    BY <2>2 DEF NextShard
  <2> QED
    BY <1>1, <2>1, <2>2, <2>3 DEF Shelf, OpenShard
<1> QED
  BY <1>1, <1>2 DEF FilesInv, Compression

\* Steps that write no shard and compress none.
LEMMA QuietFiles ==
    ASSUME FilesInv, UNCHANGED <<plan, plain, gz>>,
           session'.at \notin {"compress", "unlink"},
           session'.shards = [d \in Directories |-> Closed]
             \/ (session'.shards = session.shards
                   /\ session.at \notin {"compress", "unlink"})
    PROVE  /\ FilesInv'
           /\ \A d \in Directories : ShardNumbers(d)' = ShardNumbers(d)
           /\ \A d, n : LinesOf(d, n)' = LinesOf(d, n)
<1>1. DOMAIN session'.shards = Directories
  BY DEF FilesInv
<1>2. ASSUME NEW d
      PROVE  /\ Shelf(d)' <=> Shelf(d)
             /\ ShardNumbers(d)' = ShardNumbers(d) /\ NextShard(d)' = NextShard(d)
             /\ \A n : LinesOf(d, n)' = LinesOf(d, n)
  BY SameShelf
<1>3. ASSUME NEW d \in Directories
      PROVE  OpenShard(d)'
  <2>1. CASE session'.shards[d] = Closed
    BY <2>1 DEF OpenShard
  <2>2. CASE session'.shards[d] # Closed
    <3>1. session'.shards = session.shards /\ session.at \notin {"compress", "unlink"}
      BY <2>2
    <3>2. Position' = Position
      BY DEF Position, Length
    <3> QED
      BY <1>2, <3>1, <3>2 DEF FilesInv, OpenShard
  <2> QED
    BY <2>1, <2>2
<1> QED
  BY <1>1, <1>2, <1>3 DEF FilesInv, Compression

\* What a session does to its shards at each of their steps.
LEMMA ShardFields ==
    ASSUME WalkInv, FilesInv, NEW d, d = session.directory,
           session.at \in {"row", "compress", "unlink"}
    PROVE  /\ d \in Directories
           /\ FinishCompression =>
                /\ session'.shards = session.shards /\ session.shards[d] = Closed
                /\ session'.shard \in HalfCompressed(d) /\ UNCHANGED <<plain, gz>>
           /\ OpenShards =>
                /\ session'.shards = [session.shards EXCEPT ![d] = OpenedAt(d)]
                /\ session'.shard = OpenedAt(d).number
                /\ session'.at = IF OpenedAt(d).rows >= RowsPerShard
                                 THEN "compress" ELSE "row"
                /\ session.shards[d] = Closed /\ HalfCompressed(d) = {} /\ gz' = gz
           /\ AppendRow =>
                /\ session'.shards = [session.shards EXCEPT ![d] =
                        [session.shards[d] EXCEPT !.rows = session.shards[d].rows + 1]]
                /\ session'.shard = session.shards[d].number
                /\ session'.at = IF session.shards[d].rows + 1 >= RowsPerShard
                                 THEN "compress" ELSE "cursor"
                /\ session.shards[d] # Closed /\ gz' = gz
           /\ Compress =>
                session'.shards = session.shards /\ session'.shard = session.shard
                /\ plain' = plain
           /\ Unlink =>
                /\ session'.shards = [session.shards EXCEPT ![d] = Rotated(session.shards[d])]
                /\ gz' = gz
<1> USE DEF WalkInv, WalkTypes, NoSession, FilesInv
<1>1. d \in Directories
  OBVIOUS
<1>2. FinishCompression =>
                /\ session'.shards = session.shards /\ session.shards[d] = Closed
                /\ session'.shard \in HalfCompressed(d) /\ UNCHANGED <<plain, gz>>
  BY DEF FinishCompression, files
<1>3. OpenShards =>
                /\ session'.shards = [session.shards EXCEPT ![d] = OpenedAt(d)]
                /\ session'.shard = OpenedAt(d).number
                /\ session'.at = IF OpenedAt(d).rows >= RowsPerShard
                                 THEN "compress" ELSE "row"
                /\ session.shards[d] = Closed /\ HalfCompressed(d) = {} /\ gz' = gz
  BY DEF OpenShards
<1>4. AppendRow =>
                /\ session'.shards = [session.shards EXCEPT ![d] =
                        [session.shards[d] EXCEPT !.rows = session.shards[d].rows + 1]]
                /\ session'.shard = session.shards[d].number
                /\ session'.at = IF session.shards[d].rows + 1 >= RowsPerShard
                                 THEN "compress" ELSE "cursor"
                /\ session.shards[d] # Closed /\ gz' = gz
  BY DEF AppendRow
<1>5. Compress =>
                session'.shards = session.shards /\ session'.shard = session.shard
                /\ plain' = plain
  BY DEF Compress
<1>6. Unlink =>
                /\ session'.shards = [session.shards EXCEPT ![d] = Rotated(session.shards[d])]
                /\ gz' = gz
  BY DEF Unlink
<1> QED
  BY <1>1, <1>2, <1>3, <1>4, <1>5, <1>6

\* A compression a crash cut short is taken up: its shard has both files.
LEMMA FinishKeepsFiles ==
    ASSUME WalkInv, FilesInv, FinishCompression, NEW d, d = session.directory
    PROVE  FilesInv' /\ \A e \in Directories : \A n : LinesOf(e, n)' = LinesOf(e, n)
<1> DEFINE n == session'.shard
<1>1. /\ session.at = "row" /\ session'.at = "compress" /\ session'.directory = d
      /\ plan' = plan
  BY ShardStepGoes, ShardStepFields DEF WalkInv
<1>2. /\ d \in Directories /\ session'.shards = session.shards
      /\ session.shards[d] = Closed /\ n \in HalfCompressed(d) /\ UNCHANGED <<plain, gz>>
  BY <1>1, ShardFields
<1>3. n \in DOMAIN plain[d] /\ n \in DOMAIN gz[d]
  <2>1. n \in DOMAIN plain[d] /\ (n < Newest(d) \/ n \in DOMAIN gz[d])
    BY <1>2 DEF HalfCompressed
  <2>2. Shelf(d) /\ n \in ShardNumbers(d)
    BY <1>2, <2>1 DEF FilesInv, ShardNumbers
  <2>3. n \in Nat /\ NextShard(d) \in Nat
    BY <2>2 DEF Shelf
  <2>4. n < Newest(d) => n < NextShard(d) - 1
    BY <2>2, <2>3, NewestOnShelf
  <2> QED
    BY <2>1, <2>2, <2>4 DEF Shelf
<1>4. IsRows(plain[d][n])
  BY <1>2, <1>3 DEF FilesInv, Shelf
<1>5. Position' = Position
  BY <1>1 DEF Position, Length
<1>6. \A e : /\ Shelf(e)' <=> Shelf(e)
             /\ NextShard(e)' = NextShard(e)
             /\ \A k : LinesOf(e, k)' = LinesOf(e, k)
  BY <1>1, <1>2, SameShelf
<1>7. ASSUME NEW e \in Directories PROVE OpenShard(e)'
  BY <1>1, <1>2, <1>5, <1>6 DEF FilesInv, OpenShard
<1>8. Compression'
  BY <1>1, <1>2, <1>3, <1>4, <1>5 DEF Compression, IsRows
<1> QED
  BY <1>2, <1>6, <1>7, <1>8 DEF FilesInv

\* The newest shard is opened, or the next when it is compressed already.
LEMMA OpenKeepsFiles ==
    ASSUME WalkInv, FilesInv, OpenShards, NEW d, d = session.directory
    PROVE  FilesInv' /\ \A e \in Directories : \A n : LinesOf(e, n)' = LinesOf(e, n)
<1> DEFINE s == OpenedAt(d).number
           k == OpenedAt(d).rows
<1>1. /\ session.at = "row" /\ session'.directory = d /\ plan' = plan
  BY ShardStepGoes, ShardStepFields DEF WalkInv
<1>2. /\ d \in Directories
      /\ session'.shards = [session.shards EXCEPT ![d] = OpenedAt(d)]
      /\ session'.shard = s
      /\ session'.at = IF k >= RowsPerShard THEN "compress" ELSE "row"
      /\ session.shards[d] = Closed /\ HalfCompressed(d) = {} /\ gz' = gz
  BY <1>1, ShardFields
<1>3. plain' = [plain EXCEPT ![d] = [n \in DOMAIN plain[d] |->
                   IF n = s THEN Whole(plain[d][n]) ELSE plain[d][n]]]
  BY DEF OpenShards
<1>4. Position' = Position /\ Lines' = Lines /\ Torn \notin Position
  BY <1>1, Positions DEF Position, Length, Lines, WalkInv, WalkTypes
<1>5. Shelf(d) /\ NextShard(d) \in Nat /\ ShardNumbers(d) = 0..(NextShard(d) - 1)
  BY <1>2 DEF FilesInv, Shelf
<1>6. Newest(d) = IF NextShard(d) = 0 THEN 0 ELSE NextShard(d) - 1
  BY <1>5, NewestOnShelf
<1>7. \A n \in DOMAIN plain[d] : n \notin DOMAIN gz[d] /\ n = NextShard(d) - 1 /\ n = Newest(d)
  <2> SUFFICES ASSUME NEW n \in DOMAIN plain[d]
               PROVE  n \notin DOMAIN gz[d] /\ n = NextShard(d) - 1 /\ n = Newest(d)
    OBVIOUS
  <2>1. n \notin DOMAIN gz[d]
    BY <1>2 DEF HalfCompressed
  <2>2. ~(n < NextShard(d) - 1) /\ n \in 0..(NextShard(d) - 1)
    BY <1>5, <2>1 DEF Shelf, ShardNumbers
  <2> QED
    BY <1>5, <1>6, <2>1, <2>2
<1>8. /\ OpenedAt(d) \in [number : Nat, rows : 0..RowsPerShard]
      /\ s \in {NextShard(d) - 1, NextShard(d)} /\ s \notin DOMAIN gz[d]
      /\ s \in DOMAIN plain[d] => s = Newest(d) /\ k = Len(Whole(plain[d][s]))
      /\ s \notin DOMAIN plain[d] => k = 0
      /\ \A n \in DOMAIN plain[d] : n < s => n \in DOMAIN gz[d]
  <2>1. Newest(d) \in Nat
    BY <1>5, <1>6
  <2>2. CASE Newest(d) \in DOMAIN gz[d]
    <3>1. OpenedAt(d) = [number |-> Newest(d) + 1, rows |-> 0]
      BY <2>2 DEF OpenedAt
    <3>2. NextShard(d) # 0
      BY <1>5, <2>2 DEF ShardNumbers
    <3>3. s = NextShard(d) /\ k = 0
      BY <1>5, <1>6, <3>1, <3>2
    <3>4. s \notin DOMAIN gz[d] /\ s \notin DOMAIN plain[d]
      BY <1>5, <3>3 DEF ShardNumbers
    <3>5. DOMAIN plain[d] = {}
      BY <1>7, <2>2
    <3> QED
      BY <2>1, <3>1, <3>3, <3>4, <3>5, CrawlAssumption
  <2>3. CASE Newest(d) \notin DOMAIN gz[d]
    <3>1. OpenedAt(d) = [number |-> Newest(d),
                         rows |-> IF Newest(d) \in DOMAIN plain[d]
                                  THEN Len(Whole(plain[d][Newest(d)])) ELSE 0]
      BY <2>3 DEF OpenedAt
    <3>2. s = Newest(d) /\ s \in {NextShard(d) - 1, NextShard(d)}
      BY <1>5, <1>6, <3>1
    <3>3. s \in DOMAIN plain[d] => IsRows(Whole(plain[d][s]))
      BY <1>5 DEF Shelf
    <3>4. k \in 0..RowsPerShard
      BY <3>1, <3>2, <3>3, CrawlAssumption DEF IsRows
    <3>5. \A n \in DOMAIN plain[d] : ~(n < s)
      BY <1>7, <2>1, <3>2
    <3> QED
      BY <2>1, <2>3, <3>1, <3>2, <3>4, <3>5
  <2> QED
    BY <2>2, <2>3
<1> HIDE DEF s, k
<1>9. /\ DOMAIN plain' = Directories /\ DOMAIN plain'[d] = DOMAIN plain[d]
      /\ s \in DOMAIN plain[d] => plain'[d][s] = Whole(plain[d][s])
      /\ \A n \in DOMAIN plain[d] : n # s => plain'[d][n] = plain[d][n]
      /\ \A e \in Directories : e # d => plain'[e] = plain[e]
  BY <1>2, <1>3 DEF FilesInv
<1>10. s \in DOMAIN plain[d] =>
         /\ IsRows(plain'[d][s]) /\ plain'[d][s] \in Lines
         /\ Whole(plain'[d][s]) = plain'[d][s] /\ k = Len(plain'[d][s])
  <2> SUFFICES ASSUME s \in DOMAIN plain[d]
               PROVE  /\ IsRows(plain'[d][s]) /\ plain'[d][s] \in Lines
                      /\ Whole(plain'[d][s]) = plain'[d][s] /\ k = Len(plain'[d][s])
    OBVIOUS
  <2>1. IsRows(plain'[d][s])
    BY <1>5, <1>9 DEF Shelf
  <2>2. plain'[d][s] \in Lines
    BY <2>1 DEF IsRows, Lines
  <2> QED
    BY <1>4, <1>8, <1>9, <2>1, <2>2, WholeIsIt DEF IsRows
<1>11. ShardNumbers(d)' = ShardNumbers(d) /\ NextShard(d)' = NextShard(d)
  <2>1. ShardNumbers(d)' = ShardNumbers(d)
    BY <1>2, <1>9 DEF ShardNumbers
  <2> QED
    BY <2>1 DEF NextShard, Newest
<1>12. Shelf(d)'
  BY <1>2, <1>4, <1>5, <1>7, <1>8, <1>9, <1>10, <1>11 DEF Shelf, IsRows
<1>13. \A n : LinesOf(d, n)' = LinesOf(d, n)
  BY <1>2, <1>8, <1>9, <1>10 DEF LinesOf
<1>14. \A e \in Directories : e # d =>
         /\ Shelf(e)' /\ NextShard(e)' = NextShard(e)
         /\ \A n : LinesOf(e, n)' = LinesOf(e, n)
  BY <1>1, <1>2, <1>9, SameShelf DEF FilesInv
<1>15. OpenShard(d)'
  <2>1. session'.shards[d] = OpenedAt(d) /\ OpenedAt(d).number = s /\ OpenedAt(d).rows = k
    BY <1>2 DEF FilesInv, s, k
  <2>2. k = RowsPerShard => session'.at = "compress"
    BY <1>2, CrawlAssumption
  <2> QED
    BY <1>1, <1>2, <1>4, <1>8, <1>9, <1>10, <1>11, <2>1, <2>2 DEF OpenShard, IsRows
<1>16. ASSUME NEW e \in Directories, e # d PROVE OpenShard(e)'
  <2>1. /\ session'.shards[e] = session.shards[e] /\ plain'[e] = plain[e] /\ gz'[e] = gz[e]
        /\ NextShard(e)' = NextShard(e) /\ session'.directory # e
    BY <1>1, <1>2, <1>9, <1>14, <1>16 DEF FilesInv
  <2> QED
    BY <1>1, <1>4, <2>1 DEF FilesInv, OpenShard
<1>17. Compression'
  <2>1. session'.at = "compress" => s \in DOMAIN plain[d]
    BY <1>2, <1>8, CrawlAssumption
  <2>2. session'.shards[d] = OpenedAt(d) /\ OpenedAt(d).number = s /\ session'.at # "unlink"
    BY <1>2 DEF FilesInv, s
  <2>3. OpenedAt(d) # Closed
    BY <1>8, CrawlAssumption
  <2> QED
    BY <1>1, <1>2, <1>4, <1>9, <1>10, <2>1, <2>2, <2>3 DEF Compression, IsRows
<1> QED
  BY <1>2, <1>9, <1>12, <1>13, <1>14, <1>15, <1>16, <1>17 DEF FilesInv

\* A .gz of a shard's plain file changes no line of it.
LEMMA CompressKeepsFiles ==
    ASSUME WalkInv, FilesInv, Compress, NEW d, d = session.directory
    PROVE  FilesInv' /\ \A e \in Directories : \A n : LinesOf(e, n)' = LinesOf(e, n)
<1> DEFINE s == session.shard
<1>1. /\ session.at = "compress" /\ session'.at = "unlink" /\ session'.directory = d
      /\ plan' = plan
  BY ShardStepGoes, ShardStepFields DEF WalkInv
<1>2. /\ d \in Directories /\ session'.shards = session.shards /\ session'.shard = s
      /\ plain' = plain
  BY <1>1, ShardFields
<1>3. gz' = [gz EXCEPT ![d] = [n \in DOMAIN gz[d] \cup {s} |->
                IF n = s THEN plain[d][n] ELSE gz[d][n]]]
  BY DEF Compress
<1>4. /\ s \in DOMAIN plain[d] /\ IsRows(plain[d][s])
      /\ IF session.shards[d] = Closed THEN s \in DOMAIN gz[d]
         ELSE s = session.shards[d].number
  BY <1>1 DEF FilesInv, Compression
<1>5. Position' = Position /\ Lines' = Lines /\ Torn \notin Position
  BY <1>1, Positions DEF Position, Length, Lines, WalkInv, WalkTypes
<1> HIDE DEF s
<1>6. /\ DOMAIN gz' = Directories /\ DOMAIN gz'[d] = DOMAIN gz[d] \cup {s}
      /\ gz'[d][s] = plain[d][s]
      /\ \A n \in DOMAIN gz[d] : n # s => gz'[d][n] = gz[d][n]
      /\ \A e \in Directories : e # d => gz'[e] = gz[e]
  BY <1>2, <1>3 DEF FilesInv
<1>7. Shelf(d) /\ (s \in DOMAIN gz[d] => plain[d][s] = gz[d][s])
  BY <1>2, <1>4 DEF FilesInv, Shelf
<1>8. ShardNumbers(d)' = ShardNumbers(d) /\ NextShard(d)' = NextShard(d)
  <2>1. ShardNumbers(d)' = ShardNumbers(d)
    BY <1>2, <1>4, <1>6 DEF ShardNumbers
  <2> QED
    BY <2>1 DEF NextShard, Newest
<1>9. Shelf(d)'
  BY <1>2, <1>4, <1>5, <1>6, <1>7, <1>8 DEF Shelf, IsRows
<1>10. \A n : LinesOf(d, n)' = LinesOf(d, n)
  <2>1. Whole(plain[d][s]) = plain[d][s]
    BY <1>4, <1>5, WholeIsIt DEF IsRows
  <2> QED
    BY <1>2, <1>4, <1>6, <1>7, <2>1 DEF LinesOf
<1>11. \A e \in Directories : e # d =>
         /\ Shelf(e)' /\ NextShard(e)' = NextShard(e)
         /\ \A n : LinesOf(e, n)' = LinesOf(e, n)
  BY <1>1, <1>2, <1>6, SameShelf DEF FilesInv
<1>12. OpenShard(d)'
  <2>1. session.shards[d] # Closed => session.shards[d].number = s /\ OpenShard(d)
    BY <1>2, <1>4 DEF FilesInv
  <2> QED
    BY <1>1, <1>2, <1>5, <1>6, <1>8, <2>1 DEF OpenShard
<1>13. ASSUME NEW e \in Directories, e # d PROVE OpenShard(e)'
  <2>1. /\ plain'[e] = plain[e] /\ gz'[e] = gz[e] /\ NextShard(e)' = NextShard(e)
    BY <1>2, <1>6, <1>11, <1>13
  <2> QED
    BY <1>1, <1>2, <1>5, <1>13, <2>1 DEF FilesInv, OpenShard
<1>14. Compression'
  BY <1>1, <1>2, <1>4, <1>5, <1>6 DEF Compression, IsRows
<1> QED
  BY <1>2, <1>6, <1>9, <1>10, <1>11, <1>12, <1>13, <1>14 DEF FilesInv

\* The plain file goes when its .gz is there; the session goes to the next shard.
LEMMA UnlinkKeepsFiles ==
    ASSUME WalkInv, FilesInv, Unlink, NEW d, d = session.directory
    PROVE  FilesInv' /\ \A e \in Directories : \A n : LinesOf(e, n)' = LinesOf(e, n)
<1> DEFINE s == session.shard
<1>1. /\ session.at = "unlink" /\ session'.at \in {"row", "cursor"}
      /\ session'.directory = d /\ plan' = plan
  BY ShardStepGoes, ShardStepFields DEF WalkInv
<1>2. /\ d \in Directories /\ gz' = gz
      /\ session'.shards = [session.shards EXCEPT ![d] = Rotated(session.shards[d])]
  BY <1>1, ShardFields
<1>3. plain' = [plain EXCEPT ![d] = Without(plain[d], s)]
  BY DEF Unlink
<1>4. /\ s \in DOMAIN plain[d] /\ s \in DOMAIN gz[d]
      /\ session.shards[d] # Closed => s = session.shards[d].number
  BY <1>1 DEF FilesInv, Compression
<1>5. Position' = Position /\ Lines' = Lines
  BY <1>1 DEF Position, Length, Lines
<1> HIDE DEF s
<1>6. /\ DOMAIN plain' = Directories /\ DOMAIN plain'[d] = DOMAIN plain[d] \ {s}
      /\ \A n \in DOMAIN plain'[d] : plain'[d][n] = plain[d][n]
      /\ \A e \in Directories : e # d => plain'[e] = plain[e]
  BY <1>2, <1>3 DEF FilesInv, Without, Restrict
<1>7. Shelf(d) /\ OpenShard(d)
  BY <1>2 DEF FilesInv
<1>8. ShardNumbers(d)' = ShardNumbers(d) /\ NextShard(d)' = NextShard(d)
  <2>1. ShardNumbers(d)' = ShardNumbers(d)
    BY <1>2, <1>4, <1>6 DEF ShardNumbers
  <2> QED
    BY <2>1 DEF NextShard, Newest
<1>9. Shelf(d)'
  BY <1>2, <1>5, <1>6, <1>7, <1>8 DEF Shelf, IsRows
<1>10. \A n : LinesOf(d, n)' = LinesOf(d, n)
  BY <1>2, <1>4, <1>6 DEF LinesOf
<1>11. \A e \in Directories : e # d =>
         /\ Shelf(e)' /\ NextShard(e)' = NextShard(e)
         /\ \A n : LinesOf(e, n)' = LinesOf(e, n)
  BY <1>1, <1>2, <1>6, SameShelf DEF FilesInv
<1>12. OpenShard(d)'
  <2>1. CASE session.shards[d] = Closed
    <3>1. session'.shards[d] = Closed
      BY <1>2, <2>1 DEF FilesInv, Rotated
    <3> QED
      BY <3>1 DEF OpenShard
  <2>2. CASE session.shards[d] # Closed
    <3>1. session'.shards[d] = [number |-> s + 1, rows |-> 0]
      BY <1>2, <1>4, <2>2 DEF FilesInv, Rotated
    <3>2. /\ NextShard(d) \in Nat /\ ShardNumbers(d) = 0..(NextShard(d) - 1)
          /\ s \in {NextShard(d) - 1, NextShard(d)} /\ s \in ShardNumbers(d)
      BY <1>4, <1>7, <2>2 DEF Shelf, OpenShard, ShardNumbers
    <3>3. s \in Nat /\ s + 1 = NextShard(d) /\ s + 1 \notin ShardNumbers(d)
      BY <3>2
    <3>4. \A n \in DOMAIN plain'[d] : n \in DOMAIN gz[d]
      <4> SUFFICES ASSUME NEW n \in DOMAIN plain'[d] PROVE n \in DOMAIN gz[d]
        OBVIOUS
      <4>1. n \in DOMAIN plain[d] /\ n # s
        BY <1>6
      <4>2. n \in ShardNumbers(d)
        BY <4>1 DEF ShardNumbers
      <4>3. n \in 0..(NextShard(d) - 1)
        BY <3>2, <4>2
      <4>4. n < NextShard(d) - 1
        BY <3>2, <3>3, <4>1, <4>3
      <4> QED
        BY <1>7, <4>1, <4>4 DEF Shelf
    <3>5. s + 1 \notin DOMAIN gz[d] /\ s + 1 \notin DOMAIN plain'[d]
      BY <1>6, <3>3 DEF ShardNumbers
    <3>6. [number |-> s + 1, rows |-> 0] \in [number : Nat, rows : 0..RowsPerShard]
          /\ 0 # RowsPerShard
      BY <3>3, CrawlAssumption
    <3> QED
      BY <1>2, <1>8, <3>1, <3>3, <3>4, <3>5, <3>6 DEF OpenShard
  <2> QED
    BY <2>1, <2>2
<1>13. ASSUME NEW e \in Directories, e # d PROVE OpenShard(e)'
  <2>1. /\ plain'[e] = plain[e] /\ gz'[e] = gz[e] /\ NextShard(e)' = NextShard(e)
        /\ session'.shards[e] = session.shards[e]
    BY <1>2, <1>6, <1>11, <1>13 DEF FilesInv
  <2> QED
    BY <1>1, <1>2, <1>5, <1>13, <2>1 DEF FilesInv, OpenShard
<1>14. Compression' /\ DOMAIN session'.shards = Directories
  BY <1>1, <1>2 DEF Compression, FilesInv
<1> QED
  BY <1>2, <1>6, <1>9, <1>10, <1>11, <1>12, <1>13, <1>14 DEF FilesInv

\* A line x is appended to shard s of directory d, which held k rows.
LineAppended(d, s, x, held, k) ==
    /\ DOMAIN plain' = Directories
    /\ \A e \in Directories : e # d => plain'[e] = plain[e]
    /\ \A e \in Directories : Shelf(e)' /\ (e # d => NextShard(e)' = NextShard(e))
    /\ s \in Nat /\ NextShard(d)' = s + 1 /\ s \in DOMAIN plain'[d] /\ s \notin DOMAIN gz[d]
    /\ \A n \in DOMAIN plain'[d] : n < s => n \in DOMAIN gz[d]
    /\ IsRows(held) /\ k \in Nat /\ Len(held) = k /\ k < RowsPerShard
    /\ plain'[d][s] = Append(held, x)
    /\ LinesOf(d, s)' = Whole(Append(held, x))
    /\ \A e \in Directories : \A n : e # d \/ n # s => LinesOf(e, n)' = LinesOf(e, n)

\* A line is appended to the open shard: a row, or the beginning of one.
LEMMA Appended ==
    ASSUME WalkInv, FilesInv, session.at = "row", NEW d, d = session.directory,
           session.shards[d] # Closed, NEW x \in Position \cup {Torn},
           NEW s, s = session.shards[d].number, NEW held, held = LinesOf(d, s),
           NEW k, k = session.shards[d].rows,
           plain' = [plain EXCEPT ![d] = AppendTo(plain[d], s, x)],
           gz' = gz, plan' = plan
    PROVE  LineAppended(d, s, x, held, k)
<1> DEFINE m == NextShard(d)
<1>1. Position' = Position /\ Lines' = Lines /\ Torn \notin Position
  BY Positions DEF Position, Length, Lines, WalkInv, WalkTypes
<1>2. d \in Directories
  BY DEF WalkInv
<1>3. /\ Shelf(d) /\ m \in Nat /\ ShardNumbers(d) = 0..(m - 1)
      /\ s \in Nat /\ k \in 0..RowsPerShard /\ s \in {m - 1, m}
      /\ s \notin DOMAIN gz[d] /\ k # RowsPerShard
      /\ \A n \in DOMAIN plain[d] : n < s => n \in DOMAIN gz[d]
      /\ IF s \in DOMAIN plain[d]
         THEN plain[d][s] \in Seq(Position) /\ Len(plain[d][s]) = k ELSE k = 0
  BY <1>2 DEF FilesInv, OpenShard, Shelf
<1>4. k < RowsPerShard
  BY <1>3, CrawlAssumption
<1>5. /\ held = (IF s \in DOMAIN plain[d] THEN plain[d][s] ELSE <<>>)
      /\ held \in Seq(Position) /\ Len(held) = k
  BY <1>1, <1>3, WholeIsIt DEF LinesOf
<1>6. IsRows(held)
  <2>1. Len(held) <= RowsPerShard
    BY ONLY <1>4, <1>5, <1>3, CrawlAssumption
  <2> QED
    BY ONLY <1>5, <2>1 DEF IsRows
<1>7. /\ DOMAIN plain' = Directories /\ DOMAIN plain'[d] = DOMAIN plain[d] \cup {s}
      /\ \A n \in DOMAIN plain[d] : n # s => plain'[d][n] = plain[d][n]
      /\ \A e \in Directories : e # d => plain'[e] = plain[e]
      /\ plain'[d] = AppendTo(plain[d], s, x)
  BY <1>2 DEF FilesInv, AppendTo
<1>8. plain'[d][s] = Append(held, x)
  <2>1. CASE s \in DOMAIN plain[d]
    <3>1. AppendTo(plain[d], s, x)[s] = Append(plain[d][s], x)
      BY <2>1 DEF AppendTo
    <3>2. plain[d][s] = held
      BY <1>5, <2>1
    <3> QED
      BY <1>7, <3>1, <3>2
  <2>2. CASE s \notin DOMAIN plain[d]
    <3>1. plain'[d][s] = <<x>>
      <4>1. AppendTo(plain[d], s, x)[s] = <<x>>
        BY <2>2 DEF AppendTo
      <4> QED
        BY ONLY <1>7, <4>1
    <3>2. held = <<>>
      BY <1>5, <2>2
    <3>3. Append(<<>>, x) = <<x>>
      OBVIOUS
    <3> QED
      BY ONLY <3>1, <3>2, <3>3
  <2> QED
    BY <2>1, <2>2
<1> HIDE DEF m
<1>9. ShardNumbers(d)' = 0..((s + 1) - 1)
  <2>1. ShardNumbers(d)' = ShardNumbers(d) \cup {s}
    BY <1>7 DEF ShardNumbers
  <2>2. ShardNumbers(d) = 0..(m - 1) /\ m \in Nat /\ s \in Nat /\ s \in {m - 1, m}
    BY <1>3
  <2>3. (s + 1) - 1 = s /\ 0..(m - 1) \cup {s} = 0..s
    <3>1. CASE s = m
      BY ONLY <2>2, <3>1
    <3>2. CASE s = m - 1
      BY ONLY <2>2, <3>2
    <3> QED
      BY <2>2, <3>1, <3>2
  <2> QED
    BY ONLY <2>1, <2>2, <2>3
<1>10. NextShard(d)' = s + 1
  <2> DEFINE more == s + 1
  <2>1. more \in Nat /\ ShardNumbers(d)' = 0..(more - 1)
    BY <1>3, <1>9
  <2> HIDE DEF more
  <2>2. NextShard(d)' = more
    BY <2>1, NextIs
  <2> QED
    BY <2>2 DEF more
<1>11. plain'[d][s] \in Lines /\ IsRows(Whole(plain'[d][s]))
  <2>1. CASE x = Torn
    <3>1. held \in Seq(Position)
      BY <1>5
    <3>2. /\ Whole(Append(held, Torn)) = held
          /\ Append(held, Torn) \in Seq(Position \cup {Torn})
      BY ONLY <3>1, WholeCutsTorn
    <3> QED
      BY ONLY <1>6, <1>8, <2>1, <3>2 DEF Lines
  <2>2. CASE x \in Position
    <3>1. Append(held, x) \in Seq(Position) /\ Len(Append(held, x)) = k + 1
      BY <1>5, <2>2
    <3>2. Whole(Append(held, x)) = Append(held, x)
      BY <1>1, <3>1, WholeIsIt
    <3>3. Append(held, x) \in Lines
      BY <3>1 DEF Lines
    <3>4. k + 1 <= RowsPerShard
      BY <1>3, <1>4, CrawlAssumption
    <3>5. IsRows(Append(held, x))
      BY <3>1, <3>4 DEF IsRows
    <3> QED
      BY ONLY <1>8, <3>2, <3>3, <3>5
  <2> QED
    BY <2>1, <2>2
<1>12. \A n \in DOMAIN plain'[d] : n < s => n \in DOMAIN gz[d]
  <2>1. DOMAIN plain'[d] = DOMAIN plain[d] \cup {s}
    BY <1>7
  <2>2. \A n \in DOMAIN plain[d] : n < s => n \in DOMAIN gz[d]
    BY <1>3
  <2>3. s \in Nat
    BY <1>3
  <2> QED
    BY ONLY <2>1, <2>2, <2>3
<1>13. Shelf(d)'
  <2>1. ASSUME NEW n \in DOMAIN plain'[d]
        PROVE  /\ plain'[d][n] \in Lines /\ IsRows(Whole(plain'[d][n]))
               /\ n \in DOMAIN gz[d] => plain'[d][n] = gz[d][n]
               /\ n < (s + 1) - 1 => n \in DOMAIN gz[d]
    <3>1. CASE n = s
      <4>1. ~(s < (s + 1) - 1) /\ s \notin DOMAIN gz[d]
        BY <1>3
      <4> QED
        BY <1>11, <3>1, <4>1
    <3>2. CASE n # s
      <4>1. n \in DOMAIN plain[d] /\ plain'[d][n] = plain[d][n]
        BY <1>7, <3>2
      <4>2. /\ plain[d][n] \in Lines /\ IsRows(Whole(plain[d][n]))
            /\ n \in DOMAIN gz[d] => plain[d][n] = gz[d][n]
        BY <1>3, <4>1 DEF Shelf
      <4>3. (s + 1) - 1 = s
        BY <1>3
      <4>4. n < (s + 1) - 1 => n \in DOMAIN gz[d]
        BY <1>12, <4>3
      <4>5. /\ plain'[d][n] \in Lines /\ IsRows(Whole(plain'[d][n]))
            /\ n \in DOMAIN gz[d] => plain'[d][n] = gz[d][n]
        BY <4>1, <4>2
      <4> QED
        BY <4>4, <4>5
    <3> QED
      BY <3>1, <3>2
  <2>2. \A n \in DOMAIN gz[d] : IsRows(gz[d][n])
    BY <1>3 DEF Shelf
  <2>3. s + 1 \in Nat
    BY <1>3
  <2>4. \A lines : IsRows(lines)' <=> IsRows(lines)
    BY <1>1 DEF IsRows
  <2>5. \A n \in DOMAIN plain'[d] :
          /\ plain'[d][n] \in Lines' /\ IsRows(Whole(plain'[d][n]))
          /\ n \in DOMAIN gz'[d] => plain'[d][n] = gz'[d][n]
          /\ n < (s + 1) - 1 => n \in DOMAIN gz'[d]
    BY <1>1, <2>1
  <2>6. \A n \in DOMAIN gz'[d] : IsRows(gz'[d][n])
    BY <2>2
  <2> QED
    BY <1>9, <1>10, <2>3, <2>4, <2>5, <2>6 DEF Shelf, IsRows
<1>14. \A e \in Directories : e # d =>
         /\ Shelf(e)' /\ NextShard(e)' = NextShard(e)
         /\ \A n : LinesOf(e, n)' = LinesOf(e, n)
  <2> TAKE e \in Directories
  <2> HAVE e # d
  <2>1. plain'[e] = plain[e] /\ gz'[e] = gz[e] /\ plan' = plan
    BY <1>7
  <2>2. Shelf(e)
    BY DEF FilesInv
  <2>3. /\ Shelf(e)' <=> Shelf(e)
        /\ NextShard(e)' = NextShard(e)
        /\ \A n : LinesOf(e, n)' = LinesOf(e, n)
    BY ONLY <2>1, SameShelf
  <2> QED
    BY ONLY <2>2, <2>3
<1>15. LinesOf(d, s)' = Whole(Append(held, x))
  BY <1>3, <1>7, <1>8 DEF LinesOf
<1>16. \A n : n # s => LinesOf(d, n)' = LinesOf(d, n)
  BY <1>7 DEF LinesOf
<1>17. /\ s \in Nat /\ s \in DOMAIN plain'[d] /\ s \notin DOMAIN gz[d]
       /\ k \in Nat /\ Len(held) = k
  <2>1. s \in Nat /\ s \notin DOMAIN gz[d] /\ k \in 0..RowsPerShard
    BY <1>3
  <2>2. s \in DOMAIN plain'[d]
    BY <1>7
  <2>3. Len(held) = k
    BY <1>5
  <2>4. k \in Nat
    BY ONLY <2>1, CrawlAssumption
  <2> QED
    BY ONLY <2>1, <2>2, <2>3, <2>4
<1>18. \A e \in Directories : Shelf(e)' /\ (e # d => NextShard(e)' = NextShard(e))
  BY <1>13, <1>14
<1>19. \A e \in Directories : \A n : e # d \/ n # s => LinesOf(e, n)' = LinesOf(e, n)
  BY <1>14, <1>16
<1>20. \A e \in Directories : e # d => plain'[e] = plain[e]
  BY <1>7
<1> QED
  BY <1>4, <1>6, <1>7, <1>8, <1>10, <1>12, <1>15, <1>17, <1>18, <1>19, <1>20 DEF LineAppended

\* The row of the id lands in the open shard, which may then be full.
LEMMA AppendKeepsFiles ==
    ASSUME WalkInv, FilesInv, AppendRow, NEW d, d = session.directory,
           NEW s, s = session.shards[d].number, NEW held, held = LinesOf(d, s),
           NEW x, x = session.position
    PROVE  /\ FilesInv' /\ d \in Directories /\ s \in Nat
           /\ ShardNumbers(d)' = ShardNumbers(d) \cup {s}
           /\ IsRows(held) /\ Len(held) < RowsPerShard
           /\ LinesOf(d, s)' = Append(held, x)
           /\ \A e \in Directories : \A n : e # d \/ n # s => LinesOf(e, n)' = LinesOf(e, n)
<1>0. PICK k : k = session.shards[d].rows
  OBVIOUS
<1>1. /\ session.at = "row" /\ session'.directory = d /\ plan' = plan
  BY ShardStepGoes, ShardStepFields DEF WalkInv
<1>2. /\ d \in Directories
      /\ session'.shards = [session.shards EXCEPT ![d] =
                               [session.shards[d] EXCEPT !.rows = k + 1]]
      /\ session'.shard = s
      /\ session'.at = IF k + 1 >= RowsPerShard THEN "compress" ELSE "cursor"
      /\ session.shards[d] # Closed /\ gz' = gz
  BY <1>0, <1>1, ShardFields
<1>3. plain' = [plain EXCEPT ![d] = AppendTo(plain[d], s, x)]
  BY DEF AppendRow
<1>4. x \in Position
  BY <1>1 DEF WalkInv, AtAnId, FirstWalked
<1>5. Position' = Position /\ Torn \notin Position
  BY <1>1, Positions DEF Position, Length, WalkInv, WalkTypes
<1>6. LineAppended(d, s, x, held, k)
  BY <1>0, <1>1, <1>2, <1>3, <1>4, Appended
<1>6a. /\ s \in Nat /\ k \in Nat /\ k < RowsPerShard /\ held \in Seq(Position)
       /\ Len(held) = k /\ IsRows(held)
  BY <1>6 DEF LineAppended, IsRows
<1>6b. /\ DOMAIN plain' = Directories
       /\ \A e \in Directories : e # d => plain'[e] = plain[e]
       /\ \A e \in Directories : Shelf(e)' /\ (e # d => NextShard(e)' = NextShard(e))
       /\ \A e \in Directories : \A n : e # d \/ n # s => LinesOf(e, n)' = LinesOf(e, n)
  BY <1>6 DEF LineAppended
<1>6c. /\ NextShard(d)' = s + 1 /\ s \in DOMAIN plain'[d] /\ s \notin DOMAIN gz[d]
       /\ \A n \in DOMAIN plain'[d] : n < s => n \in DOMAIN gz[d]
       /\ plain'[d][s] = Append(held, x)
       /\ LinesOf(d, s)' = Whole(Append(held, x))
  BY <1>6 DEF LineAppended
<1>7. /\ Append(held, x) \in Seq(Position) /\ Len(Append(held, x)) = k + 1
      /\ Whole(Append(held, x)) = Append(held, x)
  <2>1. Append(held, x) \in Seq(Position) /\ Len(Append(held, x)) = k + 1
    BY <1>4, <1>6a
  <2> QED
    BY <1>5, <2>1, WholeIsIt
<1>8. k + 1 \in 0..RowsPerShard /\ (k + 1 = RowsPerShard <=> k + 1 >= RowsPerShard)
  BY <1>6a, CrawlAssumption
<1>9. /\ session'.shards[d] \in [number : Nat, rows : 0..RowsPerShard]
      /\ session'.shards[d].number = s /\ session'.shards[d].rows = k + 1
      /\ \A e \in Directories : e # d => session'.shards[e] = session.shards[e]
      /\ DOMAIN session'.shards = Directories
  <2>1. session.shards[d] \in [number : Nat, rows : 0..RowsPerShard]
    BY <1>2 DEF FilesInv, OpenShard
  <2>0. session.shards[d].number = s
    OBVIOUS
  <2>2. [session.shards[d] EXCEPT !.rows = k + 1] \in [number : Nat, rows : 0..RowsPerShard]
        /\ [session.shards[d] EXCEPT !.rows = k + 1].number = s
        /\ [session.shards[d] EXCEPT !.rows = k + 1].rows = k + 1
    BY <1>0, <1>8, <2>0, <2>1
  <2> QED
    BY <1>2, <2>2 DEF FilesInv
<1>10. OpenShard(d)'
  <2> DEFINE open == session'.shards[d]
  <2>1. open.number \in {NextShard(d)' - 1, NextShard(d)'}
    <3>1. (s + 1) - 1 = s
      BY <1>6a
    <3>2. NextShard(d)' - 1 = s
      BY <1>6c, <3>1
    <3> QED
      BY <1>9, <3>2
  <2>2. open.number \notin DOMAIN gz'[d]
    BY <1>2, <1>6a, <1>6b, <1>6c, <1>9
  <2>3. open.rows = RowsPerShard =>
          session'.at \in {"compress", "unlink"} /\ session'.directory = d
    BY <1>1, <1>2, <1>8, <1>9
  <2>4. \A n \in DOMAIN plain'[d] : n < open.number => n \in DOMAIN gz'[d]
    BY <1>2, <1>6a, <1>6b, <1>6c, <1>9
  <2>5. /\ open.number \in DOMAIN plain'[d] /\ Len(plain'[d][open.number]) = open.rows
        /\ plain'[d][open.number] \in Seq(Position')
    BY <1>5, <1>6a, <1>6b, <1>6c, <1>7, <1>9
  <2>6. open \in [number : Nat, rows : 0..RowsPerShard]
    BY <1>9
  <2> HIDE DEF open
  <2>7. /\ open.number \in DOMAIN gz'[d] =>
             session'.at \in {"compress", "unlink"} /\ session'.directory = d
             /\ session'.at = "unlink"
        /\ IF open.number \in DOMAIN plain'[d]
           THEN plain'[d][open.number] \in Seq(Position')
                /\ Len(plain'[d][open.number]) = open.rows
           ELSE open.rows = 0
    BY <2>2, <2>5
  <2> QED
    BY <2>1, <2>3, <2>4, <2>6, <2>7 DEF OpenShard, open
<1>11. ASSUME NEW e \in Directories, e # d PROVE OpenShard(e)'
  <2>1. /\ plain'[e] = plain[e] /\ gz'[e] = gz[e] /\ NextShard(e)' = NextShard(e)
        /\ session'.shards[e] = session.shards[e]
    BY <1>2, <1>6a, <1>6b, <1>6c, <1>9, <1>11
  <2> QED
    BY <1>1, <1>5, <1>11, <2>1 DEF FilesInv, OpenShard
<1>12. Compression'
  <2>1. session'.shards[d] # Closed /\ session'.at # "unlink"
    <3>1. session'.shards[d] \in [number : Nat, rows : Nat]
      <4>1. /\ session'.shards[d] = [number |-> session'.shards[d].number,
                                     rows |-> session'.shards[d].rows]
            /\ session'.shards[d].number \in Nat
        BY <1>9
      <4>2. session'.shards[d].rows \in Nat
        BY <1>6a, <1>9
      <4> QED
        BY <4>1, <4>2
    <3> QED
      BY <1>2, <3>1, CrawlAssumption
  <2>2. IsRows(plain'[d][s])
    <3>1. k + 1 <= RowsPerShard
      BY <1>8, CrawlAssumption
    <3> QED
      BY <1>6c, <1>7, <3>1 DEF IsRows
  <2> QED
    BY <1>1, <1>2, <1>5, <1>6a, <1>6b, <1>6c, <1>9, <2>1, <2>2 DEF Compression, IsRows
<1>13. FilesInv'
  BY <1>2, <1>6a, <1>6b, <1>6c, <1>9, <1>10, <1>11, <1>12 DEF FilesInv
<1>14. ShardNumbers(d)' = ShardNumbers(d) \cup {s}
  BY <1>2, <1>3 DEF FilesInv, AppendTo, ShardNumbers
<1> QED
  BY <1>2, <1>6a, <1>6b, <1>6c, <1>7, <1>13, <1>14

\* A session that dies leaves no more than a torn line behind the rows.
LEMMA TornKeepsFiles ==
    ASSUME WalkInv, FilesInv, session.at = "row", NEW d, d = session.directory,
           session.shards[d] # Closed,
           plain' = [plain EXCEPT ![d] = AppendTo(plain[d], session.shards[d].number, Torn)],
           gz' = gz, plan' = plan, session'.at = "down",
           session'.shards = [e \in Directories |-> Closed]
    PROVE  FilesInv' /\ \A e \in Directories : \A n : LinesOf(e, n)' = LinesOf(e, n)
<1>1. PICK s, k : s = session.shards[d].number /\ k = session.shards[d].rows
  OBVIOUS
<1>2. PICK held : held = LinesOf(d, s)
  OBVIOUS
<1>3. LineAppended(d, s, Torn, held, k)
  BY <1>1, <1>2, Appended
<1>4. IsRows(held) /\ LinesOf(d, s)' = Whole(Append(held, Torn))
  BY <1>3 DEF LineAppended
<1>5. Whole(Append(held, Torn)) = held
  BY <1>4, WholeCutsTorn DEF IsRows
<1>6. \A e \in Directories : \A n : e # d \/ n # s => LinesOf(e, n)' = LinesOf(e, n)
  BY <1>3 DEF LineAppended
<1>7. FilesInv'
  BY <1>3 DEF LineAppended, FilesInv, OpenShard, Compression
<1> QED
  BY <1>2, <1>4, <1>5, <1>6, <1>7

LEMMA CrashKeepsFiles ==
    ASSUME WalkInv, FilesInv, Crash
    PROVE  FilesInv' /\ \A e \in Directories : \A n : LinesOf(e, n)' = LinesOf(e, n)
<1>1. session' = NoSession /\ plan' = plan /\ gz' = gz
  BY DEF Crash
<1>2. session'.at = "down" /\ session'.shards = [d \in Directories |-> Closed]
  BY <1>1, NoSessionIsTyped
<1>3. CASE plain' = plain
  BY <1>1, <1>2, <1>3, QuietFiles
<1>4. CASE /\ session.at = "row" /\ session.shards[session.directory] # Closed
           /\ plain' = [plain EXCEPT ![session.directory] =
                 AppendTo(plain[session.directory],
                          session.shards[session.directory].number, Torn)]
  BY <1>1, <1>2, <1>4, TornKeepsFiles
<1> QED
  BY <1>3, <1>4 DEF Crash

-----------------------------------------------------------------------------
(* What the files hold                                                     *)

\* A row is a line of its shard.
LEMMA RowIs ==
    ASSUME NEW d, NEW p, NEW r
    PROVE  /\ r \in RowsFor(d, p) <=>
                \E n : \E i \in 1..RowsPerShard :
                    r = <<d, n, i>> /\ i <= Len(LinesOf(d, n)) /\ LinesOf(d, n)[i] = p
           /\ r \in RowsFor(d, p)' <=>
                \E n : \E i \in 1..RowsPerShard :
                    r = <<d, n, i>> /\ i <= Len(LinesOf(d, n)') /\ LinesOf(d, n)'[i] = p
<1>1. r \in RowsFor(d, p) <=>
        \E n : \E i \in 1..RowsPerShard :
            r = <<d, n, i>> /\ i <= Len(LinesOf(d, n)) /\ LinesOf(d, n)[i] = p
  <2>1. ASSUME r \in RowsFor(d, p)
        PROVE  \E n : \E i \in 1..RowsPerShard :
                 r = <<d, n, i>> /\ i <= Len(LinesOf(d, n)) /\ LinesOf(d, n)[i] = p
    <3>1. /\ r \in {d} \X ShardNumbers(d) \X (1..RowsPerShard)
          /\ r[3] <= Len(LinesOf(d, r[2])) /\ LinesOf(d, r[2])[r[3]] = p
      BY <2>1 DEF RowsFor
    <3>2. r = <<d, r[2], r[3]>> /\ r[3] \in 1..RowsPerShard
      BY <3>1
    <3> QED
      BY <3>1, <3>2
  <2>2. ASSUME NEW n, NEW i \in 1..RowsPerShard,
               r = <<d, n, i>>, i <= Len(LinesOf(d, n)), LinesOf(d, n)[i] = p
        PROVE  r \in RowsFor(d, p)
    <3>1. n \in ShardNumbers(d)
      <4> SUFFICES ASSUME n \notin ShardNumbers(d) PROVE FALSE
        OBVIOUS
      <4>1. LinesOf(d, n) = <<>>
        BY DEF ShardNumbers, LinesOf
      <4> QED
        BY <2>2, <4>1
    <3>2. r \in {d} \X ShardNumbers(d) \X (1..RowsPerShard) /\ r[2] = n /\ r[3] = i
      BY <2>2, <3>1
    <3> QED
      BY <2>2, <3>2 DEF RowsFor
  <2> QED
    BY <2>1, <2>2
<1>2. r \in RowsFor(d, p)' <=>
        \E n : \E i \in 1..RowsPerShard :
            r = <<d, n, i>> /\ i <= Len(LinesOf(d, n)') /\ LinesOf(d, n)'[i] = p
  <2>1. ASSUME r \in RowsFor(d, p)'
        PROVE  \E n : \E i \in 1..RowsPerShard :
                 r = <<d, n, i>> /\ i <= Len(LinesOf(d, n)') /\ LinesOf(d, n)'[i] = p
    <3>1. /\ r \in {d} \X ShardNumbers(d)' \X (1..RowsPerShard)
          /\ r[3] <= Len(LinesOf(d, r[2])') /\ LinesOf(d, r[2])'[r[3]] = p
      BY <2>1 DEF RowsFor
    <3>2. r = <<d, r[2], r[3]>> /\ r[3] \in 1..RowsPerShard
      BY <3>1
    <3> QED
      BY <3>1, <3>2
  <2>2. ASSUME NEW n, NEW i \in 1..RowsPerShard,
               r = <<d, n, i>>, i <= Len(LinesOf(d, n)'), LinesOf(d, n)'[i] = p
        PROVE  r \in RowsFor(d, p)'
    <3>1. n \in ShardNumbers(d)'
      <4> SUFFICES ASSUME n \notin ShardNumbers(d)' PROVE FALSE
        OBVIOUS
      <4>1. LinesOf(d, n)' = <<>>
        BY DEF ShardNumbers, LinesOf
      <4> QED
        BY <2>2, <4>1
    <3>2. r \in {d} \X ShardNumbers(d)' \X (1..RowsPerShard) /\ r[2] = n /\ r[3] = i
      BY <2>2, <3>1
    <3> QED
      BY <2>2, <3>2 DEF RowsFor
  <2> QED
    BY <2>1, <2>2
<1> QED
  BY <1>1, <1>2

\* A reject is a whole line of the log.
LEMMA RejectIs ==
    ASSUME RejectsInv, NEW p, NEW whys
    PROVE  RejectsFor(p, whys) = {i \in DOMAIN Whole(rejects) :
             Whole(rejects)[i].position = p /\ Whole(rejects)[i].why \in whys}
BY WholeIsThere DEF RejectsInv, RejectsFor

LEMMA RejectIsThen ==
    ASSUME RejectsInv', NEW p, NEW whys
    PROVE  RejectsFor(p, whys)' = {i \in DOMAIN Whole(rejects') :
             Whole(rejects')[i].position = p /\ Whole(rejects')[i].why \in whys}
<1>1. rejects' \in Seq(Reject' \cup {Torn})
  BY DEF RejectsInv
<1>2. \A i \in DOMAIN Whole(rejects') : Whole(rejects')[i] = rejects'[i]
  BY <1>1, WholeIsThere
<1> QED
  BY <1>2 DEF RejectsFor

\* The files hold the same rows and rejects.
SameData ==
    /\ plan' = plan
    /\ \A d \in Directories : \A p : RowsFor(d, p)' = RowsFor(d, p)
    /\ \A p, whys : RejectsFor(p, whys)' = RejectsFor(p, whys)
    /\ \A p : Records(p)' = Records(p)
    /\ AllRecords' = AllRecords /\ PlacesKept' = PlacesKept

LEMMA SameLinesSameData ==
    ASSUME RejectsInv, RejectsInv', plan' = plan,
           \A d \in Directories : \A n : LinesOf(d, n)' = LinesOf(d, n),
           Whole(rejects') = Whole(rejects)
    PROVE  SameData
<1>1. ASSUME NEW d \in Directories, NEW p PROVE RowsFor(d, p)' = RowsFor(d, p)
  <2>1. \A n : LinesOf(d, n)' = LinesOf(d, n)
    OBVIOUS
  <2>2. ASSUME NEW r PROVE r \in RowsFor(d, p)' <=> r \in RowsFor(d, p)
    <3> DEFINE A == \E n : \E i \in 1..RowsPerShard :
                 r = <<d, n, i>> /\ i <= Len(LinesOf(d, n)) /\ LinesOf(d, n)[i] = p
               B == \E n : \E i \in 1..RowsPerShard :
                 r = <<d, n, i>> /\ i <= Len(LinesOf(d, n)') /\ LinesOf(d, n)'[i] = p
    <3>1. (r \in RowsFor(d, p) <=> A) /\ (r \in RowsFor(d, p)' <=> B)
      BY RowIs
    <3>2. A <=> B
      BY <2>1
    <3> QED
      BY <3>1, <3>2
  <2> QED
    BY <2>2
<1>2. ASSUME NEW p, NEW whys PROVE RejectsFor(p, whys)' = RejectsFor(p, whys)
  BY RejectIs, RejectIsThen
<1>3. ASSUME NEW p PROVE Records(p)' = Records(p)
  BY <1>1, <1>2 DEF Records
<1>4. Position' = Position
  BY DEF Position, Length
<1>5. AllRecords' = AllRecords /\ PlacesKept' = PlacesKept
  BY <1>3, <1>4 DEF AllRecords, PlacesKept
<1> QED
  BY <1>1, <1>2, <1>3, <1>5 DEF SameData

LEMMA SameDataSameLanded ==
    ASSUME SameData, NEW p, answer'[p] = answer[p]
    PROVE  Landed(p)' <=> Landed(p)
<1>1. (\E d \in Directories : RowsFor(d, p)' # {}) <=> (\E d \in Directories : RowsFor(d, p) # {})
  BY DEF SameData
<1>2. \A whys : RejectsFor(p, whys)' = RejectsFor(p, whys)
  BY DEF SameData
<1> QED
  BY <1>1, <1>2 DEF Landed

-----------------------------------------------------------------------------
(* The log of rejects                                                      *)

LEMMA RejectsInvInit == Init => RejectsInv
<1> SUFFICES ASSUME Init PROVE RejectsInv
  OBVIOUS
<1>1. rejects = <<>> /\ session.checked = FALSE
  BY NoSessionIsTyped DEF Init
<1>2. <<>> \in Seq(Reject \cup {Torn}) /\ <<>> \in Seq(Reject) /\ Whole(<<>>) = <<>>
  BY DEF Whole
<1> QED
  BY <1>1, <1>2 DEF RejectsInv

LEMMA QuietRejects ==
    ASSUME RejectsInv, plan' = plan, rejects' = rejects,
           session'.checked => session.checked
    PROVE  RejectsInv' /\ Whole(rejects') = Whole(rejects)
<1>1. Reject' = Reject
  BY DEF Reject, Position, Length
<1> QED
  BY <1>1 DEF RejectsInv

\* The log the next line goes to has no torn one.
LEMMA LogIsWhole ==
    ASSUME RejectsInv
    PROVE  (IF session.checked THEN rejects ELSE Whole(rejects)) = Whole(rejects)
           /\ Whole(rejects) \in Seq(Reject)
BY DEF RejectsInv

LEMMA AppendKeepsRejects ==
    ASSUME WalkInv, RejectsInv, AppendReject
    PROVE  RejectsInv' /\ Whole(rejects') =
             Append(Whole(rejects), [position |-> session.position, why |-> session.at])
<1> DEFINE new == [position |-> session.position, why |-> session.at]
           log == Whole(rejects)
<1>1. session.at \in {"reject", "giveUp"} /\ plan' = plan /\ rejects' = Append(log, new)
  BY RejectFields, LogIsWhole DEF WalkInv, Rejected
<1>2. session.position \in Position /\ Torn \notin Reject
  BY <1>1, Positions DEF WalkInv, WalkTypes, AtAnId, FirstWalked
<1>3. new \in Reject
  BY <1>1, <1>2 DEF Reject
<1>4. Reject' = Reject
  BY <1>1 DEF Reject, Position, Length
<1>5. log \in Seq(Reject)
  BY LogIsWhole
<1> HIDE DEF new, log
<1>6. Append(log, new) \in Seq(Reject)
  BY <1>3, <1>5
<1>7. Append(log, new) \in Seq(Reject \cup {Torn}) /\ Whole(Append(log, new)) = Append(log, new)
  <2>1. PICK lines : lines = Append(log, new)
    OBVIOUS
  <2>2. lines \in Seq(Reject) /\ lines \in Seq(Reject \cup {Torn})
    BY <1>6, <2>1
  <2>3. Whole(lines) = lines
    BY <1>2, <2>2, WholeIsIt
  <2> QED
    BY <2>1, <2>2, <2>3
<1> QED
  BY <1>1, <1>4, <1>6, <1>7 DEF RejectsInv, new, log

LEMMA CrashKeepsRejects ==
    ASSUME WalkInv, RejectsInv, Crash
    PROVE  RejectsInv' /\ Whole(rejects') = Whole(rejects)
<1>1. plan' = plan /\ session'.checked = FALSE
  BY NoSessionIsTyped DEF Crash
<1>2. CASE rejects' = rejects
  BY <1>1, <1>2, QuietRejects
<1>3. CASE rejects' = Append(Whole(rejects), Torn)
  <2>1. /\ Whole(rejects') = Whole(rejects) /\ rejects' \in Seq(Reject \cup {Torn})
        /\ Whole(rejects) \in Seq(Reject)
    BY <1>3, LogIsWhole, WholeCutsTorn
  <2>2. Reject' = Reject
    BY <1>1 DEF Reject, Position, Length
  <2> QED
    BY <1>1, <2>1, <2>2 DEF RejectsInv
<1> QED
  BY <1>2, <1>3, LogIsWhole DEF Crash

-----------------------------------------------------------------------------
(* One more record                                                         *)

\* A new record of the id the session is at.
RecordAdded(new, x) ==
    /\ \A p \in Position :
         Records(p)' = Records(p) \cup (IF p = x THEN {new} ELSE {})
    /\ \A p \in Position : new \notin Records(p)

LEMMA RowIsNew ==
    ASSUME WalkInv, FilesInv, RejectsInv, AppendRow, NEW x, x = session.position
    PROVE  /\ \E new : RecordAdded(new, x)
           /\ \E d \in Directories : RowsFor(d, x)' # {}
           /\ \A p, whys : RejectsFor(p, whys)' = RejectsFor(p, whys)
           /\ \A d \in Directories : \A p : RowsFor(d, p) \subseteq RowsFor(d, p)'
<1>1. PICK d, s, held : /\ d = session.directory /\ s = session.shards[d].number
                        /\ held = LinesOf(d, s)
  OBVIOUS
<1>2. /\ d \in Directories /\ s \in Nat /\ IsRows(held) /\ Len(held) < RowsPerShard
      /\ LinesOf(d, s)' = Append(held, x)
      /\ \A e \in Directories : \A n : e # d \/ n # s => LinesOf(e, n)' = LinesOf(e, n)
  BY <1>1, AppendKeepsFiles
<1>3. PICK k : k = Len(held) + 1
  OBVIOUS
<1>4. /\ k \in 1..RowsPerShard /\ Len(Append(held, x)) = k /\ Append(held, x)[k] = x
      /\ \A i \in 1..RowsPerShard : i # k =>
           /\ i <= k <=> i <= Len(held)
           /\ i <= Len(held) => Append(held, x)[i] = held[i]
  <2>1. held \in Seq(Position) /\ Len(held) \in Nat
    BY <1>2 DEF IsRows
  <2>2. k \in Nat /\ k <= RowsPerShard /\ 1 <= k
    BY <1>2, <1>3, <2>1, CrawlAssumption
  <2> QED
    BY <1>3, <2>1, <2>2, CrawlAssumption
<1>5. plan' = plan /\ rejects' = rejects /\ session'.checked = session.checked
  BY ShardStepFields DEF WalkInv
<1>6. \A p, whys : RejectsFor(p, whys)' = RejectsFor(p, whys)
  BY <1>5 DEF RejectsFor
<1> DEFINE new == <<d, s, k>>
<1>7. ASSUME NEW e \in Directories, NEW p
      PROVE  RowsFor(e, p)' = RowsFor(e, p) \cup (IF e = d /\ p = x THEN {new} ELSE {})
  <2> SUFFICES ASSUME NEW r
               PROVE  r \in RowsFor(e, p)' <=>
                        r \in RowsFor(e, p) \/ (e = d /\ p = x /\ r = new)
    OBVIOUS
  <2> DEFINE Old(n, i) == /\ r = <<e, n, i>> /\ i <= Len(LinesOf(e, n))
                          /\ LinesOf(e, n)[i] = p
             Now(n, i) == /\ r = <<e, n, i>> /\ i <= Len(LinesOf(e, n)')
                          /\ LinesOf(e, n)'[i] = p
  <2>1. /\ r \in RowsFor(e, p) <=> \E n : \E i \in 1..RowsPerShard : Old(n, i)
        /\ r \in RowsFor(e, p)' <=> \E n : \E i \in 1..RowsPerShard : Now(n, i)
    BY RowIs
  <2>2. CASE e # d
    <3>1. \A n : LinesOf(e, n)' = LinesOf(e, n)
      BY <1>2, <2>2
    <3>2. \A n, i : Now(n, i) <=> Old(n, i)
      BY <3>1
    <3> QED
      BY <2>1, <2>2, <3>2
  <2>3. CASE e = d
    <3>1. \A n, i : n # s => (Now(n, i) <=> Old(n, i))
      BY <1>2, <2>3
    <3>2. \A i \in 1..RowsPerShard : i # k => (Now(s, i) <=> Old(s, i))
      <4>0. LinesOf(e, s)' = Append(held, x)
        BY <1>2, <2>3
      <4>1. LinesOf(e, s) = held
        BY <1>1, <1>2, <2>3
      <4>2. Len(Append(held, x)) = k
        BY <1>4
      <4>3. \A i \in 1..RowsPerShard : i # k =>
              /\ i <= Len(Append(held, x)) <=> i <= Len(held)
              /\ i <= Len(held) => Append(held, x)[i] = held[i]
        BY <1>4, <4>2
      <4> QED
        BY ONLY <4>0, <4>1, <4>3
    <3>3. Now(s, k) <=> p = x /\ r = new
      <4>1. LinesOf(e, s)' = Append(held, x)
        BY <1>2, <2>3
      <4>2. /\ k <= Len(Append(held, x)) /\ Append(held, x)[k] = x
            /\ new = <<e, s, k>>
        BY <1>4, <2>3
      <4> QED
        BY ONLY <4>1, <4>2
    <3>4. ~Old(s, k)
      <4>1. LinesOf(e, s) = held
        BY <1>1, <1>2, <2>3
      <4>2. Len(held) \in Nat
        BY <1>2 DEF IsRows
      <4>3. ~(k <= Len(held))
        BY ONLY <1>3, <4>2
      <4> QED
        BY ONLY <4>1, <4>3
    <3>5. k \in 1..RowsPerShard
      BY <1>4
    <3> HIDE DEF Old, Now, new
    <3> QED
      BY <2>1, <2>3, <3>1, <3>2, <3>3, <3>4, <3>5
  <2> QED
    BY <2>2, <2>3
<1>8. ASSUME NEW e \in Directories, NEW p PROVE new \notin RowsFor(e, p)
  <2> SUFFICES ASSUME new \in RowsFor(e, p) PROVE FALSE
    OBVIOUS
  <2>1. PICK n : \E i \in 1..RowsPerShard : /\ new = <<e, n, i>> /\ i <= Len(LinesOf(e, n))
    BY RowIs
  <2>2. PICK i \in 1..RowsPerShard : new = <<e, n, i>> /\ i <= Len(LinesOf(e, n))
    BY <2>1
  <2>4. e = d /\ n = s /\ i = k
    BY <2>2
  <2>3. k <= Len(held)
    BY <1>1, <2>2, <2>4
  <2> QED
    BY <1>2, <1>3, <2>3 DEF IsRows
<1>9. ASSUME NEW i PROVE new # <<"rejects", i>>
  <2>1. Len(new) = 3 /\ Len(<<"rejects", i>>) = 2
    OBVIOUS
  <2> QED
    BY <2>1
<1> HIDE DEF new
<1>10. ASSUME NEW p
       PROVE  /\ Records(p)' = Records(p) \cup (IF p = x THEN {new} ELSE {})
              /\ new \notin Records(p)
  <2>1. new \notin Records(p)
    BY <1>8, <1>9 DEF Records
  <2>2. UNION {RowsFor(e, p)' : e \in Directories}
          = (UNION {RowsFor(e, p) : e \in Directories}) \cup (IF p = x THEN {new} ELSE {})
    BY <1>2, <1>7
  <2>3. Records(p)' = (UNION {RowsFor(e, p)' : e \in Directories})
          \cup {<<"rejects", i>> : i \in RejectsFor(p, {"reject", "giveUp"})'}
    BY DEF Records
  <2>4. RejectsFor(p, {"reject", "giveUp"})' = RejectsFor(p, {"reject", "giveUp"})
    BY <1>6
  <2> QED
    BY <2>1, <2>2, <2>3, <2>4 DEF Records
<1>11. RecordAdded(new, x)
  BY <1>10 DEF RecordAdded
<1>12. RowsFor(d, x)' # {}
  BY <1>2, <1>7
<1>13. \A e \in Directories : \A p : RowsFor(e, p) \subseteq RowsFor(e, p)'
  BY <1>7
<1> QED
  BY <1>2, <1>6, <1>11, <1>12, <1>13

LEMMA RejectIsNew ==
    ASSUME WalkInv, RejectsInv, AppendReject, NEW x, x = session.position
    PROVE  /\ \E new : RecordAdded(new, x)
           /\ \A d, p : RowsFor(d, p)' = RowsFor(d, p)
           /\ \A p, whys : RejectsFor(p, whys)' = RejectsFor(p, whys)
                \cup (IF p = x /\ session.at \in whys THEN {Len(Whole(rejects)) + 1} ELSE {})
<1>1. PICK log, why : log = Whole(rejects) /\ why = session.at
  OBVIOUS
<1>2. /\ RejectsInv' /\ Whole(rejects') = Append(log, [position |-> x, why |-> why])
      /\ why \in {"reject", "giveUp"} /\ UNCHANGED <<plan, plain, gz>>
  BY <1>1, AppendKeepsRejects, RejectFields DEF WalkInv
<1>3. log \in Seq(Reject)
  BY <1>1, LogIsWhole
<1>4. PICK k : k = Len(log) + 1
  OBVIOUS
<1>5. /\ DOMAIN Whole(rejects') = DOMAIN log \cup {k} /\ k \notin DOMAIN log
      /\ Whole(rejects')[k] = [position |-> x, why |-> why]
      /\ \A i \in DOMAIN log : Whole(rejects')[i] = log[i]
  BY <1>2, <1>3, <1>4
<1>6. \A p, whys : RejectsFor(p, whys) =
        {i \in DOMAIN log : log[i].position = p /\ log[i].why \in whys}
  BY <1>1, RejectIs
<1>7. \A p, whys : RejectsFor(p, whys)' = {i \in DOMAIN Whole(rejects') :
        Whole(rejects')[i].position = p /\ Whole(rejects')[i].why \in whys}
  BY <1>2, RejectIsThen
<1>8. \A p, whys : RejectsFor(p, whys)' = RejectsFor(p, whys)
        \cup (IF p = x /\ why \in whys THEN {k} ELSE {})
  <2> SUFFICES ASSUME NEW p, NEW whys, NEW i
               PROVE  i \in RejectsFor(p, whys)' <=>
                        i \in RejectsFor(p, whys) \/ (p = x /\ why \in whys /\ i = k)
    OBVIOUS
  <2>1. CASE i = k
    <3>1. i \notin RejectsFor(p, whys)
      BY <1>5, <1>6, <2>1
    <3>2. i \in RejectsFor(p, whys)' <=> p = x /\ why \in whys
      BY <1>5, <1>7, <2>1
    <3> QED
      BY <2>1, <3>1, <3>2
  <2>2. CASE i # k
    BY <1>5, <1>6, <1>7, <2>2
  <2> QED
    BY <2>1, <2>2
<1>9. \A d, p : RowsFor(d, p)' = RowsFor(d, p)
  BY <1>2 DEF RowsFor, ShardNumbers, LinesOf
<1> DEFINE new == <<"rejects", k>>
           both == {"reject", "giveUp"}
<1>10. ASSUME NEW p
       PROVE  /\ Records(p)' = Records(p) \cup (IF p = x THEN {new} ELSE {})
              /\ new \notin Records(p)
  <2>1. RejectsFor(p, both)' = RejectsFor(p, both) \cup (IF p = x THEN {k} ELSE {})
    BY <1>2, <1>8
  <2>2. ASSUME NEW d PROVE new \notin RowsFor(d, p)
    <3> SUFFICES ASSUME new \in RowsFor(d, p) PROVE FALSE
      OBVIOUS
    <3>0. PICK r : r = new
      OBVIOUS
    <3> HIDE DEF new
    <3>4. r \in RowsFor(d, p)
      BY <3>0
    <3>5. \E n : \E i \in 1..RowsPerShard : r = <<d, n, i>>
      BY <3>4, RowIs
    <3>1. PICK n : \E i \in 1..RowsPerShard : new = <<d, n, i>>
      BY <3>0, <3>5
    <3>3. PICK i : new = <<d, n, i>>
      BY <3>1
    <3> USE DEF new
    <3>2. Len(new) = 2 /\ Len(<<d, n, i>>) = 3
      OBVIOUS
    <3> QED
      BY <3>2, <3>3
  <2>3. k \notin RejectsFor(p, both)
    BY <1>5, <1>6
  <2>4. \A i : new = <<"rejects", i>> => i = k
    OBVIOUS
  <2>5. new \notin Records(p)
    BY <2>2, <2>3, <2>4 DEF Records
  <2>6. Records(p)' = (UNION {RowsFor(d, p)' : d \in Directories})
          \cup {<<"rejects", i>> : i \in RejectsFor(p, both)'}
    BY DEF Records
  <2>7. UNION {RowsFor(d, p)' : d \in Directories} = UNION {RowsFor(d, p) : d \in Directories}
    BY <1>9
  <2>8. {<<"rejects", i>> : i \in RejectsFor(p, both)'}
          = {<<"rejects", i>> : i \in RejectsFor(p, both)} \cup (IF p = x THEN {new} ELSE {})
    BY <2>1
  <2> QED
    BY <2>5, <2>6, <2>7, <2>8 DEF Records
<1>11. RecordAdded(new, x)
  BY <1>10 DEF RecordAdded
<1> QED
  BY <1>1, <1>4, <1>8, <1>9, <1>11

LEMMA OneMoreRecord ==
    ASSUME plan \in Plans, plan' = plan, NEW new, NEW x \in Position, RecordAdded(new, x),
           IsFiniteSet(AllRecords)
    PROVE  /\ IsFiniteSet(AllRecords') /\ PlacesKept' = PlacesKept \cup {x}
           /\ Cardinality(AllRecords) \in Nat /\ Cardinality(PlacesKept) \in Nat
           /\ Cardinality(AllRecords') = Cardinality(AllRecords) + 1
           /\ Cardinality(PlacesKept') =
                Cardinality(PlacesKept) + (IF x \in PlacesKept THEN 0 ELSE 1)
<1>1. Position' = Position
  BY DEF Position, Length
<1>2. AllRecords' = AllRecords \cup {new} /\ new \notin AllRecords
  BY <1>1 DEF AllRecords, RecordAdded
<1>3. PlacesKept' = PlacesKept \cup {x}
  BY <1>1 DEF PlacesKept, RecordAdded
<1>4. IsFiniteSet(PlacesKept)
  BY Positions, FS_Subset DEF PlacesKept
<1> HIDE DEF AllRecords, PlacesKept
<1>5. Cardinality(AllRecords) \in Nat /\ Cardinality(PlacesKept) \in Nat
  BY <1>4, FS_CardinalityType
<1>6. IsFiniteSet(AllRecords') /\ Cardinality(AllRecords') = Cardinality(AllRecords) + 1
  BY <1>2, FS_AddElement
<1>7. CASE x \in PlacesKept
  <2>1. PlacesKept' = PlacesKept
    BY <1>3, <1>7
  <2> QED
    BY <1>3, <1>5, <1>6, <1>7, <2>1
<1>8. CASE x \notin PlacesKept
  <2>1. Cardinality(PlacesKept') = Cardinality(PlacesKept) + 1
    BY <1>3, <1>4, <1>8, FS_AddElement
  <2> QED
    BY <1>3, <1>5, <1>6, <1>8, <2>1
<1> QED
  BY <1>7, <1>8

-----------------------------------------------------------------------------
(* The data and the repeats, action by action                              *)

LEMMA DataInvInit == Init => DataInv /\ RepeatInv
<1> SUFFICES ASSUME Init PROVE DataInv /\ RepeatInv
  OBVIOUS
<1>1. /\ cursor = [position |-> 0, failures |-> 0] /\ rejects = <<>>
      /\ failed = [p \in Position |-> 0] /\ crashes = 0
      /\ session.at = "down" /\ session.landed = FALSE
      /\ plain = [d \in Directories |-> <<>>] /\ gz = [d \in Directories |-> <<>>]
  BY NoSessionIsTyped DEF Init, Position
<1>2. \A p, whys : RejectsFor(p, whys) = {}
  <2>1. Whole(<<>>) = <<>> /\ DOMAIN <<>> = {}
    BY DEF Whole
  <2> QED
    BY <1>1, <2>1 DEF RejectsFor
<1>3. ASSUME NEW d \in Directories, NEW p PROVE RowsFor(d, p) = {}
  <2>1. ShardNumbers(d) = {}
    BY <1>1 DEF ShardNumbers
  <2> QED
    BY <2>1 DEF RowsFor
<1>4. \A p : Records(p) = {}
  BY <1>2, <1>3 DEF Records
<1>5. AllRecords = {} /\ PlacesKept = {}
  BY <1>4 DEF AllRecords, PlacesKept
<1>6. \A p \in Position : p \in Nat /\ ~(p < 0)
  BY DEF Position
<1>7. DataInv
  BY <1>1, <1>2, <1>6 DEF DataInv, Behind, AtStep, Done
<1>8. RepeatInv
  BY <1>1, <1>5, FS_EmptySet DEF RepeatInv, Again
<1> QED
  BY <1>7, <1>8

LEMMA BehindKept ==
    ASSUME Behind, plan' = plan,
           \A p \in Position :
             /\ p < cursor'.position /\ Walked(plan, p) => Landed(p)'
             /\ p = cursor'.position => cursor'.failures <= failed'[p]
             /\ failed[p] \in Nat /\ failed'[p] \in Nat /\ failed[p] <= failed'[p]
             /\ RejectsFor(p, {"giveUp"})' # {} =>
                  RejectsFor(p, {"giveUp"}) # {} \/ failed'[p] >= MaxSessionFailures,
           cursor.failures \in Nat, session.failures \in Nat,
           session'.at # "down" =>
             \/ /\ session.at # "down"
                /\ session'.start = session.start /\ session'.failures = session.failures
             \/ session'.start = cursor.position /\ session'.failures = cursor.failures
    PROVE  Behind'
<1>1. Position' = Position
  BY DEF Position, Length
<1>2. MaxSessionFailures \in Nat
  BY CrawlAssumption
<1>3. ASSUME NEW p \in Position
      PROVE  /\ p < cursor'.position /\ Walked(plan', p) => Landed(p)'
             /\ RejectsFor(p, {"giveUp"})' # {} => failed'[p] >= MaxSessionFailures
             /\ p = cursor'.position => cursor'.failures <= failed'[p]
             /\ session'.at # "down" /\ p = session'.start => session'.failures <= failed'[p]
  <2>1. /\ RejectsFor(p, {"giveUp"}) # {} => failed[p] >= MaxSessionFailures
        /\ p = cursor.position => cursor.failures <= failed[p]
        /\ session.at # "down" /\ p = session.start => session.failures <= failed[p]
    BY DEF Behind
  <2>2. failed[p] \in Nat /\ failed'[p] \in Nat /\ failed[p] <= failed'[p]
    OBVIOUS
  <2>3. RejectsFor(p, {"giveUp"})' # {} => failed'[p] >= MaxSessionFailures
    BY <1>2, <2>1, <2>2
  <2>4. session'.at # "down" /\ p = session'.start => session'.failures <= failed'[p]
    BY <2>1, <2>2
  <2> QED
    BY <2>3, <2>4
<1> QED
  BY <1>1, <1>3 DEF Behind

\* The counters are numbers.
LEMMA CountersAreNumbers ==
    ASSUME WalkTypes
    PROVE  /\ cursor.failures \in Nat /\ session.failures \in Nat /\ crashes \in Nat
           /\ cursor.position \in 0..Length /\ session.position \in 0..Length
           /\ \A p \in Position : failed[p] \in 0..MaxSessionFailures
           /\ MaxSessionFailures \in Nat /\ MaxSessionFailures >= 1
BY CrawlAssumption DEF WalkTypes

\* A step that changes no record, or a crash.
LEMMA SameRecords ==
    ASSUME WalkInv, RepeatInv, SameData, cursor' = cursor,
           (crashes' = crashes /\ (Done => Done')) \/ crashes' = crashes + 1
    PROVE  RepeatInv'
<1>1. plan' = plan /\ AllRecords' = AllRecords /\ PlacesKept' = PlacesKept
  BY DEF SameData
<1>2. Position' = Position
  BY <1>1 DEF Position, Length
<1>3. \A p : FirstWalked(p)' <=> FirstWalked(p)
  BY <1>1, <1>2 DEF FirstWalked
<1>4. \A p \in PlacesKept' : cursor'.position <= p => FirstWalked(p)'
  BY <1>1, <1>3 DEF RepeatInv
<1>5. IsFiniteSet(AllRecords') /\ Cardinality(AllRecords') = Cardinality(AllRecords)
      /\ Cardinality(PlacesKept') = Cardinality(PlacesKept)
      /\ Cardinality(AllRecords) \in Nat
  BY <1>1, FS_CardinalityType DEF RepeatInv
<1>6. IsFiniteSet(PlacesKept)
  BY Positions, FS_Subset DEF PlacesKept, WalkInv, WalkTypes
<1>7. Cardinality(PlacesKept) \in Nat /\ crashes \in Nat
  BY <1>6, FS_CardinalityType, CountersAreNumbers DEF WalkInv
<1>8. Cardinality(AllRecords) + (IF Again THEN 1 ELSE 0) <= crashes + Cardinality(PlacesKept)
  BY DEF RepeatInv
<1>9. (crashes' = crashes /\ (Again' => Again)) \/ crashes' = crashes + 1
  BY <1>1 DEF Again
<1>10. Cardinality(AllRecords') + (IF Again' THEN 1 ELSE 0)
         <= crashes' + Cardinality(PlacesKept')
  <2> HIDE DEF Again
  <2> QED
    BY <1>5, <1>7, <1>8, <1>9
<1> QED
  BY <1>4, <1>5, <1>10 DEF RepeatInv

\* Steps that move lines between files and the session along, and change none.
LEMMA QuietKeepsData ==
    ASSUME CrawlInv, RejectsInv', SameData, UNCHANGED <<cursor, answer, failed, crashes>>,
           Done' <=> Done,
           Done => session'.position = session.position,
           session'.at \notin {"reject", "giveUp", "failure"},
           session'.at \in {"row", "compress", "unlink"} =>
             /\ session.at \in {"row", "compress", "unlink"}
             /\ session'.position = session.position,
           session'.at # "down" =>
             \/ /\ session.at # "down"
                /\ session'.start = session.start /\ session'.failures = session.failures
             \/ session'.start = cursor.position /\ session'.failures = cursor.failures
    PROVE  DataInv' /\ RepeatInv'
<1>1. WalkInv /\ WalkTypes /\ Behind /\ AtStep /\ RepeatInv
  BY DEF CrawlInv, WalkInv, DataInv
<1>2. \A p : Landed(p)' <=> Landed(p)
  BY SameDataSameLanded
<1>3. plan' = plan /\ \A p, whys : RejectsFor(p, whys)' = RejectsFor(p, whys)
  BY DEF SameData
<1>4. \A p \in Position : failed[p] \in Nat
  BY <1>1, CountersAreNumbers
<1>5. \A p \in Position :
        /\ p < cursor'.position /\ Walked(plan, p) => Landed(p)'
        /\ p = cursor'.position => cursor'.failures <= failed'[p]
        /\ failed[p] \in Nat /\ failed'[p] \in Nat /\ failed[p] <= failed'[p]
        /\ RejectsFor(p, {"giveUp"})' # {} => RejectsFor(p, {"giveUp"}) # {}
  BY <1>1, <1>2, <1>3, <1>4 DEF Behind
<1>6. cursor.failures \in Nat /\ session.failures \in Nat
  BY <1>1, CountersAreNumbers
<1>7. Behind'
  BY <1>1, <1>3, <1>5, <1>6, BehindKept
<1>8. PICK x : x = session.position
  OBVIOUS
<1>11. Done' => session'.position = x /\ Landed(x)'
  BY <1>1, <1>2, <1>8 DEF AtStep
<1>9. AtStep'
  BY <1>1, <1>11 DEF AtStep
<1>10. RepeatInv'
  BY <1>1, SameRecords
<1> QED
  BY <1>7, <1>9, <1>10 DEF DataInv

LEMMA StartKeepsIt ==
    ASSUME CrawlInv, StartSession
    PROVE  CrawlInv'
<1>1. WalkInv /\ FilesInv /\ RejectsInv
  BY DEF CrawlInv
<1>2. /\ WalkInv' /\ session'.at = "next" /\ session'.landed = FALSE
      /\ session'.start = cursor.position /\ session'.failures = cursor.failures
      /\ session'.shards = [d \in Directories |-> Closed] /\ session'.checked = FALSE
  BY <1>1, StartKeepsWalk
<1>3. /\ UNCHANGED <<plan, cursor, plain, gz, rejects, answer, failed, crashes>>
      /\ session.at = "down"
  BY DEF StartSession, files, history
<1>4. FilesInv' /\ \A d, n : LinesOf(d, n)' = LinesOf(d, n)
  BY <1>1, <1>2, <1>3, QuietFiles
<1>5. RejectsInv' /\ Whole(rejects') = Whole(rejects)
  BY <1>1, <1>2, <1>3, QuietRejects
<1>6. SameData
  BY <1>1, <1>3, <1>4, <1>5, SameLinesSameData
<1>7. ~Done /\ ~Done'
  BY <1>1, <1>2, <1>3 DEF Done, WalkInv
<1>8. DataInv' /\ RepeatInv'
  BY <1>2, <1>3, <1>5, <1>6, <1>7, QuietKeepsData
<1> QED
  BY <1>2, <1>4, <1>5, <1>8 DEF CrawlInv

LEMMA ShelfStepKeepsIt ==
    ASSUME CrawlInv, FinishCompression \/ OpenShards \/ Compress \/ Unlink
    PROVE  CrawlInv'
<1>1. WalkInv /\ WalkTypes /\ FilesInv /\ RejectsInv
  BY DEF CrawlInv, WalkInv
<1>2. WalkInv'
  BY <1>1, ShardStepKeepsWalk
<1>3. /\ session'.position = session.position
      /\ session'.failures = session.failures /\ session'.start = session.start
      /\ session'.checked = session.checked
      /\ UNCHANGED <<plan, cursor, rejects, answer, failed, crashes>>
  BY <1>1, ShardStepFields
<1>4. /\ session.at \in {"row", "compress", "unlink"} /\ session'.landed = session.landed
      /\ \/ session'.at \in {"row", "compress", "unlink"}
         \/ session'.at = "cursor" /\ session.landed
  BY <1>1, ShardStepGoes
<1>5. PICK d : d = session.directory
  OBVIOUS
<1>6. FilesInv' /\ \A e \in Directories : \A n : LinesOf(e, n)' = LinesOf(e, n)
  BY <1>1, <1>5, FinishKeepsFiles, OpenKeepsFiles, CompressKeepsFiles, UnlinkKeepsFiles
<1>7. RejectsInv' /\ Whole(rejects') = Whole(rejects)
  BY <1>1, <1>3, QuietRejects
<1>8. SameData
  BY <1>1, <1>3, <1>6, <1>7, SameLinesSameData
<1>9. Done' <=> Done
  BY <1>4 DEF Done
<1>10. session.at # "down" /\ session'.at \notin {"reject", "giveUp", "failure"}
  BY <1>4
<1>11. DataInv' /\ RepeatInv'
  BY <1>3, <1>4, <1>7, <1>8, <1>9, <1>10, QuietKeepsData
<1> QED
  BY <1>2, <1>6, <1>7, <1>11 DEF CrawlInv

LEMMA FetchKeepsIt ==
    ASSUME CrawlInv, Fetch
    PROVE  CrawlInv'
<1>1. WalkInv /\ WalkTypes /\ FilesInv /\ RejectsInv /\ Behind /\ RepeatInv
  BY DEF CrawlInv, WalkInv, DataInv
<1>2. WalkInv'
  BY <1>1, FetchKeepsWalk
<1>3. /\ session.at = "next"
      /\ UNCHANGED <<plan, cursor, plain, gz, rejects, crashes>>
  BY DEF Fetch, files
<1>4. PICK p \in IdsFrom(plan, session.position), what \in Answers \ {"none"} :
        /\ \A q \in IdsFrom(plan, session.position) : p <= q
        /\ session' \in AfterAnswer(p, what)
        /\ answer' = [answer EXCEPT ![p] = what]
        /\ failed' = IF what = "transient" /\ failed[p] < MaxSessionFailures
                     THEN [failed EXCEPT ![p] = failed[p] + 1] ELSE failed
  BY DEF Fetch
<1>5. FirstWalked(p) /\ p \in Position
  BY <1>1, <1>3, <1>4, FetchesFirst
<1>6. /\ session'.position = p
      /\ session'.failures = session.failures /\ session'.start = session.start
      /\ session'.checked = session.checked /\ session'.shards = session.shards
      /\ session'.landed \in {FALSE, session.landed}
      /\ \/ what = "found" /\ session'.at = "row"
         \/ what = "notFound" /\ session'.at = "cursor"
         \/ what = "rejected" /\ session'.at = "reject"
         \/ /\ what = "transient"
            /\ session'.at = IF FailuresAt(p) + 1 < MaxSessionFailures
                             THEN "failure" ELSE "giveUp"
  BY <1>1, <1>4, FetchFields
<1>7. session.landed = FALSE /\ session'.landed = FALSE /\ ~Done
  BY <1>1, <1>3, <1>6 DEF WalkInv, WalkTypes, Done
<1>8. FilesInv' /\ \A d, n : LinesOf(d, n)' = LinesOf(d, n)
  <2>1. session'.at \notin {"compress", "unlink"} /\ session.at \notin {"compress", "unlink"}
    BY <1>3, <1>6
  <2> QED
    BY <1>1, <1>3, <1>6, <2>1, QuietFiles
<1>9. RejectsInv' /\ Whole(rejects') = Whole(rejects)
  BY <1>1, <1>3, <1>6, QuietRejects
<1>10. SameData
  BY <1>1, <1>3, <1>8, <1>9, SameLinesSameData
<1>11. RepeatInv'
  BY <1>1, <1>3, <1>7, <1>10, SameRecords
<1>12. /\ answer'[p] = what /\ \A q \in Position : q # p => answer'[q] = answer[q]
       /\ \A q \in Position : q # p => failed'[q] = failed[q]
       /\ failed'[p] = IF what = "transient" /\ failed[p] < MaxSessionFailures
                       THEN failed[p] + 1 ELSE failed[p]
  BY <1>1, <1>4, <1>5 DEF WalkTypes
<1>13. /\ \A q \in Position : failed[q] \in 0..MaxSessionFailures
       /\ cursor.failures \in Nat /\ session.failures \in Nat
       /\ MaxSessionFailures \in Nat /\ cursor.position \in 0..Length
  BY <1>1, CountersAreNumbers
<1>14. \A q \in Position :
         failed[q] \in Nat /\ failed'[q] \in Nat /\ failed[q] <= failed'[q]
  BY <1>5, <1>12, <1>13
<1>15. \A q \in Position : q < cursor.position /\ Walked(plan, q) => Landed(q)'
  <2> SUFFICES ASSUME NEW q \in Position, q < cursor.position, Walked(plan, q)
               PROVE  Landed(q)'
    OBVIOUS
  <2>1. q # p
    <3>1. p \in Nat /\ q \in Nat /\ cursor.position <= p
      BY <1>1, <1>5, Positions DEF FirstWalked, WalkTypes
    <3> QED
      BY <1>13, <3>1
  <2>2. Landed(q) /\ answer'[q] = answer[q]
    BY <1>1, <1>12, <2>1 DEF Behind
  <2> QED
    BY <1>10, <2>2, SameDataSameLanded
<1>16. Behind'
  <2>1. \A q \in Position :
          /\ q < cursor'.position /\ Walked(plan, q) => Landed(q)'
          /\ q = cursor'.position => cursor'.failures <= failed'[q]
          /\ failed[q] \in Nat /\ failed'[q] \in Nat /\ failed[q] <= failed'[q]
          /\ RejectsFor(q, {"giveUp"})' # {} => RejectsFor(q, {"giveUp"}) # {}
    <3>1. \A q \in Position : RejectsFor(q, {"giveUp"})' = RejectsFor(q, {"giveUp"})
      BY <1>10 DEF SameData
    <3>2. \A q \in Position : q = cursor.position => cursor.failures <= failed[q]
      BY <1>1 DEF Behind
    <3>3. \A q \in Position : q = cursor.position => cursor.failures <= failed'[q]
      BY <1>13, <1>14, <3>2
    <3> QED
      BY <1>3, <1>14, <1>15, <3>1, <3>3
  <2> QED
    BY <1>1, <1>3, <1>6, <1>13, <2>1, BehindKept
<1>17. FailuresAt(p)' = FailuresAt(p) /\ FailuresAt(p) \in Nat /\ FailuresAt(p) <= failed[p]
  BY <1>1, <1>3, <1>5, <1>6, <1>13, <1>14 DEF FailuresAt, Behind
<1>18. what = "transient" => FailuresAt(p) < failed'[p] \/ failed'[p] >= MaxSessionFailures
  BY <1>5, <1>12, <1>13, <1>17
<1>19. /\ session'.at = "failure" =>
            FailuresAt(p) < failed'[p] /\ FailuresAt(p) + 1 < MaxSessionFailures
       /\ session'.at = "giveUp" => what = "transient" /\ failed'[p] >= MaxSessionFailures
  <2>1. PICK f : f = FailuresAt(p)
    OBVIOUS
  <2>2. failed[p] \in 0..MaxSessionFailures /\ f \in Nat /\ f <= failed[p]
    BY <1>5, <1>13, <1>17, <2>1
  <2>3. session'.at \in {"failure", "giveUp"} =>
          /\ what = "transient"
          /\ session'.at = IF f + 1 < MaxSessionFailures THEN "failure" ELSE "giveUp"
    BY <1>6, <2>1
  <2>4. CASE session'.at = "failure"
    <3>1. f + 1 < MaxSessionFailures /\ what = "transient"
      BY <1>13, <2>3, <2>4
    <3> QED
      BY <1>12, <1>13, <2>1, <2>2, <2>4, <3>1
  <2>5. CASE session'.at = "giveUp"
    <3>1. ~(f + 1 < MaxSessionFailures) /\ what = "transient"
      BY <1>13, <2>3, <2>5
    <3> QED
      BY <1>12, <1>13, <2>1, <2>2, <2>5, <3>1
  <2> QED
    BY <2>4, <2>5
<1>20. Done' => Landed(p)'
  <2>1. Done' => what = "notFound"
    BY <1>6, <1>7 DEF Done
  <2> QED
    BY <1>12, <2>1 DEF Landed
<1>21. AtStep'
  <2>1. /\ session'.at \in {"row", "compress", "unlink"} => what = "found"
        /\ session'.at = "reject" => what = "rejected"
    BY <1>6
  <2> QED
    BY <1>6, <1>12, <1>17, <1>19, <1>20, <2>1 DEF AtStep
<1> QED
  BY <1>2, <1>8, <1>9, <1>11, <1>16, <1>21 DEF CrawlInv, DataInv

\* A new record of the id the session is at: one more id, or the one repeat
\* of the crash before.
LEMMA NewRecordIsAccounted ==
    ASSUME WalkInv, RepeatInv, AtAnId, ~Done, Done', plan' = plan, cursor' = cursor,
           crashes' = crashes, NEW x, x = session.position, NEW new, RecordAdded(new, x)
    PROVE  RepeatInv'
<1>1. FirstWalked(x) /\ x \in Position /\ plan \in Plans /\ crashes \in Nat
  BY DEF WalkInv, WalkTypes, FirstWalked
<1>2. IsFiniteSet(AllRecords)
  BY DEF RepeatInv
<1>3. /\ IsFiniteSet(AllRecords') /\ PlacesKept' = PlacesKept \cup {x}
      /\ Cardinality(AllRecords) \in Nat /\ Cardinality(PlacesKept) \in Nat
      /\ Cardinality(AllRecords') = Cardinality(AllRecords) + 1
      /\ Cardinality(PlacesKept') = Cardinality(PlacesKept) + (IF x \in PlacesKept THEN 0 ELSE 1)
  BY <1>1, <1>2, OneMoreRecord
<1>4. Position' = Position /\ \A p : FirstWalked(p)' <=> FirstWalked(p)
  BY DEF Position, Length, FirstWalked
<1>5. \A p \in PlacesKept' : cursor'.position <= p => FirstWalked(p)'
  BY <1>1, <1>3, <1>4 DEF RepeatInv
<1>6. Cardinality(AllRecords) + (IF Again THEN 1 ELSE 0) <= crashes + Cardinality(PlacesKept)
  BY DEF RepeatInv
<1>7. ~Again'
  BY DEF Again
<1>8. x \in PlacesKept => Again
  BY <1>1 DEF Again, FirstWalked
<1>9. Cardinality(AllRecords') + (IF Again' THEN 1 ELSE 0) <= crashes' + Cardinality(PlacesKept')
  <2> HIDE DEF Again
  <2> QED
    BY <1>1, <1>3, <1>6, <1>7, <1>8
<1> QED
  BY <1>3, <1>5, <1>9 DEF RepeatInv

LEMMA AppendRowKeepsIt ==
    ASSUME CrawlInv, AppendRow
    PROVE  CrawlInv'
<1>1. WalkInv /\ WalkTypes /\ FilesInv /\ RejectsInv /\ Behind /\ AtStep /\ RepeatInv
  BY DEF CrawlInv, WalkInv, DataInv
<1>2. WalkInv'
  BY <1>1, ShardStepKeepsWalk
<1>3. /\ session'.position = session.position
      /\ session'.failures = session.failures /\ session'.start = session.start
      /\ session'.checked = session.checked
      /\ UNCHANGED <<plan, cursor, rejects, answer, failed, crashes>>
  BY <1>1, ShardStepFields
<1>4. session.at = "row" /\ session'.at \in {"compress", "cursor"} /\ session'.landed = TRUE
  BY <1>1, ShardStepGoes
<1>5. PICK d, s, held, x : /\ d = session.directory /\ s = session.shards[d].number
                           /\ held = LinesOf(d, s) /\ x = session.position
  OBVIOUS
<1>6. FilesInv'
  BY <1>1, <1>5, AppendKeepsFiles
<1>7. RejectsInv'
  BY <1>1, <1>3, QuietRejects
<1>8. /\ \E new : RecordAdded(new, x)
      /\ \E e \in Directories : RowsFor(e, x)' # {}
      /\ \A p, whys : RejectsFor(p, whys)' = RejectsFor(p, whys)
      /\ \A e \in Directories : \A p : RowsFor(e, p) \subseteq RowsFor(e, p)'
  BY <1>1, <1>5, RowIsNew
<1>9. AtAnId /\ ~Done /\ Done'
  BY <1>1, <1>4 DEF AtAnId, Done, WalkInv, WalkTypes
<1>10. RepeatInv'
  BY <1>1, <1>3, <1>5, <1>8, <1>9, NewRecordIsAccounted
<1>11. \A p : Landed(p) => Landed(p)'
  <2> SUFFICES ASSUME NEW p, Landed(p) PROVE Landed(p)'
    OBVIOUS
  <2>1. (\E e \in Directories : RowsFor(e, p) # {}) => (\E e \in Directories : RowsFor(e, p)' # {})
    BY <1>8
  <2>2. \A whys : RejectsFor(p, whys)' = RejectsFor(p, whys)
    BY <1>8
  <2> QED
    BY <1>3, <2>1, <2>2 DEF Landed
<1>12. Landed(x)'
  BY <1>1, <1>3, <1>4, <1>5, <1>8 DEF AtStep, Landed
<1>13. Behind'
  <2>1. \A p \in Position : failed[p] \in Nat
    BY <1>1, CountersAreNumbers
  <2>2. cursor.failures \in Nat /\ session.failures \in Nat
    BY <1>1, CountersAreNumbers
  <2>3. \A p \in Position :
          /\ p < cursor'.position /\ Walked(plan, p) => Landed(p)'
          /\ p = cursor'.position => cursor'.failures <= failed'[p]
          /\ failed[p] \in Nat /\ failed'[p] \in Nat /\ failed[p] <= failed'[p]
          /\ RejectsFor(p, {"giveUp"})' # {} => RejectsFor(p, {"giveUp"}) # {}
    BY <1>1, <1>3, <1>8, <1>11, <2>1 DEF Behind
  <2> QED
    BY <1>1, <1>3, <1>4, <2>2, <2>3, BehindKept
<1>14. AtStep'
  BY <1>1, <1>3, <1>4, <1>5, <1>12 DEF AtStep
<1> QED
  BY <1>2, <1>6, <1>7, <1>10, <1>13, <1>14 DEF CrawlInv, DataInv

LEMMA AppendRejectKeepsIt ==
    ASSUME CrawlInv, AppendReject
    PROVE  CrawlInv'
<1>1. WalkInv /\ WalkTypes /\ FilesInv /\ RejectsInv /\ Behind /\ AtStep /\ RepeatInv
  BY DEF CrawlInv, WalkInv, DataInv
<1>2. WalkInv' /\ RejectsInv'
  BY <1>1, RejectKeepsWalk, AppendKeepsRejects
<1>3. /\ session'.position = session.position
      /\ session'.failures = session.failures /\ session'.start = session.start
      /\ session'.landed = session.landed /\ session'.shards = session.shards
      /\ session.at \in {"reject", "giveUp"}
      /\ session'.at = IF session.at = "reject" THEN "cursor" ELSE "cursorThenRaise"
      /\ UNCHANGED <<plan, cursor, plain, gz, answer, failed, crashes>>
  BY <1>1, RejectFields
<1>4. FilesInv'
  <2>1. session'.at \notin {"compress", "unlink"} /\ session.at \notin {"compress", "unlink"}
    BY <1>3
  <2> QED
    BY <1>1, <1>3, <2>1, QuietFiles
<1>5. PICK x, k : x = session.position /\ k = Len(Whole(rejects)) + 1
  OBVIOUS
<1>6. /\ \E new : RecordAdded(new, x)
      /\ \A d, p : RowsFor(d, p)' = RowsFor(d, p)
      /\ \A p, whys : RejectsFor(p, whys)' = RejectsFor(p, whys)
           \cup (IF p = x /\ session.at \in whys THEN {k} ELSE {})
  BY <1>1, <1>5, RejectIsNew
<1>7. AtAnId /\ ~Done /\ Done'
  BY <1>1, <1>3 DEF AtAnId, Done, WalkInv, WalkTypes
<1>8. RepeatInv'
  BY <1>1, <1>3, <1>5, <1>6, <1>7, NewRecordIsAccounted
<1>9. x \in Position
  BY <1>1, <1>5, <1>7 DEF WalkInv, FirstWalked
<1>10. \A p : Landed(p) => Landed(p)'
  <2> SUFFICES ASSUME NEW p, Landed(p) PROVE Landed(p)'
    OBVIOUS
  <2>1. (\E e \in Directories : RowsFor(e, p) # {}) => (\E e \in Directories : RowsFor(e, p)' # {})
    BY <1>6
  <2>2. \A whys : RejectsFor(p, whys) # {} => RejectsFor(p, whys)' # {}
    BY <1>6
  <2> QED
    BY <1>3, <2>1, <2>2 DEF Landed
<1>11. Landed(x)'
  <2>1. \A whys : session.at \in whys => RejectsFor(x, whys)' # {}
    BY <1>6
  <2>2. CASE session.at = "reject"
    <3>1. answer'[x] = "rejected" /\ RejectsFor(x, {"reject"})' # {}
      BY <1>1, <1>3, <1>5, <2>1, <2>2 DEF AtStep
    <3> QED
      BY <3>1 DEF Landed
  <2>3. CASE session.at = "giveUp"
    <3>1. answer'[x] = "transient" /\ RejectsFor(x, {"giveUp"})' # {}
      BY <1>1, <1>3, <1>5, <2>1, <2>3 DEF AtStep
    <3> QED
      BY <3>1 DEF Landed
  <2> QED
    BY <1>3, <2>2, <2>3
<1>12. Behind'
  <2>1. \A p \in Position : failed[p] \in Nat
    BY <1>1, CountersAreNumbers
  <2>2. cursor.failures \in Nat /\ session.failures \in Nat
    BY <1>1, CountersAreNumbers
  <2>3. session.at = "giveUp" => failed[x] >= MaxSessionFailures
    BY <1>1, <1>5 DEF AtStep
  <2>4. \A p \in Position : RejectsFor(p, {"giveUp"})' # {} =>
          RejectsFor(p, {"giveUp"}) # {} \/ failed'[p] >= MaxSessionFailures
    BY <1>3, <1>6, <2>3
  <2>5. \A p \in Position :
          /\ p < cursor'.position /\ Walked(plan, p) => Landed(p)'
          /\ p = cursor'.position => cursor'.failures <= failed'[p]
          /\ failed[p] \in Nat /\ failed'[p] \in Nat /\ failed[p] <= failed'[p]
    BY <1>1, <1>3, <1>10, <2>1 DEF Behind
  <2> QED
    BY <1>1, <1>3, <2>2, <2>4, <2>5, BehindKept
<1>13. AtStep'
  BY <1>3, <1>5, <1>11 DEF AtStep
<1> QED
  BY <1>2, <1>4, <1>8, <1>12, <1>13 DEF CrawlInv, DataInv

\* The cursor moves on and no record changes.
LEMMA CursorMovesOn ==
    ASSUME WalkInv, RepeatInv, SameData, crashes' = crashes,
           cursor'.position \in Nat, cursor.position <= cursor'.position,
           Again' => Again
    PROVE  RepeatInv'
<1>1. plan' = plan /\ AllRecords' = AllRecords /\ PlacesKept' = PlacesKept
  BY DEF SameData
<1>2. Position' = Position
  BY <1>1 DEF Position, Length
<1>3. cursor.position \in Nat /\ Position \subseteq Nat
  BY Positions DEF WalkInv, WalkTypes
<1>4. ASSUME NEW p \in PlacesKept, cursor'.position <= p PROVE FirstWalked(p)'
  <2>1. p \in Position /\ p \in Nat
    BY <1>3 DEF PlacesKept
  <2>2. cursor.position <= p
    BY <1>3, <1>4, <2>1
  <2>3. FirstWalked(p)
    BY <2>2 DEF RepeatInv
  <2>4. cursor'.position..(p - 1) \subseteq cursor.position..(p - 1)
    BY <1>3, <2>1
  <2> QED
    BY <1>1, <1>2, <1>4, <2>1, <2>3, <2>4 DEF FirstWalked
<1>5. IsFiniteSet(PlacesKept)
  BY Positions, FS_Subset DEF PlacesKept, WalkInv, WalkTypes
<1>6. /\ Cardinality(PlacesKept) \in Nat /\ crashes \in Nat /\ IsFiniteSet(AllRecords)
      /\ Cardinality(AllRecords) \in Nat
  BY <1>5, FS_CardinalityType, CountersAreNumbers DEF WalkInv, RepeatInv
<1>7. Cardinality(AllRecords) + (IF Again THEN 1 ELSE 0) <= crashes + Cardinality(PlacesKept)
  BY DEF RepeatInv
<1>8. Cardinality(AllRecords) + (IF Again' THEN 1 ELSE 0) <= crashes + Cardinality(PlacesKept)
  <2> HIDE DEF Again
  <2> QED
    BY <1>6, <1>7
<1> QED
  BY <1>1, <1>4, <1>6, <1>8 DEF RepeatInv

\* Every id behind the one a session is at has been behind the cursor.
LEMMA BehindTheId ==
    ASSUME WalkInv, Behind, NEW x \in Position, FirstWalked(x)
    PROVE  \A p \in Position : p < x /\ Walked(plan, p) => Landed(p)
<1> SUFFICES ASSUME NEW p \in Position, p < x, Walked(plan, p) PROVE Landed(p)
  OBVIOUS
<1>1. p \in Nat /\ x \in Nat /\ cursor.position \in Nat
  BY Positions DEF WalkInv, WalkTypes
<1>2. p < cursor.position
  <2> SUFFICES ASSUME ~(p < cursor.position) PROVE FALSE
    OBVIOUS
  <2>1. p \in cursor.position..(x - 1)
    BY <1>1
  <2> QED
    BY <2>1 DEF FirstWalked
<1> QED
  BY <1>2 DEF Behind

LEMMA MoveKeepsIt ==
    ASSUME CrawlInv, MoveCursor
    PROVE  CrawlInv'
<1>1. WalkInv /\ WalkTypes /\ FilesInv /\ RejectsInv /\ Behind /\ AtStep /\ RepeatInv
  BY DEF CrawlInv, WalkInv, DataInv
<1>2. WalkInv'
  BY <1>1, MoveKeepsWalk
<1>3. PICK x : x = session.position
  OBVIOUS
<1>4. /\ session.at \in {"cursor", "cursorThenRaise"}
      /\ cursor' = [position |-> x + 1, failures |-> 0]
      /\ UNCHANGED <<plan, plain, gz, rejects, answer, failed, crashes>>
      /\ FirstWalked(x) /\ x \in Position
  BY <1>1, <1>3, MoveFields
<1>5. \/ session' = NoSession
      \/ /\ session'.at = "next"
         /\ session'.failures = session.failures /\ session'.start = session.start
         /\ session'.checked = session.checked /\ session'.landed = FALSE
         /\ session'.shards = session.shards
  BY <1>1, MoveFields
<1>6. session'.at \in {"down", "next"} /\ session'.landed = FALSE
      /\ (session'.checked => session.checked)
      /\ session'.shards \in {session.shards, [d \in Directories |-> Closed]}
  BY <1>5, NoSessionIsTyped
<1>7. FilesInv' /\ \A d, n : LinesOf(d, n)' = LinesOf(d, n)
  <2>1. session'.at \notin {"compress", "unlink"} /\ session.at \notin {"compress", "unlink"}
    BY <1>4, <1>6
  <2> QED
    BY <1>1, <1>4, <1>6, <2>1, QuietFiles
<1>8. RejectsInv' /\ Whole(rejects') = Whole(rejects)
  BY <1>1, <1>4, <1>6, QuietRejects
<1>9. SameData
  BY <1>1, <1>4, <1>7, <1>8, SameLinesSameData
<1>10. /\ x \in Nat /\ cursor'.position = x + 1 /\ cursor'.failures = 0
       /\ cursor.position \in Nat /\ cursor.position <= x /\ Position \subseteq Nat
  BY <1>1, <1>4, Positions DEF FirstWalked, WalkTypes
<1>11. ~Done' /\ PlacesKept' = PlacesKept
  BY <1>6, <1>9 DEF Done, SameData
<1>12. ~Again'
  <2> SUFFICES ASSUME NEW p \in PlacesKept, x + 1 <= p PROVE FALSE
    BY <1>10, <1>11 DEF Again
  <2>1. p \in Nat /\ cursor.position <= p /\ x \in cursor.position..(p - 1)
    BY <1>10 DEF PlacesKept
  <2>2. FirstWalked(p)
    BY <1>1, <2>1 DEF RepeatInv
  <2> QED
    BY <1>4, <2>1, <2>2 DEF FirstWalked
<1>13. RepeatInv'
  BY <1>1, <1>4, <1>9, <1>10, <1>12, CursorMovesOn
<1>14. Landed(x)
  BY <1>1, <1>3, <1>4 DEF AtStep, Done
<1>15. \A p \in Position : p < x + 1 /\ Walked(plan, p) => Landed(p)'
  <2> SUFFICES ASSUME NEW p \in Position, p < x + 1, Walked(plan, p) PROVE Landed(p)'
    OBVIOUS
  <2>1. p < x \/ p = x
    BY <1>10
  <2>2. Landed(p)
    BY <1>1, <1>4, <1>14, <2>1, BehindTheId
  <2> QED
    BY <1>4, <1>9, <2>2, SameDataSameLanded
<1>16. Behind'
  <2>1. \A p \in Position : failed[p] \in Nat
    BY <1>1, CountersAreNumbers
  <2>2. cursor.failures \in Nat /\ session.failures \in Nat
    BY <1>1, CountersAreNumbers
  <2>3. \A p \in Position : RejectsFor(p, {"giveUp"})' = RejectsFor(p, {"giveUp"})
    BY <1>9 DEF SameData
  <2>4. \A p \in Position :
          /\ p < cursor'.position /\ Walked(plan, p) => Landed(p)'
          /\ p = cursor'.position => cursor'.failures <= failed'[p]
          /\ failed[p] \in Nat /\ failed'[p] \in Nat /\ failed[p] <= failed'[p]
          /\ RejectsFor(p, {"giveUp"})' # {} => RejectsFor(p, {"giveUp"}) # {}
    BY <1>4, <1>10, <1>15, <2>1, <2>3
  <2>5. session'.at # "down" =>
          session.at # "down" /\ session'.start = session.start
            /\ session'.failures = session.failures
    BY <1>4, <1>5, NoSessionIsTyped
  <2> QED
    BY <1>1, <1>4, <2>2, <2>4, <2>5, BehindKept
<1>17. AtStep'
  BY <1>6, <1>11 DEF AtStep
<1> QED
  BY <1>2, <1>7, <1>8, <1>13, <1>16, <1>17 DEF CrawlInv, DataInv

\* A session ends: the cursor stays, or moves over ids that are not walked.
LEMMA EndKeepsData ==
    ASSUME CrawlInv, RejectsInv', SameData, session' = NoSession,
           UNCHANGED <<plan, answer, failed>>,
           cursor'.position \in 0..Length, cursor.position <= cursor'.position,
           cursor'.failures \in Nat,
           \A p \in Position : p = cursor'.position => cursor'.failures <= failed[p],
           \A p \in Position : p < cursor'.position /\ Walked(plan, p) => Landed(p)
    PROVE  DataInv'
<1>1. WalkInv /\ WalkTypes /\ Behind
  BY DEF CrawlInv, WalkInv, DataInv
<1>2. session'.at = "down" /\ session'.landed = FALSE
  BY NoSessionIsTyped
<1>3. \A p \in Position : failed[p] \in Nat
  BY <1>1, CountersAreNumbers
<1>4. cursor.failures \in Nat /\ session.failures \in Nat
  BY <1>1, CountersAreNumbers
<1>5. \A p \in Position : RejectsFor(p, {"giveUp"})' = RejectsFor(p, {"giveUp"})
  BY DEF SameData
<1>6. \A p : Landed(p)' <=> Landed(p)
  BY SameDataSameLanded
<1>7. \A p \in Position :
        /\ p < cursor'.position /\ Walked(plan, p) => Landed(p)'
        /\ p = cursor'.position => cursor'.failures <= failed'[p]
        /\ failed[p] \in Nat /\ failed'[p] \in Nat /\ failed[p] <= failed'[p]
        /\ RejectsFor(p, {"giveUp"})' # {} => RejectsFor(p, {"giveUp"}) # {}
  BY <1>3, <1>5, <1>6
<1>8. Behind'
  BY <1>1, <1>2, <1>4, <1>7, BehindKept
<1>9. AtStep'
  BY <1>2 DEF AtStep, Done
<1> QED
  BY <1>8, <1>9 DEF DataInv

LEMMA EndKeepsIt ==
    ASSUME CrawlInv, RecordFailure \/ Finish
    PROVE  CrawlInv'
<1>1. WalkInv /\ WalkTypes /\ FilesInv /\ RejectsInv /\ DataInv /\ Behind /\ AtStep /\ RepeatInv
  BY DEF CrawlInv, WalkInv, DataInv
<1>2. WalkInv' /\ session' = NoSession
  BY <1>1, EndKeepsWalk
<1>3. /\ UNCHANGED <<plan, plain, gz, rejects, answer, failed, crashes>>
      /\ session.at \in {"failure", "next"}
  BY DEF RecordFailure, Finish, history
<1>4. session'.at = "down" /\ session'.shards = [d \in Directories |-> Closed]
      /\ session'.checked = FALSE /\ session'.landed = FALSE
  BY <1>2, NoSessionIsTyped
<1>5. FilesInv' /\ \A d, n : LinesOf(d, n)' = LinesOf(d, n)
  BY <1>1, <1>3, <1>4, QuietFiles
<1>6. RejectsInv' /\ Whole(rejects') = Whole(rejects)
  BY <1>1, <1>3, <1>4, QuietRejects
<1>7. SameData
  BY <1>1, <1>3, <1>5, <1>6, SameLinesSameData
<1>8. ~Done /\ ~Done' /\ PlacesKept' = PlacesKept
  BY <1>1, <1>3, <1>4, <1>7 DEF Done, WalkInv, SameData
<1>9. /\ cursor.position \in Nat /\ Position \subseteq Nat /\ Position = 0..(Length - 1)
      /\ Length \in Nat /\ cursor.position \in 0..Length
  BY <1>1, Positions DEF WalkTypes
<1>10. /\ cursor'.position \in 0..Length /\ cursor.position <= cursor'.position
       /\ cursor'.failures \in Nat
       /\ \A p \in Position : p = cursor'.position => cursor'.failures <= failed[p]
       /\ \A p \in Position : p < cursor'.position /\ Walked(plan, p) => Landed(p)
  <2>1. CASE RecordFailure
    <3>1. PICK x, f : x = session.position /\ f = FailuresAt(x)
      OBVIOUS
    <3>2. /\ session.at = "failure" /\ cursor' = [position |-> x, failures |-> f + 1]
      BY <2>1, <3>1 DEF RecordFailure
    <3>3. FirstWalked(x) /\ x \in Position /\ cursor.position <= x
      BY <1>1, <3>1, <3>2 DEF WalkInv, AtAnId, FirstWalked
    <3>4. f \in Nat /\ failed[x] \in Nat /\ f < failed[x]
      BY <1>1, <3>1, <3>2, <3>3, CountersAreNumbers DEF AtStep, FailuresAt
    <3>5. \A p \in Position : p < x /\ Walked(plan, p) => Landed(p)
      BY <1>1, <3>3, BehindTheId
    <3>6. f + 1 <= failed[x] /\ f + 1 \in Nat
      BY <3>4
    <3> QED
      BY <1>9, <3>2, <3>3, <3>5, <3>6
  <2>2. CASE Finish /\ cursor' = cursor
    <3>1. cursor.failures \in Nat
      BY <1>1, CountersAreNumbers
    <3> QED
      BY <1>1, <1>9, <2>2, <3>1 DEF Behind
  <2>3. CASE Finish /\ cursor' # cursor
    <3>1. /\ session.at = "next" /\ IdsFrom(plan, session.position) = {}
          /\ cursor' = [position |-> Length, failures |-> 0]
      BY <2>3 DEF Finish
    <3>2. session.position = cursor.position
      BY <1>1, <3>1 DEF WalkInv
    <3>3. ASSUME NEW p \in Position, Walked(plan, p) PROVE Landed(p)
      <4>1. p < cursor.position
        <5> SUFFICES ASSUME ~(p < cursor.position) PROVE FALSE
          OBVIOUS
        <5>1. p \in cursor.position..(PlanLength(plan) - 1)
          BY <1>9 DEF Length
        <5> QED
          BY <3>1, <3>2, <3>3, <5>1 DEF IdsFrom
      <4> QED
        BY <1>1, <3>3, <4>1 DEF Behind
    <3> QED
      BY <1>9, <3>1, <3>3
  <2> QED
    BY <2>1, <2>2, <2>3
<1>11. DataInv'
  BY <1>2, <1>3, <1>6, <1>7, <1>10, EndKeepsData
<1>12. Again' => Again
  <2> SUFFICES ASSUME NEW p \in PlacesKept, cursor'.position <= p
               PROVE  cursor.position <= p
    BY <1>8 DEF Again
  <2>1. p \in Nat /\ cursor'.position \in Nat
    BY <1>9, <1>10 DEF PlacesKept
  <2> QED
    BY <1>9, <1>10, <2>1
<1>13. RepeatInv'
  BY <1>1, <1>3, <1>7, <1>10, <1>12, CursorMovesOn
<1> QED
  BY <1>2, <1>5, <1>6, <1>11, <1>13 DEF CrawlInv

LEMMA CrashKeepsIt ==
    ASSUME CrawlInv, Crash
    PROVE  CrawlInv'
<1>1. WalkInv /\ WalkTypes /\ FilesInv /\ RejectsInv /\ DataInv /\ Behind /\ RepeatInv
  BY DEF CrawlInv, WalkInv, DataInv
<1>2. WalkInv' /\ session' = NoSession
  BY <1>1, EndKeepsWalk
<1>3. UNCHANGED <<plan, cursor, answer, failed>> /\ crashes' = crashes + 1
  BY DEF Crash
<1>4. FilesInv' /\ \A d \in Directories : \A n : LinesOf(d, n)' = LinesOf(d, n)
  BY <1>1, CrashKeepsFiles
<1>5. RejectsInv' /\ Whole(rejects') = Whole(rejects)
  BY <1>1, CrashKeepsRejects
<1>6. SameData
  BY <1>1, <1>3, <1>4, <1>5, SameLinesSameData
<1>7. RepeatInv'
  BY <1>1, <1>3, <1>6, SameRecords
<1>8. DataInv'
  <2>1. cursor.position \in 0..Length /\ cursor.failures \in Nat /\ cursor.position <= cursor.position
    BY <1>1, CountersAreNumbers, Positions DEF WalkTypes
  <2> QED
    BY <1>1, <1>2, <1>3, <1>5, <1>6, <2>1, EndKeepsData DEF Behind
<1> QED
  BY <1>2, <1>4, <1>5, <1>7, <1>8 DEF CrawlInv

-----------------------------------------------------------------------------
(* The theorem                                                             *)

LEMMA CrawlInvHolds == Spec => []CrawlInv
<1>1. Init => CrawlInv
  BY WalkInvInit, FilesInvInit, RejectsInvInit, DataInvInit DEF CrawlInv
<1>2. CrawlInv /\ [Next]_vars => CrawlInv'
  <2> SUFFICES ASSUME CrawlInv, [Next]_vars PROVE CrawlInv'
    OBVIOUS
  <2>1. CASE StartSession
    BY <2>1, StartKeepsIt
  <2>2. CASE Fetch
    BY <2>2, FetchKeepsIt
  <2>3. CASE FinishCompression \/ OpenShards \/ Compress \/ Unlink
    BY <2>3, ShelfStepKeepsIt
  <2>4. CASE AppendRow
    BY <2>4, AppendRowKeepsIt
  <2>5. CASE AppendReject
    BY <2>5, AppendRejectKeepsIt
  <2>6. CASE MoveCursor
    BY <2>6, MoveKeepsIt
  <2>7. CASE RecordFailure \/ Finish
    BY <2>7, EndKeepsIt
  <2>8. CASE Crash
    BY <2>8, CrashKeepsIt
  <2>9. CASE UNCHANGED vars
    <3>1. UNCHANGED <<plan, cursor, plain, gz, rejects, session, answer, failed, crashes>>
      BY <2>9 DEF vars
    <3>2. Position' = Position /\ Length' = Length /\ Reject' = Reject /\ Lines' = Lines
      BY <3>1 DEF Position, Length, Reject, Lines
    <3>3. WalkInv /\ FilesInv /\ RejectsInv /\ DataInv /\ RepeatInv
      BY DEF CrawlInv
    <3>4. WalkInv'
      BY <3>1, <3>2, <3>3 DEF WalkInv, WalkTypes, AtAnId, FirstWalked, Blocked
    <3>5. FilesInv'
      <4>1. \A d : plain'[d] = plain[d] /\ gz'[d] = gz[d]
        BY <3>1
      <4>2. \A d : (Shelf(d)' <=> Shelf(d)) /\ NextShard(d)' = NextShard(d)
        BY <3>1, <4>1, SameShelf
      <4>3. \A d : OpenShard(d)' <=> OpenShard(d)
        BY <3>1, <3>2, <4>2 DEF OpenShard
      <4>4. Compression' <=> Compression
        BY <3>1, <3>2 DEF Compression, IsRows
      <4> QED
        BY <3>1, <3>3, <4>2, <4>3, <4>4 DEF FilesInv
    <3>6. RejectsInv' /\ Whole(rejects') = Whole(rejects)
      BY <3>1, <3>3, QuietRejects
    <3>7. \A d, n : LinesOf(d, n)' = LinesOf(d, n)
      BY <3>1 DEF LinesOf
    <3>8. SameData
      BY <3>1, <3>3, <3>6, <3>7, SameLinesSameData
    <3>9. DataInv'
      <4>1. \A p : Landed(p)' <=> Landed(p)
        BY <3>1, <3>8, SameDataSameLanded
      <4>2. \A p : RejectsFor(p, {"giveUp"})' = RejectsFor(p, {"giveUp"})
        BY <3>8 DEF SameData
      <4>3. Behind'
        BY <3>1, <3>2, <3>3, <4>1, <4>2 DEF DataInv, Behind
      <4>4. PICK x : x = session.position
        OBVIOUS
      <4>5. Done' => session'.position = x /\ Landed(x)'
        BY <3>1, <3>3, <4>1, <4>4 DEF DataInv, AtStep, Done
      <4>6. \A p : FailuresAt(p)' = FailuresAt(p)
        BY <3>1 DEF FailuresAt
      <4>7. AtStep'
        BY <3>1, <3>3, <4>5, <4>6 DEF DataInv, AtStep
      <4> QED
        BY <4>3, <4>7 DEF DataInv
    <3>10. RepeatInv'
      <4>1. Done' <=> Done
        BY <3>1 DEF Done
      <4> QED
        BY <3>1, <3>3, <3>8, <4>1, SameRecords
    <3> QED
      BY <3>4, <3>5, <3>6, <3>9, <3>10 DEF CrawlInv
  <2> QED
    BY <2>1, <2>2, <2>3, <2>4, <2>5, <2>6, <2>7, <2>8, <2>9 DEF Next, Step
<1> QED
  BY <1>1, <1>2, PTL DEF Spec

\* The cursor never runs ahead of the data (CursorBehindData): whatever session
\* dies between two file operations or in an append, every id behind the cursor
\* has in the files what the site answered last for it, an id is given up only
\* after max_session_failures failed sessions on it, and a crash repeats at
\* most one id (walk.py, crawl_files.py).
THEOREM CursorStaysBehindTheData == Spec => []CursorBehindData
<1>1. CrawlInv => CursorBehindData
  <2> SUFFICES ASSUME CrawlInv PROVE CursorBehindData
    OBVIOUS
  <2>1. WalkInv /\ WalkTypes /\ FilesInv /\ RejectsInv /\ Behind /\ RepeatInv
    BY DEF CrawlInv, WalkInv, DataInv
  <2>2. Position = 0..(Length - 1) /\ IsFiniteSet(Position)
    BY <2>1, Positions DEF WalkTypes
  <2>3. ASSUME NEW d \in Directories
        PROVE  /\ \A n \in DOMAIN plain[d] : n \in Nat /\ plain[d][n] \in Lines
               /\ \A n \in DOMAIN gz[d] : n \in Nat /\ gz[d][n] \in Seq(Position)
    <3>1. Shelf(d)
      BY <2>1 DEF FilesInv
    <3>2. \A n \in ShardNumbers(d) : n \in Nat
      BY <3>1 DEF Shelf
    <3> QED
      BY <3>1, <3>2 DEF Shelf, ShardNumbers, IsRows
  <2>4. TypeOK
    BY <2>1, <2>3 DEF TypeOK, WalkTypes, RejectsInv, Reject
  <2>5. OneRepeatPerCrash
    <3>1. IsFiniteSet(PlacesKept) /\ IsFiniteSet(AllRecords)
      BY <2>1, <2>2, FS_Subset DEF PlacesKept, RepeatInv
    <3>2. Cardinality(PlacesKept) \in Nat /\ Cardinality(AllRecords) \in Nat /\ crashes \in Nat
      BY <2>1, <3>1, FS_CardinalityType, CountersAreNumbers
    <3>3. Cardinality(AllRecords) + (IF Again THEN 1 ELSE 0) <= crashes + Cardinality(PlacesKept)
      BY <2>1 DEF RepeatInv
    <3>4. Cardinality(AllRecords) <= crashes + Cardinality(PlacesKept)
      BY <3>2, <3>3
    <3> QED
      BY <3>4 DEF OneRepeatPerCrash, AllRecords, PlacesKept
  <2> QED
    BY <2>1, <2>4, <2>5 DEF CursorBehindData, Behind
<1> QED
  BY <1>1, CrawlInvHolds, PTL

-----------------------------------------------------------------------------
(* Items one by one                                                        *)

SomeSession ==
    [at : {"down", "list", "choose", "request", "stream", "body", "note"},
     left : SUBSET Items, item : Items \cup {Nothing}, attempt : 0..MaxAttempts]

\* What holds at a session's places, by how its site stores and records.
PlaceInv ==
    /\ fetching.at \in {"down", "list"} => fetching.left = {}
    /\ fetching.at \in {"request", "stream", "body", "note"} => fetching.item \in fetching.left
    /\ fetching.at = "stream" => site.storing \in {"stream", "staged"}
    /\ fetching.at = "body" => site.storing \in {"line", "text"}
    /\ fetching.at = "note" => site.record = "manifest"
    /\ site.ids = "text" \/ ~noteCut.cut => noteCut.as = Nothing

\* One data file of lines, or a file for each item.
StoringInv ==
    /\ site.storing = "line" => \A i \in Items : file[i] = "none"
    /\ site.storing # "line" => \A i \in Items : rows[i] = 0
    /\ site.storing = "staged" => \A i \in Items : file[i] # "part"

\* Where the manifest speaks of files of their own, it speaks of whole ones,
\* and no session touches them again.
NotedFilesInv ==
    site.record = "manifest" /\ site.storing = "stream" =>
        /\ \A i \in noted : file[i] = "whole" /\ i \notin fetching.left
        /\ fetching.at = "note" => file[fetching.item] = "whole"

Flag(b) == IF b THEN 1 ELSE 0

\* The manifest names them, and the data file has nothing of them.
NotedBare == {i \in noted : rows[i] = 0}

\* A cut line of the data file swallows a row, whose manifest line is then
\* written; a cut line of the manifest names an item of its own.
LossInv ==
    site.storing = "line" =>
        Cardinality(NotedBare) + Flag(dataCut) + Flag(noteCut.cut)
            + Flag(fetching.at = "note" /\ rows[fetching.item] = 0) <= cuts

\* Files that stand as a part, with no session at them.
PartFiles ==
    {i \in Items : file[i] = "part" /\ ~(fetching.at = "stream" /\ fetching.item = i)}

PartFilesInv == Cardinality(PartFiles) - cuts <= deaths

\* Items with a row that this session or a later one will fetch once more.
OpenRows ==
    {i \in Items : /\ rows[i] > 0
                   /\ i \notin noted \/ i \in fetching.left
                   /\ ~(fetching.at = "note" /\ fetching.item = i)}

RowsInv ==
    /\ IsFiniteSet(RepeatedRows)
    /\ Cardinality(RepeatedRows) + Cardinality(OpenRows) + Flag(noteCut.cut)
         <= deaths + 2 * cuts

ItemsInv ==
    DownloadsTypeOK /\ PlaceInv /\ StoringInv /\ NotedFilesInv /\ LossInv
        /\ PartFilesInv /\ RowsInv

-----------------------------------------------------------------------------

\* What the twelve downloaders have in common.
LEMMA SiteKinds ==
    ASSUME site \in Sites
    PROVE  /\ site \in SitePolicy
           /\ site.storing \in {"line", "stream", "staged", "text"}
           /\ site.record \in {"manifest", "exists", "digest"}
           /\ site.ids \in {"text", "numbers"}
           /\ site.storing = "line" => site.record = "manifest"
           /\ site.record = "manifest" => site.storing \in {"line", "stream"}
           /\ site.record = "manifest" /\ site.storing = "stream" => site.ids = "text"
           /\ site.record = "digest" => site.storing = "stream"
<1> USE DEF SitePolicy, Failures, AppendingSite, STSGG, Pitchstack, PlayGwent, LimitlessPlay,
            HearthstoneTopDecks, Isotropic, HearthstoneJson, SeventeenLands, FabtcgDecklists,
            FabtcgmetaOnlineDecks, ZenodoHearthstoneDecks, TcgjsonCatalogs
<1>1. site \in {AppendingSite, PlayGwent, HearthstoneTopDecks, Isotropic,
                HearthstoneJson, SeventeenLands, FabtcgDecklists, FabtcgmetaOnlineDecks,
                ZenodoHearthstoneDecks}
  BY DEF Sites
<1>2. CASE site = AppendingSite
  BY <1>2
<1>3. CASE site = PlayGwent
  BY <1>3
<1>4. CASE site = HearthstoneTopDecks
  BY <1>4
<1>5. CASE site = Isotropic
  BY <1>5
<1>6. CASE site = HearthstoneJson
  BY <1>6
<1>7. CASE site = SeventeenLands
  BY <1>7
<1>8. CASE site = FabtcgDecklists
  BY <1>8
<1>9. CASE site = FabtcgmetaOnlineDecks
  BY <1>9
<1>10. CASE site = ZenodoHearthstoneDecks
  BY <1>10
<1> QED
  BY <1>1, <1>2, <1>3, <1>4, <1>5, <1>6, <1>7, <1>8, <1>9, <1>10

LEMMA NotFetchingIsTyped == NotFetching \in SomeSession /\ NotFetching.at = "down"
BY DownloadsAssumption DEF NotFetching, SomeSession

LEMMA ItemsStart == DownloadsInit => ItemsInv
<1> SUFFICES ASSUME DownloadsInit PROVE ItemsInv
  OBVIOUS
<1>1. /\ fetching = NotFetching /\ fetching.at = "down" /\ fetching.left = {}
      /\ noted = {} /\ noteCut = Uncut /\ ~noteCut.cut /\ noteCut.as = Nothing
      /\ dataCut = FALSE /\ cuts = 0 /\ deaths = 0
      /\ \A i \in Items : rows[i] = 0 /\ file[i] = "none"
  BY DEF DownloadsInit, NotFetching, Uncut
<1>2. DownloadsTypeOK
  <2>1. site \in Sites /\ site \in SitePolicy
    BY SiteKinds DEF DownloadsInit
  <2>2. fetching \in SomeSession
    BY <1>1, NotFetchingIsTyped
  <2>3. noteCut \in [cut : BOOLEAN, as : Items \cup {Nothing}]
    BY <1>1 DEF Uncut
  <2>4. /\ file \in [Items -> {"none", "part", "whole"}] /\ rows \in [Items -> Nat]
        /\ siteAnswer \in SiteAnswers /\ outages = 0
    BY DEF DownloadsInit
  <2> QED
    BY <1>1, <2>1, <2>2, <2>3, <2>4 DEF DownloadsTypeOK, SomeSession
<1>3. PlaceInv
  BY <1>1 DEF PlaceInv
<1>4. StoringInv
  BY <1>1 DEF StoringInv
<1>5. NotedFilesInv
  BY <1>1 DEF NotedFilesInv
<1>6. LossInv
  <2>1. NotedBare = {}
    BY <1>1 DEF NotedBare
  <2> QED
    BY <1>1, <2>1, FS_EmptySet DEF LossInv, Flag
<1>7. PartFilesInv
  <2>1. PartFiles = {}
    BY <1>1 DEF PartFiles
  <2> QED
    BY <1>1, <2>1, FS_EmptySet DEF PartFilesInv
<1>8. RowsInv
  <2>1. RepeatedRows = {}
    BY <1>1 DEF RepeatedRows
  <2>2. OpenRows = {}
    BY <1>1 DEF OpenRows
  <2> QED
    BY <1>1, <2>1, <2>2, FS_EmptySet DEF RowsInv, Flag
<1> QED
  BY <1>2, <1>3, <1>4, <1>5, <1>6, <1>7, <1>8 DEF ItemsInv

-----------------------------------------------------------------------------

\* Where a session goes from where it is.
LEMMA Ends == EndSession => fetching' \in SomeSession /\ fetching'.at = "down" /\ fetching'.left = {}
BY NotFetchingIsTyped DEF EndSession, NotFetching

LEMMA GoesOn ==
    ASSUME fetching \in SomeSession, NextItem
    PROVE  /\ fetching' \in SomeSession /\ fetching'.at = "choose"
           /\ fetching'.left = fetching.left \ {fetching.item}
<1> DEFINE rest == fetching.left \ {fetching.item}
<1>1. rest \in SUBSET Items /\ 0 \in 0..MaxAttempts
  BY DownloadsAssumption DEF SomeSession
<1>2. fetching' = [fetching EXCEPT !.at = "choose", !.left = rest,
                                   !.item = Nothing, !.attempt = 0]
  BY DEF NextItem
<1> HIDE DEF rest
<1>3. fetching' \in SomeSession /\ fetching'.at = "choose" /\ fetching'.left = rest
  BY <1>1, <1>2 DEF SomeSession
<1> QED
  BY <1>3 DEF rest

LEMMA Fails ==
    ASSUME fetching \in SomeSession, NEW failure, ItemFails(failure)
    PROVE  /\ fetching' \in SomeSession /\ fetching'.at \in {"choose", "down"}
           /\ fetching'.left \subseteq fetching.left \ {fetching.item}
           /\ fetching'.at = "down" => fetching'.left = {}
BY Ends, GoesOn DEF ItemFails

LEMMA Goes ==
    ASSUME fetching \in SomeSession, NEW at \in {"stream", "body", "note"}, Goto(at)
    PROVE  /\ fetching' \in SomeSession /\ fetching'.at = at
           /\ fetching'.left = fetching.left /\ fetching'.item = fetching.item
BY DEF Goto, SomeSession

\* After an item's data, its note or the next item.
LEMMA AfterDataGoes ==
    ASSUME fetching \in SomeSession, AfterData
    PROVE  /\ fetching' \in SomeSession
           /\ \/ /\ site.record = "manifest" /\ fetching'.at = "note"
                 /\ fetching'.left = fetching.left /\ fetching'.item = fetching.item
              \/ /\ site.record # "manifest" /\ fetching'.at = "choose"
                 /\ fetching'.left = fetching.left \ {fetching.item}
BY Goes, GoesOn DEF AfterData

\* Every move: the session ends, lists, takes an item, is at it, or leaves it.
Moves ==
    \/ fetching' = fetching
    \/ fetching'.at = "down" /\ fetching'.left = {}
    \/ fetching.at = "down" /\ fetching'.at = "list" /\ fetching'.left = {}
    \/ fetching.at = "list" /\ fetching'.at = "choose" /\ fetching'.left = LeftToDo
    \/ /\ fetching.at = "choose" /\ fetching'.at = "request"
       /\ fetching'.left = fetching.left /\ fetching'.item \in fetching.left
    \/ /\ fetching.at \in {"request", "stream", "body"}
       /\ fetching'.at \in {"request", "stream", "body", "note"}
       /\ fetching'.left = fetching.left /\ fetching'.item = fetching.item
    \/ /\ fetching.at \in {"request", "stream", "body", "note"}
       /\ fetching'.at = "choose" /\ fetching'.left \subseteq fetching.left

\* What each place is entered from.
Entered ==
    /\ fetching'.at = "stream" /\ fetching' # fetching => Answered /\ site.storing # "line"
                                                        /\ site.storing # "text"
    /\ fetching'.at = "body" /\ fetching' # fetching => Answered /\ site.storing # "stream"
                                                      /\ site.storing # "staged"
    /\ fetching'.at = "note" /\ fetching' # fetching =>
         (StreamEnds \/ WriteBody) /\ site.record = "manifest"

LEMMA SessionMoves ==
    ASSUME DownloadsTypeOK, [DownloadsNext]_itemVars
    PROVE  fetching' \in SomeSession /\ Moves /\ Entered
<1>1. /\ fetching \in SomeSession /\ site \in Sites
      /\ site.storing \in {"line", "stream", "staged", "text"}
  BY SiteKinds DEF DownloadsTypeOK, SomeSession
<1> DEFINE Goal == fetching' \in SomeSession /\ Moves /\ Entered
<1> SUFFICES Goal
  OBVIOUS
<1>2. ASSUME EndSession PROVE Goal
  BY <1>2, Ends DEF Moves, Entered
<1>3. ASSUME NEW failure, ItemFails(failure),
             fetching.at \in {"request", "stream", "body"} PROVE Goal
  BY <1>1, <1>3, Fails DEF Moves, Entered
<1>4. CASE StartDownloads
  <2>1. fetching' \in SomeSession /\ fetching.at = "down" /\ fetching'.at = "list"
        /\ fetching'.left = {}
    BY <1>4, NotFetchingIsTyped DEF StartDownloads, NotFetching, SomeSession
  <2> QED
    BY <2>1 DEF Moves, Entered
<1>5. CASE ListItems
  <2>1. LeftToDo \subseteq Items
    BY DEF LeftToDo
  <2>2. fetching' \in SomeSession /\ fetching.at = "list" /\ fetching'.at = "choose"
        /\ fetching'.left = LeftToDo
    BY <1>1, <1>5, <2>1 DEF ListItems, SomeSession
  <2> QED
    BY <2>2 DEF Moves, Entered
<1>6. CASE TakeItem
  <2>1. PICK i \in fetching.left :
          fetching' = [fetching EXCEPT !.at = "request", !.item = i, !.attempt = 1]
    BY <1>6 DEF TakeItem
  <2>2. i \in Items /\ 1 \in 0..MaxAttempts
    BY <1>1, <2>1, DownloadsAssumption DEF SomeSession
  <2>3. fetching' \in SomeSession /\ fetching.at = "choose" /\ fetching'.at = "request"
        /\ fetching'.left = fetching.left /\ fetching'.item = i
    BY <1>1, <1>6, <2>1, <2>2 DEF TakeItem, SomeSession
  <2> QED
    BY <2>3 DEF Moves, Entered
<1>7. CASE FinishSession
  BY <1>2, <1>7 DEF FinishSession
<1>8. CASE NotFound
  BY <1>3, <1>8 DEF NotFound
<1>9. CASE Answered
  <2>1. PICK at \in {"stream", "body"} :
          /\ Goto(at)
          /\ at = "stream" => site.storing \in {"stream", "staged"}
          /\ at = "body" => site.storing \notin {"stream", "staged"}
    BY <1>9 DEF Answered
  <2>2. /\ fetching' \in SomeSession /\ fetching'.at = at
        /\ fetching'.left = fetching.left /\ fetching'.item = fetching.item
    BY <1>1, <2>1, Goes
  <2>3. fetching.at = "request"
    BY <1>9 DEF Answered
  <2> QED
    BY <1>1, <1>9, <2>1, <2>2, <2>3 DEF Moves, Entered
<1>10. ASSUME AfterData, fetching.at \in {"stream", "body"}, StreamEnds \/ WriteBody
       PROVE  Goal
  BY <1>1, <1>10, AfterDataGoes DEF Moves, Entered
<1>11. CASE StreamEnds
  BY <1>3, <1>10, <1>11 DEF StreamEnds
<1>12. CASE RefuseBody
  BY <1>3, <1>12 DEF RefuseBody
<1>13. CASE WriteBody
  BY <1>10, <1>13 DEF WriteBody
<1>14. CASE Note
  <2>1. NextItem /\ fetching.at = "note"
    BY <1>14 DEF Note
  <2>2. fetching' \in SomeSession /\ fetching'.at = "choose"
        /\ fetching'.left = fetching.left \ {fetching.item}
    BY <1>1, <2>1, GoesOn
  <2> QED
    BY <2>1, <2>2 DEF Moves, Entered
<1>15. CASE ListingFails
  BY <1>2, <1>15 DEF ListingFails
<1>16. CASE AttemptFails
  <2>1. CASE fetching.attempt < MaxAttempts
    <3> DEFINE again == fetching.attempt + 1
    <3>1. again \in 0..MaxAttempts
      BY <1>1, <2>1, DownloadsAssumption DEF SomeSession
    <3>2. fetching' = [fetching EXCEPT !.at = "request", !.attempt = again]
      BY <1>16, <2>1 DEF AttemptFails
    <3> HIDE DEF again
    <3>3. fetching' \in SomeSession /\ fetching'.at = "request"
          /\ fetching'.left = fetching.left /\ fetching'.item = fetching.item
      BY <1>1, <3>1, <3>2 DEF SomeSession
    <3>4. fetching.at \in {"request", "stream"}
      BY <1>16 DEF AttemptFails
    <3> QED
      BY <3>3, <3>4 DEF Moves, Entered
  <2>2. CASE ~(fetching.attempt < MaxAttempts)
    BY <1>3, <1>16, <2>2 DEF AttemptFails
  <2> QED
    BY <2>1, <2>2
<1>17. CASE StreamFindsNoRoom
  BY <1>3, <1>17 DEF StreamFindsNoRoom
<1>18. CASE BodyIsCut
  BY <1>2, <1>18 DEF BodyIsCut
<1>19. CASE NoteIsCut
  BY <1>2, <1>19 DEF NoteIsCut
<1>20. CASE Die
  BY <1>2, <1>20 DEF Die
<1>21. CASE UNCHANGED itemVars
  BY <1>1, <1>21 DEF itemVars, Moves, Entered
<1> QED
  BY <1>4, <1>5, <1>6, <1>7, <1>8, <1>9, <1>11, <1>12, <1>13, <1>14, <1>15, <1>16,
     <1>17, <1>18, <1>19, <1>20, <1>21 DEF DownloadsNext, DownloadsStep, DownloadsFault

\* What each step leaves alone.
LEMMA LeftAlone ==
    ASSUME DownloadsTypeOK, [DownloadsNext]_itemVars
    PROVE  /\ site' = site /\ siteAnswer' = siteAnswer
           /\ WriteBody \/ rows' = rows
           /\ WriteBody \/ BodyIsCut \/ dataCut' = dataCut
           /\ Note \/ noted' = noted
           /\ Note \/ NoteIsCut \/ noteCut' = noteCut
           /\ outages' \in Nat
           /\ cuts \in Nat /\ cuts' \in Nat /\ cuts' >= cuts
           /\ deaths \in Nat /\ deaths' \in Nat /\ deaths' >= deaths
<1>1. outages \in Nat /\ deaths \in Nat /\ cuts \in Nat
  BY DEF DownloadsTypeOK
<1> DEFINE Goal ==
           /\ site' = site /\ siteAnswer' = siteAnswer
           /\ WriteBody \/ rows' = rows
           /\ WriteBody \/ BodyIsCut \/ dataCut' = dataCut
           /\ Note \/ noted' = noted
           /\ Note \/ NoteIsCut \/ noteCut' = noteCut
           /\ outages' \in Nat /\ cuts' \in Nat /\ cuts' >= cuts
           /\ deaths' \in Nat /\ deaths' >= deaths
<1> SUFFICES Goal
  BY <1>1
<1>2. ASSUME UNCHANGED <<site, siteAnswer, rows, dataCut, manifest>>,
             /\ outages' = outages \/ outages' = outages + 1
             /\ cuts' = cuts \/ cuts' = cuts + 1
             /\ deaths' = deaths \/ deaths' = deaths + 1
      PROVE  Goal
  BY <1>1, <1>2 DEF manifest
<1>3. CASE \/ StartDownloads \/ ListItems \/ TakeItem \/ FinishSession \/ RefuseBody
           \/ ListingFails \/ Die
  BY <1>2, <1>3 DEF StartDownloads, ListItems, TakeItem, FinishSession, RefuseBody,
     ListingFails, Die, data, faults
<1>4. CASE NotFound \/ Answered \/ StreamEnds \/ AttemptFails \/ StreamFindsNoRoom
  BY <1>2, <1>4 DEF NotFound, Answered, StreamEnds, AttemptFails, StreamFindsNoRoom, faults
<1>5. CASE WriteBody
  BY <1>1, <1>5 DEF WriteBody, faults, manifest
<1>6. CASE BodyIsCut
  BY <1>1, <1>6 DEF BodyIsCut, manifest
<1>7. CASE Note
  BY <1>1, <1>7 DEF Note, data, faults
<1>8. CASE NoteIsCut
  <2>1. UNCHANGED <<site, siteAnswer, rows, dataCut, noted, outages, deaths>> /\ cuts' = cuts + 1
    BY <1>8 DEF NoteIsCut, data
  <2> QED
    BY <1>1, <1>8, <2>1
<1>9. CASE UNCHANGED itemVars
  BY <1>1, <1>9 DEF itemVars
<1> QED
  BY <1>3, <1>4, <1>5, <1>6, <1>7, <1>8, <1>9
     DEF DownloadsNext, DownloadsStep, DownloadsFault

\* Only the file of the item in hand changes, and only where there are files.
LEMMA FileChanges ==
    ASSUME DownloadsTypeOK, PlaceInv, [DownloadsNext]_itemVars
    PROVE  \/ file' = file
           \/ /\ site.storing # "line" /\ fetching.at \in {"request", "stream", "body"}
              /\ fetching.item \in Items
              /\ \E f \in {"none", "part", "whole"} :
                   /\ file' = [file EXCEPT ![fetching.item] = f]
                   /\ f = "part" => site.storing \in {"stream", "text"}
<1>1. /\ site.storing \in {"line", "stream", "staged", "text"}
      /\ fetching.at \in {"request", "stream", "body"} => fetching.item \in Items
      /\ fetching.at = "stream" => site.storing # "line"
      /\ fetching.at = "body" => site.storing \in {"line", "text"}
  BY SiteKinds DEF DownloadsTypeOK, PlaceInv
<1>2. CASE NotFound \/ AttemptFails \/ StreamFindsNoRoom
  BY <1>1, <1>2 DEF NotFound, AttemptFails, StreamFindsNoRoom, Dropped
<1>3. CASE Answered
  BY <1>1, <1>3 DEF Answered
<1>4. CASE StreamEnds
  BY <1>1, <1>4 DEF StreamEnds, Arrived
<1>5. CASE WriteBody
  BY <1>1, <1>5 DEF WriteBody, Arrived
<1>6. CASE BodyIsCut
  BY <1>1, <1>6 DEF BodyIsCut
<1>7. CASE \/ StartDownloads \/ ListItems \/ TakeItem \/ FinishSession \/ RefuseBody
           \/ ListingFails \/ Die \/ Note \/ NoteIsCut \/ UNCHANGED itemVars
  BY <1>7 DEF StartDownloads, ListItems, TakeItem, FinishSession, RefuseBody,
     ListingFails, Die, Note, NoteIsCut, data, itemVars
<1> QED
  BY <1>2, <1>3, <1>4, <1>5, <1>6, <1>7 DEF DownloadsNext, DownloadsStep, DownloadsFault

LEMMA WriteBodyWrites ==
    ASSUME DownloadsTypeOK, PlaceInv, WriteBody, site.storing = "line"
    PROVE  /\ fetching.item \in Items
           /\ rows' \in [Items -> Nat] /\ dataCut' = FALSE
           /\ rows'[fetching.item] =
                IF dataCut THEN rows[fetching.item] ELSE rows[fetching.item] + 1
           /\ \A i \in Items : i # fetching.item => rows'[i] = rows[i]
<1> DEFINE count == IF dataCut THEN rows[fetching.item] ELSE rows[fetching.item] + 1
<1>1. fetching.item \in Items /\ rows \in [Items -> Nat] /\ dataCut \in BOOLEAN
  BY DEF DownloadsTypeOK, WriteBody
<1>2. count \in Nat
  BY <1>1
<1>3. rows' = [rows EXCEPT ![fetching.item] = count] /\ dataCut' = FALSE
  BY DEF WriteBody
<1>4. count = IF dataCut THEN rows[fetching.item] ELSE rows[fetching.item] + 1
  OBVIOUS
<1> HIDE DEF count
<1> QED
  BY <1>1, <1>2, <1>3, <1>4

LEMMA ItemTypes ==
    ASSUME DownloadsTypeOK, PlaceInv, [DownloadsNext]_itemVars
    PROVE  DownloadsTypeOK'
<1>1. /\ file \in [Items -> {"none", "part", "whole"}] /\ rows \in [Items -> Nat]
      /\ dataCut \in BOOLEAN /\ noted \subseteq Items
      /\ noteCut \in [cut : BOOLEAN, as : Items \cup {Nothing}]
      /\ fetching \in SomeSession /\ site \in Sites
      /\ fetching.at \in {"request", "stream", "body", "note"} => fetching.item \in Items
  BY DEF DownloadsTypeOK, SomeSession
<1>2. file' \in [Items -> {"none", "part", "whole"}]
  <2>1. CASE file' = file
    BY <1>1, <2>1
  <2>2. CASE file' # file
    <3>1. PICK f \in {"none", "part", "whole"} : file' = [file EXCEPT ![fetching.item] = f]
      BY <2>2, FileChanges
    <3> QED
      BY <1>1, <3>1
  <2> QED
    BY <2>1, <2>2
<1>3. rows' \in [Items -> Nat]
  <2>1. CASE WriteBody /\ site.storing = "line"
    BY <2>1, WriteBodyWrites
  <2>2. CASE WriteBody /\ site.storing # "line"
    BY <1>1, <2>2 DEF WriteBody
  <2> QED
    BY <1>1, <2>1, <2>2, LeftAlone
<1>4. dataCut' \in BOOLEAN
  <2>1. CASE WriteBody \/ BodyIsCut
    BY <1>1, <2>1 DEF WriteBody, BodyIsCut
  <2> QED
    BY <1>1, <2>1, LeftAlone
<1>5. noted' \subseteq Items
  <2>1. MisreadAs \subseteq Items \cup {Nothing}
    BY DEF MisreadAs
  <2>2. CASE Note
    <3>1. CASE noteCut.cut
      BY <1>1, <2>1, <2>2, <3>1 DEF Note
    <3>2. CASE ~noteCut.cut
      BY <1>1, <2>2, <3>2 DEF Note
    <3> QED
      BY <3>1, <3>2
  <2> QED
    BY <1>1, <2>2, LeftAlone
<1>6. noteCut' \in [cut : BOOLEAN, as : Items \cup {Nothing}]
  <2>1. MisreadAs \subseteq Items \cup {Nothing}
    BY DEF MisreadAs
  <2>2. CASE Note
    BY <2>2 DEF Note, Uncut
  <2>3. CASE NoteIsCut
    <3>1. PICK read \in MisreadAs : noteCut' = [cut |-> TRUE, as |-> read]
      BY <2>3 DEF NoteIsCut
    <3> QED
      BY <2>1, <3>1
  <2> QED
    BY <1>1, <2>2, <2>3, LeftAlone
<1>7. /\ fetching' \in SomeSession
      /\ fetching'.at \in {"request", "stream", "body", "note"} => fetching'.item \in Items
  BY <1>1, SessionMoves DEF Moves, SomeSession
<1>8. site' \in Sites \cap SitePolicy /\ siteAnswer' \in SiteAnswers
      /\ outages' \in Nat /\ deaths' \in Nat /\ cuts' \in Nat
  BY LeftAlone DEF DownloadsTypeOK
<1> QED
  BY <1>2, <1>3, <1>4, <1>5, <1>6, <1>7, <1>8 DEF DownloadsTypeOK, SomeSession

LEMMA PlaceSteps ==
    ASSUME DownloadsTypeOK, PlaceInv, [DownloadsNext]_itemVars
    PROVE  PlaceInv'
<1>1. /\ site' = site /\ site.storing \in {"line", "stream", "staged", "text"}
      /\ site.ids \in {"text", "numbers"}
  BY LeftAlone, SiteKinds DEF DownloadsTypeOK
<1>2. /\ fetching'.at \in {"down", "list"} => fetching'.left = {}
      /\ fetching'.at \in {"request", "stream", "body", "note"} =>
           fetching'.item \in fetching'.left
  BY SessionMoves DEF PlaceInv, Moves
<1>3. /\ fetching'.at = "stream" => site'.storing \in {"stream", "staged"}
      /\ fetching'.at = "body" => site'.storing \in {"line", "text"}
      /\ fetching'.at = "note" => site'.record = "manifest"
  BY <1>1, SessionMoves DEF PlaceInv, Entered
<1>4. site'.ids = "text" \/ ~noteCut'.cut => noteCut'.as = Nothing
  <2>1. CASE Note
    BY <2>1 DEF Note, Uncut
  <2>2. CASE NoteIsCut
    <3>1. PICK read \in MisreadAs : noteCut' = [cut |-> TRUE, as |-> read]
      BY <2>2 DEF NoteIsCut
    <3>2. site.ids = "text" => read = Nothing
      BY <3>1 DEF MisreadAs
    <3> QED
      BY <1>1, <3>1, <3>2
  <2>3. CASE noteCut' = noteCut
    BY <1>1, <2>3 DEF PlaceInv
  <2> QED
    BY <2>1, <2>2, <2>3, LeftAlone
<1> QED
  BY <1>2, <1>3, <1>4 DEF PlaceInv

LEMMA StoringSteps ==
    ASSUME DownloadsTypeOK, PlaceInv, StoringInv, [DownloadsNext]_itemVars
    PROVE  StoringInv'
<1>1. site' = site /\ file \in [Items -> {"none", "part", "whole"}]
  BY LeftAlone DEF DownloadsTypeOK
<1>2. site.storing # "line" => \A i \in Items : rows'[i] = 0
  <2>1. site.storing # "line" => rows' = rows
    BY LeftAlone DEF WriteBody
  <2> QED
    BY <2>1 DEF StoringInv
<1>3. CASE file' = file
  BY <1>1, <1>2, <1>3 DEF StoringInv
<1>4. CASE file' # file
  <2>1. PICK f \in {"none", "part", "whole"} :
          /\ file' = [file EXCEPT ![fetching.item] = f]
          /\ f = "part" => site.storing \in {"stream", "text"}
    BY <1>4, FileChanges
  <2>2. site.storing # "line" /\ fetching.item \in Items
    BY <1>4, FileChanges
  <2> QED
    BY <1>1, <1>2, <2>1, <2>2 DEF StoringInv
<1> QED
  BY <1>3, <1>4

\* A session leaves its note for one of these reasons.
LEMMA NoteIsLeft ==
    ASSUME [DownloadsNext]_itemVars, fetching.at = "note", fetching' # fetching
    PROVE  Note \/ NoteIsCut \/ Die
<1>1. ~UNCHANGED itemVars
  BY DEF itemVars
<1>2. /\ ~StartDownloads /\ ~ListItems /\ ~TakeItem /\ ~FinishSession /\ ~NotFound
      /\ ~Answered /\ ~StreamEnds /\ ~RefuseBody /\ ~WriteBody
  BY DEF StartDownloads, ListItems, TakeItem, FinishSession, NotFound, Answered, StreamEnds,
     RefuseBody, WriteBody
<1>3. ~ListingFails /\ ~AttemptFails /\ ~StreamFindsNoRoom /\ ~BodyIsCut
  BY DEF ListingFails, AttemptFails, StreamFindsNoRoom, BodyIsCut
<1> QED
  BY <1>1, <1>2, <1>3 DEF DownloadsNext, DownloadsStep, DownloadsFault

LEMMA NotedFilesSteps ==
    ASSUME DownloadsTypeOK, PlaceInv, NotedFilesInv, [DownloadsNext]_itemVars
    PROVE  NotedFilesInv'
<1> SUFFICES ASSUME site.record = "manifest", site.storing = "stream"
             PROVE  /\ \A i \in noted' : file'[i] = "whole" /\ i \notin fetching'.left
                    /\ fetching'.at = "note" => file'[fetching'.item] = "whole"
  BY LeftAlone DEF NotedFilesInv
<1>1. /\ fetching \in SomeSession /\ noted \subseteq Items
      /\ file \in [Items -> {"none", "part", "whole"}]
      /\ site.ids = "text" /\ noteCut.as = Nothing
      /\ \A i \in noted : file[i] = "whole" /\ i \notin fetching.left
      /\ fetching.at = "note" => file[fetching.item] = "whole"
  BY SiteKinds DEF DownloadsTypeOK, PlaceInv, NotedFilesInv, SomeSession
<1>2. \A i \in noted : file'[i] = "whole"
  <2>1. CASE file' = file
    BY <1>1, <2>1
  <2>2. CASE file' # file
    <3>1. fetching.item \notin noted
      BY <1>1, <2>2, FileChanges DEF PlaceInv
    <3> QED
      BY <1>1, <2>2, <3>1, FileChanges
  <2> QED
    BY <2>1, <2>2
<1>3. \A i \in noted : i \notin fetching'.left
  <2>1. \A i \in noted : i \notin LeftToDo
    BY DEF LeftToDo, Recorded, InManifest
  <2> QED
    BY <1>1, <2>1, SessionMoves DEF Moves
<1>4. CASE Note
  <2>1. fetching.at = "note" /\ NextItem /\ file' = file
    BY <1>4 DEF Note, data
  <2>2. /\ fetching'.at = "choose" /\ fetching'.left = fetching.left \ {fetching.item}
        /\ file'[fetching.item] = "whole"
    BY <1>1, <2>1, GoesOn
  <2>3. noted' \subseteq noted \cup {fetching.item}
    BY <1>1, <1>4 DEF Note, MisreadAs
  <2> QED
    BY <1>2, <1>3, <2>2, <2>3
<1>5. CASE ~Note
  <2>1. noted' = noted
    BY <1>5, LeftAlone
  <2>2. ASSUME fetching'.at = "note" PROVE file'[fetching'.item] = "whole"
    <3>1. CASE fetching' = fetching
      <4>1. file' = file
        BY <2>2, <3>1, FileChanges
      <4> QED
        BY <1>1, <2>2, <3>1, <4>1
    <3>2. CASE fetching' # fetching
      <4>1. StreamEnds
        BY <2>2, <3>2, SessionMoves DEF Entered, PlaceInv, WriteBody
      <4>2. ~ItemFails("content")
        BY <1>1, <2>2, Fails
      <4>3. file' = Arrived(fetching.item) /\ AfterData /\ fetching.item \in Items
        BY <4>1, <4>2 DEF StreamEnds, DownloadsTypeOK
      <4>4. fetching'.item = fetching.item
        BY <1>1, <2>2, <4>3, AfterDataGoes
      <4> QED
        BY <1>1, <4>3, <4>4 DEF Arrived
    <3> QED
      BY <3>1, <3>2
  <2> QED
    BY <1>2, <1>3, <2>1, <2>2
<1> QED
  BY <1>4, <1>5

LEMMA LossSteps ==
    ASSUME DownloadsTypeOK, DownloadsTypeOK', PlaceInv, LossInv, [DownloadsNext]_itemVars
    PROVE  LossInv'
<1> SUFFICES ASSUME site.storing = "line"
             PROVE  Cardinality(NotedBare') + Flag(dataCut') + Flag(noteCut'.cut)
                      + Flag(fetching'.at = "note" /\ rows'[fetching'.item] = 0) <= cuts'
  BY LeftAlone DEF LossInv
<1> DEFINE bare == fetching.at = "note" /\ rows[fetching.item] = 0
<1>1. /\ site' = site /\ site.record = "manifest" /\ fetching \in SomeSession
      /\ dataCut \in BOOLEAN /\ noteCut.cut \in BOOLEAN
      /\ cuts \in Nat /\ cuts' \in Nat /\ cuts' >= cuts
      /\ rows \in [Items -> Nat] /\ noted \subseteq Items
  BY LeftAlone, SiteKinds DEF DownloadsTypeOK, SomeSession
<1>2. /\ IsFiniteSet(NotedBare) /\ Cardinality(NotedBare) \in Nat
      /\ IsFiniteSet(NotedBare') /\ Cardinality(NotedBare') \in Nat
  <2>1. NotedBare \subseteq Items /\ NotedBare' \subseteq Items
    BY DEF NotedBare, DownloadsTypeOK
  <2> QED
    BY <2>1, Fewer, DownloadsAssumption
<1>3. \A b : Flag(b) \in 0..1 /\ (b => Flag(b) = 1) /\ (~b => Flag(b) = 0)
  BY DEF Flag
<1>4. Cardinality(NotedBare) + Flag(dataCut) + Flag(noteCut.cut) + Flag(bare) <= cuts
  BY DEF LossInv
\* The session is not at its note afterwards, unless it was all along.
<1>5. ~WriteBody /\ fetching' # fetching => fetching'.at # "note"
  <2>1. StreamEnds => fetching.at = "stream"
    BY DEF StreamEnds
  <2> QED
    BY <2>1, SessionMoves DEF Entered, PlaceInv
<1>6. CASE WriteBody
  <2>1. /\ fetching.at = "body" /\ AfterData /\ noted' = noted /\ noteCut' = noteCut
        /\ cuts' = cuts
    BY <1>6 DEF WriteBody, manifest, faults
  <2>2. fetching'.at = "note" /\ fetching'.item = fetching.item
    BY <1>1, <2>1, AfterDataGoes
  <2>3. /\ fetching.item \in Items /\ dataCut' = FALSE
        /\ rows'[fetching.item] =
             IF dataCut THEN rows[fetching.item] ELSE rows[fetching.item] + 1
        /\ \A i \in Items : i # fetching.item => rows'[i] = rows[i]
    BY <1>6, WriteBodyWrites
  <2>4. NotedBare' \subseteq NotedBare
    BY <1>1, <2>1, <2>3 DEF NotedBare
  <2>5. Cardinality(NotedBare') <= Cardinality(NotedBare)
    BY <1>2, <2>4, Fewer
  <2>6. ~dataCut => ~(fetching'.at = "note" /\ rows'[fetching'.item] = 0)
    BY <1>1, <2>2, <2>3
  <2>7. ~dataCut' /\ ~bare
    BY <2>1, <2>3
  <2> HIDE DEF bare
  <2> QED
    BY <1>1, <1>2, <1>3, <1>4, <2>1, <2>5, <2>6, <2>7
<1>7. CASE Note
  <2>1. /\ fetching.at = "note" /\ NextItem /\ noteCut' = Uncut /\ rows' = rows
        /\ dataCut' = dataCut /\ cuts' = cuts
    BY <1>7 DEF Note, data, faults
  <2>2. fetching'.at # "note" /\ ~noteCut'.cut
    BY <1>1, <2>1, GoesOn DEF Uncut
  <2>3. CASE noteCut.cut
    <3>1. PICK read \in MisreadAs : noted' = noted \cup ({read} \ {Nothing})
      BY <1>7, <2>3 DEF Note
    <3>2. NotedBare' \subseteq NotedBare \cup {read}
      BY <2>1, <3>1 DEF NotedBare
    <3>3. Cardinality(NotedBare') <= Cardinality(NotedBare) + 1
      BY <1>2, <3>2, OneMore
    <3> HIDE DEF bare
    <3> QED
      BY <1>1, <1>2, <1>3, <1>4, <2>1, <2>2, <2>3, <3>3 DEF Flag
  <2>4. CASE ~noteCut.cut
    <3>1. noted' = noted \cup {fetching.item}
      BY <1>7, <2>4 DEF Note
    <3>2. CASE bare
      <4>1. NotedBare' \subseteq NotedBare \cup {fetching.item}
        BY <2>1, <3>1 DEF NotedBare
      <4>2. Cardinality(NotedBare') <= Cardinality(NotedBare) + 1
        BY <1>2, <4>1, OneMore
      <4> HIDE DEF bare
      <4> QED
        BY <1>1, <1>2, <1>3, <1>4, <2>1, <2>2, <2>4, <3>2, <4>2 DEF Flag
    <3>3. CASE ~bare
      <4>1. NotedBare' \subseteq NotedBare
        BY <2>1, <3>1, <3>3 DEF NotedBare
      <4>2. Cardinality(NotedBare') <= Cardinality(NotedBare)
        BY <1>2, <4>1, Fewer
      <4> HIDE DEF bare
      <4> QED
        BY <1>1, <1>2, <1>3, <1>4, <2>1, <2>2, <2>4, <3>3, <4>2
    <3> QED
      BY <3>2, <3>3
  <2> QED
    BY <2>3, <2>4
<1>8. CASE NoteIsCut
  <2>1. cuts' = cuts + 1 /\ EndSession /\ UNCHANGED <<dataCut, rows, noted>>
    BY <1>8 DEF NoteIsCut, data
  <2>2. fetching'.at # "note" /\ NotedBare' = NotedBare
    BY <2>1, Ends DEF NotedBare
  <2> HIDE DEF bare
  <2> QED
    BY <1>1, <1>2, <1>3, <1>4, <2>1, <2>2
<1>9. CASE BodyIsCut
  <2>1. cuts' = cuts + 1 /\ EndSession /\ UNCHANGED <<noteCut, rows, noted>>
    BY <1>9 DEF BodyIsCut, manifest
  <2>2. fetching'.at # "note" /\ NotedBare' = NotedBare
    BY <2>1, Ends DEF NotedBare
  <2> HIDE DEF bare
  <2> QED
    BY <1>1, <1>2, <1>3, <1>4, <2>1, <2>2
<1>10. CASE ~WriteBody /\ ~Note /\ ~NoteIsCut /\ ~BodyIsCut
  <2>1. UNCHANGED <<rows, dataCut, noted, noteCut>>
    BY <1>10, LeftAlone
  <2>2. NotedBare' = NotedBare
    BY <2>1 DEF NotedBare
  <2>3. fetching'.at = "note" /\ rows'[fetching'.item] = 0 => bare
    BY <1>5, <1>10, <2>1
  <2> HIDE DEF bare
  <2> QED
    BY <1>1, <1>2, <1>3, <1>4, <2>1, <2>2, <2>3 DEF Flag
<1> QED
  BY <1>6, <1>7, <1>8, <1>9, <1>10

\* A part is left by a death while the file was streamed, or by a cut text.
LEMMA PartFilesSteps ==
    ASSUME DownloadsTypeOK, DownloadsTypeOK', PlaceInv, StoringInv, PartFilesInv,
           [DownloadsNext]_itemVars
    PROVE  PartFilesInv'
<1>1. /\ site.storing \in {"line", "stream", "staged", "text"}
      /\ file \in [Items -> {"none", "part", "whole"}]
      /\ cuts \in Nat /\ cuts' \in Nat /\ cuts' >= cuts
      /\ deaths \in Nat /\ deaths' \in Nat /\ deaths' >= deaths
      /\ fetching \in SomeSession
  BY LeftAlone, SiteKinds DEF DownloadsTypeOK, SomeSession
<1>2. IsFiniteSet(PartFiles) /\ Cardinality(PartFiles) - cuts <= deaths
  <2>1. PartFiles \subseteq Items
    BY DEF PartFiles
  <2> QED
    BY <2>1, Fewer, DownloadsAssumption DEF PartFilesInv
<1>3. PartFiles' \subseteq PartFiles \cup {fetching.item}
  <2> SUFFICES ASSUME NEW i \in PartFiles', i # fetching.item PROVE i \in PartFiles
    OBVIOUS
  <2>1. i \in Items /\ file'[i] = "part"
    BY DEF PartFiles
  <2>2. file'[i] = file[i]
    BY <1>1, <2>1, FileChanges
  <2> QED
    BY <2>1, <2>2 DEF PartFiles
\* Wherever the item in hand is not left as one more part.
<1>4. ASSUME fetching.item \in PartFiles' => fetching.item \in PartFiles PROVE PartFilesInv'
  <2>1. PartFiles' \subseteq PartFiles
    BY <1>3, <1>4
  <2>2. Cardinality(PartFiles') <= Cardinality(PartFiles)
        /\ Cardinality(PartFiles') \in Nat /\ Cardinality(PartFiles) \in Nat
    BY <1>2, <2>1, Fewer
  <2> QED
    BY <1>1, <1>2, <2>2 DEF PartFilesInv
<1>5. ASSUME file' = file, fetching.at # "stream" PROVE PartFilesInv'
  <2>1. fetching.item \in PartFiles' => fetching.item \in PartFiles
    BY <1>5 DEF PartFiles
  <2> QED
    BY <1>4, <2>1
<1>6. ASSUME fetching.item \in Items => file'[fetching.item] # "part" PROVE PartFilesInv'
  <2>1. fetching.item \notin PartFiles'
    BY <1>6 DEF PartFiles
  <2> QED
    BY <1>4, <2>1
<1>7. ASSUME \/ cuts' = cuts + 1
             \/ deaths' = deaths + 1
      PROVE  PartFilesInv'
  <2>1. Cardinality(PartFiles') <= Cardinality(PartFiles) + 1
        /\ Cardinality(PartFiles') \in Nat /\ Cardinality(PartFiles) \in Nat
    BY <1>2, <1>3, OneMore
  <2> QED
    BY <1>1, <1>2, <1>7, <2>1 DEF PartFilesInv
<1>8. CASE \/ StartDownloads \/ ListItems \/ TakeItem \/ FinishSession \/ RefuseBody
           \/ ListingFails \/ Note \/ NoteIsCut
  BY <1>5, <1>8 DEF StartDownloads, ListItems, TakeItem, FinishSession, RefuseBody,
     ListingFails, Note, NoteIsCut, data
<1>9. CASE Die
  BY <1>1, <1>7, <1>9 DEF Die
<1>10. CASE BodyIsCut
  BY <1>1, <1>7, <1>10 DEF BodyIsCut
\* download_to_file's cleanup.
<1>11. ASSUME file' = Dropped(fetching.item), fetching.at \in {"request", "stream"}
       PROVE  PartFilesInv'
  <2>1. CASE site.storing = "stream"
    BY <1>1, <1>6, <1>11, <2>1 DEF Dropped
  <2>2. CASE site.storing # "stream" /\ fetching.at = "request"
    BY <1>5, <1>11, <2>2 DEF Dropped
  <2>3. CASE site.storing # "stream" /\ fetching.at = "stream"
    BY <1>1, <1>6, <1>11, <2>3 DEF Dropped, PlaceInv, StoringInv
  <2> QED
    BY <1>11, <2>1, <2>2, <2>3
<1>12. CASE NotFound \/ AttemptFails \/ StreamFindsNoRoom
  BY <1>11, <1>12 DEF NotFound, AttemptFails, StreamFindsNoRoom
<1>13. CASE Answered
  <2>1. CASE site.storing = "stream"
    <3>1. fetching'.at = "stream" /\ fetching'.item = fetching.item
      BY <1>1, <1>13, <2>1, Goes DEF Answered
    <3>2. fetching.item \notin PartFiles'
      BY <3>1 DEF PartFiles
    <3> QED
      BY <1>4, <3>2
  <2>2. CASE site.storing # "stream"
    BY <1>5, <1>13, <2>2 DEF Answered
  <2> QED
    BY <2>1, <2>2
<1>14. CASE StreamEnds
  BY <1>1, <1>6, <1>14 DEF StreamEnds, Arrived
<1>15. CASE WriteBody
  <2>1. CASE site.storing = "line"
    BY <1>5, <1>15, <2>1 DEF WriteBody
  <2>2. CASE site.storing # "line"
    BY <1>1, <1>6, <1>15, <2>2 DEF WriteBody, Arrived
  <2> QED
    BY <2>1, <2>2
<1>16. CASE UNCHANGED itemVars
  BY <1>16 DEF itemVars, PartFilesInv, PartFiles
<1> QED
  BY <1>8, <1>9, <1>10, <1>12, <1>13, <1>14, <1>15, <1>16
     DEF DownloadsNext, DownloadsStep, DownloadsFault

\* A row more than one is a row that was still to be noted.
LEMMA RowsSteps ==
    ASSUME DownloadsTypeOK, DownloadsTypeOK', PlaceInv, StoringInv, StoringInv', RowsInv,
           [DownloadsNext]_itemVars
    PROVE  RowsInv'
<1>1. /\ site' = site /\ fetching \in SomeSession
      /\ noteCut.cut \in BOOLEAN /\ noteCut'.cut \in BOOLEAN
      /\ cuts \in Nat /\ cuts' \in Nat /\ cuts' >= cuts
      /\ deaths \in Nat /\ deaths' \in Nat /\ deaths' >= deaths
      /\ rows \in [Items -> Nat] /\ rows' \in [Items -> Nat] /\ noted \subseteq Items
  BY LeftAlone DEF DownloadsTypeOK, SomeSession
<1>2. /\ IsFiniteSet(OpenRows) /\ Cardinality(OpenRows) \in Nat
      /\ IsFiniteSet(OpenRows') /\ Cardinality(OpenRows') \in Nat
      /\ IsFiniteSet(RepeatedRows) /\ Cardinality(RepeatedRows) \in Nat
  <2>1. OpenRows \subseteq Items /\ OpenRows' \subseteq Items
    BY DEF OpenRows
  <2> QED
    BY <2>1, Fewer, DownloadsAssumption, FS_CardinalityType DEF RowsInv
<1>3. Cardinality(RepeatedRows) + Cardinality(OpenRows) + Flag(noteCut.cut)
        <= deaths + 2 * cuts
  BY DEF RowsInv
\* Only the item at its note can be one more to fetch again.
<1>4. ASSUME rows' = rows, NEW i \in OpenRows', i \notin OpenRows
      PROVE  fetching.at = "note" /\ i = fetching.item /\ fetching' # fetching
  <2>1. /\ i \in Items /\ rows[i] > 0
        /\ i \notin noted' \/ i \in fetching'.left
        /\ ~(fetching'.at = "note" /\ fetching'.item = i)
    BY <1>4 DEF OpenRows
  <2>2. site.storing = "line"
    BY <1>1, <2>1 DEF StoringInv
  <2>3. noted \subseteq noted'
    BY LeftAlone DEF Note
  <2>4. LeftToDo \cap noted = {}
    BY <2>2, SiteKinds DEF LeftToDo, Recorded, InManifest, DownloadsTypeOK
  <2>5. i \in fetching'.left => i \in fetching.left \/ i \notin noted
    BY <2>4, SessionMoves DEF Moves
  <2>6. i \notin noted \/ i \in fetching.left
    BY <2>1, <2>3, <2>5
  <2>7. fetching.at = "note" /\ fetching.item = i
    BY <1>4, <2>1, <2>6 DEF OpenRows
  <2> QED
    BY <2>1, <2>7
<1>5. ASSUME rows' = rows
      PROVE  /\ RepeatedRows' = RepeatedRows
             /\ Cardinality(OpenRows') <= Cardinality(OpenRows) + 1
             /\ \/ fetching.at = "note" /\ fetching' # fetching
                \/ Cardinality(OpenRows') <= Cardinality(OpenRows)
  <2>1. RepeatedRows' = RepeatedRows
    BY <1>5 DEF RepeatedRows
  <2>2. OpenRows' \subseteq OpenRows \cup {fetching.item}
    BY <1>4, <1>5
  <2>3. \/ fetching.at = "note" /\ fetching' # fetching
        \/ OpenRows' \subseteq OpenRows
    BY <1>4, <1>5
  <2> QED
    BY <1>2, <2>1, <2>2, <2>3, OneMore, Fewer
<1>6. CASE Note
  <2>1. /\ rows' = rows /\ fetching.at = "note" /\ NextItem /\ ~noteCut'.cut
        /\ cuts' = cuts /\ deaths' = deaths
    BY <1>6 DEF Note, data, faults, Uncut
  <2>2. CASE noteCut.cut
    BY <1>1, <1>2, <1>3, <1>5, <2>1, <2>2 DEF Flag, RowsInv
  <2>3. CASE ~noteCut.cut
    <3>1. fetching.item \in noted' /\ fetching.item \notin fetching'.left
      BY <1>1, <1>6, <2>1, <2>3, GoesOn DEF Note
    <3>2. fetching.item \notin OpenRows'
      BY <3>1 DEF OpenRows
    <3>3. OpenRows' \subseteq OpenRows
      BY <1>4, <2>1, <3>2
    <3>4. Cardinality(OpenRows') <= Cardinality(OpenRows)
      BY <1>2, <3>3, Fewer
    <3> QED
      BY <1>1, <1>2, <1>3, <1>5, <2>1, <2>3, <3>4 DEF Flag, RowsInv
  <2> QED
    BY <2>2, <2>3
<1>7. CASE NoteIsCut
  <2>1. rows' = rows /\ cuts' = cuts + 1 /\ deaths' = deaths
    BY <1>7 DEF NoteIsCut, data
  <2> QED
    BY <1>1, <1>2, <1>3, <1>5, <2>1 DEF Flag, RowsInv
<1>8. CASE Die
  <2>1. rows' = rows /\ noteCut' = noteCut /\ cuts' = cuts /\ deaths' = deaths + 1
    BY <1>8 DEF Die, data, manifest
  <2> QED
    BY <1>1, <1>2, <1>3, <1>5, <2>1 DEF Flag, RowsInv
<1>9. CASE ~WriteBody /\ ~Note /\ ~NoteIsCut /\ ~Die
  <2>1. rows' = rows /\ noteCut' = noteCut
    BY <1>9, LeftAlone
  <2>2. ~(fetching.at = "note" /\ fetching' # fetching)
    BY <1>9, NoteIsLeft
  <2> QED
    BY <1>1, <1>2, <1>3, <1>5, <2>1, <2>2 DEF Flag, RowsInv
<1>10. CASE WriteBody
  <2>1. /\ fetching.at = "body" /\ AfterData /\ noted' = noted /\ noteCut' = noteCut
        /\ cuts' = cuts /\ deaths' = deaths
    BY <1>10 DEF WriteBody, manifest, faults
  <2>2. CASE site.storing # "line"
    <3>1. rows' = rows
      BY <1>10, <2>2 DEF WriteBody
    <3> QED
      BY <1>1, <1>2, <1>3, <1>5, <2>1, <3>1 DEF Flag, RowsInv
  <2>3. CASE site.storing = "line"
    <3>1. /\ fetching.item \in Items /\ fetching.item \in fetching.left
          /\ rows'[fetching.item] =
               IF dataCut THEN rows[fetching.item] ELSE rows[fetching.item] + 1
          /\ \A i \in Items : i # fetching.item => rows'[i] = rows[i]
      BY <1>10, <2>1, <2>3, WriteBodyWrites DEF PlaceInv
    <3>2. /\ fetching'.at = "note" /\ fetching'.item = fetching.item
          /\ fetching'.left = fetching.left
      BY <1>1, <2>1, <2>3, AfterDataGoes, SiteKinds DEF DownloadsTypeOK
    <3>3. OpenRows' \subseteq OpenRows \ {fetching.item}
      BY <2>1, <3>1, <3>2 DEF OpenRows
    <3>4. Cardinality(OpenRows') <= Cardinality(OpenRows)
      BY <1>2, <3>3, Fewer
    <3>5. CASE dataCut
      <4>1. \A i \in Items : rows'[i] = rows[i]
        BY <3>1, <3>5
      <4>2. RepeatedRows' = RepeatedRows
        BY <1>1, <4>1 DEF RepeatedRows
      <4> QED
        BY <1>1, <1>2, <1>3, <2>1, <3>4, <4>2 DEF Flag, RowsInv
    <3>6. CASE ~dataCut /\ rows[fetching.item] = 0
      <4>1. \A i \in Items : 2..rows'[i] = 2..rows[i]
        BY <1>1, <3>1, <3>6
      <4>2. RepeatedRows' = RepeatedRows
        BY <4>1 DEF RepeatedRows
      <4> QED
        BY <1>1, <1>2, <1>3, <2>1, <3>4, <4>2 DEF Flag, RowsInv
    <3>7. CASE ~dataCut /\ rows[fetching.item] # 0
      <4> DEFINE one == <<fetching.item, rows[fetching.item] + 1>>
      <4>1. RepeatedRows' \subseteq RepeatedRows \cup {one}
        <5> SUFFICES ASSUME NEW i \in Items, NEW r \in 2..rows'[i],
                            <<i, r>> # one
                     PROVE  r \in 2..rows[i]
          BY DEF RepeatedRows
        <5> QED
          BY <1>1, <3>1, <3>7
      <4> HIDE DEF one
      <4>2. /\ IsFiniteSet(RepeatedRows') /\ Cardinality(RepeatedRows') \in Nat
            /\ Cardinality(RepeatedRows') <= Cardinality(RepeatedRows) + 1
        BY <1>2, <4>1, OneMore
      <4>3. fetching.item \in OpenRows
        BY <1>1, <2>1, <3>1, <3>7 DEF OpenRows
      <4>4. Cardinality(OpenRows') + 1 <= Cardinality(OpenRows)
        BY <1>2, <3>3, <4>3, OneLess
      <4> QED
        BY <1>1, <1>2, <1>3, <2>1, <4>2, <4>4 DEF Flag, RowsInv
    <3> QED
      BY <3>5, <3>6, <3>7
  <2> QED
    BY <2>2, <2>3
<1> QED
  BY <1>6, <1>7, <1>8, <1>9, <1>10

-----------------------------------------------------------------------------

LEMMA ItemsSteps == ItemsInv /\ [DownloadsNext]_itemVars => ItemsInv'
<1> SUFFICES ASSUME ItemsInv, [DownloadsNext]_itemVars PROVE ItemsInv'
  OBVIOUS
<1>1. DownloadsTypeOK' /\ StoringInv'
  BY ItemTypes, StoringSteps DEF ItemsInv
<1> QED
  BY <1>1, PlaceSteps, NotedFilesSteps, LossSteps, PartFilesSteps, RowsSteps DEF ItemsInv

\* What no session will fetch again is what the invariant counts.
LEMMA LossIsCounted == ItemsInv => LossIsBounded
<1> SUFFICES ASSUME ItemsInv PROVE LossIsBounded
  OBVIOUS
<1>1. /\ site.storing \in {"line", "stream", "staged", "text"}
      /\ site.record \in {"manifest", "exists", "digest"}
      /\ site.ids \in {"text", "numbers"}
      /\ site.storing = "line" => site.record = "manifest"
      /\ site.record = "manifest" => site.storing \in {"line", "stream"}
      /\ site.record = "manifest" /\ site.storing = "stream" => site.ids = "text"
      /\ rows \in [Items -> Nat] /\ noted \subseteq Items
      /\ file \in [Items -> {"none", "part", "whole"}]
      /\ noteCut.cut \in BOOLEAN /\ noteCut.as \in Items \cup {Nothing}
      /\ cuts \in Nat /\ deaths \in Nat
  BY SiteKinds DEF ItemsInv, DownloadsTypeOK
<1>2. CASE Guarded
  <2>1. \A i \in Recorded : file[i] = "whole" \/ i \notin Items
    <3>1. CASE site.record = "digest"
      BY <3>1 DEF Recorded
    <3>2. CASE site.storing = "staged"
      BY <1>1, <3>2 DEF Recorded, ItemsInv, StoringInv
    <3>3. CASE site.record = "manifest" /\ site.storing = "stream" /\ site.ids = "text"
      BY <3>3 DEF Recorded, InManifest, ItemsInv, NotedFilesInv, PlaceInv
    <3> QED
      BY <1>2, <3>1, <3>2, <3>3 DEF Guarded
  <2>2. Lost = {}
    BY <2>1 DEF Lost, Kept
  <2> QED
    BY <1>2, <2>2, FS_EmptySet DEF LossIsBounded
<1>3. CASE ~Guarded /\ site.record = "manifest"
  <2>1. site.storing = "line"
    BY <1>1, <1>3 DEF Guarded
  <2>2. Cardinality(NotedBare) + Flag(noteCut.cut) <= cuts
        /\ IsFiniteSet(NotedBare) /\ Cardinality(NotedBare) \in Nat
    <3>1. NotedBare \subseteq Items
      BY <1>1 DEF NotedBare
    <3>2. IsFiniteSet(NotedBare) /\ Cardinality(NotedBare) \in Nat
      BY <3>1, Fewer, DownloadsAssumption
    <3> QED
      BY <1>1, <2>1, <3>2 DEF ItemsInv, LossInv, Flag
  <2>3. \A i \in Lost : i \in NotedBare \/ (noteCut.cut /\ i = noteCut.as)
    BY <1>1, <1>3 DEF Lost, Kept, Recorded, InManifest, NotedBare, ItemsInv, PlaceInv
  <2>4. CASE noteCut.cut
    <3>1. Lost \subseteq NotedBare \cup {noteCut.as}
      BY <2>3
    <3>2. Cardinality(Lost) <= Cardinality(NotedBare) + 1 /\ Cardinality(Lost) \in Nat
      BY <2>2, <3>1, OneMore
    <3> QED
      BY <1>1, <1>3, <2>2, <2>4, <3>2 DEF LossIsBounded, Flag
  <2>5. CASE ~noteCut.cut
    <3>1. Lost \subseteq NotedBare
      BY <2>3, <2>5
    <3>2. Cardinality(Lost) <= Cardinality(NotedBare) /\ Cardinality(Lost) \in Nat
      BY <2>2, <3>1, Fewer
    <3> QED
      BY <1>1, <1>3, <2>2, <2>5, <3>2 DEF LossIsBounded, Flag
  <2> QED
    BY <2>4, <2>5
<1>4. CASE ~Guarded /\ site.record # "manifest"
  <2>1. site.record = "exists"
    BY <1>1, <1>4 DEF Guarded
  <2>2. Lost \subseteq PartFiles
    BY <1>1, <2>1 DEF Lost, Kept, Recorded, PartFiles
  <2>3. PartFiles \subseteq Items
    BY DEF PartFiles
  <2>4. IsFiniteSet(PartFiles)
    BY <2>3, Fewer, DownloadsAssumption
  <2>5. Cardinality(Lost) <= Cardinality(PartFiles)
        /\ Cardinality(Lost) \in Nat /\ Cardinality(PartFiles) \in Nat
    BY <2>2, <2>4, Fewer
  <2>6. Cardinality(PartFiles) - cuts <= deaths
    BY DEF ItemsInv, PartFilesInv
  <2> QED
    BY <1>1, <1>4, <2>5, <2>6 DEF LossIsBounded
<1> QED
  BY <1>2, <1>3, <1>4

LEMMA RepeatsAreCounted == ItemsInv => RepeatsAreBounded
<1> SUFFICES ASSUME ItemsInv PROVE RepeatsAreBounded
  OBVIOUS
<1>1. OpenRows \subseteq Items
  BY DEF OpenRows
<1>2. Cardinality(OpenRows) \in Nat
  BY <1>1, Fewer, DownloadsAssumption
<1>3. Cardinality(RepeatedRows) \in Nat /\ cuts \in Nat /\ deaths \in Nat
  BY FS_CardinalityType DEF ItemsInv, RowsInv, DownloadsTypeOK
<1> QED
  BY <1>2, <1>3 DEF ItemsInv, RowsInv, RepeatsAreBounded, Flag

\* Whatever a site answers for its items and whenever a session dies or a
\* write is cut, each item lost and each row repeated has a fault of its own.
THEOREM ItemsAreKeptOrFaulty == DownloadsSpec => []FaultsExplainTheItems
<1>1. DownloadsSpec => []ItemsInv
  BY ItemsStart, ItemsSteps, PTL DEF DownloadsSpec
<1>2. ItemsInv => FaultsExplainTheItems
  BY LossIsCounted, RepeatsAreCounted DEF ItemsInv, FaultsExplainTheItems
<1> QED
  BY <1>1, <1>2, PTL

-----------------------------------------------------------------------------
(* Whole files                                                             *)

SomeFile == (0 - LastVersion)..LastVersion

SomeFetch ==
    [at : {"down", "digest", "request", "body", "check", "metaAgain", "choose",
           "open", "unpack", "unlink", "mark", "finish"},
     dir : Builds, left : SUBSET Names, name : Names \cup {NoName}, attempt : Nat,
     digest : Builds, got : Builds, since : Builds]

BulkShape ==
    /\ bulk \in BulkSites
    /\ version \in DOMAIN Versions
    /\ disk \in [Builds -> [Names -> SomeFile]]
    /\ archives \in [Builds -> SomeFile]
    /\ marks \subseteq DOMAIN Versions
    /\ fetch \in SomeFetch
    /\ troubles \in [outages : Nat, deaths : Nat, noRooms : Nat]

Archived == bulk.gets = "archive"

\* From here on the archive's contents are known, and are being unpacked.
Unpacking == fetch.at \in {"choose", "open", "unpack", "unlink", "mark", "finish"}

\* What a session holds at each of its places.
FetchInv ==
    /\ fetch.at # "down" =>
         /\ fetch.since \in 1..version
         /\ fetch.dir = IF bulk.dated THEN fetch.since ELSE 0
         /\ landed = NothingLanded
    /\ fetch.at \in {"digest", "check", "metaAgain", "unlink", "mark"} => bulk.marked
    /\ fetch.at \in {"open", "unpack"} => Archived
    /\ \/ fetch.at \in {"body", "check", "metaAgain"}
       \/ Archived /\ Unpacking
       => fetch.got \in fetch.since..version
    /\ \/ fetch.at \in {"request", "body"} /\ ~Archived
       \/ fetch.at \in {"open", "unpack"}
       => fetch.name \in fetch.left
    /\ Archived /\ fetch.at \in {"digest", "request", "body"} => fetch.name = NoName
    /\ fetch.at # "down" /\ ~Archived => fetch.left \subseteq Fixed
    /\ fetch.at \in {"check", "metaAgain"} => fetch.left = Versions[fetch.got]
    /\ Archived /\ fetch.at \in {"choose", "open", "unpack"} =>
         fetch.left \subseteq Versions[fetch.got]
    /\ fetch.at \in {"unlink", "mark", "finish"} => fetch.left = {}
    /\ bulk.marked /\ Unpacking => fetch.got = fetch.dir
    /\ bulk.marked /\ fetch.at \notin {"down", "finish"} => fetch.dir \notin marks

\* What is not left to do is there, whole.
DoneInv ==
    /\ fetch.at # "down" /\ ~Archived =>
         \A n \in Fixed \ fetch.left :
             \E v \in fetch.since..version : disk[fetch.dir][n] = v
    /\ Archived /\ Unpacking =>
         \A n \in Versions[fetch.got] \ fetch.left : disk[fetch.dir][n] = fetch.got

\* A build's directory holds files of that build only.
MarksInv ==
    /\ ~bulk.marked => marks = {}
    /\ bulk.marked => \A v \in DOMAIN Versions : \A n \in Names \ Versions[v] :
                          disk[v][n] = NoFile
    /\ \A v \in marks : \A n \in Versions[v] : disk[v][n] = v

PartsInv == IsFiniteSet(HalfWritten) /\ PartsAreOfFaults

BulkInv ==
    BulkShape /\ FetchInv /\ DoneInv /\ MarksInv /\ LandedIsWhole /\ PartsInv

-----------------------------------------------------------------------------

LEMMA BulkNumbers ==
    /\ LastVersion \in Nat /\ LastVersion > 0 /\ 1 \in DOMAIN Versions
    /\ DOMAIN Versions = 1..LastVersion
    /\ Builds = 0..LastVersion /\ 0 \in Builds /\ DOMAIN Versions \subseteq Builds
    /\ \A v \in DOMAIN Versions : Versions[v] \subseteq Names /\ Versions[v] # {}
    /\ NoName \notin Names
    /\ \A v \in Builds : v \in Int /\ 0 <= v /\ v <= LastVersion
    /\ \A v \in Builds : v \in SomeFile /\ 0 - v \in SomeFile
<1>1. LastVersion \in Nat /\ LastVersion > 0 /\ DOMAIN Versions = 1..LastVersion
  BY BulkAssumption
<1>2. \A v \in DOMAIN Versions : Versions[v] \subseteq Names /\ Versions[v] # {}
  BY BulkAssumption DEF Names
<1> QED
  BY <1>1, <1>2, BulkAssumption DEF Builds, SomeFile

\* What the seven downloaders have in common.
LEMMA SitePolicies ==
    ASSUME bulk \in BulkSites
    PROVE  /\ bulk.gets \in {"one", "several", "archive"}
           /\ bulk.inMemory \in BOOLEAN /\ bulk.dated \in BOOLEAN /\ bulk.marked \in BOOLEAN
           /\ bulk.marked => bulk.dated /\ Archived
           /\ bulk.dated => Archived
           /\ bulk.inMemory => ~Archived
<1> USE DEF Archived, SpireCodexCards, CardVaultFabtcg, DominionTabs, GwentOne,
            PokemonTcgData, ScryfallOracle, MtgjsonDeckFiles
<1>1. bulk \in {SpireCodexCards, DominionTabs, GwentOne, PokemonTcgData, ScryfallOracle,
                MtgjsonDeckFiles}
  BY DEF BulkSites
<1>2. CASE bulk = SpireCodexCards
  BY <1>2
<1>3. CASE bulk = DominionTabs
  BY <1>3
<1>4. CASE bulk = GwentOne
  BY <1>4
<1>5. CASE bulk = PokemonTcgData
  BY <1>5
<1>6. CASE bulk = ScryfallOracle
  BY <1>6
<1>7. CASE bulk = MtgjsonDeckFiles
  BY <1>7
<1> QED
  BY <1>1, <1>2, <1>3, <1>4, <1>5, <1>6, <1>7

LEMMA FixedAreNames == bulk \in BulkSites => Fixed \subseteq Names
<1> SUFFICES ASSUME bulk \in BulkSites PROVE Fixed \subseteq Names
  OBVIOUS
<1>1. Versions[1] \subseteq Names /\ (CHOOSE n \in Versions[1] : TRUE) \in Versions[1]
  BY BulkNumbers
<1> QED
  BY <1>1, SitePolicies DEF Fixed

LEMMA FileIsWritten ==
    ASSUME disk \in [Builds -> [Names -> SomeFile]],
           NEW d \in Builds, NEW n \in Names, NEW f \in SomeFile,
           disk' = [disk EXCEPT ![d][n] = f]
    PROVE  /\ disk' \in [Builds -> [Names -> SomeFile]]
           /\ disk'[d][n] = f
           /\ \A e \in Builds, m \in Names : e # d \/ m # n => disk'[e][m] = disk[e][m]
OBVIOUS

LEMMA BulkStarts == BulkInit => BulkInv
<1> SUFFICES ASSUME BulkInit PROVE BulkInv
  OBVIOUS
<1>1. fetch = NoFetch /\ landed = NothingLanded /\ marks = {} /\ version = 1
      /\ fetch.at = "down" /\ landed.files = {} /\ bulk \in BulkSites
      /\ \A d \in Builds, n \in Names : disk[d][n] = 0
  BY DEF BulkInit, NoFetch, NothingLanded, NoFile
<1>2. BulkShape
  <2>1. NoFetch \in SomeFetch
    BY BulkNumbers DEF NoFetch, SomeFetch
  <2>2. disk \in [Builds -> [Names -> SomeFile]] /\ archives \in [Builds -> SomeFile]
    BY BulkNumbers DEF BulkInit, NoFile
  <2> QED
    BY <1>1, <2>1, <2>2, BulkNumbers DEF BulkInit, BulkShape
<1>3. FetchInv
  BY <1>1 DEF FetchInv, Unpacking
<1>4. DoneInv
  BY <1>1 DEF DoneInv, Unpacking
<1>5. MarksInv
  BY <1>1, BulkNumbers DEF MarksInv, NoFile
<1>6. LandedIsWhole
  BY <1>1 DEF LandedIsWhole
<1>7. PartsInv
  <2>1. HalfWritten = {}
    BY <1>1 DEF HalfWritten, NoFile
  <2> QED
    BY <2>1, FS_EmptySet DEF PartsInv, PartsAreOfFaults, BulkInit
<1> QED
  BY <1>2, <1>3, <1>4, <1>5, <1>6, <1>7 DEF BulkInv

-----------------------------------------------------------------------------

\* What a request or a write may put where the session writes.
LEMMA SaveIsTyped ==
    ASSUME BulkShape, FetchInv, NEW f \in SomeFile, Save(f),
           fetch.at \in {"request", "body"}
    PROVE  /\ disk' \in [Builds -> [Names -> SomeFile]]
           /\ archives' \in [Builds -> SomeFile]
           /\ Archived => disk' = disk
           /\ ~Archived => /\ fetch.name \in fetch.left
                           /\ fetch.dir \in Builds /\ fetch.name \in Names
                           /\ disk' = [disk EXCEPT ![fetch.dir][fetch.name] = f]
<1>1. fetch.dir \in Builds /\ fetch.left \subseteq Names
  BY DEF BulkShape, SomeFetch
<1>2. CASE Archived
  BY <1>1, <1>2 DEF Archived, Save, BulkShape
<1>3. CASE ~Archived
  <2>1. fetch.name \in fetch.left
    BY <1>3 DEF FetchInv
  <2>2. disk' = [disk EXCEPT ![fetch.dir][fetch.name] = f] /\ archives' = archives
    BY <1>3 DEF Archived, Save
  <2>3. disk \in [Builds -> [Names -> SomeFile]] /\ archives \in [Builds -> SomeFile]
    BY DEF BulkShape
  <2> QED
    BY <1>1, <1>3, <2>1, <2>2, <2>3, FileIsWritten
<1> QED
  BY <1>2, <1>3

\* The file or member after the one in hand.
LEMMA AfterFileIsTyped ==
    ASSUME BulkShape, AfterFile
    PROVE  fetch' \in SomeFetch
<1> DEFINE place == IF fetch.left # {fetch.name} THEN "choose"
                    ELSE IF bulk.marked THEN "unlink" ELSE "finish"
           rest == fetch.left \ {fetch.name}
<1>1. /\ place \in {"choose", "unlink", "finish"} /\ rest \in SUBSET Names
      /\ fetch' = [fetch EXCEPT !.left = rest, !.name = NoName, !.at = place]
  BY DEF BulkShape, SomeFetch, AfterFile
<1> HIDE DEF place, rest
<1> QED
  BY <1>1 DEF BulkShape, SomeFetch

LEMMA ShapeSteps ==
    ASSUME BulkShape, FetchInv, [BulkNext]_bulkVars
    PROVE  BulkShape'
<1>1. /\ bulk \in BulkSites /\ version \in DOMAIN Versions
      /\ disk \in [Builds -> [Names -> SomeFile]] /\ archives \in [Builds -> SomeFile]
      /\ marks \subseteq DOMAIN Versions /\ fetch \in SomeFetch
      /\ troubles \in [outages : Nat, deaths : Nat, noRooms : Nat]
  BY DEF BulkShape
<1>2. /\ version \in Builds /\ fetch.dir \in Builds /\ fetch.got \in Builds
      /\ fetch.left \subseteq Names /\ NoFile \in SomeFile
      /\ WholeOf(fetch.got) \in SomeFile /\ PartOf(fetch.got) \in SomeFile
  BY <1>1, BulkNumbers DEF SomeFetch, WholeOf, PartOf, NoFile
<1>3. NoFetch \in SomeFetch
  BY BulkNumbers DEF NoFetch, SomeFetch
<1>4. CASE Publish
  BY <1>1, <1>4, BulkNumbers DEF Publish, OnDisk, BulkShape
<1>5. CASE StartFetch
  <2> DEFINE dir == IF bulk.dated THEN version ELSE 0
             at == IF bulk.marked /\ version \in marks THEN "down"
                   ELSE IF bulk.marked THEN "digest"
                   ELSE IF bulk.gets = "archive" THEN "request" ELSE "choose"
  <2>1. dir \in Builds /\ at \in {"down", "digest", "request", "choose"}
    BY <1>2, BulkNumbers
  <2>2. fetch' = [NoFetch EXCEPT !.dir = dir, !.at = at, !.left = Fixed,
                                 !.attempt = 1, !.since = version]
    BY <1>5 DEF StartFetch
  <2> HIDE DEF dir, at
  <2>3. fetch' \in SomeFetch
    BY <1>1, <1>2, <1>3, <2>1, <2>2, FixedAreNames DEF SomeFetch
  <2> QED
    BY <1>1, <1>5, <2>3 DEF StartFetch, OnDisk, BulkShape
<1>6. CASE ReadDigest
  <2>1. fetch' \in SomeFetch
    BY <1>1, <1>2, <1>6 DEF ReadDigest, SomeFetch
  <2> QED
    BY <1>1, <1>6, <2>1 DEF ReadDigest, OnDisk, BulkShape
<1>7. CASE Choose
  <2>1. PICK n \in fetch.left :
          fetch' = [fetch EXCEPT !.at = IF bulk.gets = "archive" THEN "open" ELSE "request",
                                 !.name = n, !.attempt = 1]
    BY <1>7 DEF Choose
  <2>2. fetch' \in SomeFetch
    BY <1>1, <1>2, <2>1 DEF SomeFetch
  <2> QED
    BY <1>1, <1>7, <2>2 DEF Choose, OnDisk, BulkShape
<1>8. AnsweredVersion \in Builds
  BY <1>2 DEF AnsweredVersion
<1>9. CASE Request
  <2>1. fetch' \in SomeFetch
    BY <1>1, <1>8, <1>9 DEF Request, SomeFetch
  <2>2. PartOf(AnsweredVersion) \in SomeFile
    BY <1>8, BulkNumbers DEF PartOf
  <2>3. disk' \in [Builds -> [Names -> SomeFile]] /\ archives' \in [Builds -> SomeFile]
    BY <1>1, <1>9, <2>2, SaveIsTyped DEF Request
  <2> QED
    BY <1>1, <1>9, <2>1, <2>3 DEF Request, BulkShape
<1>10. CASE RequestFails
  <2>1. fetch' \in SomeFetch
    <3> DEFINE again == fetch.attempt + 1
    <3>1. again \in Nat /\ (fetch' = NoFetch \/
            fetch' = [fetch EXCEPT !.at = "request", !.attempt = again])
      BY <1>1, <1>10 DEF RequestFails, SomeFetch
    <3> HIDE DEF again
    <3>2. CASE fetch' = [fetch EXCEPT !.at = "request", !.attempt = again]
      BY <1>1, <3>1, <3>2 DEF SomeFetch
    <3> QED
      BY <1>3, <3>1, <3>2
  <2>2. disk' \in [Builds -> [Names -> SomeFile]] /\ archives' \in [Builds -> SomeFile]
    BY <1>1, <1>2, <1>10, SaveIsTyped DEF RequestFails
  <2>3. troubles' \in [outages : Nat, deaths : Nat, noRooms : Nat]
    BY <1>1, <1>10 DEF RequestFails
  <2> QED
    BY <1>1, <1>10, <2>1, <2>2, <2>3 DEF RequestFails, BulkShape
<1>11. CASE BodyEnds
  <2>1. fetch' \in SomeFetch
    <3>1. CASE bulk.gets # "archive"
      BY <1>11, <3>1, AfterFileIsTyped DEF BodyEnds
    <3>2. CASE bulk.gets = "archive"
      <4>1. fetch.got \in DOMAIN Versions
        BY <1>1, <1>11, BulkNumbers DEF BodyEnds, FetchInv
      <4>2. Versions[fetch.got] \subseteq Names
        BY <4>1, BulkNumbers
      <4>3. PICK at \in {"check", "choose"} :
              fetch' = [fetch EXCEPT !.at = at, !.left = Versions[fetch.got]]
        BY <1>11, <3>2 DEF BodyEnds
      <4> QED
        BY <1>1, <4>2, <4>3 DEF SomeFetch
    <3> QED
      BY <3>1, <3>2
  <2>2. disk' \in [Builds -> [Names -> SomeFile]] /\ archives' \in [Builds -> SomeFile]
    BY <1>1, <1>2, <1>11, SaveIsTyped DEF BodyEnds
  <2> QED
    BY <1>1, <1>11, <2>1, <2>2 DEF BodyEnds, BulkShape
<1>12. CASE CheckDigest
  <2>1. fetch' \in SomeFetch
    BY <1>1, <1>3, <1>12 DEF CheckDigest, SomeFetch
  <2>2. archives' \in [Builds -> SomeFile]
    BY <1>1, <1>2, <1>12 DEF CheckDigest
  <2> QED
    BY <1>1, <1>12, <2>1, <2>2 DEF CheckDigest, BulkShape
<1>13. CASE ReadMetaAgain
  <2>1. fetch' \in SomeFetch
    BY <1>1, <1>3, <1>13 DEF ReadMetaAgain, SomeFetch
  <2> QED
    BY <1>1, <1>13, <2>1 DEF ReadMetaAgain, OnDisk, BulkShape
<1>14. CASE OpenMember
  <2>1. fetch.name \in Names
    BY <1>2, <1>14 DEF OpenMember, FetchInv
  <2>2. fetch' \in SomeFetch
    BY <1>1, <1>14 DEF OpenMember, SomeFetch
  <2>3. disk' \in [Builds -> [Names -> SomeFile]]
    BY <1>1, <1>2, <1>14, <2>1, FileIsWritten DEF OpenMember
  <2> QED
    BY <1>1, <1>14, <2>2, <2>3 DEF OpenMember, BulkShape
<1>15. CASE UnpackMember
  <2>1. fetch.name \in Names
    BY <1>2, <1>15 DEF UnpackMember, FetchInv
  <2>2. fetch' \in SomeFetch
    BY <1>15, AfterFileIsTyped DEF UnpackMember
  <2>3. disk' \in [Builds -> [Names -> SomeFile]]
    BY <1>1, <1>2, <1>15, <2>1, FileIsWritten DEF UnpackMember
  <2> QED
    BY <1>1, <1>15, <2>2, <2>3 DEF UnpackMember, BulkShape
<1>16. CASE UnlinkArchive
  <2>1. fetch' \in SomeFetch
    BY <1>1, <1>16 DEF UnlinkArchive, SomeFetch
  <2> QED
    BY <1>1, <1>2, <1>16, <2>1 DEF UnlinkArchive, BulkShape
<1>17. CASE Mark
  <2>1. fetch' \in SomeFetch
    BY <1>1, <1>17 DEF Mark, SomeFetch
  <2>2. fetch.dir \in DOMAIN Versions
    BY <1>1, <1>17, BulkNumbers, SitePolicies DEF Mark, FetchInv
  <2> QED
    BY <1>1, <1>17, <2>1, <2>2 DEF Mark, BulkShape
<1>18. CASE FinishFetch
  BY <1>1, <1>3, <1>18 DEF FinishFetch, OnDisk, BulkShape
<1>19. CASE NoRoom
  <2>1. disk' \in [Builds -> [Names -> SomeFile]] /\ archives' \in [Builds -> SomeFile]
    <3>1. CASE fetch.at = "body"
      BY <1>1, <1>2, <1>19, <3>1, SaveIsTyped DEF NoRoom
    <3>2. CASE fetch.at # "body"
      <4>1. fetch.at = "unpack" /\ fetch.name \in Names
        BY <1>2, <1>19, <3>2 DEF NoRoom, FetchInv
      <4>2. disk' = disk \/ disk' = [disk EXCEPT ![fetch.dir][fetch.name] = NoFile]
        BY <1>19, <3>2 DEF NoRoom
      <4>3. archives' = archives
        BY <1>19, <3>2 DEF NoRoom
      <4> QED
        BY <1>1, <1>2, <4>1, <4>2, <4>3, FileIsWritten
    <3> QED
      BY <3>1, <3>2
  <2>2. troubles' \in [outages : Nat, deaths : Nat, noRooms : Nat]
    BY <1>1, <1>19 DEF NoRoom
  <2> QED
    BY <1>1, <1>3, <1>19, <2>1, <2>2 DEF NoRoom, BulkShape
<1>20. CASE FetchDies
  <2>1. disk' \in [Builds -> [Names -> SomeFile]] /\ archives' \in [Builds -> SomeFile]
    BY <1>1, <1>2, <1>20, SaveIsTyped DEF FetchDies
  <2>2. troubles' \in [outages : Nat, deaths : Nat, noRooms : Nat]
    BY <1>1, <1>20 DEF FetchDies
  <2> QED
    BY <1>1, <1>3, <1>20, <2>1, <2>2 DEF FetchDies, BulkShape
<1>21. CASE UNCHANGED bulkVars
  BY <1>21 DEF bulkVars, BulkShape
<1> QED
  BY <1>4, <1>5, <1>6, <1>7, <1>9, <1>10, <1>11, <1>12, <1>13, <1>14, <1>15, <1>16,
     <1>17, <1>18, <1>19, <1>20, <1>21 DEF BulkNext

LEMMA NoFetchIsFine ==
    ASSUME fetch' = NoFetch
    PROVE  FetchInv'
BY DEF FetchInv, NoFetch, Unpacking

LEMMA FetchSteps ==
    ASSUME BulkShape, FetchInv, [BulkNext]_bulkVars
    PROVE  FetchInv'
<1>1. /\ bulk \in BulkSites /\ version \in 1..LastVersion /\ LastVersion \in Nat
      /\ fetch \in SomeFetch
  BY BulkNumbers DEF BulkShape
<1>2. /\ bulk.marked => bulk.dated /\ Archived
      /\ bulk.dated => Archived
      /\ bulk.inMemory => ~Archived
      /\ bulk.gets \in {"one", "several", "archive"}
      /\ bulk.dated \in BOOLEAN /\ bulk.marked \in BOOLEAN
  BY <1>1, SitePolicies
<1>3. CASE Publish
  <2>1. version' = version + 1 /\ UNCHANGED <<bulk, marks, fetch, landed>>
    BY <1>3 DEF Publish, OnDisk
  <2>2. \A v \in fetch.since..version : v \in fetch.since..version'
    BY <1>1, <2>1, BulkNumbers DEF SomeFetch
  <2>3. \A v \in 1..version : v \in 1..version'
    BY <1>1, <2>1
  <2>4. (Archived' <=> Archived) /\ (Unpacking' <=> Unpacking) /\ Fixed' = Fixed
    BY <2>1 DEF Unpacking, Archived, Fixed
  <2> QED
    BY <2>1, <2>2, <2>3, <2>4 DEF FetchInv
<1>4. CASE StartFetch
  <2>1. /\ fetch'.dir = (IF bulk.dated THEN version ELSE 0) /\ fetch'.since = version
        /\ fetch'.left = Fixed
        /\ fetch'.at = (IF bulk.marked /\ version \in marks THEN "down"
                        ELSE IF bulk.marked THEN "digest"
                        ELSE IF bulk.gets = "archive" THEN "request" ELSE "choose")
        /\ fetch'.name = NoName
    BY <1>4 DEF StartFetch, NoFetch
  <2>2. UNCHANGED <<bulk, version, marks>> /\ landed' = NothingLanded
    BY <1>4 DEF StartFetch, OnDisk
  <2>3. Fixed' = Fixed
    BY <2>2 DEF Fixed
  <2> QED
    BY <1>1, <1>2, <2>1, <2>2, <2>3 DEF FetchInv, Unpacking, Archived
<1>5. CASE ReadDigest
  <2>1. /\ fetch'.at = "request" /\ fetch.at = "digest"
        /\ fetch'.dir = fetch.dir /\ fetch'.since = fetch.since /\ fetch'.left = fetch.left
        /\ fetch'.name = fetch.name /\ fetch'.got = fetch.got
    BY <1>1, <1>5 DEF ReadDigest, SomeFetch
  <2>2. UNCHANGED <<bulk, version, marks, landed>>
    BY <1>5 DEF ReadDigest, OnDisk
  <2> QED
    BY <1>1, <1>2, <2>1, <2>2 DEF FetchInv, Unpacking, Archived, Fixed
<1>6. CASE Choose
  <2>1. PICK n \in fetch.left :
          fetch' = [fetch EXCEPT !.at = IF bulk.gets = "archive" THEN "open" ELSE "request",
                                 !.name = n, !.attempt = 1]
    BY <1>6 DEF Choose
  <2>2. /\ fetch'.at = (IF bulk.gets = "archive" THEN "open" ELSE "request")
        /\ fetch.at = "choose"
        /\ fetch'.dir = fetch.dir /\ fetch'.since = fetch.since /\ fetch'.left = fetch.left
        /\ fetch'.name = n /\ fetch'.got = fetch.got
    BY <1>1, <1>6, <2>1 DEF Choose, SomeFetch
  <2>3. UNCHANGED <<bulk, version, marks, landed>>
    BY <1>6 DEF Choose, OnDisk
  <2> QED
    BY <1>1, <1>2, <2>1, <2>2, <2>3 DEF FetchInv, Unpacking, Archived, Fixed
<1>7. CASE Request
  <2>1. /\ fetch'.at = "body" /\ fetch.at = "request"
        /\ fetch'.dir = fetch.dir /\ fetch'.since = fetch.since /\ fetch'.left = fetch.left
        /\ fetch'.name = fetch.name /\ fetch'.got = AnsweredVersion
    BY <1>1, <1>7 DEF Request, SomeFetch
  <2>2. UNCHANGED <<bulk, version, marks, landed>>
    BY <1>7 DEF Request
  <2>3. AnsweredVersion \in fetch.since..version
    BY <1>1, <1>2, <2>1 DEF FetchInv, AnsweredVersion
  <2> QED
    BY <1>1, <1>2, <2>1, <2>2, <2>3 DEF FetchInv, Unpacking, Archived, Fixed
<1>8. CASE RequestFails
  <2>1. CASE bulk.inMemory \/ fetch.attempt = MaxFileAttempts
    BY <1>8, <2>1, NoFetchIsFine DEF RequestFails
  <2>2. CASE ~(bulk.inMemory \/ fetch.attempt = MaxFileAttempts)
    <3>1. /\ fetch'.at = "request" /\ fetch.at \in {"request", "body"}
          /\ fetch'.dir = fetch.dir /\ fetch'.since = fetch.since /\ fetch'.left = fetch.left
          /\ fetch'.name = fetch.name /\ fetch'.got = fetch.got
      BY <1>1, <1>8, <2>2 DEF RequestFails, SomeFetch
    <3>2. UNCHANGED <<bulk, version, marks, landed>>
      BY <1>8 DEF RequestFails
    <3> QED
      BY <1>1, <1>2, <3>1, <3>2 DEF FetchInv, Unpacking, Archived, Fixed
  <2> QED
    BY <2>1, <2>2
\* The next file, or what comes after the last.
<1>9. ASSUME AfterFile, UNCHANGED <<bulk, version, marks, landed>>,
             \/ fetch.at = "body" /\ ~Archived
             \/ fetch.at = "unpack" /\ Archived
      PROVE  FetchInv'
  <2>1. /\ fetch'.at = (IF fetch.left # {fetch.name} THEN "choose"
                        ELSE IF bulk.marked THEN "unlink" ELSE "finish")
        /\ fetch'.dir = fetch.dir /\ fetch'.since = fetch.since
        /\ fetch'.left = fetch.left \ {fetch.name} /\ fetch'.got = fetch.got
    BY <1>1, <1>9 DEF AfterFile, SomeFetch
  <2> QED
    BY <1>1, <1>2, <1>9, <2>1 DEF FetchInv, Unpacking, Archived, Fixed
<1>10. CASE BodyEnds
  <2>1. CASE ~Archived
    BY <1>9, <1>10, <2>1 DEF BodyEnds, Archived
  <2>2. CASE Archived
    <3>1. /\ fetch'.at = (IF bulk.marked THEN "check" ELSE "choose") /\ fetch.at = "body"
          /\ fetch'.dir = fetch.dir /\ fetch'.since = fetch.since
          /\ fetch'.left = Versions[fetch.got] /\ fetch'.got = fetch.got
      BY <1>1, <1>10, <2>2 DEF BodyEnds, SomeFetch, Archived
    <3>2. UNCHANGED <<bulk, version, marks, landed>>
      BY <1>10 DEF BodyEnds
    <3> QED
      BY <1>1, <1>2, <2>2, <3>1, <3>2 DEF FetchInv, Unpacking, Archived
  <2> QED
    BY <2>1, <2>2
<1>11. CASE CheckDigest
  <2>1. CASE fetch.digest = fetch.got
    <3>1. /\ fetch'.at = "metaAgain" /\ fetch.at = "check"
          /\ fetch'.dir = fetch.dir /\ fetch'.since = fetch.since
          /\ fetch'.left = fetch.left /\ fetch'.got = fetch.got
      BY <1>1, <1>11, <2>1 DEF CheckDigest, SomeFetch
    <3>2. UNCHANGED <<bulk, version, marks, landed>>
      BY <1>11 DEF CheckDigest
    <3> QED
      BY <1>1, <1>2, <3>1, <3>2 DEF FetchInv, Unpacking, Archived, Fixed
  <2>2. CASE fetch.digest # fetch.got
    BY <1>11, <2>2, NoFetchIsFine DEF CheckDigest
  <2> QED
    BY <2>1, <2>2
<1>12. CASE ReadMetaAgain
  <2>1. CASE Rebuilt
    BY <1>12, <2>1, NoFetchIsFine DEF ReadMetaAgain
  <2>2. CASE ~Rebuilt
    <3>1. /\ fetch'.at = "choose" /\ fetch.at = "metaAgain"
          /\ fetch'.dir = fetch.dir /\ fetch'.since = fetch.since
          /\ fetch'.left = fetch.left /\ fetch'.got = fetch.got
      BY <1>1, <1>12, <2>2 DEF ReadMetaAgain, SomeFetch
    <3>2. UNCHANGED <<bulk, version, marks, landed>>
      BY <1>12 DEF ReadMetaAgain, OnDisk
    <3>3. fetch.got = fetch.dir
      BY <1>1, <1>2, <2>2, <3>1 DEF FetchInv, Rebuilt
    <3> QED
      BY <1>1, <1>2, <3>1, <3>2, <3>3 DEF FetchInv, Unpacking, Archived, Fixed
  <2> QED
    BY <2>1, <2>2
<1>13. CASE OpenMember
  <2>1. /\ fetch'.at = "unpack" /\ fetch.at = "open"
        /\ fetch'.dir = fetch.dir /\ fetch'.since = fetch.since /\ fetch'.left = fetch.left
        /\ fetch'.name = fetch.name /\ fetch'.got = fetch.got
    BY <1>1, <1>13 DEF OpenMember, SomeFetch
  <2>2. UNCHANGED <<bulk, version, marks, landed>>
    BY <1>13 DEF OpenMember
  <2> QED
    BY <1>1, <1>2, <2>1, <2>2 DEF FetchInv, Unpacking, Archived, Fixed
<1>14. CASE UnpackMember
  BY <1>9, <1>14 DEF UnpackMember, FetchInv
<1>15. CASE UnlinkArchive
  <2>1. /\ fetch'.at = "mark" /\ fetch.at = "unlink"
        /\ fetch'.dir = fetch.dir /\ fetch'.since = fetch.since /\ fetch'.left = fetch.left
        /\ fetch'.got = fetch.got
    BY <1>1, <1>15 DEF UnlinkArchive, SomeFetch
  <2>2. UNCHANGED <<bulk, version, marks, landed>>
    BY <1>15 DEF UnlinkArchive
  <2> QED
    BY <1>1, <1>2, <2>1, <2>2 DEF FetchInv, Unpacking, Archived, Fixed
<1>16. CASE Mark
  <2>1. /\ fetch'.at = "finish" /\ fetch.at = "mark"
        /\ fetch'.dir = fetch.dir /\ fetch'.since = fetch.since /\ fetch'.left = fetch.left
        /\ fetch'.got = fetch.got
    BY <1>1, <1>16 DEF Mark, SomeFetch
  <2>2. UNCHANGED <<bulk, version, landed>>
    BY <1>16 DEF Mark
  <2> QED
    BY <1>1, <1>2, <2>1, <2>2 DEF FetchInv, Unpacking, Archived, Fixed
<1>17. CASE FinishFetch
  BY <1>17, NoFetchIsFine DEF FinishFetch
<1>18. CASE NoRoom
  BY <1>18, NoFetchIsFine DEF NoRoom
<1>19. CASE FetchDies
  BY <1>19, NoFetchIsFine DEF FetchDies
<1>20. CASE UNCHANGED bulkVars
  <2>1. UNCHANGED <<fetch, bulk, version, marks, landed>>
    BY <1>20 DEF bulkVars
  <2>2. (Archived' <=> Archived) /\ (Unpacking' <=> Unpacking) /\ Fixed' = Fixed
    BY <2>1 DEF Unpacking, Archived, Fixed
  <2> QED
    BY <2>1, <2>2 DEF FetchInv
<1> QED
  BY <1>3, <1>4, <1>5, <1>6, <1>7, <1>8, <1>10, <1>11, <1>12, <1>13, <1>14, <1>15, <1>16,
     <1>17, <1>18, <1>19, <1>20 DEF BulkNext

\* Only the file in hand changes, and that while it is still to be done.
LEMMA DiskChanges ==
    ASSUME BulkShape, FetchInv, [BulkNext]_bulkVars
    PROVE  \/ disk' = disk
           \/ /\ fetch.at \in {"request", "body", "open", "unpack"}
              /\ fetch.at \in {"open", "unpack"} <=> Archived
              /\ fetch.dir \in Builds /\ fetch.name \in fetch.left /\ fetch.name \in Names
              /\ \A d \in Builds, n \in Names :
                   d # fetch.dir \/ n # fetch.name => disk'[d][n] = disk[d][n]
<1>1. /\ disk \in [Builds -> [Names -> SomeFile]]
      /\ fetch.dir \in Builds /\ fetch.left \subseteq Names
  BY DEF BulkShape, SomeFetch
<1> DEFINE Wrote(f) == disk' = [disk EXCEPT ![fetch.dir][fetch.name] = f]
           Elsewhere == \A d \in Builds, n \in Names :
                          d # fetch.dir \/ n # fetch.name => disk'[d][n] = disk[d][n]
<1>2. ASSUME NEW f, Wrote(f) PROVE Elsewhere
  BY <1>1, <1>2
\* A body is streamed to the file, or to the archive.
<1>3. ASSUME NEW f, Save(f), fetch.at \in {"request", "body"}
      PROVE  disk' = disk \/ (~Archived /\ fetch.name \in fetch.left /\ Elsewhere)
  <2>1. CASE Archived
    BY <1>3, <2>1 DEF Archived, Save
  <2>2. CASE ~Archived
    BY <1>2, <1>3, <2>2 DEF Archived, Save, FetchInv
  <2> QED
    BY <2>1, <2>2
\* A member is unpacked.
<1>4. ASSUME NEW f, Wrote(f), fetch.at \in {"open", "unpack"}
      PROVE  Archived /\ fetch.name \in fetch.left /\ Elsewhere
  BY <1>2, <1>4 DEF FetchInv
<1> DEFINE Goal == disk' = disk \/
              /\ fetch.at \in {"request", "body", "open", "unpack"}
              /\ fetch.at \in {"open", "unpack"} <=> Archived
              /\ fetch.name \in fetch.left /\ Elsewhere
<1> SUFFICES Goal
  BY <1>1
<1> HIDE DEF Wrote, Elsewhere
<1>5. CASE Request
  BY <1>3, <1>5 DEF Request
<1>6. CASE RequestFails
  BY <1>3, <1>6 DEF RequestFails
<1>7. CASE BodyEnds
  BY <1>3, <1>7 DEF BodyEnds
<1>8. CASE OpenMember
  BY <1>4, <1>8 DEF OpenMember, Wrote
<1>9. CASE UnpackMember
  BY <1>4, <1>9 DEF UnpackMember, Wrote
<1>10. CASE NoRoom
  <2>1. CASE fetch.at = "body"
    BY <1>3, <1>10, <2>1 DEF NoRoom
  <2>2. CASE fetch.at # "body"
    <3>1. fetch.at = "unpack" /\ (disk' = disk \/ Wrote(NoFile))
      BY <1>10, <2>2 DEF NoRoom, Wrote
    <3> QED
      BY <1>4, <3>1
  <2> QED
    BY <2>1, <2>2
<1>11. CASE FetchDies
  BY <1>3, <1>11 DEF FetchDies
<1>12. CASE \/ Publish \/ StartFetch \/ ReadDigest \/ Choose \/ CheckDigest
            \/ ReadMetaAgain \/ UnlinkArchive \/ Mark \/ FinishFetch
            \/ UNCHANGED bulkVars
  BY <1>12 DEF Publish, StartFetch, ReadDigest, Choose, CheckDigest, ReadMetaAgain,
     UnlinkArchive, Mark, FinishFetch, OnDisk, bulkVars
<1> QED
  BY <1>5, <1>6, <1>7, <1>8, <1>9, <1>10, <1>11, <1>12 DEF BulkNext

\* What a finished session left is touched by none.
LEMMA LandedSteps ==
    ASSUME BulkShape, FetchInv, DoneInv, LandedIsWhole, [BulkNext]_bulkVars
    PROVE  LandedIsWhole'
<1>1. fetch \in SomeFetch /\ bulk \in BulkSites
  BY DEF BulkShape
<1>2. CASE landed' = NothingLanded
  BY <1>2 DEF LandedIsWhole, NothingLanded
<1>3. CASE FinishFetch
  <2>1. /\ fetch.at = "finish" /\ disk' = disk /\ bulk' = bulk
        /\ landed'.dir = fetch.dir /\ landed'.since = fetch.since /\ landed'.upTo = version
        /\ landed'.files = IF Archived THEN Versions[fetch.got] ELSE Fixed
    BY <1>3 DEF FinishFetch, OnDisk, Archived
  <2>2. fetch.left = {}
    BY <2>1 DEF FetchInv
  <2>3. CASE Archived
    <3>1. /\ fetch.got \in fetch.since..version
          /\ \A n \in Versions[fetch.got] : disk[fetch.dir][n] = fetch.got
      BY <2>1, <2>2, <2>3 DEF FetchInv, DoneInv, Unpacking
    <3> QED
      BY <2>1, <2>3, <3>1 DEF LandedIsWhole, WholeOf
  <2>4. CASE ~Archived
    <3>1. \A n \in Fixed : \E v \in fetch.since..version : disk[fetch.dir][n] = v
      BY <2>1, <2>2, <2>4 DEF DoneInv
    <3> QED
      BY <2>1, <2>4, <3>1 DEF LandedIsWhole, WholeOf, Archived
  <2> QED
    BY <2>3, <2>4
<1>4. CASE ~FinishFetch /\ landed' # NothingLanded
  <2>1. landed' = landed /\ bulk' = bulk
    BY <1>4 DEF BulkNext, Publish, StartFetch, ReadDigest, Choose, Request, RequestFails,
       BodyEnds, CheckDigest, ReadMetaAgain, OpenMember, UnpackMember, UnlinkArchive, Mark,
       NoRoom, FetchDies, OnDisk, bulkVars
  <2>2. fetch.at = "down"
    BY <1>4, <2>1 DEF FetchInv
  <2>3. disk' = disk
    BY <2>2, DiskChanges
  <2> QED
    BY <2>1, <2>3 DEF LandedIsWhole
<1> QED
  BY <1>2, <1>3, <1>4

\* One more file is done, and the others stay done.
LEMMA DoneSteps ==
    ASSUME BulkShape, FetchInv, DoneInv, [BulkNext]_bulkVars
    PROVE  DoneInv'
<1>1. /\ fetch \in SomeFetch /\ bulk \in BulkSites /\ version \in Int
      /\ disk \in [Builds -> [Names -> SomeFile]]
      /\ fetch.dir \in Builds /\ fetch.since \in Int /\ fetch.got \in Int
  BY BulkNumbers DEF BulkShape, SomeFetch
<1>2. Fixed \subseteq Names /\ \A v \in DOMAIN Versions : Versions[v] \subseteq Names
  BY <1>1, BulkNumbers, FixedAreNames
\* A session that keeps to its files and its list.
<1>3. ASSUME bulk' = bulk, version' \in Int, version' >= version,
             fetch.at # "down", fetch'.dir = fetch.dir, fetch'.since = fetch.since,
             fetch'.left = fetch.left, fetch'.got = fetch.got \/ ~Unpacking',
             Unpacking' => Unpacking
      PROVE  DoneInv'
  <2>1. Archived' = Archived /\ Fixed' = Fixed
    BY <1>3 DEF Archived, Fixed
  <2>2. \A v \in fetch.since..version : v \in fetch.since..version'
    BY <1>1, <1>3
  <2>3. ASSUME ~Archived, NEW n \in Fixed \ fetch.left
        PROVE  \E v \in fetch.since..version' : disk'[fetch.dir][n] = v
    <3>1. \E v \in fetch.since..version : disk[fetch.dir][n] = v
      BY <1>3, <2>3 DEF DoneInv
    <3>2. disk'[fetch.dir][n] = disk[fetch.dir][n]
      BY <1>1, <1>2, <2>3, DiskChanges
    <3> QED
      BY <2>2, <3>1, <3>2
  <2>4. ASSUME Archived, Unpacking', NEW n \in Versions[fetch.got] \ fetch.left
        PROVE  disk'[fetch.dir][n] = fetch.got
    <3>1. disk[fetch.dir][n] = fetch.got
      BY <1>3, <2>4 DEF DoneInv
    <3>2. fetch.got \in DOMAIN Versions
      BY <1>3, <2>4, BulkNumbers DEF FetchInv, BulkShape
    <3>3. disk'[fetch.dir][n] = disk[fetch.dir][n]
      BY <1>1, <1>2, <2>4, <3>2, DiskChanges
    <3> QED
      BY <3>1, <3>3
  <2> QED
    BY <1>3, <2>1, <2>3, <2>4 DEF DoneInv
\* The file in hand is written whole.
<1>4. ASSUME AfterFile, UNCHANGED <<bulk, version>>, fetch.name \in fetch.left,
             disk' = [disk EXCEPT ![fetch.dir][fetch.name] = fetch.got],
             fetch.got \in fetch.since..version, fetch.at \in {"body", "unpack"},
             Archived <=> fetch.at = "unpack"
      PROVE  DoneInv'
  <2>1. /\ fetch'.dir = fetch.dir /\ fetch'.since = fetch.since /\ fetch'.got = fetch.got
        /\ fetch'.left = fetch.left \ {fetch.name}
    BY <1>1, <1>4 DEF AfterFile, SomeFetch
  <2>2. Archived' = Archived /\ Fixed' = Fixed
    BY <1>4 DEF Archived, Fixed
  <2>3. /\ fetch.name \in Names /\ disk'[fetch.dir][fetch.name] = fetch.got
        /\ \A n \in Names : n # fetch.name => disk'[fetch.dir][n] = disk[fetch.dir][n]
    BY <1>1, <1>4 DEF SomeFetch
  <2>4. CASE Archived
    <3>1. \A n \in Versions[fetch.got] \ fetch.left : disk[fetch.dir][n] = fetch.got
      BY <1>4, <2>4 DEF DoneInv, Unpacking
    <3>2. Versions[fetch.got] \subseteq Names
      BY <1>2, <1>4, <2>4, BulkNumbers DEF FetchInv, BulkShape
    <3> QED
      BY <2>1, <2>2, <2>3, <2>4, <3>1, <3>2 DEF DoneInv
  <2>5. CASE ~Archived
    <3>1. \A n \in Fixed \ fetch.left : \E v \in fetch.since..version : disk[fetch.dir][n] = v
      BY <1>4, <2>5 DEF DoneInv
    <3> QED
      BY <1>2, <1>4, <2>1, <2>2, <2>3, <2>5, <3>1 DEF DoneInv
  <2> QED
    BY <2>4, <2>5
\* The session ends.
<1>5. ASSUME fetch' = NoFetch PROVE DoneInv'
  BY <1>5 DEF DoneInv, NoFetch, Unpacking
<1>6. CASE Publish
  <2>1. CASE fetch.at = "down"
    BY <1>6, <2>1 DEF Publish, DoneInv, Unpacking
  <2>2. CASE fetch.at # "down"
    BY <1>1, <1>3, <1>6, <2>2 DEF Publish, Unpacking
  <2> QED
    BY <2>1, <2>2
<1>7. CASE StartFetch
  <2>1. fetch'.left = Fixed /\ bulk' = bulk /\ fetch'.at \in {"down", "digest", "request", "choose"}
        /\ (Archived => fetch'.at # "choose")
    BY <1>1, <1>7, SitePolicies DEF StartFetch, NoFetch, Archived
  <2>2. Fixed' = Fixed /\ Archived' = Archived
    BY <2>1 DEF Fixed, Archived
  <2> QED
    BY <2>1, <2>2 DEF DoneInv, Unpacking
<1>8. CASE ReadDigest
  BY <1>1, <1>3, <1>8 DEF ReadDigest, Unpacking, SomeFetch
<1>9. CASE Choose
  <2>1. PICK n \in fetch.left :
          fetch' = [fetch EXCEPT !.at = IF bulk.gets = "archive" THEN "open" ELSE "request",
                                 !.name = n, !.attempt = 1]
    BY <1>9 DEF Choose
  <2>2. fetch'.dir = fetch.dir /\ fetch'.since = fetch.since /\ fetch'.left = fetch.left
        /\ fetch'.got = fetch.got
    BY <1>1, <2>1 DEF SomeFetch
  <2> QED
    BY <1>1, <1>3, <1>9, <2>2 DEF Choose, Unpacking
<1>10. CASE Request
  <2>1. /\ fetch'.at = "body" /\ fetch'.dir = fetch.dir /\ fetch'.since = fetch.since
        /\ fetch'.left = fetch.left
    BY <1>1, <1>10 DEF Request, SomeFetch
  <2> QED
    BY <1>1, <1>3, <1>10, <2>1 DEF Request, Unpacking
<1>11. CASE RequestFails
  <2>1. CASE fetch' = NoFetch
    BY <1>5, <2>1
  <2>2. CASE fetch' # NoFetch
    <3>1. /\ fetch'.at = "request" /\ fetch'.dir = fetch.dir /\ fetch'.since = fetch.since
          /\ fetch'.left = fetch.left
      BY <1>1, <1>11, <2>2 DEF RequestFails, SomeFetch
    <3> QED
      BY <1>1, <1>3, <1>11, <3>1 DEF RequestFails, Unpacking
  <2> QED
    BY <2>1, <2>2
<1>12. CASE BodyEnds
  <2>1. CASE ~Archived
    <3>1. /\ fetch.at = "body" /\ AfterFile /\ UNCHANGED <<bulk, version>>
          /\ disk' = [disk EXCEPT ![fetch.dir][fetch.name] = fetch.got]
      BY <1>12, <2>1 DEF BodyEnds, Archived, Save, WholeOf
    <3>2. fetch.name \in fetch.left /\ fetch.got \in fetch.since..version
      BY <2>1, <3>1 DEF FetchInv
    <3> QED
      BY <1>4, <2>1, <3>1, <3>2
  <2>2. CASE Archived
    <3>1. fetch'.left = Versions[fetch'.got] /\ bulk' = bulk
      BY <1>1, <1>12, <2>2 DEF BodyEnds, Archived, SomeFetch
    <3> QED
      BY <2>2, <3>1 DEF DoneInv, Archived
  <2> QED
    BY <2>1, <2>2
<1>13. CASE CheckDigest
  <2>1. CASE fetch' = NoFetch
    BY <1>5, <2>1
  <2>2. CASE fetch' # NoFetch
    BY <1>1, <1>3, <1>13, <2>2 DEF CheckDigest, Unpacking, SomeFetch
  <2> QED
    BY <2>1, <2>2
<1>14. CASE ReadMetaAgain
  <2>1. CASE fetch' = NoFetch
    BY <1>5, <2>1
  <2>2. CASE fetch' # NoFetch
    <3>1. /\ fetch.at = "metaAgain" /\ fetch'.left = fetch.left /\ fetch'.got = fetch.got
          /\ bulk' = bulk
      BY <1>1, <1>14, <2>2 DEF ReadMetaAgain, SomeFetch
    <3>2. fetch.left = Versions[fetch.got] /\ Archived
      BY <1>1, <3>1, SitePolicies DEF FetchInv
    <3> QED
      BY <3>1, <3>2 DEF DoneInv, Archived
  <2> QED
    BY <2>1, <2>2
<1>15. CASE OpenMember
  BY <1>1, <1>3, <1>15 DEF OpenMember, Unpacking, SomeFetch
<1>16. CASE UnpackMember
  <2>1. Archived /\ fetch.name \in fetch.left /\ fetch.got \in fetch.since..version
    BY <1>16 DEF UnpackMember, FetchInv, Unpacking
  <2> QED
    BY <1>4, <1>16, <2>1 DEF UnpackMember, WholeOf
<1>17. CASE UnlinkArchive
  BY <1>1, <1>3, <1>17 DEF UnlinkArchive, Unpacking, SomeFetch
<1>18. CASE Mark
  BY <1>1, <1>3, <1>18 DEF Mark, Unpacking, SomeFetch
<1>19. CASE FinishFetch
  BY <1>5, <1>19 DEF FinishFetch
<1>20. CASE NoRoom
  BY <1>5, <1>20 DEF NoRoom
<1>21. CASE FetchDies
  BY <1>5, <1>21 DEF FetchDies
<1>22. CASE UNCHANGED bulkVars
  BY <1>22 DEF bulkVars, DoneInv, Unpacking, Archived, Fixed
<1> QED
  BY <1>6, <1>7, <1>8, <1>9, <1>10, <1>11, <1>12, <1>13, <1>14, <1>15, <1>16, <1>17,
     <1>18, <1>19, <1>20, <1>21, <1>22 DEF BulkNext

\* A marked build is not written to, and no build takes another's files.
LEMMA MarksSteps ==
    ASSUME BulkShape, FetchInv, DoneInv, MarksInv, [BulkNext]_bulkVars
    PROVE  MarksInv'
<1>1. /\ bulk' = bulk /\ fetch \in SomeFetch /\ bulk \in BulkSites
      /\ marks \subseteq DOMAIN Versions /\ DOMAIN Versions \subseteq Builds
      /\ \A v \in DOMAIN Versions : Versions[v] \subseteq Names
  BY BulkNumbers DEF BulkShape, BulkNext, Publish, StartFetch, ReadDigest, Choose, Request,
     RequestFails, BodyEnds, CheckDigest, ReadMetaAgain, OpenMember, UnpackMember,
     UnlinkArchive, Mark, FinishFetch, NoRoom, FetchDies, OnDisk, bulkVars
\* What MTGJSON's downloader writes is a file of the build it is at.
<1>2. ASSUME bulk.marked, disk' # disk
      PROVE  /\ fetch.dir \in DOMAIN Versions \ marks /\ fetch.name \in Versions[fetch.dir]
             /\ \A d \in Builds, n \in Names :
                  d # fetch.dir \/ n # fetch.name => disk'[d][n] = disk[d][n]
  <2>1. Archived
    BY <1>1, <1>2, SitePolicies
  <2>2. /\ fetch.at \in {"open", "unpack"} /\ fetch.name \in fetch.left
        /\ \A d \in Builds, n \in Names :
             d # fetch.dir \/ n # fetch.name => disk'[d][n] = disk[d][n]
    BY <1>2, <2>1, DiskChanges
  <2>3. fetch.got = fetch.dir /\ fetch.left \subseteq Versions[fetch.got]
        /\ fetch.dir \notin marks
    BY <1>2, <2>1, <2>2 DEF FetchInv, Unpacking
  <2>4. fetch.got \in fetch.since..version /\ fetch.since \in 1..version
    BY <2>1, <2>2 DEF FetchInv, Unpacking
  <2>5. fetch.dir \in DOMAIN Versions
    BY <2>3, <2>4, BulkNumbers DEF BulkShape
  <2> QED
    BY <2>2, <2>3, <2>5
<1>3. bulk.marked => \A v \in DOMAIN Versions : \A n \in Names \ Versions[v] :
                       disk'[v][n] = NoFile
  <2>1. CASE bulk.marked /\ disk' # disk
    BY <1>1, <1>2, <2>1 DEF MarksInv
  <2>2. CASE ~(bulk.marked /\ disk' # disk)
    BY <2>2 DEF MarksInv
  <2> QED
    BY <2>1, <2>2
<1>4. \A v \in marks : \A n \in Versions[v] : disk'[v][n] = v
  <2>1. CASE bulk.marked /\ disk' # disk
    BY <1>1, <1>2, <2>1 DEF MarksInv
  <2>2. CASE ~(bulk.marked /\ disk' # disk)
    BY <2>2 DEF MarksInv
  <2> QED
    BY <2>1, <2>2
\* The mark is given to a build whose last file was just unpacked.
<1>5. CASE Mark
  <2>1. fetch.at = "mark" /\ marks' = marks \cup {fetch.dir} /\ disk' = disk
    BY <1>5 DEF Mark
  <2>2. bulk.marked /\ Archived /\ fetch.left = {} /\ fetch.got = fetch.dir
    BY <1>1, <2>1, SitePolicies DEF FetchInv, Unpacking
  <2>3. \A n \in Versions[fetch.dir] : disk[fetch.dir][n] = fetch.dir
    BY <2>1, <2>2 DEF DoneInv, Unpacking
  <2> QED
    BY <1>1, <1>3, <1>4, <2>1, <2>2, <2>3 DEF MarksInv
<1>6. CASE ~Mark
  <2>1. marks' = marks
    BY <1>6 DEF BulkNext, Publish, StartFetch, ReadDigest, Choose, Request,
       RequestFails, BodyEnds, CheckDigest, ReadMetaAgain, OpenMember, UnpackMember,
       UnlinkArchive, FinishFetch, NoRoom, FetchDies, OnDisk, bulkVars
  <2> QED
    BY <1>1, <1>3, <1>4, <2>1 DEF MarksInv
<1> QED
  BY <1>5, <1>6

-----------------------------------------------------------------------------

\* The faults that may leave a part behind.
PartFaults == troubles.deaths + (IF bulk.marked THEN troubles.noRooms ELSE 0)

\* No part more, and no fault less.
LEMMA NoNewPart ==
    ASSUME PartsInv, HalfWritten' \subseteq HalfWritten,
           PartFaults \in Nat, PartFaults' \in Nat, PartFaults' >= PartFaults
    PROVE  PartsInv'
<1>1. IsFiniteSet(HalfWritten) /\ Cardinality(HalfWritten) <= PartFaults
  BY DEF PartsInv, PartsAreOfFaults, PartFaults
<1>2. /\ IsFiniteSet(HalfWritten') /\ Cardinality(HalfWritten') <= Cardinality(HalfWritten)
      /\ Cardinality(HalfWritten') \in Nat /\ Cardinality(HalfWritten) \in Nat
  BY <1>1, Fewer
<1>3. Cardinality(HalfWritten') <= PartFaults'
  BY <1>1, <1>2
<1> QED
  BY <1>2, <1>3 DEF PartsInv, PartsAreOfFaults, PartFaults

\* One part more, and a fault for it.
LEMMA OneNewPart ==
    ASSUME PartsInv, NEW p, HalfWritten' \subseteq HalfWritten \cup {p},
           PartFaults \in Nat, PartFaults' = PartFaults + 1
    PROVE  PartsInv'
<1>1. IsFiniteSet(HalfWritten) /\ Cardinality(HalfWritten) <= PartFaults
  BY DEF PartsInv, PartsAreOfFaults, PartFaults
<1>2. /\ IsFiniteSet(HalfWritten') /\ Cardinality(HalfWritten') <= Cardinality(HalfWritten) + 1
      /\ Cardinality(HalfWritten') \in Nat /\ Cardinality(HalfWritten) \in Nat
  BY <1>1, OneMore
<1>3. Cardinality(HalfWritten') <= PartFaults'
  BY <1>1, <1>2
<1> QED
  BY <1>2, <1>3 DEF PartsInv, PartsAreOfFaults, PartFaults

LEMMA PartsSteps ==
    ASSUME BulkShape, BulkShape', FetchInv, PartsInv, [BulkNext]_bulkVars
    PROVE  PartsInv'
<1> DEFINE hand == <<fetch.dir, fetch.name>>
<1>1. /\ fetch \in SomeFetch /\ bulk \in BulkSites /\ bulk.marked \in BOOLEAN
      /\ disk \in [Builds -> [Names -> SomeFile]] /\ disk' \in [Builds -> [Names -> SomeFile]]
      /\ \A f \in SomeFile : f \in Int
      /\ fetch.got \in Int /\ fetch.got >= 0 /\ fetch.dir \in Builds
      /\ NoName \notin Names /\ (bulk.inMemory => ~Archived)
  <2>1. /\ fetch \in SomeFetch /\ bulk \in BulkSites
        /\ disk \in [Builds -> [Names -> SomeFile]] /\ disk' \in [Builds -> [Names -> SomeFile]]
    BY DEF BulkShape
  <2>2. bulk.marked \in BOOLEAN /\ (bulk.inMemory => ~Archived)
    BY <2>1, SitePolicies
  <2>3. fetch.got \in Builds /\ fetch.dir \in Builds
    BY <2>1 DEF SomeFetch
  <2>4. fetch.got \in Int /\ fetch.got >= 0 /\ NoName \notin Names
    BY <2>3, BulkNumbers
  <2>5. \A f \in SomeFile : f \in Int
    BY BulkNumbers DEF SomeFile
  <2> QED
    BY <2>1, <2>2, <2>3, <2>4, <2>5
<1>2. /\ bulk' = bulk
      /\ troubles.deaths \in Nat /\ troubles.noRooms \in Nat
      /\ troubles'.deaths \in Nat /\ troubles'.noRooms \in Nat
      /\ troubles'.deaths >= troubles.deaths /\ troubles'.noRooms >= troubles.noRooms
  <2>1. troubles \in [outages : Nat, deaths : Nat, noRooms : Nat] /\ troubles.outages \in Nat
        /\ troubles.deaths \in Nat /\ troubles.noRooms \in Nat
        /\ troubles'.deaths \in Nat /\ troubles'.noRooms \in Nat
    BY DEF BulkShape
  <2>2. bulk' = bulk
    BY DEF BulkNext, Publish, StartFetch, ReadDigest, Choose, Request, RequestFails,
       BodyEnds, CheckDigest, ReadMetaAgain, OpenMember, UnpackMember, UnlinkArchive, Mark,
       FinishFetch, NoRoom, FetchDies, OnDisk, bulkVars
  <2>3. CASE RequestFails
    BY <2>1, <2>2, <2>3 DEF RequestFails
  <2>4. CASE NoRoom
    BY <2>1, <2>2, <2>4 DEF NoRoom
  <2>5. CASE FetchDies
    BY <2>1, <2>2, <2>5 DEF FetchDies
  <2>6. CASE ~RequestFails /\ ~NoRoom /\ ~FetchDies
    <3>1. troubles' = troubles
      BY <2>6 DEF BulkNext, Publish, StartFetch, ReadDigest, Choose, Request,
         BodyEnds, CheckDigest, ReadMetaAgain, OpenMember, UnpackMember, UnlinkArchive, Mark,
         FinishFetch, OnDisk, bulkVars
    <3> QED
      BY <2>1, <2>2, <3>1
  <2> QED
    BY <2>3, <2>4, <2>5, <2>6
<1>3. PartFaults \in Nat /\ PartFaults' \in Nat /\ PartFaults' >= PartFaults
  BY <1>1, <1>2 DEF PartFaults
\* Only the file in hand can become a part.
<1>4. HalfWritten' \subseteq HalfWritten \cup {hand}
  <2> SUFFICES ASSUME NEW p \in HalfWritten', p # hand PROVE p \in HalfWritten
    OBVIOUS
  <2>1. /\ p \in Builds \X Names /\ p = <<p[1], p[2]>> /\ p[1] \in Builds /\ p[2] \in Names
        /\ disk'[p[1]][p[2]] < NoFile
    BY DEF HalfWritten
  <2>2. p[1] # fetch.dir \/ p[2] # fetch.name
    BY <2>1
  <2>3. disk'[p[1]][p[2]] = disk[p[1]][p[2]]
    BY <2>1, <2>2, DiskChanges
  <2> QED
    BY <2>1, <2>3 DEF HalfWritten, Writing
<1>5. ASSUME hand \in HalfWritten' => hand \in HalfWritten PROVE PartsInv'
  <2>1. HalfWritten' \subseteq HalfWritten
    BY <1>4, <1>5
  <2> QED
    BY <1>3, <2>1, NoNewPart
\* The file in hand is a part of no session's, for one of these reasons.
<1>6. ASSUME fetch.name \in Names => disk'[fetch.dir][fetch.name] >= 0 PROVE PartsInv'
  <2>1. hand \notin HalfWritten'
    <3> SUFFICES ASSUME hand \in HalfWritten' PROVE FALSE
      OBVIOUS
    <3>1. hand \in Builds \X Names /\ disk'[hand[1]][hand[2]] < 0
      BY DEF HalfWritten, NoFile
    <3> QED
      BY <1>1, <1>6, <3>1
  <2> QED
    BY <1>5, <2>1
<1>7. ASSUME fetch'.at \in {"body", "unpack"}, fetch'.dir = fetch.dir, fetch'.name = fetch.name
      PROVE  PartsInv'
  <2>1. hand \notin HalfWritten'
    BY <1>7 DEF HalfWritten, Writing
  <2> QED
    BY <1>5, <2>1
<1>8. ASSUME disk' = disk, fetch.at \notin {"body", "unpack"} PROVE PartsInv'
  <2>1. hand \in HalfWritten' => hand \in HalfWritten
    BY <1>8 DEF HalfWritten, Writing
  <2> QED
    BY <1>5, <2>1
<1>9. ASSUME NEW f \in Int, f >= 0, Save(f), fetch.at \in {"request", "body"}
      PROVE  PartsInv'
  <2>1. CASE Archived
    BY <1>1, <1>6, <1>9, <2>1 DEF FetchInv
  <2>2. CASE ~Archived
    <3>1. disk' = [disk EXCEPT ![fetch.dir][fetch.name] = f]
      BY <1>9, <2>2 DEF Save, Archived
    <3>2. fetch.name \in Names => disk'[fetch.dir][fetch.name] = f
      BY <1>1, <3>1
    <3> QED
      BY <1>6, <1>9, <3>2
  <2> QED
    BY <2>1, <2>2
<1>10. CASE Publish
  <2>1. disk' = disk /\ fetch' = fetch
    BY <1>10 DEF Publish, OnDisk
  <2>2. HalfWritten' = HalfWritten
    BY <2>1 DEF HalfWritten, Writing
  <2> QED
    BY <1>5, <2>2
<1>11. CASE \/ StartFetch \/ ReadDigest \/ Choose \/ CheckDigest \/ ReadMetaAgain
            \/ UnlinkArchive \/ Mark \/ FinishFetch
  BY <1>8, <1>11 DEF StartFetch, ReadDigest, Choose, CheckDigest, ReadMetaAgain,
     UnlinkArchive, Mark, FinishFetch, OnDisk
<1>12. CASE Request
  BY <1>1, <1>7, <1>12 DEF Request, SomeFetch
<1>13. CASE RequestFails
  <2>1. CASE bulk.inMemory
    BY <1>8, <1>13, <2>1 DEF RequestFails
  <2>2. CASE ~bulk.inMemory
    BY <1>9, <1>13, <2>2 DEF RequestFails, NoFile
  <2> QED
    BY <2>1, <2>2
<1>14. CASE BodyEnds
  BY <1>1, <1>9, <1>14 DEF BodyEnds, WholeOf
<1>15. CASE OpenMember
  BY <1>1, <1>7, <1>15 DEF OpenMember, SomeFetch
<1>16. CASE UnpackMember
  <2>1. disk' = [disk EXCEPT ![fetch.dir][fetch.name] = fetch.got]
    BY <1>16 DEF UnpackMember, WholeOf
  <2>2. fetch.name \in Names => disk'[fetch.dir][fetch.name] = fetch.got
    BY <1>1, <2>1
  <2> QED
    BY <1>1, <1>6, <2>2
<1>17. CASE NoRoom
  <2>1. CASE fetch.at = "body"
    BY <1>9, <1>17, <2>1 DEF NoRoom, NoFile
  <2>2. CASE fetch.at # "body" /\ ~bulk.marked
    <3>1. disk' = [disk EXCEPT ![fetch.dir][fetch.name] = 0]
      BY <1>17, <2>2 DEF NoRoom, NoFile
    <3>2. fetch.name \in Names => disk'[fetch.dir][fetch.name] = 0
      BY <1>1, <3>1
    <3> QED
      BY <1>6, <3>2
  <2>3. CASE bulk.marked
    <3>1. PartFaults' = PartFaults + 1
      BY <1>2, <1>17, <2>3 DEF PartFaults, NoRoom, BulkShape
    <3> QED
      BY <1>3, <1>4, <3>1, OneNewPart
  <2> QED
    BY <2>1, <2>2, <2>3
<1>18. CASE FetchDies
  <2>1. troubles'.deaths = troubles.deaths + 1 /\ troubles'.noRooms = troubles.noRooms
    BY <1>18 DEF FetchDies, BulkShape
  <2>2. PartFaults' = PartFaults + 1
    <3>1. CASE bulk.marked
      BY <1>2, <2>1, <3>1 DEF PartFaults
    <3>2. CASE ~bulk.marked
      BY <1>2, <2>1, <3>2 DEF PartFaults
    <3> QED
      BY <3>1, <3>2
  <2> QED
    BY <1>3, <1>4, <2>2, OneNewPart
<1>19. CASE UNCHANGED bulkVars
  <2>1. HalfWritten' = HalfWritten
    BY <1>19 DEF HalfWritten, Writing, bulkVars
  <2> QED
    BY <1>5, <2>1
<1> QED
  BY <1>10, <1>11, <1>12, <1>13, <1>14, <1>15, <1>16, <1>17, <1>18, <1>19 DEF BulkNext

-----------------------------------------------------------------------------

LEMMA BulkSteps == BulkInv /\ [BulkNext]_bulkVars => BulkInv'
<1> SUFFICES ASSUME BulkInv, [BulkNext]_bulkVars PROVE BulkInv'
  OBVIOUS
<1>1. BulkShape'
  BY ShapeSteps DEF BulkInv
<1> QED
  BY <1>1, FetchSteps, DoneSteps, MarksSteps, LandedSteps, PartsSteps DEF BulkInv

LEMMA BulkIsExplained == BulkInv => FaultsExplainTheFiles
<1> SUFFICES ASSUME BulkInv PROVE FaultsExplainTheFiles
  OBVIOUS
<1>1. BulkTypes
  BY DEF BulkInv, BulkShape, BulkTypes, SomeFile, SomeFetch
<1>2. MarkedBuildsAreWhole
  <2>1. \A v \in marks : v \in DOMAIN Versions /\ bulk.marked
    BY DEF BulkInv, BulkShape, MarksInv
  <2>2. ASSUME NEW v \in marks, NEW n \in Names
        PROVE  disk[v][n] = IF n \in Versions[v] THEN WholeOf(v) ELSE NoFile
    BY <2>1, <2>2 DEF BulkInv, MarksInv, WholeOf
  <2> QED
    BY <2>2 DEF MarkedBuildsAreWhole
<1> QED
  BY <1>1, <1>2 DEF BulkInv, PartsInv, FaultsExplainTheFiles

\* Whatever the site publishes and whichever fault strikes, what a downloader
\* of whole files leaves is whole unless a fault of its own cut it.
THEOREM FilesAreWholeOrFaulty == BulkSpec => []FaultsExplainTheFiles
<1>1. BulkSpec => []BulkInv
  BY BulkStarts, BulkSteps, PTL DEF BulkSpec
<1> QED
  BY <1>1, BulkIsExplained, PTL

-----------------------------------------------------------------------------
(* The export of runs, page by page                                        *)

Cursors == {"none", "empty", "cursor", "part"}

SomePage == [of : Windows \cup {NoWindow}, whole : BOOLEAN]

SomeWalk ==
    [at : {"down", "window", "scan", "request", "body", "sidecar"},
     want : Windows \cup {NoWindow}, page : Nat, cursor : Cursors, attempt : Nat]

ExportTypes ==
    /\ window \in Windows \cup {NoWindow, CutWindow}
    /\ pages \in [Index -> SomePage]
    /\ sidecar \in [Index -> Cursors]
    /\ walk \in SomeWalk
    /\ cutSidecars \in Nat

\* Pages with a sidecar: they are not asked for again.
Sealed == {i \in Index : sidecar[i] # "none"}

\* The first n pages are sealed, and the last of them says whether more follow.
ChainInv(n) ==
    /\ Sealed = 0..(n - 1)
    /\ n > 0 => window \in Windows /\ n <= Pages[window]
    /\ \A i \in 0..(n - 1) : pages[i] = [of |-> window, whole |-> TRUE]
    /\ \A i \in Index : pages[i] # NoPage => i <= n
    /\ \A i \in 0..(n - 1) : sidecar[i] = "empty" =>
         i = n - 1 /\ (cutSidecars = 0 => n = Pages[window])
    /\ n > 0 /\ sidecar[n - 1] # "empty" => n < Pages[window]

\* A session at work is at the page after them, which the window has.
PageInv(n) ==
    /\ walk.at # "down" => walk.want \in Windows
    /\ walk.at \in {"scan", "request", "body", "sidecar"} => window = walk.want
    /\ walk.at \in {"request", "body", "sidecar"} =>
         /\ walk.page = n /\ n < Pages[window]
         /\ n > 0 => sidecar[n - 1] # "empty"
    /\ walk.at = "body" => pages[n] = [of |-> window, whole |-> FALSE]
    /\ walk.at = "sidecar" => pages[n] = [of |-> window, whole |-> TRUE]

ExportInv == ExportTypes /\ \E n \in Nat : ChainInv(n) /\ PageInv(n)

LEMMA PageNumbers ==
    /\ Index \subseteq Nat
    /\ \A w \in Windows : Pages[w] \in Nat /\ Pages[w] > 0
    /\ \A w \in Windows, i \in Nat : i < Pages[w] => i \in Index
    /\ NoWindow \notin Windows /\ CutWindow \notin Windows /\ NoWindow # CutWindow
<1>1. \A w \in Windows : Pages[w] \in Nat /\ Pages[w] > 0
  BY ExportAssumption
<1>2. \A w \in Windows : 0..(Pages[w] - 1) \subseteq Nat
  BY <1>1
<1>3. Index \subseteq Nat
  BY <1>2 DEF Index
<1>4. ASSUME NEW w \in Windows, NEW i \in Nat, i < Pages[w] PROVE i \in Index
  <2>1. i \in 0..(Pages[w] - 1)
    BY <1>1, <1>4
  <2> QED
    BY <2>1 DEF Index
<1> QED
  BY <1>1, <1>3, <1>4, ExportAssumption

LEMMA NothingIsTyped == NoPage \in SomePage /\ NoWalk \in SomeWalk
BY DEF NoPage, SomePage, NoWalk, SomeWalk, Cursors

LEMMA ExportStarts == ExportInit => ExportInv
<1> SUFFICES ASSUME ExportInit PROVE ExportInv
  OBVIOUS
<1>1. ExportTypes
  BY NothingIsTyped DEF ExportInit, ExportTypes, Cursors
<1>2. ChainInv(0)
  BY DEF ExportInit, ChainInv, Sealed
<1>3. PageInv(0)
  BY DEF ExportInit, PageInv, NoWalk
<1> QED
  BY <1>1, <1>2, <1>3 DEF ExportInv

\* Under the invariant a session sees exactly the sealed pages.
LEMMA ScanFindsTheSealed ==
    ASSUME ExportTypes, NEW n \in Nat, ChainInv(n)
    PROVE  /\ Scanned = 0..(n - 1) /\ Cardinality(Scanned) = n
           /\ Complete <=> n > 0 /\ sidecar[n - 1] = "empty"
<1>1. \A i \in Index : Downloaded(i) <=> i \in 0..(n - 1)
  <2> SUFFICES ASSUME NEW i \in Index PROVE Downloaded(i) <=> i \in 0..(n - 1)
    OBVIOUS
  <2>1. CASE i \in 0..(n - 1)
    <3>1. pages[i].whole = TRUE /\ NoPage.whole = FALSE
      BY <2>1 DEF ChainInv, NoPage
    <3> QED
      BY <2>1, <3>1 DEF ChainInv, Sealed, Downloaded
  <2>2. CASE i \notin 0..(n - 1)
    BY <2>2 DEF ChainInv, Sealed, Downloaded
  <2> QED
    BY <2>1, <2>2
<1>2. 0..(n - 1) \subseteq Index
  BY DEF ChainInv, Sealed
<1>3. Scanned = 0..(n - 1)
  <2>1. ASSUME NEW i \in Index, \A j \in 0..i : Downloaded(j) PROVE i \in 0..(n - 1)
    BY <1>1, <2>1, PageNumbers
  <2>2. ASSUME NEW i \in 0..(n - 1), NEW j \in 0..i PROVE Downloaded(j)
    BY <1>1, <1>2
  <2> QED
    BY <1>2, <2>1, <2>2 DEF Scanned
<1>4. Cardinality(Scanned) = n
  BY <1>3, FS_Interval
<1> QED
  BY <1>3, <1>4 DEF Complete

\* A step that changes no sealed page and no sidecar keeps the chain.
LEMMA SameChain ==
    ASSUME NEW n \in Nat, ChainInv(n), sidecar' = sidecar, cutSidecars' = cutSidecars,
           n > 0 => window' = window,
           \A i \in 0..(n - 1) : pages'[i] = pages[i],
           \A i \in Index : pages'[i] # NoPage => pages[i] # NoPage \/ i <= n
    PROVE  ChainInv(n)'
<1>1. Sealed' = Sealed
  BY DEF Sealed
<1>2. \A i \in Index : pages'[i] # NoPage => i <= n
  BY DEF ChainInv
<1>3. CASE n = 0
  BY <1>1, <1>2, <1>3 DEF ChainInv
<1>4. CASE n > 0
  BY <1>1, <1>2, <1>4 DEF ChainInv
<1> QED
  BY <1>3, <1>4

LEMMA ExportSteps == ExportInv /\ [ExportNext]_exportVars => ExportInv'
<1> SUFFICES ASSUME ExportInv, [ExportNext]_exportVars PROVE ExportInv'
  OBVIOUS
<1>1. ExportTypes
  BY DEF ExportInv
<1>2. PICK n \in Nat : ChainInv(n) /\ PageInv(n)
  BY DEF ExportInv
<1>3. 0..(n - 1) \subseteq Index
  BY <1>2 DEF ChainInv, Sealed
<1>4. walk.at \in {"request", "body", "sidecar"} =>
        /\ walk.page = n /\ n \in Index /\ n \notin 0..(n - 1) /\ sidecar[n] = "none"
        /\ walk.want \in Windows /\ window = walk.want
  <2> SUFFICES ASSUME walk.at \in {"request", "body", "sidecar"}
               PROVE  /\ walk.page = n /\ n \in Index /\ n \notin 0..(n - 1)
                      /\ sidecar[n] = "none"
                      /\ walk.want \in Windows /\ window = walk.want
    OBVIOUS
  <2>1. walk.page = n /\ n < Pages[window] /\ window = walk.want /\ walk.want \in Windows
    BY <1>2 DEF PageInv
  <2>2. n \in Index
    BY <2>1, PageNumbers
  <2> QED
    BY <1>2, <2>1, <2>2 DEF ChainInv, Sealed
\* The session's end, and what becomes of the page in hand.
<1>5. ASSUME walk' = NoWalk, sidecar' = sidecar, cutSidecars' = cutSidecars,
             window' = window, pages' = pages \/
               (walk.at \in {"request", "body"} /\ pages' = [pages EXCEPT ![walk.page] = NoPage])
      PROVE  ExportInv'
  <2>1. ExportTypes'
    <3>1. pages' \in [Index -> SomePage]
      BY <1>1, <1>4, <1>5, NothingIsTyped DEF ExportTypes
    <3> QED
      BY <1>1, <1>5, <3>1, NothingIsTyped DEF ExportTypes
  <2>2. ChainInv(n)'
    <3>1. \A i \in Index : pages'[i] # pages[i] => i = n /\ pages'[i] = NoPage
      BY <1>1, <1>4, <1>5 DEF ExportTypes
    <3> QED
      BY <1>2, <1>3, <1>5, <3>1, SameChain
  <2>3. PageInv(n)'
    BY <1>5 DEF PageInv, NoWalk
  <2> QED
    BY <2>1, <2>2, <2>3 DEF ExportInv
<1>6. CASE StartWalk
  <2>1. PICK w \in Windows : walk' = [NoWalk EXCEPT !.at = "window", !.want = w]
    BY <1>6 DEF StartWalk
  <2>2. ExportTypes'
    <3>1. walk' \in SomeWalk
      BY <2>1 DEF NoWalk, SomeWalk, Cursors
    <3> QED
      BY <1>1, <1>6, <3>1 DEF ExportTypes, StartWalk, exportDisk
  <2>3. ChainInv(n)'
    BY <1>2, <1>6, SameChain DEF StartWalk, exportDisk
  <2>4. PageInv(n)'
    BY <2>1 DEF PageInv, NoWalk
  <2> QED
    BY <2>2, <2>3, <2>4 DEF ExportInv
<1>7. CASE RecordWindow
  <2>1. walk.want \in Windows /\ walk.at = "window"
    BY <1>2, <1>7 DEF PageInv, RecordWindow
  <2>2. ExportTypes'
    <3>1. walk' \in SomeWalk
      BY <1>1, <1>7, NothingIsTyped DEF ExportTypes, RecordWindow, SomeWalk
    <3> QED
      BY <1>1, <1>7, <2>1, <3>1 DEF ExportTypes, RecordWindow
  <2>3. n > 0 => window' = window
    BY <1>2, <1>7, PageNumbers DEF ChainInv, RecordWindow
  <2>4. ChainInv(n)'
    BY <1>2, <1>7, <2>3, SameChain DEF RecordWindow
  <2>5. PageInv(n)'
    BY <1>1, <1>7, <2>1 DEF PageInv, RecordWindow, NoWalk, ExportTypes, SomeWalk
  <2> QED
    BY <2>2, <2>4, <2>5 DEF ExportInv
<1>8. CASE Resume
  <2>1. Cardinality(Scanned) = n /\ (Complete <=> n > 0 /\ sidecar[n - 1] = "empty")
    BY <1>1, <1>2, ScanFindsTheSealed
  <2>2. walk.want \in Windows /\ window = walk.want
    BY <1>2, <1>8 DEF PageInv, Resume
  <2>3. n > 0 => sidecar[n - 1] \in Cursors
    <3> SUFFICES ASSUME n > 0 PROVE sidecar[n - 1] \in Cursors
      OBVIOUS
    <3>1. n - 1 \in Index
      BY <1>3
    <3> QED
      BY <1>1, <3>1 DEF ExportTypes
  <2>4. ExportTypes'
    <3>1. (IF n = 0 THEN "none" ELSE sidecar[n - 1]) \in Cursors
      BY <2>3 DEF Cursors
    <3>2. walk' = NoWalk \/
          walk' = [walk EXCEPT !.at = "request", !.page = n, !.attempt = 1,
                     !.cursor = IF n = 0 THEN "none" ELSE sidecar[n - 1]]
      BY <1>8, <2>1 DEF Resume
    <3>3. walk' \in SomeWalk
      <4> DEFINE next == IF n = 0 THEN "none" ELSE sidecar[n - 1]
      <4>1. next \in Cursors /\ (walk' = NoWalk \/
              walk' = [walk EXCEPT !.at = "request", !.page = n, !.attempt = 1,
                         !.cursor = next])
        BY <3>1, <3>2
      <4>2. walk \in SomeWalk
        BY <1>1 DEF ExportTypes
      <4> HIDE DEF next
      <4>3. CASE walk' = [walk EXCEPT !.at = "request", !.page = n, !.attempt = 1,
                            !.cursor = next]
        BY <4>1, <4>2, <4>3 DEF SomeWalk
      <4> QED
        BY <4>1, <4>3, NothingIsTyped
    <3> QED
      BY <1>1, <1>8, <3>3 DEF ExportTypes, Resume, exportDisk
  <2>5. ChainInv(n)'
    BY <1>2, <1>8, SameChain DEF Resume, exportDisk
  <2>6. PageInv(n)'
    <3>1. CASE Complete
      BY <1>8, <3>1 DEF PageInv, Resume, NoWalk
    <3>2. CASE ~Complete
      <4>1. n < Pages[window]
        BY <1>2, <2>1, <2>2, <3>2, PageNumbers DEF ChainInv
      <4>2. walk'.at = "request" /\ walk'.page = n /\ walk'.want = walk.want
        BY <1>1, <1>8, <2>1, <3>2 DEF Resume, ExportTypes, SomeWalk
      <4> QED
        BY <1>8, <2>1, <2>2, <3>2, <4>1, <4>2 DEF PageInv, Resume, exportDisk
    <3> QED
      BY <3>1, <3>2
  <2> QED
    BY <2>4, <2>5, <2>6 DEF ExportInv
<1>9. CASE Asked
  <2>1. walk.at = "request"
    BY <1>9 DEF Asked
  <2>2. ExportTypes'
    <3>1. walk' \in SomeWalk
      BY <1>1, <1>9 DEF ExportTypes, Asked, SomeWalk
    <3>2. [of |-> walk.want, whole |-> FALSE] \in SomePage
      BY <1>4, <2>1 DEF SomePage
    <3> QED
      BY <1>1, <1>4, <1>9, <2>1, <3>1, <3>2 DEF ExportTypes, Asked
  <2>3. ChainInv(n)'
    <3>1. \A i \in Index : pages'[i] # pages[i] => i = n
      BY <1>1, <1>4, <1>9, <2>1 DEF ExportTypes, Asked
    <3> QED
      BY <1>2, <1>3, <1>4, <1>9, <2>1, <3>1, SameChain DEF Asked
  <2>4. PageInv(n)'
    <3>1. pages'[n] = [of |-> window, whole |-> FALSE]
      BY <1>1, <1>4, <1>9, <2>1 DEF ExportTypes, Asked
    <3> QED
      BY <1>1, <1>2, <1>9, <2>1, <3>1 DEF PageInv, Asked, ExportTypes, SomeWalk
  <2> QED
    BY <2>2, <2>3, <2>4 DEF ExportInv
<1>10. CASE Refused
  BY <1>5, <1>10 DEF Refused
<1>11. CASE AskAgain
  <2>1. CASE walk.attempt < MaxPageAttempts
    <3>1. walk.at \in {"request", "body"}
      BY <1>11 DEF AskAgain
    <3>2. walk' = [walk EXCEPT !.at = "request", !.attempt = @ + 1]
      BY <1>11, <2>1 DEF AskAgain
    <3>3. ExportTypes'
      <4>1. walk' \in SomeWalk
        <5> DEFINE again == walk.attempt + 1
        <5>1. again \in Nat /\ walk' = [walk EXCEPT !.at = "request", !.attempt = again]
          BY <1>1, <3>2 DEF ExportTypes, SomeWalk
        <5> HIDE DEF again
        <5> QED
          BY <1>1, <5>1 DEF ExportTypes, SomeWalk
      <4> QED
        BY <1>1, <1>4, <1>11, <3>1, <4>1, NothingIsTyped DEF ExportTypes, AskAgain
    <3>4. ChainInv(n)'
      <4>1. \A i \in Index : pages'[i] # pages[i] => i = n /\ pages'[i] = NoPage
        BY <1>1, <1>4, <1>11, <3>1 DEF ExportTypes, AskAgain
      <4> QED
        BY <1>2, <1>3, <1>11, <4>1, SameChain DEF AskAgain
    <3>5. PageInv(n)'
      BY <1>1, <1>2, <1>11, <3>1, <3>2 DEF PageInv, AskAgain, ExportTypes, SomeWalk
    <3> QED
      BY <3>3, <3>4, <3>5 DEF ExportInv
  <2>2. CASE ~(walk.attempt < MaxPageAttempts)
    BY <1>5, <1>11, <2>2 DEF AskAgain
  <2> QED
    BY <2>1, <2>2
<1>12. CASE PageArrives
  <2>1. walk.at = "body" /\ pages[n] = [of |-> window, whole |-> FALSE]
    BY <1>2, <1>12 DEF PageArrives, PageInv
  <2>2. /\ pages' \in [Index -> SomePage] /\ \A i \in Index \ {n} : pages'[i] = pages[i]
        /\ pages'[n] = [of |-> window, whole |-> TRUE]
    <3>1. pages' = [pages EXCEPT ![n].whole = TRUE] /\ n \in Index
      BY <1>4, <1>12, <2>1 DEF PageArrives
    <3>2. pages' \in [Index -> SomePage]
      BY <1>1, <3>1 DEF ExportTypes, SomePage
    <3>3. \A i \in Index \ {n} : pages'[i] = pages[i]
      BY <1>1, <3>1 DEF ExportTypes
    <3>4. pages'[n].of = window /\ pages'[n].whole = TRUE
      BY <1>1, <2>1, <3>1 DEF ExportTypes, SomePage
    <3> QED
      BY <3>1, <3>2, <3>3, <3>4 DEF SomePage
  <2>3. ExportTypes'
    <3>1. walk' \in SomeWalk
      BY <1>1, <1>12 DEF ExportTypes, PageArrives, SomeWalk
    <3> QED
      BY <1>1, <1>12, <2>2, <3>1 DEF ExportTypes, PageArrives
  <2>4. ChainInv(n)'
    <3>1. \A i \in Index : pages'[i] # pages[i] => i = n
      BY <2>2
    <3> QED
      <4>1. \A i \in 0..(n - 1) : pages'[i] = pages[i]
        BY <1>3, <3>1
      <4>2. \A i \in Index : pages'[i] # NoPage => pages[i] # NoPage \/ i <= n
        BY <3>1
      <4> QED
        BY <1>2, <1>12, <4>1, <4>2, SameChain DEF PageArrives
  <2>5. PageInv(n)'
    BY <1>1, <1>2, <1>4, <1>12, <2>1, <2>2 DEF PageInv, PageArrives, ExportTypes, SomeWalk
  <2> QED
    BY <2>3, <2>4, <2>5 DEF ExportInv
\* The page in hand is sealed: the chain is one longer.
<1>13. ASSUME walk.at = "sidecar", NEW left \in Cursors \ {"none"},
              sidecar' = [sidecar EXCEPT ![walk.page] = left],
              left = "empty" /\ cutSidecars' = 0 => n + 1 = Pages[window],
              left # "empty" => n + 1 < Pages[window],
              cutSidecars' = cutSidecars \/ cutSidecars' = cutSidecars + 1,
              UNCHANGED <<window, pages>>
       PROVE  ChainInv(n + 1)'
  <2>1. walk.page = n /\ n \in Index /\ window \in Windows /\ n < Pages[window]
        /\ pages[n] = [of |-> window, whole |-> TRUE]
        /\ (n > 0 => sidecar[n - 1] # "empty")
    BY <1>2, <1>4, <1>13 DEF PageInv
  <2>2. sidecar'[n] = left /\ \A i \in Index \ {n} : sidecar'[i] = sidecar[i]
    BY <1>1, <1>13, <2>1 DEF ExportTypes
  <2>3. 0..n = 0..(n - 1) \cup {n} /\ (n + 1) - 1 = n /\ n \notin 0..(n - 1)
    OBVIOUS
  <2>4. Sealed' = 0..n
    BY <1>2, <1>3, <2>1, <2>2, <2>3 DEF Sealed, ChainInv
  <2>5. \A i \in 0..n : pages'[i] = [of |-> window', whole |-> TRUE]
    BY <1>2, <1>13, <2>1, <2>3 DEF ChainInv
  <2>6. \A i \in 0..(n - 1) : sidecar'[i] # "empty"
    <3> SUFFICES ASSUME NEW i \in 0..(n - 1) PROVE sidecar'[i] # "empty"
      OBVIOUS
    <3>1. sidecar'[i] = sidecar[i]
      BY <1>3, <2>2, <2>3
    <3>2. sidecar[i] = "empty" => i = n - 1 /\ n > 0
      BY <1>2 DEF ChainInv
    <3> QED
      BY <2>1, <3>1, <3>2
  <2>7. \A i \in 0..n : sidecar'[i] = "empty" =>
          i = n /\ (cutSidecars' = 0 => n + 1 = Pages[window'])
    BY <1>13, <2>2, <2>3, <2>6
  <2>8. \A i \in Index : pages'[i] # NoPage => i <= n + 1
    <3> SUFFICES ASSUME NEW i \in Index, pages'[i] # NoPage PROVE i <= n + 1
      OBVIOUS
    <3>1. i \in Nat /\ i <= n
      BY <1>2, <1>13, PageNumbers DEF ChainInv
    <3> QED
      BY <3>1
  <2>9. n + 1 <= Pages[window'] /\ window' \in Windows
    BY <1>13, <2>1, PageNumbers
  <2>10. sidecar'[n] # "empty" => n + 1 < Pages[window']
    BY <1>13, <2>2
  <2> QED
    BY <2>3, <2>4, <2>5, <2>7, <2>8, <2>9, <2>10 DEF ChainInv
<1>14. CASE WriteSidecar
  <2>1. walk.at = "sidecar" /\ n < Pages[window] /\ walk.page = n /\ window = walk.want
        /\ window \in Windows /\ n \in Index
    BY <1>2, <1>4, <1>14 DEF WriteSidecar, PageInv
  <2>2. /\ NextCursor \in Cursors \ {"none"}
        /\ NextCursor = "empty" => n + 1 = Pages[window]
        /\ NextCursor # "empty" => n + 1 < Pages[window]
    BY <2>1, PageNumbers DEF NextCursor, Cursors
  <2>3. ChainInv(n + 1)'
    BY <1>13, <1>14, <2>1, <2>2 DEF WriteSidecar
  <2>4. ExportTypes'
    <3>1. walk' \in SomeWalk
      <4>1. walk.page + 1 \in Nat /\ "cursor" \in Cursors
        BY <2>1 DEF Cursors
      <4> QED
        BY <1>1, <1>14, <4>1, NothingIsTyped DEF ExportTypes, WriteSidecar, SomeWalk
    <3> QED
      BY <1>1, <1>14, <2>1, <2>2, <3>1 DEF ExportTypes, WriteSidecar
  <2>5. PageInv(n + 1)'
    <3>1. CASE NextCursor = "empty"
      BY <1>14, <3>1 DEF PageInv, WriteSidecar, NoWalk
    <3>2. CASE NextCursor # "empty"
      <4>1. walk' = [walk EXCEPT !.at = "request", !.page = @ + 1, !.attempt = 1,
                                 !.cursor = "cursor"]
        BY <1>14, <3>2 DEF WriteSidecar
      <4>2. walk'.at = "request" /\ walk'.page = n + 1 /\ walk'.want = walk.want
        BY <1>1, <2>1, <4>1 DEF ExportTypes, SomeWalk
      <4>3. sidecar'[(n + 1) - 1] # "empty"
        BY <1>1, <1>14, <2>1, <3>2 DEF ExportTypes, WriteSidecar
      <4> QED
        BY <1>14, <2>1, <2>2, <3>2, <4>2, <4>3 DEF PageInv, WriteSidecar
    <3> QED
      BY <3>1, <3>2
  <2> QED
    BY <2>3, <2>4, <2>5 DEF ExportInv
<1>15. CASE WriteIsCut
  <2>1. CASE walk.at = "window" /\ window = NoWindow /\ window' = CutWindow
             /\ UNCHANGED <<pages, sidecar, cutSidecars>>
    <3>1. n = 0
      BY <1>2, <2>1, PageNumbers DEF ChainInv
    <3>2. ExportTypes'
      BY <1>1, <1>15, <2>1, NothingIsTyped DEF ExportTypes, WriteIsCut
    <3>3. ChainInv(n)'
      BY <1>2, <2>1, <3>1, SameChain
    <3>4. PageInv(n)'
      BY <1>15 DEF PageInv, WriteIsCut, NoWalk
    <3> QED
      BY <3>2, <3>3, <3>4 DEF ExportInv
  <2>2. CASE walk.at = "sidecar" /\ UNCHANGED <<window, pages>>
             /\ cutSidecars' = cutSidecars + 1
             /\ \E left \in {"empty"} \cup (IF NextCursor = "cursor" THEN {"part"} ELSE {}) :
                  sidecar' = [sidecar EXCEPT ![walk.page] = left]
    <3>1. n < Pages[window] /\ walk.page = n /\ window = walk.want /\ n \in Index
          /\ window \in Windows
      BY <1>2, <1>4, <2>2 DEF PageInv
    <3>2. PICK left \in {"empty"} \cup (IF NextCursor = "cursor" THEN {"part"} ELSE {}) :
            sidecar' = [sidecar EXCEPT ![walk.page] = left]
      BY <2>2
    <3>3. /\ left \in Cursors \ {"none"}
          /\ left # "empty" => n + 1 < Pages[window]
      BY <3>1, PageNumbers DEF NextCursor, Cursors
    <3>4. cutSidecars' # 0
      BY <1>1, <2>2 DEF ExportTypes
    <3>5. ChainInv(n + 1)'
      BY <1>13, <2>2, <3>2, <3>3, <3>4
    <3>6. ExportTypes'
      BY <1>1, <1>15, <2>2, <3>1, <3>2, <3>3, NothingIsTyped
         DEF ExportTypes, WriteIsCut
    <3>7. PageInv(n + 1)'
      BY <1>15 DEF PageInv, WriteIsCut, NoWalk
    <3> QED
      BY <3>5, <3>6, <3>7 DEF ExportInv
  <2>3. CASE walk.at = "body" /\ UNCHANGED <<window, sidecar, cutSidecars>>
             /\ pages' = [pages EXCEPT ![walk.page] = NoPage]
    BY <1>5, <1>15, <2>3 DEF WriteIsCut
  <2> QED
    BY <1>15, <2>1, <2>2, <2>3 DEF WriteIsCut
<1>16. CASE WalkDies
  BY <1>5, <1>16 DEF WalkDies, exportDisk
<1>17. CASE UNCHANGED exportVars
  <2>1. ExportTypes' /\ ChainInv(n)' /\ PageInv(n)'
    BY <1>1, <1>2, <1>17
       DEF exportVars, ExportTypes, ChainInv, PageInv, Sealed
  <2> QED
    BY <2>1 DEF ExportInv
<1> QED
  BY <1>6, <1>7, <1>8, <1>9, <1>10, <1>11, <1>12, <1>14, <1>15, <1>16, <1>17
     DEF ExportNext

LEMMA ExportInvSuffices == ExportInv => ExportIsOneChain
<1> SUFFICES ASSUME ExportInv PROVE ExportIsOneChain
  OBVIOUS
<1>1. PICK n \in Nat : ChainInv(n)
  BY DEF ExportInv
<1>2. ExportTypes
  BY DEF ExportInv
<1>3. Sealed = 0..(n - 1) /\ IsFiniteSet(Sealed) /\ Cardinality(Sealed) = n
  BY <1>1, FS_Interval DEF ChainInv
<1>4. \A i \in Sealed : pages[i] = [of |-> window, whole |-> TRUE]
  BY <1>1, <1>3 DEF ChainInv
<1>5. Cardinality({i \in Index : pages[i] # NoPage}) <= n + 1
  <2>1. {i \in Index : pages[i] # NoPage} \subseteq 0..n
    <3> SUFFICES ASSUME NEW i \in Index, pages[i] # NoPage PROVE i \in 0..n
      OBVIOUS
    <3>1. i \in Nat /\ i <= n
      BY <1>1, PageNumbers DEF ChainInv
    <3> QED
      BY <3>1
  <2>2. IsFiniteSet(0..n) /\ Cardinality(0..n) = n + 1
    BY FS_Interval
  <2> QED
    BY <2>1, <2>2, FS_Subset
<1>6. Complete /\ cutSidecars = 0 => n = Pages[window]
  <2> SUFFICES ASSUME Complete, cutSidecars = 0 PROVE n = Pages[window]
    OBVIOUS
  <2>1. n > 0 /\ sidecar[n - 1] = "empty" /\ n - 1 \in 0..(n - 1)
    BY <1>1, <1>2, ScanFindsTheSealed
  <2> QED
    BY <1>1, <2>1 DEF ChainInv
<1> QED
  BY <1>3, <1>4, <1>5, <1>6 DEF ExportIsOneChain, Sealed

\* Pages with a sidecar are the first ones of one chain, each whole and of the
\* recorded window, and a session that finds the export complete is right
\* unless a sidecar was cut, for any windows, any numbers of pages and attempts,
\* and however many requests fail, writes are cut and sessions die
\* (run_downloader.py of spire_codex).
THEOREM ExportsAreOneChain == ExportSpec => []ExportIsOneChain
<1>1. ExportInit => ExportInv
  BY ExportStarts
<1>2. ExportInv /\ [ExportNext]_exportVars => ExportInv'
  BY ExportSteps
<1>3. ExportInv => ExportIsOneChain
  BY ExportInvSuffices
<1> QED
  BY <1>1, <1>2, <1>3, PTL DEF ExportSpec

-----------------------------------------------------------------------------
(* All of them                                                             *)

\* A step of a part is a step of its component and none of the others'.
LEMMA PartsGoAlone ==
    [MCNext]_allVars =>
        [DownloadsNext]_itemVars /\ [BulkNext]_bulkVars /\ [ExportNext]_exportVars
<1> SUFFICES ASSUME [MCNext]_allVars
             PROVE  [DownloadsNext]_itemVars /\ [BulkNext]_bulkVars /\ [ExportNext]_exportVars
  OBVIOUS
<1>1. CASE ItemsGo \/ ItemsFault
  BY <1>1 DEF ItemsGo, ItemsFault, OtherThanItems, DownloadsNext
<1>2. CASE CrawlGo \/ CrawlCrash
  BY <1>2 DEF CrawlGo, CrawlCrash, OtherThanCrawl
<1>3. CASE FilesGo
  BY <1>3 DEF FilesGo
<1>4. CASE PagesGo
  BY <1>4 DEF PagesGo
<1>5. CASE UNCHANGED allVars
  BY <1>5 DEF allVars
<1> QED
  BY <1>1, <1>2, <1>3, <1>4, <1>5 DEF MCNext

\* Whatever is lost, repeated, half-written or of another build, window or
\* version is the work of a fault of its own, in every downloader that fetches
\* items, whole files or pages (src/data_retrieval).
THEOREM DamageHasItsFault == MCSpec => []FaultsExplainTheData
<1>1. MCSpec => MCInit /\ [][MCNext]_allVars
  BY PTL DEF MCSpec
<1>2. MCInit => DownloadsInit /\ BulkInit /\ ExportInit
  BY DEF MCInit
<1>3. MCInit /\ [][MCNext]_allVars => DownloadsSpec /\ BulkSpec /\ ExportSpec
  BY <1>2, PartsGoAlone, PTL DEF DownloadsSpec, BulkSpec, ExportSpec
<1>4. FaultsExplainTheItems /\ FaultsExplainTheFiles /\ ExportIsOneChain
        => FaultsExplainTheData
  BY DEF FaultsExplainTheData
<1> QED
  BY <1>1, <1>3, <1>4, ItemsAreKeptOrFaulty, FilesAreWholeOrFaulty, ExportsAreOneChain, PTL
=============================================================================
