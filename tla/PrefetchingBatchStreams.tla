--------------------- MODULE PrefetchingBatchStreams ---------------------
(***************************************************************************)
(* The prefetching batch feed (src/training/diet/                          *)
(* prefetching_batch_streams.py): one worker thread builds the round's     *)
(* scheduled steps ahead of the trainer and reserves (pins) their cards in *)
(* the feature cache, the trainer's thread consumes them in order.         *)
(*                                                                         *)
(* Grain.  A step of this module is one critical section of _condition, or *)
(* one call made outside it (building, reserving, releasing).  The fields  *)
(* only one thread touches (_next_sequence, _taken) change in the nearest  *)
(* step of that thread.  Waiting on the condition is explicit: a thread    *)
(* whose predicate is false joins `asleep', and only notify_all empties    *)
(* it, so a state change that forgot to notify would be seen.              *)
(***************************************************************************)
EXTENDS Integers, Sequences, FiniteSets

CONSTANTS
    Dojos,           \* the feed's streams
    Schedules,       \* the schedules the trainer may draw
    Failing,         \* the stream positions that raise (see BatchFeed)
    Depth,           \* how many scheduled steps may wait built
    Reservations,    \* identities of FeatureReservation objects
    None,            \* no reservation (_NO_RESERVATION), no job
    MaxRounds,       \* bound: rounds begun
    MaxReschedules,  \* bound: calls of reschedule
    MayDie           \* whether the worker loop itself may die

ASSUME PrefetchAssumption ==
    /\ Schedules \subseteq Seq(Dojos) \ {<<>>}
    /\ Failing \subseteq Dojos \X Nat
    /\ Depth \in Nat \ {0}
    /\ None \notin Reservations
    /\ None \notin [dojo : Dojos, sequence : Nat, failed : BOOLEAN,
                    reservation : Reservations \cup {None}]
    /\ MaxRounds \in Nat
    /\ MaxReschedules \in Nat
    /\ MayDie \in BOOLEAN

VARIABLES
    lifecycle,     \* _state
    roundOpen,     \* _pending is not None
    pending,       \* _pending
    ready,         \* _ready: built results of pending's first steps
    inFlight,      \* _in_flight: "none", or whether the step is wanted
    leftovers,     \* _leftovers: per dojo, built steps off the schedule
    nextSequence,  \* _next_sequence (worker)
    taken,         \* _taken (consumer): the reservation last handed out
    worker,        \* where the worker thread is
    job,           \* the step the worker is producing
    consumer,      \* where the trainer's thread is
    asked,         \* next_batch's argument
    toRelease,     \* to_release of the consumer's current call
    outstanding,   \* reservations the cache has pinned and not released
    asleep,        \* threads waiting on _condition, not yet notified
    delivered,     \* history: the steps next_batch answered, per asked dojo
    rounds,        \* rounds begun (bounded)
    reschedules    \* reschedule calls made (bounded)

roundVars == <<roundOpen, pending>>
workerVars == <<worker, job, nextSequence>>
callVars == <<consumer, asked, toRelease, taken>>
bounds == <<rounds, reschedules>>
vars == <<lifecycle, roundVars, ready, inFlight, leftovers, workerVars,
          callVars, outstanding, asleep, delivered, bounds>>

BuiltStep == [dojo : Dojos, sequence : Nat, failed : BOOLEAN,
              reservation : Reservations \cup {None}]

Answered == [dojo : Dojos, sequence : Nat, failed : BOOLEAN]

Init ==
    /\ lifecycle = "not_started"
    /\ roundOpen = FALSE /\ pending = <<>>
    /\ ready = <<>>
    /\ inFlight = "none"
    /\ leftovers = [d \in Dojos |-> {}]
    /\ nextSequence = [d \in Dojos |-> 0]
    /\ taken = None
    /\ worker = "unborn" /\ job = None
    /\ consumer = "idle"
    /\ asked \in Dojos
    /\ toRelease = {}
    /\ outstanding = {}
    /\ asleep = {}
    /\ delivered = [d \in Dojos |-> <<>>]
    /\ rounds = 0 /\ reschedules = 0

-----------------------------------------------------------------------------
(* Helpers.                                                                *)

(* fault: a state change that wakes nobody                                 *)
NotifyNobody == asleep' = asleep

NotifyAll == asleep' = {}

Awake(thread) == thread \notin asleep

(* releasing _NO_RESERVATION does nothing                                  *)
Real(reservations) == reservations \ {None}

ReservationsOf(steps) == Real({steps[i].reservation : i \in DOMAIN steps})

(* A pile is kept sorted by sequence and no two of its steps share one, so *)
(* a set with its oldest element stands for the list.                      *)
(* fault: a leftover keeps the reservation that is about to be released    *)
Unstripped(step) == step

Stripped(step) == [step EXCEPT !.reservation = None]

(* what next_batch hands to the trainer: the step without its pins         *)
Answer(step) ==
    [dojo |-> step.dojo, sequence |-> step.sequence, failed |-> step.failed]

MoveToLeftovers(steps) ==
    [d \in Dojos |-> leftovers[d] \cup
        {Stripped(steps[i]) : i \in {j \in DOMAIN steps : steps[j].dojo = d}}]

(* fault: the pile is used as a stack                                      *)
IsNewest(step, pile) ==
    step \in pile /\ \A other \in pile : step.sequence >= other.sequence

IsOldest(step, pile) ==
    step \in pile /\ \A other \in pile : step.sequence <= other.sequence

(* how many leading names built and scheduled share: k is that number      *)
IsMatchingPrefixLength(k, built, scheduled) ==
    /\ k <= Len(built) /\ k <= Len(scheduled)
    /\ \A i \in 1..k : built[i] = scheduled[i]
    /\ (k < Len(built) /\ k < Len(scheduled)) =>
          built[k + 1] # scheduled[k + 1]

(* The dojos of the built steps and then of the in-flight one, if wanted:  *)
(* the schedule positions that are already taken care of.                  *)
BuiltNames ==
    [i \in 1..Len(ready) |-> ready[i].dojo]
        \o (IF inFlight = "wanted" THEN <<job.dojo>> ELSE <<>>)

-----------------------------------------------------------------------------
(* The consumer: the trainer's thread, one call at a time.  A call that    *)
(* raises before it changes anything (start twice, begin_round in the      *)
(* wrong state, reschedule between rounds) has no step here.               *)

Start ==
    /\ consumer = "idle"
    /\ lifecycle = "not_started"
    /\ lifecycle' = "running"
    /\ worker' = "waiting"
    /\ NotifyAll
    /\ UNCHANGED <<roundVars, ready, inFlight, leftovers, job, nextSequence,
                   callVars, outstanding, delivered, bounds>>

BeginRound(schedule) ==
    /\ consumer = "idle"
    /\ rounds < MaxRounds
    /\ lifecycle = "running"
    /\ ~roundOpen
    /\ roundOpen' = TRUE
    /\ pending' = schedule
    /\ rounds' = rounds + 1
    /\ NotifyAll
    /\ UNCHANGED <<lifecycle, ready, inFlight, leftovers, workerVars,
                   callVars, outstanding, delivered, reschedules>>

(* next_batch, before the lock: the previous step's pins go, on every path *)
AskNext(d) ==
    /\ consumer = "idle"
    /\ outstanding' = outstanding \ {taken}
    /\ taken' = None
    /\ asked' = d
    /\ consumer' = "asking"
    /\ UNCHANGED <<lifecycle, roundVars, ready, inFlight, leftovers,
                   workerVars, toRelease, asleep, delivered, bounds>>

IsNextStep(d) == roundOpen /\ pending # <<>> /\ Head(pending) = d

(* ScheduleMismatchError                                                   *)
RefuseStep ==
    /\ consumer = "asking"
    /\ ~IsNextStep(asked)
    /\ consumer' = "idle"
    /\ UNCHANGED <<lifecycle, roundVars, ready, inFlight, leftovers,
                   workerVars, asked, toRelease, taken, outstanding, asleep,
                   delivered, bounds>>

WaitForStep ==
    /\ consumer = "asking"
    /\ Awake("consumer")
    /\ IsNextStep(asked)
    /\ ready = <<>>
    /\ lifecycle = "running"
    /\ asleep' = asleep \cup {"consumer"}
    /\ UNCHANGED <<lifecycle, roundVars, ready, inFlight, leftovers,
                   workerVars, callVars, outstanding, delivered, bounds>>

(* PrefetchStoppedError                                                    *)
StopAsking ==
    /\ consumer = "asking"
    /\ Awake("consumer")
    /\ IsNextStep(asked)
    /\ ready = <<>>
    /\ lifecycle # "running"
    /\ consumer' = "idle"
    /\ UNCHANGED <<lifecycle, roundVars, ready, inFlight, leftovers,
                   workerVars, asked, toRelease, taken, outstanding, asleep,
                   delivered, bounds>>

(* The step is returned, or its error raised; either answers the call.     *)
TakeStep ==
    /\ consumer = "asking"
    /\ Awake("consumer")
    /\ IsNextStep(asked)
    /\ ready # <<>>
    /\ ready' = Tail(ready)
    /\ pending' = Tail(pending)
    /\ taken' = Head(ready).reservation
    /\ delivered' = [delivered EXCEPT
                       ![asked] = Append(@, Answer(Head(ready)))]
    /\ consumer' = "idle"
    /\ NotifyAll
    /\ UNCHANGED <<lifecycle, roundOpen, inFlight, leftovers, workerVars,
                   asked, toRelease, outstanding, bounds>>

(* reschedule, up to the end of its critical section: keep is how many     *)
(* built and in-flight steps the new schedule starts with.                 *)
Reschedule(remaining) ==
    /\ consumer = "idle"
    /\ reschedules < MaxReschedules
    /\ roundOpen
    /\ \E keep \in 0..(Len(ready) + 1) :
         /\ IsMatchingPrefixLength(keep, BuiltNames, remaining)
         /\ inFlight' = IF inFlight # "none" /\ keep < Len(BuiltNames)
                        THEN "unwanted" ELSE inFlight
         /\ LET dropped == SubSeq(ready, keep + 1, Len(ready))
            IN  /\ ready' = IF keep < Len(ready) THEN SubSeq(ready, 1, keep)
                                                 ELSE ready
                /\ leftovers' = MoveToLeftovers(dropped)
                /\ toRelease' = ReservationsOf(dropped)
    /\ pending' = remaining
    /\ consumer' = "releasing"
    /\ reschedules' = reschedules + 1
    /\ NotifyAll
    /\ UNCHANGED <<lifecycle, roundOpen, workerVars, asked, taken,
                   outstanding, delivered, rounds>>

(* what end_round waits for, and what close joins; the fault of each is    *)
(* not to wait                                                             *)
WorkerNotAwaited == TRUE

WorkerIdle == inFlight = "none"

WorkerStopped == worker \in {"unborn", "gone"}

(* end_round with a round open: no step is wanted any more.  It notifies   *)
(* no one before it waits.                                                 *)
EndRound ==
    /\ consumer = "idle"
    /\ roundOpen
    /\ toRelease' = Real({taken})
    /\ taken' = None
    /\ pending' = <<>>
    /\ inFlight' = IF inFlight = "none" THEN "none" ELSE "unwanted"
    /\ consumer' = "ending"
    /\ UNCHANGED <<lifecycle, roundOpen, ready, leftovers, workerVars, asked,
                   outstanding, asleep, delivered, bounds>>

(* end_round between rounds only gives up the last step's pins             *)
EndNoRound ==
    /\ consumer = "idle"
    /\ ~roundOpen
    /\ toRelease' = Real({taken})
    /\ taken' = None
    /\ consumer' = "releasing"
    /\ UNCHANGED <<lifecycle, roundVars, ready, inFlight, leftovers,
                   workerVars, asked, outstanding, asleep, delivered, bounds>>

WaitForWorker ==
    /\ consumer = "ending"
    /\ Awake("consumer")
    /\ ~WorkerIdle
    /\ asleep' = asleep \cup {"consumer"}
    /\ UNCHANGED <<lifecycle, roundVars, ready, inFlight, leftovers,
                   workerVars, callVars, outstanding, delivered, bounds>>

FinishEndRound ==
    /\ consumer = "ending"
    /\ Awake("consumer")
    /\ WorkerIdle
    /\ leftovers' = MoveToLeftovers(ready)
    /\ toRelease' = toRelease \cup ReservationsOf(ready)
    /\ ready' = <<>>
    /\ roundOpen' = FALSE
    /\ consumer' = "releasing"
    /\ NotifyAll
    /\ UNCHANGED <<lifecycle, pending, inFlight, workerVars, asked, taken,
                   outstanding, delivered, bounds>>

(* close, from any state, any number of times                              *)
Close ==
    /\ consumer = "idle"
    /\ lifecycle' = "closed"
    /\ consumer' = "joining"
    /\ NotifyAll
    /\ UNCHANGED <<roundVars, ready, inFlight, leftovers, workerVars, asked,
                   toRelease, taken, outstanding, delivered, bounds>>

FinishClose ==
    /\ consumer = "joining"
    /\ WorkerStopped
    /\ toRelease' = Real({taken}) \cup ReservationsOf(ready)
    /\ taken' = None
    /\ ready' = <<>>
    /\ leftovers' = [d \in Dojos |-> {}]
    /\ roundOpen' = FALSE
    /\ pending' = <<>>
    /\ consumer' = "releasing"
    /\ NotifyAll
    /\ UNCHANGED <<lifecycle, inFlight, workerVars, asked, outstanding,
                   delivered, bounds>>

(* _release_each, after the lock, at the end of reschedule, end_round and  *)
(* close                                                                   *)
ReleaseEach ==
    /\ consumer = "releasing"
    /\ outstanding' = outstanding \ toRelease
    /\ toRelease' = {}
    /\ consumer' = "idle"
    /\ UNCHANGED <<lifecycle, roundVars, ready, inFlight, leftovers,
                   workerVars, asked, taken, asleep, delivered, bounds>>

-----------------------------------------------------------------------------
(* The worker thread.                                                      *)

(* fault: only the schedule's end stops the worker                         *)
HasWorkPastDepth ==
    /\ lifecycle = "running"
    /\ inFlight = "none"
    /\ roundOpen
    /\ Len(ready) < Len(pending)

(* _next_unbuilt_step: the worker may build the step at this position      *)
HasWork ==
    /\ lifecycle = "running"
    /\ inFlight = "none"
    /\ roundOpen
    /\ Len(ready) < Depth
    /\ Len(ready) < Len(pending)

NextUnbuilt == pending[Len(ready) + 1]

(* The dojo's oldest leftover keeps its place in the stream; its failure   *)
(* is landed as it is, its batch reserved again.                           *)
TakeLeftover ==
    /\ worker = "waiting"
    /\ Awake("worker")
    /\ HasWork
    /\ \E step \in leftovers[NextUnbuilt] :
         /\ IsOldest(step, leftovers[NextUnbuilt])
         /\ leftovers' = [leftovers EXCEPT ![NextUnbuilt] = @ \ {step}]
         /\ job' = step
         /\ worker' = IF step.failed THEN "landing" ELSE "reserving"
    /\ inFlight' = "wanted"
    /\ NotifyAll
    /\ UNCHANGED <<lifecycle, roundVars, ready, nextSequence, callVars,
                   outstanding, delivered, bounds>>

(* Otherwise the stream's next position is built, whose outcome Build      *)
(* finds out.                                                              *)
TakeFresh ==
    /\ worker = "waiting"
    /\ Awake("worker")
    /\ HasWork
    /\ leftovers[NextUnbuilt] = {}
    /\ job' = [dojo |-> NextUnbuilt, sequence |-> nextSequence[NextUnbuilt],
               failed |-> FALSE, reservation |-> None]
    /\ nextSequence' = [nextSequence EXCEPT ![NextUnbuilt] = @ + 1]
    /\ inFlight' = "wanted"
    /\ worker' = "building"
    /\ NotifyAll
    /\ UNCHANGED <<lifecycle, roundVars, ready, leftovers, callVars,
                   outstanding, delivered, bounds>>

WaitForWork ==
    /\ worker = "waiting"
    /\ Awake("worker")
    /\ lifecycle # "closed"
    /\ ~HasWork
    /\ asleep' = asleep \cup {"worker"}
    /\ UNCHANGED <<lifecycle, roundVars, ready, inFlight, leftovers,
                   workerVars, callVars, outstanding, delivered, bounds>>

LeaveLoop ==
    /\ worker = "waiting"
    /\ Awake("worker")
    /\ lifecycle = "closed"
    /\ worker' = "gone"
    /\ UNCHANGED <<lifecycle, roundVars, ready, inFlight, leftovers, job,
                   nextSequence, callVars, outstanding, asleep, delivered,
                   bounds>>

(* the stream's next_batch, outside the lock; an Exception becomes a       *)
(* _BuildFailure in the step's place                                       *)
Build ==
    /\ worker = "building"
    /\ LET failed == <<job.dojo, job.sequence>> \in Failing
       IN  /\ job' = [job EXCEPT !.failed = failed]
           /\ worker' = IF failed THEN "landing" ELSE "reserving"
    /\ UNCHANGED <<lifecycle, roundVars, ready, inFlight, leftovers,
                   nextSequence, callVars, outstanding, asleep, delivered,
                   bounds>>

(* _reserve_cards, outside the lock: a new reservation, or none when       *)
(* warming raised (counted, and the batch is queued all the same).  The    *)
(* name of the new object is any one not in use.                           *)
Reserve ==
    /\ worker = "reserving"
    /\ worker' = "landing"
    /\ \/ /\ Reservations \ outstanding # {}
          /\ LET new == CHOOSE r \in Reservations : r \notin outstanding
             IN  /\ job' = [job EXCEPT !.reservation = new]
                 /\ outstanding' = outstanding \cup {new}
       \/ UNCHANGED <<job, outstanding>>
    /\ UNCHANGED <<lifecycle, roundVars, ready, inFlight, leftovers,
                   nextSequence, callVars, asleep, delivered, bounds>>

(* _land: queued for the trainer, or kept as a leftover, or (closed)       *)
(* dropped.  In the last two its pins are released after the lock.         *)
Land ==
    /\ worker = "landing"
    /\ LET queued == lifecycle # "closed" /\ inFlight = "wanted"
           kept == lifecycle # "closed" /\ ~queued
           held == ~queued /\ job.reservation # None
       IN  /\ ready' = IF queued THEN Append(ready, job) ELSE ready
           /\ leftovers' = IF kept THEN MoveToLeftovers(<<job>>)
                                   ELSE leftovers
           /\ worker' = IF held THEN "releasing" ELSE "waiting"
           /\ job' = IF held THEN job ELSE None
    /\ inFlight' = "none"
    /\ NotifyAll
    /\ UNCHANGED <<lifecycle, roundVars, nextSequence, callVars, outstanding,
                   delivered, bounds>>

ReleaseLanded ==
    /\ worker = "releasing"
    /\ outstanding' = outstanding \ {job.reservation}
    /\ job' = None
    /\ worker' = "waiting"
    /\ UNCHANGED <<lifecycle, roundVars, ready, inFlight, leftovers,
                   nextSequence, callVars, asleep, delivered, bounds>>

(* An exception the step's own handlers do not catch (a BaseException out  *)
(* of the stream or of warming, which unpins on its way) ends the loop.    *)
Die ==
    /\ MayDie
    /\ worker \in {"building", "reserving"}
    /\ lifecycle' = IF lifecycle = "closed" THEN "closed" ELSE "failed"
    /\ inFlight' = "none"
    /\ job' = None
    /\ worker' = "gone"
    /\ NotifyAll
    /\ UNCHANGED <<roundVars, ready, leftovers, nextSequence, callVars,
                   outstanding, delivered, bounds>>

-----------------------------------------------------------------------------

ConsumerCall ==
    \/ Start
    \/ \E schedule \in Schedules : BeginRound(schedule) \/ Reschedule(schedule)
    \/ \E d \in Dojos : AskNext(d)
    \/ EndRound \/ EndNoRound \/ Close

ConsumerStep ==
    \/ RefuseStep \/ WaitForStep \/ StopAsking \/ TakeStep
    \/ WaitForWorker \/ FinishEndRound
    \/ FinishClose \/ ReleaseEach

WorkerStep ==
    \/ TakeLeftover \/ TakeFresh \/ WaitForWork \/ LeaveLoop
    \/ Build \/ Reserve \/ Land \/ ReleaseLanded

Next == ConsumerCall \/ ConsumerStep \/ WorkerStep \/ Die

Spec == Init /\ [][Next]_vars

(* Both threads are scheduled, and every build and every warm returns (a   *)
(* hung dojo hangs end_round, as its docstring says).  The trainer owes    *)
(* the feed no further call, and nothing makes the worker die.             *)
FairSpec == Spec /\ WF_vars(ConsumerStep) /\ WF_vars(WorkerStep)

-----------------------------------------------------------------------------
(* Properties.                                                             *)

(* Type correctness of every field of PrefetchingBatchStreams.             *)
TypeOK ==
    /\ lifecycle \in {"not_started", "running", "closed", "failed"}
    /\ roundOpen \in BOOLEAN
    /\ pending \in Seq(Dojos)
    /\ ready \in Seq(BuiltStep)
    /\ inFlight \in {"none", "wanted", "unwanted"}
    /\ leftovers \in [Dojos -> SUBSET BuiltStep]
    /\ nextSequence \in [Dojos -> Nat]
    /\ taken \in Reservations \cup {None}
    /\ worker \in {"unborn", "waiting", "building", "reserving", "landing",
                   "releasing", "gone"}
    /\ job \in BuiltStep \cup {None}
    /\ consumer \in {"idle", "asking", "ending", "joining", "releasing"}
    /\ asked \in Dojos
    /\ toRelease \in SUBSET Reservations
    /\ outstanding \in SUBSET Reservations
    /\ asleep \in SUBSET {"consumer", "worker"}
    /\ delivered \in [Dojos -> Seq(Answered)]
    /\ rounds \in 0..MaxRounds
    /\ reschedules \in 0..MaxReschedules

Producing == worker \in {"building", "reserving", "landing"}

(* "The worker builds the scheduled steps in order, at most depth steps    *)
(* ahead of the trainer" and never past the schedule: whatever reschedules *)
(* and quarantines happen, the built steps and the wanted one in flight    *)
(* are the dojos the schedule asks for next, in its order, and no more     *)
(* than depth.  next_batch relies on it: it checks the schedule's head and *)
(* hands out the head of _ready.                                           *)
BuiltFollowsSchedule ==
    /\ consumer # "ending" =>
         /\ Len(ready) <= Len(pending)
         /\ \A i \in 1..Len(ready) : ready[i].dojo = pending[i]
         /\ inFlight = "wanted" =>
              /\ Len(ready) < Len(pending)
              /\ job.dojo = pending[Len(ready) + 1]
    /\ Len(ready) <= Depth
    /\ inFlight = "wanted" => Len(ready) < Depth

JobReservation == IF job = None THEN {} ELSE Real({job.reservation})

(* Every reservation the cache holds for this feed has exactly one owner   *)
(* that will release it (the step last handed out, a queued step, the step *)
(* the worker is producing or putting away, or a list about to be          *)
(* released), and nothing already released has an owner left: no pin       *)
(* leaks, none is released twice, no queued batch lost its pins.  After    *)
(* close there is none, and no worker, so the cache may be closed too.     *)
PinsAccounted ==
    /\ TypeOK
    /\ outstanding = Real({taken}) \cup ReservationsOf(ready)
                       \cup JobReservation \cup toRelease
    /\ Cardinality(outstanding) =
          Cardinality(Real({taken}))
            + Cardinality({i \in DOMAIN ready : ready[i].reservation # None})
            + Cardinality(JobReservation) + Cardinality(toRelease)
    /\ consumer = "idle" /\ lifecycle = "closed" =>
          outstanding = {} /\ worker \in {"unborn", "gone"}

(* "Afterwards no thread but the caller touches a dojo": from the end of   *)
(* end_round to the next begin_round the worker builds and reserves        *)
(* nothing and no built batch is queued, so evaluation has the dojos.      *)
QuietBetweenRounds ==
    consumer = "idle" /\ ~roundOpen => ~Producing /\ ready = <<>>

-----------------------------------------------------------------------------
(* The inductive invariant behind the properties above and the refinement  *)
(* below (PrefetchingProofs).                                              *)

(* A job exists exactly while the worker produces or puts away a step, and *)
(* the in-flight mark stands for it until the step has landed.             *)
JobWhileProducing ==
    /\ job # None <=> Producing \/ worker = "releasing"
    /\ inFlight # "none" <=> Producing

(* When the thread exists, and that it is then the only one to have taken  *)
(* steps from the streams.                                                 *)
WorkerLife ==
    /\ lifecycle = "not_started" => worker = "unborn"
    /\ lifecycle = "running" => worker \notin {"unborn", "gone"}
    /\ worker = "unborn" => \A d \in Dojos : nextSequence[d] = 0

(* What a closed round and a stopping one leave of the schedule.           *)
RoundControl ==
    /\ ~roundOpen => pending = <<>> /\ ready = <<>> /\ inFlight = "none"
    /\ consumer = "ending" =>
         roundOpen /\ pending = <<>> /\ inFlight # "wanted"

(* A pile of leftovers holds steps of its own dojo only.                   *)
LeftoversByDojo == \A d \in Dojos : \A s \in leftovers[d] : s.dojo = d

(* The owners of pins share none, and two queued steps share none.         *)
NoPinTwice(steps) ==
    \A i, j \in DOMAIN steps :
        i # j /\ steps[i].reservation # None =>
            steps[i].reservation # steps[j].reservation

PinsOwned ==
    /\ outstanding = Real({taken}) \cup ReservationsOf(ready)
                       \cup JobReservation \cup toRelease
    /\ Real({taken}) \cap (ReservationsOf(ready) \cup JobReservation
                              \cup toRelease) = {}
    /\ ReservationsOf(ready) \cap (JobReservation \cup toRelease) = {}
    /\ JobReservation \cap toRelease = {}
    /\ NoPinTwice(ready)

(* What an owner may hold by where its thread is: the call's list is empty *)
(* between calls, a step not yet warmed and a leftover have no pins.       *)
ReleaseList ==
    /\ IsFiniteSet(toRelease)
    /\ consumer \notin {"ending", "releasing"} => toRelease = {}

JobPins ==
    /\ worker \in {"building", "reserving"} => job.reservation = None
    /\ worker = "releasing" => job.reservation # None

LeftoversUnpinned ==
    \A d \in Dojos : \A s \in leftovers[d] : s.reservation = None

(* next_batch gave up the last step's pins before it asked for the next.   *)
AskedGaveUp == consumer = "asking" => taken = None

(* A closed feed is empty but for what its close is about to release.      *)
ClosedIsEmpty ==
    lifecycle = "closed" /\ consumer # "joining" =>
        /\ WorkerStopped
        /\ taken = None /\ ready = <<>> /\ ~roundOpen

Used(d) == Len(delivered[d])

IsLive(d, n) ==
    \/ \E i \in 1..Len(ready) : ready[i].dojo = d /\ ready[i].sequence = n
    \/ Producing /\ job.dojo = d /\ job.sequence = n
    \/ \E s \in leftovers[d] : s.sequence = n

(* Of each dojo, the queue comes before the step in flight and before the  *)
(* leftovers, a wanted step in flight before the leftovers, each in stream *)
(* order; together they are the positions taken and not yet delivered,     *)
(* but for the step a dead or closed worker dropped, which no queued step  *)
(* of its dojo follows.                                                    *)
QueueOrder ==
    \A i \in 1..Len(ready) :
        /\ Used(ready[i].dojo) <= ready[i].sequence
        /\ ready[i].sequence < nextSequence[ready[i].dojo]
        /\ \A j \in 1..Len(ready) :
             i < j /\ ready[i].dojo = ready[j].dojo =>
               ready[i].sequence < ready[j].sequence

QueueFirst ==
    \A i \in 1..Len(ready) :
        /\ \A s \in leftovers[ready[i].dojo] : ready[i].sequence < s.sequence
        /\ Producing /\ job.dojo = ready[i].dojo =>
             ready[i].sequence < job.sequence

JobOrder ==
    Producing =>
        /\ Used(job.dojo) <= job.sequence
        /\ job.sequence < nextSequence[job.dojo]
        /\ \A s \in leftovers[job.dojo] :
             /\ s.sequence # job.sequence
             /\ inFlight = "wanted" => job.sequence < s.sequence

PileOrder ==
    \A d \in Dojos : \A s \in leftovers[d] :
        /\ Used(d) <= s.sequence
        /\ s.sequence < nextSequence[d]
        /\ \A t \in leftovers[d] : s.sequence = t.sequence => s = t

Stopped == lifecycle \in {"closed", "failed"}

NoStepLost ==
    \A d \in Dojos :
        /\ Used(d) <= nextSequence[d]
        /\ \A n \in Used(d)..(nextSequence[d] - 1) :
             \/ IsLive(d, n)
             \/ /\ Stopped
                /\ \A i \in 1..Len(ready) :
                     ready[i].dojo = d => ready[i].sequence < n

StreamOrder == QueueOrder /\ QueueFirst /\ JobOrder /\ PileOrder /\ NoStepLost

(* A feed that failed has no worker, and one that is being joined is       *)
(* closed: no step is queued after one was dropped.                        *)
StopsForGood ==
    /\ lifecycle = "failed" => worker = "gone"
    /\ consumer = "joining" => lifecycle = "closed"

(* A finished step holds what its stream has at its position.              *)
StepsAreFromStreams ==
    /\ \A i \in 1..Len(ready) :
         ready[i].failed = (<<ready[i].dojo, ready[i].sequence>> \in Failing)
    /\ worker \in {"reserving", "landing"} =>
         job.failed = (<<job.dojo, job.sequence>> \in Failing)
    /\ \A d \in Dojos : \A s \in leftovers[d] :
         s.failed = (<<d, s.sequence>> \in Failing)

-----------------------------------------------------------------------------

(* No call waits forever: next_batch returns or raises, reschedule,        *)
(* end_round and close return, also when the worker dies meanwhile.        *)
CallsReturn == (consumer # "idle") ~> (consumer = "idle")

(* What end_round leaves pinned, the worker unpins by itself.              *)
PinsGoAfterRound ==
    (consumer = "idle" /\ ~roundOpen) ~> (outstanding = {} \/ roundOpen)

(* What a call or the end of a round leaves open is settled, whatever the  *)
(* two threads do in between and whichever of them is told to stop.        *)
FeedSettles == CallsReturn /\ PinsGoAfterRound

(* The feed is a batch feed: what next_batch answers, dojo by dojo, is     *)
(* what DirectBatchFeed would have answered for the same calls.  A round   *)
(* is over for the trainer once end_round has emptied the schedule.        *)
Feed == INSTANCE BatchFeed WITH roundOpen <- roundOpen /\ consumer # "ending"

FeedSpec == Feed!Spec
=============================================================================
