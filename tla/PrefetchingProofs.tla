------------------------ MODULE PrefetchingProofs ------------------------
(***************************************************************************)
(* Theorems of PrefetchingBatchStreams, for any dojos, schedules, depth    *)
(* and bounds.                                                             *)
(***************************************************************************)
EXTENDS PrefetchingBatchStreams, SequenceTheorems, FiniteSetTheorems, TLAPS

-----------------------------------------------------------------------------
(* The helpers keep their types.                                           *)

LEMMA SchedulesAreSequences ==
    ASSUME NEW schedule \in Schedules
    PROVE  schedule \in Seq(Dojos) /\ schedule # <<>>
  BY PrefetchAssumption DEF PrefetchAssumption

LEMMA NoneIsNoStep ==
    ASSUME NEW s \in BuiltStep
    PROVE  s # None
  BY PrefetchAssumption DEF PrefetchAssumption, BuiltStep

LEMMA BoundsAreNaturals == MaxRounds \in Nat /\ MaxReschedules \in Nat
  BY PrefetchAssumption DEF PrefetchAssumption

(* what TakeFresh starts to build                                          *)
LEMMA FreshStepType ==
    ASSUME pending \in Seq(Dojos), ready \in Seq(BuiltStep),
           nextSequence \in [Dojos -> Nat], Len(ready) < Len(pending)
    PROVE  /\ NextUnbuilt \in Dojos
           /\ [dojo |-> NextUnbuilt, sequence |-> nextSequence[NextUnbuilt],
               failed |-> FALSE, reservation |-> None] \in BuiltStep
<1>1. NextUnbuilt \in Dojos
  BY DEF NextUnbuilt
<1> QED
  BY <1>1 DEF BuiltStep

LEMMA StrippedType ==
    ASSUME NEW s \in BuiltStep
    PROVE  /\ Stripped(s) \in BuiltStep
           /\ Stripped(s).dojo = s.dojo
           /\ Stripped(s).sequence = s.sequence
           /\ Stripped(s).failed = s.failed
  BY DEF Stripped, BuiltStep

LEMMA MoveToLeftoversType ==
    ASSUME leftovers \in [Dojos -> SUBSET BuiltStep],
           NEW steps \in Seq(BuiltStep)
    PROVE  MoveToLeftovers(steps) \in [Dojos -> SUBSET BuiltStep]
  BY StrippedType DEF MoveToLeftovers

LEMMA ReservationsOfType ==
    ASSUME NEW steps \in Seq(BuiltStep)
    PROVE  ReservationsOf(steps) \in SUBSET Reservations
<1>0. \A i \in DOMAIN steps : steps[i] \in BuiltStep
  OBVIOUS
<1>1. \A i \in DOMAIN steps : steps[i].reservation \in Reservations \cup {None}
  BY <1>0 DEF BuiltStep
<1> SUFFICES ASSUME NEW r \in ReservationsOf(steps)
             PROVE  r \in Reservations
  OBVIOUS
<1>2. r # None /\ \E i \in DOMAIN steps : r = steps[i].reservation
  BY DEF ReservationsOf, Real
<1> QED
  BY <1>1, <1>2

LEMMA JobUpdateType ==
    ASSUME NEW s \in BuiltStep, NEW failed \in BOOLEAN,
           NEW r \in Reservations \cup {None}
    PROVE  /\ [s EXCEPT !.failed = failed] \in BuiltStep
           /\ [s EXCEPT !.reservation = r] \in BuiltStep
  BY DEF BuiltStep

LEMMA BuildType ==
    ASSUME job \in BuiltStep, Build
    PROVE  job' \in BuiltStep
<1> DEFINE failed == <<job.dojo, job.sequence>> \in Failing
<1>1. job' = [job EXCEPT !.failed = failed]
  BY DEF Build
<1>2. failed \in BOOLEAN
  OBVIOUS
<1> HIDE DEF failed
<1> QED
  BY <1>1, <1>2 DEF BuiltStep

LEMMA RealType ==
    ASSUME NEW r \in Reservations \cup {None}
    PROVE  Real({r}) \in SUBSET Reservations
  BY DEF Real

(* The part of the invariant that speaks of the worker only; the type of   *)
(* the step in progress rests on it.                                       *)
CoreInv == TypeOK /\ WorkerLife /\ JobWhileProducing

LEMMA CoreInvariant == Spec => []CoreInv
<1>1. Init => CoreInv
  <2> SUFFICES ASSUME Init PROVE CoreInv
    OBVIOUS
  <2>1. pending \in Seq(Dojos) /\ ready \in Seq(BuiltStep)
    BY DEF Init
  <2>2. leftovers \in [Dojos -> SUBSET BuiltStep]
    BY DEF Init
  <2>3. nextSequence \in [Dojos -> Nat] /\ delivered \in [Dojos -> Seq(Answered)]
    BY DEF Init
  <2>4. rounds \in 0..MaxRounds /\ reschedules \in 0..MaxReschedules
    BY BoundsAreNaturals DEF Init
  <2> QED
    BY <2>1, <2>2, <2>3, <2>4
    DEF Init, CoreInv, WorkerLife, TypeOK, JobWhileProducing, Producing
<1>2. CoreInv /\ [Next]_vars => TypeOK'
  <2> SUFFICES ASSUME CoreInv, [Next]_vars
               PROVE  TypeOK'
    OBVIOUS
  <2> USE DEF CoreInv
  <2>1. CASE Start
    BY <2>1 DEF Start, TypeOK, NotifyAll, roundVars, callVars, bounds
  <2>2. ASSUME NEW schedule \in Schedules, BeginRound(schedule)
        PROVE  TypeOK'
    BY <2>2, SchedulesAreSequences, BoundsAreNaturals DEF BeginRound, TypeOK, NotifyAll, workerVars, callVars
  <2>3. ASSUME NEW remaining \in Schedules, Reschedule(remaining)
        PROVE  TypeOK'
    <3>1. PICK keep \in 0..(Len(ready) + 1) :
            LET dropped == SubSeq(ready, keep + 1, Len(ready))
            IN  /\ inFlight' = IF inFlight # "none" /\ keep < Len(BuiltNames)
                               THEN "unwanted" ELSE inFlight
                /\ ready' = IF keep < Len(ready) THEN SubSeq(ready, 1, keep)
                                                 ELSE ready
                /\ leftovers' = MoveToLeftovers(dropped)
                /\ toRelease' = ReservationsOf(dropped)
      BY <2>3 DEF Reschedule
    <3> DEFINE dropped == SubSeq(ready, keep + 1, Len(ready))
    <3>2. dropped \in Seq(BuiltStep)
      BY DEF TypeOK
    <3>3. ready' \in Seq(BuiltStep)
      BY <3>1 DEF TypeOK
    <3>4. leftovers' \in [Dojos -> SUBSET BuiltStep]
      BY <3>1, <3>2, MoveToLeftoversType DEF TypeOK
    <3>5. toRelease' \in SUBSET Reservations
      BY <3>1, <3>2, ReservationsOfType
    <3>6. inFlight' \in {"none", "wanted", "unwanted"}
      BY <3>1 DEF TypeOK
    <3> QED
      BY <2>3, <3>3, <3>4, <3>5, <3>6, SchedulesAreSequences, BoundsAreNaturals
      DEF Reschedule, TypeOK, NotifyAll, workerVars
  <2>4. ASSUME NEW d \in Dojos, AskNext(d)
        PROVE  TypeOK'
    BY <2>4 DEF AskNext, TypeOK, roundVars, workerVars, bounds
  <2>5. CASE EndRound
    <3>1. Real({taken}) \in SUBSET Reservations
      BY RealType DEF TypeOK
    <3>2. pending' \in Seq(Dojos)
      BY <2>5 DEF EndRound
    <3>3. inFlight' \in {"none", "wanted", "unwanted"}
      BY <2>5 DEF EndRound
    <3> QED
      BY <2>5, <3>1, <3>2, <3>3 DEF EndRound, TypeOK, workerVars, bounds
  <2>6. CASE EndNoRound
    <3>1. Real({taken}) \in SUBSET Reservations
      BY RealType DEF TypeOK
    <3> QED
      BY <2>6, <3>1 DEF EndNoRound, TypeOK, roundVars, workerVars, bounds
  <2>7. CASE Close
    BY <2>7 DEF Close, TypeOK, NotifyAll, roundVars, workerVars, bounds
  <2>8. CASE RefuseStep
    BY <2>8 DEF RefuseStep, TypeOK, roundVars, workerVars, bounds
  <2>9. CASE WaitForStep
    BY <2>9 DEF WaitForStep, TypeOK, roundVars, workerVars, callVars, bounds
  <2>10. CASE StopAsking
    BY <2>10 DEF StopAsking, TypeOK, roundVars, workerVars, bounds
  <2>11. CASE TakeStep
    <3>1. Head(ready) \in BuiltStep /\ Tail(ready) \in Seq(BuiltStep)
      BY <2>11 DEF TakeStep, TypeOK
    <3>2. Answer(Head(ready)) \in Answered
      BY <3>1 DEF Answer, Answered, BuiltStep
    <3>3. taken' \in Reservations \cup {None}
      BY <2>11, <3>1 DEF TakeStep, BuiltStep
    <3>4. delivered' \in [Dojos -> Seq(Answered)]
      BY <2>11, <3>2 DEF TakeStep, TypeOK
    <3>5. pending' \in Seq(Dojos)
      BY <2>11 DEF TakeStep, TypeOK, IsNextStep
    <3> QED
      BY <2>11, <3>1, <3>3, <3>4, <3>5
      DEF TakeStep, TypeOK, NotifyAll, workerVars, bounds
  <2>12. CASE WaitForWorker
    BY <2>12 DEF WaitForWorker, TypeOK, roundVars, workerVars, callVars, bounds
  <2>13. CASE FinishEndRound
    <3>1. leftovers' \in [Dojos -> SUBSET BuiltStep]
      BY <2>13, MoveToLeftoversType DEF FinishEndRound, TypeOK
    <3>2. ReservationsOf(ready) \in SUBSET Reservations
      BY ReservationsOfType DEF TypeOK
    <3>3. ready' \in Seq(BuiltStep)
      BY <2>13 DEF FinishEndRound
    <3> QED
      BY <2>13, <3>1, <3>2, <3>3 DEF FinishEndRound, TypeOK, NotifyAll, workerVars, bounds
  <2>14. CASE FinishClose
    <3>1. ReservationsOf(ready) \in SUBSET Reservations
      BY ReservationsOfType DEF TypeOK
    <3>2. Real({taken}) \in SUBSET Reservations
      BY RealType DEF TypeOK
    <3>3. ready' \in Seq(BuiltStep) /\ pending' \in Seq(Dojos)
      BY <2>14 DEF FinishClose
    <3>4. leftovers' \in [Dojos -> SUBSET BuiltStep]
      BY <2>14 DEF FinishClose
    <3> QED
      BY <2>14, <3>1, <3>2, <3>3, <3>4 DEF FinishClose, TypeOK, NotifyAll, workerVars, bounds
  <2>15. CASE ReleaseEach
    BY <2>15 DEF ReleaseEach, TypeOK, roundVars, workerVars, bounds
  <2>16. CASE TakeLeftover
    BY <2>16 DEF TakeLeftover, IsOldest, HasWork, NextUnbuilt, TypeOK,
                 NotifyAll, roundVars, callVars, bounds
  <2>17. CASE TakeFresh
    <3>1. job' \in BuiltStep
      BY <2>17, FreshStepType DEF TakeFresh, HasWork, TypeOK
    <3>2. nextSequence' \in [Dojos -> Nat]
      BY <2>17, FreshStepType DEF TakeFresh, HasWork, TypeOK
    <3> QED
      BY <2>17, <3>1, <3>2 DEF TakeFresh, TypeOK, NotifyAll, roundVars,
                               callVars, bounds
  <2>18. CASE WaitForWork
    BY <2>18 DEF WaitForWork, TypeOK, roundVars, workerVars, callVars, bounds
  <2>19. CASE LeaveLoop
    BY <2>19 DEF LeaveLoop, TypeOK, roundVars, callVars, bounds
  <2>20. CASE Build
    <3>1. job \in BuiltStep
      BY <2>20 DEF Build, TypeOK, JobWhileProducing, Producing
    <3>2. job' \in BuiltStep
      BY <2>20, <3>1, BuildType
    <3> QED
      BY <2>20, <3>2 DEF Build, TypeOK, roundVars, callVars, bounds
  <2>21. CASE Reserve
    <3>1. job \in BuiltStep
      BY <2>21 DEF Reserve, TypeOK, JobWhileProducing, Producing
    <3>2. job' \in BuiltStep /\ outstanding' \in SUBSET Reservations
      <4> DEFINE new == CHOOSE r \in Reservations : r \notin outstanding
      <4>1. CASE UNCHANGED <<job, outstanding>>
        BY <3>1, <4>1 DEF TypeOK
      <4>2. CASE /\ Reservations \ outstanding # {}
                 /\ job' = [job EXCEPT !.reservation = new]
                 /\ outstanding' = outstanding \cup {new}
        <5>1. new \in Reservations
          BY <4>2
        <5> HIDE DEF new
        <5> QED
          BY <3>1, <4>2, <5>1, JobUpdateType DEF TypeOK
      <4> QED
        BY <2>21, <4>1, <4>2 DEF Reserve
    <3> QED
      BY <2>21, <3>2 DEF Reserve, TypeOK, roundVars, callVars, bounds
  <2>22. CASE Land
    <3>1. job \in BuiltStep
      BY <2>22 DEF Land, TypeOK, JobWhileProducing, Producing
    <3>2. ready' \in Seq(BuiltStep)
      BY <2>22, <3>1 DEF Land, TypeOK
    <3>3. leftovers' \in [Dojos -> SUBSET BuiltStep]
      <4>1. <<job>> \in Seq(BuiltStep)
        BY <3>1
      <4> QED
        BY <2>22, <4>1, MoveToLeftoversType DEF Land, TypeOK
    <3>4. job' \in BuiltStep \cup {None} /\ worker' \in {"waiting", "releasing"}
      BY <2>22, <3>1 DEF Land
    <3> QED
      BY <2>22, <3>2, <3>3, <3>4
      DEF Land, TypeOK, NotifyAll, roundVars, callVars, bounds
  <2>23. CASE ReleaseLanded
    BY <2>23 DEF ReleaseLanded, TypeOK, roundVars, callVars, bounds
  <2>24. CASE Die
    BY <2>24 DEF Die, TypeOK, NotifyAll, roundVars, callVars, bounds
  <2>25. CASE UNCHANGED vars
    BY <2>25 DEF vars, TypeOK, roundVars, workerVars, callVars, bounds
  <2> QED
    BY <2>1, <2>2, <2>3, <2>4, <2>5, <2>6, <2>7, <2>8, <2>9, <2>10, <2>11,
       <2>12, <2>13, <2>14, <2>15, <2>16, <2>17, <2>18, <2>19, <2>20, <2>21,
       <2>22, <2>23, <2>24, <2>25
    DEF Next, ConsumerCall, ConsumerStep, WorkerStep
<1>3. CoreInv /\ [Next]_vars => JobWhileProducing'
  <2> SUFFICES ASSUME CoreInv, [Next]_vars
               PROVE  JobWhileProducing'
    OBVIOUS
  <2> USE DEF CoreInv, JobWhileProducing, Producing
  <2>1. CASE ConsumerCall
    <3>1. UNCHANGED job /\ (worker' = worker \/ Start)
      BY <2>1 DEF ConsumerCall, Start, BeginRound, Reschedule, AskNext,
                  EndRound, EndNoRound, Close, workerVars
    <3>2. CASE Start
      BY <3>1, <3>2 DEF Start, WorkerLife, callVars, roundVars
    <3> QED
      BY <3>1, <3>2, <2>1 DEF ConsumerCall, BeginRound, Reschedule, AskNext,
                  EndRound, EndNoRound, Close, workerVars
  <2>2. CASE ConsumerStep
    BY <2>2 DEF ConsumerStep, RefuseStep, WaitForStep, StopAsking, TakeStep,
                WaitForWorker, FinishEndRound, FinishClose, ReleaseEach,
                workerVars
  <2>3. CASE TakeLeftover
    <3>1. job' \in BuiltStep /\ worker' \in {"landing", "reserving"}
      BY <2>3, FreshStepType DEF TakeLeftover, HasWork, TypeOK
    <3> QED
      BY <2>3, <3>1, NoneIsNoStep DEF TakeLeftover
  <2>4. CASE TakeFresh
    <3>1. job' \in BuiltStep
      BY <2>4, FreshStepType DEF TakeFresh, HasWork, TypeOK
    <3> QED
      BY <2>4, <3>1, NoneIsNoStep DEF TakeFresh
  <2>7. CASE Build
    <3>1. job \in BuiltStep
      BY <2>7 DEF Build, TypeOK
    <3>2. job' \in BuiltStep /\ worker' \in {"landing", "reserving"}
      BY <2>7, <3>1, BuildType DEF Build
    <3> QED
      BY <2>7, <3>2, NoneIsNoStep DEF Build
  <2>8. CASE Reserve
    <3>1. job \in BuiltStep
      BY <2>8 DEF Reserve, TypeOK
    <3>2. job' \in BuiltStep
      <4> DEFINE new == CHOOSE r \in Reservations : r \notin outstanding
      <4>1. CASE /\ Reservations \ outstanding # {}
                 /\ job' = [job EXCEPT !.reservation = new]
        <5>1. new \in Reservations
          BY <4>1
        <5> HIDE DEF new
        <5> QED
          BY <3>1, <4>1, <5>1, JobUpdateType
      <4> QED
        BY <2>8, <3>1, <4>1 DEF Reserve
    <3> QED
      BY <2>8, <3>2, NoneIsNoStep DEF Reserve
  <2>5. CASE WaitForWork \/ LeaveLoop \/ Land \/ ReleaseLanded \/ Die
    BY <2>5 DEF WaitForWork, LeaveLoop, Land, ReleaseLanded, Die, workerVars
  <2>6. CASE UNCHANGED vars
    BY <2>6 DEF vars, workerVars
  <2> QED
    BY <2>1, <2>2, <2>3, <2>4, <2>5, <2>6, <2>7, <2>8 DEF Next, WorkerStep
<1>4. CoreInv /\ [Next]_vars => WorkerLife'
  <2> SUFFICES ASSUME CoreInv, [Next]_vars
               PROVE  WorkerLife'
    OBVIOUS
  <2> USE DEF CoreInv, WorkerLife
  <2>1. CASE ConsumerCall
    BY <2>1 DEF ConsumerCall, Start, BeginRound, Reschedule, AskNext,
                EndRound, EndNoRound, Close, workerVars
  <2>2. CASE ConsumerStep
    BY <2>2 DEF ConsumerStep, RefuseStep, WaitForStep, StopAsking, TakeStep,
                WaitForWorker, FinishEndRound, FinishClose, ReleaseEach,
                workerVars
  <2>3. CASE WorkerStep
    BY <2>3 DEF WorkerStep, TakeLeftover, TakeFresh, WaitForWork, LeaveLoop,
                Build, Reserve, Land, ReleaseLanded, workerVars
  <2>4. CASE Die
    BY <2>4 DEF Die
  <2>5. CASE UNCHANGED vars
    BY <2>5 DEF vars, workerVars
  <2> QED
    BY <2>1, <2>2, <2>3, <2>4, <2>5 DEF Next
<1> QED
  BY <1>1, <1>2, <1>3, <1>4, PTL DEF Spec, CoreInv

(* Every field of PrefetchingBatchStreams keeps its type.                  *)
THEOREM TypeCorrect == Spec => []TypeOK
<1>1. CoreInv => TypeOK
  BY DEF CoreInv
<1> QED
  BY <1>1, CoreInvariant, PTL

-----------------------------------------------------------------------------
(* Rounds: what the worker may still be doing when the trainer's thread    *)
(* has the dojos to itself.                                                *)

LEMMA NoHiddenWork ==
    ASSUME CoreInv, RoundControl, roundOpen => pending = <<>>
    PROVE  ~HasWork
<1>1. Len(ready) \in Nat /\ Len(pending) \in Nat
  BY DEF CoreInv, TypeOK
<1>2. HasWork => Len(pending) = 0
  BY DEF HasWork
<1> QED
  BY <1>1, <1>2 DEF HasWork

LEMMA RoundControlStep ==
    ASSUME CoreInv, RoundControl, [Next]_vars
    PROVE  RoundControl'
<1> USE DEF RoundControl
<1>1. CASE ConsumerCall
  BY <1>1 DEF ConsumerCall, Start, BeginRound, Reschedule, AskNext, EndRound,
              EndNoRound, Close, roundVars, callVars
<1>2. CASE RefuseStep \/ WaitForStep \/ StopAsking \/ TakeStep
  BY <1>2 DEF RefuseStep, WaitForStep, StopAsking, TakeStep, IsNextStep,
              roundVars, callVars
<1>3. CASE WaitForWorker \/ FinishEndRound
  BY <1>3 DEF WaitForWorker, FinishEndRound, WorkerIdle, roundVars, callVars
<1>4. CASE FinishClose
  <2>1. inFlight = "none"
    BY <1>4 DEF FinishClose, WorkerStopped, CoreInv, JobWhileProducing, Producing
  <2> QED
    BY <1>4, <2>1 DEF FinishClose
<1>5. CASE ReleaseEach
  BY <1>5 DEF ReleaseEach, roundVars
<1>6. CASE TakeLeftover \/ TakeFresh
  <2>1. roundOpen /\ pending # <<>>
    BY <1>6, NoHiddenWork DEF TakeLeftover, TakeFresh, HasWork
  <2> QED
    BY <1>6, <2>1 DEF TakeLeftover, TakeFresh, roundVars, callVars
<1>7. CASE WaitForWork \/ LeaveLoop \/ Build \/ Reserve \/ ReleaseLanded
  BY <1>7 DEF WaitForWork, LeaveLoop, Build, Reserve, ReleaseLanded,
              roundVars, workerVars, callVars
<1>8. CASE Land
  <2>1. roundOpen
    BY <1>8 DEF Land, CoreInv, JobWhileProducing, Producing
  <2> QED
    BY <1>8, <2>1 DEF Land, roundVars, callVars
<1>9. CASE Die
  BY <1>9 DEF Die, roundVars, callVars
<1>10. CASE UNCHANGED vars
  BY <1>10 DEF vars, roundVars, callVars
<1> QED
  BY <1>1, <1>2, <1>3, <1>4, <1>5, <1>6, <1>7, <1>8, <1>9, <1>10
  DEF Next, ConsumerStep, WorkerStep

LEMMA RoundControlled == Spec => []RoundControl
<1>1. Init => RoundControl
  BY DEF Init, RoundControl
<1> QED
  BY <1>1, RoundControlStep, CoreInvariant, PTL DEF Spec

(* From the end of end_round to the next begin_round the worker neither    *)
(* builds nor reserves: evaluation has the dojos to itself.                *)
THEOREM Quiet == Spec => []QuietBetweenRounds
<1>1. CoreInv /\ RoundControl => QuietBetweenRounds
  BY DEF CoreInv, RoundControl, JobWhileProducing, QuietBetweenRounds
<1> QED
  BY <1>1, RoundControlled, CoreInvariant, PTL

-----------------------------------------------------------------------------
(* The schedule: the queue never holds what the trainer will not ask for.  *)

LEMMA MoveToLeftoversByDojo ==
    ASSUME CoreInv, LeftoversByDojo, NEW steps \in Seq(BuiltStep)
    PROVE  \A d \in Dojos : \A s \in MoveToLeftovers(steps)[d] : s.dojo = d
<1> SUFFICES ASSUME NEW d \in Dojos, NEW s \in MoveToLeftovers(steps)[d]
             PROVE  s.dojo = d
  OBVIOUS
<1>1. CASE s \in leftovers[d]
  BY <1>1 DEF LeftoversByDojo
<1>2. CASE s \notin leftovers[d]
  <2>1. PICK i \in DOMAIN steps : steps[i].dojo = d /\ s = Stripped(steps[i])
    BY <1>2 DEF MoveToLeftovers
  <2>2. steps[i] \in BuiltStep
    OBVIOUS
  <2> QED
    BY <2>1, <2>2, StrippedType
<1> QED
  BY <1>1, <1>2

LEMMA LeftoversByDojoStep ==
    ASSUME CoreInv, LeftoversByDojo, [Next]_vars
    PROVE  LeftoversByDojo'
<1>1. CASE leftovers' = leftovers
  BY <1>1 DEF LeftoversByDojo
<1>2. ASSUME NEW steps \in Seq(BuiltStep), leftovers' = MoveToLeftovers(steps)
      PROVE  LeftoversByDojo'
  BY <1>2, MoveToLeftoversByDojo DEF LeftoversByDojo
<1>3. ASSUME NEW remaining \in Schedules, Reschedule(remaining)
      PROVE  LeftoversByDojo'
  <2>1. PICK keep \in 0..(Len(ready) + 1) :
          leftovers' = MoveToLeftovers(SubSeq(ready, keep + 1, Len(ready)))
    BY <1>3 DEF Reschedule
  <2>2. SubSeq(ready, keep + 1, Len(ready)) \in Seq(BuiltStep)
    BY DEF CoreInv, TypeOK
  <2> QED
    BY <1>2, <2>1, <2>2
<1>4. CASE FinishEndRound
  BY <1>2, <1>4 DEF FinishEndRound, CoreInv, TypeOK
<1>5. CASE FinishClose
  BY <1>5 DEF FinishClose, LeftoversByDojo
<1>6. CASE TakeLeftover
  <2>1. PICK step : leftovers' =
          [leftovers EXCEPT ![NextUnbuilt] = leftovers[NextUnbuilt] \ {step}]
    BY <1>6 DEF TakeLeftover
  <2>2. \A d \in Dojos : leftovers'[d] \subseteq leftovers[d]
    BY <2>1 DEF CoreInv, TypeOK
  <2> QED
    BY <2>2 DEF LeftoversByDojo
<1>7. CASE Land
  <2>1. job \in BuiltStep
    BY <1>7 DEF Land, CoreInv, TypeOK, JobWhileProducing, Producing
  <2>2. <<job>> \in Seq(BuiltStep)
    BY <2>1
  <2>3. leftovers' = leftovers \/ leftovers' = MoveToLeftovers(<<job>>)
    BY <1>7 DEF Land
  <2> QED
    BY <1>1, <1>2, <2>2, <2>3
<1> QED
  BY <1>1, <1>3, <1>4, <1>5, <1>6, <1>7
  DEF Next, ConsumerCall, ConsumerStep, WorkerStep, Start, BeginRound, AskNext,
      EndRound, EndNoRound, Close, RefuseStep, WaitForStep, StopAsking,
      TakeStep, WaitForWorker, ReleaseEach, TakeFresh, WaitForWork, LeaveLoop,
      Build, Reserve, ReleaseLanded, Die, vars

LEMMA LeftoversFiled == Spec => []LeftoversByDojo
<1>1. Init => LeftoversByDojo
  BY DEF Init, LeftoversByDojo
<1> QED
  BY <1>1, LeftoversByDojoStep, CoreInvariant, PTL DEF Spec

(* what BuiltNames is                                                      *)
LEMMA BuiltNamesFacts ==
    ASSUME CoreInv
    PROVE  /\ BuiltNames \in Seq(Dojos)
           /\ Len(BuiltNames) =
                Len(ready) + (IF inFlight = "wanted" THEN 1 ELSE 0)
           /\ \A i \in 1..Len(ready) : BuiltNames[i] = ready[i].dojo
           /\ inFlight = "wanted" => BuiltNames[Len(ready) + 1] = job.dojo
<1> DEFINE queued == [i \in 1..Len(ready) |-> ready[i].dojo]
           flying == IF inFlight = "wanted" THEN <<job.dojo>> ELSE <<>>
<1>1. \A i \in 1..Len(ready) : ready[i] \in BuiltStep
  BY DEF CoreInv, TypeOK
<1>2. \A i \in 1..Len(ready) : ready[i].dojo \in Dojos
  BY <1>1 DEF BuiltStep
<1>3. Len(ready) \in Nat
  BY DEF CoreInv, TypeOK
<1>4. queued \in Seq(Dojos) /\ Len(queued) = Len(ready)
  BY <1>2, <1>3
<1>5. inFlight = "wanted" => job.dojo \in Dojos
  BY DEF CoreInv, TypeOK, JobWhileProducing, Producing, BuiltStep
<1>6. flying \in Seq(Dojos)
      /\ Len(flying) = (IF inFlight = "wanted" THEN 1 ELSE 0)
      /\ (inFlight = "wanted" => flying[1] = job.dojo)
  BY <1>5
<1>7. BuiltNames = queued \o flying
  BY DEF BuiltNames
<1>8. \A i \in 1..Len(ready) : queued[i] = ready[i].dojo
  OBVIOUS
<1> HIDE DEF queued, flying
<1>9. /\ BuiltNames \in Seq(Dojos)
      /\ Len(BuiltNames) = Len(queued) + Len(flying)
      /\ \A i \in 1..Len(BuiltNames) : BuiltNames[i] =
           IF i <= Len(queued) THEN queued[i] ELSE flying[i - Len(queued)]
  BY <1>4, <1>6, <1>7
<1>10. \A i \in 1..Len(ready) : BuiltNames[i] = ready[i].dojo
  <2>1. Len(flying) \in Nat
    BY <1>6
  <2> QED
    BY <1>3, <1>4, <1>8, <1>9, <2>1
<1>11. inFlight = "wanted" => BuiltNames[Len(ready) + 1] = job.dojo
  <2> SUFFICES ASSUME inFlight = "wanted"
               PROVE  BuiltNames[Len(ready) + 1] = job.dojo
    OBVIOUS
  <2>1. Len(flying) = 1 /\ flying[1] = job.dojo
    BY <1>6
  <2>2. Len(ready) + 1 \in 1..Len(BuiltNames)
    BY <2>1, <1>3, <1>4, <1>9
  <2>3. BuiltNames[Len(ready) + 1] = flying[Len(ready) + 1 - Len(ready)]
    BY <2>2, <1>3, <1>4, <1>9
  <2>4. Len(ready) + 1 - Len(ready) = 1
    BY <1>3
  <2> QED
    BY <2>1, <2>3, <2>4
<1> QED
  BY <1>4, <1>6, <1>9, <1>10, <1>11

LEMMA FollowsStep ==
    ASSUME CoreInv, RoundControl, LeftoversByDojo, BuiltFollowsSchedule,
           [Next]_vars
    PROVE  BuiltFollowsSchedule'
<1>0. Len(ready) \in Nat /\ Len(pending) \in Nat /\ Depth \in Nat \ {0}
  BY PrefetchAssumption DEF PrefetchAssumption, CoreInv, TypeOK
<1>1. CASE UNCHANGED <<ready, pending, inFlight, job, consumer>>
  BY <1>1 DEF BuiltFollowsSchedule
<1>2. CASE UNCHANGED <<ready, pending, inFlight, job>>
           /\ consumer # "ending"
  BY <1>2 DEF BuiltFollowsSchedule
<1>3. ASSUME NEW schedule \in Schedules, BeginRound(schedule)
      PROVE  BuiltFollowsSchedule'
  <2>1. ready' = <<>> /\ inFlight' = "none" /\ pending' \in Seq(Dojos)
    BY <1>3, SchedulesAreSequences DEF BeginRound, RoundControl
  <2> QED
    BY <1>0, <2>1 DEF BuiltFollowsSchedule
<1>4. ASSUME NEW remaining \in Schedules, Reschedule(remaining)
      PROVE  BuiltFollowsSchedule'
  <2>1. PICK keep \in 0..(Len(ready) + 1) :
          /\ IsMatchingPrefixLength(keep, BuiltNames, remaining)
          /\ inFlight' = IF inFlight # "none" /\ keep < Len(BuiltNames)
                         THEN "unwanted" ELSE inFlight
          /\ ready' = IF keep < Len(ready) THEN SubSeq(ready, 1, keep)
                                           ELSE ready
    BY <1>4 DEF Reschedule
  <2>2. keep <= Len(BuiltNames) /\ keep <= Len(remaining)
        /\ \A i \in 1..keep : BuiltNames[i] = remaining[i]
    BY <2>1 DEF IsMatchingPrefixLength
  <2>3. remaining \in Seq(Dojos) /\ Len(remaining) \in Nat
    BY SchedulesAreSequences
  <2>4. pending' = remaining /\ job' = job /\ consumer' # "ending"
    BY <1>4 DEF Reschedule, workerVars
  <2>5. Len(ready') <= keep /\ Len(ready') <= Len(ready) /\ Len(ready') \in Nat
        /\ \A i \in 1..Len(ready') : ready'[i] = ready[i]
    <3>1. CASE keep < Len(ready)
      <4>1. ready' = SubSeq(ready, 1, keep)
        BY <2>1, <3>1
      <4> QED
        BY <4>1, <3>1, <1>0 DEF CoreInv, TypeOK
    <3>2. CASE ~(keep < Len(ready))
      BY <2>1, <3>2, <1>0
    <3> QED
      BY <3>1, <3>2
  <2>6. \A i \in 1..Len(ready') : ready'[i].dojo = remaining[i]
    BY <2>2, <2>5, <1>0, BuiltNamesFacts
  <2>7. ASSUME inFlight' = "wanted"
        PROVE  /\ inFlight = "wanted" /\ keep = Len(ready) + 1
               /\ ready' = ready
    BY <2>1, <2>2, <2>7, <1>0, BuiltNamesFacts
  <2>8. inFlight' = "wanted" => job.dojo = remaining[Len(ready) + 1]
    BY <2>2, <2>7, <1>0, BuiltNamesFacts
  <2>9. Len(ready) <= Depth /\ (inFlight = "wanted" => Len(ready) < Depth)
    BY DEF BuiltFollowsSchedule
  <2> QED
    BY <2>2, <2>3, <2>4, <2>5, <2>6, <2>7, <2>8, <2>9, <1>0
    DEF BuiltFollowsSchedule
<1>5. CASE EndRound
  BY <1>5, <1>0 DEF EndRound, BuiltFollowsSchedule, workerVars
<1>6. CASE TakeStep
  <2>1. consumer # "ending" /\ consumer' # "ending" /\ UNCHANGED <<inFlight, job>>
    BY <1>6 DEF TakeStep, workerVars
  <2>2. ready # <<>> /\ pending # <<>>
        /\ ready' = Tail(ready) /\ pending' = Tail(pending)
    BY <1>6 DEF TakeStep, IsNextStep
  <2>3. /\ Len(ready') = Len(ready) - 1 /\ Len(pending') = Len(pending) - 1
        /\ \A i \in 1..Len(ready') : ready'[i] = ready[i + 1]
        /\ \A i \in 1..Len(pending') : pending'[i] = pending[i + 1]
    BY <2>2, <1>0 DEF CoreInv, TypeOK
  <2>4. Len(ready) # 0
    BY <2>2, <1>0 DEF CoreInv, TypeOK
  <2>5. /\ Len(ready) <= Len(pending) /\ Len(ready) <= Depth
        /\ \A i \in 1..Len(ready) : ready[i].dojo = pending[i]
        /\ inFlight = "wanted" =>
             /\ Len(ready) < Depth /\ Len(ready) < Len(pending)
             /\ job.dojo = pending[Len(ready) + 1]
    BY <2>1 DEF BuiltFollowsSchedule
  <2>6. \A i \in 1..Len(ready') : ready'[i].dojo = pending'[i]
    <3> SUFFICES ASSUME NEW i \in 1..Len(ready')
                 PROVE  ready'[i].dojo = pending'[i]
      OBVIOUS
    <3>1. i \in 1..Len(pending') /\ i + 1 \in 1..Len(ready)
      BY <2>3, <2>4, <2>5, <1>0
    <3> QED
      BY <3>1, <2>3, <2>5
  <2>7. inFlight = "wanted" =>
          /\ Len(ready') < Len(pending')
          /\ job.dojo = pending'[Len(ready') + 1]
    <3> SUFFICES ASSUME inFlight = "wanted"
                 PROVE  /\ Len(ready') < Len(pending')
                        /\ job.dojo = pending'[Len(ready') + 1]
      OBVIOUS
    <3>1. Len(ready') + 1 \in 1..Len(pending') /\ Len(ready') + 2 = Len(ready) + 1
      BY <2>3, <2>4, <2>5, <1>0
    <3>2. pending'[Len(ready') + 1] = pending[Len(ready') + 1 + 1]
      BY <3>1, <2>3
    <3>3. Len(ready') + 1 + 1 = Len(ready) + 1
      BY <2>3, <1>0
    <3>4. Len(ready') < Len(pending')
      BY <2>3, <2>5, <1>0
    <3>5. job.dojo = pending[Len(ready) + 1]
      BY <2>5
    <3> QED
      BY <3>2, <3>3, <3>4, <3>5
  <2>8. /\ Len(ready') <= Len(pending') /\ Len(ready') <= Depth
        /\ inFlight = "wanted" => Len(ready') < Depth
    BY <2>3, <2>5, <1>0
  <2> QED
    BY <2>1, <2>6, <2>7, <2>8 DEF BuiltFollowsSchedule
<1>7. CASE FinishEndRound
  BY <1>7, <1>0 DEF FinishEndRound, WorkerIdle, workerVars, BuiltFollowsSchedule
<1>8. CASE FinishClose
  <2>1. inFlight = "none"
    BY <1>8 DEF FinishClose, WorkerStopped, CoreInv, JobWhileProducing, Producing
  <2> QED
    BY <1>8, <2>1, <1>0 DEF FinishClose, BuiltFollowsSchedule
<1>9. CASE TakeLeftover \/ TakeFresh
  <2>1. HasWork /\ UNCHANGED <<ready, pending, consumer>>
    BY <1>9 DEF TakeLeftover, TakeFresh, roundVars, callVars
  <2>2. NextUnbuilt \in Dojos
    BY <2>1, FreshStepType DEF HasWork, CoreInv, TypeOK
  <2>3. job'.dojo = NextUnbuilt
    <3>1. CASE TakeLeftover
      BY <3>1, <2>2 DEF TakeLeftover, LeftoversByDojo
    <3>2. CASE TakeFresh
      BY <3>2 DEF TakeFresh
    <3> QED
      BY <3>1, <3>2, <1>9
  <2>4. Len(ready) < Depth /\ Len(ready) < Len(pending)
    BY <2>1 DEF HasWork
  <2> QED
    BY <2>1, <2>3, <2>4, <1>0 DEF BuiltFollowsSchedule, NextUnbuilt
<1>10. CASE Build \/ Reserve
  <2>1. UNCHANGED <<ready, pending, inFlight, consumer>>
    BY <1>10 DEF Build, Reserve, roundVars, callVars
  <2>2. job \in BuiltStep
    BY <1>10 DEF Build, Reserve, CoreInv, TypeOK, JobWhileProducing, Producing
  <2>3. job'.dojo = job.dojo
    BY <1>10, <2>2 DEF Build, Reserve, BuiltStep
  <2> QED
    BY <2>1, <2>3 DEF BuiltFollowsSchedule
<1>11. CASE Land
  <2>1. UNCHANGED <<pending, consumer>> /\ inFlight' = "none"
    BY <1>11 DEF Land, roundVars, callVars
  <2>2. CASE ready' = ready
    BY <2>1, <2>2 DEF BuiltFollowsSchedule
  <2>3. CASE ready' = Append(ready, job) /\ inFlight = "wanted"
    <3>1. job \in BuiltStep
      BY <1>11 DEF Land, CoreInv, TypeOK, JobWhileProducing, Producing
    <3>2. Len(ready') = Len(ready) + 1 /\ ready'[Len(ready) + 1] = job
          /\ \A i \in 1..Len(ready) : ready'[i] = ready[i]
      BY <2>3, <3>1 DEF CoreInv, TypeOK
    <3> QED
      BY <2>1, <2>3, <3>2, <1>0 DEF BuiltFollowsSchedule
  <2> QED
    BY <1>11, <2>2, <2>3 DEF Land
<1>12. CASE ReleaseLanded
  <2>1. inFlight = "none"
    BY <1>12 DEF ReleaseLanded, CoreInv, JobWhileProducing, Producing
  <2> QED
    BY <1>12, <2>1 DEF ReleaseLanded, BuiltFollowsSchedule, roundVars, callVars
<1>13. CASE Die
  BY <1>13, <1>0 DEF Die, BuiltFollowsSchedule, roundVars, callVars
<1>14. CASE Start \/ (\E d \in Dojos : AskNext(d)) \/ EndNoRound \/ Close
  BY <1>14, <1>2 DEF Start, AskNext, EndNoRound, Close, roundVars, workerVars, callVars
<1>15. CASE \/ RefuseStep \/ WaitForStep \/ StopAsking \/ WaitForWorker
            \/ ReleaseEach
  BY <1>15, <1>1, <1>2 DEF RefuseStep, WaitForStep, StopAsking, WaitForWorker,
     ReleaseEach, roundVars, workerVars, callVars
<1>16. CASE WaitForWork \/ LeaveLoop \/ UNCHANGED vars
  BY <1>16, <1>1 DEF WaitForWork, LeaveLoop, vars, roundVars, workerVars, callVars
<1> QED
  BY <1>3, <1>4, <1>5, <1>6, <1>7, <1>8, <1>9, <1>10, <1>11, <1>12, <1>13,
     <1>14, <1>15, <1>16
  DEF Next, ConsumerCall, ConsumerStep, WorkerStep

(* The worker builds the scheduled steps in order, at most Depth of them   *)
(* ahead, whatever reschedules it meets on the way.                        *)
THEOREM FollowsSchedule == Spec => []BuiltFollowsSchedule
<1>1. Init => BuiltFollowsSchedule
  BY PrefetchAssumption DEF PrefetchAssumption, Init, BuiltFollowsSchedule
<1> QED
  BY <1>1, FollowsStep, CoreInvariant, RoundControlled, LeftoversFiled, PTL
  DEF Spec

-----------------------------------------------------------------------------
(* Pins: every reservation the cache holds for the feed has one owner.     *)

LEMMA ReservationsOfMember ==
    ASSUME NEW steps \in Seq(BuiltStep), NEW r
    PROVE  r \in ReservationsOf(steps) <=>
             r # None /\ \E i \in 1..Len(steps) : steps[i].reservation = r
  BY DEF ReservationsOf, Real

LEMMA ReservationsOfEmpty == ReservationsOf(<<>>) = {}
  BY DEF ReservationsOf, Real

(* the pins of a queue and of its two parts                                *)
LEMMA ReservationsOfParts ==
    ASSUME NEW steps \in Seq(BuiltStep), NEW k \in 0..Len(steps),
           NoPinTwice(steps)
    PROVE  LET front == SubSeq(steps, 1, k)
               back == SubSeq(steps, k + 1, Len(steps))
           IN  /\ front \in Seq(BuiltStep) /\ back \in Seq(BuiltStep)
               /\ ReservationsOf(front) \cup ReservationsOf(back)
                    = ReservationsOf(steps)
               /\ ReservationsOf(front) \cap ReservationsOf(back) = {}
               /\ NoPinTwice(front)
<1> DEFINE front == SubSeq(steps, 1, k)
           back == SubSeq(steps, k + 1, Len(steps))
<1>0. Len(steps) \in Nat /\ k \in Nat /\ k <= Len(steps)
  OBVIOUS
<1>1. /\ front \in Seq(BuiltStep) /\ Len(front) = k
      /\ \A i \in 1..k : front[i] = steps[i]
  BY <1>0
<1>2. /\ back \in Seq(BuiltStep) /\ Len(back) = Len(steps) - k
      /\ \A i \in 1..(Len(steps) - k) : back[i] = steps[k + i]
  BY <1>0
<1> HIDE DEF front, back
<1>3. ASSUME NEW r
      PROVE  /\ r \in ReservationsOf(front) <=>
                  r # None /\ \E i \in 1..k : steps[i].reservation = r
             /\ r \in ReservationsOf(back) <=>
                  r # None /\ \E i \in (k + 1)..Len(steps) :
                                steps[i].reservation = r
  <2>1. r \in ReservationsOf(front) <=>
          r # None /\ \E i \in 1..k : steps[i].reservation = r
    BY <1>1, ReservationsOfMember
  <2>2. r \in ReservationsOf(back) <=>
          r # None /\ \E i \in 1..(Len(steps) - k) :
                        steps[k + i].reservation = r
    <3>1. r \in ReservationsOf(back) <=>
            r # None /\ \E i \in 1..Len(back) : back[i].reservation = r
      BY ONLY <1>2, ReservationsOfMember
    <3>2. /\ Len(back) = Len(steps) - k
          /\ \A i \in 1..(Len(steps) - k) :
               back[i].reservation = steps[k + i].reservation
      BY <1>2
    <3> QED
      BY ONLY <3>1, <3>2
  <2>3. (\E i \in 1..(Len(steps) - k) : steps[k + i].reservation = r)
          <=> \E i \in (k + 1)..Len(steps) : steps[i].reservation = r
    <3>1. ASSUME NEW i \in 1..(Len(steps) - k), steps[k + i].reservation = r
          PROVE  \E j \in (k + 1)..Len(steps) : steps[j].reservation = r
      <4>1. k + i \in (k + 1)..Len(steps)
        BY <1>0
      <4> QED
        BY <3>1, <4>1
    <3>2. ASSUME NEW j \in (k + 1)..Len(steps), steps[j].reservation = r
          PROVE  \E i \in 1..(Len(steps) - k) : steps[k + i].reservation = r
      <4>1. j - k \in 1..(Len(steps) - k) /\ k + (j - k) = j
        BY <1>0
      <4> QED
        BY <3>2, <4>1
    <3> QED
      BY <3>1, <3>2
  <2> QED
    BY <2>1, <2>2, <2>3
<1>4. ReservationsOf(front) \cup ReservationsOf(back) = ReservationsOf(steps)
  <2> SUFFICES ASSUME NEW r
               PROVE  r \in ReservationsOf(front) \cup ReservationsOf(back)
                        <=> r \in ReservationsOf(steps)
    OBVIOUS
  <2>1. r \in ReservationsOf(steps) <=>
          r # None /\ \E i \in 1..Len(steps) : steps[i].reservation = r
    BY ReservationsOfMember
  <2>2. 1..Len(steps) = (1..k) \cup ((k + 1)..Len(steps))
    BY <1>0
  <2> QED
    BY <1>3, <2>1, <2>2
<1>5. ReservationsOf(front) \cap ReservationsOf(back) = {}
  <2> SUFFICES ASSUME NEW r \in ReservationsOf(front),
                      r \in ReservationsOf(back)
               PROVE  FALSE
    OBVIOUS
  <2>1. PICK i \in 1..k : r # None /\ steps[i].reservation = r
    BY <1>3
  <2>2. PICK j \in (k + 1)..Len(steps) : steps[j].reservation = r
    BY <1>3
  <2>3. i # j /\ i \in DOMAIN steps /\ j \in DOMAIN steps
    BY <1>0
  <2> QED
    BY <2>1, <2>2, <2>3 DEF NoPinTwice
<1>6. NoPinTwice(front)
  <2>1. DOMAIN front \subseteq DOMAIN steps
        /\ \A i \in DOMAIN front : front[i] = steps[i]
    BY <1>0, <1>1
  <2> QED
    BY <2>1 DEF NoPinTwice
<1> QED
  BY <1>1, <1>2, <1>4, <1>5, <1>6 DEF front, back

LEMMA ReservationsOfAppend ==
    ASSUME NEW steps \in Seq(BuiltStep), NEW s \in BuiltStep
    PROVE  ReservationsOf(Append(steps, s))
             = ReservationsOf(steps) \cup Real({s.reservation})
<1> SUFFICES ASSUME NEW r
             PROVE  r \in ReservationsOf(Append(steps, s)) <=>
                      r \in ReservationsOf(steps) \cup Real({s.reservation})
  OBVIOUS
<1>0. Len(steps) \in Nat
  OBVIOUS
<1>1. /\ Append(steps, s) \in Seq(BuiltStep)
      /\ Len(Append(steps, s)) = Len(steps) + 1
      /\ \A i \in 1..Len(steps) : Append(steps, s)[i] = steps[i]
      /\ Append(steps, s)[Len(steps) + 1] = s
  OBVIOUS
<1>2. 1..(Len(steps) + 1) = (1..Len(steps)) \cup {Len(steps) + 1}
  BY <1>0
<1>3. r \in ReservationsOf(Append(steps, s)) <=>
        r # None /\ \E i \in 1..(Len(steps) + 1) :
                      Append(steps, s)[i].reservation = r
  BY <1>1, ReservationsOfMember
<1>4. r \in ReservationsOf(steps) <=>
        r # None /\ \E i \in 1..Len(steps) : steps[i].reservation = r
  BY ReservationsOfMember
<1> QED
  BY <1>1, <1>2, <1>3, <1>4 DEF Real

(* As many pins as steps that have some, if no two share theirs.           *)
LEMMA ReservationsOfCount ==
    ASSUME NEW steps \in Seq(BuiltStep)
    PROVE  /\ IsFiniteSet(ReservationsOf(steps))
           /\ NoPinTwice(steps) =>
                Cardinality(ReservationsOf(steps)) =
                  Cardinality({i \in DOMAIN steps : steps[i].reservation # None})
<1> DEFINE S == {i \in DOMAIN steps : steps[i].reservation # None}
           T == ReservationsOf(steps)
           f == [i \in S |-> steps[i].reservation]
<1>1. IsFiniteSet(S)
  <2>1. Len(steps) \in Nat /\ S \in SUBSET (1..Len(steps))
    OBVIOUS
  <2>2. IsFiniteSet(1..Len(steps))
    BY <2>1, FS_Interval
  <2> QED
    BY <2>1, <2>2, FS_Subset
<1>2. \A i \in S : f[i] = steps[i].reservation /\ f[i] \in T
  BY DEF ReservationsOf, Real
<1>3. f \in [S -> T]
  BY <1>2
<1>4. \A r \in T : \E i \in S : f[i] = r
  BY DEF ReservationsOf, Real
<1>5. f \in Surjection(S, T)
  BY <1>3, <1>4 DEF Surjection
<1>6. NoPinTwice(steps) => f \in Injection(S, T)
  BY <1>2, <1>3 DEF NoPinTwice, Injection, IsInjective
<1> HIDE DEF S, T, f
<1>7. IsFiniteSet(T) /\ (Cardinality(T) = Cardinality(S) <=> f \in Injection(S, T))
  BY <1>1, <1>5, FS_Surjection
<1> QED
  BY <1>6, <1>7 DEF S, T

(* The call's list of pins to release, between calls and during them.      *)
LEMMA ReleaseListStep ==
    ASSUME CoreInv, ReleaseList, [Next]_vars
    PROVE  ReleaseList'
<1> USE DEF ReleaseList
<1>1. IsFiniteSet({}) /\ IsFiniteSet(Real({taken}))
  <2>1. IsFiniteSet({taken}) /\ Real({taken}) \in SUBSET {taken}
    BY FS_Singleton DEF Real
  <2> QED
    BY <2>1, FS_Subset, FS_EmptySet
<1>2. CASE UNCHANGED <<toRelease, consumer>>
  BY <1>2
<1>3. CASE toRelease' = toRelease /\ consumer \notin {"ending", "releasing"}
  BY <1>3
<1>4. ASSUME NEW remaining \in Schedules, Reschedule(remaining)
      PROVE  ReleaseList'
  <2>1. PICK keep \in 0..(Len(ready) + 1) :
          toRelease' = ReservationsOf(SubSeq(ready, keep + 1, Len(ready)))
    BY <1>4 DEF Reschedule
  <2>2. SubSeq(ready, keep + 1, Len(ready)) \in Seq(BuiltStep)
    BY DEF CoreInv, TypeOK
  <2>3. IsFiniteSet(toRelease')
    BY <2>1, <2>2, ReservationsOfCount
  <2> QED
    BY <1>4, <2>3 DEF Reschedule
<1>5. CASE EndRound \/ EndNoRound
  BY <1>1, <1>5 DEF EndRound, EndNoRound
<1>6. CASE FinishEndRound \/ FinishClose
  <2>1. IsFiniteSet(ReservationsOf(ready))
    BY ReservationsOfCount DEF CoreInv, TypeOK
  <2>2. IsFiniteSet(toRelease \cup ReservationsOf(ready))
        /\ IsFiniteSet(Real({taken}) \cup ReservationsOf(ready))
    BY <1>1, <2>1, FS_Union
  <2> QED
    BY <1>6, <2>2 DEF FinishEndRound, FinishClose
<1>7. CASE ReleaseEach
  BY <1>1, <1>7 DEF ReleaseEach
<1>8. CASE \/ Start \/ (\E schedule \in Schedules : BeginRound(schedule))
           \/ (\E d \in Dojos : AskNext(d)) \/ Close
           \/ RefuseStep \/ StopAsking \/ TakeStep
  BY <1>3, <1>8 DEF Start, BeginRound, AskNext, Close, RefuseStep, StopAsking,
                    TakeStep, callVars
<1>9. CASE WaitForStep \/ WaitForWorker \/ WorkerStep \/ Die \/ UNCHANGED vars
  BY <1>2, <1>9 DEF WaitForStep, WaitForWorker, WorkerStep, TakeLeftover,
     TakeFresh, WaitForWork, LeaveLoop, Build, Reserve, Land, ReleaseLanded,
     Die, vars, callVars
<1> QED
  BY <1>4, <1>5, <1>6, <1>7, <1>8, <1>9 DEF Next, ConsumerCall, ConsumerStep

LEMMA StrippedHasNoPins ==
    ASSUME LeftoversUnpinned, TypeOK, NEW steps \in Seq(BuiltStep)
    PROVE  \A d \in Dojos : \A s \in MoveToLeftovers(steps)[d] :
             s.reservation = None
<1> SUFFICES ASSUME NEW d \in Dojos, NEW s \in MoveToLeftovers(steps)[d]
             PROVE  s.reservation = None
  OBVIOUS
<1>1. CASE s \in leftovers[d]
  BY <1>1 DEF LeftoversUnpinned
<1>2. CASE s \notin leftovers[d]
  <2>1. PICK i \in DOMAIN steps : s = Stripped(steps[i])
    BY <1>2 DEF MoveToLeftovers
  <2>2. steps[i] \in BuiltStep
    OBVIOUS
  <2> QED
    BY <2>1, <2>2 DEF Stripped, BuiltStep
<1> QED
  BY <1>1, <1>2

LEMMA LeftoversUnpinnedStep ==
    ASSUME CoreInv, LeftoversUnpinned, [Next]_vars
    PROVE  LeftoversUnpinned'
<1>0. TypeOK
  BY DEF CoreInv
<1>1. CASE leftovers' = leftovers
  BY <1>1 DEF LeftoversUnpinned
<1>2. ASSUME NEW steps \in Seq(BuiltStep), leftovers' = MoveToLeftovers(steps)
      PROVE  LeftoversUnpinned'
  BY <1>0, <1>2, StrippedHasNoPins DEF LeftoversUnpinned
<1>3. ASSUME NEW remaining \in Schedules, Reschedule(remaining)
      PROVE  LeftoversUnpinned'
  <2>1. PICK keep \in 0..(Len(ready) + 1) :
          leftovers' = MoveToLeftovers(SubSeq(ready, keep + 1, Len(ready)))
    BY <1>3 DEF Reschedule
  <2>2. SubSeq(ready, keep + 1, Len(ready)) \in Seq(BuiltStep)
    BY DEF CoreInv, TypeOK
  <2> QED
    BY <1>2, <2>1, <2>2
<1>4. CASE FinishEndRound
  BY <1>2, <1>4 DEF FinishEndRound, CoreInv, TypeOK
<1>5. CASE FinishClose
  BY <1>5 DEF FinishClose, LeftoversUnpinned
<1>6. CASE TakeLeftover
  <2>1. PICK step : leftovers' =
          [leftovers EXCEPT ![NextUnbuilt] = leftovers[NextUnbuilt] \ {step}]
    BY <1>6 DEF TakeLeftover
  <2>2. \A d \in Dojos : leftovers'[d] \subseteq leftovers[d]
    BY <2>1 DEF CoreInv, TypeOK
  <2> QED
    BY <2>2 DEF LeftoversUnpinned
<1>7. CASE Land
  <2>1. job \in BuiltStep
    BY <1>7 DEF Land, CoreInv, TypeOK, JobWhileProducing, Producing
  <2>2. <<job>> \in Seq(BuiltStep)
    BY <2>1
  <2>3. leftovers' = leftovers \/ leftovers' = MoveToLeftovers(<<job>>)
    BY <1>7 DEF Land
  <2> QED
    BY <1>1, <1>2, <2>2, <2>3
<1> QED
  BY <1>1, <1>3, <1>4, <1>5, <1>6, <1>7
  DEF Next, ConsumerCall, ConsumerStep, WorkerStep, Start, BeginRound, AskNext,
      EndRound, EndNoRound, Close, RefuseStep, WaitForStep, StopAsking,
      TakeStep, WaitForWorker, ReleaseEach, TakeFresh, WaitForWork, LeaveLoop,
      Build, Reserve, ReleaseLanded, Die, vars

LEMMA JobPinsStep ==
    ASSUME CoreInv, LeftoversUnpinned, JobPins, [Next]_vars
    PROVE  JobPins'
<1> USE DEF JobPins
<1>1. CASE UNCHANGED <<worker, job>>
  BY <1>1
<1>2. CASE worker' \notin {"building", "reserving", "releasing"}
  BY <1>2
<1>3. CASE TakeLeftover
  <2>1. NextUnbuilt \in Dojos
    BY <1>3, FreshStepType DEF TakeLeftover, HasWork, CoreInv, TypeOK
  <2>2. job'.reservation = None
    BY <1>3, <2>1 DEF TakeLeftover, LeftoversUnpinned
  <2> QED
    BY <1>3, <2>2 DEF TakeLeftover
<1>4. CASE TakeFresh
  BY <1>4 DEF TakeFresh
<1>5. CASE Build
  <2>1. job \in BuiltStep
    BY <1>5 DEF Build, CoreInv, TypeOK, JobWhileProducing, Producing
  <2>2. job'.reservation = job.reservation
    BY <1>5, <2>1 DEF Build, BuiltStep
  <2> QED
    BY <1>5, <2>2 DEF Build
<1>6. CASE Land
  BY <1>6 DEF Land
<1>7. CASE Start \/ Reserve \/ LeaveLoop \/ ReleaseLanded \/ Die
  BY <1>2, <1>7 DEF Start, Reserve, LeaveLoop, ReleaseLanded, Die
<1>8. CASE \/ ConsumerCall /\ ~Start
           \/ ConsumerStep \/ WaitForWork \/ UNCHANGED vars
  BY <1>1, <1>8 DEF ConsumerCall, BeginRound, Reschedule, AskNext, EndRound,
     EndNoRound, Close, ConsumerStep, RefuseStep, WaitForStep, StopAsking,
     TakeStep, WaitForWorker, FinishEndRound, FinishClose, ReleaseEach,
     WaitForWork, vars, workerVars
<1> QED
  BY <1>3, <1>4, <1>5, <1>6, <1>7, <1>8 DEF Next, ConsumerCall, WorkerStep

LEMMA ClosedIsEmptyStep ==
    ASSUME CoreInv, ClosedIsEmpty, [Next]_vars
    PROVE  ClosedIsEmpty'
<1> USE DEF ClosedIsEmpty, WorkerStopped
<1>1. CASE ConsumerCall
  BY <1>1 DEF ConsumerCall, Start, BeginRound, Reschedule, AskNext,
              EndRound, EndNoRound, Close, workerVars, roundVars, callVars
<1>2. CASE ConsumerStep
  BY <1>2 DEF ConsumerStep, RefuseStep, WaitForStep, StopAsking, TakeStep,
              WaitForWorker, FinishEndRound, FinishClose, ReleaseEach,
              workerVars, roundVars, callVars
<1>3. CASE WorkerStep
  BY <1>3 DEF WorkerStep, TakeLeftover, TakeFresh, HasWork, WaitForWork,
              LeaveLoop, Build, Reserve, Land, ReleaseLanded, workerVars,
              roundVars, callVars
<1>4. CASE Die
  BY <1>4 DEF Die, roundVars, callVars
<1>5. CASE UNCHANGED vars
  BY <1>5 DEF vars, workerVars, roundVars, callVars
<1> QED
  BY <1>1, <1>2, <1>3, <1>4, <1>5 DEF Next

LEMMA AskedGaveUpStep ==
    ASSUME CoreInv, AskedGaveUp, [Next]_vars
    PROVE  AskedGaveUp'
<1> USE DEF AskedGaveUp
<1>1. CASE ConsumerCall
  BY <1>1 DEF ConsumerCall, Start, BeginRound, Reschedule, AskNext,
              EndRound, EndNoRound, Close, callVars
<1>2. CASE ConsumerStep
  BY <1>2 DEF ConsumerStep, RefuseStep, WaitForStep, StopAsking, TakeStep,
              WaitForWorker, FinishEndRound, FinishClose, ReleaseEach, callVars
<1>3. CASE WorkerStep \/ Die \/ UNCHANGED vars
  BY <1>3 DEF WorkerStep, TakeLeftover, TakeFresh, WaitForWork, LeaveLoop,
              Build, Reserve, Land, ReleaseLanded, Die, vars, callVars
<1> QED
  BY <1>1, <1>2, <1>3 DEF Next

PinsControl ==
    /\ ReleaseList /\ LeftoversUnpinned /\ JobPins
    /\ ClosedIsEmpty /\ AskedGaveUp

LEMMA PinsControlled == Spec => []PinsControl
<1>1. Init => PinsControl
  BY FS_EmptySet
  DEF Init, PinsControl, ReleaseList, LeftoversUnpinned, JobPins, ClosedIsEmpty,
      AskedGaveUp
<1>2. CoreInv /\ PinsControl /\ [Next]_vars => PinsControl'
  BY ReleaseListStep, LeftoversUnpinnedStep, JobPinsStep, ClosedIsEmptyStep,
     AskedGaveUpStep
  DEF PinsControl
<1> QED
  BY <1>1, <1>2, CoreInvariant, PTL DEF Spec

LEMMA AppendKeepsPinsApart ==
    ASSUME NEW steps \in Seq(BuiltStep), NEW s \in BuiltStep,
           NoPinTwice(steps), s.reservation \notin ReservationsOf(steps)
    PROVE  NoPinTwice(Append(steps, s))
<1>0. Len(steps) \in Nat
  OBVIOUS
<1>1. /\ DOMAIN Append(steps, s) = (1..Len(steps)) \cup {Len(steps) + 1}
      /\ \A i \in 1..Len(steps) : Append(steps, s)[i] = steps[i]
      /\ Append(steps, s)[Len(steps) + 1] = s
  OBVIOUS
<1>2. \A i \in 1..Len(steps) :
        steps[i].reservation # None => steps[i].reservation # s.reservation
  BY ReservationsOfMember
<1> SUFFICES ASSUME NEW i \in DOMAIN Append(steps, s),
                    NEW j \in DOMAIN Append(steps, s), i # j,
                    Append(steps, s)[i].reservation # None
             PROVE  Append(steps, s)[i].reservation
                      # Append(steps, s)[j].reservation
  BY DEF NoPinTwice
<1>3. CASE i \in 1..Len(steps) /\ j \in 1..Len(steps)
  BY <1>1, <1>3 DEF NoPinTwice
<1>4. CASE i \in 1..Len(steps) /\ j = Len(steps) + 1
  BY <1>1, <1>2, <1>4
<1>5. CASE i = Len(steps) + 1 /\ j \in 1..Len(steps)
  BY <1>1, <1>2, <1>5
<1> QED
  BY <1>1, <1>3, <1>4, <1>5

LEMMA HeadAndTailPins ==
    ASSUME NEW steps \in Seq(BuiltStep), steps # <<>>, NoPinTwice(steps)
    PROVE  /\ ReservationsOf(steps)
                = Real({Head(steps).reservation}) \cup ReservationsOf(Tail(steps))
           /\ Real({Head(steps).reservation}) \cap ReservationsOf(Tail(steps)) = {}
           /\ NoPinTwice(Tail(steps))
<1>0. Len(steps) \in Nat /\ Len(steps) # 0 /\ Head(steps) = steps[1]
  OBVIOUS
<1>1. /\ Tail(steps) \in Seq(BuiltStep) /\ Len(Tail(steps)) = Len(steps) - 1
      /\ \A i \in 1..(Len(steps) - 1) : Tail(steps)[i] = steps[i + 1]
  OBVIOUS
<1>2. ASSUME NEW r
      PROVE  r \in ReservationsOf(Tail(steps)) <=>
               r # None /\ \E i \in 2..Len(steps) : steps[i].reservation = r
  <2>1. r \in ReservationsOf(Tail(steps)) <=>
          r # None /\ \E i \in 1..(Len(steps) - 1) : steps[i + 1].reservation = r
    <3>1. r \in ReservationsOf(Tail(steps)) <=>
            r # None /\ \E i \in 1..Len(Tail(steps)) :
                          Tail(steps)[i].reservation = r
      BY <1>1, ReservationsOfMember
    <3>2. \A i \in 1..(Len(steps) - 1) :
            Tail(steps)[i].reservation = steps[i + 1].reservation
      BY <1>1
    <3>3. 1..Len(Tail(steps)) = 1..(Len(steps) - 1)
      BY <1>1
    <3> QED
      BY <3>1, <3>2, <3>3, Zenon
  <2>2. ASSUME NEW i \in 1..(Len(steps) - 1), steps[i + 1].reservation = r
        PROVE  \E j \in 2..Len(steps) : steps[j].reservation = r
    <3>1. i + 1 \in 2..Len(steps)
      BY <1>0
    <3> QED
      BY <2>2, <3>1
  <2>3. ASSUME NEW j \in 2..Len(steps), steps[j].reservation = r
        PROVE  \E i \in 1..(Len(steps) - 1) : steps[i + 1].reservation = r
    <3>1. j - 1 \in 1..(Len(steps) - 1) /\ (j - 1) + 1 = j
      BY <1>0
    <3>2. steps[(j - 1) + 1].reservation = r
      BY <2>3, <3>1
    <3> QED
      BY <3>1, <3>2
  <2> QED
    BY <2>1, <2>2, <2>3
<1>3. ReservationsOf(steps)
        = Real({Head(steps).reservation}) \cup ReservationsOf(Tail(steps))
  <2> SUFFICES ASSUME NEW r
               PROVE  r \in ReservationsOf(steps) <=>
                        r \in Real({Head(steps).reservation})
                                \cup ReservationsOf(Tail(steps))
    OBVIOUS
  <2>1. r \in ReservationsOf(steps) <=>
          r # None /\ \E i \in 1..Len(steps) : steps[i].reservation = r
    BY ReservationsOfMember
  <2>2. 1..Len(steps) = {1} \cup (2..Len(steps))
    BY <1>0
  <2> QED
    BY <1>0, <1>2, <2>1, <2>2 DEF Real
<1>4. ASSUME NEW r \in Real({Head(steps).reservation}),
             r \in ReservationsOf(Tail(steps))
      PROVE  FALSE
  <2>1. r # None /\ steps[1].reservation = r
    BY <1>0, <1>4 DEF Real
  <2>2. PICK j \in 2..Len(steps) : steps[j].reservation = r
    BY <1>2, <1>4
  <2>3. 1 \in DOMAIN steps /\ j \in DOMAIN steps /\ j # 1
    BY <1>0
  <2> QED
    BY <2>1, <2>2, <2>3 DEF NoPinTwice
<1>5. NoPinTwice(Tail(steps))
  <2> SUFFICES ASSUME NEW i \in DOMAIN Tail(steps), NEW j \in DOMAIN Tail(steps),
                      i # j, Tail(steps)[i].reservation # None
               PROVE  Tail(steps)[i].reservation # Tail(steps)[j].reservation
    BY DEF NoPinTwice
  <2>1. i \in 1..(Len(steps) - 1) /\ j \in 1..(Len(steps) - 1)
    BY <1>1
  <2>2. i + 1 \in DOMAIN steps /\ j + 1 \in DOMAIN steps /\ i + 1 # j + 1
    BY <1>0, <2>1
  <2> QED
    BY <1>1, <2>1, <2>2 DEF NoPinTwice
<1> QED
  BY <1>3, <1>4, <1>5

(* What the list of a call, or a step being produced, holds.               *)
LEMMA JobReservationFacts ==
    ASSUME CoreInv, JobPins
    PROVE  /\ ~Producing /\ worker # "releasing" => JobReservation = {}
           /\ worker \in {"building", "reserving"} => JobReservation = {}
           /\ worker \in {"landing", "releasing"} =>
                job \in BuiltStep /\ JobReservation = Real({job.reservation})
<1>1. job # None <=> Producing \/ worker = "releasing"
  BY DEF CoreInv, JobWhileProducing
<1>2. job \in BuiltStep \cup {None}
  BY DEF CoreInv, TypeOK
<1> QED
  BY <1>1, <1>2 DEF JobReservation, JobPins, Producing, Real

LEMMA PinsOwnedByConsumer ==
    ASSUME CoreInv, PinsControl, PinsOwned, ConsumerCall \/ ConsumerStep
    PROVE  PinsOwned'
<1> USE DEF PinsOwned
<1>0. /\ ready \in Seq(BuiltStep) /\ Len(ready) \in Nat
      /\ taken \in Reservations \cup {None}
  BY DEF CoreInv, TypeOK
<1>1. JobReservation' = JobReservation
  BY DEF ConsumerCall, Start, BeginRound, Reschedule, AskNext, EndRound,
     EndNoRound, Close, ConsumerStep, RefuseStep, WaitForStep, StopAsking,
     TakeStep, WaitForWorker, FinishEndRound, FinishClose, ReleaseEach,
     workerVars, JobReservation
<1>2. Real({None}) = {} /\ (taken # None => Real({taken}) = {taken})
      /\ (taken = None => Real({taken}) = {})
  BY DEF Real
<1>3. consumer \notin {"ending", "releasing"} => toRelease = {}
  BY DEF PinsControl, ReleaseList
<1>4. ReservationsOf(<<>>) = {} /\ NoPinTwice(<<>>)
  BY ReservationsOfEmpty DEF NoPinTwice
<1>5. ready' = ready => ReservationsOf(ready') = ReservationsOf(ready)
  OBVIOUS
<1>6. CASE UNCHANGED <<taken, ready, toRelease, outstanding>>
  BY <1>1, <1>5, <1>6
<1>7. ASSUME NEW remaining \in Schedules, Reschedule(remaining)
      PROVE  PinsOwned'
  <2>1. PICK keep \in 0..(Len(ready) + 1) :
          /\ ready' = IF keep < Len(ready) THEN SubSeq(ready, 1, keep)
                                           ELSE ready
          /\ toRelease' = ReservationsOf(SubSeq(ready, keep + 1, Len(ready)))
    BY <1>7 DEF Reschedule
  <2>2. toRelease = {} /\ UNCHANGED <<taken, outstanding>>
    BY <1>3, <1>7 DEF Reschedule
  <2>3. /\ ReservationsOf(ready') \cup toRelease' = ReservationsOf(ready)
        /\ ReservationsOf(ready') \cap toRelease' = {}
        /\ NoPinTwice(ready')
    <3>1. CASE keep < Len(ready)
      <4>1. keep \in 0..Len(ready)
        BY <1>0, <3>1
      <4>2. ready' = SubSeq(ready, 1, keep)
        BY <2>1, <3>1
      <4> DEFINE front == SubSeq(ready, 1, keep)
                 back == SubSeq(ready, keep + 1, Len(ready))
      <4>3. /\ ReservationsOf(front) \cup ReservationsOf(back)
                 = ReservationsOf(ready)
            /\ ReservationsOf(front) \cap ReservationsOf(back) = {}
            /\ NoPinTwice(front)
        BY <1>0, <4>1, ReservationsOfParts
      <4>4. ready' = front /\ toRelease' = ReservationsOf(back)
        BY <2>1, <4>2
      <4> HIDE DEF front, back
      <4>5. ReservationsOf(ready') = ReservationsOf(front)
            /\ (NoPinTwice(ready') <=> NoPinTwice(front))
        BY <4>4
      <4> QED
        BY <4>3, <4>4, <4>5
    <3>2. CASE ~(keep < Len(ready))
      <4>1. SubSeq(ready, keep + 1, Len(ready)) = <<>>
        BY <1>0, <3>2
      <4> QED
        BY <1>4, <2>1, <3>2, <4>1
    <3> QED
      BY <3>1, <3>2
  <2> QED
    BY <1>1, <2>2, <2>3
<1>8. ASSUME NEW d \in Dojos, AskNext(d)
      PROVE  PinsOwned'
  <2>1. /\ outstanding' = outstanding \ {taken} /\ taken' = None
        /\ UNCHANGED <<ready, toRelease>>
    BY <1>8 DEF AskNext
  <2>2. None \notin outstanding
    BY PrefetchAssumption DEF PrefetchAssumption, CoreInv, TypeOK
  <2> QED
    BY <1>1, <1>2, <1>5, <2>1, <2>2
<1>9. CASE EndRound \/ EndNoRound
  <2>1. /\ toRelease = {} /\ toRelease' = Real({taken}) /\ taken' = None
        /\ UNCHANGED <<ready, outstanding>>
    BY <1>3, <1>9 DEF EndRound, EndNoRound
  <2> QED
    BY <1>1, <1>2, <1>5, <2>1
<1>10. CASE TakeStep
  <2>1. /\ taken = None /\ ready # <<>> /\ ready' = Tail(ready)
        /\ taken' = Head(ready).reservation
        /\ UNCHANGED <<toRelease, outstanding>>
    BY <1>10 DEF TakeStep, PinsControl, AskedGaveUp
  <2> QED
    BY <1>0, <1>1, <1>2, <2>1, HeadAndTailPins
<1>11. CASE FinishEndRound
  <2>1. /\ toRelease' = toRelease \cup ReservationsOf(ready) /\ ready' = <<>>
        /\ UNCHANGED <<taken, outstanding>>
    BY <1>11 DEF FinishEndRound
  <2> QED
    BY <1>1, <1>4, <2>1
<1>12. CASE FinishClose
  <2>1. /\ toRelease = {} /\ ready' = <<>> /\ taken' = None
        /\ toRelease' = Real({taken}) \cup ReservationsOf(ready)
        /\ UNCHANGED outstanding
    BY <1>3, <1>12 DEF FinishClose
  <2> QED
    BY <1>1, <1>2, <1>4, <2>1
<1>13. CASE ReleaseEach
  <2>1. /\ outstanding' = outstanding \ toRelease /\ toRelease' = {}
        /\ UNCHANGED <<taken, ready>>
    BY <1>13 DEF ReleaseEach
  <2> QED
    BY <1>1, <1>5, <2>1
<1>14. CASE \/ Start \/ (\E schedule \in Schedules : BeginRound(schedule))
            \/ Close \/ RefuseStep \/ WaitForStep \/ StopAsking
            \/ WaitForWorker
  BY <1>6, <1>14 DEF Start, BeginRound, Close, RefuseStep, WaitForStep,
     StopAsking, WaitForWorker, callVars
<1> QED
  BY <1>7, <1>8, <1>9, <1>10, <1>11, <1>12, <1>13, <1>14
  DEF ConsumerCall, ConsumerStep

LEMMA PinsOwnedByWorker ==
    ASSUME CoreInv, PinsControl, PinsOwned, WorkerStep \/ Die
    PROVE  PinsOwned'
<1> USE DEF PinsOwned
<1>0. ready \in Seq(BuiltStep) /\ UNCHANGED <<taken, toRelease>>
  BY DEF CoreInv, TypeOK, WorkerStep, TakeLeftover, TakeFresh, WaitForWork,
     LeaveLoop, Build, Reserve, Land, ReleaseLanded, Die, callVars
<1>1. /\ ~Producing /\ worker # "releasing" => JobReservation = {}
      /\ worker \in {"building", "reserving"} => JobReservation = {}
      /\ worker \in {"landing", "releasing"} =>
           job \in BuiltStep /\ JobReservation = Real({job.reservation})
  BY JobReservationFacts DEF PinsControl
<1>2. ready' = ready => ReservationsOf(ready') = ReservationsOf(ready)
  OBVIOUS
<1>3. CASE /\ UNCHANGED <<ready, outstanding>>
           /\ JobReservation' = JobReservation
  BY <1>0, <1>2, <1>3
<1>4. job' = None => JobReservation' = {}
  BY DEF JobReservation
<1>5. CASE TakeLeftover
  <2>1. NextUnbuilt \in Dojos
    BY <1>5, FreshStepType DEF TakeLeftover, HasWork, CoreInv, TypeOK
  <2>2. job'.reservation = None
    BY <1>5, <2>1 DEF TakeLeftover, PinsControl, LeftoversUnpinned
  <2>3. JobReservation' = {}
    BY <2>2 DEF JobReservation, Real
  <2>4. JobReservation = {} /\ UNCHANGED <<ready, outstanding>>
    BY <1>1, <1>5 DEF TakeLeftover, Producing
  <2> QED
    BY <1>3, <2>3, <2>4
<1>6. CASE TakeFresh
  <2>1. JobReservation' = {}
    BY <1>6 DEF TakeFresh, JobReservation, Real
  <2>2. JobReservation = {} /\ UNCHANGED <<ready, outstanding>>
    BY <1>1, <1>6 DEF TakeFresh, Producing
  <2> QED
    BY <1>3, <2>1, <2>2
<1>7. CASE WaitForWork \/ LeaveLoop
  BY <1>3, <1>7 DEF WaitForWork, LeaveLoop, workerVars, JobReservation
<1>8. CASE Build
  <2>1. job \in BuiltStep
    BY <1>8 DEF Build, CoreInv, TypeOK, JobWhileProducing, Producing
  <2>2. job'.reservation = job.reservation /\ job.reservation = None
    BY <1>8, <2>1 DEF Build, BuiltStep, PinsControl, JobPins
  <2>3. JobReservation' = {}
    BY <2>2 DEF JobReservation, Real
  <2>4. JobReservation = {} /\ UNCHANGED <<ready, outstanding>>
    BY <1>1, <1>8 DEF Build
  <2> QED
    BY <1>3, <2>3, <2>4
<1>9. CASE Reserve
  <2>1. /\ job \in BuiltStep /\ job.reservation = None
        /\ JobReservation = {} /\ ready' = ready
    BY <1>1, <1>9 DEF Reserve, CoreInv, TypeOK, JobWhileProducing, Producing,
                      PinsControl, JobPins
  <2>2. CASE UNCHANGED <<job, outstanding>>
    BY <1>3, <2>1, <2>2 DEF JobReservation
  <2>3. CASE ~UNCHANGED <<job, outstanding>>
    <3> DEFINE new == CHOOSE r \in Reservations : r \notin outstanding
    <3>1. /\ Reservations \ outstanding # {}
          /\ job' = [job EXCEPT !.reservation = new]
          /\ outstanding' = outstanding \cup {new}
      BY <1>9, <2>3 DEF Reserve
    <3>2. new \in Reservations /\ new \notin outstanding
      BY <3>1
    <3> HIDE DEF new
    <3>3. job' \in BuiltStep /\ job'.reservation = new
      BY <2>1, <3>1, <3>2 DEF BuiltStep
    <3>4. new # None
      BY <3>2, PrefetchAssumption DEF PrefetchAssumption
    <3>5. JobReservation' = {new}
      BY <3>3, <3>4, NoneIsNoStep DEF JobReservation, Real
    <3> QED
      BY <1>0, <1>2, <2>1, <3>1, <3>2, <3>5
  <2> QED
    BY <2>2, <2>3
<1>10. CASE Land
  <2>1. /\ job \in BuiltStep /\ JobReservation = Real({job.reservation})
        /\ UNCHANGED outstanding
    BY <1>1, <1>10 DEF Land
  <2>2. CASE ready' = Append(ready, job) /\ job' = None
    <3>1. ReservationsOf(ready') = ReservationsOf(ready) \cup JobReservation
      BY <1>0, <2>1, <2>2, ReservationsOfAppend
    <3>2. job.reservation \notin ReservationsOf(ready)
      BY <1>0, <2>1, ReservationsOfMember DEF Real
    <3>3. NoPinTwice(ready')
      BY <1>0, <2>1, <2>2, <3>2, AppendKeepsPinsApart
    <3> QED
      BY <1>0, <1>4, <2>1, <2>2, <3>1, <3>3
  <2>3. CASE ready' = ready /\ job' = job
    BY <1>3, <2>1, <2>3 DEF JobReservation
  <2>4. CASE ready' = ready /\ job' = None /\ job.reservation = None
    <3>1. JobReservation = {} /\ JobReservation' = {}
      BY <1>4, <2>1, <2>4 DEF Real
    <3> QED
      BY <1>3, <2>1, <2>4, <3>1
  <2> QED
    BY <1>10, <2>2, <2>3, <2>4 DEF Land
<1>11. CASE ReleaseLanded
  <2>1. /\ JobReservation = Real({job.reservation}) /\ job.reservation # None
        /\ outstanding' = outstanding \ {job.reservation}
        /\ job' = None /\ ready' = ready
    BY <1>1, <1>11 DEF ReleaseLanded, PinsControl, JobPins
  <2>2. JobReservation = {job.reservation}
    BY <2>1 DEF Real
  <2> QED
    BY <1>0, <1>2, <1>4, <2>1, <2>2
<1>12. CASE Die
  <2>1. /\ JobReservation = {} /\ job' = None
        /\ UNCHANGED <<ready, outstanding>>
    BY <1>1, <1>12 DEF Die
  <2> QED
    BY <1>3, <1>4, <2>1
<1> QED
  BY <1>5, <1>6, <1>7, <1>8, <1>9, <1>10, <1>11, <1>12 DEF WorkerStep

LEMMA PinsHaveOwners == Spec => []PinsOwned
<1>1. Init => PinsOwned
  BY ReservationsOfEmpty
  DEF Init, PinsOwned, JobReservation, Real, NoPinTwice
<1>2. PinsOwned /\ UNCHANGED vars => PinsOwned'
  BY DEF PinsOwned, JobReservation, vars, workerVars, callVars
<1>3. CoreInv /\ PinsControl /\ PinsOwned /\ [Next]_vars => PinsOwned'
  BY <1>2, PinsOwnedByConsumer, PinsOwnedByWorker DEF Next
<1> QED
  BY <1>1, <1>3, CoreInvariant, PinsControlled, PTL DEF Spec

(* The owners share nothing, so that their pins add up.                    *)
LEMMA PinsAddUp ==
    ASSUME CoreInv, PinsControl, PinsOwned
    PROVE  Cardinality(outstanding) =
             Cardinality(Real({taken}))
               + Cardinality({i \in DOMAIN ready : ready[i].reservation # None})
               + Cardinality(JobReservation) + Cardinality(toRelease)
<1> DEFINE T == Real({taken})
           R == ReservationsOf(ready)
           J == JobReservation
           L == toRelease
<1>1. IsFiniteSet(T)
  <2>1. IsFiniteSet({taken}) /\ T \in SUBSET {taken}
    BY FS_Singleton DEF Real
  <2> QED
    BY <2>1, FS_Subset
<1>2. /\ IsFiniteSet(R)
      /\ Cardinality(R) =
           Cardinality({i \in DOMAIN ready : ready[i].reservation # None})
  BY ReservationsOfCount DEF CoreInv, TypeOK, PinsOwned
<1>3. IsFiniteSet(J)
  <2>1. IsFiniteSet({job.reservation}) /\ J \in SUBSET {job.reservation}
    BY FS_Singleton DEF JobReservation, Real
  <2> QED
    BY <2>1, FS_Subset
<1>4. IsFiniteSet(L)
  BY DEF PinsControl, ReleaseList
<1>5. /\ outstanding = (T \cup R) \cup (J \cup L)
      /\ T \cap R = {} /\ J \cap L = {} /\ (T \cup R) \cap (J \cup L) = {}
  BY DEF PinsOwned
<1> HIDE DEF T, R, J, L
<1>6. Cardinality(T) \in Nat /\ Cardinality(R) \in Nat
      /\ Cardinality(J) \in Nat /\ Cardinality(L) \in Nat
  BY <1>1, <1>2, <1>3, <1>4, FS_CardinalityType
<1>7. Cardinality({}) = 0
  BY FS_EmptySet
<1>8. /\ IsFiniteSet(T \cup R)
      /\ Cardinality(T \cup R) = Cardinality(T) + Cardinality(R)
  <2>1. /\ IsFiniteSet(T \cup R)
        /\ Cardinality(T \cup R) =
             Cardinality(T) + Cardinality(R) - Cardinality(T \cap R)
    BY <1>1, <1>2, FS_Union
  <2>2. Cardinality(T \cap R) = 0
    BY <1>5, <1>7
  <2> QED
    BY <1>6, <2>1, <2>2
<1>9. /\ IsFiniteSet(J \cup L)
      /\ Cardinality(J \cup L) = Cardinality(J) + Cardinality(L)
  <2>1. /\ IsFiniteSet(J \cup L)
        /\ Cardinality(J \cup L) =
             Cardinality(J) + Cardinality(L) - Cardinality(J \cap L)
    BY <1>3, <1>4, FS_Union
  <2>2. Cardinality(J \cap L) = 0
    BY <1>5, <1>7
  <2> QED
    BY <1>6, <2>1, <2>2
<1>10. Cardinality(outstanding) =
         Cardinality(T \cup R) + Cardinality(J \cup L) - Cardinality({})
  BY <1>5, <1>8, <1>9, FS_Union
<1>11. Cardinality(outstanding) =
         Cardinality(T) + Cardinality(R) + Cardinality(J) + Cardinality(L)
  BY <1>6, <1>7, <1>8, <1>9, <1>10
<1> QED
  BY <1>2, <1>11 DEF T, J, L

(* Every reservation the cache has pinned for the feed has exactly one     *)
(* owner that will release it, whatever the trainer calls, the worker does *)
(* or dies of; a closed feed has none left and no worker.                  *)
THEOREM PinsHaveOneOwner == Spec => []PinsAccounted
<1>1. CoreInv /\ PinsControl /\ PinsOwned => PinsAccounted
  <2> SUFFICES ASSUME CoreInv, PinsControl, PinsOwned
               PROVE  PinsAccounted
    OBVIOUS
  <2>1. ASSUME consumer = "idle", lifecycle = "closed"
        PROVE  outstanding = {} /\ worker \in {"unborn", "gone"}
    <3>1. /\ worker \in {"unborn", "gone"} /\ taken = None /\ ready = <<>>
          /\ toRelease = {}
      BY <2>1 DEF PinsControl, ClosedIsEmpty, WorkerStopped, ReleaseList
    <3>2. JobReservation = {}
      BY <3>1, JobReservationFacts DEF PinsControl, Producing
    <3>3. Real({taken}) = {} /\ ReservationsOf(ready) = {}
      BY <3>1, ReservationsOfEmpty DEF Real
    <3> QED
      BY <3>1, <3>2, <3>3 DEF PinsOwned
  <2> QED
    BY <2>1, PinsAddUp DEF PinsAccounted, CoreInv, PinsOwned
<1> QED
  BY <1>1, CoreInvariant, PinsControlled, PinsHaveOwners, PTL

-----------------------------------------------------------------------------
(* Refinement: every answer of the feed is the stream's next step.         *)

LEMMA StopsForGoodStep ==
    ASSUME CoreInv, StopsForGood, [Next]_vars
    PROVE  StopsForGood'
<1> USE DEF StopsForGood
<1>1. CASE ConsumerCall
  BY <1>1 DEF ConsumerCall, Start, BeginRound, Reschedule, AskNext,
              EndRound, EndNoRound, Close, workerVars, callVars
<1>2. CASE ConsumerStep
  BY <1>2 DEF ConsumerStep, RefuseStep, WaitForStep, StopAsking, TakeStep,
              WaitForWorker, FinishEndRound, FinishClose, ReleaseEach,
              workerVars, callVars
<1>3. CASE WorkerStep
  BY <1>3 DEF WorkerStep, TakeLeftover, TakeFresh, WaitForWork, LeaveLoop,
              Build, Reserve, Land, ReleaseLanded, workerVars, callVars
<1>4. CASE Die
  BY <1>4 DEF Die, callVars
<1>5. CASE UNCHANGED vars
  BY <1>5 DEF vars, workerVars, callVars
<1> QED
  BY <1>1, <1>2, <1>3, <1>4, <1>5 DEF Next

LEMMA FeedStops == Spec => []StopsForGood
<1>1. Init => StopsForGood
  BY DEF Init, StopsForGood
<1> QED
  BY <1>1, StopsForGoodStep, CoreInvariant, PTL DEF Spec

(* What the order speaks of are naturals.                                  *)
LEMMA OrderTypes ==
    ASSUME TypeOK, JobWhileProducing
    PROVE  /\ Len(ready) \in Nat
           /\ \A i \in 1..Len(ready) : ready[i] \in BuiltStep
                /\ ready[i].dojo \in Dojos /\ ready[i].sequence \in Nat
           /\ \A d \in Dojos : /\ nextSequence[d] \in Nat /\ Used(d) \in Nat
                               /\ delivered[d] \in Seq(Answered)
                               /\ \A s \in leftovers[d] :
                                    s \in BuiltStep /\ s.sequence \in Nat
           /\ Producing => /\ job \in BuiltStep /\ job.dojo \in Dojos
                           /\ job.sequence \in Nat
<1>1. Len(ready) \in Nat /\ \A i \in 1..Len(ready) : ready[i] \in BuiltStep
  BY DEF TypeOK
<1>2. \A d \in Dojos : delivered[d] \in Seq(Answered) /\ Used(d) \in Nat
  BY DEF TypeOK, Used
<1>3. \A d \in Dojos : nextSequence[d] \in Nat
        /\ \A s \in leftovers[d] : s \in BuiltStep
  BY DEF TypeOK
<1>4. Producing => job \in BuiltStep
  BY DEF TypeOK, JobWhileProducing
<1>5. \A s \in BuiltStep : s.dojo \in Dojos /\ s.sequence \in Nat
  BY DEF BuiltStep
<1> QED
  BY <1>1, <1>2, <1>3, <1>4, <1>5

(* A step that moves nothing, or drops the step in flight of a feed that   *)
(* stops, keeps the order.                                                 *)
LEMMA OrderKept ==
    ASSUME CoreInv, StreamOrder,
           UNCHANGED <<ready, leftovers, nextSequence, delivered>>,
           Producing' => /\ Producing /\ job'.dojo = job.dojo
                         /\ job'.sequence = job.sequence,
           Producing' /\ inFlight' = "wanted" => inFlight = "wanted",
           Stopped => Stopped',
           Producing => Producing' \/ Stopped'
    PROVE  StreamOrder'
<1> USE DEF StreamOrder
<1>1. QueueOrder'
  BY DEF QueueOrder, Used
<1>2. QueueFirst'
  BY DEF QueueFirst
<1>3. JobOrder'
  BY DEF JobOrder, Used
<1>4. PileOrder'
  BY DEF PileOrder, Used
<1>5. NoStepLost'
  <2> SUFFICES ASSUME NEW d \in Dojos
               PROVE  /\ Used(d)' <= nextSequence'[d]
                      /\ \A n \in Used(d)'..(nextSequence'[d] - 1) :
                           \/ IsLive(d, n)'
                           \/ /\ Stopped'
                              /\ \A i \in 1..Len(ready') :
                                   ready'[i].dojo = d => ready'[i].sequence < n
    BY DEF NoStepLost
  <2>1. Used(d)' = Used(d) /\ nextSequence'[d] = nextSequence[d]
        /\ Used(d) <= nextSequence[d]
    BY DEF Used, NoStepLost
  <2> SUFFICES ASSUME NEW n \in Used(d)..(nextSequence[d] - 1)
               PROVE  \/ IsLive(d, n)'
                      \/ /\ Stopped'
                         /\ \A i \in 1..Len(ready) :
                              ready[i].dojo = d => ready[i].sequence < n
    BY <2>1
  <2>2. CASE IsLive(d, n)
    <3>1. CASE IsLive(d, n)'
      BY <3>1
    <3>2. CASE ~IsLive(d, n)'
      <4>1. Producing /\ ~Producing' /\ job.dojo = d /\ job.sequence = n
        BY <2>2, <3>2 DEF IsLive
      <4> QED
        BY <4>1 DEF QueueFirst
    <3> QED
      BY <3>1, <3>2
  <2>3. CASE ~IsLive(d, n)
    BY <2>3 DEF NoStepLost
  <2> QED
    BY <2>2, <2>3
<1> QED
  BY <1>1, <1>2, <1>3, <1>4, <1>5

(* The head of the queue is the first position not yet delivered.          *)
LEMMA HeadIsNextOfStream ==
    ASSUME CoreInv, StreamOrder, ready # <<>>
    PROVE  Head(ready).sequence = Used(Head(ready).dojo)
<1> DEFINE d == ready[1].dojo
           n == Used(d)
<1>1. /\ Len(ready) \in Nat /\ 1 \in 1..Len(ready) /\ Head(ready) = ready[1]
      /\ d \in Dojos /\ ready[1].sequence \in Nat /\ n \in Nat
      /\ nextSequence[d] \in Nat
  <2>1. Len(ready) # 0 /\ Head(ready) = ready[1]
    BY DEF CoreInv, TypeOK
  <2> QED
    BY <2>1, OrderTypes DEF CoreInv
<1>2. n <= ready[1].sequence /\ ready[1].sequence < nextSequence[d]
  BY <1>1 DEF StreamOrder, QueueOrder
<1>3. ASSUME n < ready[1].sequence
      PROVE  FALSE
  <2>1. n \in n..(nextSequence[d] - 1)
    BY <1>1, <1>2, <1>3
  <2>2. IsLive(d, n)
    <3>1. ~(ready[1].sequence < n)
      BY <1>1, <1>3
    <3> QED
      BY <1>1, <2>1, <3>1 DEF StreamOrder, NoStepLost
  <2>3. CASE \E i \in 1..Len(ready) : ready[i].dojo = d /\ ready[i].sequence = n
    <3>1. PICK i \in 1..Len(ready) : ready[i].dojo = d /\ ready[i].sequence = n
      BY <2>3
    <3>2. 1 < i
      BY <1>1, <1>3, <3>1
    <3>3. ready[1].sequence < n
      BY <1>1, <3>1, <3>2 DEF StreamOrder, QueueOrder
    <3> QED
      BY <1>1, <1>3, <3>3
  <2>4. CASE Producing /\ job.dojo = d /\ job.sequence = n
    <3>1. ready[1].sequence < n
      BY <1>1, <2>4 DEF StreamOrder, QueueFirst
    <3> QED
      BY <1>1, <1>3, <3>1
  <2>5. CASE \E s \in leftovers[d] : s.sequence = n
    <3>1. ready[1].sequence < n
      BY <1>1, <2>5 DEF StreamOrder, QueueFirst
    <3> QED
      BY <1>1, <1>3, <3>1
  <2> QED
    BY <2>2, <2>3, <2>4, <2>5 DEF IsLive
<1> QED
  BY <1>1, <1>2, <1>3

(* next_batch hands out the head of the queue.                             *)
LEMMA OrderTakeStep ==
    ASSUME CoreInv, StreamOrder, StepsAreFromStreams, BuiltFollowsSchedule,
           TakeStep
    PROVE  /\ Head(ready) = ready[1] /\ 1 \in 1..Len(ready)
           /\ ready[1].dojo = asked /\ ready[1].sequence = Used(asked)
           /\ ready[1].failed = (<<asked, Used(asked)>> \in Failing)
           /\ \A d \in Dojos :
                Used(d)' = IF d = asked THEN Used(d) + 1 ELSE Used(d)
           /\ StreamOrder'
<1>0. /\ ready # <<>> /\ Len(ready) \in Nat /\ Len(ready) # 0
      /\ ready' = Tail(ready) /\ Head(ready) = ready[1] /\ asked \in Dojos
  BY DEF TakeStep, CoreInv, TypeOK
<1>1. /\ Len(ready') = Len(ready) - 1
      /\ \A i \in 1..(Len(ready) - 1) : ready'[i] = ready[i + 1]
  BY <1>0 DEF CoreInv, TypeOK
<1>2. ready[1].dojo = asked
  <2>1. consumer # "ending" /\ pending # <<>> /\ Head(pending) = asked
    BY DEF TakeStep, IsNextStep
  <2>2. pending[1] = asked
    BY <2>1 DEF CoreInv, TypeOK
  <2>3. 1 \in 1..Len(ready)
    BY <1>0
  <2> QED
    BY <2>1, <2>2, <2>3 DEF BuiltFollowsSchedule
<1>3. ready[1].sequence = Used(asked)
  BY <1>0, <1>2, HeadIsNextOfStream
<1>4. ready[1].failed = (<<asked, Used(asked)>> \in Failing)
  BY <1>0, <1>2, <1>3 DEF StepsAreFromStreams
<1>5. \A d \in Dojos :
        Len(delivered'[d]) = IF d = asked THEN Used(d) + 1 ELSE Used(d)
  <2>1. delivered' = [delivered EXCEPT
                       ![asked] = Append(delivered[asked], Answer(Head(ready)))]
    BY DEF TakeStep
  <2>2. \A d \in Dojos : delivered[d] \in Seq(Answered)
    BY DEF CoreInv, TypeOK
  <2>3. Answer(Head(ready)) \in Answered
    BY <1>0, OrderTypes DEF Answer, Answered, BuiltStep, CoreInv
  <2>4. \A d \in Dojos : delivered'[d] =
          IF d = asked THEN Append(delivered[d], Answer(Head(ready)))
                       ELSE delivered[d]
    BY <2>1 DEF CoreInv, TypeOK
  <2>5. Len(Append(delivered[asked], Answer(Head(ready)))) = Len(delivered[asked]) + 1
    BY <1>0, <2>2, <2>3
  <2> QED
    BY <1>0, <2>4, <2>5 DEF Used
<1>6. UNCHANGED <<lifecycle, inFlight, leftovers, worker, job, nextSequence>>
  BY DEF TakeStep, workerVars
<1>7. Producing' = Producing
  BY <1>6 DEF Producing
<1>8. /\ \A i \in 1..Len(ready) : /\ ready[i].dojo \in Dojos
                                  /\ ready[i].sequence \in Nat
      /\ \A d \in Dojos : Used(d) \in Nat /\ nextSequence[d] \in Nat
           /\ \A s \in leftovers[d] : s.sequence \in Nat
      /\ Producing => job.dojo \in Dojos /\ job.sequence \in Nat
  BY OrderTypes DEF CoreInv
<1>9. ASSUME NEW i \in 1..Len(ready')
      PROVE  /\ i + 1 \in 1..Len(ready) /\ ready'[i] = ready[i + 1]
             /\ ready[i + 1].dojo = asked => Used(asked) < ready[i + 1].sequence
  <2>1. i + 1 \in 1..Len(ready) /\ 1 \in 1..Len(ready) /\ 1 < i + 1
    BY <1>0, <1>1
  <2>2. ready[i + 1].dojo = asked => ready[1].sequence < ready[i + 1].sequence
    BY <1>2, <2>1 DEF StreamOrder, QueueOrder
  <2> QED
    BY <1>0, <1>1, <1>3, <2>1, <2>2
<1>10. QueueOrder'
  <2> SUFFICES ASSUME NEW i \in 1..Len(ready')
               PROVE  /\ Len(delivered'[ready'[i].dojo]) <= ready'[i].sequence
                      /\ ready'[i].sequence < nextSequence'[ready'[i].dojo]
                      /\ \A j \in 1..Len(ready') :
                           i < j /\ ready'[i].dojo = ready'[j].dojo =>
                             ready'[i].sequence < ready'[j].sequence
    BY DEF QueueOrder, Used
  <2>1. i + 1 \in 1..Len(ready) /\ ready'[i] = ready[i + 1]
    BY <1>9
  <2>2. /\ Used(ready[i + 1].dojo) <= ready[i + 1].sequence
        /\ ready[i + 1].sequence < nextSequence[ready[i + 1].dojo]
    BY <2>1 DEF StreamOrder, QueueOrder
  <2>3. Len(delivered'[ready[i + 1].dojo]) <= ready[i + 1].sequence
    <3>1. ready[i + 1].dojo \in Dojos /\ ready[i + 1].sequence \in Nat
      BY <1>8, <2>1
    <3>2. CASE ready[i + 1].dojo = asked
      <4>1. Used(asked) < ready[i + 1].sequence
        BY <1>9, <3>2
      <4>2. Used(asked) \in Nat
        BY <1>8, <3>1, <3>2
      <4> QED
        BY <1>5, <3>1, <3>2, <4>1, <4>2
    <3>3. CASE ready[i + 1].dojo # asked
      <4>1. Len(delivered'[ready[i + 1].dojo]) = Used(ready[i + 1].dojo)
        BY <1>5, <3>1, <3>3
      <4> QED
        BY <2>2, <4>1
    <3> QED
      BY <3>2, <3>3
  <2>4. ASSUME NEW j \in 1..Len(ready'), i < j,
               ready'[i].dojo = ready'[j].dojo
        PROVE  ready'[i].sequence < ready'[j].sequence
    <3>1. j + 1 \in 1..Len(ready) /\ ready'[j] = ready[j + 1] /\ i + 1 < j + 1
      BY <1>9, <2>4
    <3> QED
      BY <2>1, <2>4, <3>1 DEF StreamOrder, QueueOrder
  <2> QED
    BY <1>6, <2>1, <2>2, <2>3, <2>4
<1>11. QueueFirst'
  BY <1>6, <1>7, <1>9 DEF StreamOrder, QueueFirst
<1>12. JobOrder'
  <2> SUFFICES ASSUME Producing
               PROVE  Len(delivered'[job.dojo]) <= job.sequence
    BY <1>6, <1>7 DEF StreamOrder, JobOrder, Used
  <2>1. job.dojo = asked => Used(asked) < job.sequence
    BY <1>0, <1>2, <1>3 DEF StreamOrder, QueueFirst
  <2> QED
    BY <1>5, <1>8, <2>1 DEF StreamOrder, JobOrder
<1>13. PileOrder'
  <2> SUFFICES ASSUME NEW d \in Dojos, NEW s \in leftovers[d]
               PROVE  Len(delivered'[d]) <= s.sequence
    BY <1>6 DEF StreamOrder, PileOrder, Used
  <2>1. d = asked => Used(asked) < s.sequence
    BY <1>0, <1>2, <1>3 DEF StreamOrder, QueueFirst
  <2> QED
    BY <1>5, <1>8, <2>1 DEF StreamOrder, PileOrder
<1>14. NoStepLost'
  <2> SUFFICES ASSUME NEW d \in Dojos
               PROVE  /\ Used(d)' <= nextSequence[d]
                      /\ \A n \in Used(d)'..(nextSequence[d] - 1) :
                           \/ IsLive(d, n)'
                           \/ /\ Stopped'
                              /\ \A i \in 1..Len(ready') :
                                   ready'[i].dojo = d => ready'[i].sequence < n
    BY <1>6 DEF NoStepLost
  <2>0. Used(d)' = IF d = asked THEN Used(d) + 1 ELSE Used(d)
    BY <1>5 DEF Used
  <2>1. Used(d)' <= nextSequence[d]
    <3>1. d = asked => Used(d) < nextSequence[d]
      BY <1>0, <1>2, <1>3 DEF StreamOrder, QueueOrder
    <3> QED
      BY <1>8, <2>0, <3>1 DEF StreamOrder, NoStepLost
  <2>2. ASSUME NEW n \in Used(d)'..(nextSequence[d] - 1)
        PROVE  \/ IsLive(d, n)'
               \/ /\ Stopped'
                  /\ \A i \in 1..Len(ready') :
                       ready'[i].dojo = d => ready'[i].sequence < n
    <3>1. n \in Used(d)..(nextSequence[d] - 1) /\ (d = asked => n # Used(d))
      BY <1>8, <2>0
    <3>2. CASE \E i \in 1..Len(ready) : ready[i].dojo = d /\ ready[i].sequence = n
      <4>1. PICK i \in 1..Len(ready) : ready[i].dojo = d /\ ready[i].sequence = n
        BY <3>2
      <4>2. i # 1
        BY <1>2, <1>3, <3>1, <4>1
      <4>3. i - 1 \in 1..Len(ready') /\ i - 1 \in 1..(Len(ready) - 1)
            /\ (i - 1) + 1 = i
        BY <1>0, <1>1, <4>2
      <4>4. ready'[i - 1] = ready[i]
        BY <1>1, <4>3
      <4> QED
        BY <4>1, <4>3, <4>4 DEF IsLive
    <3>3. CASE \/ Producing /\ job.dojo = d /\ job.sequence = n
               \/ \E s \in leftovers[d] : s.sequence = n
      BY <1>6, <1>7, <3>3 DEF IsLive
    <3>4. CASE /\ Stopped
               /\ \A i \in 1..Len(ready) :
                    ready[i].dojo = d => ready[i].sequence < n
      BY <1>6, <1>9, <3>4 DEF Stopped
    <3> QED
      BY <3>1, <3>2, <3>3, <3>4 DEF StreamOrder, NoStepLost, IsLive
  <2> QED
    BY <2>1, <2>2
<1>15. 1 \in 1..Len(ready)
  BY <1>0
<1>16. \A d \in Dojos : Used(d)' = IF d = asked THEN Used(d) + 1 ELSE Used(d)
  BY <1>5 DEF Used
<1> QED
  BY <1>0, <1>2, <1>3, <1>4, <1>10, <1>11, <1>12, <1>13, <1>14, <1>15, <1>16
  DEF StreamOrder

(* reschedule and end_round: the end of the queue, from k on, is put back  *)
(* among the leftovers.                                                    *)
LEMMA OrderMoved ==
    ASSUME CoreInv, LeftoversByDojo, StreamOrder, NEW k \in 0..Len(ready),
           ready' = SubSeq(ready, 1, k),
           leftovers' = MoveToLeftovers(SubSeq(ready, k + 1, Len(ready))),
           UNCHANGED <<lifecycle, worker, job, nextSequence, delivered>>,
           inFlight' = "wanted" => inFlight = "wanted" /\ k = Len(ready)
    PROVE  StreamOrder'
<1>0. /\ Len(ready) \in Nat /\ k \in Nat /\ k <= Len(ready)
      /\ \A i \in 1..Len(ready) : /\ ready[i] \in BuiltStep
                                  /\ ready[i].dojo \in Dojos
                                  /\ ready[i].sequence \in Nat
      /\ \A d \in Dojos : \A s \in leftovers[d] : s.sequence \in Nat
      /\ Producing => job.dojo \in Dojos /\ job.sequence \in Nat
  BY OrderTypes DEF CoreInv
<1>1. Len(ready') = k /\ \A i \in 1..k : i \in 1..Len(ready) /\ ready'[i] = ready[i]
  BY <1>0 DEF CoreInv, TypeOK
<1>2. Producing' = Producing /\ Stopped' = Stopped
      /\ \A d \in Dojos : Used(d)' = Used(d)
  BY DEF Producing, Stopped, Used
<1>3. ASSUME NEW d \in Dojos, NEW s \in leftovers'[d]
      PROVE  \/ s \in leftovers[d]
             \/ \E i \in (k + 1)..Len(ready) :
                  /\ i \in 1..Len(ready) /\ ready[i].dojo = d
                  /\ s = Stripped(ready[i])
                  /\ s.sequence = ready[i].sequence
  <2> DEFINE dropped == SubSeq(ready, k + 1, Len(ready))
  <2>1. /\ DOMAIN dropped = 1..(Len(ready) - k)
        /\ \A j \in 1..(Len(ready) - k) : dropped[j] = ready[k + j]
    <3>1. ready \in Seq(BuiltStep) /\ k + 1 \in Nat
      BY <1>0 DEF CoreInv, TypeOK
    <3>2. dropped = [j \in 1..(Len(ready) - k) |-> ready[k + j]]
      BY <1>0, <3>1
    <3> QED
      BY <3>2
  <2> HIDE DEF dropped
  <2>2. CASE s \notin leftovers[d]
    <3>1. PICK j \in DOMAIN dropped : dropped[j].dojo = d /\ s = Stripped(dropped[j])
      BY <2>2 DEF MoveToLeftovers, dropped
    <3>2. k + j \in (k + 1)..Len(ready) /\ k + j \in 1..Len(ready)
          /\ dropped[j] = ready[k + j]
      BY <1>0, <2>1, <3>1
    <3>3. s.sequence = ready[k + j].sequence
      BY <1>0, <3>1, <3>2, StrippedType
    <3> QED
      BY <3>1, <3>2, <3>3
  <2> QED
    BY <2>2
<1>4. ASSUME NEW d \in Dojos, NEW s \in leftovers[d]
      PROVE  s \in leftovers'[d]
  BY DEF MoveToLeftovers
<1>5. ASSUME NEW i \in (k + 1)..Len(ready)
      PROVE  \E s \in leftovers'[ready[i].dojo] : s.sequence = ready[i].sequence
  <2> DEFINE dropped == SubSeq(ready, k + 1, Len(ready))
             j == i - k
  <2>1. /\ j \in DOMAIN dropped /\ dropped[j] = ready[i] /\ i \in 1..Len(ready)
    <3>1. /\ Len(ready) \in Nat /\ k \in Nat /\ i \in Int /\ k < i /\ i <= Len(ready)
          /\ k + (i - k) = i /\ i - k \in 1..(Len(ready) - k)
          /\ (Len(ready) - (k + 1)) + 1 = Len(ready) - k
      BY <1>0 DEF CoreInv, TypeOK
    <3>2. ready \in Seq(BuiltStep)
      BY <1>0 DEF CoreInv, TypeOK
    <3>3. /\ DOMAIN dropped = 1..(Len(ready) - k)
          /\ \A h \in 1..(Len(ready) - k) : dropped[h] = ready[k + h]
      BY ONLY <3>1, <3>2
    <3> HIDE DEF dropped
    <3>4. j \in 1..(Len(ready) - k) /\ k + j = i
      BY <3>1
    <3> HIDE DEF j
    <3>5. 1 <= i
      BY ONLY <3>1
    <3> QED
      BY ONLY <3>1, <3>3, <3>4, <3>5
  <2> HIDE DEF dropped, j
  <2>2. Stripped(dropped[j]) \in leftovers'[ready[i].dojo]
    BY <1>0, <2>1 DEF MoveToLeftovers, dropped
  <2>3. Stripped(dropped[j]).sequence = ready[i].sequence
    BY <1>0, <2>1, StrippedType
  <2> QED
    BY <2>2, <2>3
<1>6. QueueOrder'
  <2>1. QueueOrder
    BY DEF StreamOrder
  <2>2. UNCHANGED <<nextSequence, delivered>>
    OBVIOUS
  <2> QED
    BY ONLY <1>1, <2>1, <2>2 DEF QueueOrder, Used
<1>7. QueueFirst'
  <2> SUFFICES ASSUME NEW i \in 1..k
               PROVE  /\ \A s \in leftovers'[ready[i].dojo] :
                           ready[i].sequence < s.sequence
                      /\ Producing /\ job.dojo = ready[i].dojo =>
                           ready[i].sequence < job.sequence
    BY <1>1, <1>2 DEF QueueFirst
  <2>1. ASSUME NEW s \in leftovers'[ready[i].dojo]
        PROVE  ready[i].sequence < s.sequence
    <3>1. CASE s \in leftovers[ready[i].dojo]
      BY <1>1, <3>1 DEF StreamOrder, QueueFirst
    <3>2. CASE s \notin leftovers[ready[i].dojo]
      <4>1. PICK j \in (k + 1)..Len(ready) :
              /\ j \in 1..Len(ready) /\ ready[j].dojo = ready[i].dojo
              /\ s.sequence = ready[j].sequence
        BY <1>0, <1>1, <1>3, <3>2
      <4>2. i < j
        BY <1>0
      <4> QED
        BY <1>1, <4>1, <4>2 DEF StreamOrder, QueueOrder
    <3> QED
      BY <3>1, <3>2
  <2> QED
    BY <1>1, <2>1 DEF StreamOrder, QueueFirst
<1>8. JobOrder'
  <2> SUFFICES ASSUME Producing
               PROVE  /\ Used(job.dojo) <= job.sequence
                      /\ job.sequence < nextSequence[job.dojo]
                      /\ \A s \in leftovers'[job.dojo] :
                           /\ s.sequence # job.sequence
                           /\ inFlight' = "wanted" => job.sequence < s.sequence
    BY <1>2 DEF JobOrder, Used
  <2>1. ASSUME NEW s \in leftovers'[job.dojo]
        PROVE  /\ s.sequence # job.sequence
               /\ inFlight' = "wanted" => job.sequence < s.sequence
    <3>1. CASE s \in leftovers[job.dojo]
      BY <3>1 DEF StreamOrder, JobOrder
    <3>2. CASE s \notin leftovers[job.dojo]
      <4>1. PICK j \in (k + 1)..Len(ready) :
              /\ j \in 1..Len(ready) /\ ready[j].dojo = job.dojo
              /\ s.sequence = ready[j].sequence
        BY <1>0, <1>3, <3>2
      <4>2. ready[j].sequence < job.sequence
        BY <4>1 DEF StreamOrder, QueueFirst
      <4>3. k # Len(ready)
        BY <1>0
      <4> QED
        BY <1>0, <4>1, <4>2, <4>3
    <3> QED
      BY <3>1, <3>2
  <2> QED
    BY <2>1 DEF StreamOrder, JobOrder
<1>9. PileOrder'
  <2> SUFFICES ASSUME NEW d \in Dojos, NEW s \in leftovers'[d]
               PROVE  /\ Used(d) <= s.sequence /\ s.sequence < nextSequence[d]
                      /\ \A t \in leftovers'[d] :
                           s.sequence = t.sequence => s = t
    BY DEF PileOrder, Used
  <2>1. Used(d) <= s.sequence /\ s.sequence < nextSequence[d]
    BY <1>3 DEF StreamOrder, PileOrder, QueueOrder
  <2>2. ASSUME NEW x \in leftovers[d], NEW y \in leftovers'[d],
               y \notin leftovers[d]
        PROVE  x.sequence # y.sequence
    <3>1. PICK j \in (k + 1)..Len(ready) :
            /\ j \in 1..Len(ready) /\ ready[j].dojo = d
            /\ y.sequence = ready[j].sequence
      BY <1>3, <2>2
    <3>2. ready[j].sequence < x.sequence
      BY <3>1 DEF StreamOrder, QueueFirst
    <3> QED
      BY <1>0, <3>1, <3>2
  <2>3. ASSUME NEW t \in leftovers'[d], s.sequence = t.sequence
        PROVE  s = t
    <3>1. CASE s \in leftovers[d] /\ t \in leftovers[d]
      BY <2>3, <3>1 DEF StreamOrder, PileOrder
    <3>2. CASE s \in leftovers[d] /\ t \notin leftovers[d]
      BY <2>2, <2>3, <3>2
    <3>3. CASE s \notin leftovers[d] /\ t \in leftovers[d]
      BY <2>2, <2>3, <3>3
    <3>4. CASE s \notin leftovers[d] /\ t \notin leftovers[d]
      <4>1. PICK i \in (k + 1)..Len(ready) :
              /\ i \in 1..Len(ready) /\ ready[i].dojo = d
              /\ s = Stripped(ready[i]) /\ s.sequence = ready[i].sequence
        BY <1>3, <3>4
      <4>2. PICK j \in (k + 1)..Len(ready) :
              /\ j \in 1..Len(ready) /\ ready[j].dojo = d
              /\ t = Stripped(ready[j]) /\ t.sequence = ready[j].sequence
        BY <1>3, <3>4
      <4>3. i < j => ready[i].sequence < ready[j].sequence
        BY <4>1, <4>2 DEF StreamOrder, QueueOrder
      <4>4. j < i => ready[j].sequence < ready[i].sequence
        BY <4>1, <4>2 DEF StreamOrder, QueueOrder
      <4>5. i = j
        BY <1>0, <2>3, <4>1, <4>2, <4>3, <4>4
      <4> QED
        BY <4>1, <4>2, <4>5
    <3> QED
      BY <3>1, <3>2, <3>3, <3>4
  <2> QED
    BY <2>1, <2>3
<1>10. NoStepLost'
  <2> SUFFICES ASSUME NEW d \in Dojos
               PROVE  /\ Used(d)' <= nextSequence[d]
                      /\ \A n \in Used(d)'..(nextSequence[d] - 1) :
                           \/ IsLive(d, n)'
                           \/ /\ Stopped'
                              /\ \A i \in 1..Len(ready') :
                                   ready'[i].dojo = d => ready'[i].sequence < n
    BY DEF NoStepLost
  <2>1. Used(d) <= nextSequence[d]
    BY DEF StreamOrder, NoStepLost
  <2>2. ASSUME NEW n \in Used(d)..(nextSequence[d] - 1)
        PROVE  \/ IsLive(d, n)'
               \/ /\ Stopped
                  /\ \A i \in 1..Len(ready') :
                       ready'[i].dojo = d => ready'[i].sequence < n
    <3>1. CASE \E i \in 1..Len(ready) : ready[i].dojo = d /\ ready[i].sequence = n
      <4>1. PICK i \in 1..Len(ready) : ready[i].dojo = d /\ ready[i].sequence = n
        BY <3>1
      <4>2. CASE i \in 1..k
        BY <1>1, <4>1, <4>2 DEF IsLive
      <4>3. CASE i \in (k + 1)..Len(ready)
        <5>1. \E s \in leftovers'[d] : s.sequence = n
          BY <1>5, <4>1, <4>3
        <5> QED
          BY <5>1 DEF IsLive
      <4>4. i \in 1..k \/ i \in (k + 1)..Len(ready)
        BY <1>0, <4>1
      <4> QED
        BY <4>2, <4>3, <4>4
    <3>2. CASE Producing /\ job.dojo = d /\ job.sequence = n
      BY <1>2, <3>2 DEF IsLive
    <3>3. CASE \E s \in leftovers[d] : s.sequence = n
      BY <1>4, <3>3 DEF IsLive
    <3>4. CASE /\ Stopped
               /\ \A i \in 1..Len(ready) :
                    ready[i].dojo = d => ready[i].sequence < n
      BY <1>1, <3>4
    <3> QED
      BY <3>1, <3>2, <3>3, <3>4 DEF StreamOrder, NoStepLost, IsLive
  <2> QED
    BY <1>2, <2>1, <2>2
<1> QED
  BY <1>6, <1>7, <1>8, <1>9, <1>10 DEF StreamOrder

(* The worker takes the oldest leftover of the step's dojo.                *)
LEMMA OrderTakeLeftover ==
    ASSUME CoreInv, LeftoversByDojo, StreamOrder, TakeLeftover
    PROVE  StreamOrder'
<1> DEFINE d == NextUnbuilt
<1>0. d \in Dojos
  BY FreshStepType DEF TakeLeftover, HasWork, CoreInv, TypeOK
<1> HIDE DEF d
<1>1. /\ IsOldest(job', leftovers[d])
      /\ leftovers' = [leftovers EXCEPT ![d] = leftovers[d] \ {job'}]
      /\ inFlight = "none" /\ inFlight' = "wanted"
      /\ worker' \in {"landing", "reserving"}
      /\ UNCHANGED <<lifecycle, ready, nextSequence, delivered>>
  BY DEF TakeLeftover, HasWork, d
<1>2. ~Producing /\ Producing'
  BY <1>1 DEF CoreInv, JobWhileProducing, Producing
<1>3. /\ \A e \in Dojos : leftovers'[e] \subseteq leftovers[e]
      /\ leftovers'[d] = leftovers[d] \ {job'}
      /\ \A e \in Dojos : e # d => leftovers'[e] = leftovers[e]
  BY <1>0, <1>1 DEF CoreInv, TypeOK
<1>4. /\ job' \in leftovers[d] /\ job'.dojo = d /\ job'.sequence \in Nat
      /\ \A s \in leftovers[d] : /\ s.sequence \in Nat
                                 /\ job'.sequence <= s.sequence
  BY <1>0, <1>1, OrderTypes DEF IsOldest, LeftoversByDojo, CoreInv
<1>5. Stopped' = Stopped /\ \A e \in Dojos : Used(e)' = Used(e)
  BY <1>1 DEF Stopped, Used
<1>6. \A i \in 1..Len(ready) : ready[i].dojo \in Dojos
  BY OrderTypes DEF CoreInv
<1>7. QueueOrder'
  BY <1>1 DEF StreamOrder, QueueOrder, Used
<1>8. QueueFirst'
  <2> SUFFICES ASSUME NEW i \in 1..Len(ready)
               PROVE  /\ \A s \in leftovers'[ready[i].dojo] :
                           ready[i].sequence < s.sequence
                      /\ job'.dojo = ready[i].dojo =>
                           ready[i].sequence < job'.sequence
    BY <1>1 DEF QueueFirst
  <2> QED
    BY <1>3, <1>4, <1>6 DEF StreamOrder, QueueFirst
<1>9. JobOrder'
  <2> SUFFICES /\ Used(d) <= job'.sequence /\ job'.sequence < nextSequence[d]
               /\ \A s \in leftovers'[d] : job'.sequence < s.sequence
    <3>1. \A s \in leftovers'[d] :
            job'.sequence < s.sequence => s.sequence # job'.sequence
      BY <1>3, <1>4
    <3> QED
      BY <1>1, <1>4, <1>5, <1>0, <3>1 DEF JobOrder, Used
  <2>1. Used(d) <= job'.sequence /\ job'.sequence < nextSequence[d]
    BY <1>0, <1>4 DEF StreamOrder, PileOrder
  <2>2. ASSUME NEW s \in leftovers'[d]
        PROVE  job'.sequence < s.sequence
    <3>1. s \in leftovers[d] /\ s # job'
      BY <1>3
    <3>2. s.sequence # job'.sequence
      BY <1>0, <1>4, <3>1 DEF StreamOrder, PileOrder
    <3> QED
      BY <1>4, <3>1, <3>2
  <2> QED
    BY <2>1, <2>2
<1>10. PileOrder'
  <2> SUFFICES ASSUME NEW e \in Dojos, NEW s \in leftovers'[e]
               PROVE  /\ Used(e) <= s.sequence /\ s.sequence < nextSequence[e]
                      /\ \A t \in leftovers'[e] :
                           s.sequence = t.sequence => s = t
    BY <1>1 DEF PileOrder, Used
  <2> QED
    BY <1>3 DEF StreamOrder, PileOrder
<1>11. NoStepLost'
  <2> SUFFICES ASSUME NEW e \in Dojos
               PROVE  /\ Used(e) <= nextSequence[e]
                      /\ \A n \in Used(e)..(nextSequence[e] - 1) :
                           \/ IsLive(e, n)'
                           \/ /\ Stopped
                              /\ \A i \in 1..Len(ready) :
                                   ready[i].dojo = e => ready[i].sequence < n
    BY <1>1, <1>5 DEF NoStepLost, Used
  <2>1. ASSUME NEW n \in Used(e)..(nextSequence[e] - 1), IsLive(e, n)
        PROVE  IsLive(e, n)'
    <3>1. CASE \E i \in 1..Len(ready) : ready[i].dojo = e /\ ready[i].sequence = n
      BY <1>1, <3>1 DEF IsLive
    <3>2. CASE \E s \in leftovers[e] : s.sequence = n
      <4>1. PICK s \in leftovers[e] : s.sequence = n
        BY <3>2
      <4>2. CASE s \in leftovers'[e]
        BY <4>1, <4>2 DEF IsLive
      <4>3. CASE s \notin leftovers'[e]
        <5>1. e = d /\ s = job'
          BY <1>3, <4>3
        <5> QED
          BY <1>2, <1>4, <4>1, <5>1 DEF IsLive
      <4> QED
        BY <4>2, <4>3
    <3> QED
      BY <1>2, <2>1, <3>1, <3>2 DEF IsLive
  <2> QED
    BY <2>1 DEF StreamOrder, NoStepLost
<1> QED
  BY <1>7, <1>8, <1>9, <1>10, <1>11 DEF StreamOrder

(* The worker starts on the next position of the stream.                   *)
LEMMA OrderTakeFresh ==
    ASSUME CoreInv, StreamOrder, TakeFresh
    PROVE  StreamOrder'
<1> DEFINE d == NextUnbuilt
<1>0. d \in Dojos
  BY FreshStepType DEF TakeFresh, HasWork, CoreInv, TypeOK
<1> HIDE DEF d
<1>1. /\ leftovers[d] = {}
      /\ job'.dojo = d /\ job'.sequence = nextSequence[d]
      /\ nextSequence' = [nextSequence EXCEPT ![d] = nextSequence[d] + 1]
      /\ inFlight = "none" /\ worker' = "building"
      /\ UNCHANGED <<lifecycle, ready, leftovers, delivered>>
  BY DEF TakeFresh, HasWork, d
<1>2. ~Producing /\ Producing'
  BY <1>1 DEF CoreInv, JobWhileProducing, Producing
<1>3. \A e \in Dojos :
        nextSequence'[e] = IF e = d THEN nextSequence[e] + 1 ELSE nextSequence[e]
  BY <1>0, <1>1 DEF CoreInv, TypeOK
<1>9. \A e \in Dojos : Used(e) \in Nat /\ nextSequence[e] \in Nat
  BY OrderTypes DEF CoreInv
<1>10. \A e \in Dojos : /\ nextSequence[e] <= nextSequence'[e]
                        /\ nextSequence'[e] \in Nat
  BY <1>3, <1>9
<1>11. \A e \in Dojos : \A s \in leftovers[e] : s.sequence \in Nat
  BY OrderTypes DEF CoreInv
<1>12. \A i \in 1..Len(ready) : /\ ready[i].dojo \in Dojos
                                /\ ready[i].sequence \in Nat
  BY OrderTypes DEF CoreInv
<1>4. QueueOrder'
  <2> SUFFICES ASSUME NEW i \in 1..Len(ready)
               PROVE  ready[i].sequence < nextSequence'[ready[i].dojo]
    BY <1>1 DEF StreamOrder, QueueOrder, Used
  <2>1. ready[i].sequence < nextSequence[ready[i].dojo]
    BY DEF StreamOrder, QueueOrder
  <2> QED
    BY <1>9, <1>10, <1>12, <2>1
<1>5. QueueFirst'
  <2> SUFFICES ASSUME NEW i \in 1..Len(ready)
               PROVE  /\ \A s \in leftovers[ready[i].dojo] :
                           ready[i].sequence < s.sequence
                      /\ d = ready[i].dojo =>
                           ready[i].sequence < nextSequence[d]
    BY <1>1 DEF QueueFirst
  <2> QED
    BY DEF StreamOrder, QueueFirst, QueueOrder
<1>6. JobOrder'
  <2>1. Used(d) <= nextSequence[d] /\ nextSequence[d] < nextSequence'[d]
    BY <1>0, <1>3, <1>9 DEF StreamOrder, NoStepLost
  <2> QED
    BY <1>1, <2>1 DEF JobOrder, Used
<1>7. PileOrder'
  <2> SUFFICES ASSUME NEW e \in Dojos, NEW s \in leftovers[e]
               PROVE  s.sequence < nextSequence'[e]
    BY <1>1 DEF StreamOrder, PileOrder, Used
  <2>1. s.sequence < nextSequence[e]
    BY DEF StreamOrder, PileOrder
  <2> QED
    BY <1>9, <1>10, <1>11, <2>1
<1>8. NoStepLost'
  <2> SUFFICES ASSUME NEW e \in Dojos
               PROVE  /\ Used(e) <= nextSequence'[e]
                      /\ \A n \in Used(e)..(nextSequence'[e] - 1) :
                           \/ IsLive(e, n)'
                           \/ /\ Stopped
                              /\ \A i \in 1..Len(ready) :
                                   ready[i].dojo = e => ready[i].sequence < n
    BY <1>1 DEF NoStepLost, Used, Stopped
  <2>1. Used(e) <= nextSequence'[e]
    <3>1. Used(e) <= nextSequence[e]
      BY DEF StreamOrder, NoStepLost
    <3> QED
      BY <1>9, <1>10, <3>1
  <2>2. ASSUME NEW n \in Used(e)..(nextSequence'[e] - 1)
        PROVE  \/ IsLive(e, n)'
               \/ /\ Stopped
                  /\ \A i \in 1..Len(ready) :
                       ready[i].dojo = e => ready[i].sequence < n
    <3>1. CASE e = d /\ n = nextSequence[d]
      <4>1. Producing' /\ job'.dojo = e /\ job'.sequence = n
        BY <1>1, <1>2, <3>1
      <4> QED
        BY <4>1 DEF IsLive
    <3>2. CASE ~(e = d /\ n = nextSequence[d])
      <4>1. n \in Used(e)..(nextSequence[e] - 1)
        BY <1>3, <1>9, <3>2
      <4>2. IsLive(e, n) => IsLive(e, n)'
        BY <1>1, <1>2 DEF IsLive
      <4> QED
        BY <4>1, <4>2 DEF StreamOrder, NoStepLost
    <3> QED
      BY <3>1, <3>2
  <2> QED
    BY <2>1, <2>2
<1> QED
  BY <1>4, <1>5, <1>6, <1>7, <1>8 DEF StreamOrder

(* A wanted step in flight lands at the end of the queue.                  *)
LEMMA OrderLandQueued ==
    ASSUME CoreInv, StopsForGood, StreamOrder, Land,
           ready' = Append(ready, job), inFlight = "wanted",
           lifecycle # "closed", leftovers' = leftovers, job' = None
    PROVE  StreamOrder'
<1> DEFINE last == Len(ready) + 1
<1>0. job \in BuiltStep
  BY OrderTypes DEF Land, CoreInv, Producing
<1>1. Producing /\ ~Producing' /\ ~Stopped /\ ~Stopped'
  BY DEF Land, CoreInv, Producing, StopsForGood, Stopped
<1>2. /\ UNCHANGED <<nextSequence, delivered>>
      /\ \A e \in Dojos : Used(e)' = Used(e)
  BY DEF Land, Used
<1>3. /\ Len(ready) \in Nat /\ Len(ready') = last /\ ready'[last] = job
      /\ \A i \in 1..Len(ready) : ready'[i] = ready[i]
      /\ 1..last = (1..Len(ready)) \cup {last}
      /\ \A i \in 1..Len(ready) : i # last /\ ~(last < i)
  BY <1>0 DEF CoreInv, TypeOK
<1>4. job.dojo \in Dojos /\ job.sequence \in Nat
  BY <1>1, OrderTypes DEF CoreInv
<1>5. /\ Used(job.dojo) <= job.sequence
      /\ job.sequence < nextSequence[job.dojo]
      /\ \A s \in leftovers[job.dojo] : job.sequence < s.sequence
      /\ \A i \in 1..Len(ready) : job.dojo = ready[i].dojo =>
           ready[i].sequence < job.sequence
  BY <1>1 DEF StreamOrder, JobOrder, QueueFirst
<1>9. ~(last < last)
  BY <1>3
<1> HIDE DEF last
<1>6. QueueOrder'
  <2> SUFFICES ASSUME NEW i \in 1..last
               PROVE  /\ Len(delivered[ready'[i].dojo]) <= ready'[i].sequence
                      /\ ready'[i].sequence < nextSequence[ready'[i].dojo]
                      /\ \A j \in 1..last :
                           i < j /\ ready'[i].dojo = ready'[j].dojo =>
                             ready'[i].sequence < ready'[j].sequence
    BY <1>2, <1>3 DEF QueueOrder, Used
  <2>1. CASE i \in 1..Len(ready)
    BY <1>3, <1>5, <2>1 DEF StreamOrder, QueueOrder, Used
  <2>2. CASE i = last
    BY <1>3, <1>5, <1>9, <2>2 DEF Used
  <2> QED
    BY <1>3, <2>1, <2>2
<1>7. QueueFirst'
  <2> SUFFICES ASSUME NEW i \in 1..last
               PROVE  \A s \in leftovers[ready'[i].dojo] :
                        ready'[i].sequence < s.sequence
    BY <1>1, <1>3 DEF QueueFirst
  <2> QED
    BY <1>3, <1>5 DEF StreamOrder, QueueFirst
<1>8. JobOrder' /\ PileOrder'
  BY <1>1, <1>2 DEF StreamOrder, JobOrder, PileOrder, Used
<1>10. NoStepLost'
  <2> SUFFICES ASSUME NEW d \in Dojos
               PROVE  /\ Used(d) <= nextSequence[d]
                      /\ \A n \in Used(d)..(nextSequence[d] - 1) : IsLive(d, n)'
    BY <1>2 DEF NoStepLost, Used
  <2>1. ASSUME NEW n \in Used(d)..(nextSequence[d] - 1)
        PROVE  IsLive(d, n)'
    <3>1. IsLive(d, n)
      BY <1>1 DEF StreamOrder, NoStepLost
    <3>2. CASE \E i \in 1..Len(ready) : ready[i].dojo = d /\ ready[i].sequence = n
      <4>1. PICK i \in 1..Len(ready) : ready[i].dojo = d /\ ready[i].sequence = n
        BY <3>2
      <4>2. i \in 1..Len(ready') /\ ready'[i] = ready[i]
        BY <1>3
      <4> QED
        BY <4>1, <4>2 DEF IsLive
    <3>3. CASE job.dojo = d /\ job.sequence = n
      <4>1. last \in 1..Len(ready')
        BY <1>3
      <4> QED
        BY <1>3, <3>3, <4>1 DEF IsLive
    <3>4. CASE \E s \in leftovers[d] : s.sequence = n
      BY <3>4 DEF IsLive
    <3> QED
      BY <3>1, <3>2, <3>3, <3>4 DEF IsLive
  <2> QED
    BY <2>1 DEF StreamOrder, NoStepLost
<1> QED
  BY <1>6, <1>7, <1>8, <1>10 DEF StreamOrder

(* An unwanted one is put among the leftovers of its dojo.                 *)
LEMMA OrderLandKept ==
    ASSUME CoreInv, StreamOrder, Land,
           ready' = ready, leftovers' = MoveToLeftovers(<<job>>)
    PROVE  StreamOrder'
<1>1. Producing /\ ~Producing' /\ Stopped' = Stopped
  BY DEF Land, Producing, Stopped
<1>2. /\ UNCHANGED <<nextSequence, delivered>>
      /\ \A e \in Dojos : Used(e)' = Used(e)
  BY DEF Land, Used
<1>3. /\ job \in BuiltStep /\ job.dojo \in Dojos
      /\ Stripped(job).sequence = job.sequence
  BY <1>1, OrderTypes, StrippedType DEF CoreInv
<1>4. \A d \in Dojos : leftovers'[d] =
        leftovers[d] \cup (IF job.dojo = d THEN {Stripped(job)} ELSE {})
  <2> SUFFICES ASSUME NEW d \in Dojos
               PROVE  leftovers'[d] = leftovers[d] \cup
                        (IF job.dojo = d THEN {Stripped(job)} ELSE {})
    OBVIOUS
  <2>1. DOMAIN <<job>> = {1} /\ <<job>>[1] = job
    OBVIOUS
  <2>2. leftovers'[d] = leftovers[d] \cup
          {Stripped(<<job>>[i]) : i \in {j \in DOMAIN <<job>> : <<job>>[j].dojo = d}}
    BY DEF MoveToLeftovers
  <2> QED
    BY <2>1, <2>2
<1>5. /\ Used(job.dojo) <= job.sequence
      /\ job.sequence < nextSequence[job.dojo]
      /\ \A s \in leftovers[job.dojo] : s.sequence # job.sequence
      /\ \A i \in 1..Len(ready) : job.dojo = ready[i].dojo =>
           ready[i].sequence < job.sequence
  BY <1>1 DEF StreamOrder, JobOrder, QueueFirst
<1>6. \A i \in 1..Len(ready) : ready[i].dojo \in Dojos
  BY OrderTypes DEF CoreInv
<1>7. QueueOrder'
  BY <1>2 DEF StreamOrder, QueueOrder, Used
<1>8. QueueFirst'
  <2> SUFFICES ASSUME NEW i \in 1..Len(ready), NEW s \in leftovers'[ready[i].dojo]
               PROVE  ready[i].sequence < s.sequence
    BY <1>1 DEF QueueFirst
  <2>1. CASE s \in leftovers[ready[i].dojo]
    BY <2>1 DEF StreamOrder, QueueFirst
  <2>2. CASE s = Stripped(job) /\ job.dojo = ready[i].dojo
    BY <1>3, <1>5, <2>2
  <2> QED
    BY <1>4, <1>6, <2>1, <2>2
<1>9. JobOrder'
  BY <1>1 DEF JobOrder
<1>10. PileOrder'
  <2> SUFFICES ASSUME NEW d \in Dojos, NEW s \in leftovers'[d]
               PROVE  /\ Used(d) <= s.sequence /\ s.sequence < nextSequence[d]
                      /\ \A t \in leftovers'[d] :
                           s.sequence = t.sequence => s = t
    BY <1>2 DEF PileOrder, Used
  <2>1. Used(d) <= s.sequence /\ s.sequence < nextSequence[d]
    BY <1>3, <1>4, <1>5 DEF StreamOrder, PileOrder
  <2>2. ASSUME NEW t \in leftovers'[d], s.sequence = t.sequence
        PROVE  s = t
    BY <1>3, <1>4, <1>5, <2>2 DEF StreamOrder, PileOrder
  <2> QED
    BY <2>1, <2>2
<1>11. NoStepLost'
  <2> SUFFICES ASSUME NEW d \in Dojos
               PROVE  /\ Used(d) <= nextSequence[d]
                      /\ \A n \in Used(d)..(nextSequence[d] - 1) :
                           \/ IsLive(d, n)'
                           \/ /\ Stopped
                              /\ \A i \in 1..Len(ready) :
                                   ready[i].dojo = d => ready[i].sequence < n
    BY <1>1, <1>2 DEF NoStepLost, Used
  <2>1. ASSUME NEW n, IsLive(d, n)
        PROVE  IsLive(d, n)'
    <3>1. CASE \E i \in 1..Len(ready) : ready[i].dojo = d /\ ready[i].sequence = n
      BY <3>1 DEF IsLive
    <3>2. CASE job.dojo = d /\ job.sequence = n
      <4>1. Stripped(job) \in leftovers'[d] /\ Stripped(job).sequence = n
        BY <1>3, <1>4, <3>2
      <4> QED
        BY <4>1 DEF IsLive
    <3>3. CASE \E s \in leftovers[d] : s.sequence = n
      BY <1>4, <3>3 DEF IsLive
    <3> QED
      BY <2>1, <3>1, <3>2, <3>3 DEF IsLive
  <2> QED
    BY <2>1 DEF StreamOrder, NoStepLost
<1> QED
  BY <1>7, <1>8, <1>9, <1>10, <1>11 DEF StreamOrder

(* close empties the feed.                                                 *)
LEMMA OrderFinishClose ==
    ASSUME CoreInv, StopsForGood, StreamOrder, FinishClose
    PROVE  StreamOrder'
<1>1. ~Producing' /\ Stopped' /\ Len(ready') = 0
      /\ (\A d \in Dojos : leftovers'[d] = {})
      /\ UNCHANGED <<nextSequence, delivered>>
  BY DEF FinishClose, WorkerStopped, Producing, StopsForGood, Stopped, workerVars
<1>2. QueueOrder' /\ QueueFirst'
  BY <1>1 DEF QueueOrder, QueueFirst
<1>3. JobOrder' /\ PileOrder'
  BY <1>1 DEF JobOrder, PileOrder
<1>4. NoStepLost'
  BY <1>1 DEF StreamOrder, NoStepLost, Used
<1> QED
  BY <1>2, <1>3, <1>4 DEF StreamOrder

LEMMA StreamOrderStep ==
    ASSUME CoreInv, LeftoversByDojo, StopsForGood, BuiltFollowsSchedule,
           StepsAreFromStreams, StreamOrder, [Next]_vars
    PROVE  StreamOrder'
<1>0. Len(ready) \in Nat /\ ready \in Seq(BuiltStep)
  BY DEF CoreInv, TypeOK
<1>11. CASE Start
  <2>1. ~Producing /\ ~Producing' /\ ~Stopped
    BY <1>11 DEF Start, Producing, Stopped, CoreInv, WorkerLife
  <2> QED
    BY <1>11, <2>1, OrderKept DEF Start
<1>1. CASE \/ (\E schedule \in Schedules : BeginRound(schedule))
           \/ (\E d \in Dojos : AskNext(d)) \/ EndNoRound \/ Close
  BY <1>1, OrderKept DEF BeginRound, AskNext, EndNoRound, Close,
     roundVars, workerVars, Producing, Stopped
<1>2. CASE EndRound
  BY <1>2, OrderKept DEF EndRound, workerVars, Producing, Stopped
<1>3. CASE \/ RefuseStep \/ WaitForStep \/ StopAsking \/ WaitForWorker
           \/ ReleaseEach
  BY <1>3, OrderKept DEF RefuseStep, WaitForStep, StopAsking, WaitForWorker,
     ReleaseEach, roundVars, workerVars, Producing, Stopped
<1>4. CASE WaitForWork \/ LeaveLoop \/ ReleaseLanded
  BY <1>4, OrderKept DEF WaitForWork, LeaveLoop, ReleaseLanded, workerVars,
     Producing, Stopped
<1>5. CASE Build \/ Reserve
  <2>1. job \in BuiltStep /\ Producing /\ Producing'
    BY <1>5 DEF Build, Reserve, CoreInv, TypeOK, JobWhileProducing, Producing
  <2>2. job'.dojo = job.dojo /\ job'.sequence = job.sequence
    BY <1>5, <2>1 DEF Build, Reserve, BuiltStep
  <2> QED
    BY <1>5, <2>1, <2>2, OrderKept DEF Build, Reserve, Stopped
<1>6. CASE Die
  BY <1>6, OrderKept DEF Die, Producing, Stopped
<1>7. CASE UNCHANGED vars
  BY <1>7, OrderKept DEF vars, workerVars, Producing, Stopped
<1>8. CASE Land
  <2>1. CASE lifecycle # "closed" /\ inFlight = "wanted"
    BY <1>8, <2>1, OrderLandQueued DEF Land
  <2>2. CASE lifecycle # "closed" /\ inFlight # "wanted"
    BY <1>8, <2>2, OrderLandKept DEF Land
  <2>3. CASE lifecycle = "closed"
    <3>1. /\ UNCHANGED <<lifecycle, ready, leftovers, nextSequence, delivered>>
          /\ worker' \in {"releasing", "waiting"}
      BY <1>8, <2>3 DEF Land
    <3> QED
      BY <2>3, <3>1, OrderKept DEF Producing, Stopped
  <2> QED
    BY <2>1, <2>2, <2>3
<1>9. ASSUME NEW remaining \in Schedules, Reschedule(remaining)
      PROVE  StreamOrder'
  <2>1. PICK keep \in 0..(Len(ready) + 1) :
          /\ IsMatchingPrefixLength(keep, BuiltNames, remaining)
          /\ inFlight' = IF inFlight # "none" /\ keep < Len(BuiltNames)
                         THEN "unwanted" ELSE inFlight
          /\ ready' = IF keep < Len(ready) THEN SubSeq(ready, 1, keep)
                                           ELSE ready
          /\ leftovers' = MoveToLeftovers(SubSeq(ready, keep + 1, Len(ready)))
    BY <1>9 DEF Reschedule
  <2>2. UNCHANGED <<lifecycle, worker, job, nextSequence, delivered>>
    BY <1>9 DEF Reschedule, workerVars
  <2>3. inFlight' = "wanted" => inFlight = "wanted" /\ keep = Len(ready) + 1
    BY <1>0, <2>1, BuiltNamesFacts DEF IsMatchingPrefixLength
  <2>4. CASE keep < Len(ready)
    <3>1. keep \in 0..Len(ready) /\ ready' = SubSeq(ready, 1, keep)
      BY <1>0, <2>1, <2>4
    <3>2. inFlight' # "wanted"
      BY <1>0, <2>3, <2>4
    <3> QED
      BY <2>1, <2>2, <3>1, <3>2, OrderMoved
  <2>5. CASE ~(keep < Len(ready))
    <3>1. /\ Len(ready) \in 0..Len(ready)
          /\ ready' = SubSeq(ready, 1, Len(ready))
      BY <1>0, <2>1, <2>5
    <3>2. SubSeq(ready, keep + 1, Len(ready))
            = SubSeq(ready, Len(ready) + 1, Len(ready))
      BY <1>0, <2>5
    <3>3. leftovers' =
            MoveToLeftovers(SubSeq(ready, Len(ready) + 1, Len(ready)))
      BY <2>1, <3>2
    <3> QED
      BY <2>2, <2>3, <3>1, <3>3, OrderMoved
  <2> QED
    BY <2>4, <2>5
<1>10. CASE FinishEndRound
  <2>1. /\ 0 \in 0..Len(ready) /\ ready' = SubSeq(ready, 1, 0)
        /\ ready = SubSeq(ready, 0 + 1, Len(ready))
    BY <1>0, <1>10 DEF FinishEndRound
  <2>2. leftovers' = MoveToLeftovers(SubSeq(ready, 0 + 1, Len(ready)))
    BY <1>10, <2>1 DEF FinishEndRound
  <2>3. /\ inFlight' # "wanted"
        /\ UNCHANGED <<lifecycle, worker, job, nextSequence, delivered>>
    BY <1>10 DEF FinishEndRound, WorkerIdle, workerVars
  <2> QED
    BY <2>1, <2>2, <2>3, OrderMoved
<1> QED
  BY <1>1, <1>2, <1>3, <1>4, <1>5, <1>6, <1>7, <1>8, <1>9, <1>10, <1>11,
     OrderTakeStep, OrderFinishClose, OrderTakeLeftover, OrderTakeFresh
  DEF Next, ConsumerCall, ConsumerStep, WorkerStep

LEMMA MovedAreFromStreams ==
    ASSUME CoreInv, LeftoversByDojo, StepsAreFromStreams,
           NEW steps \in Seq(BuiltStep),
           \A i \in DOMAIN steps : steps[i].failed =
             (<<steps[i].dojo, steps[i].sequence>> \in Failing)
    PROVE  \A d \in Dojos : \A s \in MoveToLeftovers(steps)[d] :
             s.failed = (<<d, s.sequence>> \in Failing)
<1> SUFFICES ASSUME NEW d \in Dojos, NEW s \in MoveToLeftovers(steps)[d]
             PROVE  s.failed = (<<d, s.sequence>> \in Failing)
  OBVIOUS
<1>1. CASE s \in leftovers[d]
  BY <1>1 DEF StepsAreFromStreams
<1>2. CASE s \notin leftovers[d]
  <2>1. PICK i \in DOMAIN steps : steps[i].dojo = d /\ s = Stripped(steps[i])
    BY <1>2 DEF MoveToLeftovers
  <2>2. steps[i] \in BuiltStep
    OBVIOUS
  <2>3. s.failed = steps[i].failed /\ s.sequence = steps[i].sequence
    BY <2>1, <2>2, StrippedType
  <2> QED
    BY <2>1, <2>3
<1> QED
  BY <1>1, <1>2

LEMMA FromStreamsStep ==
    ASSUME CoreInv, LeftoversByDojo, StepsAreFromStreams, [Next]_vars
    PROVE  StepsAreFromStreams'
<1>0. /\ Len(ready) \in Nat /\ ready \in Seq(BuiltStep)
      /\ \A i \in 1..Len(ready) : ready[i].failed =
           (<<ready[i].dojo, ready[i].sequence>> \in Failing)
  BY DEF CoreInv, TypeOK, StepsAreFromStreams
<1>1. CASE /\ UNCHANGED <<ready, leftovers, job>>
           /\ worker' = worker \/ worker' \notin {"reserving", "landing"}
  BY <1>1 DEF StepsAreFromStreams
<1>2. CASE \/ ConsumerCall /\ ~(\E s \in Schedules : Reschedule(s))
           \/ RefuseStep \/ WaitForStep \/ StopAsking \/ WaitForWorker
           \/ ReleaseEach \/ WaitForWork \/ LeaveLoop \/ UNCHANGED vars
  BY <1>1, <1>2 DEF ConsumerCall, Start, BeginRound, AskNext, EndRound,
     EndNoRound, Close, RefuseStep, WaitForStep, StopAsking, WaitForWorker,
     ReleaseEach, WaitForWork, LeaveLoop, vars, workerVars
<1>3. ASSUME NEW remaining \in Schedules, Reschedule(remaining)
      PROVE  StepsAreFromStreams'
  <2>1. PICK keep \in 0..(Len(ready) + 1) :
          /\ ready' = IF keep < Len(ready) THEN SubSeq(ready, 1, keep)
                                           ELSE ready
          /\ leftovers' = MoveToLeftovers(SubSeq(ready, keep + 1, Len(ready)))
    BY <1>3 DEF Reschedule
  <2> DEFINE dropped == SubSeq(ready, keep + 1, Len(ready))
  <2>2. dropped \in Seq(BuiltStep)
        /\ \A i \in DOMAIN dropped :
             keep + i \in 1..Len(ready) /\ dropped[i] = ready[keep + i]
    BY <1>0
  <2> HIDE DEF dropped
  <2>3. \A i \in DOMAIN dropped : dropped[i].failed =
          (<<dropped[i].dojo, dropped[i].sequence>> \in Failing)
    BY <1>0, <2>2
  <2>4. \A d \in Dojos : \A s \in leftovers'[d] :
          s.failed = (<<d, s.sequence>> \in Failing)
    BY <2>1, <2>2, <2>3, MovedAreFromStreams DEF dropped
  <2>5. Len(ready') <= Len(ready) /\ Len(ready') \in Nat
        /\ \A i \in 1..Len(ready') : ready'[i] = ready[i]
    <3>1. CASE keep < Len(ready)
      BY <1>0, <2>1, <3>1
    <3>2. CASE ~(keep < Len(ready))
      BY <1>0, <2>1, <3>2
    <3> QED
      BY <3>1, <3>2
  <2>6. \A i \in 1..Len(ready') : ready'[i].failed =
          (<<ready'[i].dojo, ready'[i].sequence>> \in Failing)
    BY <1>0, <2>5
  <2>7. UNCHANGED <<worker, job>>
    BY <1>3 DEF Reschedule, workerVars
  <2> QED
    BY <2>4, <2>6, <2>7 DEF StepsAreFromStreams
<1>4. CASE TakeStep
  <2>1. /\ Len(ready') = Len(ready) - 1
        /\ \A i \in 1..(Len(ready) - 1) :
             i + 1 \in 1..Len(ready) /\ ready'[i] = ready[i + 1]
    BY <1>0, <1>4 DEF TakeStep
  <2>2. \A i \in 1..Len(ready') : ready'[i].failed =
          (<<ready'[i].dojo, ready'[i].sequence>> \in Failing)
    BY <1>0, <2>1
  <2> QED
    BY <1>4, <2>2 DEF TakeStep, StepsAreFromStreams, workerVars
<1>5. CASE FinishEndRound
  <2>1. \A d \in Dojos : \A s \in leftovers'[d] :
          s.failed = (<<d, s.sequence>> \in Failing)
    <3>1. leftovers' = MoveToLeftovers(ready) /\ DOMAIN ready = 1..Len(ready)
      BY <1>0, <1>5 DEF FinishEndRound
    <3> QED
      BY <1>0, <3>1, MovedAreFromStreams
  <2> QED
    BY <1>5, <2>1 DEF FinishEndRound, StepsAreFromStreams, workerVars
<1>6. CASE FinishClose
  BY <1>6 DEF FinishClose, StepsAreFromStreams, workerVars
<1>7. CASE TakeLeftover
  <2>1. NextUnbuilt \in Dojos
    BY <1>7, FreshStepType DEF TakeLeftover, HasWork, CoreInv, TypeOK
  <2>2. /\ job' \in leftovers[NextUnbuilt] /\ ready' = ready
        /\ leftovers' = [leftovers EXCEPT
             ![NextUnbuilt] = leftovers[NextUnbuilt] \ {job'}]
    BY <1>7 DEF TakeLeftover, IsOldest
  <2>3. \A d \in Dojos : leftovers'[d] \subseteq leftovers[d]
    BY <2>1, <2>2 DEF CoreInv, TypeOK
  <2>4. job'.failed = (<<job'.dojo, job'.sequence>> \in Failing)
    BY <2>1, <2>2 DEF StepsAreFromStreams, LeftoversByDojo
  <2> QED
    BY <2>2, <2>3, <2>4 DEF StepsAreFromStreams
<1>8. CASE TakeFresh \/ ReleaseLanded \/ Die
  BY <1>8 DEF TakeFresh, ReleaseLanded, Die, StepsAreFromStreams
<1>9. CASE Build
  <2>1. job \in BuiltStep
    BY <1>9 DEF Build, CoreInv, TypeOK, JobWhileProducing, Producing
  <2> DEFINE failed == <<job.dojo, job.sequence>> \in Failing
  <2>2. job' = [job EXCEPT !.failed = failed] /\ failed \in BOOLEAN
    BY <1>9 DEF Build
  <2> HIDE DEF failed
  <2>3. job'.failed = failed /\ job'.dojo = job.dojo
        /\ job'.sequence = job.sequence
    BY <2>1, <2>2 DEF BuiltStep
  <2> QED
    BY <1>9, <2>3 DEF Build, StepsAreFromStreams, failed
<1>10. CASE Reserve
  <2>1. job \in BuiltStep
    BY <1>10 DEF Reserve, CoreInv, TypeOK, JobWhileProducing, Producing
  <2>2. job'.failed = job.failed /\ job'.dojo = job.dojo
        /\ job'.sequence = job.sequence
    BY <1>10, <2>1 DEF Reserve, BuiltStep
  <2> QED
    BY <1>10, <2>2 DEF Reserve, StepsAreFromStreams
<1>11. CASE Land
  <2>1. /\ job \in BuiltStep
        /\ job.failed = (<<job.dojo, job.sequence>> \in Failing)
        /\ worker' \notin {"reserving", "landing"}
    BY <1>11 DEF Land, CoreInv, TypeOK, JobWhileProducing, Producing,
                 StepsAreFromStreams
  <2>2. \A i \in 1..Len(ready') : ready'[i].failed =
          (<<ready'[i].dojo, ready'[i].sequence>> \in Failing)
    <3>1. CASE ready' = ready
      BY <1>0, <3>1
    <3>2. CASE ready' = Append(ready, job)
      <4>1. /\ Len(ready') = Len(ready) + 1 /\ ready'[Len(ready) + 1] = job
            /\ \A i \in 1..Len(ready) : ready'[i] = ready[i]
            /\ 1..(Len(ready) + 1) = (1..Len(ready)) \cup {Len(ready) + 1}
        BY <1>0, <2>1, <3>2
      <4> QED
        BY <1>0, <2>1, <4>1
    <3> QED
      BY <1>11, <3>1, <3>2 DEF Land
  <2>3. \A d \in Dojos : \A s \in leftovers'[d] :
          s.failed = (<<d, s.sequence>> \in Failing)
    <3>1. CASE leftovers' = leftovers
      BY <3>1 DEF StepsAreFromStreams
    <3>2. CASE leftovers' = MoveToLeftovers(<<job>>)
      <4>1. <<job>> \in Seq(BuiltStep)
            /\ \A i \in DOMAIN <<job>> : <<job>>[i] = job
        BY <2>1
      <4> QED
        BY <2>1, <3>2, <4>1, MovedAreFromStreams
    <3> QED
      BY <1>11, <3>1, <3>2 DEF Land
  <2> QED
    BY <2>1, <2>2, <2>3 DEF StepsAreFromStreams
<1> QED
  BY <1>2, <1>3, <1>4, <1>5, <1>6, <1>7, <1>8, <1>9, <1>10, <1>11
  DEF Next, ConsumerCall, ConsumerStep, WorkerStep

LEMMA StreamsInOrder == Spec => [](StreamOrder /\ StepsAreFromStreams)
<1>1. Init => StreamOrder /\ StepsAreFromStreams
  <2> SUFFICES ASSUME Init PROVE StreamOrder /\ StepsAreFromStreams
    OBVIOUS
  <2>1. /\ Len(ready) = 0 /\ ~Producing
        /\ \A d \in Dojos : leftovers[d] = {} /\ nextSequence[d] = 0 /\ Used(d) = 0
    BY DEF Init, Producing, Used
  <2>2. QueueOrder /\ QueueFirst /\ JobOrder /\ PileOrder /\ NoStepLost
    BY <2>1 DEF QueueOrder, QueueFirst, JobOrder, PileOrder, NoStepLost
  <2> QED
    BY <2>1, <2>2 DEF StreamOrder, StepsAreFromStreams, Init
<1>2. CoreInv /\ LeftoversByDojo /\ StopsForGood /\ BuiltFollowsSchedule
      /\ (StreamOrder /\ StepsAreFromStreams) /\ [Next]_vars
        => (StreamOrder /\ StepsAreFromStreams)'
  BY StreamOrderStep, FromStreamsStep
<1> QED
  BY <1>1, <1>2, CoreInvariant, LeftoversFiled, FeedStops, FollowsSchedule, PTL
  DEF Spec

(* The prefetching feed implements the direct one: whatever is built       *)
(* ahead, rescheduled, kept or dropped, and whichever thread dies or is    *)
(* told to stop, next_batch answers each dojo with its stream's positions  *)
(* in order, none left out and none repeated.                              *)
THEOREM PrefetchingImplementsFeed == Spec => FeedSpec
<1> USE DEF Feed!vars
<1>1. Init => Feed!Init
  BY DEF Init, Feed!Init
<1>2. ASSUME CoreInv, RoundControl, StopsForGood, BuiltFollowsSchedule,
             StreamOrder, StepsAreFromStreams, [Next]_vars
      PROVE  [Feed!Next]_(Feed!vars)
  <2>1. CASE UNCHANGED <<roundOpen, pending, consumer, delivered>>
    BY <2>1
  <2>2. CASE /\ UNCHANGED <<roundOpen, pending, delivered>>
             /\ consumer # "ending" /\ consumer' # "ending"
    BY <2>2
  <2>3. ASSUME NEW schedule \in Schedules, BeginRound(schedule)
        PROVE  Feed!Next
    <3>1. Feed!BeginRound(schedule)
      BY <2>3 DEF BeginRound, Feed!BeginRound, callVars
    <3> QED
      BY <3>1 DEF Feed!Next
  <2>4. ASSUME NEW remaining \in Schedules, Reschedule(remaining)
        PROVE  Feed!Next
    <3>1. Feed!Reschedule(remaining)
      BY <2>4 DEF Reschedule, Feed!Reschedule
    <3> QED
      BY <3>1 DEF Feed!Next
  <2>5. CASE TakeStep
    <3>1. /\ Head(ready) = ready[1] /\ 1 \in 1..Len(ready)
          /\ ready[1].dojo = asked /\ ready[1].sequence = Used(asked)
          /\ ready[1].failed = (<<asked, Used(asked)>> \in Failing)
      BY <1>2, <2>5, OrderTakeStep
    <3>2. Answer(Head(ready)) = Feed!StreamStep(asked, Len(delivered[asked]))
      BY <3>1 DEF Answer, Feed!StreamStep, Used
    <3>3. delivered' = [delivered EXCEPT ![asked] =
            Append(delivered[asked], Feed!StreamStep(asked, Len(delivered[asked])))]
      BY <2>5, <3>2 DEF TakeStep
    <3>4. /\ roundOpen /\ roundOpen' = roundOpen /\ asked \in Dojos
          /\ consumer # "ending" /\ consumer' # "ending"
          /\ pending # <<>> /\ Head(pending) = asked /\ pending' = Tail(pending)
      BY <1>2, <2>5 DEF TakeStep, IsNextStep, CoreInv, TypeOK
    <3>5. Feed!NextBatch(asked)
      BY <3>3, <3>4 DEF Feed!NextBatch, Feed!IsNextStep
    <3> QED
      BY <3>4, <3>5 DEF Feed!Next
  <2>6. CASE EndRound
    <3>1. Feed!EndRound
      BY <2>6 DEF EndRound, Feed!EndRound
    <3> QED
      BY <3>1 DEF Feed!Next
  <2>7. CASE FinishEndRound
    BY <2>7 DEF FinishEndRound
  <2>8. CASE FinishClose
    <3>1. Feed!EndRound
      BY <2>8 DEF FinishClose, Feed!EndRound
    <3> QED
      BY <3>1 DEF Feed!Next
  <2>9. CASE \/ Start \/ (\E d \in Dojos : AskNext(d)) \/ EndNoRound \/ Close
             \/ RefuseStep \/ StopAsking \/ ReleaseEach
    BY <2>2, <2>9 DEF Start, AskNext, EndNoRound, Close, RefuseStep,
       StopAsking, ReleaseEach, roundVars, callVars
  <2>10. CASE \/ WaitForStep \/ WaitForWorker \/ WorkerStep \/ Die
              \/ UNCHANGED vars
    BY <2>1, <2>10 DEF WaitForStep, WaitForWorker, WorkerStep, TakeLeftover,
       TakeFresh, WaitForWork, LeaveLoop, Build, Reserve, Land, ReleaseLanded,
       Die, vars, roundVars, callVars
  <2> QED
    BY <1>2, <2>3, <2>4, <2>5, <2>6, <2>7, <2>8, <2>9, <2>10
    DEF Next, ConsumerCall, ConsumerStep
<1> QED
  BY <1>1, <1>2, CoreInvariant, RoundControlled, FeedStops, FollowsSchedule,
     StreamsInOrder, PTL
  DEF Spec, FeedSpec, Feed!Spec
=============================================================================
