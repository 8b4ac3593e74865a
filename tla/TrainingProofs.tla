---------------------------- MODULE TrainingProofs ----------------------------
(***************************************************************************)
(* Theorems of what happens in a training run and of what it keeps on disk *)
(* (Trainer, DirectoryCheckpointer, BinderBakes and TrainingRuns): for any *)
(* dojos, plans, outcomes, fault policy, saturation spec and scale; any    *)
(* number of phases and rounds; any arms, specs and number of ingestions;  *)
(* and any runs that are given one directory.                              *)
(***************************************************************************)
EXTENDS Trainer, DirectoryCheckpointer, BinderBakes, TrainingRuns, FiniteSetTheorems, TLAPS

-----------------------------------------------------------------------------
(* Trainer, under the assumptions the configuration checks.                 *)

TrainerAssumptions ==
    FaultPolicyAssumption /\ SaturationAssumption /\ SettingsAssumption

-----------------------------------------------------------------------------
(* Helpers.                                                                *)

LEMMA SettingIs ==
    ASSUME TrainerAssumptions, setting \in Settings
    PROVE  /\ PhaseCount \in Nat /\ RoundLimit \in Nat /\ RoundLimit > 0
           /\ StepsPerRound \in Nat /\ StepsPerRound > 0
           /\ FullScale \in Nat /\ GrowthInterval \in Nat /\ GrowthInterval > 0
           /\ Broken \subseteq Dojos
           /\ \A d \in Dojos : Losses[d] \subseteq Int
  BY DEF TrainerAssumptions, SettingsAssumption, PhaseCount, RoundLimit, StepsPerRound,
         FullScale, Broken, Losses

LEMMA ListsAreSequences ==
    ASSUME TrainerAssumptions, setting \in Settings
    PROVE  \A x : x \in StepLists <=> x \in Seq(Dojos) /\ Len(x) <= StepsPerRound
<1>0. StepsPerRound \in Nat
  BY SettingIs
<1> SUFFICES ASSUME NEW x
             PROVE  x \in StepLists <=> x \in Seq(Dojos) /\ Len(x) <= StepsPerRound
  OBVIOUS
<1>1. ASSUME NEW n \in 0..StepsPerRound, x \in [1..n -> Dojos]
      PROVE  x \in Seq(Dojos) /\ Len(x) <= StepsPerRound
  BY <1>0, <1>1
<1>2. ASSUME x \in Seq(Dojos), Len(x) <= StepsPerRound
      PROVE  x \in StepLists
  <2>1. Len(x) \in 0..StepsPerRound /\ x \in [1..Len(x) -> Dojos]
    BY <1>0, <1>2
  <2> QED
    BY <2>1 DEF StepLists
<1> QED
  BY <1>1, <1>2 DEF StepLists

LEMMA FailureCounts ==
    ASSUME NEW faults \in FaultCounts, NEW d \in Dojos
    PROVE  /\ FailureOf(faults, d) \in FaultCounts
           /\ FailureOf(faults, d).inARow = [faults.inARow EXCEPT ![d] = @ + 1]
           /\ FailureOf(faults, d).total = [faults.total EXCEPT ![d] = @ + 1]
           /\ \/ FailureOf(faults, d).quarantined = faults.quarantined \cup {d}
              \/ /\ FailureOf(faults, d).quarantined = faults.quarantined
                 /\ ~OverLimit(FailureOf(faults, d), d)
<1> DEFINE counted == [faults EXCEPT !.overall = @ + 1, !.inARow[d] = @ + 1,
                                     !.total[d] = @ + 1]
           q == IF OverLimit(counted, d) THEN counted.quarantined \cup {d} ELSE counted.quarantined
<1>1. /\ counted.inARow = [faults.inARow EXCEPT ![d] = @ + 1]
      /\ counted.total = [faults.total EXCEPT ![d] = @ + 1]
      /\ counted.quarantined = faults.quarantined
  BY DEF FaultCounts
<1>2. counted \in FaultCounts
  <2> DEFINE a == [faults.inARow EXCEPT ![d] = @ + 1]
             t == [faults.total EXCEPT ![d] = @ + 1]
             n == faults.overall + 1
  <2>1. a \in [Dojos -> Nat] /\ t \in [Dojos -> Nat] /\ n \in Nat
    BY DEF FaultCounts
  <2>2. counted = [faults EXCEPT !.overall = n, !.inARow = a, !.total = t]
    BY DEF FaultCounts
  <2> HIDE DEF a, t, n, counted
  <2>3. [faults EXCEPT !.overall = n, !.inARow = a, !.total = t] \in FaultCounts
    BY <2>1 DEF FaultCounts
  <2> QED
    BY <2>2, <2>3
<1>3. FailureOf(faults, d) = [counted EXCEPT !.quarantined = q]
  BY DEF FailureOf
<1> HIDE DEF counted
<1>4. q \in SUBSET Dojos
  BY <1>2 DEF FaultCounts
<1>5. \/ q = faults.quarantined \cup {d}
      \/ q = faults.quarantined /\ ~OverLimit(counted, d)
  BY <1>1
<1> HIDE DEF q
<1>6. /\ FailureOf(faults, d) \in FaultCounts
      /\ FailureOf(faults, d).inARow = counted.inARow
      /\ FailureOf(faults, d).total = counted.total
      /\ FailureOf(faults, d).quarantined = q
  BY <1>2, <1>3, <1>4 DEF FaultCounts
<1>7. OverLimit(FailureOf(faults, d), d) <=> OverLimit(counted, d)
  BY <1>6 DEF OverLimit
<1> QED
  BY <1>1, <1>5, <1>6, <1>7

LEMMA OtherCounts ==
    ASSUME NEW faults \in FaultCounts
    PROVE  /\ FailureOfNoDojo(faults) \in FaultCounts
           /\ FailureOfNoDojo(faults).inARow = faults.inARow
           /\ FailureOfNoDojo(faults).total = faults.total
           /\ FailureOfNoDojo(faults).quarantined = faults.quarantined
           /\ \A d \in Dojos :
                /\ SuccessOf(faults, d) \in FaultCounts
                /\ SuccessOf(faults, d).inARow = [faults.inARow EXCEPT ![d] = 0]
                /\ SuccessOf(faults, d).total = faults.total
                /\ SuccessOf(faults, d).quarantined = faults.quarantined
<1>1. /\ FailureOfNoDojo(faults) \in FaultCounts
      /\ FailureOfNoDojo(faults).inARow = faults.inARow
      /\ FailureOfNoDojo(faults).total = faults.total
      /\ FailureOfNoDojo(faults).quarantined = faults.quarantined
  BY DEF FailureOfNoDojo, FaultCounts
<1>2. ASSUME NEW d \in Dojos
      PROVE  /\ SuccessOf(faults, d) \in FaultCounts
             /\ SuccessOf(faults, d).inARow = [faults.inARow EXCEPT ![d] = 0]
             /\ SuccessOf(faults, d).total = faults.total
             /\ SuccessOf(faults, d).quarantined = faults.quarantined
  <2>1. [faults.inARow EXCEPT ![d] = 0] \in [Dojos -> Nat]
    BY DEF FaultCounts
  <2>2. SuccessOf(faults, d) \in FaultCounts
    BY <2>1 DEF SuccessOf, FaultCounts
  <2>3. /\ SuccessOf(faults, d).inARow = [faults.inARow EXCEPT ![d] = 0]
        /\ SuccessOf(faults, d).total = faults.total
        /\ SuccessOf(faults, d).quarantined = faults.quarantined
    BY DEF SuccessOf, FaultCounts
  <2> QED
    BY <2>2, <2>3
<1> QED
  BY <1>1, <1>2

LEMMA NoCounts ==
    /\ NoFailures(Dojos) \in FaultCounts
    /\ \A d \in Dojos : NoFailures(Dojos).inARow[d] = 0 /\ NoFailures(Dojos).total[d] = 0
    /\ NoFailures(Dojos).quarantined = {}
  BY DEF NoFailures, FaultCounts

LEMMA NewTrackType == NewTrack \in Track /\ NewTrack.active
  BY DEF NewTrack, Track

LEMMA ReportType ==
    ASSUME TrainerAssumptions, setting \in Settings, NEW report \in Reports
    PROVE  /\ DOMAIN report \subseteq Dojos
           /\ \A d \in DOMAIN report : report[d] \in Int
<1>1. PICK S \in SUBSET Dojos : report \in [S -> UNION {Losses[d] : d \in S}]
  BY DEF Reports
<1>2. DOMAIN report = S /\ \A d \in S : report[d] \in Losses[d]
  BY <1>1 DEF Reports
<1> QED
  BY <1>2, SettingIs

LEMMA Advances ==
    ASSUME NEW track \in Track, NEW loss \in Int
    PROVE  /\ Advanced(track, loss) \in Track
           /\ Improves(track, loss) =>
                /\ Advanced(track, loss).active <=> track.active
                /\ Advanced(track, loss).best = loss
                /\ Advanced(track, loss).stale = 0
           /\ ~Improves(track, loss) =>
                /\ Advanced(track, loss).best = track.best
                /\ Advanced(track, loss).stale = track.stale + 1
                /\ track.stale + 1 < Patience => (Advanced(track, loss).active <=> track.active)
                /\ ~(track.stale + 1 < Patience) =>
                     /\ ~Advanced(track, loss).active
                     /\ Advanced(track, loss).saturatedAt = loss
<1> DEFINE n == track.stale + 1
<1>1. n \in Nat /\ track \in Track
  BY DEF Track
<1>2. CASE Improves(track, loss)
  BY <1>2 DEF Advanced, Track
<1>3. CASE ~Improves(track, loss) /\ n < Patience
  <2>1. Advanced(track, loss) = [track EXCEPT !.stale = n]
    BY <1>3 DEF Advanced
  <2> HIDE DEF n
  <2>2. Advanced(track, loss) \in Track
    BY <1>1, <2>1 DEF Track
  <2>3. /\ Advanced(track, loss).active <=> track.active
        /\ Advanced(track, loss).best = track.best
        /\ Advanced(track, loss).stale = n
    BY <1>1, <2>1 DEF Track
  <2> QED
    BY <1>3, <2>2, <2>3 DEF n
<1>4. CASE ~Improves(track, loss) /\ ~(n < Patience)
  <2>1. Advanced(track, loss) = [track EXCEPT !.stale = n, !.active = FALSE,
                                              !.saturatedAt = loss]
    BY <1>4 DEF Advanced
  <2> HIDE DEF n
  <2>2. Advanced(track, loss) \in Track
    BY <1>1, <2>1 DEF Track
  <2>3. /\ ~Advanced(track, loss).active
        /\ Advanced(track, loss).best = track.best
        /\ Advanced(track, loss).stale = n
        /\ Advanced(track, loss).saturatedAt = loss
    BY <1>1, <2>1 DEF Track
  <2> QED
    BY <1>4, <2>2, <2>3 DEF n
<1> QED
  BY <1>2, <1>3, <1>4

LEMMA Reconsiders ==
    ASSUME NEW track \in Track, NEW loss \in Int
    PROVE  /\ Reconsidered(track, loss) \in Track
           /\ Regressed(track, loss) =>
                /\ Reconsidered(track, loss).active
                /\ Reconsidered(track, loss).best = loss
                /\ Reconsidered(track, loss).stale = 0
           /\ ~Regressed(track, loss) => Reconsidered(track, loss) = track
  BY DEF Reconsidered, Track

LEMMA RecordedType ==
    ASSUME TrainerAssumptions, setting \in Settings, NEW report \in Reports,
           NEW before \in [Dojos -> Track]
    PROVE  Recorded(before, report) \in [Dojos -> Track]
<1>1. ASSUME NEW d \in Dojos, d \in DOMAIN report
      PROVE  /\ Advanced(before[d], report[d]) \in Track
             /\ Reconsidered(before[d], report[d]) \in Track
  BY <1>1, ReportType, Advances, Reconsiders
<1> QED
  BY <1>1 DEF Recorded

(* a phase that is not done has a dojo to train                            *)
LEMMA NotDoneTrains ==
    ASSUME TrainerAssumptions, NEW after, NEW quarantined, ~PhaseDone(after, quarantined)
    PROVE  \E d \in Dojos : d \notin quarantined /\ after[d].active
<1> DEFINE trained == ActiveIn(after) \ quarantined
<1>0. IsFiniteSet(Dojos) /\ TargetSaturated \in 0..100
  BY DEF TrainerAssumptions, SaturationAssumption
<1>1. Cardinality(Dojos) \in Nat
  BY <1>0, FS_CardinalityType
<1>2. Dojos \ trained # Dojos
  <2>1. SUFFICES ASSUME Dojos \ trained = Dojos
                 PROVE  PhaseDone(after, quarantined)
    BY <2>1
  <2>2. 100 * Cardinality(Dojos) >= TargetSaturated * Cardinality(Dojos)
    BY <1>0, <1>1
  <2> QED
    BY <2>1, <2>2 DEF PhaseDone
<1> QED
  BY <1>2 DEF ActiveIn

LEMMA SamePlan ==
    ASSUME UNCHANGED setting
    PROVE  /\ PhaseCount' = PhaseCount /\ RoundLimit' = RoundLimit
           /\ StepsPerRound' = StepsPerRound /\ StepLists' = StepLists
           /\ FullScale' = FullScale /\ Broken' = Broken /\ Losses' = Losses
           /\ Reports' = Reports
  BY DEF PhaseCount, RoundLimit, StepsPerRound, StepLists, FullScale, Broken, Losses,
         Reports, MayMiss

LEMMA SettingStays == TrainerTypeOK /\ [TrainerNext]_trainerVars => UNCHANGED setting
  BY DEF TrainerNext, trainerVars, OpenPhase, FinishRun, BeginRound, AttemptStep, FeedDies, GiveUp,
         EvaluateRound, Ended

-----------------------------------------------------------------------------
(* The rest of a round after a step, whatever the ledger recorded of it.   *)

LEMMA RoundGoesOn ==
    ASSUME TrainerAssumptions, RoundInv, doing = "step", NEW faults \in FaultCounts,
           RestOfRound(faults), UNCHANGED <<setting, tracks>>
    PROVE  /\ names' \in StepLists /\ feedPending' \in StepLists
           /\ active' \subseteq Dojos
           /\ ledger' \in {faults, FailureOfNoDojo(faults)}
           /\ doing' \in {"step", "roundEnd"}
           /\ doing' = "step" =>
                /\ names' # <<>> /\ feedPending' = names'
                /\ active' = StillTrained(tracks', ledger')
                /\ \A i \in DOMAIN names' : names'[i] \in active'
<1> DEFINE diet == StillTrained(tracks, faults)
           left == Len(names) - 1
           RoundWentOn ==
             /\ names' \in StepLists /\ feedPending' \in StepLists
             /\ active' \subseteq Dojos
             /\ ledger' \in {faults, FailureOfNoDojo(faults)}
             /\ doing' \in {"step", "roundEnd"}
             /\ doing' = "step" =>
                  /\ names' # <<>> /\ feedPending' = names'
                  /\ active' = StillTrained(tracks', ledger')
                  /\ \A i \in DOMAIN names' : names'[i] \in active'
<1>1. /\ names \in Seq(Dojos) /\ names # <<>> /\ feedPending = names
      /\ Len(names) <= StepsPerRound /\ StepsPerRound \in Nat
      /\ active \subseteq Dojos
      /\ \A i \in DOMAIN names : names[i] \in active
  BY ListsAreSequences, SettingIs DEF RoundInv, FeedAgrees, TrainerTypeOK
<1>2. /\ Tail(names) \in StepLists /\ names \in StepLists
      /\ Len(Tail(names)) = left /\ left \in Nat /\ left <= StepsPerRound
      /\ \A i \in DOMAIN Tail(names) : Tail(names)[i] \in active
  <2>1. /\ Tail(names) \in Seq(Dojos) /\ Len(Tail(names)) = left /\ left \in Nat
        /\ left < Len(names)
        /\ \A i \in 1..left : Tail(names)[i] = names[i + 1]
    BY <1>1
  <2>2. \A i \in 1..left : i + 1 \in DOMAIN names
    BY <1>1
  <2>3. DOMAIN Tail(names) = 1..left
    BY <2>1
  <2>4. left <= StepsPerRound
    BY <1>1, <2>1
  <2>5. Tail(names) \in StepLists /\ names \in StepLists
    <3>1. setting \in Settings
      BY DEF RoundInv, FeedAgrees, TrainerTypeOK
    <3> QED
      BY <1>1, <2>1, <2>4, <3>1, ListsAreSequences
  <2>6. \A i \in DOMAIN Tail(names) : Tail(names)[i] \in active
    BY <1>1, <2>1, <2>2, <2>3
  <2> HIDE DEF left
  <2> QED
    BY <2>1, <2>4, <2>5, <2>6
<1>3. diet \subseteq Dojos
  BY DEF StillTrained, ActiveIn
<1>4. ASSUME NEW rest \in Schedules(diet, left), left > 0
      PROVE  /\ rest \in StepLists /\ rest # <<>>
             /\ \A i \in DOMAIN rest : rest[i] \in diet
  <2>1. rest \in [1..left -> diet]
    BY DEF Schedules
  <2>2. rest \in [1..left -> Dojos] /\ left \in 0..StepsPerRound
    BY <1>1, <1>2, <1>3, <2>1
  <2>3. rest \in StepLists
    BY <2>2 DEF StepLists
  <2>4. 1 \in DOMAIN rest
    BY <1>2, <1>4, <2>1
  <2> QED
    BY <2>1, <2>3, <2>4
<1>5. feedPending' \in {Tail(names), names'} /\ StepLists' = StepLists
  BY <1>1, SamePlan DEF RestOfRound, FeedReschedule
<1>6. CASE GaveUp(faults)
  BY <1>1, <1>2, <1>6 DEF RestOfRound, plan
<1>7. CASE ~GaveUp(faults) /\ diet = active
  <2>1. /\ doing' = IF left = 0 THEN "roundEnd" ELSE "step"
        /\ names' = Tail(names) /\ ledger' = faults /\ feedPending' = Tail(feedPending)
        /\ active' = active
    BY <1>7 DEF RestOfRound
  <2>2. left # 0 => Tail(names) # <<>>
    BY <1>2
  <2>3. StillTrained(tracks', ledger') = active'
    BY <1>7, <2>1 DEF StillTrained, ActiveIn
  <2> QED
    BY <1>1, <1>2, <1>5, <2>1, <2>2, <2>3
<1>8. CASE ~GaveUp(faults) /\ diet # active
  <2>1. active' = diet
    BY <1>8 DEF RestOfRound
  <2>2. CASE /\ doing' = "roundEnd" /\ ledger' \in {faults, FailureOfNoDojo(faults)}
             /\ feedPending' = Tail(feedPending) /\ names' = names
    BY <1>1, <1>2, <1>3, <1>5, <2>1, <2>2
  <2>3. ASSUME NEW rest \in Schedules(diet, left), left > 0,
               doing' = "step", ledger' = faults, names' = rest, feedPending' = rest
        PROVE  RoundWentOn
    <3>1. StillTrained(tracks', ledger') = active'
      BY <2>1, <2>3 DEF StillTrained, ActiveIn
    <3> QED
      BY <1>3, <1>4, <1>5, <2>1, <2>3, <3>1
  <2> QED
    BY <1>8, <2>2, <2>3 DEF RestOfRound, FeedReschedule
<1> QED
  BY <1>6, <1>7, <1>8

-----------------------------------------------------------------------------
(* The trainer and its feed (FeedAgrees).                                  *)

LEMMA RoundInvInit ==
    ASSUME TrainerAssumptions, TrainerInit
    PROVE  RoundInv
<1>1. /\ setting \in Settings /\ doing = "phase" /\ phaseIndex = 0 /\ roundIndex = 0
      /\ names = <<>> /\ active = {} /\ ~feedOpen /\ feedOpen \in BOOLEAN
      /\ feedPending = <<>>
      /\ scale = FullScale /\ finite = 0 /\ growths = 0
      /\ best = NoReport /\ lastGood = NoReport /\ reason = "none"
  BY DEF TrainerInit
<1>2. ledger \in FaultCounts
  BY NoCounts DEF TrainerInit
<1>3. tracks \in [Dojos -> Track] /\ scores \in [Dojos -> Seq(Int)] /\ tried \in [Broken -> Nat]
  BY NewTrackType DEF TrainerInit
<1>4. /\ phaseIndex \in 0..PhaseCount /\ roundIndex \in 0..RoundLimit
      /\ growths \in Nat /\ scale \in 0..(FullScale + growths)
      /\ finite \in 0..(GrowthInterval - 1)
  BY <1>1, SettingIs
<1>5. <<>> \in StepLists
  <2>1. <<>> \in Seq(Dojos) /\ Len(<<>>) <= StepsPerRound
    BY <1>1, SettingIs
  <2> QED
    BY <1>1, <2>1, ListsAreSequences
<1>6. TrainerTypeOK
  BY <1>1, <1>2, <1>3, <1>4, <1>5 DEF TrainerTypeOK
<1> QED
  BY <1>1, <1>6 DEF RoundInv, FeedAgrees

LEMMA OpenPhaseKeepsRound ==
    ASSUME TrainerAssumptions, RoundInv, OpenPhase
    PROVE  RoundInv'
<1> USE SamePlan DEF OpenPhase
<1>1. /\ setting' = setting /\ setting \in Settings /\ doing' = "round" /\ phaseIndex' = phaseIndex + 1
      /\ phaseIndex \in 0..PhaseCount /\ phaseIndex < PhaseCount /\ roundIndex' = 0
      /\ names' = <<>> /\ active' = {} /\ ~feedOpen' /\ feedOpen' \in BOOLEAN
      /\ feedPending' = <<>>
      /\ scale' = FullScale /\ finite' = 0 /\ growths' = 0
      /\ best' = NoReport /\ lastGood' = lastGood /\ reason' = reason
      /\ \A r \in {best, lastGood} \ {NoReport} : r \in Reports
      /\ reason \in {"none", "failures", "quarantined", "feed"}
  BY DEF RoundInv, FeedAgrees, TrainerTypeOK, FreshPhase
<1>2. ledger' \in FaultCounts /\ ledger'.quarantined = {}
  BY NoCounts DEF FreshPhase
<1>3. /\ tracks' \in [Dojos -> Track] /\ scores' \in [Dojos -> Seq(Int)]
      /\ tried' \in [Broken -> Nat]
      /\ \A d \in Dojos : tracks'[d].active
  BY NewTrackType DEF FreshPhase
<1>4. /\ phaseIndex' \in 0..PhaseCount /\ roundIndex' \in 0..RoundLimit /\ roundIndex' < RoundLimit
      /\ growths' \in Nat /\ scale' \in 0..(FullScale + growths')
      /\ finite' \in 0..(GrowthInterval - 1)
  BY <1>1, SettingIs
<1>5. <<>> \in StepLists
  <2>1. <<>> \in Seq(Dojos) /\ Len(<<>>) <= StepsPerRound
    BY <1>1, SettingIs
  <2> QED
    BY <1>1, <2>1, ListsAreSequences
<1>6. TrainerTypeOK'
  BY <1>1, <1>2, <1>3, <1>4, <1>5 DEF TrainerTypeOK
<1>7. \E d \in Dojos : d \notin ledger'.quarantined /\ tracks'[d].active
  BY <1>2, <1>3 DEF TrainerAssumptions, SaturationAssumption
<1> QED
  BY <1>1, <1>4, <1>6, <1>7 DEF RoundInv, FeedAgrees

LEMMA BeginRoundKeepsRound ==
    ASSUME TrainerAssumptions, RoundInv, BeginRound
    PROVE  RoundInv'
<1> DEFINE diet == StillTrained(tracks, ledger)
<1>1. /\ TrainerTypeOK /\ ~feedOpen /\ roundIndex < RoundLimit /\ doing = "round"
      /\ UNCHANGED <<setting, phaseIndex, roundIndex, tracks, scaler, bests, reason, history>>
      /\ setting \in Settings
  BY DEF RoundInv, FeedAgrees, BeginRound, TrainerTypeOK
<1>2. ledger \in FaultCounts /\ FailureOfNoDojo(ledger) \in FaultCounts
  BY <1>1, OtherCounts DEF TrainerTypeOK
<1>3. CASE UNCHANGED <<plan, feed>> /\ ledger' \in FaultCounts /\ doing' = "roundEnd"
  BY <1>1, <1>3, SamePlan DEF RoundInv, FeedAgrees, TrainerTypeOK, scaler, bests, history, plan, feed
<1>4. ASSUME NEW schedule \in Schedules(diet, StepsPerRound),
             names' = schedule, active' = diet, feedOpen' = TRUE, feedPending' = schedule,
             doing' = "step", UNCHANGED ledger
      PROVE  RoundInv'
  <2>1. schedule \in [1..StepsPerRound -> diet] /\ diet \subseteq Dojos
    BY DEF Schedules, StillTrained, ActiveIn
  <2>2. StepsPerRound \in Nat /\ StepsPerRound > 0
    BY <1>1, SettingIs
  <2>3. schedule \in StepLists
    BY <2>1, <2>2 DEF StepLists
  <2>4. schedule # <<>> /\ \A i \in DOMAIN schedule : schedule[i] \in diet
    BY <2>1, <2>2
  <2>5. StillTrained(tracks', ledger') = diet
    BY <1>1, <1>4 DEF StillTrained, ActiveIn
  <2>6. TrainerTypeOK'
    BY <1>1, <1>4, <2>1, <2>3, SamePlan DEF TrainerTypeOK, scaler, bests, history
  <2> HIDE DEF diet
  <2> QED
    BY <1>1, <1>4, <2>4, <2>5, <2>6, SamePlan DEF RoundInv, FeedAgrees
<1> QED
  BY <1>2, <1>3, <1>4 DEF BeginRound

LEMMA LedgerAfterStep ==
    ASSUME ledger \in FaultCounts, NEW d \in Dojos, NEW outcome
    PROVE  LedgerAfter(d, outcome) \in FaultCounts
  BY FailureCounts, OtherCounts DEF LedgerAfter

LEMMA ScaleStays ==
    ASSUME TrainerAssumptions, TrainerTypeOK, NEW outcome, ScaleAfter(outcome), UNCHANGED setting
    PROVE  /\ growths' \in Nat /\ scale' \in 0..(FullScale + growths')
           /\ finite' \in 0..(GrowthInterval - 1)
           /\ growths' >= growths /\ growths' - scale' >= growths - scale
           /\ growths' = 0 => scale' <= scale
           /\ outcome = "notFinite" =>
                /\ growths' = growths
                /\ scale' = IF scale > 0 THEN scale - 1 ELSE 0
<1>1. /\ FullScale \in Nat /\ GrowthInterval \in Nat /\ GrowthInterval > 0
      /\ scale \in Nat /\ growths \in Nat /\ scale <= FullScale + growths
      /\ finite \in Nat /\ finite < GrowthInterval
  BY SettingIs DEF TrainerTypeOK
<1>2. (finite + 1) % GrowthInterval \in 0..(GrowthInterval - 1)
  BY <1>1
<1>3. CASE outcome = "notFinite"
  BY <1>1, <1>3 DEF ScaleAfter
<1>4. CASE outcome # "notFinite" /\ scale' = scale
  BY <1>1, <1>2, <1>4 DEF ScaleAfter
<1>5. CASE outcome # "notFinite" /\ scale' = scale + 1
  BY <1>1, <1>2, <1>5 DEF ScaleAfter
<1> QED
  BY <1>3, <1>4, <1>5 DEF ScaleAfter

LEMMA AttemptStepKeepsRound ==
    ASSUME TrainerAssumptions, RoundInv, AttemptStep
    PROVE  RoundInv'
<1>1. /\ TrainerTypeOK /\ roundIndex < RoundLimit /\ setting \in Settings /\ doing = "step" /\ feedOpen
      /\ names # <<>> /\ names \in Seq(Dojos)
      /\ UNCHANGED <<setting, phaseIndex, roundIndex, feedOpen, tracks, bests, reason, reports, scores>>
  BY ListsAreSequences DEF RoundInv, FeedAgrees, AttemptStep, TrainerTypeOK
<1>2. PICK outcome \in OutcomesOf(Head(names)) :
        RestOfRound(LedgerAfter(Head(names), outcome)) /\ ScaleAfter(outcome)
  BY DEF AttemptStep
<1> DEFINE faults == LedgerAfter(Head(names), outcome)
<1>3. faults \in FaultCounts /\ FailureOfNoDojo(faults) \in FaultCounts
  <2>1. Head(names) \in Dojos /\ ledger \in FaultCounts
    BY <1>1 DEF TrainerTypeOK
  <2> QED
    BY <2>1, LedgerAfterStep, OtherCounts
<1> HIDE DEF faults
<1>4. RestOfRound(faults)
  BY <1>2 DEF faults
<1>5. /\ names' \in StepLists /\ feedPending' \in StepLists
      /\ active' \subseteq Dojos /\ ledger' \in FaultCounts
      /\ doing' \in {"step", "roundEnd"}
      /\ doing' = "step" =>
           /\ names' # <<>> /\ feedPending' = names'
           /\ active' = StillTrained(tracks', ledger')
           /\ \A i \in DOMAIN names' : names'[i] \in active'
  BY <1>1, <1>3, <1>4, RoundGoesOn
<1>6. /\ growths' \in Nat /\ scale' \in 0..(FullScale + growths')
      /\ finite' \in 0..(GrowthInterval - 1)
  BY <1>1, <1>2, ScaleStays
<1>7. tried' \in [Broken -> Nat]
  BY <1>1 DEF AttemptStep, TrainerTypeOK
<1>8. TrainerTypeOK'
  BY <1>1, <1>5, <1>6, <1>7, SamePlan DEF TrainerTypeOK, bests
<1> QED
  BY <1>1, <1>5, <1>8, SamePlan DEF RoundInv, FeedAgrees

LEMMA EndsKeepRound ==
    ASSUME TrainerAssumptions, RoundInv, FinishRun \/ FeedDies \/ GiveUp \/ Ended
    PROVE  RoundInv'
<1>1. TrainerTypeOK /\ UNCHANGED setting /\ setting \in Settings
  BY DEF RoundInv, FeedAgrees, TrainerTypeOK, FinishRun, FeedDies, GiveUp, Ended, trainerVars
<1>2. CASE FinishRun
  BY <1>1, <1>2, SamePlan DEF RoundInv, FeedAgrees, TrainerTypeOK, FinishRun, plan, feed, scaler,
     bests, history
<1>3. <<>> \in StepLists
  <2>1. <<>> \in Seq(Dojos) /\ Len(<<>>) <= StepsPerRound
    BY <1>1, SettingIs
  <2> QED
    BY <1>1, <2>1, ListsAreSequences
<1>4. CASE FeedDies
  BY <1>1, <1>3, <1>4, SamePlan DEF RoundInv, FeedAgrees, TrainerTypeOK, FeedDies, plan, scaler,
     history
<1>5. CASE GiveUp
  BY <1>1, <1>3, <1>5, SamePlan DEF RoundInv, FeedAgrees, TrainerTypeOK, GiveUp, EndPhase, plan,
     scaler, history
<1>6. CASE Ended
  BY <1>1, <1>6, SamePlan DEF RoundInv, FeedAgrees, TrainerTypeOK, Ended, trainerVars, progress, plan,
     feed, scaler, bests, history
<1> QED
  BY <1>2, <1>4, <1>5, <1>6

LEMMA ScoresType ==
    ASSUME TrainerAssumptions, setting \in Settings, NEW report \in Reports,
           scores \in [Dojos -> Seq(Int)], NEW d \in Dojos
    PROVE  ScoresAfter(d, report) \in Seq(Int)
<1>1. scores[d] \in Seq(Int)
  OBVIOUS
<1>2. CASE d \in DOMAIN report
  <2>1. report[d] \in Int
    BY <1>2, ReportType
  <2>2. <<report[d]>> \in Seq(Int) /\ Append(scores[d], report[d]) \in Seq(Int)
    BY <1>1, <2>1
  <2> QED
    BY <1>1, <2>2 DEF ScoresAfter
<1> QED
  BY <1>1, <1>2 DEF ScoresAfter

LEMMA EvaluateRoundKeepsRound ==
    ASSUME TrainerAssumptions, RoundInv, EvaluateRound
    PROVE  RoundInv'
<1>1. /\ TrainerTypeOK /\ roundIndex < RoundLimit /\ setting \in Settings /\ doing = "roundEnd"
      /\ feedOpen' = FALSE /\ feedPending' = <<>> /\ roundIndex' = roundIndex + 1
      /\ UNCHANGED <<setting, phaseIndex, plan, ledger, scaler, tried, growths>>
  BY DEF RoundInv, FeedAgrees, TrainerTypeOK, EvaluateRound
<1>2. PICK report \in Reports :
        /\ tracks' = Recorded(tracks, report)
        /\ scores' = [d \in Dojos |-> ScoresAfter(d, report)]
        /\ best' \in {report, best}
  BY DEF EvaluateRound
<1>3. tracks' \in [Dojos -> Track]
  BY <1>1, <1>2, RecordedType DEF TrainerTypeOK
<1>4. scores' \in [Dojos -> Seq(Int)]
  BY <1>1, <1>2, ScoresType DEF TrainerTypeOK
<1>5. /\ \A r \in {best', lastGood'} \ {NoReport} : r \in Reports
      /\ reason' \in {"none", "failures", "quarantined", "feed"}
      /\ doing' \in {"phase", "round", "ended"}
      /\ doing' = "round" =>
           /\ ~PhaseDone(tracks', ledger.quarantined) /\ roundIndex + 1 # RoundLimit
  BY <1>1, <1>2 DEF EvaluateRound, EndPhase, TrainerTypeOK
<1>6. roundIndex' \in 0..RoundLimit /\ (doing' = "round" => roundIndex' < RoundLimit)
  <2>1. RoundLimit \in Nat /\ roundIndex \in 0..RoundLimit
    BY <1>1, SettingIs DEF TrainerTypeOK
  <2> QED
    BY <1>1, <1>5, <2>1
<1>7. <<>> \in StepLists
  <2>1. <<>> \in Seq(Dojos) /\ Len(<<>>) <= StepsPerRound
    BY <1>1, SettingIs
  <2> QED
    BY <1>1, <2>1, ListsAreSequences
<1>8. TrainerTypeOK'
  BY <1>1, <1>3, <1>4, <1>5, <1>6, <1>7, SamePlan DEF TrainerTypeOK, plan, scaler
<1>9. doing' = "round" => \E d \in Dojos : d \notin ledger'.quarantined /\ tracks'[d].active
  BY <1>1, <1>5, NotDoneTrains
<1> QED
  BY <1>1, <1>5, <1>6, <1>8, <1>9, SamePlan DEF RoundInv, FeedAgrees

LEMMA RoundInvNext ==
    ASSUME TrainerAssumptions, RoundInv, [TrainerNext]_trainerVars
    PROVE  RoundInv'
<1>1. CASE UNCHANGED trainerVars
  BY <1>1, SamePlan DEF RoundInv, FeedAgrees, TrainerTypeOK, trainerVars, progress, plan, feed, scaler,
     bests, history
<1> QED
  BY <1>1, OpenPhaseKeepsRound, BeginRoundKeepsRound, AttemptStepKeepsRound, EndsKeepRound,
     EvaluateRoundKeepsRound DEF TrainerNext

LEMMA RoundInvHolds ==
    ASSUME TrainerAssumptions
    PROVE  TrainerSpec => []RoundInv
<1>1. TrainerInit => RoundInv
  BY RoundInvInit
<1>2. RoundInv /\ [TrainerNext]_trainerVars => RoundInv'
  BY RoundInvNext
<1> QED
  BY <1>1, <1>2, PTL DEF TrainerSpec

(* The trainer never asks its feed for a step the feed does not expect, no *)
(* round is left open, and no round begins without a dojo to train         *)
(* (_train_round, reschedule, end_round, phase_done).                      *)
THEOREM TrainerAndFeedAgree ==
    ASSUME TrainerAssumptions
    PROVE  TrainerSpec => []FeedAgrees
<1>1. RoundInv => FeedAgrees
  BY DEF RoundInv
<1> QED
  BY <1>1, RoundInvHolds, PTL

-----------------------------------------------------------------------------
(* The failures of a phase and who is dropped for them.                    *)

DropsOverLimit == \A d \in Dojos : OverLimit(ledger, d) => d \in ledger.quarantined

DropCosts(d) ==
    /\ tried[d] <= (FullScale + growths - scale) + ledger.total[d]
    /\ ledger.total[d] <= MaxTotalDojoFailures
    /\ growths = 0 =>
        /\ ledger.inARow[d] = ledger.total[d]
        /\ ledger.total[d] <= MaxConsecutiveDojoFailures
        /\ scale > 0 => ledger.total[d] = 0

LEMMA DropInvParts == DropInv <=> DropsOverLimit /\ \A d \in Broken : DropCosts(d)
  BY DEF DropInv, DropsOverLimit, DropCosts

LEMMA FreshDrops ==
    ASSUME TrainerAssumptions, ledger = NoFailures(Dojos), scale = FullScale, growths = 0,
           tried = [d \in Broken |-> 0], setting \in Settings
    PROVE  DropInv
<1>1. /\ MaxConsecutiveDojoFailures \in Nat \ {0} /\ MaxTotalDojoFailures \in Nat \ {0}
      /\ FullScale \in Nat /\ Broken \subseteq Dojos
  BY SettingIs DEF TrainerAssumptions, FaultPolicyAssumption
<1>2. \A d \in Dojos : ledger.inARow[d] = 0 /\ ledger.total[d] = 0
  BY NoCounts
<1>3. DropsOverLimit
  BY <1>1, <1>2 DEF DropsOverLimit, OverLimit
<1>4. \A d \in Broken : DropCosts(d)
  BY <1>1, <1>2 DEF DropCosts
<1> QED
  BY <1>3, <1>4, DropInvParts

(* A step of d moves the counts of d only, and drops it once it is over a  *)
(* limit.                                                                  *)
LEMMA StepKeepsDrops ==
    ASSUME ledger \in FaultCounts, DropsOverLimit, NEW d \in Dojos, NEW outcome,
           NEW faults, faults = LedgerAfter(d, outcome), TrainerAssumptions
    PROVE  /\ faults \in FaultCounts
           /\ \A c \in Dojos : OverLimit(faults, c) => c \in faults.quarantined
           /\ \A c \in Dojos \ {d} : /\ faults.total[c] = ledger.total[c]
                                     /\ faults.inARow[c] = ledger.inARow[c]
           /\ StepFails(outcome) => /\ faults.total[d] = ledger.total[d] + 1
                                    /\ faults.inARow[d] = ledger.inARow[d] + 1
           /\ ~StepFails(outcome) => faults.total[d] = ledger.total[d]
           /\ ~StepFails(outcome) /\ outcome # "noBaseline" => faults.inARow[d] = 0
<1>0. /\ ledger.inARow \in [Dojos -> Nat] /\ ledger.total \in [Dojos -> Nat]
      /\ MaxConsecutiveDojoFailures \in Nat \ {0}
  BY DEF FaultCounts, TrainerAssumptions, FaultPolicyAssumption
<1>1. CASE StepFails(outcome)
  <2>1. faults = FailureOf(ledger, d)
    BY <1>1 DEF LedgerAfter, StepFails
  <2>2. /\ faults \in FaultCounts
        /\ faults.inARow = [ledger.inARow EXCEPT ![d] = @ + 1]
        /\ faults.total = [ledger.total EXCEPT ![d] = @ + 1]
        /\ \/ faults.quarantined = ledger.quarantined \cup {d}
           \/ faults.quarantined = ledger.quarantined /\ ~OverLimit(faults, d)
    BY <2>1, FailureCounts
  <2>3. /\ faults.total[d] = ledger.total[d] + 1 /\ faults.inARow[d] = ledger.inARow[d] + 1
        /\ \A c \in Dojos \ {d} : /\ faults.total[c] = ledger.total[c]
                                  /\ faults.inARow[c] = ledger.inARow[c]
    BY <1>0, <2>2
  <2>4. \A c \in Dojos \ {d} : OverLimit(faults, c) => OverLimit(ledger, c)
    BY <2>3 DEF OverLimit
  <2>5. \A c \in Dojos : OverLimit(faults, c) => c \in faults.quarantined
    BY <2>2, <2>4 DEF DropsOverLimit
  <2> QED
    BY <1>1, <2>2, <2>3, <2>5
<1>2. CASE ~StepFails(outcome) /\ outcome = "noBaseline"
  BY <1>2 DEF LedgerAfter, DropsOverLimit
<1>3. CASE ~StepFails(outcome) /\ outcome # "noBaseline"
  <2>1. faults = SuccessOf(ledger, d)
    BY <1>3 DEF LedgerAfter
  <2>2. /\ faults \in FaultCounts
        /\ faults.inARow = [ledger.inARow EXCEPT ![d] = 0]
        /\ faults.total = ledger.total /\ faults.quarantined = ledger.quarantined
    <3>1. \A c \in Dojos :
            /\ SuccessOf(ledger, c) \in FaultCounts
            /\ SuccessOf(ledger, c).inARow = [ledger.inARow EXCEPT ![c] = 0]
            /\ SuccessOf(ledger, c).total = ledger.total
            /\ SuccessOf(ledger, c).quarantined = ledger.quarantined
      BY OtherCounts
    <3> QED
      BY <2>1, <3>1
  <2>3. /\ faults.inARow[d] = 0
        /\ \A c \in Dojos \ {d} : faults.inARow[c] = ledger.inARow[c]
    BY <1>0, <2>2
  <2>4. \A c \in Dojos : OverLimit(faults, c) => OverLimit(ledger, c)
    BY <1>0, <2>2, <2>3 DEF OverLimit
  <2> QED
    BY <1>3, <2>2, <2>3, <2>4 DEF DropsOverLimit
<1> QED
  BY <1>1, <1>2, <1>3

LEMMA SpentOnly ==
    ASSUME NEW full \in Nat, NEW g \in Nat, NEW s \in Nat, NEW g2 \in Nat, NEW s2 \in Nat,
           NEW attempts \in Nat, NEW failures \in Nat,
           attempts <= (full + g - s) + failures, g2 - s2 >= g - s
    PROVE  attempts <= (full + g2 - s2) + failures
  OBVIOUS

LEMMA AttemptStepKeepsDrops ==
    ASSUME TrainerAssumptions, RoundInv, DropInv, AttemptStep
    PROVE  DropInv'
<1>1. /\ TrainerTypeOK /\ setting \in Settings /\ doing = "step" /\ UNCHANGED <<setting, tracks>>
      /\ Head(names) \in Dojos /\ Head(names) \notin ledger.quarantined
  <2>1. /\ TrainerTypeOK /\ setting \in Settings /\ doing = "step"
        /\ names # <<>> /\ names \in Seq(Dojos)
        /\ active = StillTrained(tracks, ledger)
        /\ \A i \in DOMAIN names : names[i] \in active
        /\ UNCHANGED <<setting, tracks>>
    BY ListsAreSequences DEF RoundInv, FeedAgrees, AttemptStep, TrainerTypeOK
  <2>2. 1 \in DOMAIN names /\ Head(names) = names[1]
    BY <2>1
  <2> QED
    BY <2>1, <2>2 DEF StillTrained, ActiveIn
<1>2. PICK outcome \in OutcomesOf(Head(names)) :
        RestOfRound(LedgerAfter(Head(names), outcome)) /\ ScaleAfter(outcome)
  BY DEF AttemptStep
<1> DEFINE now == Head(names)
           faults == LedgerAfter(now, outcome)
<1>3. tried' = [d \in Broken |-> tried[d] + (IF d = now THEN 1 ELSE 0)]
  BY DEF AttemptStep
<1>0. /\ FullScale' = FullScale /\ FullScale \in Nat /\ scale \in Nat /\ growths \in Nat
      /\ MaxConsecutiveDojoFailures \in Nat /\ MaxTotalDojoFailures \in Nat
  BY <1>1, SettingIs, SamePlan DEF TrainerTypeOK, TrainerAssumptions, FaultPolicyAssumption
<1>4. /\ Broken' = Broken /\ Broken \subseteq Dojos
      /\ tried \in [Broken -> Nat] /\ ledger \in FaultCounts
      /\ ledger.total \in [Dojos -> Nat] /\ ledger.inARow \in [Dojos -> Nat]
  <2>1. ledger \in FaultCounts /\ tried \in [Broken -> Nat]
    BY <1>1 DEF TrainerTypeOK
  <2>2. ledger.total \in [Dojos -> Nat] /\ ledger.inARow \in [Dojos -> Nat]
    BY <2>1 DEF FaultCounts
  <2> QED
    BY <1>1, <2>1, <2>2, SettingIs, SamePlan
<1>5. DropsOverLimit /\ \A d \in Broken : DropCosts(d)
  BY DropInvParts
<1>6. /\ faults \in FaultCounts
      /\ \A c \in Dojos : OverLimit(faults, c) => c \in faults.quarantined
      /\ \A c \in Dojos \ {now} : /\ faults.total[c] = ledger.total[c]
                                  /\ faults.inARow[c] = ledger.inARow[c]
      /\ StepFails(outcome) => /\ faults.total[now] = ledger.total[now] + 1
                               /\ faults.inARow[now] = ledger.inARow[now] + 1
      /\ ~StepFails(outcome) => faults.total[now] = ledger.total[now]
      /\ ~StepFails(outcome) /\ outcome # "noBaseline" => faults.inARow[now] = 0
  BY <1>1, <1>4, <1>5, StepKeepsDrops
<1> HIDE DEF faults
<1>7. ledger' \in {faults, FailureOfNoDojo(faults)}
  BY <1>1, <1>2, <1>6, RoundGoesOn DEF faults
<1>8. /\ ledger'.total = faults.total /\ ledger'.inARow = faults.inARow
      /\ ledger'.quarantined = faults.quarantined
  BY <1>6, <1>7, OtherCounts
<1>9. DropsOverLimit'
  BY <1>6, <1>8 DEF DropsOverLimit, OverLimit
<1>10. /\ growths' \in Nat /\ scale' \in Nat /\ growths' >= growths
       /\ growths' - scale' >= growths - scale
       /\ growths' = 0 => scale' <= scale
       /\ outcome = "notFinite" => /\ growths' = growths
                                   /\ scale' = IF scale > 0 THEN scale - 1 ELSE 0
  BY <1>0, <1>1, <1>2, ScaleStays
<1>11. ASSUME NEW d \in Broken, d # now
       PROVE  DropCosts(d)'
  <2>1. /\ tried'[d] = tried[d] /\ tried[d] \in Nat /\ ledger.total[d] \in Nat
        /\ ledger'.total[d] = ledger.total[d] /\ ledger'.inARow[d] = ledger.inARow[d]
    BY <1>3, <1>4, <1>6, <1>8, <1>11
  <2>2. DropCosts(d)
    BY <1>5
  <2>3. ledger'.total[d] <= MaxTotalDojoFailures
    BY <2>1, <2>2 DEF DropCosts
  <2>4. tried'[d] <= (FullScale + growths' - scale') + ledger'.total[d]
    <3>1. tried[d] <= (FullScale + growths - scale) + ledger.total[d]
      BY <2>2 DEF DropCosts
    <3> QED
      BY <1>0, <1>10, <2>1, <3>1, SpentOnly
  <2>5. growths' = 0 =>
        /\ ledger'.inARow[d] = ledger'.total[d]
        /\ ledger'.total[d] <= MaxConsecutiveDojoFailures
        /\ scale' > 0 => ledger'.total[d] = 0
    BY <1>0, <1>10, <2>1, <2>2 DEF DropCosts
  <2> QED
    BY <1>0, <2>3, <2>4, <2>5 DEF DropCosts
<1>12. ASSUME NEW d \in Broken, d = now
       PROVE  DropCosts(d)'
  <2>1. outcome = "notFinite"
    BY <1>2, <1>12 DEF OutcomesOf
  <2>2. /\ DropCosts(d) /\ ~OverLimit(ledger, d)
        /\ tried'[d] = tried[d] + 1 /\ tried[d] \in Nat
        /\ ledger.total[d] \in Nat /\ ledger.inARow[d] \in Nat
    BY <1>1, <1>3, <1>4, <1>5, <1>12 DEF DropsOverLimit
  <2>3. ledger.total[d] < MaxTotalDojoFailures /\ ledger.inARow[d] < MaxConsecutiveDojoFailures
    BY <1>0, <1>4, <2>2 DEF OverLimit
  <2>4. StepFails(outcome) <=> scale = 0
    BY <2>1 DEF StepFails
  <2>5. CASE scale > 0
    <3>1. ledger'.total[d] = ledger.total[d] /\ ledger'.inARow[d] = 0
      BY <1>4, <1>6, <1>8, <1>12, <2>1, <2>4, <2>5
    <3> QED
      BY <1>0, <1>10, <2>1, <2>2, <2>5, <3>1 DEF DropCosts
  <2>6. CASE scale = 0
    <3>1. /\ ledger'.total[d] = ledger.total[d] + 1
          /\ ledger'.inARow[d] = ledger.inARow[d] + 1
      BY <1>4, <1>6, <1>8, <1>12, <2>4, <2>6
    <3> QED
      BY <1>0, <1>10, <2>1, <2>2, <2>3, <2>6, <3>1 DEF DropCosts
  <2> QED
    BY <1>0, <2>5, <2>6
<1>13. \A d \in Broken' : DropCosts(d)'
  BY <1>4, <1>11, <1>12
<1> QED
  BY <1>9, <1>13 DEF DropInv, DropsOverLimit, DropCosts

LEMMA DropInvNext ==
    ASSUME TrainerAssumptions, RoundInv, DropInv, [TrainerNext]_trainerVars
    PROVE  DropInv'
<1>1. TrainerTypeOK /\ UNCHANGED setting /\ setting \in Settings
  BY SettingStays DEF RoundInv, FeedAgrees, TrainerTypeOK
<1>2. Broken' = Broken /\ FullScale' = FullScale
  BY <1>1, SamePlan
<1>3. CASE OpenPhase
  <2>1. /\ ledger' = NoFailures(Dojos) /\ scale' = FullScale /\ growths' = 0
        /\ tried' = [d \in Broken |-> 0]
    BY <1>3 DEF OpenPhase, FreshPhase
  <2>2. /\ MaxConsecutiveDojoFailures \in Nat \ {0} /\ MaxTotalDojoFailures \in Nat \ {0}
        /\ FullScale \in Nat /\ Broken \subseteq Dojos
    BY <1>1, SettingIs DEF TrainerAssumptions, FaultPolicyAssumption
  <2>3. \A d \in Dojos : ledger'.inARow[d] = 0 /\ ledger'.total[d] = 0
    BY <2>1, NoCounts
  <2>4. DropsOverLimit'
    BY <2>2, <2>3 DEF DropsOverLimit, OverLimit
  <2>5. \A d \in Broken' : DropCosts(d)'
    BY <1>2, <2>1, <2>2, <2>3 DEF DropCosts
  <2> QED
    BY <2>4, <2>5 DEF DropInv, DropsOverLimit, DropCosts
<1>4. CASE BeginRound
  <2>1. ledger' \in {ledger, FailureOfNoDojo(ledger)} /\ UNCHANGED <<scaler, history>>
    BY <1>4 DEF BeginRound
  <2>2. /\ ledger'.total = ledger.total /\ ledger'.inARow = ledger.inARow
        /\ ledger'.quarantined = ledger.quarantined
    BY <1>1, <2>1, OtherCounts DEF TrainerTypeOK
  <2> QED
    BY <1>2, <2>1, <2>2 DEF DropInv, OverLimit, scaler, history
<1>5. CASE UNCHANGED <<ledger, scaler, tried, growths>>
  BY <1>2, <1>5 DEF DropInv, OverLimit, scaler
<1> QED
  BY <1>3, <1>4, <1>5, AttemptStepKeepsDrops
     DEF TrainerNext, FinishRun, FeedDies, GiveUp, EvaluateRound, Ended, trainerVars, history

(* A dojo whose gradients are never finite does not train forever on       *)
(* skipped overflows: its attempts in a phase are bounded by the doublings *)
(* the scale has and the failures that drop it (_scaled_step,              *)
(* DojoFaultLedger.record_failure).                                        *)
THEOREM BrokenDojoCostsBoundedly ==
    ASSUME TrainerAssumptions
    PROVE  TrainerSpec => []BrokenDojoIsDropped
<1>1. TrainerInit => DropInv
  BY FreshDrops DEF TrainerInit
<1>2. RoundInv /\ DropInv /\ [TrainerNext]_trainerVars => DropInv'
  BY DropInvNext
<1>3. RoundInv /\ DropInv => BrokenDojoIsDropped
  <2> SUFFICES ASSUME RoundInv, DropInv, NEW d \in Broken
               PROVE  tried[d] <= FullScale + growths
                                  + (IF growths = 0 THEN MaxConsecutiveDojoFailures
                                     ELSE MaxTotalDojoFailures)
    BY DEF BrokenDojoIsDropped
  <2>1. /\ FullScale \in Nat /\ scale \in Nat /\ growths \in Nat /\ tried[d] \in Nat
        /\ MaxConsecutiveDojoFailures \in Nat /\ MaxTotalDojoFailures \in Nat
    BY SettingIs DEF RoundInv, FeedAgrees, TrainerTypeOK, TrainerAssumptions, FaultPolicyAssumption
  <2>2. ledger.total[d] \in Nat
    <3>1. d \in Dojos /\ ledger \in FaultCounts
      BY SettingIs DEF RoundInv, FeedAgrees, TrainerTypeOK
    <3> QED
      BY <3>1 DEF FaultCounts
  <2>3. /\ tried[d] <= (FullScale + growths - scale) + ledger.total[d]
        /\ ledger.total[d] <= MaxTotalDojoFailures
        /\ growths = 0 => ledger.total[d] <= MaxConsecutiveDojoFailures
    BY DEF DropInv
  <2>4. tried[d] <= FullScale + growths + ledger.total[d]
    BY <2>1, <2>2, <2>3
  <2> QED
    BY <2>1, <2>2, <2>3, <2>4
<1> QED
  BY <1>1, <1>2, <1>3, RoundInvHolds, PTL DEF TrainerSpec

-----------------------------------------------------------------------------
(* The track of a dojo against the scores it was fed.                      *)

TrackFits(track, s) ==
    LET i == Len(s) - track.stale
    IN  IF track.active
        THEN /\ track.stale < Patience
             /\ track.best = NoLoss => s = <<>> /\ track.stale = 0
             /\ track.best # NoLoss =>
                 /\ i \in DOMAIN s /\ s[i] = track.best
                 /\ \A j \in 1..(i - 1) : s[i] < s[j]
                 /\ \A j \in i..Len(s) : s[j] >= s[i] - Epsilon
        ELSE \E n \in DOMAIN s :
                /\ s[n] = track.saturatedAt
                /\ Stagnant(s, n, Epsilon)
                /\ \A j \in (n + 1)..Len(s) : s[j] <= s[n] + ReactivationDelta

LEMMA TrackInvParts == TrackInv <=> \A d \in Dojos : TrackFits(tracks[d], scores[d])
  BY DEF TrackInv, TrackFits

LEMMA Appending ==
    ASSUME NEW s \in Seq(Int), NEW loss \in Int
    PROVE  /\ Append(s, loss) \in Seq(Int) /\ Len(Append(s, loss)) = Len(s) + 1
           /\ DOMAIN Append(s, loss) = 1..(Len(s) + 1) /\ DOMAIN s = 1..Len(s)
           /\ Len(s) \in Nat
           /\ \A j \in 1..Len(s) : Append(s, loss)[j] = s[j] /\ s[j] \in Int
           /\ Append(s, loss)[Len(s) + 1] = loss
  OBVIOUS

(* a fresh best: the only score, or one below all the earlier ones         *)
LEMMA BestFits ==
    ASSUME TrainerAssumptions, Epsilon >= 0, NEW track \in Track, NEW t \in Seq(Int),
           t # <<>>, track.active, track.stale = 0, track.best = t[Len(t)],
           \A j \in 1..(Len(t) - 1) : t[Len(t)] < t[j]
    PROVE  TrackFits(track, t)
<1>1. /\ Patience \in Nat \ {0} /\ Epsilon \in Int /\ NoLoss \notin Int
  BY DEF TrainerAssumptions, SaturationAssumption
<1>2. Len(t) \in DOMAIN t /\ t[Len(t)] \in Int /\ Len(t) \in Nat
  OBVIOUS
<1>3. \A j \in Len(t)..Len(t) : t[j] >= t[Len(t)] - Epsilon
  BY <1>1, <1>2
<1>4. Len(t) - track.stale = Len(t)
  BY <1>2
<1> QED
  BY <1>1, <1>2, <1>3, <1>4 DEF TrackFits

(* the best stays below the earlier scores when a score improves on it,    *)
(* and within epsilon of the later ones when none does                     *)
LEMMA Improving ==
    ASSUME NEW s \in Seq(Int), NEW i \in 1..Len(s), NEW e \in Int, e >= 0, NEW loss \in Int,
           \A j \in 1..(i - 1) : s[i] < s[j], \A j \in i..Len(s) : s[j] >= s[i] - e,
           loss < s[i] - e
    PROVE  \A j \in 1..Len(s) : loss < s[j]
<1> SUFFICES ASSUME NEW j \in 1..Len(s)
             PROVE  loss < s[j]
  OBVIOUS
<1>1. s[i] \in Int /\ s[j] \in Int
  OBVIOUS
<1>2. CASE j < i
  <2>1. s[i] < s[j]
    BY <1>2
  <2> QED
    BY <1>1, <2>1
<1>3. CASE j >= i
  <2>1. s[j] >= s[i] - e
    BY <1>3
  <2> QED
    BY <1>1, <2>1
<1> QED
  BY <1>2, <1>3

LEMMA Waiting ==
    ASSUME NEW s \in Seq(Int), NEW i \in 1..Len(s), NEW e \in Int, NEW loss \in Int,
           \A j \in 1..(i - 1) : s[i] < s[j], \A j \in i..Len(s) : s[j] >= s[i] - e,
           loss >= s[i] - e, NEW t \in Seq(Int),
           \A j \in 1..Len(s) : t[j] = s[j], t[Len(s) + 1] = loss
    PROVE  /\ t[i] = s[i]
           /\ \A j \in 1..(i - 1) : t[i] < t[j]
           /\ \A j \in i..(Len(s) + 1) : t[j] >= t[i] - e
<1>1. Len(s) \in Nat /\ i \in Int /\ t[i] = s[i]
  OBVIOUS
<1>2. ASSUME NEW j \in 1..(i - 1)
      PROVE  t[i] < t[j]
  <2>1. j \in 1..Len(s)
    BY <1>1
  <2> QED
    BY <1>1, <2>1
<1>3. ASSUME NEW j \in i..(Len(s) + 1)
      PROVE  t[j] >= t[i] - e
  <2>1. CASE j = Len(s) + 1
    BY <1>1, <2>1
  <2>2. CASE j \in i..Len(s)
    <3>1. j \in 1..Len(s)
      BY <1>1, <2>2
    <3> QED
      BY <1>1, <2>2, <3>1
  <2>3. j = Len(s) + 1 \/ j \in i..Len(s)
    BY ONLY <1>1, <1>3
  <2> QED
    BY ONLY <2>1, <2>2, <2>3
<1> QED
  BY <1>1, <1>2, <1>3

LEMMA AdvancedFits ==
    ASSUME TrainerAssumptions, Epsilon >= 0, NEW track \in Track, track.active,
           NEW s \in Seq(Int), TrackFits(track, s), NEW loss \in Int
    PROVE  TrackFits(Advanced(track, loss), Append(s, loss))
<1> DEFINE t == Append(s, loss)
           n == Len(s)
           stale == track.stale
           i == n - stale
           after == Advanced(track, loss)
<1>1. /\ Patience \in Nat \ {0} /\ Epsilon \in Int /\ NoLoss \notin Int
      /\ stale \in Nat /\ track.best \in {NoLoss} \cup Int
  BY DEF TrainerAssumptions, SaturationAssumption, Track
<1>2. /\ t \in Seq(Int) /\ Len(t) = n + 1 /\ n \in Nat /\ t[n + 1] = loss
      /\ DOMAIN t = 1..(n + 1) /\ DOMAIN s = 1..n
      /\ \A j \in 1..n : t[j] = s[j] /\ s[j] \in Int
  BY Appending
<1>3. /\ stale < Patience
      /\ track.best = NoLoss => s = <<>> /\ stale = 0
      /\ track.best # NoLoss =>
          /\ i \in 1..n /\ s[i] = track.best
          /\ \A j \in 1..(i - 1) : s[i] < s[j]
          /\ \A j \in i..n : s[j] >= s[i] - Epsilon
  BY <1>2 DEF TrackFits
<1>4. /\ after \in Track
      /\ Improves(track, loss) => after.active /\ after.best = loss /\ after.stale = 0
      /\ ~Improves(track, loss) =>
           /\ after.best = track.best /\ after.stale = stale + 1
           /\ stale + 1 < Patience => after.active
           /\ ~(stale + 1 < Patience) => ~after.active /\ after.saturatedAt = loss
  BY Advances
<1>5. n \in Nat /\ i \in Int /\ i = n - stale
  BY <1>1, <1>2
<1> HIDE DEF t, after, n, i, stale
<1> SUFFICES TrackFits(after, t)
  BY DEF t, after
<1>6. CASE Improves(track, loss)
  <2>1. \A j \in 1..n : loss < s[j]
    <3>1. CASE track.best = NoLoss
      BY <1>3, <3>1 DEF n
    <3>2. CASE track.best # NoLoss
      <4>1. loss < s[i] - Epsilon
        BY <1>3, <1>6, <3>2 DEF Improves
      <4> QED
        BY <1>1, <1>3, <3>2, <4>1, Improving DEF n
    <3> QED
      BY <3>1, <3>2
  <2>2. /\ t # <<>> /\ t[Len(t)] = loss
        /\ \A j \in 1..(Len(t) - 1) : t[Len(t)] < t[j]
    BY <1>2, <2>1
  <2> QED
    BY <1>2, <1>4, <1>6, <2>2, BestFits
<1>7. CASE ~Improves(track, loss)
  <2>1. /\ track.best # NoLoss /\ i \in 1..n /\ s[i] = track.best
        /\ loss >= s[i] - Epsilon /\ s[i] \in Int
    BY <1>1, <1>2, <1>3, <1>7 DEF Improves
  <2>2. /\ t[i] = s[i]
        /\ \A j \in 1..(i - 1) : t[i] < t[j]
        /\ \A j \in i..(n + 1) : t[j] >= t[i] - Epsilon
    <3>1. /\ t \in Seq(Int) /\ loss \in Int /\ Epsilon \in Int /\ s \in Seq(Int)
          /\ i \in 1..Len(s) /\ loss >= s[i] - Epsilon
          /\ t[Len(s) + 1] = loss /\ \A j \in 1..Len(s) : t[j] = s[j]
      BY <1>1, <1>2, <2>1 DEF n
    <3>2. /\ \A j \in 1..(i - 1) : s[i] < s[j]
          /\ \A j \in i..Len(s) : s[j] >= s[i] - Epsilon
      BY <1>3, <2>1 DEF n
    <3> QED
      BY ONLY <3>1, <3>2, Waiting DEF n
  <2>3. CASE stale + 1 < Patience
    <3>1. Len(t) - after.stale = i
      BY <1>1, <1>2, <1>4, <1>5, <1>7
    <3>2. /\ i \in DOMAIN t /\ t[i] = after.best /\ after.best # NoLoss
          /\ after.active /\ after.stale < Patience
      BY <1>2, <1>4, <1>5, <1>7, <2>1, <2>2, <2>3
    <3> QED
      BY <1>2, <2>2, <3>1, <3>2 DEF TrackFits
  <2>4. CASE ~(stale + 1 < Patience)
    <3> DEFINE m == n + 1
    <3>0. m = n + 1
      OBVIOUS
    <3> HIDE DEF m
    <3>1. m \in Int /\ i = m - Patience /\ m > Patience
      BY <1>1, <1>3, <1>5, <2>1, <2>4, <3>0
    <3>2. Stagnant(t, m, Epsilon)
      <4>1. ASSUME NEW j \in (m - Patience + 1)..m
            PROVE  \E k \in 1..(m - Patience) : t[j] >= t[k] - Epsilon
        <5>1. i \in 1..(m - Patience) /\ j \in i..(n + 1)
          BY <1>1, <1>5, <2>1, <3>0, <3>1
        <5> QED
          BY <2>2, <5>1
      <4> QED
        BY <3>1, <4>1 DEF Stagnant
    <3>3. m \in DOMAIN t /\ t[m] = after.saturatedAt /\ ~after.active
      BY <1>2, <1>4, <1>7, <2>4, <3>0
    <3>4. \A j \in (m + 1)..Len(t) : t[j] <= t[m] + ReactivationDelta
      BY <1>2, <3>0
    <3> QED
      BY <3>2, <3>3, <3>4 DEF TrackFits
  <2> QED
    BY <2>3, <2>4
<1> QED
  BY <1>6, <1>7

LEMMA SaturatedFits ==
    ASSUME TrainerAssumptions, Epsilon >= 0, NEW track \in Track, ~track.active,
           NEW s \in Seq(Int), TrackFits(track, s), NEW loss \in Int
    PROVE  /\ Reconsidered(track, loss).active =>
                TrackFits(Reconsidered(track, loss), <<loss>>)
           /\ ~Reconsidered(track, loss).active =>
                TrackFits(Reconsidered(track, loss), Append(s, loss))
<1> DEFINE t == Append(s, loss)
           n == Len(s)
<1>1. CASE Regressed(track, loss)
  <2>1. /\ Reconsidered(track, loss) \in Track /\ Reconsidered(track, loss).active
        /\ Reconsidered(track, loss).best = loss /\ Reconsidered(track, loss).stale = 0
    BY <1>1, Reconsiders
  <2>2. /\ <<loss>> \in Seq(Int) /\ <<loss>> # <<>> /\ Len(<<loss>>) = 1 /\ <<loss>>[1] = loss
    OBVIOUS
  <2>3. \A j \in 1..(Len(<<loss>>) - 1) : <<loss>>[Len(<<loss>>)] < <<loss>>[j]
    OBVIOUS
  <2> QED
    BY <2>1, <2>2, <2>3, BestFits
<1>2. CASE ~Regressed(track, loss)
  <2>1. Reconsidered(track, loss) = track
    BY <1>2, Reconsiders
  <2>2. /\ t \in Seq(Int) /\ Len(t) = n + 1 /\ n \in Nat /\ t[n + 1] = loss
        /\ DOMAIN t = 1..(n + 1) /\ DOMAIN s = 1..n
        /\ \A j \in 1..n : t[j] = s[j] /\ s[j] \in Int
    BY Appending
  <2>3. PICK m \in DOMAIN s : /\ s[m] = track.saturatedAt
                              /\ Stagnant(s, m, Epsilon)
                              /\ \A j \in (m + 1)..Len(s) : s[j] <= s[m] + ReactivationDelta
    BY DEF TrackFits
  <2> HIDE DEF t
  <2>4. m \in DOMAIN t /\ t[m] = track.saturatedAt /\ m \in 1..n /\ m \in Int
    BY <2>2, <2>3
  <2>5. Stagnant(t, m, Epsilon)
    <3>0. Patience \in Nat \ {0}
      BY DEF TrainerAssumptions, SaturationAssumption
    <3>1. /\ m > Patience /\ Patience \in Nat \ {0}
          /\ \A j \in (m - Patience + 1)..m :
                \E k \in 1..(m - Patience) : s[j] >= s[k] - Epsilon
      BY <2>3, <3>0 DEF Stagnant
    <3>2. /\ \A j \in (m - Patience + 1)..m : j \in 1..n
          /\ \A k \in 1..(m - Patience) : k \in 1..n
      <4>1. m \in 1..n /\ n \in Nat /\ Patience \in Nat \ {0} /\ m > Patience
        BY <2>2, <2>4, <3>0, <3>1
      <4> HIDE DEF n
      <4> QED
        BY <4>1
    <3>3. /\ \A j \in (m - Patience + 1)..m : t[j] = s[j]
          /\ \A k \in 1..(m - Patience) : t[k] = s[k]
      BY <2>2, <3>2
    <3> QED
      BY <3>1, <3>3 DEF Stagnant
  <2>6. ASSUME NEW j \in (m + 1)..Len(t)
        PROVE  t[j] <= t[m] + ReactivationDelta
    <3>1. t[m] = s[m] /\ s[m] \in Int /\ ReactivationDelta \in Int
      BY <2>2, <2>4 DEF TrainerAssumptions, SaturationAssumption
    <3>2. loss <= t[m] + ReactivationDelta
      BY <1>2, <2>4, <3>1 DEF Regressed
    <3>3. CASE j = n + 1
      BY <2>2, <3>2, <3>3
    <3>4. CASE j \in (m + 1)..n
      <4>1. j \in 1..n
        BY <2>2, <2>4, <3>4
      <4> QED
        BY <2>2, <2>3, <3>1, <3>4, <4>1
    <3> QED
      BY <2>2, <2>4, <3>3, <3>4
  <2>7. TrackFits(track, t)
    BY <2>4, <2>5, <2>6 DEF TrackFits
  <2> QED
    BY <2>1, <2>7 DEF t
<1> QED
  BY <1>1, <1>2

LEMMA EvaluateRoundKeepsTracks ==
    ASSUME TrainerAssumptions, Epsilon >= 0, RoundInv, TrackInv, EvaluateRound
    PROVE  TrackInv'
<1>1. /\ setting \in Settings /\ tracks \in [Dojos -> Track] /\ scores \in [Dojos -> Seq(Int)]
  BY DEF RoundInv, FeedAgrees, TrainerTypeOK
<1>2. PICK report \in Reports :
        /\ tracks' = Recorded(tracks, report)
        /\ scores' = [d \in Dojos |-> ScoresAfter(d, report)]
  BY DEF EvaluateRound
<1>3. ASSUME NEW d \in Dojos
      PROVE  TrackFits(tracks'[d], scores'[d])
  <2>1. /\ tracks[d] \in Track /\ scores[d] \in Seq(Int) /\ TrackFits(tracks[d], scores[d])
        /\ scores'[d] = ScoresAfter(d, report)
    BY <1>1, <1>2, TrackInvParts
  <2>2. CASE d \notin DOMAIN report
    BY <1>2, <2>1, <2>2 DEF Recorded, ScoresAfter
  <2>3. CASE d \in DOMAIN report /\ tracks[d].active
    <3>1. /\ tracks'[d] = Advanced(tracks[d], report[d])
          /\ scores'[d] = Append(scores[d], report[d])
      BY <1>2, <2>1, <2>3 DEF Recorded, ScoresAfter
    <3>2. report[d] \in Int
      BY <1>1, <2>3, ReportType
    <3> QED
      BY <2>1, <2>3, <3>1, <3>2, AdvancedFits
  <2>4. CASE d \in DOMAIN report /\ ~tracks[d].active
    <3>1. Recorded(tracks, report)[d] = Reconsidered(tracks[d], report[d])
      BY <2>4 DEF Recorded
    <3>2. /\ tracks'[d] = Reconsidered(tracks[d], report[d])
          /\ scores'[d] = IF Reconsidered(tracks[d], report[d]).active
                          THEN <<report[d]>> ELSE Append(scores[d], report[d])
      BY <1>2, <2>1, <2>4, <3>1 DEF ScoresAfter
    <3>3. report[d] \in Int
      BY <1>1, <2>4, ReportType
    <3> QED
      BY <2>1, <2>4, <3>2, <3>3, SaturatedFits
  <2> QED
    BY <2>2, <2>3, <2>4
<1> QED
  BY <1>3 DEF TrackInv, TrackFits

LEMMA FreshTrackFits == ASSUME TrainerAssumptions PROVE TrackFits(NewTrack, <<>>)
  BY DEF TrackFits, NewTrack, TrainerAssumptions, SaturationAssumption

LEMMA TrackInvNext ==
    ASSUME TrainerAssumptions, Epsilon >= 0, RoundInv, TrackInv, [TrainerNext]_trainerVars
    PROVE  TrackInv'
<1>1. CASE OpenPhase
  <2>1. \A d \in Dojos : tracks'[d] = NewTrack /\ scores'[d] = <<>>
    BY <1>1 DEF OpenPhase, FreshPhase
  <2>2. \A d \in Dojos : TrackFits(tracks'[d], scores'[d])
    BY <2>1, FreshTrackFits
  <2> QED
    BY <2>2 DEF TrackInv, TrackFits
<1>2. CASE UNCHANGED <<tracks, scores>>
  BY <1>2 DEF TrackInv
<1> QED
  BY <1>1, <1>2, EvaluateRoundKeepsTracks
     DEF TrainerNext, BeginRound, AttemptStep, FinishRun, FeedDies, GiveUp, Ended, trainerVars, history

(* A dojo saturates on stagnation and on nothing else, and it is trained   *)
(* again once its loss regressed, for any epsilon that is not negative     *)
(* (SaturationTracker).                                                    *)
THEOREM DojosSaturateOnStagnation ==
    ASSUME TrainerAssumptions, Epsilon >= 0
    PROVE  TrainerSpec => []SaturationIsStagnation
<1>1. ASSUME TrainerInit
      PROVE  TrackInv
  <2>1. \A d \in Dojos : tracks[d] = NewTrack /\ scores[d] = <<>>
    BY <1>1 DEF TrainerInit
  <2> QED
    BY <2>1, FreshTrackFits, TrackInvParts
<1>2. RoundInv /\ TrackInv /\ [TrainerNext]_trainerVars => TrackInv'
  BY TrackInvNext
<1>3. ASSUME RoundInv, TrackInv
      PROVE  SaturationIsStagnation
  <2>1. ASSUME NEW d \in Dojos, tracks[d].active, Stagnant(scores[d], Len(scores[d]), 0)
        PROVE  FALSE
    <3> DEFINE s == scores[d]
               n == Len(s)
               i == n - tracks[d].stale
    <3>1. /\ s \in Seq(Int) /\ n \in Nat /\ tracks[d].stale \in Nat /\ Patience \in Nat
          /\ TrackFits(tracks[d], s)
      <4>1. tracks[d] \in Track /\ s \in Seq(Int)
        BY <1>3 DEF RoundInv, FeedAgrees, TrainerTypeOK
      <4> QED
        BY <1>3, <4>1, TrackInvParts DEF Track, TrainerAssumptions, SaturationAssumption
    <3>2. /\ n > Patience
          /\ \A j \in (n - Patience + 1)..n : \E k \in 1..(n - Patience) : s[j] >= s[k] - 0
      BY <2>1 DEF Stagnant
    <3>3. /\ tracks[d].stale < Patience
          /\ tracks[d].best = NoLoss => s = <<>>
          /\ tracks[d].best # NoLoss => \A j \in 1..(i - 1) : s[i] < s[j]
      BY <2>1, <3>1 DEF TrackFits
    <3>4. s # <<>>
      BY <3>1, <3>2
    <3>0. n = Len(s)
      OBVIOUS
    <3> HIDE DEF s, n
    <3>5. i \in (n - Patience + 1)..n /\ i \in Int /\ \A k \in 1..(n - Patience) : k \in 1..(i - 1)
      <4>1. /\ n \in Nat /\ tracks[d].stale \in Nat /\ Patience \in Nat
            /\ n > Patience /\ tracks[d].stale < Patience
        BY <3>1, <3>2, <3>3
      <4> QED
        BY ONLY <4>1
    <3>6. PICK k \in 1..(n - Patience) : s[i] >= s[k] - 0
      BY <3>2, <3>5
    <3>7. s[i] < s[k]
      BY <3>3, <3>4, <3>5
    <3>8. s[i] \in Int /\ s[k] \in Int
      <4>1. n \in Nat /\ Patience \in Nat /\ n > Patience /\ i \in (n - Patience + 1)..n
        BY <3>1, <3>2, <3>5
      <4> HIDE DEF i
      <4>2. i \in 1..n /\ k \in 1..n
        BY ONLY <4>1
      <4>3. \A j \in 1..n : s[j] \in Int
        BY ONLY <3>0, <3>1
      <4> QED
        BY ONLY <4>2, <4>3
    <3> QED
      BY <3>6, <3>7, <3>8
  <2>2. ASSUME NEW d \in Dojos, ~tracks[d].active
        PROVE  \E i \in DOMAIN scores[d] :
                  /\ Stagnant(scores[d], i, Epsilon)
                  /\ \A j \in (i + 1)..Len(scores[d]) :
                        scores[d][j] <= scores[d][i] + ReactivationDelta
    BY <1>3, <2>2 DEF TrackInv
  <2> QED
    BY <2>1, <2>2 DEF SaturationIsStagnation
<1> QED
  BY <1>1, <1>2, <1>3, RoundInvHolds, PTL DEF TrainerSpec

-----------------------------------------------------------------------------
(* DirectoryCheckpointer.  Its invariants rest on where a save stands: before *)
(* the rename nothing on disk bears the name being saved except latest/, and *)
(* after it the new best is whole until the trainer records it, so that the  *)
(* previous best may be in any state while it is deleted.                    *)

Rounds == 0..(MaxRounds - 1)

Places == {"round", "latest", "write", "delete", "deleting", "rename",
           "record", "exits", "ended", "dead"}

Saving == at \in {"write", "delete", "deleting", "rename", "record"}

\* The new best bears its name, and the trainer has not recorded it yet.
NewDone == at \in {"delete", "deleting", "record"} /\ saving.directory # Latest

\* This round's best, if it has one, is still to be given its name.
Unsaved == at = "round" \/ (at \in {"write", "rename"} /\ saving.directory # Latest)

Types ==
    /\ at \in Places
    /\ phase \in 1..Phases /\ round \in Rounds
    /\ written \subseteq 1..Phases
    /\ TypeOK

\* A save is of this round, or of latest/; it deletes the directory whose
\* name it takes only for latest/, and otherwise the phase's previous best.
SaveOfThisRound ==
    /\ Saving => saving.directory \in {Latest, DirectoryFor(phase, round)}
    /\ at = "record" => saving.directory # Latest
    /\ at \in {"delete", "deleting"} =>
         /\ saving.deleting \in DOMAIN disk
         /\ IF saving.directory = Latest
            THEN saving.deleting = Latest
            ELSE saving.deleting = byPhase[phase] /\ saving.deleting # saving.directory
    /\ at \notin {"delete", "deleting", "dead"} => saving.deleting = None

\* Every best on disk is of a round already saved.
NoneAhead == \A p \in 1..Phases, r \in Rounds :
    DirectoryFor(p, r) \in DOMAIN disk =>
        \/ p < phase
        \/ p = phase /\ r < round
        \/ p = phase /\ r = round /\ ~Unsaved

BestsOfTheirPhase == \A p \in 1..Phases :
    byPhase[p] # None => \E r \in Rounds : byPhase[p] = DirectoryFor(p, r)

\* The recorded best of a phase is whole, but while a newer one replaces it.
RecordedWhole == at # "dead" => \A p \in 1..Phases, r \in Rounds :
    byPhase[p] = DirectoryFor(p, r) /\ ~(NewDone /\ p = phase) =>
        /\ DirectoryFor(p, r) \in DOMAIN disk
        /\ disk[DirectoryFor(p, r)] = Checkpoint(p, r, TRUE)

NewWhole == NewDone =>
    /\ saving.directory \in DOMAIN disk
    /\ disk[saving.directory] = Checkpoint(phase, round, TRUE)

WrittenKept == at # "dead" =>
    \A p \in written : byPhase[p] # None \/ (NewDone /\ p = phase)

Records1 == bestRecord # None =>
    /\ bestRecord.phase = phase
    /\ bestRecord.directory = DirectoryFor(phase, bestRecord.round)
    /\ byPhase[phase] = bestRecord.directory

Records2 == lastGoodRecord # None =>
    /\ lastGoodRecord.phase < phase \/ at = "ended"
    /\ lastGoodRecord.directory = DirectoryFor(lastGoodRecord.phase, lastGoodRecord.round)
    /\ byPhase[lastGoodRecord.phase] = lastGoodRecord.directory

\* What is on disk and could be deleted is a phase's best, or the new one.
NoLeftovers == at # "dead" =>
    /\ \A d \in DOMAIN disk \ ({Latest} \cup undeleted) :
         byPhase[disk[d].phase] = d \/ (NewDone /\ d = saving.directory)
    /\ at = "record" => byPhase[phase] \notin DOMAIN disk \ undeleted

\* latest/ is whole outside the swap that replaces it.
LatestKept ==
    at # "dead" /\ ~(at \in {"deleting", "rename"} /\ saving.directory = Latest)
    /\ latestDone # None /\ ~latestLost =>
        /\ Latest \in DOMAIN disk
        /\ disk[Latest] = Checkpoint(latestDone.phase, latestDone.round, TRUE)

IInv ==
    /\ Types /\ SaveOfThisRound /\ NoneAhead /\ BestsOfTheirPhase
    /\ RecordedWhole /\ NewWhole /\ WrittenKept /\ Records1 /\ Records2
    /\ NoLeftovers /\ LatestKept

-----------------------------------------------------------------------------
LEMMA DirectoryNames ==
    /\ Latest \in Directories /\ None \notin Directories
    /\ \A p \in 1..Phases, r \in Rounds :
         /\ DirectoryFor(p, r) \in Directories
         /\ DirectoryFor(p, r) # Latest /\ DirectoryFor(p, r) # None
    /\ \A p, q \in 1..Phases, r, s \in Rounds :
         DirectoryFor(p, r) = DirectoryFor(q, s) => p = q /\ r = s
  BY CheckpointerAssumption
     DEF CheckpointerAssumption, Latest, DirectoryFor, Directories, Rounds

\* A best takes a name nothing on disk bears.
LEMMA NameIsFree ==
    ASSUME IInv, at \in {"write", "rename"}, saving.directory # Latest
    PROVE  /\ saving.directory = DirectoryFor(phase, round)
           /\ saving.directory \notin DOMAIN disk
<1>1. saving.directory = DirectoryFor(phase, round)
  BY DEF IInv, SaveOfThisRound, Saving
<1> QED
  BY <1>1 DEF IInv, NoneAhead, Unsaved, Types, Rounds

\* What is deleted is nobody's recorded best, but for the one replaced.
LEMMA DeletesNoRecordedBest ==
    ASSUME IInv, at \in {"delete", "deleting"}, NEW p \in 1..Phases, NEW r \in Rounds,
           ~(NewDone /\ p = phase)
    PROVE  saving.deleting # DirectoryFor(p, r) \/ byPhase[p] # DirectoryFor(p, r)
<1>1. CASE saving.directory = Latest
  BY <1>1, DirectoryNames DEF IInv, SaveOfThisRound
<1>2. CASE saving.directory # Latest
  <2>1. p # phase /\ saving.deleting = byPhase[phase] /\ saving.deleting \in Directories
    BY <1>2 DEF IInv, SaveOfThisRound, NewDone, Types, TypeOK
  <2>2. \E s \in Rounds : saving.deleting = DirectoryFor(phase, s)
    BY <2>1, DirectoryNames DEF IInv, BestsOfTheirPhase, Types
  <2> QED
    BY <2>1, <2>2, DirectoryNames DEF IInv, Types
<1> QED
  BY <1>1, <1>2

\* latest/ is deleted only to be replaced.
LEMMA DeletesLatestForItself ==
    ASSUME IInv, at \in {"delete", "deleting"}, saving.directory # Latest
    PROVE  saving.deleting # Latest
<1>1. saving.deleting = byPhase[phase] /\ saving.deleting \in Directories
  BY DEF IInv, SaveOfThisRound, Types, TypeOK
<1> QED
  BY <1>1, DirectoryNames DEF IInv, BestsOfTheirPhase, Types

-----------------------------------------------------------------------------
(* One lemma per action, one step per conjunct.                             *)

LEMMA SaveBestStep == ASSUME IInv, SaveBest PROVE IInv'
<1>1. Types'
  BY DirectoryNames DEF IInv, SaveBest, saveHistory, Types, TypeOK, Places
<1>2. SaveOfThisRound'
  BY DEF IInv, SaveBest, SaveOfThisRound
<1>3. NoneAhead'
  BY DEF IInv, SaveBest, NoneAhead, Unsaved
<1>4. RecordedWhole'
  BY DEF IInv, SaveBest, RecordedWhole, NewDone
<1>5. NewWhole'
  BY DEF IInv, SaveBest, NewWhole, NewDone
<1>6. WrittenKept'
  BY DEF IInv, SaveBest, saveHistory, WrittenKept, NewDone
<1>7. NoLeftovers'
  BY DEF IInv, SaveBest, saveHistory, NoLeftovers, NewDone
<1>8. LatestKept'
  BY DEF IInv, SaveBest, saveHistory, LatestKept
<1>9. (BestsOfTheirPhase /\ Records1 /\ Records2)'
  BY DEF IInv, SaveBest, BestsOfTheirPhase, Records1, Records2
<1> QED
  BY <1>1, <1>2, <1>3, <1>4, <1>5, <1>6, <1>7, <1>8, <1>9 DEF IInv

LEMMA SaveLatestStep == ASSUME IInv, SaveLatest PROVE IInv'
<1>1. Types'
  BY DirectoryNames DEF IInv, SaveLatest, saveHistory, Types, TypeOK, Places
<1>2. SaveOfThisRound'
  BY DEF IInv, SaveLatest, SaveOfThisRound
<1>3. NoneAhead'
  BY DEF IInv, SaveLatest, NoneAhead, Unsaved
<1>4. RecordedWhole'
  BY DEF IInv, SaveLatest, RecordedWhole, NewDone
<1>5. NewWhole'
  BY DEF IInv, SaveLatest, NewWhole, NewDone
<1>6. WrittenKept'
  BY DEF IInv, SaveLatest, saveHistory, WrittenKept, NewDone
<1>7. NoLeftovers'
  BY DEF IInv, SaveLatest, saveHistory, NoLeftovers, NewDone
<1>8. LatestKept'
  BY DEF IInv, SaveLatest, saveHistory, LatestKept
<1>9. (BestsOfTheirPhase /\ Records1 /\ Records2)'
  BY DEF IInv, SaveLatest, BestsOfTheirPhase, Records1, Records2
<1> QED
  BY <1>1, <1>2, <1>3, <1>4, <1>5, <1>6, <1>7, <1>8, <1>9 DEF IInv

LEMMA FailToWriteStep == ASSUME IInv, FailToWrite PROVE IInv'
<1>1. Types'
  BY DEF IInv, FailToWrite, saveHistory, Types, TypeOK, Places,
     AfterFailedWrite, Returned
<1>2. SaveOfThisRound'
  BY DEF IInv, FailToWrite, SaveOfThisRound, Saving, Returned
<1>3. NoneAhead'
  BY DEF IInv, FailToWrite, NoneAhead, Unsaved, AfterFailedWrite, Returned
<1>4. RecordedWhole'
  BY DEF IInv, FailToWrite, RecordedWhole, NewDone, AfterFailedWrite
<1>5. NewWhole'
  BY DEF IInv, FailToWrite, NewWhole, NewDone, Returned
<1>6. WrittenKept'
  BY DEF IInv, FailToWrite, saveHistory, WrittenKept, NewDone
<1>7. NoLeftovers'
  BY DEF IInv, FailToWrite, saveHistory, NoLeftovers, NewDone,
     AfterFailedWrite, Returned
<1>8. LatestKept'
  BY DEF IInv, FailToWrite, saveHistory, LatestKept, AfterFailedWrite
<1>9. (BestsOfTheirPhase /\ Records1 /\ Records2)'
  BY DEF IInv, FailToWrite, BestsOfTheirPhase, Records1, Records2
<1> QED
  BY <1>1, <1>2, <1>3, <1>4, <1>5, <1>6, <1>7, <1>8, <1>9 DEF IInv

LEMMA WriteStep == ASSUME IInv, Write PROVE IInv'
<1>1. Types'
  BY DEF IInv, Write, saveHistory, Types, TypeOK, Places
<1>2. SaveOfThisRound'
  BY NameIsFree DEF IInv, Write, SaveOfThisRound, Types, TypeOK
<1>3. NoneAhead'
  BY DEF IInv, Write, NoneAhead, Unsaved
<1>4. RecordedWhole'
  BY DEF IInv, Write, RecordedWhole, NewDone
<1>5. NewWhole'
  BY NameIsFree DEF IInv, Write, NewWhole, NewDone, Types, TypeOK
<1>6. WrittenKept'
  BY DEF IInv, Write, saveHistory, WrittenKept, NewDone
<1>7. NoLeftovers'
  BY DEF IInv, Write, saveHistory, NoLeftovers, NewDone
<1>8. LatestKept'
  BY DEF IInv, Write, saveHistory, LatestKept
<1>9. (BestsOfTheirPhase /\ Records1 /\ Records2)'
  BY DEF IInv, Write, BestsOfTheirPhase, Records1, Records2
<1> QED
  BY <1>1, <1>2, <1>3, <1>4, <1>5, <1>6, <1>7, <1>8, <1>9 DEF IInv

LEMMA BeginDeleteStep == ASSUME IInv, BeginDelete PROVE IInv'
<1>1. Types'
  BY DEF IInv, BeginDelete, saveHistory, Types, TypeOK, Places, Damaged
<1>2. SaveOfThisRound'
  BY DEF IInv, BeginDelete, SaveOfThisRound, Saving, Damaged
<1>3. NoneAhead'
  BY DEF IInv, BeginDelete, NoneAhead, Unsaved, Damaged
<1>4. RecordedWhole'
  BY DeletesNoRecordedBest DEF IInv, BeginDelete, RecordedWhole, NewDone,
     Damaged
<1>5. NewWhole'
  BY DEF IInv, BeginDelete, NewWhole, NewDone, Damaged, SaveOfThisRound
<1>6. WrittenKept'
  BY DEF IInv, BeginDelete, saveHistory, WrittenKept, NewDone
<1>7. NoLeftovers'
  BY DEF IInv, BeginDelete, saveHistory, NoLeftovers, NewDone, Damaged
<1>8. LatestKept'
  BY DeletesLatestForItself DEF IInv, BeginDelete, saveHistory, LatestKept, Damaged
<1>9. (BestsOfTheirPhase /\ Records1 /\ Records2)'
  BY DEF IInv, BeginDelete, BestsOfTheirPhase, Records1, Records2
<1> QED
  BY <1>1, <1>2, <1>3, <1>4, <1>5, <1>6, <1>7, <1>8, <1>9 DEF IInv

LEMMA FailToDeleteStep == ASSUME IInv, FailToDelete PROVE IInv'
<1>1. Types'
  BY DEF IInv, FailToDelete, Types, TypeOK, Places, AfterDelete
<1>2. SaveOfThisRound'
  BY DEF IInv, FailToDelete, SaveOfThisRound, Saving, AfterDelete
<1>3. NoneAhead'
  BY DEF IInv, FailToDelete, NoneAhead, Unsaved, AfterDelete, SaveOfThisRound
<1>4. RecordedWhole'
  BY DirectoryNames DEF IInv, FailToDelete, RecordedWhole, NewDone,
     AfterDelete, SaveOfThisRound, Types, TypeOK
<1>5. NewWhole'
  BY DEF IInv, FailToDelete, NewWhole, NewDone, Types, TypeOK
<1>6. WrittenKept'
  BY DEF IInv, FailToDelete, WrittenKept, NewDone, AfterDelete, SaveOfThisRound
<1>7. NoLeftovers'
  BY DEF IInv, FailToDelete, NoLeftovers, NewDone, AfterDelete, SaveOfThisRound
<1>8. LatestKept'
  BY DEF IInv, FailToDelete, LatestKept
<1>9. (BestsOfTheirPhase /\ Records1 /\ Records2)'
  BY DEF IInv, FailToDelete, BestsOfTheirPhase, Records1, Records2
<1> QED
  BY <1>1, <1>2, <1>3, <1>4, <1>5, <1>6, <1>7, <1>8, <1>9 DEF IInv

LEMMA FinishDeleteStep == ASSUME IInv, FinishDelete PROVE IInv'
<1>1. Types'
  BY DEF IInv, FinishDelete, Types, TypeOK, Places, AfterDelete, Removed
<1>2. SaveOfThisRound'
  BY DEF IInv, FinishDelete, SaveOfThisRound, Saving, AfterDelete
<1>3. NoneAhead'
  BY DEF IInv, FinishDelete, NoneAhead, Unsaved, AfterDelete, Removed,
     SaveOfThisRound
<1>4. RecordedWhole'
  BY DeletesNoRecordedBest DEF IInv, FinishDelete, RecordedWhole, NewDone,
     AfterDelete, Removed, SaveOfThisRound, Types, TypeOK
<1>5. NewWhole'
  BY DEF IInv, FinishDelete, NewWhole, NewDone, Removed, SaveOfThisRound,
     Types, TypeOK
<1>6. WrittenKept'
  BY DEF IInv, FinishDelete, WrittenKept, NewDone, AfterDelete, SaveOfThisRound
<1>7. NoLeftovers'
  BY DEF IInv, FinishDelete, NoLeftovers, NewDone, AfterDelete, Removed,
     SaveOfThisRound
<1>8. LatestKept'
  BY DeletesLatestForItself DEF IInv, FinishDelete, LatestKept,
     AfterDelete, Removed, SaveOfThisRound, Types, TypeOK
<1>9. (BestsOfTheirPhase /\ Records1 /\ Records2)'
  BY DEF IInv, FinishDelete, BestsOfTheirPhase, Records1, Records2
<1> QED
  BY <1>1, <1>2, <1>3, <1>4, <1>5, <1>6, <1>7, <1>8, <1>9 DEF IInv

LEMMA RenameStep == ASSUME IInv, Rename PROVE IInv'
<1>1. Types'
  BY DirectoryNames DEF IInv, Rename, Types, TypeOK, Places, Placed,
     Returned, OfLatest, Checkpoint, SaveOfThisRound, Saving, Rounds
<1>2. SaveOfThisRound'
  BY DEF IInv, Rename, SaveOfThisRound, Saving, Types, Placed, Returned,
     OfLatest, Previous, TypeOK
<1>3. NoneAhead'
  BY DirectoryNames DEF IInv, Rename, NoneAhead, Unsaved, Placed, Returned,
     SaveOfThisRound, Saving, Types
<1>4. RecordedWhole'
  BY DirectoryNames DEF IInv, Rename, RecordedWhole, NewDone, Placed, Checkpoint
<1>5. NewWhole'
  BY DEF IInv, Rename, NewWhole, NewDone, Placed, Returned, Types, TypeOK
<1>6. WrittenKept'
  BY DEF IInv, Rename, WrittenKept, NewDone, OfLatest, Types, TypeOK
<1>7. NoLeftovers'
  BY DirectoryNames, NameIsFree DEF IInv, Rename, NoLeftovers, NewDone,
     Placed, Returned, OfLatest, Previous, Checkpoint, Types, TypeOK,
     RecordedWhole
<1>8. LatestKept'
  <2>1. CASE OfLatest
    <3>1. Latest \in DOMAIN disk' /\ disk'[Latest] = Checkpoint(phase, round, TRUE)
      BY <2>1 DEF Rename, OfLatest, Placed
    <3>2. latestDone' = [phase |-> phase, round |-> round]
      BY <2>1 DEF Rename
    <3> QED
      BY <3>1, <3>2 DEF LatestKept, Checkpoint
  <2>2. CASE ~OfLatest
    BY <2>2
       DEF IInv, LatestKept, Rename, OfLatest, Placed, Types,
           TypeOK, saveHistory
  <2> QED
    BY <2>1, <2>2
<1>9. (BestsOfTheirPhase /\ Records1 /\ Records2)'
  BY DEF IInv, Rename, BestsOfTheirPhase, Records1, Records2
<1> QED
  BY <1>1, <1>2, <1>3, <1>4, <1>5, <1>6, <1>7, <1>8, <1>9 DEF IInv

LEMMA FailToRenameStep == ASSUME IInv, FailToRename PROVE IInv'
<1>1. Types'
  BY DEF IInv, FailToRename, Types, TypeOK, Places, Returned
<1>2. SaveOfThisRound'
  BY DEF IInv, FailToRename, SaveOfThisRound, Saving, Returned
<1>3. NoneAhead'
  BY DEF IInv, FailToRename, NoneAhead, Unsaved, Returned
<1>4. RecordedWhole'
  BY DEF IInv, FailToRename, RecordedWhole, NewDone
<1>5. NewWhole'
  BY DEF IInv, FailToRename, NewWhole, NewDone, Returned
<1>6. WrittenKept'
  BY DEF IInv, FailToRename, WrittenKept, NewDone
<1>7. NoLeftovers'
  BY DEF IInv, FailToRename, NoLeftovers, NewDone, Returned
<1>8. LatestKept'
  BY DEF IInv, FailToRename, LatestKept, OfLatest
<1>9. (BestsOfTheirPhase /\ Records1 /\ Records2)'
  BY DEF IInv, FailToRename, BestsOfTheirPhase, Records1, Records2
<1> QED
  BY <1>1, <1>2, <1>3, <1>4, <1>5, <1>6, <1>7, <1>8, <1>9 DEF IInv

LEMMA RecordStep == ASSUME IInv, Record PROVE IInv'
<1>1. Types'
  BY DirectoryNames DEF IInv, Record, saveHistory, Types, TypeOK, Places,
     Returned, SaveOfThisRound, Saving, Records, Rounds
<1>2. SaveOfThisRound'
  BY DEF IInv, Record, SaveOfThisRound, Saving, Returned
<1>3. NoneAhead'
  BY DEF IInv, Record, NoneAhead, Unsaved, Returned
<1>4. RecordedWhole'
  <2> SUFFICES ASSUME NEW p \in 1..Phases, NEW r \in Rounds,
                      byPhase'[p] = DirectoryFor(p, r)
               PROVE  /\ DirectoryFor(p, r) \in DOMAIN disk'
                      /\ disk'[DirectoryFor(p, r)] = Checkpoint(p, r, TRUE)
    BY DEF RecordedWhole
  <2>1. CASE p = phase
    <3>1. NewDone /\ saving.directory = DirectoryFor(phase, round)
      BY DEF IInv, Record, NewDone, SaveOfThisRound, Saving<3>2.
         DirectoryFor(p, r) = DirectoryFor(phase, round)
      BY <2>1, <3>1 DEF IInv, Record, Types, TypeOK
    <3>3. r = round
      BY <2>1, <3>2, DirectoryNames DEF IInv, Types
    <3> QED
      BY <2>1, <3>1, <3>3 DEF IInv, Record, NewWhole
  <2>2. CASE p # phase
    BY <2>2 DEF IInv, Record, RecordedWhole, Types, TypeOK
  <2> QED
    BY <2>1, <2>2
<1>5. NewWhole'
  BY DEF IInv, Record, NewWhole, NewDone, Returned
<1>6. WrittenKept'
  BY DirectoryNames DEF IInv, Record, saveHistory, WrittenKept,
     SaveOfThisRound, Saving, Types, TypeOK
<1>7. NoLeftovers'
  BY DirectoryNames DEF IInv, Record, saveHistory, NoLeftovers, Returned,
     Types, TypeOK, NewWhole, Checkpoint
<1>8. LatestKept'
  BY DEF IInv, Record, saveHistory, LatestKept
<1>9. BestsOfTheirPhase'
  BY DirectoryNames DEF IInv, Record, BestsOfTheirPhase, SaveOfThisRound,
     Saving, Types
<1>10. Records1'
  BY DirectoryNames DEF IInv, Record, Records1, SaveOfThisRound, Saving,
     Types, TypeOK
<1>11. Records2'
  BY DEF IInv, Record, Records2, Types, Records
<1> QED
  BY <1>1, <1>2, <1>3, <1>4, <1>5, <1>6, <1>7, <1>8, <1>9, <1>10, <1>11 DEF IInv

LEMMA NextRoundStep == ASSUME IInv, NextRound PROVE IInv'
<1>1. Types'
  BY CheckpointerAssumption DEF IInv, NextRound, saveHistory, Types, TypeOK,
     Places, CheckpointerAssumption, Rounds
<1>2. SaveOfThisRound'
  BY DEF IInv, NextRound, SaveOfThisRound, Saving
<1>3. NoneAhead'
  BY CheckpointerAssumption DEF IInv, NextRound, saveHistory, NoneAhead,
     Unsaved, CheckpointerAssumption, Rounds, Types
<1>4. RecordedWhole'
  BY DEF IInv, NextRound, RecordedWhole, NewDone
<1>5. NewWhole'
  BY DEF IInv, NextRound, NewWhole, NewDone
<1>6. WrittenKept'
  BY DEF IInv, NextRound, saveHistory, WrittenKept, NewDone
<1>7. NoLeftovers'
  BY DEF IInv, NextRound, saveHistory, NoLeftovers, NewDone
<1>8. LatestKept'
  BY DEF IInv, NextRound, saveHistory, LatestKept
<1>9. BestsOfTheirPhase'
  BY DEF IInv, NextRound, BestsOfTheirPhase
<1>10. Records1'
  BY DEF IInv, NextRound, Records1
<1>11. Records2'
  BY DEF IInv, NextRound, Records2, Records1, Types, TypeOK, Records
<1> QED
  BY <1>1, <1>2, <1>3, <1>4, <1>5, <1>6, <1>7, <1>8, <1>9, <1>10, <1>11 DEF IInv

LEMMA CrashStep == ASSUME IInv, Crash PROVE IInv'
<1>1. Types'
  BY DEF IInv, Crash, saveHistory, Types, TypeOK, Places
<1>2. SaveOfThisRound'
  BY DEF IInv, Crash, SaveOfThisRound, Saving
<1>3. NoneAhead'
  BY DEF IInv, Crash, NoneAhead, Unsaved
<1>4. RecordedWhole'
  BY DEF IInv, Crash, RecordedWhole
<1>5. NewWhole'
  BY DEF IInv, Crash, NewWhole, NewDone
<1>6. WrittenKept'
  BY DEF IInv, Crash, WrittenKept
<1>7. NoLeftovers'
  BY DEF IInv, Crash, NoLeftovers
<1>8. LatestKept'
  BY DEF IInv, Crash, LatestKept
<1>9. (BestsOfTheirPhase /\ Records1 /\ Records2)'
  BY DEF IInv, Crash, BestsOfTheirPhase, Records1, Records2
<1> QED
  BY <1>1, <1>2, <1>3, <1>4, <1>5, <1>6, <1>7, <1>8, <1>9 DEF IInv

-----------------------------------------------------------------------------
LEMMA NothingAtStart == ASSUME Init PROVE IInv
<1>1. at = "round" /\ phase \in 1..Phases /\ round \in Rounds
  BY CheckpointerAssumption DEF CheckpointerAssumption, Init, Rounds
<1>2. DOMAIN disk = {} /\ byPhase = [p \in 1..Phases |-> None]
  BY DEF Init
<1>3. Types
  BY <1>1, <1>2 DEF Init, Types, TypeOK, Places
<1>4. SaveOfThisRound /\ NoneAhead /\ BestsOfTheirPhase /\ NewWhole
  BY <1>1, <1>2 DEF Init, SaveOfThisRound, Saving, NoneAhead, BestsOfTheirPhase,
     NewWhole, NewDone
<1>5. RecordedWhole
  BY <1>2, DirectoryNames DEF RecordedWhole
<1>6. WrittenKept /\ Records1 /\ Records2 /\ NoLeftovers /\ LatestKept
  BY <1>1, <1>2
     DEF Init, WrittenKept, Records1, Records2, NoLeftovers,
         LatestKept
<1> QED
  BY <1>3, <1>4, <1>5, <1>6 DEF IInv

LEMMA Invariance == Spec => []IInv
<1>1. IInv /\ [Next]_vars => IInv'
  <2> SUFFICES ASSUME IInv, [Next]_vars PROVE IInv'
    OBVIOUS
  <2>1. CASE Next
    BY <2>1, SaveBestStep, SaveLatestStep, FailToWriteStep, WriteStep, BeginDeleteStep,
       FailToDeleteStep, FinishDeleteStep, RenameStep, FailToRenameStep, RecordStep,
       NextRoundStep, CrashStep DEF Next
  <2>2. CASE UNCHANGED vars
    <3>1. Types' /\ SaveOfThisRound' /\ NoneAhead'
      BY <2>2 DEF vars, IInv, Types, TypeOK, SaveOfThisRound, Saving, NoneAhead, Unsaved
    <3>2. BestsOfTheirPhase' /\ RecordedWhole' /\ NewWhole'
      BY <2>2 DEF vars, IInv, BestsOfTheirPhase, RecordedWhole, NewWhole, NewDone, Saving
    <3>3. WrittenKept' /\ NoLeftovers' /\ LatestKept'
      BY <2>2 DEF vars, IInv, WrittenKept, NoLeftovers, LatestKept, Saving, NewDone
    <3>4. Records1' /\ Records2'
      BY <2>2 DEF vars, IInv, Records1, Records2, Unsaved, Saving, NewDone
    <3> QED
      BY <3>1, <3>2, <3>3, <3>4 DEF IInv
  <2> QED
    BY <2>1, <2>2
<1> QED
  BY <1>1, NothingAtStart, PTL DEF Spec

-----------------------------------------------------------------------------
(* What the runs check, for every number of phases and rounds.             *)

\* The disk, the save in hand and the trainer's records are well-formed.
THEOREM CheckpointsAreWellFormed == Spec => []TypeOK
<1>1. IInv => TypeOK
  BY DEF IInv, Types
<1> QED
  BY <1>1, Invariance, PTL

\* Between saves, the best of the phase and the one kept from an earlier
\* phase name directories that hold their rounds, whole, whichever writes,
\* deletions and renames failed (DirectoryCheckpointer.save).
THEOREM BestIsWhole == Spec => []RecordedBestIsWhole
<1>1. IInv => RecordedBestIsWhole
  <2> SUFFICES ASSUME IInv, BetweenSaves, NEW r \in {bestRecord, lastGoodRecord} \ {None}
               PROVE  /\ r.directory \in DOMAIN disk
                      /\ disk[r.directory] = Checkpoint(r.phase, r.round, TRUE)
    BY DEF RecordedBestIsWhole
  <2>1. r \in Records
    BY DEF IInv, Types, TypeOK
  <2>2. r.phase \in 1..Phases /\ r.round \in Rounds
    BY <2>1 DEF Records, Rounds
  <2>3. byPhase[r.phase] = DirectoryFor(r.phase, r.round)
        /\ r.directory = DirectoryFor(r.phase, r.round)
    BY DEF IInv, Records1, Records2
  <2>4. at # "dead" /\ ~NewDone
    BY DEF BetweenSaves, NewDone
  <2> QED
    BY <2>2, <2>3, <2>4 DEF IInv, RecordedWhole
<1> QED
  BY <1>1, Invariance, PTL

\* A phase that completed a best always has one on disk, whole: half-way
\* through replacing it, and after the process died there.
THEOREM PhaseKeepsABest == Spec => []EveryPhaseKeepsABest
<1>1. ASSUME IInv, at # "dead" PROVE EveryPhaseKeepsABest
  <2> SUFFICES ASSUME NEW p \in written
               PROVE  \E d \in DOMAIN disk \ {Latest} : disk[d].phase = p /\ disk[d].whole
    BY DEF EveryPhaseKeepsABest
  <2>1. p \in 1..Phases
    BY <1>1 DEF IInv, Types
  <2>2. CASE NewDone /\ p = phase
    BY <1>1, <2>2 DEF IInv, NewWhole, NewDone, Checkpoint
  <2>3. CASE ~(NewDone /\ p = phase)
    <3>1. PICK r \in Rounds : byPhase[p] = DirectoryFor(p, r)
      BY <1>1, <2>1, <2>3 DEF IInv, WrittenKept, BestsOfTheirPhase
    <3>2. /\ DirectoryFor(p, r) \in DOMAIN disk \ {Latest}
          /\ disk[DirectoryFor(p, r)] = Checkpoint(p, r, TRUE)
      BY <1>1, <2>1, <2>3, <3>1, DirectoryNames DEF IInv, RecordedWhole
    <3> QED
      BY <3>2 DEF Checkpoint
  <2> QED
    BY <2>2, <2>3
<1>2. IInv /\ ~(at = "dead") => EveryPhaseKeepsABest
  BY <1>1
<1>3. EveryPhaseKeepsABest /\ [Next]_vars /\ (at = "dead")' => EveryPhaseKeepsABest'
  <2> SUFFICES ASSUME EveryPhaseKeepsABest, [Next]_vars, at' = "dead"
               PROVE  EveryPhaseKeepsABest'
    OBVIOUS
  <2>1. disk' = disk /\ written' = written
    BY
       DEF Next, vars, saveHistory, SaveBest, SaveLatest, FailToWrite,
           Returned, OfLatest, Write,
       BeginDelete, FailToDelete, FinishDelete, AfterDelete, Rename, FailToRename,
       Record, NextRound, Crash
  <2> QED
    BY <2>1 DEF EveryPhaseKeepsABest
<1>4. Init => EveryPhaseKeepsABest
  BY DEF Init, EveryPhaseKeepsABest
<1> QED
  BY <1>2, <1>3, <1>4, Invariance, PTL DEF Spec

\* Between saves a phase has at most one best that could be deleted.
THEOREM OneBest == Spec => []OneBestPerPhase
<1>1. IInv => OneBestPerPhase
  <2> SUFFICES ASSUME IInv, BetweenSaves, NEW p \in 1..Phases
               PROVE  Cardinality({d \in DOMAIN disk \ ({Latest} \cup undeleted) :
                                     disk[d].phase = p}) <= 1
    BY DEF OneBestPerPhase
  <2> DEFINE kept == {d \in DOMAIN disk \ ({Latest} \cup undeleted) : disk[d].phase = p}
  <2>1. kept \subseteq {byPhase[p]}
    BY DEF IInv, NoLeftovers, BetweenSaves, NewDone
  <2>2. IsFiniteSet({byPhase[p]}) /\ Cardinality({byPhase[p]}) = 1
    BY FS_Singleton
  <2> QED
    BY <2>1, <2>2, FS_Subset
<1> QED
  BY <1>1, Invariance, PTL

\* latest/ holds the last round completed as latest, whole, unless the swap
\* that replaced it failed: a failed write never touches it.
THEOREM LatestStaysWhole == Spec => []LatestIsWhole
<1>1. IInv => LatestIsWhole
  BY DEF IInv, LatestKept, LatestIsWhole, BetweenSaves
<1> QED
  BY <1>1, Invariance, PTL

-----------------------------------------------------------------------------
(* BinderBakes, under BakeAssumption.                                       *)

LEMMA MoveOrderIs ==
    /\ Len(MoveOrder) = 3
    /\ MoveOrder[1] = "aliases" /\ MoveOrder[2] = "cards" /\ MoveOrder[3] = "stamp"
  BY DEF MoveOrder

LEMMA DownType == Down \in ArmState
  BY DEF Down, ArmState, Bakes

LEMMA ArmGoes ==
    ASSUME BakesTypeOK, NEW a \in Arms, NEW next \in ArmState, Goes(a, next)
    PROVE  /\ arm' \in [Arms -> ArmState]
           /\ arm'[a] = next
           /\ \A b \in Arms \ {a} : arm'[b] = arm[b]
  BY DEF BakesTypeOK, Goes

(* a step of one arm that leaves the directory alone                         *)
LEMMA DirectoryUntouched ==
    ASSUME BakeInv, NEW a \in Arms, NEW next \in ArmState, Goes(a, next),
           UNCHANGED <<clean, saved, contended>>,
           next.at = "move" => next.moved = 0,
           ~contended => (MovedFilesStay(a) /\ LoadsTheStamp(a) /\ TrainsOnItsStamp(a))'
    PROVE  BakeInv'
<1>0. /\ arm' \in [Arms -> ArmState] /\ arm'[a] = next
      /\ \A b \in Arms \ {a} : arm'[b] = arm[b]
  BY ArmGoes DEF BakeInv
<1>1. BakesTypeOK'
  BY <1>0 DEF BakeInv, BakesTypeOK
<1>2. ASSUME ~contended, NEW b \in Arms
      PROVE  (MovedFilesStay(b) /\ LoadsTheStamp(b) /\ TrainsOnItsStamp(b))'
  <2>1. CASE b = a
    BY <1>2, <2>1
  <2>2. CASE b # a
    <3>1. arm'[b] = arm[b]
      BY <1>0, <2>2
    <3> QED
      BY <1>2, <3>1 DEF BakeInv, MovedFilesStay, LoadsTheStamp, TrainsOnItsStamp
  <2> QED
    BY <2>1, <2>2
<1>3. ~contended => StampedIsWhole'
  BY DEF BakeInv, StampedIsWhole
<1>4. \A b \in Arms : arm'[b].at = "move" => arm'[b].moved < Len(MoveOrder)
  BY <1>0, MoveOrderIs DEF BakeInv
<1> QED
  BY <1>1, <1>2, <1>3, <1>4 DEF BakeInv

LEMMA BakeInit ==
    ASSUME BakeAssumption, BakesInit
    PROVE  BakeInv
<1>1. BakesTypeOK
  <2>1. clean \in 0..MaxReingests
    BY DEF BakeAssumption, BakesInit
  <2>2. saved \in [Files -> Bakes]
    BY DEF BakesInit, Bakes
  <2>3. arm \in [Arms -> ArmState]
    BY DownType DEF BakesInit
  <2> QED
    BY <2>1, <2>2, <2>3 DEF BakesInit, BakesTypeOK
<1>2. StampedIsWhole
  BY DEF BakesInit, StampedIsWhole, Files
<1>3. ASSUME NEW a \in Arms
      PROVE  MovedFilesStay(a) /\ LoadsTheStamp(a) /\ TrainsOnItsStamp(a)
  BY DEF BakesInit, Down, MovedFilesStay, LoadsTheStamp, TrainsOnItsStamp
<1>4. \A a \in Arms : arm[a].at # "move"
  BY DEF BakesInit, Down
<1> QED
  BY <1>1, <1>2, <1>3, <1>4 DEF BakeInv

(* the one step that changes the directory                                   *)
LEMMA MoveFileStep ==
    ASSUME BakeAssumption, BakeInv, NEW a \in Arms, MoveFile(a)
    PROVE  BakeInv'
<1> DEFINE made == arm[a].stamp
           moved == arm[a].moved + 1
           there == IF moved = Len(MoveOrder) THEN "training" ELSE arm[a].at
           next == [arm[a] EXCEPT !.moved = moved, !.at = there]
<1>0. BakesTypeOK /\ arm[a] \in ArmState /\ arm[a].at = "move"
  BY DEF BakeInv, BakesTypeOK, MoveFile
<1>1. /\ Goes(a, next) /\ saved' = [saved EXCEPT ![MoveOrder[moved]] = made]
      /\ contended' = (contended \/ Rivalled(a)) /\ UNCHANGED clean
  BY DEF MoveFile
<1>2. /\ arm[a].moved \in 0..2 /\ moved \in 1..3 /\ made \in Bakes
      /\ MoveOrder[moved] \in Files
  BY <1>0, MoveOrderIs DEF BakeInv, ArmState, Files
<1>3. /\ next \in ArmState /\ next.stamp = made /\ next.moved = moved
      /\ next.cards = arm[a].cards /\ next.aliases = arm[a].aliases
      /\ next.at = IF moved = 3 THEN "training" ELSE "move"
  <2>1. there = IF moved = 3 THEN "training" ELSE "move"
    BY <1>0, MoveOrderIs
  <2>2. there \in {"training", "move"}
    BY <2>1
  <2>3. moved \in 0..3
    BY <1>2
  <2> HIDE DEF there, moved, made
  <2>4. arm[a].stamp = made
    BY DEF made
  <2>5. next \in ArmState
    BY <1>0, <2>2, <2>3 DEF ArmState
  <2>6. /\ next.stamp = made /\ next.moved = moved /\ next.at = there
        /\ next.cards = arm[a].cards /\ next.aliases = arm[a].aliases
    BY <1>0, <2>4 DEF ArmState
  <2> QED
    BY <2>1, <2>5, <2>6
<1> HIDE DEF next
<1>4. /\ arm' \in [Arms -> ArmState] /\ arm'[a] = next
      /\ \A b \in Arms \ {a} : arm'[b] = arm[b]
  BY <1>0, <1>1, <1>3, ArmGoes
<1>5. saved' \in [Files -> Bakes] /\ DOMAIN saved = Files
  BY <1>0, <1>1, <1>2 DEF BakesTypeOK
<1>6. Rivalled(a) \in BOOLEAN
  BY DEF Rivalled
<1>7. BakesTypeOK'
  BY <1>0, <1>1, <1>4, <1>5, <1>6 DEF BakesTypeOK
<1>8. \A b \in Arms : arm'[b].at = "move" => arm'[b].moved < Len(MoveOrder)
  BY <1>2, <1>3, <1>4, MoveOrderIs DEF BakeInv
<1>9. CASE ~contended /\ ~Rivalled(a)
  <2>1. /\ saved["stamp"] \in {NoBake, made}
        /\ \A b \in Arms : arm[b].at = "move" /\ arm[b].moved > 0 => arm[b].stamp = made
    BY <1>9 DEF Rivalled
  <2>2. /\ arm[a].cards = made /\ arm[a].aliases = made
        /\ \A i \in 1..arm[a].moved : saved[MoveOrder[i]] = made
        /\ StampedIsWhole
    BY <1>0, <1>9 DEF BakeInv, MovedFilesStay
  <2>3. \A f \in Files : saved'[f] = IF f = MoveOrder[moved] THEN made ELSE saved[f]
    BY <1>1, <1>5
  <2>4. saved["stamp"] # NoBake => \A f \in Files : saved[f] = made
    BY <2>1, <2>2 DEF StampedIsWhole, Files
  <2>5. StampedIsWhole'
    <3>1. CASE moved = 3
      <4>1. saved[MoveOrder[1]] = made /\ saved[MoveOrder[2]] = made
        BY <1>2, <2>2, <3>1
      <4>2. \A f \in Files : saved'[f] = made
        BY <2>3, <3>1, <4>1, MoveOrderIs DEF Files
      <4> QED
        BY <4>2 DEF StampedIsWhole, Files
    <3>2. CASE moved # 3
      <4>1. MoveOrder[moved] # "stamp"
        BY <1>2, <3>2, MoveOrderIs
      <4>2. saved'["stamp"] = saved["stamp"]
        BY <2>3, <4>1 DEF Files
      <4> QED
        BY <2>3, <2>4, <4>2 DEF StampedIsWhole, Files
    <3> QED
      BY <3>1, <3>2
  <2>6. ASSUME NEW b \in Arms
        PROVE  (MovedFilesStay(b) /\ LoadsTheStamp(b) /\ TrainsOnItsStamp(b))'
    <3>1. CASE b = a
      <4>1. \A i \in 1..moved : saved'[MoveOrder[i]] = made
        <5>1. \A i \in 1..3 : MoveOrder[i] \in Files
          BY MoveOrderIs DEF Files
        <5> QED
          BY <1>2, <2>2, <2>3, <5>1
      <4> QED
        BY <1>3, <1>4, <2>2, <3>1, <4>1 DEF MovedFilesStay, LoadsTheStamp, TrainsOnItsStamp
    <3>2. CASE b # a
      <4>1. arm'[b] = arm[b] /\ MovedFilesStay(b) /\ LoadsTheStamp(b) /\ TrainsOnItsStamp(b)
        BY <1>4, <1>9, <3>2 DEF BakeInv
      <4>2. arm[b].moved \in 0..3
        BY <1>0 DEF BakesTypeOK, ArmState
      <4>3. MovedFilesStay(b)'
        <5>1. \A i \in 1..3 : MoveOrder[i] \in Files
          BY MoveOrderIs DEF Files
        <5> SUFFICES ASSUME arm[b].at = "move", NEW i \in 1..arm[b].moved
                     PROVE  saved'[MoveOrder[i]] = arm[b].stamp
          BY <4>1 DEF MovedFilesStay
        <5>2. i \in 1..3 /\ arm[b].stamp = made /\ saved[MoveOrder[i]] = made
          BY <2>1, <4>1, <4>2 DEF MovedFilesStay
        <5> QED
          BY <2>3, <5>1, <5>2
      <4>4. LoadsTheStamp(b)'
        <5>1. saved["stamp"] # NoBake => saved'["stamp"] = saved["stamp"]
          BY <2>3, <2>4 DEF Files
        <5> QED
          BY <4>1, <5>1 DEF LoadsTheStamp
      <4>5. TrainsOnItsStamp(b)'
        BY <4>1 DEF TrainsOnItsStamp
      <4> QED
        BY <4>3, <4>4, <4>5
    <3> QED
      BY <3>1, <3>2
  <2> QED
    BY <1>7, <1>8, <2>5, <2>6 DEF BakeInv
<1>10. CASE contended \/ Rivalled(a)
  <2>1. contended'
    BY <1>1, <1>10
  <2> QED
    BY <1>7, <1>8, <2>1 DEF BakeInv
<1> QED
  BY <1>9, <1>10

LEMMA BakeStep ==
    ASSUME BakeAssumption, BakeInv, [BakesNext]_bakeVars
    PROVE  BakeInv'
<1>0. /\ BakesTypeOK
      /\ \A a \in Arms : arm[a] \in ArmState
      /\ \A f \in Files : saved[f] \in Bakes
  BY DEF BakeInv, BakesTypeOK
<1>1. ASSUME NEW a \in Arms, ReadStamp(a)
      PROVE  BakeInv'
  <2> DEFINE stamp == saved["stamp"]
  <2>0. UNCHANGED <<clean, saved, contended>>
    BY <1>1 DEF ReadStamp
  <2>1. CASE stamp = NoBake /\ Goes(a, [Down EXCEPT !.at = "bake"])
    <3> DEFINE next == [Down EXCEPT !.at = "bake"]
    <3>1. next \in ArmState /\ next.at = "bake"
      BY DownType DEF ArmState, Down
    <3> HIDE DEF next
    <3>2. arm'[a] = next
      BY <1>0, <2>1, <3>1, ArmGoes DEF next
    <3>3. (MovedFilesStay(a) /\ LoadsTheStamp(a) /\ TrainsOnItsStamp(a))'
      BY <3>1, <3>2 DEF MovedFilesStay, LoadsTheStamp, TrainsOnItsStamp
    <3>4. Goes(a, next)
      BY <2>1 DEF next
    <3> QED
      BY <2>0, <3>1, <3>3, <3>4, DirectoryUntouched
  <2>2. CASE stamp # NoBake /\ Goes(a, [Down EXCEPT !.at = "loadCards", !.stamp = stamp])
    <3> DEFINE next == [Down EXCEPT !.at = "loadCards", !.stamp = stamp]
    <3>0. stamp \in Bakes
      BY <1>0 DEF Files
    <3>1. next \in ArmState /\ next.at = "loadCards" /\ next.stamp = stamp
      BY <3>0, DownType DEF ArmState, Down
    <3>4. Goes(a, next)
      BY <2>2
    <3> HIDE DEF next
    <3>2. arm'[a] = next
      BY <1>0, <3>1, <3>4, ArmGoes
    <3>3. (MovedFilesStay(a) /\ LoadsTheStamp(a) /\ TrainsOnItsStamp(a))'
      BY <2>0, <2>2, <3>1, <3>2 DEF MovedFilesStay, LoadsTheStamp, TrainsOnItsStamp
    <3> QED
      BY <2>0, <3>1, <3>3, <3>4, DirectoryUntouched
  <2> QED
    BY <1>1, <2>1, <2>2 DEF ReadStamp
<1>2. ASSUME NEW a \in Arms, LoadCards(a)
      PROVE  BakeInv'
  <2> DEFINE next == [arm[a] EXCEPT !.at = "loadAliases", !.cards = saved["cards"]]
  <2>0. /\ UNCHANGED <<clean, saved, contended>> /\ Goes(a, next)
        /\ arm[a].at = "loadCards"
    BY <1>2 DEF LoadCards
  <2>1. saved["cards"] \in Bakes
    BY <1>0 DEF Files
  <2>2. /\ next \in ArmState /\ next.at = "loadAliases"
        /\ next.stamp = arm[a].stamp /\ next.cards = saved["cards"]
    BY <1>0, <2>1 DEF ArmState
  <2> HIDE DEF next
  <2>3. arm'[a] = next
    BY <1>0, <2>0, <2>2, ArmGoes
  <2>4. ASSUME ~contended
        PROVE  (MovedFilesStay(a) /\ LoadsTheStamp(a) /\ TrainsOnItsStamp(a))'
    <3>1. /\ arm[a].stamp = saved["stamp"] /\ arm[a].stamp # NoBake
          /\ saved["cards"] = saved["stamp"]
      BY <2>0, <2>4 DEF BakeInv, LoadsTheStamp, StampedIsWhole, Files
    <3> QED
      BY <2>0, <2>2, <2>3, <3>1 DEF MovedFilesStay, LoadsTheStamp, TrainsOnItsStamp
  <2> QED
    BY <2>0, <2>2, <2>4, DirectoryUntouched
<1>3. ASSUME NEW a \in Arms, LoadAliases(a)
      PROVE  BakeInv'
  <2> DEFINE next == [arm[a] EXCEPT !.at = "training", !.aliases = saved["aliases"]]
  <2>0. /\ UNCHANGED <<clean, saved, contended>> /\ Goes(a, next)
        /\ arm[a].at = "loadAliases"
    BY <1>3 DEF LoadAliases
  <2>1. saved["aliases"] \in Bakes
    BY <1>0 DEF Files
  <2>2. /\ next \in ArmState /\ next.at = "training" /\ next.stamp = arm[a].stamp
        /\ next.cards = arm[a].cards /\ next.aliases = saved["aliases"]
    BY <1>0, <2>1 DEF ArmState
  <2> HIDE DEF next
  <2>3. arm'[a] = next
    BY <1>0, <2>0, <2>2, ArmGoes
  <2>4. ASSUME ~contended
        PROVE  (MovedFilesStay(a) /\ LoadsTheStamp(a) /\ TrainsOnItsStamp(a))'
    <3>1. /\ arm[a].stamp = saved["stamp"] /\ arm[a].cards = arm[a].stamp
          /\ saved["aliases"] = saved["stamp"]
      BY <2>0, <2>4 DEF BakeInv, LoadsTheStamp, StampedIsWhole, Files
    <3> QED
      BY <2>0, <2>2, <2>3, <3>1 DEF MovedFilesStay, LoadsTheStamp, TrainsOnItsStamp
  <2> QED
    BY <2>0, <2>2, <2>4, DirectoryUntouched
<1>4. ASSUME NEW a \in Arms, BakeClean(a)
      PROVE  BakeInv'
  <2> DEFINE made == Bake(SpecOf[a], clean)
             next == [Down EXCEPT !.at = "move", !.stamp = made, !.cards = made, !.aliases = made]
  <2>0. UNCHANGED <<clean, saved, contended>> /\ Goes(a, next)
    BY <1>4 DEF BakeClean
  <2>1. made \in Bakes
    BY <1>0 DEF Bake, Bakes, BakesTypeOK
  <2> HIDE DEF made
  <2>2. /\ next \in ArmState /\ next.at = "move" /\ next.moved = 0
        /\ next.stamp = made /\ next.cards = made /\ next.aliases = made
    BY <2>1, DownType DEF ArmState, Down
  <2> HIDE DEF next
  <2>3. arm'[a] = next
    BY <1>0, <2>0, <2>2, ArmGoes
  <2>4. (MovedFilesStay(a) /\ LoadsTheStamp(a) /\ TrainsOnItsStamp(a))'
    BY <2>2, <2>3 DEF MovedFilesStay, LoadsTheStamp, TrainsOnItsStamp
  <2> QED
    BY <2>0, <2>2, <2>4, DirectoryUntouched
<1>5. ASSUME NEW a \in Arms, Stop(a)
      PROVE  BakeInv'
  <2>0. UNCHANGED <<clean, saved, contended>> /\ Goes(a, Down)
    BY <1>5 DEF Stop
  <2>1. arm'[a] = Down
    BY <1>0, <2>0, DownType, ArmGoes
  <2>2. (MovedFilesStay(a) /\ LoadsTheStamp(a) /\ TrainsOnItsStamp(a))'
    BY <2>1 DEF MovedFilesStay, LoadsTheStamp, TrainsOnItsStamp, Down
  <2>3. Down.at = "down"
    BY DEF Down
  <2> QED
    BY <2>0, <2>2, <2>3, DownType, DirectoryUntouched
<1>6. CASE Reingest \/ UNCHANGED bakeVars
  <2>1. clean' \in 0..MaxReingests /\ UNCHANGED <<saved, arm, contended>>
    BY <1>0, <1>6 DEF Reingest, bakeVars, BakesTypeOK, BakeAssumption
  <2> QED
    BY <2>1 DEF BakeInv, BakesTypeOK, StampedIsWhole, MovedFilesStay, LoadsTheStamp, TrainsOnItsStamp
<1> QED
  BY <1>1, <1>2, <1>3, <1>4, <1>5, <1>6, MoveFileStep DEF BakesNext

(*****************************************************************************)
(* BakesAreTheirStamps: wherever arms die or are killed and however often    *)
(* the clean binder is ingested again, an arm trains on the bake its stamp   *)
(* names unless two different bakes were moved at once, for any number of    *)
(* arms and specs.                                                           *)
(*****************************************************************************)
THEOREM ArmsTrainOnTheirStamps ==
    ASSUME BakeAssumption
    PROVE  BakesSpec => []BakesAreTheirStamps
<1>1. BakesInit => BakeInv
  BY BakeInit
<1>2. BakeInv /\ [BakesNext]_bakeVars => BakeInv'
  BY BakeStep
<1>3. BakeInv => BakesAreTheirStamps
  BY DEF BakeInv, BakesAreTheirStamps
<1> QED
  BY <1>1, <1>2, <1>3, PTL DEF BakesSpec

-----------------------------------------------------------------------------
(* TrainingRuns, under RunAssumption.                                       *)

RunStep(r) == Prepares(r) \/ Trains(r) \/ Samples(r) \/ Kill(r)

Fresh == {"config", "preflight", "built", "made", "copied", "shared"}
Shared == {"shared", "warmed", "training", "step", "best", "trained", "joining"}
Copied == Shared \cup {"copied"}
Made == Copied \cup {"made"}
Alive == {"waiting", "reading", "writing"}

\* How far a run has come, and what of it is in the directory by then: m is
\* its main thread, t its sampling thread, d the directory.
StageOf(r, m, t, d) ==
    /\ m.at \in Fresh => m.steps = 0 /\ m.texts = 0
    /\ m.at \in Fresh \cup {"warmed"} => m.round = 0 /\ m.steps = 0 /\ t.at = "none"
    /\ m.at \in Made \/ m.steps > 0 \/ t.at # "none" => d # NoDirectory /\ d.owner = r
    /\ m.at \in Copied \/ m.steps > 0 => d.config
    /\ m.at \in Shared \/ m.steps > 0 => d.shares
    /\ m.at \in Made \cup {"built", "closing"} => m.cache = "open"
    /\ t.at \in Alive =>
         /\ m.cache = "open"
         /\ m.at \in {"training", "step", "best", "trained", "joining", "killed"}
    /\ m.lastRow => t.at = "done" /\ m.at \in {"closing", "ended", "killed"}

RunStages == \A r \in Runs : StageOf(r, main[r], thread[r], directory)

\* What the two threads may still write is not behind what is written.
SamplesOf(r, m, t, samples) ==
    /\ \A i \in DOMAIN samples :
         samples[i].by = r /\ samples[i].steps <= m.steps /\ samples[i].texts <= m.texts
    /\ NotDecreasing(samples, "steps") /\ NotDecreasing(samples, "texts")
    /\ t.at \in {"reading", "writing"} =>
         t.steps <= m.steps /\ \A i \in DOMAIN samples : samples[i].steps <= t.steps
    /\ t.at = "writing" =>
         t.texts <= m.texts /\ \A i \in DOMAIN samples : samples[i].texts <= t.texts
    /\ m.lastRow => samples # <<>> /\ Last(samples) = RowOf(r, m.steps, m.texts)

CutTail(rows) == rows # <<>> /\ Last(rows).line = "cut"

RowsUpTo(r, rows, n) ==
    /\ \A i \in DOMAIN rows : rows[i].by = r /\ rows[i].round <= n
    /\ Increasing(rows, "round")

\* A cut line at the end stands for a row that is still to be lost.
TablesOf(r, m, d, failed) ==
    /\ RowsUpTo(r, d.rounds.rows, m.round)
    /\ RowsUpTo(r, d.checkpoints.rows, IF m.at = "best" THEN m.round - 1 ELSE m.round)
    /\ d.rounds.header = "none" => d.rounds.rows = <<>> /\ m.round <= failed
    /\ d.rounds.header = "whole" =>
         m.round + (IF CutTail(d.rounds.rows) THEN 1 ELSE 0)
           <= 2 * failed + Cardinality(RoundsTold(d.rounds.rows))

DirectoryInv ==
    directory # NoDirectory =>
      LET o == directory.owner
      IN /\ SamplesOf(o, main[o], thread[o], directory.samples)
         /\ TablesOf(o, main[o], directory, writeFaults["rounds"])

RunsInv == RunsTypeOK /\ RunStages /\ DirectoryInv

LEMMA TypesOfRuns ==
    ASSUME RunsTypeOK, NEW r \in Runs
    PROVE  main[r] \in MainStates /\ thread[r] \in ThreadStates
  BY DEF RunsTypeOK

LEMMA TypesOfDirectory ==
    ASSUME RunsTypeOK, directory # NoDirectory
    PROVE  /\ directory \in RunDirectories /\ directory.owner \in Runs
           /\ directory.samples \in Seq(SampleRow)
           /\ \A i \in DOMAIN directory.samples :
                directory.samples[i].steps \in Nat /\ directory.samples[i].texts \in Nat
           /\ directory.rounds \in TableFile /\ directory.checkpoints \in TableFile
           /\ directory.rounds.rows \in Seq(TableRow)
           /\ directory.checkpoints.rows \in Seq(TableRow)
           /\ \A i \in DOMAIN directory.checkpoints.rows :
                directory.checkpoints.rows[i].round \in Nat
           /\ \A i \in DOMAIN directory.rounds.rows : directory.rounds.rows[i].round \in Nat
<1>1. directory \in RunDirectories
  BY DEF RunsTypeOK
<1>2. /\ directory.owner \in Runs /\ directory.samples \in Seq(SampleRow)
      /\ directory.rounds \in TableFile /\ directory.checkpoints \in TableFile
  BY <1>1 DEF RunDirectories
<1>3. directory.rounds.rows \in Seq(TableRow) /\ directory.checkpoints.rows \in Seq(TableRow)
  BY <1>2 DEF TableFile
<1>4. ASSUME NEW rows \in Seq(TableRow), NEW i \in DOMAIN rows
      PROVE  rows[i].round \in Nat
  <2>1. rows[i] \in TableRow
    OBVIOUS
  <2> QED
    BY <2>1 DEF TableRow
<1>5. ASSUME NEW i \in DOMAIN directory.samples
      PROVE  directory.samples[i].steps \in Nat /\ directory.samples[i].texts \in Nat
  <2>1. directory.samples[i] \in SampleRow
    BY <1>2
  <2> QED
    BY <2>1 DEF SampleRow
<1> QED
  BY <1>1, <1>2, <1>3, <1>4, <1>5

(* what another run has in the directory stays there                         *)
LEMMA OthersKeepTheirStage ==
    ASSUME RunsInv, NEW r \in Runs,
           main' \in [Runs -> MainStates], thread' \in [Runs -> ThreadStates],
           \A q \in Runs \ {r} : main'[q] = main[q] /\ thread'[q] = thread[q],
           \/ directory = NoDirectory
           \/ /\ directory' # NoDirectory /\ directory'.owner = directory.owner
              /\ directory.config => directory'.config
              /\ directory.shares => directory'.shares
           \/ directory' = directory,
           StageOf(r, main'[r], thread'[r], directory')
    PROVE  RunStages'
<1> SUFFICES ASSUME NEW q \in Runs \ {r}
             PROVE  StageOf(q, main[q], thread[q], directory')
  BY DEF RunStages
<1>1. StageOf(q, main[q], thread[q], directory)
  BY DEF RunsInv, RunStages
<1>2. CASE directory = NoDirectory
  <2>1. ~(main[q].at \in Made) /\ ~(main[q].steps > 0) /\ thread[q].at = "none"
    BY <1>1, <1>2 DEF StageOf
  <2>2. ~(main[q].at \in Copied) /\ ~(main[q].at \in Shared)
    BY <2>1 DEF Made, Copied
  <2> QED
    BY <1>1, <2>1, <2>2 DEF StageOf
<1>3. CASE directory # NoDirectory
  BY <1>1, <1>3 DEF StageOf
<1> QED
  BY <1>2, <1>3

(* a step of the main thread that leaves the files alone                     *)
LEMMA MainMoves ==
    ASSUME RunsInv, NEW r \in Runs, NEW m \in MainStates,
           main' = [main EXCEPT ![r] = m], UNCHANGED <<thread, directory, writeFaults>>,
           StageOf(r, m, thread[r], directory),
           m.steps >= main[r].steps, m.texts >= main[r].texts, m.round = main[r].round,
           m.lastRow = main[r].lastRow,
           m.lastRow => m.steps = main[r].steps /\ m.texts = main[r].texts,
           m.at = "best" => main[r].at = "best"
    PROVE  RunsInv'
<1> USE DEF RunsInv
<1>1. RunsTypeOK' /\ main'[r] = m /\ \A q \in Runs \ {r} : main'[q] = main[q]
  BY DEF RunsTypeOK
<1>2. RunStages'
  BY <1>1, OthersKeepTheirStage DEF RunsTypeOK
<1>3. ASSUME directory # NoDirectory, directory.owner = r
      PROVE  DirectoryInv'
  <2>1. /\ SamplesOf(r, main[r], thread[r], directory.samples)
        /\ TablesOf(r, main[r], directory, writeFaults["rounds"])
    BY <1>3 DEF DirectoryInv
  <2>0. main[r] \in MainStates /\ thread[r] \in ThreadStates /\ directory \in RunDirectories
    BY <1>3, TypesOfRuns DEF RunsTypeOK
  <2>2. SamplesOf(r, m, thread[r], directory.samples)
    <3> DEFINE samples == directory.samples
               t == thread[r]
    <3>1. /\ main[r].steps \in Nat /\ main[r].texts \in Nat /\ m.steps \in Nat /\ m.texts \in Nat
          /\ t.steps \in Nat /\ t.texts \in Nat
      BY <2>0 DEF MainStates, ThreadStates
    <3>2. \A i \in DOMAIN samples : samples[i].steps \in Nat /\ samples[i].texts \in Nat
      BY <1>3, TypesOfDirectory
    <3>3. SamplesOf(r, main[r], t, samples)
      BY <2>1
    <3> HIDE DEF samples, t
    <3>4. /\ \A i \in DOMAIN samples :
               samples[i].by = r /\ samples[i].steps <= m.steps /\ samples[i].texts <= m.texts
          /\ NotDecreasing(samples, "steps") /\ NotDecreasing(samples, "texts")
      BY <3>1, <3>2, <3>3 DEF SamplesOf
    <3>5. /\ t.at \in {"reading", "writing"} =>
               t.steps <= m.steps /\ \A i \in DOMAIN samples : samples[i].steps <= t.steps
          /\ t.at = "writing" =>
               t.texts <= m.texts /\ \A i \in DOMAIN samples : samples[i].texts <= t.texts
      BY <3>1, <3>3 DEF SamplesOf
    <3>6. m.lastRow => samples # <<>> /\ Last(samples) = RowOf(r, m.steps, m.texts)
      BY <3>3 DEF SamplesOf
    <3> QED
      BY <3>4, <3>5, <3>6 DEF SamplesOf, samples, t
  <2>3. RowsUpTo(r, directory.checkpoints.rows, IF m.at = "best" THEN m.round - 1 ELSE m.round)
    <3>1. CASE m.at = "best" \/ main[r].at # "best"
      BY <2>1, <3>1 DEF TablesOf
    <3>2. CASE m.at # "best" /\ main[r].at = "best"
      BY <2>0, <2>1, <3>2, TypesOfDirectory, <1>3 DEF TablesOf, RowsUpTo, MainStates
    <3> QED
      BY <3>1, <3>2
  <2>4. TablesOf(r, m, directory, writeFaults["rounds"])
    BY <2>1, <2>3 DEF TablesOf
  <2> QED
    BY <1>1, <1>3, <2>2, <2>4 DEF DirectoryInv
<1>4. ASSUME directory # NoDirectory, directory.owner # r
      PROVE  DirectoryInv'
  <2>1. directory.owner \in Runs
    BY <1>4 DEF RunsTypeOK, RunDirectories
  <2> QED
    BY <1>1, <1>4, <2>1 DEF DirectoryInv
<1>5. directory = NoDirectory => DirectoryInv'
  BY DEF DirectoryInv
<1> QED
  BY <1>1, <1>2, <1>3, <1>4, <1>5

\* The steps of the main thread that write nothing.
QuietStep(r) ==
    \/ ReadConfig(r) \/ Preflight(r) \/ PassCheck(r)
    \/ CreateRunDirectory(r) /\ directory # NoDirectory
    \/ Fails(r, "made") \/ Fails(r, "copied") \/ Fails(r, "shared")
    \/ WarmFeatureCache(r) \/ CountStep(r) \/ LookUp(r) \/ EndTraining(r)
    \/ SetStop(r) \/ CloseFeatureCache(r) \/ Kill(r)

LEMMA QuietStepsKeepRunsInv ==
    ASSUME RunsInv, NEW r \in Runs, QuietStep(r)
    PROVE  RunsInv'
<1>1. /\ main \in [Runs -> MainStates] /\ main[r] \in MainStates
      /\ thread[r] \in ThreadStates /\ StageOf(r, main[r], thread[r], directory)
  BY TypesOfRuns DEF RunsInv, RunsTypeOK, RunStages
<1> USE <1>1
<1>2. ASSUME ReadConfig(r), RunGoes(r, "config", "ended")
      PROVE  RunsInv'
  <2> DEFINE m == [main[r] EXCEPT !.at = "ended"]
  <2>1. main' = [main EXCEPT ![r] = m] /\ UNCHANGED <<thread, directory, writeFaults>>
    BY <1>2 DEF ReadConfig, RunGoes
  <2>2. /\ m \in MainStates
        /\ m.steps >= main[r].steps /\ m.texts >= main[r].texts /\ m.round = main[r].round
        /\ m.lastRow = main[r].lastRow
        /\ m.lastRow => m.steps = main[r].steps /\ m.texts = main[r].texts
        /\ m.at # "best"
    BY <1>2 DEF ReadConfig, RunGoes, MainStates, MainPlaces, StageOf
  <2>3. StageOf(r, m, thread[r], directory)
    BY <1>2 DEF ReadConfig, RunGoes,
       MainStates, MainPlaces, ThreadStates, Fresh, Shared, Copied, Made, Alive, StageOf
  <2> HIDE DEF m
  <2> QED
    BY <2>1, <2>2, <2>3, MainMoves
<1>3. ASSUME ReadConfig(r), RunGoes(r, "config", "preflight")
      PROVE  RunsInv'
  <2> DEFINE m == [main[r] EXCEPT !.at = "preflight"]
  <2>1. main' = [main EXCEPT ![r] = m] /\ UNCHANGED <<thread, directory, writeFaults>>
    BY <1>3 DEF ReadConfig, RunGoes
  <2>2. /\ m \in MainStates
        /\ m.steps >= main[r].steps /\ m.texts >= main[r].texts /\ m.round = main[r].round
        /\ m.lastRow = main[r].lastRow
        /\ m.lastRow => m.steps = main[r].steps /\ m.texts = main[r].texts
        /\ m.at # "best"
    BY <1>3 DEF ReadConfig, RunGoes, MainStates, MainPlaces, StageOf
  <2>3. StageOf(r, m, thread[r], directory)
    BY <1>3 DEF ReadConfig, RunGoes,
       MainStates, MainPlaces, ThreadStates, Fresh, Shared, Copied, Made, Alive, StageOf
  <2> HIDE DEF m
  <2> QED
    BY <2>1, <2>2, <2>3, MainMoves
<1>4. ASSUME Preflight(r), RunGoes(r, "preflight", "ended")
      PROVE  RunsInv'
  <2> DEFINE m == [main[r] EXCEPT !.at = "ended"]
  <2>1. main' = [main EXCEPT ![r] = m] /\ UNCHANGED <<thread, directory, writeFaults>>
    BY <1>4 DEF Preflight, RunGoes
  <2>2. /\ m \in MainStates
        /\ m.steps >= main[r].steps /\ m.texts >= main[r].texts /\ m.round = main[r].round
        /\ m.lastRow = main[r].lastRow
        /\ m.lastRow => m.steps = main[r].steps /\ m.texts = main[r].texts
        /\ m.at # "best"
    BY <1>4 DEF Preflight, RunGoes, MainStates, MainPlaces, StageOf
  <2>3. StageOf(r, m, thread[r], directory)
    BY <1>4 DEF Preflight, RunGoes,
       MainStates, MainPlaces, ThreadStates, Fresh, Shared, Copied, Made, Alive, StageOf
  <2> HIDE DEF m
  <2> QED
    BY <2>1, <2>2, <2>3, MainMoves
<1>5. ASSUME Preflight(r), ~RunGoes(r, "preflight", "ended")
      PROVE  RunsInv'
  <2> DEFINE m == [main[r] EXCEPT !.at = "built", !.cache = "open"]
  <2>1. main' = [main EXCEPT ![r] = m] /\ UNCHANGED <<thread, directory, writeFaults>>
    BY <1>5 DEF Preflight
  <2>0. main[r].at = "preflight"
    BY <1>5 DEF Preflight, RunGoes
  <2>2. /\ m \in MainStates
        /\ m.steps >= main[r].steps /\ m.texts >= main[r].texts /\ m.round = main[r].round
        /\ m.lastRow = main[r].lastRow
        /\ m.lastRow => m.steps = main[r].steps /\ m.texts = main[r].texts
        /\ m.at # "best"
  <3>1. m \in MainStates
    BY DEF MainStates, MainPlaces
  <3>2. /\ m.steps = main[r].steps /\ m.texts = main[r].texts /\ m.round = main[r].round
        /\ m.lastRow = main[r].lastRow /\ m.at = "built"
    BY DEF MainStates
  <3> QED
    BY <3>1, <3>2 DEF MainStates
  <2>3. StageOf(r, m, thread[r], directory)
    BY <2>0 DEF MainStates, MainPlaces, ThreadStates, Fresh, Shared, Copied, Made, Alive, StageOf
  <2> HIDE DEF m
  <2> QED
    BY <2>1, <2>2, <2>3, MainMoves
<1>6. ASSUME PassCheck(r)
      PROVE  RunsInv'
  <2> DEFINE m == [main[r] EXCEPT !.at = "closing"]
  <2>1. main' = [main EXCEPT ![r] = m] /\ UNCHANGED <<thread, directory, writeFaults>>
    BY <1>6 DEF PassCheck, RunGoes
  <2>2. /\ m \in MainStates
        /\ m.steps >= main[r].steps /\ m.texts >= main[r].texts /\ m.round = main[r].round
        /\ m.lastRow = main[r].lastRow
        /\ m.lastRow => m.steps = main[r].steps /\ m.texts = main[r].texts
        /\ m.at # "best"
    BY <1>6 DEF PassCheck, RunGoes, MainStates, MainPlaces, StageOf
  <2>3. StageOf(r, m, thread[r], directory)
    BY <1>6 DEF PassCheck, RunGoes,
       MainStates, MainPlaces, ThreadStates, Fresh, Shared, Copied, Made, Alive, StageOf
  <2> HIDE DEF m
  <2> QED
    BY <2>1, <2>2, <2>3, MainMoves
<1>7. ASSUME CreateRunDirectory(r), directory # NoDirectory
      PROVE  RunsInv'
  <2> DEFINE m == [main[r] EXCEPT !.at = "closing"]
  <2>1. main' = [main EXCEPT ![r] = m] /\ UNCHANGED <<thread, directory, writeFaults>>
    BY <1>7 DEF CreateRunDirectory, RunGoes
  <2>2. /\ m \in MainStates
        /\ m.steps >= main[r].steps /\ m.texts >= main[r].texts /\ m.round = main[r].round
        /\ m.lastRow = main[r].lastRow
        /\ m.lastRow => m.steps = main[r].steps /\ m.texts = main[r].texts
        /\ m.at # "best"
    BY <1>7 DEF CreateRunDirectory, RunGoes, MainStates, MainPlaces, StageOf
  <2>3. StageOf(r, m, thread[r], directory)
    BY <1>7 DEF CreateRunDirectory, RunGoes,
       MainStates, MainPlaces, ThreadStates, Fresh, Shared, Copied, Made, Alive, StageOf
  <2> HIDE DEF m
  <2> QED
    BY <2>1, <2>2, <2>3, MainMoves
<1>8. ASSUME Fails(r, "made") \/ Fails(r, "copied") \/ Fails(r, "shared")
      PROVE  RunsInv'
  <2> DEFINE m == [main[r] EXCEPT !.at = "closing"]
  <2>1. main' = [main EXCEPT ![r] = m] /\ UNCHANGED <<thread, directory, writeFaults>>
    BY <1>8 DEF Fails, RunGoes
  <2>2. /\ m \in MainStates
        /\ m.steps >= main[r].steps /\ m.texts >= main[r].texts /\ m.round = main[r].round
        /\ m.lastRow = main[r].lastRow
        /\ m.lastRow => m.steps = main[r].steps /\ m.texts = main[r].texts
        /\ m.at # "best"
    BY <1>8 DEF Fails, RunGoes, MainStates, MainPlaces, StageOf
  <2>3. StageOf(r, m, thread[r], directory)
    BY <1>8 DEF Fails, RunGoes,
       MainStates, MainPlaces, ThreadStates, Fresh, Shared, Copied, Made, Alive, StageOf
  <2> HIDE DEF m
  <2> QED
    BY <2>1, <2>2, <2>3, MainMoves
<1>9. ASSUME WarmFeatureCache(r), ~Fails(r, "shared")
      PROVE  RunsInv'
  <2> DEFINE m == [main[r] EXCEPT !.at = "warmed", !.texts = @ + 1]
  <2>1. main' = [main EXCEPT ![r] = m] /\ UNCHANGED <<thread, directory, writeFaults>>
    BY <1>9 DEF WarmFeatureCache
  <2>2. /\ m \in MainStates
        /\ m.steps >= main[r].steps /\ m.texts >= main[r].texts /\ m.round = main[r].round
        /\ m.lastRow = main[r].lastRow
        /\ m.lastRow => m.steps = main[r].steps /\ m.texts = main[r].texts
        /\ m.at # "best"
    BY <1>9 DEF WarmFeatureCache, MainStates, MainPlaces, StageOf
  <2>3. StageOf(r, m, thread[r], directory)
    BY <1>9 DEF WarmFeatureCache,
       MainStates, MainPlaces, ThreadStates, Fresh, Shared, Copied, Made, Alive, StageOf
  <2> HIDE DEF m
  <2> QED
    BY <2>1, <2>2, <2>3, MainMoves
<1>10. ASSUME CountStep(r)
      PROVE  RunsInv'
  <2> DEFINE m == [main[r] EXCEPT !.at = "step", !.steps = @ + 1]
  <2>1. main' = [main EXCEPT ![r] = m] /\ UNCHANGED <<thread, directory, writeFaults>>
    BY <1>10 DEF CountStep
  <2>2. /\ m \in MainStates
        /\ m.steps >= main[r].steps /\ m.texts >= main[r].texts /\ m.round = main[r].round
        /\ m.lastRow = main[r].lastRow
        /\ m.lastRow => m.steps = main[r].steps /\ m.texts = main[r].texts
        /\ m.at # "best"
    BY <1>10 DEF CountStep, MainStates, MainPlaces, StageOf
  <2>3. StageOf(r, m, thread[r], directory)
    BY <1>10 DEF CountStep,
       MainStates, MainPlaces, ThreadStates, Fresh, Shared, Copied, Made, Alive, StageOf
  <2> HIDE DEF m
  <2> QED
    BY <2>1, <2>2, <2>3, MainMoves
<1>11. ASSUME LookUp(r)
      PROVE  RunsInv'
  <2> DEFINE m == [main[r] EXCEPT !.at = "training", !.texts = @ + 1]
  <2>1. main' = [main EXCEPT ![r] = m] /\ UNCHANGED <<thread, directory, writeFaults>>
    BY <1>11 DEF LookUp
  <2>2. /\ m \in MainStates
        /\ m.steps >= main[r].steps /\ m.texts >= main[r].texts /\ m.round = main[r].round
        /\ m.lastRow = main[r].lastRow
        /\ m.lastRow => m.steps = main[r].steps /\ m.texts = main[r].texts
        /\ m.at # "best"
    BY <1>11 DEF LookUp, MainStates, MainPlaces, StageOf
  <2>3. StageOf(r, m, thread[r], directory)
    BY <1>11 DEF LookUp,
       MainStates, MainPlaces, ThreadStates, Fresh, Shared, Copied, Made, Alive, StageOf
  <2> HIDE DEF m
  <2> QED
    BY <2>1, <2>2, <2>3, MainMoves
<1>12. ASSUME EndTraining(r)
      PROVE  RunsInv'
  <2> DEFINE m == [main[r] EXCEPT !.at = "trained"]
  <2>1. main' = [main EXCEPT ![r] = m] /\ UNCHANGED <<thread, directory, writeFaults>>
    BY <1>12 DEF EndTraining
  <2>2. /\ m \in MainStates
        /\ m.steps >= main[r].steps /\ m.texts >= main[r].texts /\ m.round = main[r].round
        /\ m.lastRow = main[r].lastRow
        /\ m.lastRow => m.steps = main[r].steps /\ m.texts = main[r].texts
        /\ m.at # "best"
    BY <1>12 DEF EndTraining, MainStates, MainPlaces, StageOf
  <2>3. StageOf(r, m, thread[r], directory)
    BY <1>12 DEF EndTraining,
       MainStates, MainPlaces, ThreadStates, Fresh, Shared, Copied, Made, Alive, StageOf
  <2> HIDE DEF m
  <2> QED
    BY <2>1, <2>2, <2>3, MainMoves
<1>13. ASSUME SetStop(r)
      PROVE  RunsInv'
  <2> DEFINE m == [main[r] EXCEPT !.at = IF thread[r].at = "none" THEN "closing" ELSE "joining"]
  <2>1. main' = [main EXCEPT ![r] = m] /\ UNCHANGED <<thread, directory, writeFaults>>
    BY <1>13 DEF SetStop, RunGoes
  <2>2. /\ m \in MainStates
        /\ m.steps >= main[r].steps /\ m.texts >= main[r].texts /\ m.round = main[r].round
        /\ m.lastRow = main[r].lastRow
        /\ m.lastRow => m.steps = main[r].steps /\ m.texts = main[r].texts
        /\ m.at # "best"
    BY <1>13 DEF SetStop, RunGoes, MainStates, MainPlaces, StageOf
  <2>3. StageOf(r, m, thread[r], directory)
    BY <1>13 DEF SetStop, RunGoes,
       MainStates, MainPlaces, ThreadStates, Fresh, Shared, Copied, Made, Alive, StageOf
  <2> HIDE DEF m
  <2> QED
    BY <2>1, <2>2, <2>3, MainMoves
<1>14. ASSUME CloseFeatureCache(r)
      PROVE  RunsInv'
  <2> DEFINE m == [main[r] EXCEPT !.at = "ended", !.cache = "closed"]
  <2>1. main' = [main EXCEPT ![r] = m] /\ UNCHANGED <<thread, directory, writeFaults>>
    BY <1>14 DEF CloseFeatureCache
  <2>2. /\ m \in MainStates
        /\ m.steps >= main[r].steps /\ m.texts >= main[r].texts /\ m.round = main[r].round
        /\ m.lastRow = main[r].lastRow
        /\ m.lastRow => m.steps = main[r].steps /\ m.texts = main[r].texts
        /\ m.at # "best"
    BY <1>14 DEF CloseFeatureCache, MainStates, MainPlaces, StageOf
  <2>3. StageOf(r, m, thread[r], directory)
    BY <1>14 DEF CloseFeatureCache,
       MainStates, MainPlaces, ThreadStates, Fresh, Shared, Copied, Made, Alive, StageOf
  <2> HIDE DEF m
  <2> QED
    BY <2>1, <2>2, <2>3, MainMoves
<1>15. ASSUME Kill(r)
      PROVE  RunsInv'
  <2> DEFINE m == [main[r] EXCEPT !.at = "killed"]
  <2>1. main' = [main EXCEPT ![r] = m] /\ UNCHANGED <<thread, directory, writeFaults>>
    BY <1>15 DEF Kill
  <2>2. /\ m \in MainStates
        /\ m.steps >= main[r].steps /\ m.texts >= main[r].texts /\ m.round = main[r].round
        /\ m.lastRow = main[r].lastRow
        /\ m.lastRow => m.steps = main[r].steps /\ m.texts = main[r].texts
        /\ m.at # "best"
    BY <1>15 DEF Kill, MainStates, MainPlaces, StageOf
  <2>3. StageOf(r, m, thread[r], directory)
    BY <1>15 DEF Kill,
       MainStates, MainPlaces, ThreadStates, Fresh, Shared, Copied, Made, Alive, StageOf
  <2> HIDE DEF m
  <2> QED
    BY <2>1, <2>2, <2>3, MainMoves
<1> QED
  BY <1>2, <1>3, <1>4, <1>5, <1>6, <1>7, <1>8, <1>9, <1>10, <1>11, <1>12, <1>13, <1>14, <1>15 DEF QuietStep, ReadConfig, Preflight, WarmFeatureCache

(* a step of the directory's owner                                           *)
LEMMA OwnerMoves ==
    ASSUME RunsInv, NEW r \in Runs, NEW m \in MainStates, NEW t \in ThreadStates,
           directory # NoDirectory, directory.owner = r,
           main' = [main EXCEPT ![r] = m], thread' = [thread EXCEPT ![r] = t],
           directory' \in RunDirectories, directory'.owner = r,
           directory.config => directory'.config, directory.shares => directory'.shares,
           writeFaults' \in [Tables -> Nat],
           StageOf(r, m, t, directory'), SamplesOf(r, m, t, directory'.samples),
           TablesOf(r, m, directory', writeFaults'["rounds"]),
           RunAssumption
    PROVE  RunsInv'
<1> USE DEF RunsInv
<1>1. /\ RunsTypeOK' /\ main'[r] = m /\ thread'[r] = t /\ directory' # NoDirectory
      /\ \A q \in Runs \ {r} : main'[q] = main[q] /\ thread'[q] = thread[q]
  BY DEF RunsTypeOK, RunAssumption
<1>2. RunStages'
  BY <1>1, OthersKeepTheirStage DEF RunsTypeOK
<1>3. DirectoryInv'
  BY <1>1 DEF DirectoryInv
<1> QED
  BY <1>1, <1>2, <1>3

LEMMA FaultsCount ==
    ASSUME RunsTypeOK, NEW table \in Tables, WriteFails(table)
    PROVE  /\ writeFaults' \in [Tables -> Nat]
           /\ writeFaults'[table] = writeFaults[table] + 1
           /\ \A other \in Tables \ {table} : writeFaults'[other] = writeFaults[other]
<1>1. writeFaults' = [writeFaults EXCEPT ![table] = @ + 1]
  BY DEF WriteFails
<1> QED
  BY <1>1 DEF RunsTypeOK

LEMMA SampleAppended ==
    ASSUME NEW samples \in Seq(SampleRow), NEW row \in SampleRow,
           NotDecreasing(samples, "steps"), NotDecreasing(samples, "texts"),
           \A i \in DOMAIN samples :
             samples[i].steps <= row.steps /\ samples[i].texts <= row.texts
    PROVE  LET appended == Append(samples, row)
           IN /\ appended \in Seq(SampleRow) /\ appended # <<>> /\ Last(appended) = row
              /\ NotDecreasing(appended, "steps") /\ NotDecreasing(appended, "texts")
              /\ \A i \in DOMAIN appended :
                   (i \in DOMAIN samples /\ appended[i] = samples[i]) \/ appended[i] = row
<1> DEFINE appended == Append(samples, row)
<1>1. /\ appended \in Seq(SampleRow) /\ Len(appended) = Len(samples) + 1
      /\ \A i \in 1..Len(samples) : appended[i] = samples[i]
      /\ appended[Len(samples) + 1] = row
      /\ DOMAIN samples = 1..Len(samples) /\ DOMAIN appended = 1..(Len(samples) + 1)
      /\ Len(samples) \in Nat
  OBVIOUS
<1>2. appended # <<>> /\ Last(appended) = row
  BY <1>1 DEF Last
<1>3. row.steps \in Nat /\ row.texts \in Nat
  BY DEF SampleRow
<1>4. NotDecreasing(appended, "steps")
  BY <1>1, <1>3 DEF NotDecreasing
<1>5. NotDecreasing(appended, "texts")
  BY <1>1, <1>3 DEF NotDecreasing
<1> HIDE DEF appended
<1> QED
  BY <1>1, <1>2, <1>4, <1>5 DEF appended

(* a row that is not behind what is written, written or lost                *)
LEMMA RowIsWritten ==
    ASSUME RunsInv, directory # NoDirectory, NEW row \in SampleRow, WriteRow(row),
           row.by = directory.owner,
           \A i \in DOMAIN directory.samples :
             /\ directory.samples[i].steps <= row.steps
             /\ directory.samples[i].texts <= row.texts
    PROVE  /\ directory' \in RunDirectories /\ writeFaults' \in [Tables -> Nat]
           /\ writeFaults'["rounds"] = writeFaults["rounds"]
           /\ directory'.owner = directory.owner /\ directory'.config = directory.config
           /\ directory'.shares = directory.shares /\ directory'.rounds = directory.rounds
           /\ directory'.checkpoints = directory.checkpoints
           /\ NotDecreasing(directory'.samples, "steps")
           /\ NotDecreasing(directory'.samples, "texts")
           /\ \A i \in DOMAIN directory'.samples :
                \/ /\ i \in DOMAIN directory.samples
                   /\ directory'.samples[i] = directory.samples[i]
                \/ directory'.samples[i] = row
           /\ \/ directory'.samples = directory.samples
              \/ directory'.samples # <<>> /\ Last(directory'.samples) = row
<1>1. /\ directory \in RunDirectories /\ directory.samples \in Seq(SampleRow)
      /\ directory.owner \in Runs
      /\ writeFaults \in [Tables -> Nat] /\ "samples" \in Tables /\ "rounds" \in Tables
  BY TypesOfDirectory DEF RunsInv, RunsTypeOK, Tables
<1>2. NotDecreasing(directory.samples, "steps") /\ NotDecreasing(directory.samples, "texts")
  BY DEF RunsInv, DirectoryInv, SamplesOf
<1>3. CASE Adds("samples", Append(directory.samples, row)) /\ UNCHANGED writeFaults
  <2> DEFINE appended == Append(directory.samples, row)
  <2>1. /\ appended \in Seq(SampleRow) /\ appended # <<>> /\ Last(appended) = row
        /\ NotDecreasing(appended, "steps") /\ NotDecreasing(appended, "texts")
        /\ \A i \in DOMAIN appended :
             \/ i \in DOMAIN directory.samples /\ appended[i] = directory.samples[i]
             \/ appended[i] = row
    BY <1>1, <1>2, SampleAppended
  <2>2. directory' = [directory EXCEPT !["samples"] = appended] /\ UNCHANGED writeFaults
    BY <1>3 DEF Adds
  <2> HIDE DEF appended
  <2> QED
    BY <1>1, <2>1, <2>2 DEF RunDirectories
<1>4. CASE WriteFails("samples") /\ UNCHANGED directory
  BY <1>1, <1>2, <1>4, FaultsCount DEF RunsInv
<1> QED
  BY <1>3, <1>4 DEF WriteRow

LEMMA RowsOf ==
    ASSUME NEW rows \in Seq(TableRow)
    PROVE  /\ Len(rows) \in Nat /\ DOMAIN rows = 1..Len(rows)
           /\ \A i \in DOMAIN rows : rows[i] \in TableRow /\ rows[i].round \in Nat
           /\ rows = <<>> <=> Len(rows) = 0
           /\ rows # <<>> => Len(rows) \in DOMAIN rows
<1>1. /\ Len(rows) \in Nat /\ DOMAIN rows = 1..Len(rows)
      /\ \A i \in DOMAIN rows : rows[i] \in TableRow
      /\ rows = <<>> <=> Len(rows) = 0
  OBVIOUS
<1>2. \A row \in TableRow : row.round \in Nat
  BY DEF TableRow
<1> QED
  BY <1>1, <1>2

\* The line of the last row is replaced where it was cut.
LEMMA CutLineIsEnded ==
    ASSUME NEW rows \in Seq(TableRow), NEW row \in TableRow, CutTail(rows)
    PROVE  LET appended == Appended(rows, row)
           IN /\ appended \in Seq(TableRow) /\ DOMAIN appended = DOMAIN rows
              /\ \A i \in DOMAIN rows :
                   /\ appended[i].by = rows[i].by /\ appended[i].round = rows[i].round
                   /\ i # Len(rows) => appended[i] = rows[i]
              /\ Len(appended) = Len(rows) /\ Len(rows) \in DOMAIN rows
              /\ rows[Len(rows)].line = "cut" /\ appended[Len(rows)].line # "whole"
              /\ appended[Len(rows)].line = "cut" <=> row.line = "cut"
<1> DEFINE line == IF row.line = "cut" THEN "cut" ELSE "merged"
           last == [rows[Len(rows)] EXCEPT !.line = line]
           appended == Appended(rows, row)
<1>1. Len(rows) \in DOMAIN rows /\ rows[Len(rows)].line = "cut" /\ rows # <<>>
  BY RowsOf DEF CutTail, Last
<1>2. appended = [rows EXCEPT ![Len(rows)] = last]
  BY <1>1 DEF Appended, Last
<1>3. /\ rows[Len(rows)] \in TableRow /\ last \in TableRow /\ last.line = line
      /\ last.by = rows[Len(rows)].by /\ last.round = rows[Len(rows)].round
  <2>1. rows[Len(rows)] \in TableRow
    BY <1>1, RowsOf
  <2> QED
    BY <2>1 DEF TableRow
<1> HIDE DEF last, appended
<1>4. /\ appended \in Seq(TableRow) /\ DOMAIN appended = DOMAIN rows
      /\ appended[Len(rows)] = last
      /\ \A i \in DOMAIN rows : i # Len(rows) => appended[i] = rows[i]
  BY <1>1, <1>2, <1>3
<1>5. Len(appended) = Len(rows)
  BY <1>4, RowsOf
<1> QED
  BY <1>1, <1>3, <1>4, <1>5 DEF appended

LEMMA WholeLineIsFollowed ==
    ASSUME NEW rows \in Seq(TableRow), NEW row \in TableRow, ~CutTail(rows)
    PROVE  LET appended == Appended(rows, row)
           IN /\ appended \in Seq(TableRow) /\ DOMAIN appended = 1..(Len(rows) + 1)
              /\ Len(appended) = Len(rows) + 1 /\ appended # <<>>
              /\ \A i \in 1..Len(rows) : appended[i] = rows[i]
              /\ appended[Len(rows) + 1] = row
<1> DEFINE appended == Append(rows, row)
<1>1. Appended(rows, row) = appended
  BY DEF Appended, CutTail
<1>2. /\ appended \in Seq(TableRow) /\ DOMAIN appended = 1..(Len(rows) + 1)
      /\ Len(appended) = Len(rows) + 1
      /\ \A i \in 1..Len(rows) : appended[i] = rows[i]
      /\ appended[Len(rows) + 1] = row
  OBVIOUS
<1> HIDE DEF appended
<1> QED
  BY <1>1, <1>2, RowsOf

LEMMA RowAppended ==
    ASSUME NEW r \in Runs, NEW rows \in Seq(TableRow), NEW row \in TableRow, row.by = r,
           NEW n \in Int, RowsUpTo(r, rows, n), n < row.round
    PROVE  LET appended == Appended(rows, row)
           IN appended \in Seq(TableRow) /\ RowsUpTo(r, appended, row.round)
<1> DEFINE appended == Appended(rows, row)
<1>0. row.round \in Nat
  BY DEF TableRow
<1>1. CASE CutTail(rows)
  <2>1. /\ appended \in Seq(TableRow) /\ DOMAIN appended = DOMAIN rows
        /\ \A i \in DOMAIN rows :
             appended[i].by = rows[i].by /\ appended[i].round = rows[i].round
    BY <1>1, CutLineIsEnded
  <2> HIDE DEF appended
  <2>2. \A i \in DOMAIN appended : appended[i].by = r /\ appended[i].round <= row.round
    BY <1>0, <2>1, RowsOf DEF RowsUpTo
  <2>3. Increasing(appended, "round")
    BY <2>1, RowsOf DEF RowsUpTo, Increasing
  <2> QED
    BY <2>1, <2>2, <2>3 DEF RowsUpTo, appended
<1>2. CASE ~CutTail(rows)
  <2>1. /\ appended \in Seq(TableRow) /\ DOMAIN appended = 1..(Len(rows) + 1)
        /\ \A i \in 1..Len(rows) : appended[i] = rows[i]
        /\ appended[Len(rows) + 1] = row
    BY <1>2, WholeLineIsFollowed
  <2> HIDE DEF appended
  <2>2. \A i \in DOMAIN appended : appended[i].by = r /\ appended[i].round <= row.round
    BY <1>0, <2>1, RowsOf DEF RowsUpTo
  <2>3. Increasing(appended, "round")
    <3>1. \A i, j \in 1..Len(rows) : i < j => appended[i].round < appended[j].round
      BY <2>1, RowsOf DEF RowsUpTo, Increasing
    <3>2. \A i \in 1..Len(rows) : appended[i].round < appended[Len(rows) + 1].round
      BY <1>0, <2>1, RowsOf DEF RowsUpTo
    <3>3. Len(rows) \in Nat
      OBVIOUS
    <3>4. DOMAIN appended = 1..(Len(rows) + 1)
      BY <2>1
    <3>5. ASSUME NEW i \in DOMAIN appended, NEW j \in DOMAIN appended, i < j
          PROVE  appended[i].round < appended[j].round
      <4>1. i \in 1..Len(rows) /\ (j \in 1..Len(rows) \/ j = Len(rows) + 1)
        BY ONLY <3>3, <3>4, <3>5
      <4> QED
        BY ONLY <3>1, <3>2, <3>5, <4>1
    <3> QED
      BY ONLY <3>5 DEF Increasing
  <2> QED
    BY <2>1, <2>2, <2>3 DEF RowsUpTo, appended
<1> QED
  BY <1>1, <1>2

LEMMA MoreRounds ==
    ASSUME NEW r, NEW rows \in Seq(TableRow), NEW n \in Int, NEW k \in Int, n <= k,
           RowsUpTo(r, rows, n)
    PROVE  RowsUpTo(r, rows, k)
  BY RowsOf DEF RowsUpTo

LEMMA ToldIs ==
    ASSUME NEW rows \in Seq(TableRow), NEW n
    PROVE  n \in RoundsTold(rows) <=>
             \E i \in DOMAIN rows : rows[i].line = "whole" /\ rows[i].round = n
  BY DEF RoundsTold, ToSet

LEMMA ToldIsFinite ==
    ASSUME NEW r, NEW rows \in Seq(TableRow), NEW n \in Int, RowsUpTo(r, rows, n)
    PROVE  IsFiniteSet(RoundsTold(rows)) /\ Cardinality(RoundsTold(rows)) \in Nat
<1>1. RoundsTold(rows) \subseteq 0..n
  BY ToldIs, RowsOf DEF RowsUpTo
<1>2. IsFiniteSet(0..n)
  BY FS_Interval
<1>3. IsFiniteSet(RoundsTold(rows))
  BY <1>1, <1>2, FS_Subset
<1> QED
  BY <1>3, FS_CardinalityType

\* A whole row tells one round more, unless it runs into a cut line.
LEMMA RowTellsItsRound ==
    ASSUME NEW r \in Runs, NEW rows \in Seq(TableRow), NEW row \in TableRow,
           NEW n \in Int, RowsUpTo(r, rows, n), n < row.round, row.line \in {"whole", "cut"}
    PROVE  LET appended == Appended(rows, row)
               told == Cardinality(RoundsTold(rows))
           IN /\ CutTail(appended) <=> row.line = "cut"
              /\ Cardinality(RoundsTold(appended)) =
                   IF row.line = "whole" /\ ~CutTail(rows) THEN told + 1 ELSE told
<1> DEFINE appended == Appended(rows, row)
<1>0. row.round \in Nat
  BY DEF TableRow
<1>1. CASE CutTail(rows)
  <2>1. /\ appended \in Seq(TableRow) /\ DOMAIN appended = DOMAIN rows
        /\ \A i \in DOMAIN rows : i # Len(rows) => appended[i] = rows[i]
        /\ Len(appended) = Len(rows) /\ Len(rows) \in DOMAIN rows
        /\ rows[Len(rows)].line = "cut" /\ appended[Len(rows)].line # "whole"
        /\ appended[Len(rows)].line = "cut" <=> row.line = "cut"
    BY <1>1, CutLineIsEnded
  <2> HIDE DEF appended
  <2>2. CutTail(appended) <=> row.line = "cut"
    BY <2>1, RowsOf DEF CutTail, Last
  <2>3. RoundsTold(appended) = RoundsTold(rows)
    <3>1. ASSUME NEW k
          PROVE  k \in RoundsTold(appended) <=> k \in RoundsTold(rows)
      BY <2>1, ToldIs
    <3> QED
      BY <3>1
  <2> QED
    BY <1>1, <2>2, <2>3 DEF appended
<1>2. CASE ~CutTail(rows)
  <2>1. /\ appended \in Seq(TableRow) /\ DOMAIN appended = 1..(Len(rows) + 1)
        /\ Len(appended) = Len(rows) + 1 /\ appended # <<>>
        /\ \A i \in 1..Len(rows) : appended[i] = rows[i]
        /\ appended[Len(rows) + 1] = row
    BY <1>2, WholeLineIsFollowed
  <2> HIDE DEF appended
  <2>2. CutTail(appended) <=> row.line = "cut"
    BY <2>1 DEF CutTail, Last
  <2>3. ASSUME NEW k
        PROVE  k \in RoundsTold(appended) <=>
                 k \in RoundsTold(rows) \/ (row.line = "whole" /\ k = row.round)
    <3>1. /\ Len(rows) \in Nat /\ DOMAIN rows = 1..Len(rows)
          /\ \A i \in 1..Len(rows) : i \in 1..(Len(rows) + 1)
          /\ Len(rows) + 1 \in 1..(Len(rows) + 1)
      BY RowsOf
    <3>2. ASSUME k \in RoundsTold(rows)
          PROVE  k \in RoundsTold(appended)
      <4>1. PICK i \in 1..Len(rows) : rows[i].line = "whole" /\ rows[i].round = k
        BY <3>1, <3>2, ToldIs
      <4>2. /\ i \in DOMAIN appended
            /\ appended[i].line = "whole" /\ appended[i].round = k
        BY <2>1, <3>1, <4>1
      <4> QED
        BY <2>1, <4>2, ToldIs
    <3>3. ASSUME row.line = "whole" /\ k = row.round
          PROVE  k \in RoundsTold(appended)
      <4>1. /\ Len(rows) + 1 \in DOMAIN appended
            /\ appended[Len(rows) + 1].line = "whole" /\ appended[Len(rows) + 1].round = k
        BY <2>1, <3>1, <3>3
      <4> QED
        BY <2>1, <4>1, ToldIs
    <3>4. ASSUME k \in RoundsTold(appended)
          PROVE  k \in RoundsTold(rows) \/ (row.line = "whole" /\ k = row.round)
      <4>1. PICK i \in DOMAIN appended : appended[i].line = "whole" /\ appended[i].round = k
        BY <2>1, <3>4, ToldIs
      <4>2. CASE i = Len(rows) + 1
        BY <2>1, <4>1, <4>2
      <4>3. CASE i \in 1..Len(rows)
        <5>1. /\ i \in DOMAIN rows
              /\ rows[i].line = "whole" /\ rows[i].round = k
          BY <2>1, <3>1, <4>1, <4>3
        <5> QED
          BY <5>1, ToldIs
      <4> QED
        BY <2>1, <3>1, <4>1, <4>2, <4>3
    <3> QED
      BY <3>2, <3>3, <3>4
  <2>4. CASE row.line = "whole"
    <3>1. RoundsTold(appended) = RoundsTold(rows) \cup {row.round}
      BY <2>3, <2>4
    <3>2. row.round \notin RoundsTold(rows)
      BY <1>0, ToldIs, RowsOf DEF RowsUpTo
    <3>3. Cardinality(RoundsTold(rows) \cup {row.round}) = Cardinality(RoundsTold(rows)) + 1
      BY <3>2, ToldIsFinite, FS_AddElement
    <3> QED
      BY <1>2, <2>2, <2>4, <3>1, <3>3 DEF appended
  <2>5. CASE row.line = "cut"
    <3>1. RoundsTold(appended) = RoundsTold(rows)
      BY <2>3, <2>5
    <3> QED
      BY <1>2, <2>2, <2>5, <3>1 DEF appended
  <2> QED
    BY <2>4, <2>5
<1> QED
  BY <1>1, <1>2

(* what an append of a whole row leaves, and the faults it counts           *)
LEMMA FileIsAppendedTo ==
    ASSUME NEW r \in Runs, NEW file \in TableFile, NEW row \in TableRow, row.by = r,
           NEW n \in Int, RowsUpTo(r, file.rows, n), n < row.round,
           NEW next \in {file, Written(file, row)} \cup PartsWritten(file, row)
    PROVE  next \in TableFile /\ RowsUpTo(r, next.rows, row.round)
<1>0. /\ file.rows \in Seq(TableRow) /\ row.round \in Nat
      /\ [row EXCEPT !.line = "cut"] \in TableRow
      /\ [row EXCEPT !.line = "cut"].by = r /\ [row EXCEPT !.line = "cut"].round = row.round
  BY DEF TableFile, TableRow
<1>1. ASSUME NEW one \in {row, [row EXCEPT !.line = "cut"]}
      PROVE  Written(file, one) \in TableFile /\ RowsUpTo(r, Written(file, one).rows, row.round)
  <2>1. one \in TableRow /\ one.by = r /\ one.round = row.round
    BY <1>0
  <2>2. Appended(file.rows, one) \in Seq(TableRow) /\ RowsUpTo(r, Appended(file.rows, one), row.round)
    BY <1>0, <2>1, RowAppended
  <2> QED
    BY <2>2 DEF Written, TableFile
<1>2. RowsUpTo(r, file.rows, row.round)
  BY <1>0, RowsOf DEF RowsUpTo
<1>3. ASSUME NEW header \in {"cut", "whole"}, next = [header |-> header, rows |-> <<>>]
      PROVE  next \in TableFile /\ RowsUpTo(r, next.rows, row.round)
  <2>1. next.rows = <<>> /\ next \in TableFile
    BY <1>3 DEF TableFile
  <2> QED
    BY <2>1 DEF RowsUpTo, Increasing
<1> QED
  BY <1>1, <1>2, <1>3 DEF PartsWritten

\* What TablesOf says of rounds.csv, m.round being n.
ToldUpTo(file, n, failed) ==
    /\ file.header = "none" => file.rows = <<>> /\ n <= failed
    /\ file.header = "whole" =>
         n + (IF CutTail(file.rows) THEN 1 ELSE 0)
           <= 2 * failed + Cardinality(RoundsTold(file.rows))

LEMMA NoRowsTellNothing == Cardinality(RoundsTold(<<>>)) = 0 /\ ~CutTail(<<>>)
<1>1. RoundsTold(<<>>) = {}
  BY DEF RoundsTold, ToSet
<1> QED
  BY <1>1, FS_EmptySet DEF CutTail

LEMMA RoundIsToldOrFails ==
    ASSUME NEW r \in Runs, NEW file \in TableFile, NEW n \in Nat, NEW failed \in Nat,
           RowsUpTo(r, file.rows, n), ToldUpTo(file, n, failed),
           NEW row \in TableRow, row.by = r, row.round = n + 1, row.line = "whole"
    PROVE  /\ file.header # "cut" => ToldUpTo(Written(file, row), n + 1, failed)
           /\ file.header = "cut" => ToldUpTo(file, n + 1, failed)
           /\ file.header # "cut" =>
                \A part \in PartsWritten(file, row) : ToldUpTo(part, n + 1, failed + 1)
<1> DEFINE cut == [row EXCEPT !.line = "cut"]
           told == Cardinality(RoundsTold(file.rows))
<1>a. file.rows \in Seq(TableRow) /\ file.header \in {"none", "cut", "whole"}
  BY DEF TableFile
<1>b. cut \in TableRow /\ cut.round = row.round /\ cut.line = "cut"
  BY DEF TableRow
<1>c. told \in Nat
  BY <1>a, ToldIsFinite
<1>0. /\ file.rows \in Seq(TableRow) /\ file.header \in {"none", "cut", "whole"}
      /\ cut \in TableRow /\ cut.round = row.round /\ cut.line = "cut"
      /\ told \in Nat
  BY <1>a, <1>b, <1>c
<1>1. /\ ~CutTail(Appended(file.rows, row))
      /\ Cardinality(RoundsTold(Appended(file.rows, row))) =
           IF CutTail(file.rows) THEN told ELSE told + 1
  BY <1>0, RowTellsItsRound
<1>2. CutTail(Appended(file.rows, cut)) /\ Cardinality(RoundsTold(Appended(file.rows, cut))) = told
  <2> HIDE DEF cut
  <2> QED
    BY <1>0, RowTellsItsRound
<1>3. file.header = "none" => told = 0 /\ ~CutTail(file.rows) /\ n <= failed
  BY NoRowsTellNothing DEF ToldUpTo
<1>4. file.header = "whole" => n + (IF CutTail(file.rows) THEN 1 ELSE 0) <= 2 * failed + told
  BY DEF ToldUpTo
<1> HIDE DEF told
<1>5. ASSUME file.header # "cut"
      PROVE  ToldUpTo(Written(file, row), n + 1, failed)
  BY <1>0, <1>1, <1>3, <1>4, <1>5 DEF ToldUpTo, Written
<1>6. ASSUME file.header # "cut"
      PROVE  ToldUpTo(Written(file, cut), n + 1, failed + 1)
  <2> HIDE DEF cut
  <2> QED
    BY <1>0, <1>2, <1>3, <1>4, <1>6 DEF ToldUpTo, Written
<1>7. ASSUME file.header # "cut"
      PROVE  ToldUpTo(file, n + 1, failed + 1)
  BY <1>0, <1>3, <1>4, <1>7 DEF ToldUpTo, told
<1>8. ASSUME file.header = "none", NEW header \in {"cut", "whole"}
      PROVE  ToldUpTo([header |-> header, rows |-> <<>>], n + 1, failed + 1)
  BY <1>3, <1>8, NoRowsTellNothing DEF ToldUpTo
<1>9. file.header = "cut" => ToldUpTo(file, n + 1, failed)
  BY DEF ToldUpTo
<1> QED
  BY <1>5, <1>6, <1>7, <1>8, <1>9 DEF PartsWritten

\* The steps that write, of a run that has the directory or makes it.
LEMMA WritingStepsKeepRunsInv ==
    ASSUME RunsInv, NEW r \in Runs, RunAssumption,
           \/ CreateRunDirectory(r) \/ CopyConfig(r) \/ WriteDietShares(r) \/ StartSampler(r)
           \/ SampleSteps(r) \/ SampleCache(r) \/ WriteSample(r) \/ EndThread(r)
           \/ StopSampler(r) \/ EndRound(r) \/ RecordCheckpoint(r)
    PROVE  RunsInv'
<1>1. /\ main \in [Runs -> MainStates] /\ main[r] \in MainStates
      /\ thread \in [Runs -> ThreadStates] /\ thread[r] \in ThreadStates
      /\ StageOf(r, main[r], thread[r], directory)
      /\ writeFaults \in [Tables -> Nat] /\ "rounds" \in Tables
  BY TypesOfRuns DEF RunsInv, RunsTypeOK, RunStages, Tables
<1>2. main = [main EXCEPT ![r] = main[r]] /\ thread = [thread EXCEPT ![r] = thread[r]]
  BY <1>1
<1>3. ASSUME directory # NoDirectory, directory.owner = r
      PROVE  /\ SamplesOf(r, main[r], thread[r], directory.samples)
             /\ TablesOf(r, main[r], directory, writeFaults["rounds"])
             /\ directory \in RunDirectories /\ directory.samples \in Seq(SampleRow)
             /\ directory.rounds \in TableFile /\ directory.checkpoints \in TableFile
             /\ directory.checkpoints.rows \in Seq(TableRow)
             /\ \A i \in DOMAIN directory.samples :
                  directory.samples[i].steps \in Nat /\ directory.samples[i].texts \in Nat
  BY <1>3, TypesOfDirectory DEF RunsInv, DirectoryInv
<1> DEFINE Holding == {"made", "copied", "shared", "warmed", "training", "step", "best",
                      "trained", "joining"}
<1>4. main[r].at \in Holding \/ thread[r].at # "none" =>
        directory # NoDirectory /\ directory.owner = r
  BY <1>1 DEF StageOf, Made, Copied, Shared
<1> HIDE DEF Holding
<1>5. ASSUME CreateRunDirectory(r), directory = NoDirectory
      PROVE  RunsInv'
  <2> DEFINE m == [main[r] EXCEPT !.at = "made"]
  <2>1. /\ main' = [main EXCEPT ![r] = m] /\ directory' = NewDirectory(r)
        /\ UNCHANGED <<thread, writeFaults>> /\ main[r].at = "built"
    BY <1>5 DEF CreateRunDirectory, RunGoes
  <2>2. m \in MainStates /\ m.round = 0 /\ m.steps = 0 /\ m.at = "made" /\ ~m.lastRow
        /\ thread[r].at = "none" /\ m.cache = "open" /\ m.texts = 0
    BY <1>1, <2>1 DEF MainStates, MainPlaces, StageOf, Fresh, Made
  <2>3. /\ NewDirectory(r) \in RunDirectories /\ NewDirectory(r).owner = r
        /\ NewDirectory(r).samples = <<>> /\ NewDirectory(r).rounds = NoRows
        /\ NewDirectory(r).checkpoints = NoRows
    BY DEF NewDirectory, RunDirectories, NoRows, TableFile
  <2>4. NewDirectory(r) # NoDirectory
    BY <2>3 DEF RunAssumption
  <2> HIDE DEF m
  <2>5. StageOf(r, m, thread[r], NewDirectory(r))
    BY <2>2, <2>3, <2>4 DEF StageOf, Fresh, Made, Copied, Shared, Alive
  <2>6. SamplesOf(r, m, thread[r], <<>>)
    BY <2>2 DEF SamplesOf, NotDecreasing
  <2>7. TablesOf(r, m, NewDirectory(r), writeFaults["rounds"])
    BY <1>1, <2>2, <2>3 DEF TablesOf, RowsUpTo, Increasing, NoRows
  <2>8. RunsTypeOK' /\ main'[r] = m /\ \A q \in Runs \ {r} : main'[q] = main[q]
    BY <1>1, <2>1, <2>2, <2>3 DEF RunsTypeOK
  <2>9. RunStages'
    BY <1>5, <2>1, <2>5, <2>8, OthersKeepTheirStage DEF RunsTypeOK
  <2> QED
    BY <2>1, <2>3, <2>6, <2>7, <2>8, <2>9 DEF RunsInv, DirectoryInv
<1>6. ASSUME CopyConfig(r), ~Fails(r, "made")
      PROVE  RunsInv'
  <2> DEFINE m == [main[r] EXCEPT !.at = "copied"]
             d == [directory EXCEPT !["config"] = TRUE]
  <2>1. /\ main' = [main EXCEPT ![r] = m] /\ directory' = d /\ main[r].at = "made"
        /\ UNCHANGED <<thread, writeFaults>>
    BY <1>6 DEF CopyConfig, RunGoes, Adds
  <2>2. directory # NoDirectory /\ directory.owner = r
    BY <1>4, <2>1 DEF Holding
  <2>3. /\ d \in RunDirectories /\ d.owner = r /\ d.samples = directory.samples
        /\ d.rounds = directory.rounds /\ d.checkpoints = directory.checkpoints
        /\ d.config = TRUE
        /\ d.shares = directory.shares
    BY <1>3, <2>2 DEF RunDirectories
  <2>4. d # NoDirectory
    BY <2>3 DEF RunAssumption
  <2>5. m \in MainStates /\ m = [main[r] EXCEPT !.at = "copied"]
    BY <1>1 DEF MainStates, MainPlaces
  <2> HIDE DEF d
  <2>6. StageOf(r, m, thread[r], d)
    BY <1>1, <2>1, <2>2, <2>3, <2>4
    DEF StageOf, MainStates, Fresh, Made, Copied, Shared, Alive
  <2>7. SamplesOf(r, m, thread[r], d.samples)
    BY <1>1, <1>3, <2>2, <2>3 DEF SamplesOf, MainStates
  <2>8. TablesOf(r, m, d, writeFaults["rounds"])
    BY <1>1, <1>3, <2>1, <2>2, <2>3 DEF TablesOf, MainStates
  <2> HIDE DEF m
  <2>9. /\ directory' \in RunDirectories /\ directory'.owner = r
        /\ directory.config => directory'.config
        /\ directory.shares => directory'.shares
        /\ thread' = [thread EXCEPT ![r] = thread[r]] /\ writeFaults' \in [Tables -> Nat]
        /\ StageOf(r, m, thread[r], directory')
        /\ SamplesOf(r, m, thread[r], directory'.samples)
        /\ TablesOf(r, m, directory', writeFaults'["rounds"])
    BY <1>1, <1>2, <2>1, <2>3, <2>6, <2>7, <2>8
  <2> QED
    BY <1>1, <2>1, <2>2, <2>5, <2>9, OwnerMoves
<1>7. ASSUME WriteDietShares(r), ~Fails(r, "copied")
      PROVE  RunsInv'
  <2> DEFINE m == [main[r] EXCEPT !.at = "shared"]
             d == [directory EXCEPT !["shares"] = TRUE]
  <2>1. /\ main' = [main EXCEPT ![r] = m] /\ directory' = d /\ main[r].at = "copied"
        /\ UNCHANGED <<thread, writeFaults>>
    BY <1>7 DEF WriteDietShares, RunGoes, Adds
  <2>2. directory # NoDirectory /\ directory.owner = r
    BY <1>4, <2>1 DEF Holding
  <2>3. /\ d \in RunDirectories /\ d.owner = r /\ d.samples = directory.samples
        /\ d.rounds = directory.rounds /\ d.checkpoints = directory.checkpoints
        /\ d.config = directory.config
        /\ d.shares = TRUE
    BY <1>3, <2>2 DEF RunDirectories
  <2>4. d # NoDirectory
    BY <2>3 DEF RunAssumption
  <2>5. m \in MainStates /\ m = [main[r] EXCEPT !.at = "shared"]
    BY <1>1 DEF MainStates, MainPlaces
  <2> HIDE DEF d
  <2>6. StageOf(r, m, thread[r], d)
    BY <1>1, <2>1, <2>2, <2>3, <2>4
    DEF StageOf, MainStates, Fresh, Made, Copied, Shared, Alive
  <2>7. SamplesOf(r, m, thread[r], d.samples)
    BY <1>1, <1>3, <2>2, <2>3 DEF SamplesOf, MainStates
  <2>8. TablesOf(r, m, d, writeFaults["rounds"])
    BY <1>1, <1>3, <2>1, <2>2, <2>3 DEF TablesOf, MainStates
  <2> HIDE DEF m
  <2>9. /\ directory' \in RunDirectories /\ directory'.owner = r
        /\ directory.config => directory'.config
        /\ directory.shares => directory'.shares
        /\ thread' = [thread EXCEPT ![r] = thread[r]] /\ writeFaults' \in [Tables -> Nat]
        /\ StageOf(r, m, thread[r], directory')
        /\ SamplesOf(r, m, thread[r], directory'.samples)
        /\ TablesOf(r, m, directory', writeFaults'["rounds"])
    BY <1>1, <1>2, <2>1, <2>3, <2>6, <2>7, <2>8
  <2> QED
    BY <1>1, <2>1, <2>2, <2>5, <2>9, OwnerMoves
<1>8. ASSUME SampleSteps(r)
      PROVE  RunsInv'
  <2> DEFINE t == [thread[r] EXCEPT !.at = "reading", !.steps = main[r].steps]
  <2>1. /\ thread' = [thread EXCEPT ![r] = t] /\ thread[r].at = "waiting"
        /\ UNCHANGED <<main, directory, writeFaults>> /\ main[r].at # "killed"
    BY <1>8 DEF SampleSteps
  <2>2. directory # NoDirectory /\ directory.owner = r
    BY <1>4, <2>1
  <2>3. t \in ThreadStates
    BY <1>1 DEF ThreadStates, MainStates
  <2>4. StageOf(r, main[r], t, directory)
    BY <1>1, <1>8, <2>1, <2>2
    DEF SampleSteps, StageOf, Fresh, Made, Copied, Shared, Alive, MainStates, ThreadStates, StopIsSet
  <2>5. SamplesOf(r, main[r], t, directory.samples)
    BY <1>1, <1>3, <2>1, <2>2, <1>8
    DEF SampleSteps, SamplesOf, StageOf, MainStates, ThreadStates, RowOf
  <2> HIDE DEF t
  <2>6. /\ directory' \in RunDirectories /\ directory'.owner = r
        /\ directory.config => directory'.config
        /\ directory.shares => directory'.shares
        /\ main' = [main EXCEPT ![r] = main[r]] /\ writeFaults' \in [Tables -> Nat]
        /\ StageOf(r, main[r], t, directory')
        /\ SamplesOf(r, main[r], t, directory'.samples)
        /\ TablesOf(r, main[r], directory', writeFaults'["rounds"])
    BY <1>1, <1>2, <1>3, <2>1, <2>2, <2>4, <2>5
  <2> QED
    BY <1>1, <2>1, <2>2, <2>3, <2>6, OwnerMoves
<1>9. ASSUME SampleCache(r)
      PROVE  RunsInv'
  <2> DEFINE t == [thread[r] EXCEPT !.at = "writing", !.texts = main[r].texts]
  <2>1. /\ thread' = [thread EXCEPT ![r] = t] /\ thread[r].at = "reading"
        /\ UNCHANGED <<main, directory, writeFaults>> /\ main[r].at # "killed"
    BY <1>9 DEF SampleCache
  <2>2. directory # NoDirectory /\ directory.owner = r
    BY <1>4, <2>1
  <2>3. t \in ThreadStates
    BY <1>1 DEF ThreadStates, MainStates
  <2>4. StageOf(r, main[r], t, directory)
    BY <1>1, <1>9, <2>1, <2>2
    DEF SampleCache, StageOf, Fresh, Made, Copied, Shared, Alive, MainStates, ThreadStates, StopIsSet
  <2>5. SamplesOf(r, main[r], t, directory.samples)
    BY <1>1, <1>3, <2>1, <2>2, <1>9
    DEF SampleCache, SamplesOf, StageOf, MainStates, ThreadStates, RowOf
  <2> HIDE DEF t
  <2>6. /\ directory' \in RunDirectories /\ directory'.owner = r
        /\ directory.config => directory'.config
        /\ directory.shares => directory'.shares
        /\ main' = [main EXCEPT ![r] = main[r]] /\ writeFaults' \in [Tables -> Nat]
        /\ StageOf(r, main[r], t, directory')
        /\ SamplesOf(r, main[r], t, directory'.samples)
        /\ TablesOf(r, main[r], directory', writeFaults'["rounds"])
    BY <1>1, <1>2, <1>3, <2>1, <2>2, <2>4, <2>5
  <2> QED
    BY <1>1, <2>1, <2>2, <2>3, <2>6, OwnerMoves
<1>10. ASSUME EndThread(r)
      PROVE  RunsInv'
  <2> DEFINE t == [thread[r] EXCEPT !.at = "done"]
  <2>1. /\ thread' = [thread EXCEPT ![r] = t] /\ thread[r].at = "waiting"
        /\ UNCHANGED <<main, directory, writeFaults>> /\ main[r].at # "killed"
    BY <1>10 DEF EndThread, ThreadGoes
  <2>2. directory # NoDirectory /\ directory.owner = r
    BY <1>4, <2>1
  <2>3. t \in ThreadStates
    BY <1>1 DEF ThreadStates, MainStates
  <2>4. StageOf(r, main[r], t, directory)
    BY <1>1, <1>10, <2>1, <2>2
    DEF EndThread, ThreadGoes, StageOf, Fresh, Made, Copied, Shared, Alive, MainStates, ThreadStates, StopIsSet
  <2>5. SamplesOf(r, main[r], t, directory.samples)
    BY <1>1, <1>3, <2>1, <2>2, <1>10
    DEF EndThread, ThreadGoes, SamplesOf, StageOf, MainStates, ThreadStates, RowOf
  <2> HIDE DEF t
  <2>6. /\ directory' \in RunDirectories /\ directory'.owner = r
        /\ directory.config => directory'.config
        /\ directory.shares => directory'.shares
        /\ main' = [main EXCEPT ![r] = main[r]] /\ writeFaults' \in [Tables -> Nat]
        /\ StageOf(r, main[r], t, directory')
        /\ SamplesOf(r, main[r], t, directory'.samples)
        /\ TablesOf(r, main[r], directory', writeFaults'["rounds"])
    BY <1>1, <1>2, <1>3, <2>1, <2>2, <2>4, <2>5
  <2> QED
    BY <1>1, <2>1, <2>2, <2>3, <2>6, OwnerMoves
<1>11. ASSUME StartSampler(r), UNCHANGED <<thread, directory, writeFaults>>
      PROVE  RunsInv'
  <2> DEFINE m == [main[r] EXCEPT !.at = "training"]
  <2>1. main' = [main EXCEPT ![r] = m] /\ main[r].at = "warmed"
    BY <1>11 DEF StartSampler, RunGoes
  <2>2. /\ m \in MainStates
        /\ m.steps >= main[r].steps /\ m.texts >= main[r].texts /\ m.round = main[r].round
        /\ m.lastRow = main[r].lastRow
        /\ m.lastRow => m.steps = main[r].steps /\ m.texts = main[r].texts
        /\ m.at # "best"
    BY <1>1 DEF MainStates, MainPlaces
  <2>3. StageOf(r, m, thread[r], directory)
    BY <1>1, <2>1 DEF StageOf, Fresh, Made, Copied, Shared, Alive, MainStates
  <2> HIDE DEF m
  <2> QED
    BY <1>11, <2>1, <2>2, <2>3, MainMoves
<1>12. ASSUME StartSampler(r), ~UNCHANGED <<thread, directory, writeFaults>>
      PROVE  RunsInv'
  <2> DEFINE m == [main[r] EXCEPT !.at = "training"]
             t == [thread[r] EXCEPT !.at = "waiting"]
             row == RowOf(r, main[r].steps, main[r].texts)
  <2>1. /\ main' = [main EXCEPT ![r] = m] /\ thread' = [thread EXCEPT ![r] = t]
        /\ WriteRow(row) /\ main[r].at = "warmed"
    BY <1>1, <1>2, <1>12 DEF StartSampler, RunGoes
  <2>2. directory # NoDirectory /\ directory.owner = r
    BY <1>4, <2>1 DEF Holding
  <2>3. row \in SampleRow /\ row.by = r /\ row.steps <= main[r].steps /\ row.texts <= main[r].texts
    BY <1>1, <1>3, <2>1, <2>2 DEF RowOf, SampleRow, MainStates, ThreadStates, SamplesOf
  <2>4. \A i \in DOMAIN directory.samples :
          directory.samples[i].steps <= row.steps /\ directory.samples[i].texts <= row.texts
    BY <1>3, <2>1, <2>2 DEF RowOf, SamplesOf
  <2>5. m \in MainStates /\ t \in ThreadStates
    BY <1>1 DEF MainStates, MainPlaces, ThreadStates
  <2>6. /\ m.steps = main[r].steps /\ m.texts = main[r].texts /\ m.round = main[r].round
        /\ m.at # "best" \/ m.at = main[r].at
    BY <1>1 DEF MainStates
  <2> HIDE DEF row
  <2>7. /\ directory' \in RunDirectories /\ writeFaults' \in [Tables -> Nat]
        /\ writeFaults'["rounds"] = writeFaults["rounds"]
        /\ directory'.owner = r /\ directory'.config = directory.config
        /\ directory'.shares = directory.shares /\ directory'.rounds = directory.rounds
        /\ directory'.checkpoints = directory.checkpoints
        /\ NotDecreasing(directory'.samples, "steps")
        /\ NotDecreasing(directory'.samples, "texts")
        /\ \A i \in DOMAIN directory'.samples :
             \/ /\ i \in DOMAIN directory.samples
                /\ directory'.samples[i] = directory.samples[i]
             \/ directory'.samples[i] = row
        /\ \/ directory'.samples = directory.samples
           \/ directory'.samples # <<>> /\ Last(directory'.samples) = row
    BY <2>1, <2>2, <2>3, <2>4, RowIsWritten
  <2>8. directory' # NoDirectory
    BY <2>7 DEF RunAssumption
  <2>9. StageOf(r, m, t, directory')
    BY <1>1, <2>1, <2>2, <2>7, <2>8
    DEF StageOf, Fresh, Made, Copied, Shared, Alive, MainStates, ThreadStates
  <2>10. SamplesOf(r, m, t, directory'.samples)
    <3>1. \A i \in DOMAIN directory'.samples :
            /\ directory'.samples[i].by = r
            /\ directory'.samples[i].steps <= main[r].steps
            /\ directory'.samples[i].texts <= main[r].texts
      BY <1>3, <2>2, <2>3, <2>7 DEF SamplesOf
    <3>2. t.at \notin {"reading", "writing"}
      BY <1>1 DEF ThreadStates
    <3>3. m.lastRow => directory'.samples # <<>> /\ Last(directory'.samples) = RowOf(r, m.steps, m.texts)
      BY <1>1, <2>1, <2>6, <2>7 DEF row, StageOf, Fresh, MainStates
    <3> QED
      BY <2>6, <2>7, <3>1, <3>2, <3>3 DEF SamplesOf
  <2>11. TablesOf(r, m, directory', writeFaults'["rounds"])
    <3> HIDE DEF m
    <3>1. RowsUpTo(r, directory.checkpoints.rows, IF m.at = "best" THEN m.round - 1 ELSE m.round)
      <4> DEFINE rows == directory.checkpoints.rows
                 n == IF main[r].at = "best" THEN main[r].round - 1 ELSE main[r].round
                 k == IF m.at = "best" THEN m.round - 1 ELSE m.round
      <4>1. rows \in Seq(TableRow) /\ RowsUpTo(r, rows, n)
        BY <1>1, <1>3, <2>2 DEF TablesOf
      <4>2. main[r].round \in Int
        BY <1>1 DEF MainStates
      <4>3. n \in Int /\ k \in Int /\ n <= k
        BY ONLY <2>6, <4>2
      <4> HIDE DEF rows, n, k
      <4>4. RowsUpTo(r, rows, k)
        BY ONLY <4>1, <4>3, MoreRounds
      <4> QED
        BY <4>4 DEF rows, k
    <3> QED
      BY <1>3, <2>2, <2>6, <2>7, <3>1 DEF TablesOf
  <2> HIDE DEF m, t
  <2> QED
    BY <1>1, <2>1, <2>2, <2>5, <2>7, <2>9, <2>10, <2>11, OwnerMoves
<1>13. ASSUME WriteSample(r)
      PROVE  RunsInv'
  <2> DEFINE m == main[r]
             t == [thread[r] EXCEPT !.at = "waiting"]
             row == RowOf(r, thread[r].steps, thread[r].texts)
  <2>1. /\ main' = [main EXCEPT ![r] = m] /\ thread' = [thread EXCEPT ![r] = t]
        /\ WriteRow(row) /\ thread[r].at = "writing"
    BY <1>1, <1>2, <1>13 DEF WriteSample, ThreadGoes
  <2>2. directory # NoDirectory /\ directory.owner = r
    BY <1>4, <2>1 DEF Holding
  <2>3. row \in SampleRow /\ row.by = r /\ row.steps <= main[r].steps /\ row.texts <= main[r].texts
    BY <1>1, <1>3, <2>1, <2>2 DEF RowOf, SampleRow, MainStates, ThreadStates, SamplesOf
  <2>4. \A i \in DOMAIN directory.samples :
          directory.samples[i].steps <= row.steps /\ directory.samples[i].texts <= row.texts
    BY <1>3, <2>1, <2>2 DEF RowOf, SamplesOf
  <2>5. m \in MainStates /\ t \in ThreadStates
    BY <1>1 DEF MainStates, MainPlaces, ThreadStates
  <2>6. /\ m.steps = main[r].steps /\ m.texts = main[r].texts /\ m.round = main[r].round
        /\ m.at # "best" \/ m.at = main[r].at
    BY <1>1 DEF MainStates
  <2> HIDE DEF row
  <2>7. /\ directory' \in RunDirectories /\ writeFaults' \in [Tables -> Nat]
        /\ writeFaults'["rounds"] = writeFaults["rounds"]
        /\ directory'.owner = r /\ directory'.config = directory.config
        /\ directory'.shares = directory.shares /\ directory'.rounds = directory.rounds
        /\ directory'.checkpoints = directory.checkpoints
        /\ NotDecreasing(directory'.samples, "steps")
        /\ NotDecreasing(directory'.samples, "texts")
        /\ \A i \in DOMAIN directory'.samples :
             \/ /\ i \in DOMAIN directory.samples
                /\ directory'.samples[i] = directory.samples[i]
             \/ directory'.samples[i] = row
        /\ \/ directory'.samples = directory.samples
           \/ directory'.samples # <<>> /\ Last(directory'.samples) = row
    BY <2>1, <2>2, <2>3, <2>4, RowIsWritten
  <2>8. directory' # NoDirectory
    BY <2>7 DEF RunAssumption
  <2>9. StageOf(r, m, t, directory')
    BY <1>1, <2>1, <2>2, <2>7, <2>8
    DEF StageOf, Fresh, Made, Copied, Shared, Alive, MainStates, ThreadStates
  <2>10. SamplesOf(r, m, t, directory'.samples)
    <3>1. \A i \in DOMAIN directory'.samples :
            /\ directory'.samples[i].by = r
            /\ directory'.samples[i].steps <= main[r].steps
            /\ directory'.samples[i].texts <= main[r].texts
      BY <1>3, <2>2, <2>3, <2>7 DEF SamplesOf
    <3>2. t.at \notin {"reading", "writing"}
      BY <1>1 DEF ThreadStates
    <3>3. m.lastRow => directory'.samples # <<>> /\ Last(directory'.samples) = RowOf(r, m.steps, m.texts)
      BY <1>1, <2>1, <2>6, <2>7 DEF row, StageOf, Fresh, MainStates
    <3> QED
      BY <2>6, <2>7, <3>1, <3>2, <3>3 DEF SamplesOf
  <2>11. TablesOf(r, m, directory', writeFaults'["rounds"])
    <3> HIDE DEF m
    <3>1. RowsUpTo(r, directory.checkpoints.rows, IF m.at = "best" THEN m.round - 1 ELSE m.round)
      <4> DEFINE rows == directory.checkpoints.rows
                 n == IF main[r].at = "best" THEN main[r].round - 1 ELSE main[r].round
                 k == IF m.at = "best" THEN m.round - 1 ELSE m.round
      <4>1. rows \in Seq(TableRow) /\ RowsUpTo(r, rows, n)
        BY <1>1, <1>3, <2>2 DEF TablesOf
      <4>2. main[r].round \in Int
        BY <1>1 DEF MainStates
      <4>3. n \in Int /\ k \in Int /\ n <= k
        BY ONLY <2>6, <4>2
      <4> HIDE DEF rows, n, k
      <4>4. RowsUpTo(r, rows, k)
        BY ONLY <4>1, <4>3, MoreRounds
      <4> QED
        BY <4>4 DEF rows, k
    <3> QED
      BY <1>3, <2>2, <2>6, <2>7, <3>1 DEF TablesOf
  <2> HIDE DEF m, t
  <2> QED
    BY <1>1, <2>1, <2>2, <2>5, <2>7, <2>9, <2>10, <2>11, OwnerMoves
<1>14. ASSUME StopSampler(r)
      PROVE  RunsInv'
  <2> DEFINE m == [main[r] EXCEPT !.at = "closing", !.lastRow = directory'.samples # directory.samples]
             t == thread[r]
             row == RowOf(r, main[r].steps, main[r].texts)
  <2>1. /\ main' = [main EXCEPT ![r] = m] /\ thread' = [thread EXCEPT ![r] = t]
        /\ WriteRow(row) /\ main[r].at = "joining" /\ thread[r].at = "done"
    BY <1>1, <1>2, <1>14 DEF StopSampler, HasJoined
  <2>2. directory # NoDirectory /\ directory.owner = r
    BY <1>4, <2>1 DEF Holding
  <2>3. row \in SampleRow /\ row.by = r /\ row.steps <= main[r].steps /\ row.texts <= main[r].texts
    BY <1>1, <1>3, <2>1, <2>2 DEF RowOf, SampleRow, MainStates, ThreadStates, SamplesOf
  <2>4. \A i \in DOMAIN directory.samples :
          directory.samples[i].steps <= row.steps /\ directory.samples[i].texts <= row.texts
    BY <1>3, <2>1, <2>2 DEF RowOf, SamplesOf
  <2>5. m \in MainStates /\ t \in ThreadStates
    BY <1>1 DEF MainStates, MainPlaces, ThreadStates
  <2>6. /\ m.steps = main[r].steps /\ m.texts = main[r].texts /\ m.round = main[r].round
        /\ m.at # "best" \/ m.at = main[r].at
    BY <1>1 DEF MainStates
  <2> HIDE DEF row
  <2>7. /\ directory' \in RunDirectories /\ writeFaults' \in [Tables -> Nat]
        /\ writeFaults'["rounds"] = writeFaults["rounds"]
        /\ directory'.owner = r /\ directory'.config = directory.config
        /\ directory'.shares = directory.shares /\ directory'.rounds = directory.rounds
        /\ directory'.checkpoints = directory.checkpoints
        /\ NotDecreasing(directory'.samples, "steps")
        /\ NotDecreasing(directory'.samples, "texts")
        /\ \A i \in DOMAIN directory'.samples :
             \/ /\ i \in DOMAIN directory.samples
                /\ directory'.samples[i] = directory.samples[i]
             \/ directory'.samples[i] = row
        /\ \/ directory'.samples = directory.samples
           \/ directory'.samples # <<>> /\ Last(directory'.samples) = row
    BY <2>1, <2>2, <2>3, <2>4, RowIsWritten
  <2>8. directory' # NoDirectory
    BY <2>7 DEF RunAssumption
  <2>9. StageOf(r, m, t, directory')
    BY <1>1, <2>1, <2>2, <2>7, <2>8
    DEF StageOf, Fresh, Made, Copied, Shared, Alive, MainStates, ThreadStates
  <2>10. SamplesOf(r, m, t, directory'.samples)
    <3>1. \A i \in DOMAIN directory'.samples :
            /\ directory'.samples[i].by = r
            /\ directory'.samples[i].steps <= main[r].steps
            /\ directory'.samples[i].texts <= main[r].texts
      BY <1>3, <2>2, <2>3, <2>7 DEF SamplesOf
    <3>2. t.at \notin {"reading", "writing"}
      BY <1>1, <2>1 DEF ThreadStates
    <3>3. m.lastRow => directory'.samples # <<>> /\ Last(directory'.samples) = RowOf(r, m.steps, m.texts)
      BY <1>1, <2>1, <2>6, <2>7 DEF row, StageOf, Fresh, MainStates
    <3> QED
      BY <2>6, <2>7, <3>1, <3>2, <3>3 DEF SamplesOf
  <2>11. TablesOf(r, m, directory', writeFaults'["rounds"])
    <3> HIDE DEF m
    <3>1. RowsUpTo(r, directory.checkpoints.rows, IF m.at = "best" THEN m.round - 1 ELSE m.round)
      <4> DEFINE rows == directory.checkpoints.rows
                 n == IF main[r].at = "best" THEN main[r].round - 1 ELSE main[r].round
                 k == IF m.at = "best" THEN m.round - 1 ELSE m.round
      <4>1. rows \in Seq(TableRow) /\ RowsUpTo(r, rows, n)
        BY <1>1, <1>3, <2>2 DEF TablesOf
      <4>2. main[r].round \in Int
        BY <1>1 DEF MainStates
      <4>3. n \in Int /\ k \in Int /\ n <= k
        BY ONLY <2>6, <4>2
      <4> HIDE DEF rows, n, k
      <4>4. RowsUpTo(r, rows, k)
        BY ONLY <4>1, <4>3, MoreRounds
      <4> QED
        BY <4>4 DEF rows, k
    <3> QED
      BY <1>3, <2>2, <2>6, <2>7, <3>1 DEF TablesOf
  <2> HIDE DEF m, t
  <2> QED
    BY <1>1, <2>1, <2>2, <2>5, <2>7, <2>9, <2>10, <2>11, OwnerMoves
<1>15. ASSUME EndRound(r)
      PROVE  RunsInv'
  <2> DEFINE row == RoundRow(r, main[r].round + 1)
  <2>1. /\ UNCHANGED thread /\ AppendRow("rounds", row)
        /\ main[r].at = "training"
        /\ \E to \in {"training", "best"} :
             main' = [main EXCEPT ![r] = [main[r] EXCEPT !.at = to, !.round = @ + 1]]
    BY <1>15 DEF EndRound
  <2>2. PICK to \in {"training", "best"} : main' = [main EXCEPT ![r] = [main[r] EXCEPT !.at = to, !.round = @ + 1]]
    BY <2>1
  <2>3. directory # NoDirectory /\ directory.owner = r
    BY <1>4, <2>1 DEF Holding
  <2>4. /\ directory \in RunDirectories /\ directory.rounds \in TableFile
        /\ RowsUpTo(r, directory.rounds.rows, main[r].round) /\ main[r].round \in Int
    BY <1>1, <1>3, <2>1, <2>3 DEF TablesOf, MainStates
  <2>5. /\ row \in TableRow /\ row.by = r /\ row.line = "whole"
        /\ row.round = main[r].round + 1 /\ main[r].round < row.round
    BY <1>1 DEF RoundRow, TableRow, MainStates
  <2> HIDE DEF row
  <2>6. PICK file \in {directory.rounds, Written(directory.rounds, row)}
                      \cup PartsWritten(directory.rounds, row) :
          /\ directory' = [directory EXCEPT !["rounds"] = file]
          /\ writeFaults' \in [Tables -> Nat]
          /\ \/ /\ directory.rounds.header # "cut" /\ UNCHANGED writeFaults
                /\ file = Written(directory.rounds, row)
             \/ /\ directory.rounds.header = "cut" /\ UNCHANGED writeFaults
                /\ file = directory.rounds
             \/ /\ directory.rounds.header # "cut"
                /\ file \in PartsWritten(directory.rounds, row)
                /\ writeFaults'["rounds"] = writeFaults["rounds"] + 1
                /\ \A other \in Tables \ {"rounds"} : writeFaults'[other] = writeFaults[other]
    <3>1. CASE Adds("rounds", Written(directory["rounds"], row)) /\ UNCHANGED writeFaults
               /\ directory["rounds"].header # "cut"
      BY <1>1, <3>1 DEF Adds
    <3>2. CASE UNCHANGED <<directory, writeFaults>> /\ directory["rounds"].header = "cut"
      <4>1. directory = [directory EXCEPT !["rounds"] = directory.rounds]
        BY <2>4 DEF RunDirectories
      <4> QED
        BY <1>1, <3>2, <4>1
    <3>3. CASE /\ directory["rounds"].header # "cut" /\ WriteFails("rounds")
               /\ \E part \in PartsWritten(directory["rounds"], row) : Adds("rounds", part)
      <4>1. /\ writeFaults' \in [Tables -> Nat] /\ "rounds" \in Tables
            /\ writeFaults'["rounds"] = writeFaults["rounds"] + 1
            /\ \A other \in Tables \ {"rounds"} : writeFaults'[other] = writeFaults[other]
        BY <3>3, FaultsCount DEF RunsInv, Tables
      <4> QED
        BY <3>3, <4>1 DEF Adds
    <3> QED
      BY <2>1, <3>1, <3>2, <3>3 DEF AppendRow
  <2>7. file \in TableFile /\ RowsUpTo(r, file.rows, row.round)
    BY <2>4, <2>5, FileIsAppendedTo
  <2>8. /\ directory' \in RunDirectories /\ directory'.owner = r
        /\ directory'.config = directory.config /\ directory'.shares = directory.shares
        /\ directory'.samples = directory.samples
        /\ directory'.rounds = file /\ directory'.checkpoints = directory.checkpoints
    BY <2>3, <2>4, <2>6, <2>7 DEF RunDirectories
  <2>9. directory' # NoDirectory
    BY <2>8 DEF RunAssumption
  <2> DEFINE m == [main[r] EXCEPT !.at = to, !.round = @ + 1]
  <2>10. /\ m \in MainStates /\ m.steps = main[r].steps /\ m.texts = main[r].texts
         /\ m.at \in {"training", "best"} /\ m.lastRow = main[r].lastRow
    <3>1. main[r].round + 1 \in Nat
      BY <1>1 DEF MainStates
    <3>2. m \in MainStates
      BY <1>1, <3>1 DEF MainStates, MainPlaces
    <3> QED
      BY <1>1, <3>2 DEF MainStates
  <2>11. StageOf(r, m, thread[r], directory')
    BY <1>1, <2>1, <2>3, <2>8, <2>9, <2>10
    DEF StageOf, Fresh, Made, Copied, Shared, Alive, MainStates, ThreadStates
  <2>12. SamplesOf(r, m, thread[r], directory'.samples)
    BY <1>3, <2>3, <2>8, <2>10 DEF SamplesOf
  <2>13. TablesOf(r, m, directory', writeFaults'["rounds"])
    <3>1. m.round = main[r].round + 1 /\ main[r].round \in Nat
      BY <1>1 DEF MainStates
    <3>2. RowsUpTo(r, directory.checkpoints.rows, main[r].round)
      BY <1>3, <2>1, <2>3 DEF TablesOf
    <3>3. RowsUpTo(r, directory.checkpoints.rows, main[r].round + 1)
      BY <1>3, <2>3, <3>1, <3>2, MoreRounds
    <3>4. ToldUpTo(directory.rounds, main[r].round, writeFaults["rounds"])
      BY <1>3, <2>3 DEF TablesOf, ToldUpTo
    <3>5. ToldUpTo(file, m.round, writeFaults'["rounds"])
      <4>1. writeFaults["rounds"] \in Nat
        BY <1>1
      <4> QED
        BY <2>4, <2>5, <2>6, <3>1, <3>4, <4>1, RoundIsToldOrFails
    <3> HIDE DEF m
    <3> QED
      BY <2>5, <2>7, <2>8, <3>1, <3>2, <3>3, <3>5 DEF TablesOf, ToldUpTo
  <2>14. /\ main' = [main EXCEPT ![r] = m] /\ thread' = [thread EXCEPT ![r] = thread[r]]
         /\ directory.config => directory'.config
         /\ directory.shares => directory'.shares
    BY <1>2, <2>1, <2>2, <2>8
  <2> HIDE DEF m
  <2> QED
    BY <1>1, <2>3, <2>6, <2>8, <2>10, <2>11, <2>12, <2>13, <2>14, OwnerMoves
<1>16. ASSUME RecordCheckpoint(r)
      PROVE  RunsInv'
  <2> DEFINE row == RoundRow(r, main[r].round)
  <2>1. /\ UNCHANGED thread /\ AppendRow("checkpoints", row)
        /\ main[r].at = "best"
        /\ \E to \in {"training", "best"} :
             main' = [main EXCEPT ![r] = [main[r] EXCEPT !.at = "training"]]
    BY <1>16 DEF RecordCheckpoint, RunGoes
  <2>2. PICK to \in {"training", "best"} : main' = [main EXCEPT ![r] = [main[r] EXCEPT !.at = "training"]]
    BY <2>1
  <2>3. directory # NoDirectory /\ directory.owner = r
    BY <1>4, <2>1 DEF Holding
  <2>4. /\ directory \in RunDirectories /\ directory.checkpoints \in TableFile
        /\ RowsUpTo(r, directory.checkpoints.rows, main[r].round - 1) /\ main[r].round - 1 \in Int
    BY <1>1, <1>3, <2>1, <2>3 DEF TablesOf, MainStates
  <2>5. /\ row \in TableRow /\ row.by = r /\ row.line = "whole"
        /\ row.round = main[r].round /\ main[r].round - 1 < row.round
    BY <1>1 DEF RoundRow, TableRow, MainStates
  <2> HIDE DEF row
  <2>6. PICK file \in {directory.checkpoints, Written(directory.checkpoints, row)}
                      \cup PartsWritten(directory.checkpoints, row) :
          /\ directory' = [directory EXCEPT !["checkpoints"] = file]
          /\ writeFaults' \in [Tables -> Nat]
          /\ \/ /\ directory.checkpoints.header # "cut" /\ UNCHANGED writeFaults
                /\ file = Written(directory.checkpoints, row)
             \/ /\ directory.checkpoints.header = "cut" /\ UNCHANGED writeFaults
                /\ file = directory.checkpoints
             \/ /\ directory.checkpoints.header # "cut"
                /\ file \in PartsWritten(directory.checkpoints, row)
                /\ writeFaults'["checkpoints"] = writeFaults["checkpoints"] + 1
                /\ \A other \in Tables \ {"checkpoints"} : writeFaults'[other] = writeFaults[other]
    <3>1. CASE Adds("checkpoints", Written(directory["checkpoints"], row)) /\ UNCHANGED writeFaults
               /\ directory["checkpoints"].header # "cut"
      BY <1>1, <3>1 DEF Adds
    <3>2. CASE UNCHANGED <<directory, writeFaults>> /\ directory["checkpoints"].header = "cut"
      <4>1. directory = [directory EXCEPT !["checkpoints"] = directory.checkpoints]
        BY <2>4 DEF RunDirectories
      <4> QED
        BY <1>1, <3>2, <4>1
    <3>3. CASE /\ directory["checkpoints"].header # "cut" /\ WriteFails("checkpoints")
               /\ \E part \in PartsWritten(directory["checkpoints"], row) : Adds("checkpoints", part)
      <4>1. /\ writeFaults' \in [Tables -> Nat] /\ "checkpoints" \in Tables
            /\ writeFaults'["checkpoints"] = writeFaults["checkpoints"] + 1
            /\ \A other \in Tables \ {"checkpoints"} : writeFaults'[other] = writeFaults[other]
        BY <3>3, FaultsCount DEF RunsInv, Tables
      <4> QED
        BY <3>3, <4>1 DEF Adds
    <3> QED
      BY <2>1, <3>1, <3>2, <3>3 DEF AppendRow
  <2>7. file \in TableFile /\ RowsUpTo(r, file.rows, row.round)
    BY <2>4, <2>5, FileIsAppendedTo
  <2>8. /\ directory' \in RunDirectories /\ directory'.owner = r
        /\ directory'.config = directory.config /\ directory'.shares = directory.shares
        /\ directory'.samples = directory.samples
        /\ directory'.checkpoints = file /\ directory'.rounds = directory.rounds
    BY <2>3, <2>4, <2>6, <2>7 DEF RunDirectories
  <2>9. directory' # NoDirectory
    BY <2>8 DEF RunAssumption
  <2> DEFINE m == [main[r] EXCEPT !.at = "training"]
  <2>10. /\ m \in MainStates /\ m.steps = main[r].steps /\ m.texts = main[r].texts
         /\ m.at \in {"training", "best"} /\ m.lastRow = main[r].lastRow
    BY <1>1 DEF MainStates, MainPlaces
  <2>11. StageOf(r, m, thread[r], directory')
    BY <1>1, <2>1, <2>3, <2>8, <2>9, <2>10
    DEF StageOf, Fresh, Made, Copied, Shared, Alive, MainStates, ThreadStates
  <2>12. SamplesOf(r, m, thread[r], directory'.samples)
    BY <1>3, <2>3, <2>8, <2>10 DEF SamplesOf
  <2>13. TablesOf(r, m, directory', writeFaults'["rounds"])
    <3>1. m.round = main[r].round /\ m.at = "training"
      BY <1>1 DEF MainStates
    <3>2. writeFaults'["rounds"] = writeFaults["rounds"]
      BY <2>6 DEF Tables
    <3> HIDE DEF m
    <3> QED
      BY <1>3, <2>3, <2>5, <2>7, <2>8, <3>1, <3>2 DEF TablesOf
  <2>14. /\ main' = [main EXCEPT ![r] = m] /\ thread' = [thread EXCEPT ![r] = thread[r]]
         /\ directory.config => directory'.config
         /\ directory.shares => directory'.shares
    BY <1>2, <2>1, <2>2, <2>8
  <2> HIDE DEF m
  <2> QED
    BY <1>1, <2>3, <2>6, <2>8, <2>10, <2>11, <2>12, <2>13, <2>14, OwnerMoves
<1> QED
  BY <1>5, <1>6, <1>7, <1>8, <1>9, <1>10, <1>11, <1>12, <1>13, <1>14, <1>15, <1>16,
     QuietStepsKeepRunsInv
  DEF QuietStep, CopyConfig, WriteDietShares

LEMMA RunsInitially == RunsInit => RunsInv
<1> SUFFICES ASSUME RunsInit PROVE RunsInv
  OBVIOUS
<1>1. RunsTypeOK
  BY DEF RunsInit, RunsTypeOK, MainStates, MainPlaces, ThreadStates, Tables
<1>2. \A r \in Runs : /\ main[r].at = "config" /\ main[r].steps = 0 /\ main[r].texts = 0
                      /\ main[r].round = 0 /\ ~main[r].lastRow /\ thread[r].at = "none"
  BY DEF RunsInit
<1>3. RunStages
  BY <1>2 DEF RunStages, StageOf, Made, Copied, Shared, Alive
<1>4. DirectoryInv
  BY DEF RunsInit, DirectoryInv
<1> QED
  BY <1>1, <1>3, <1>4 DEF RunsInv

LEMMA RunsStep ==
    ASSUME RunAssumption, RunsInv, [RunsNext]_runsVars
    PROVE  RunsInv'
<1>1. ASSUME NEW r \in Runs, Prepares(r) \/ Trains(r) \/ Samples(r) \/ Kill(r)
      PROVE  RunsInv'
  BY <1>1, QuietStepsKeepRunsInv, WritingStepsKeepRunsInv
  DEF Prepares, Trains, Samples, QuietStep
<1>2. CASE UNCHANGED runsVars
  BY <1>2 DEF runsVars, RunsInv, RunsTypeOK, RunStages, StageOf, DirectoryInv, SamplesOf, TablesOf
<1> QED
  BY <1>1, <1>2 DEF RunsNext

LEMMA RunsInvTells ==
    ASSUME RunsInv
    PROVE  RecordTellsTheRun
<1>1. RecordIsOfOneRun
  <2>1. ASSUME NEW rows, NEW r, NEW n, RowsUpTo(r, rows, n)
        PROVE  \A row \in ToSet(rows) : row.by = r
    <3>1. \A i \in DOMAIN rows : rows[i].by = r
      BY <2>1, Zenon DEF RowsUpTo
    <3> QED
      BY <3>1, Zenon DEF ToSet
  <2>2. SUFFICES ASSUME directory # NoDirectory
                 PROVE  \A row \in ToSet(directory.rounds.rows)
                                    \cup ToSet(directory.checkpoints.rows)
                                    \cup ToSet(directory.samples) : row.by = directory.owner
    BY DEF RecordIsOfOneRun
  <2>3. \A row \in ToSet(directory.samples) : row.by = directory.owner
    BY <2>2 DEF RunsInv, DirectoryInv, SamplesOf, ToSet
  <2> QED
    BY <2>1, <2>2, <2>3, TypesOfDirectory DEF RunsInv, DirectoryInv, TablesOf
<1>2. TrainedRunsAreRecorded
  BY DEF RunsInv, RunStages, StageOf, TrainedRunsAreRecorded
<1>3. SamplesFollowTheRun
  BY DEF RunsInv, RunStages, StageOf, SamplesFollowTheRun, DirectoryInv, SamplesOf, Alive
<1>4. RoundsFollowTheRun
  <2>1. SUFFICES ASSUME directory # NoDirectory
                 PROVE  LET done == main[directory.owner].round
                            rounds == directory.rounds.rows
                            checkpoints == directory.checkpoints.rows
                        IN /\ Increasing(rounds, "round") /\ Increasing(checkpoints, "round")
                           /\ \A row \in ToSet(checkpoints) : row.round <= done
                           /\ directory.rounds.header # "cut" =>
                                done - Cardinality(RoundsTold(rounds)) <= 2 * writeFaults.rounds
    BY DEF RoundsFollowTheRun
  <2> DEFINE o == directory.owner
             told == Cardinality(RoundsTold(directory.rounds.rows))
  <2>2. /\ TablesOf(o, main[o], directory, writeFaults["rounds"])
        /\ directory.rounds \in TableFile /\ directory.checkpoints.rows \in Seq(TableRow)
        /\ main[o].round \in Nat /\ writeFaults["rounds"] \in Nat
    BY <2>1, TypesOfDirectory, TypesOfRuns
    DEF RunsInv, DirectoryInv, RunsTypeOK, MainStates, Tables
  <2>3. told \in Nat
    BY <2>1, <2>2, TypesOfDirectory, ToldIsFinite DEF RunsInv, TablesOf
  <2>4. RowsUpTo(o, directory.checkpoints.rows, main[o].round)
    BY <2>2, MoreRounds DEF TablesOf
  <2>5. \A row \in ToSet(directory.checkpoints.rows) : row.round <= main[o].round
    BY <2>4 DEF RowsUpTo, ToSet
  <2>6. ASSUME directory.rounds.header # "cut"
        PROVE  main[o].round - told <= 2 * writeFaults["rounds"]
    <3>1. directory.rounds.header \in {"none", "whole"}
      BY <2>2, <2>6 DEF TableFile
    <3> HIDE DEF told
    <3> QED
      BY <2>2, <2>3, <3>1 DEF TablesOf, told
  <2> QED
    BY <2>2, <2>4, <2>5, <2>6 DEF RowsUpTo, TablesOf
<1> QED
  BY <1>1, <1>2, <1>3, <1>4 DEF RecordTellsTheRun

(* A run directory tells one run's story (run_training.main, RunSampler,     *)
(* CsvTable, CsvRunListener), for any runs that are given it, any rounds and *)
(* steps, and however their threads interleave, fail and die.               *)
THEOREM RunDirectoriesTellOneStory ==
    ASSUME RunAssumption
    PROVE  RunsSpec => []RecordTellsTheRun
<1>1. RunsInit => RunsInv
  BY RunsInitially
<1>2. RunsInv /\ [RunsNext]_runsVars => RunsInv'
  BY RunsStep
<1>3. RunsInv => RecordTellsTheRun
  BY RunsInvTells
<1> QED
  BY <1>1, <1>2, <1>3, PTL DEF RunsSpec

=============================================================================
