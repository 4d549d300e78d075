---------------------------- MODULE StepRecovery ----------------------------
(***************************************************************************)
(* The loop of recover_step_confidence in ap.rs: one pass over the steps   *)
(* of a sector's arithmetic progression keeps the best step, its peak, the *)
(* peak of the runner-up and whether the best is tied.                     *)
(*                                                                         *)
(* The peak of a step is the count of the most frequent plaintext byte     *)
(* under that step.  A sector is not empty, so a peak is at least one;     *)
(* nothing else is assumed of the peaks.                                   *)
(***************************************************************************)
EXTENDS Integers, Argmax

CONSTANTS
  STEPS,  \* the number of steps: 256
  Peaks   \* the peaks that sectors may have, by step

Step == 0..(STEPS - 1)

ASSUME StepsAssumption == STEPS \in Nat /\ STEPS > 1
ASSUME PeaksAssumption == Peaks \subseteq [Step -> Nat \ {0}]

VARIABLES
  peak,             \* the peaks of this sector
  step,             \* the next step to look at, STEPS at the end
  best_step,
  best_count,
  runner_up_count,
  best_peak_tied

stepVars == <<peak, step, best_step, best_count, runner_up_count, best_peak_tied>>

StepInit ==
  /\ peak \in Peaks
  /\ step = 0
  /\ best_step = 0 /\ best_count = 0
  /\ runner_up_count = 0
  /\ best_peak_tied = FALSE

Looking == step \in 1..(STEPS - 1)

(* A call on the next sector. *)
Begin(peaks) ==
  /\ ~Looking
  /\ peak' = peaks
  /\ step' = 0
  /\ best_step' = 0 /\ best_count' = 0
  /\ runner_up_count' = 0
  /\ best_peak_tied' = FALSE

Better == peak[step] > best_count

(* Mutant: the best that is replaced is forgotten. *)
MutDemoted == runner_up_count

(* The runner-up behind a new best is the best it replaces.                *)
Demoted == best_count

NewBest ==
  /\ step < STEPS
  /\ Better
  /\ runner_up_count' = Demoted
  /\ best_count' = peak[step]
  /\ best_step' = step
  /\ best_peak_tied' = FALSE
  /\ step' = step + 1
  /\ UNCHANGED peak

NotBetter ==
  /\ step < STEPS
  /\ ~Better
  /\ runner_up_count' =
       IF peak[step] > runner_up_count THEN peak[step] ELSE runner_up_count
  /\ best_peak_tied' = (best_peak_tied \/ peak[step] = best_count)
  /\ step' = step + 1
  /\ UNCHANGED <<peak, best_step, best_count>>

LookAt == NewBest \/ NotBetter

StepNext == LookAt \/ \E peaks \in Peaks : Begin(peaks)

StepSpec == StepInit /\ [][StepNext]_stepVars

---------------------------------------------------------------------------

Done == step = STEPS
Others == Step \ {best_step}

(* Steps are in range and counts are those of peaks, none before the first. *)
StepTypeOK ==
  /\ peak \in [Step -> Nat \ {0}]
  /\ step \in 0..STEPS
  /\ best_step \in Step
  /\ best_count \in Nat /\ runner_up_count \in Nat
  /\ best_peak_tied \in BOOLEAN

(* The result of the loop: chosen_step is the first of the steps with the   *)
(* largest peak, and best_peak is that peak;                                *)
ChoosesTheFirstBest == best_step = FirstMax(peak) /\ best_count = peak[best_step]

(* runner_up_peak is the largest peak among all steps but the chosen one,   *)
(* those before it as well as those after it;                               *)
RunnerUpIsTheBestOther ==
  /\ \A s \in Others : peak[s] <= runner_up_count
  /\ \E s \in Others : peak[s] = runner_up_count

(* best_peak_tied tells exactly whether another step reached best_peak.     *)
TiesAreTold == best_peak_tied = (\E s \in Others : peak[s] = best_count)

(* One pass that keeps four things at a time gets all of them right: what   *)
(* recover_step_confidence returns as evidence for a sector is what its     *)
(* fields promise, whatever the order in which the peaks come.              *)
EvidenceIsRight ==
  Done => ChoosesTheFirstBest /\ RunnerUpIsTheBestOther /\ TiesAreTold
=============================================================================
