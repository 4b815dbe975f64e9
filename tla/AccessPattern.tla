--------------------------- MODULE AccessPattern ---------------------------
(***************************************************************************)
(* AccessPatternDetector of rust/src/prefetch/pattern.rs: it counts short  *)
(* steps and long jumps between record indices, and says from the two      *)
(* counts whether the access is sequential.  The counters are u32.         *)
(***************************************************************************)
EXTENDS Integers

CONSTANTS
  SEQUENTIAL_THRESHOLD,          (* 10 in the code                         *)
  RANDOM_THRESHOLD,              (* 100                                    *)
  MIN_OBSERVATIONS,              (* 8                                      *)
  UPGRADE_SEQUENTIAL_THRESHOLD,  (* 100                                    *)
  U32_MAX

ASSUME AccessPatternAssumption ==
  /\ {SEQUENTIAL_THRESHOLD, RANDOM_THRESHOLD, MIN_OBSERVATIONS} \subseteq Nat
  /\ {UPGRADE_SEQUENTIAL_THRESHOLD, U32_MAX} \subseteq Nat
  /\ SEQUENTIAL_THRESHOLD <= RANDOM_THRESHOLD

NewDetector == [sequential_runs |-> 0, random_jumps |-> 0, last_index |-> -1]

AbsDiff(i, j) == IF i < j THEN j - i ELSE i - j
Saturate(n) == IF n > U32_MAX THEN U32_MAX ELSE n

Observe(det, index) ==
  LET delta == AbsDiff(index, det.last_index)
      moved == det.last_index >= 0
      short == moved /\ delta <= SEQUENTIAL_THRESHOLD
      long  == moved /\ ~short /\ delta > RANDOM_THRESHOLD
  IN [sequential_runs |-> Saturate(det.sequential_runs + IF short THEN 1 ELSE 0),
      random_jumps    |-> Saturate(det.random_jumps + IF long THEN 1 ELSE 0),
      last_index      |-> index]

(* The sum is not saturated: it wraps in a release build.                  *)
Observations(det) == (det.sequential_runs + det.random_jumps) % (U32_MAX + 1)

IsSequential(det) ==
  /\ Observations(det) >= MIN_OBSERVATIONS
  /\ det.sequential_runs > Saturate(det.random_jumps * 3)

PredictNextPastEnd(det, depth, recordCount) ==               \* MUTANT: no idx < record_count
  IF IsSequential(det) /\ det.last_index >= 0
  THEN det.last_index + 1 .. det.last_index + depth ELSE {}

(* The record indices predict_next() expects.                              *)
PredictNext(det, depth, recordCount) ==
  IF IsSequential(det) /\ det.last_index >= 0
  THEN {i \in det.last_index + 1 .. det.last_index + depth : i < recordCount}
  ELSE {}
============================================================================
