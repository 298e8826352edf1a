--------------------------- MODULE LoopTerminator ---------------------------
(***************************************************************************)
(* The loop guards of src/zxcode/terminator.py: counters of repeated       *)
(* observations, repeated errors and turns without progress.  A guard is   *)
(* an operator from the counters to the new counters and a verdict; the    *)
(* module declares no variable, the loop that calls it owns the record.    *)
(*                                                                         *)
(* Abstraction: a normalised observation or error is an opaque key; equal  *)
(* keys stand for equal normalised texts.                                  *)
(***************************************************************************)
EXTENDS Naturals

CONSTANTS
  MaxTurns,        \* LoopTerminatorConfig.max_turns
  ObsLimit,        \* repeated_observation_limit
  ErrLimit,        \* repeated_error_limit
  StagnantLimit,   \* no_progress_limit
  Nothing          \* Python's None: no observation, error or score yet

ASSUME LimitsAssumption ==
  /\ MaxTurns \in Nat \ {0}
  /\ {ObsLimit, ErrLimit, StagnantLimit} \subseteq Nat \ {0}

Continue == "continue"

\* Reasons a guard may stop the loop with.
GuardReasons ==
  {"max_turns", "repeated_error", "repeated_observation", "no_progress"}

FreshTerminator ==
  [lastObs |-> Nothing, obsRepeats |-> 0, lastErr |-> Nothing, errRepeats |-> 0,
   best |-> Nothing, stagnant |-> 0]

Verdict(stop, why) == IF stop THEN why ELSE Continue

Decided(t, stop, why) == [term |-> t, verdict |-> Verdict(stop, why)]

\* One more (`again`) or the first of a new streak.
Streak(again, n) == IF again THEN n + 1 ELSE 1

CountError(t, err) ==
  [t EXCEPT !.errRepeats = Streak(err = t.lastErr, @), !.lastErr = err]

CountObservation(t, obs) ==
  [t EXCEPT !.obsRepeats = Streak(obs = t.lastObs, @), !.lastObs = obs]

CountProgress(t, score) ==
  IF t.best = Nothing \/ score > t.best
  THEN [t EXCEPT !.best = score, !.stagnant = 0]
  ELSE [t EXCEPT !.stagnant = @ + 1]

\* Mutant: one turn more.
OutOfTurnsPast(turn) == turn > MaxTurns

\* The turn limit is looked at before any counter moves.
OutOfTurns(turn) == turn >= MaxTurns

CheckTurn(t, turn) == Decided(t, OutOfTurns(turn), "max_turns")

CheckError(t, turn, err) ==
  LET u == CountError(t, err)
  IN  IF OutOfTurns(turn) THEN CheckTurn(t, turn)
      ELSE Decided(u, u.errRepeats >= ErrLimit, "repeated_error")

CheckObservation(t, turn, obs) ==
  LET u == CountObservation(t, obs)
  IN  IF OutOfTurns(turn) THEN CheckTurn(t, turn)
      ELSE Decided(u, u.obsRepeats >= ObsLimit, "repeated_observation")

CheckProgress(t, turn, score) ==
  LET u == CountProgress(t, score)
  IN  IF OutOfTurns(turn) THEN CheckTurn(t, turn)
      ELSE Decided(u, u.stagnant >= StagnantLimit, "no_progress")
=============================================================================
