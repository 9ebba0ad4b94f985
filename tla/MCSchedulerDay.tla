---------------------------- MODULE MCSchedulerDay ----------------------------
(* SchedulerDay with the limits and the hours of production.               *)
EXTENDS SchedulerDay

ProductionLimits ==
  [t \in Tasks |-> CASE t = "refresh-projections" -> 2
                     [] t = "apply-lineup" -> 1
                     [] OTHER -> 12]

\* A matinee (first pitch 11:05 Eastern); an evening game, or no known game time
\* (dailyBriefingHourUtcFallback).
GameDays == {14, 22}
=============================================================================
