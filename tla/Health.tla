------------------------------- MODULE Health -------------------------------
(***************************************************************************)
(* The health contract: internal/health/health.go, and the functions of    *)
(* cluster.go that turn counts and states into a health.                   *)
(***************************************************************************)
EXTENDS Integers

Healths == {"healthy", "degraded", "critical", "unknown"}
Severities == {"info", "warning", "critical"}

\* Evaluate, of the severities of the signals and of whether the visibility is
\* limited.  With no signal the two tests of the visibility are one.
Evaluate(severities, limited) ==
  IF "critical" \in severities THEN "critical"
  ELSE IF "warning" \in severities THEN "degraded"
  ELSE IF limited /\ severities = {} THEN "unknown"
  ELSE "healthy"

\* Combine: critical > degraded > unknown > healthy.
Combine(states) ==
  IF "critical" \in states THEN "critical"
  ELSE IF "degraded" \in states THEN "degraded"
  ELSE IF "unknown" \in states THEN "unknown"
  ELSE "healthy"

FromCounts(desired, ready, failed) ==
  IF failed \/ (desired > 0 /\ ready = 0) THEN "critical"
  ELSE IF ready < desired THEN "degraded"
  ELSE "healthy"

\* jobHealth.
JobHealth(failedCondition, succeeded, failed) ==
  IF failedCondition \/ (succeeded = 0 /\ failed > 0) THEN "critical" ELSE "healthy"

\* partHealth, of the objects listed and of those of them that are healthy.
PartHealth(total, healthy, listedOK) ==
  IF ~listedOK THEN "unknown"
  ELSE IF total = 0 THEN "healthy"
  ELSE IF healthy = 0 THEN "critical"
  ELSE IF healthy < total THEN "degraded"
  ELSE "healthy"
=============================================================================
