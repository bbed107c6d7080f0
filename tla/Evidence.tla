------------------------------ MODULE Evidence ------------------------------
(***************************************************************************)
(* What Events and logs say: internal/events/service.go and analyzer.go,   *)
(* internal/logs/analyzer.go and SelectFailingContainer of service.go.     *)
(***************************************************************************)
EXTENDS Correlation

CONSTANT MaxEvents   \* how many Events a List keeps

ASSUME EvidenceAssumption == MaxEvents \in Nat

\* events.Classify: the severity of an Event.
Severity(reason, text) ==
  CASE reason \in {"FailedScheduling", "Preempted", "Evicted", "ErrImagePull",
                   "ImagePullBackOff", "FailedMount", "FailedAttachVolume", "FailedBinding",
                   "ProvisioningFailed", "VolumeResizeFailed", "FailedCreatePodSandBox",
                   "NetworkNotReady", "FailedCreate", "ReplicaFailure",
                   "ProgressDeadlineExceeded"} -> "critical"
    [] reason = "BackOff" -> IF "image" \in text THEN "critical" ELSE "warning"
    [] reason \in {"Killing", "Failed", "Unhealthy", "FailedGetResourceMetric",
                   "FailedGetScale"} -> "warning"
    [] reason \in {"Created", "Started"} -> "info"
    [] OTHER -> IF text \cap {"unauthorized", "authentication"} # {} THEN "critical" ELSE "info"

\* List: a limit of zero becomes thirty.
EventLimit == IF MaxEvents = 0 THEN 30 ELSE MaxEvents

\* Mutant of Kept: the Events the API server lists first are kept.
KeptAsListed(events) == SubSeq(events, 1, IF Len(events) < EventLimit THEN Len(events) ELSE EventLimit)

\* List: of the Events, which come here from the oldest to the newest, the
\* newest are kept.
Kept(events) ==
  SubSeq(events, IF Len(events) > EventLimit THEN Len(events) - EventLimit + 1 ELSE 1, Len(events))

\* Aggregate and ToSignals: a Normal Event counts if its reason is worrying.
EventSignals(events, about) ==
  {Signal("EVENT", e.reason, e.text \cup KeywordsOf(e.reason),
          IF Severity(e.reason, e.text) = "critical" THEN "critical" ELSE "warning", about) :
     e \in {Kept(events)[i] : i \in {j \in DOMAIN Kept(events) :
              \/ Kept(events)[j].type = "Warning"
              \/ Severity(Kept(events)[j].reason, Kept(events)[j].text) # "info"}}}

\* eventSigs: Events that could not be listed are a warning of their own.
EventsOrWarning(answer, about) ==
  IF answer.kind = "found" THEN EventSignals(answer.value, about)
  ELSE {Signal("EVENT", "list_failed", {}, "warning", about)}

\* logs.Analyze: the reasons of the patterns a line matched.
CriticalPatterns == {"panic", "fatal", "segfault", "uncaught_exception", "oom", "disk"}
LogSignals(patterns, about) ==
  {Signal("LOG", r, KeywordsOf(r), IF r \in CriticalPatterns THEN "critical" ELSE "warning", about) :
     r \in patterns}
=============================================================================
