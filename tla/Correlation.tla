---------------------------- MODULE Correlation ----------------------------
(***************************************************************************)
(* From signals to hypotheses about the root cause:                        *)
(* internal/correlation/engine.go, signal/confidence.go, and the assembly  *)
(* of a response in internal/diagnostic/assemble.go.                       *)
(*                                                                         *)
(* A text is the set of those keywords it contains that the code looks     *)
(* for.  A reason is never looked up in another case than its own: the     *)
(* code lowers or raises the case of all of them before it compares.       *)
(***************************************************************************)
EXTENDS Integers, Sequences, FiniteSets, TLC, Health

\* A signal: its reason, the text of its message, with "Job" if that is its
\* category, and the resource it is about.
Signal(source, reason, text, severity, about) ==
  [source |-> source, reason |-> reason, text |-> text,
   severity |-> severity, about |-> about]

\* The elements of a set that are there only on a condition.
When(condition, set) == IF condition THEN set ELSE {}

\* The keywords in the reasons the analyzers use; a keyword the code looks for in
\* two spellings is one here.
ReasonText ==
  [ImagePullBackOff |-> {"imagepull", "image"},
   ErrImagePull |-> {"imagepull", "errimagepull", "image"},
   CrashLoopBackOff |-> {"crashloop"}, OOMKilled |-> {"oomkill"},
   CreateContainerConfigError |-> {"createcontainerconfig", "createcontainer"},
   auth_failure |-> {"auth_failure"}, unschedulable |-> {"unschedulable", "schedul"},
   FailedScheduling |-> {"failedscheduling", "schedul", "failed"},
   FailedMount |-> {"failedmount", "failed"}, Failed |-> {"failed"},
   ProgressDeadlineExceeded |-> {"progressdeadline"}, BACKOFF_LIMIT_EXCEEDED |-> {"backofflimit"},
   READINESS_PROBE_FAILED |-> {"readiness", "probe"}, LIVENESS_PROBE_FAILED |-> {"liveness", "probe"},
   STARTUP_PROBE_FAILED |-> {"startup", "probe"},
   MISSING_CONFIGMAP |-> {"missing_configmap"}, MISSING_SECRET |-> {"missing_secret", "secret"},
   PVC_NOT_FOUND |-> {"pvc"}, PVC_PENDING |-> {"pvc_pending", "pvc", "pending"},
   JOB_POD_FAILED |-> {"job_pod_failed", "failed"},
   INSUFFICIENT_CPU |-> {"insufficient cpu"}, INSUFFICIENT_MEMORY |-> {"insufficient memory"},
   TAINT_NOT_TOLERATED |-> {"taint"}, NODE_AFFINITY_MISMATCH |-> {"affinity"},
   NO_ELIGIBLE_NODE |-> {"no_eligible"},
   UNSUPPORTED_SCHEDULER_CONSTRAINT |-> {"unsupported_scheduler", "schedul"},
   SERVICE_NO_SELECTOR |-> {"service_no_selector"},
   SERVICE_NO_MATCHING_PODS |-> {"service_no_matching"},
   SERVICE_NO_READY_PODS |-> {"service_no_ready"},
   SERVICE_NO_READY_ENDPOINTS |-> {"service_no_ready"},
   SERVICE_NO_ENDPOINTS |-> {"service_no_endpoints"}, SERVICE_PORT_MISMATCH |-> {"port_mismatch"},
   TARGET_PORT_NOT_FOUND |-> {"target_port"},
   INGRESS_BACKEND_MISSING |-> {"ingress_backend_missing"},
   INGRESS_BACKEND_PORT_INVALID |-> {"ingress_backend_port"},
   INGRESS_NO_READY_ENDPOINTS |-> {"ingress_no_ready"},
   INGRESS_TLS_SECRET_MISSING |-> {"tls_secret", "secret"},
   INGRESS_CLASS_MISSING |-> {"ingress_class"}, Ready |-> {"ready"},
   DiskPressure |-> {"diskpressure"}, MemoryPressure |-> {"memorypressure"},
   PIDPressure |-> {"pidpressure"}]
KeywordsOf(reason) == IF reason \in DOMAIN ReasonText THEN ReasonText[reason] ELSE {}
Words(s) == KeywordsOf(s.reason) \cup s.text

----------------------------------------------------------------------------
(* classify.                                                               *)

ImagePull(s) ==
  \/ Words(s) \cap {"imagepull", "errimagepull", "pulling image", "failed to pull", "registry"} # {}
  \/ s.source \in {"STATUS", "EVENT"} /\ s.reason \in {"FailedToPullImage", "InspectFailed"}

\* The tests that come before the reason is looked at: the category, and what
\* the words must contain, any of the sets.
EarlyRules ==
  << <<"IMAGE_NOT_FOUND", {{"manifest unknown"}, {"not found", "image"}}>>,
     <<"REGISTRY_RATE_LIMIT", {{"rate limit"}, {"toomanyrequests"}}>>,
     <<"REGISTRY_TLS_ERROR", {{"x509"}, {"tls", "image"}}>> >>

\* The reasons that are a category of their own, in upper case.
ByReason ==
  [r \in {"OOMKilled", "oom"} |-> "OOM_KILLED"] @@
  [r \in {"ImagePullBackOff", "ErrImagePull"} |-> "IMAGE_PULL_FAILURE"] @@
  [r \in {"CrashLoopBackOff"} |-> "CRASH_LOOP"] @@
  [r \in {"READINESS_PROBE_FAILED", "LIVENESS_PROBE_FAILED", "STARTUP_PROBE_FAILED",
          "INSUFFICIENT_CPU", "INSUFFICIENT_MEMORY", "NODE_SELECTOR_MISMATCH",
          "NODE_AFFINITY_MISMATCH", "TAINT_NOT_TOLERATED", "NO_ELIGIBLE_NODE",
          "UNSUPPORTED_SCHEDULER_CONSTRAINT"} |-> r]

\* The tests that come after, in their order.
Rules ==
  << <<"APPLICATION_AUTH_FAILURE", {{"unauthorized"}, {"authentication"}}>>,
     <<"IMAGE_PULL_FAILURE", {{"imagepull"}, {"errimagepull"}}>>,
     <<"OOM_KILLED", {{"oomkill"}}>>, <<"CRASH_LOOP", {{"crashloop"}}>>,
     <<"MISSING_SECRET", {{"missing_secret"}, {"secret", "createcontainerconfig"}}>>,
     <<"MISSING_CONFIGMAP", {{"createcontainerconfig"}, {"missing_configmap"}}>>,
     <<"CONFIG_ERROR", {{"createcontainer"}}>>,
     <<"CONTAINER_CANNOT_RUN", {{"containercannotrun"}, {"runcontainererror"}}>>,
     <<"INSUFFICIENT_CPU", {{"insufficient cpu"}}>>,
     <<"INSUFFICIENT_MEMORY", {{"insufficient memory"}}>>,
     <<"TAINT_NOT_TOLERATED", {{"taint"}}>>, <<"NODE_SELECTOR_MISMATCH", {{"nodeselector"}}>>,
     <<"NODE_AFFINITY_MISMATCH", {{"affinity"}, {"didn't match"}}>>,
     <<"UNSUPPORTED_SCHEDULER_CONSTRAINT", {{"unsupported_scheduler"}}>>,
     <<"PVC_TOPOLOGY_CONFLICT", {{"pvc", "schedul"}}>>,
     <<"NO_ELIGIBLE_NODE", {{"failedscheduling"}, {"unschedulable"}, {"no_eligible"}}>>,
     <<"READINESS_PROBE_FAILED", {{"readiness"}}>>, <<"LIVENESS_PROBE_FAILED", {{"liveness"}}>>,
     <<"STARTUP_PROBE_FAILED", {{"startup"}}>>,
     <<"FAILED_ATTACH_VOLUME", {{"failedattach"}}>>, <<"FAILED_MOUNT", {{"failedmount"}}>>,
     <<"EVICTED", {{"evict"}}>>, <<"PROGRESS_DEADLINE_EXCEEDED", {{"progressdeadline"}}>>,
     <<"BACKOFF_LIMIT_EXCEEDED", {{"backofflimit"}}>>,
     <<"JOB_POD_FAILED", {{"job_pod_failed"}, {"Job", "failed"}}>>,
     <<"SERVICE_NO_SELECTOR", {{"service_no_selector"}}>>,
     <<"SERVICE_NO_MATCHING_PODS", {{"service_no_matching"}}>>,
     <<"SERVICE_NO_READY_PODS", {{"service_no_ready"}}>>,
     <<"SERVICE_NO_ENDPOINTS", {{"service_no_endpoints"}}>>,
     <<"SERVICE_PORT_MISMATCH", {{"port_mismatch"}, {"target_port"}}>>,
     <<"INGRESS_BACKEND_MISSING", {{"ingress_backend_missing"}}>>,
     <<"INGRESS_BACKEND_PORT_INVALID", {{"ingress_backend_port"}}>>,
     <<"INGRESS_NO_READY_ENDPOINTS", {{"ingress_no_ready"}}>>,
     <<"INGRESS_TLS_SECRET_MISSING", {{"tls_secret"}}>>,
     <<"INGRESS_CLASS_MISSING", {{"ingress_class"}}>>, <<"PVC_PENDING", {{"pvc_pending"}}>>,
     <<"STORAGE_CLASS_NOT_FOUND", {{"storageclass", "not"}}>>,
     <<"PROVISIONING_FAILED", {{"provisioning"}}>>,
     <<"NODE_DISK_PRESSURE", {{"diskpressure"}}>>, <<"NODE_MEMORY_PRESSURE", {{"memorypressure"}}>>,
     <<"NODE_PID_PRESSURE", {{"pidpressure"}}>>,
     <<"NODE_NETWORK_UNAVAILABLE", {{"networkunavailable"}}>>,
     <<"NODE_NOT_READY", {{"notready", "node"}}>> >>

\* The category of the first of the rules that applies to these words, if any does.
First(rules, words) ==
  LET those == {i \in DOMAIN rules : \E needed \in rules[i][2] : needed \subseteq words}
  IN {rules[i][1] : i \in {j \in those : \A k \in those : j <= k}}

\* classify, of a signal: its category.  A signal no rule knows is a category of its
\* own, its reason in upper case; if it is informational it is noise and has none.
Category(s) ==
  LET words == Words(s)
      early == First(EarlyRules, words)
      late == First(Rules, words)
  IN IF ImagePull(s) /\ words \cap {"unauthorized", "authentication", "denied"} # {}
       THEN {"REGISTRY_AUTHENTICATION_FAILURE"}
     ELSE IF early # {} THEN early
     ELSE IF s.source = "LOG" /\ words \cap {"auth_failure", "401", "403", "unauthorized", "forbidden"} # {}
       THEN {"APPLICATION_AUTH_FAILURE"}
     ELSE IF s.reason \in DOMAIN ByReason THEN {ByReason[s.reason]}
     ELSE IF late # {} THEN late
     ELSE When(s.severity # "info", {s.reason})

----------------------------------------------------------------------------
(* build.                                                                  *)

\* authoritative: the keywords a status or a condition must contain, any of
\* them, to confirm a category.
Confirming ==
  [OOM_KILLED |-> {{"oomkill"}}, CRASH_LOOP |-> {{"crashloop"}},
   IMAGE_PULL_FAILURE |-> {{"imagepull"}, {"errimagepull"}},
   REGISTRY_AUTHENTICATION_FAILURE |-> {{"imagepull"}, {"errimagepull"}},
   IMAGE_NOT_FOUND |-> {{"imagepull"}, {"errimagepull"}},
   PVC_PENDING |-> {{"pvc"}, {"pending"}},
   NODE_NOT_READY |-> {{"ready", "false"}},
   READINESS_PROBE_FAILED |-> {{"probe"}}, LIVENESS_PROBE_FAILED |-> {{"probe"}},
   STARTUP_PROBE_FAILED |-> {{"probe"}}]
Authoritative(category, s) ==
  /\ s.source \in {"STATUS", "CONDITION"}
  /\ category \in DOMAIN Confirming
  /\ \/ \E words \in Confirming[category] : words \subseteq Words(s)
     \/ category = "NODE_NOT_READY" /\ s.reason = "Ready"

Contradicts(category, s) ==
  \/ /\ category = "CRASH_LOOP"
     /\ \/ s.source = "STATUS" /\ "appears healthy" \in Words(s)
        \/ s.source = "CONDITION" /\ "ready=true" \in Words(s)
  \/ /\ category = "READINESS_PROBE_FAILED" /\ s.severity = "info"
     /\ {"container", "ready"} \subseteq Words(s) /\ "not ready" \notin Words(s)

\* Score.
Score == [confirmed |-> 4, high |-> 3, medium |-> 2, low |-> 1]

Demoted(confidence) ==
  CASE confidence = "confirmed" -> "high" [] confidence = "high" -> "medium"
    [] OTHER -> confidence

\* Mutant of Confidence: an event beside the status confirms as well.
ConfidenceOfTwo(category, bucket, all) ==
  LET sources == {s.source : s \in bucket}
  IN IF "EVENT" \in sources /\ Cardinality(sources) >= 2 THEN "confirmed" ELSE "medium"

Confidence(category, bucket, all) ==
  LET sources == {s.source : s \in bucket}
      plain == IF \E s \in bucket : Authoritative(category, s) THEN "confirmed"
               ELSE IF "EVENT" \in sources /\ sources \cap {"STATUS", "CONDITION"} # {} THEN "high"
               ELSE IF sources = {"LOG"} THEN "low"
               ELSE "medium"
  IN IF \E s \in all : Contradicts(category, s) THEN Demoted(plain) ELSE plain

\* A hypothesis; dedupEvents changes neither the sources of a bucket nor the
\* resources it is about.
Hypothesis(category, bucket, all) ==
  [category |-> category, confidence |-> Confidence(category, bucket, all),
   affected |-> Cardinality({s.about : s \in bucket})]

Hypotheses(all) ==
  LET category == [s \in all |-> Category(s)]
  IN {Hypothesis(c, {s \in all : c \in category[s]}, all) : c \in UNION {category[s] : s \in all}}

----------------------------------------------------------------------------
(* Correlate: the ranking.                                                 *)

Bonus ==
  [OOM_KILLED |-> 80, MISSING_SECRET |-> 80, MISSING_CONFIGMAP |-> 80,
   REGISTRY_AUTHENTICATION_FAILURE |-> 70,
   INSUFFICIENT_CPU |-> 60, INSUFFICIENT_MEMORY |-> 60, TAINT_NOT_TOLERATED |-> 60,
   NODE_SELECTOR_MISMATCH |-> 60,
   SERVICE_NO_MATCHING_PODS |-> 50, PROGRESS_DEADLINE_EXCEEDED |-> 50, READINESS_PROBE_FAILED |-> 50,
   CRASH_LOOP |-> 20, IMAGE_PULL_FAILURE |-> 20, APPLICATION_AUTH_FAILURE |-> 15]

WeightedScore(h) ==
  h.affected + Score[h.confidence] * 10
    + (IF h.category \in DOMAIN Bonus THEN Bonus[h.category] ELSE 0)

\* By confidence, then by weighted score; what is left is ranked by name.
Above(h, k) ==
  \/ Score[h.confidence] > Score[k.confidence]
  \/ /\ Score[h.confidence] = Score[k.confidence]
     /\ WeightedScore(h) > WeightedScore(k)

\* Mutant of Leading: a hypothesis of low confidence is no root cause.
LeadingMedium(hyps) == {h \in hyps : h.confidence # "low" /\ \A k \in hyps : ~Above(k, h)}

\* The hypotheses nothing is above: the first of them by name is the root cause.
Leading(hyps) == {h \in hyps : \A k \in hyps : ~Above(k, h)}

\* assemble: the response to these signals, with this visibility.
Assemble(signals, limited) ==
  LET health == Evaluate({s.severity : s \in signals}, limited)
      hypotheses == Hypotheses(signals)
  IN [status |-> IF limited THEN "partial" ELSE "success",
      health |-> health,
      limited |-> limited,
      hypotheses |-> hypotheses,
      causes |-> IF health = "healthy" THEN {} ELSE Leading(hypotheses),
      truncated |-> FALSE,
      signals |-> signals]
=============================================================================
