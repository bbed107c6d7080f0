-------------------------- MODULE ClusterHealthProps --------------------------
(***************************************************************************)
(* What is checked of ClusterHealth.                                       *)
(***************************************************************************)
EXTENDS ClusterHealth

Done == pc = "done"
Unhealthy == {o \in Objects : shown[o] \in {"degraded", "critical"}}
Issues == rep.critical \cup rep.warnings

ClusterTypeOK ==
  /\ pc \in {"list", "rank", "launch", "done"}
  /\ listed \in 0 .. Len(Lists) /\ (pc = "list" => listed < Len(Lists))
  /\ failed \subseteq KindNames
  /\ shown \in [Objects -> Listable \cup {None}]
  /\ rep \in Report
  /\ candidates \subseteq Objects /\ todo \subseteq candidates
  /\ worker \in [Objects -> {"none", "run", "send", "release", "gone"}]
  /\ result \in [Objects -> Result \cup {None}]
  /\ \A o \in Objects : worker[o] = "send" => result[o] \in Result
  /\ ch \in Seq(Result) /\ received \in Nat
  /\ enriched \subseteq Result
  /\ over \in BOOLEAN

\* "403 must not be healthy" (cluster_test.go): a cluster is reported healthy only
\* if every list was read and showed nothing but healthy objects.
HealthyOnlyIfRead ==
  Done /\ rep.health = "healthy" => failed = {} /\ Unhealthy = {} /\ Issues = {}

\* No problem vanishes: an unhealthy object that was listed is an issue of the
\* report, under its own health, unless the report is full and says so.
NothingUnlisted ==
  /\ rep.critical \subseteq {o \in Objects : shown[o] = "critical"}
  /\ rep.warnings \subseteq {o \in Objects : shown[o] = "degraded"}
  /\ Unhealthy # Issues => rep.truncated /\ Cardinality(Issues) = Room

\* Deep diagnoses go to the most urgent candidates: none that was left out
\* comes before one that was taken, and the report says if any was left out.
Skipped == Unhealthy \ candidates
WorstFirst ==
  pc \in {"launch", "done"} =>
    /\ \A s \in Skipped, c \in candidates : ~Before(s, c)
    /\ Skipped # {} => rep.deepTruncated

\* The report does not depend on which goroutine finishes first, and no issue is
\* given another object's root cause: a critical issue has the category its own
\* diagnosis found, or none.  For claims, see ExplainedIfDiagnosed.
EnrichedAsDiagnosed ==
  Done => \A o \in Objects :
    rep.cause[o] = IF o \in rep.critical \cap candidates
                      /\ o.kind # "PersistentVolumeClaim"
                     THEN result[o].cat ELSE None

\* The handler returns, and each goroutine it started ends, whichever blocks on
\* the gate or the channel first.
ReportEnds == <>(Done /\ \A o \in Objects : worker[o] \in {"none", "gone"})

\* docs/troubleshooting.md, of deep diagnoses: problems that were "listed but not
\* fully RCA'd" are announced by deep_diagnosis_truncated.  So without it, a
\* critical issue whose diagnosis found a cause shows it.
ExplainedIfDiagnosed ==
  Done /\ ~rep.deepTruncated =>
    \A o \in rep.critical : rep.cause[o] = result[o].cat

\* docs/troubleshooting.md: the combined health is critical > degraded > unknown.
\* So it is unknown only if nothing that was read is worse.
UnknownHidesNothing == Done /\ rep.health = "unknown" => Unhealthy = {}

----------------------------------------------------------------------------
(* The inductive invariant.                                                *)

\* What the lists have come to, up to the present one.
InventoryInv ==
  /\ \A o \in Objects : \A i \in 1 .. 7 :
       o.kind = Lists[i] /\ i > listed => shown[o] = None
  /\ candidates \subseteq Unhealthy
  /\ pc \in {"list", "rank"} => candidates = Unhealthy
  /\ Cardinality(Issues) <= Room
  /\ NothingUnlisted

\* What ranking makes of it, as long as the report is worked on.
RankInv ==
  pc \in {"launch", "done"} =>
    /\ rep.health = Overall
    /\ candidates = Chosen(Unhealthy)
    /\ rep.deepTruncated <=> Cardinality(Unhealthy) > Cap

\* A candidate's result is with its goroutine, in the channel, or taken, and in
\* one place only; the handler counts those it has taken.
SentBy(o) == worker[o] \in {"release", "gone"}
Taken == {o \in candidates : SentBy(o) /\ result[o] \in enriched}
WorkersInv ==
  /\ pc \in {"list", "rank"} => todo = {} /\ \A o \in Objects : worker[o] = "none"
  /\ \A o \in Objects : worker[o] # "none" => o \in candidates \ todo
  /\ \A o \in Objects : worker[o] \in {"send", "release", "gone"} =>
       result[o] \in Result /\ result[o].obj = o
ChannelInv ==
  /\ \A i \in 1 .. Len(ch) :
       /\ SentBy(ch[i].obj) /\ ch[i] = result[ch[i].obj] /\ ch[i] \notin enriched
       /\ \A j \in 1 .. Len(ch) : ch[i].obj = ch[j].obj => i = j
  /\ \A r \in enriched : SentBy(r.obj) /\ r = result[r.obj]
  /\ received = Cardinality(Taken)
ResultsInv ==
  /\ WorkersInv /\ ChannelInv
  /\ pc # "done" => \A o \in Objects : rep.cause[o] = None

\* A report that is done has waited for each of its diagnoses.
DoneInv == Done => EnrichedAsDiagnosed /\ \A o \in candidates : SentBy(o)
=============================================================================
