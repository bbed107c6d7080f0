----------------------------- MODULE MCDiagnosis -----------------------------
(* Instances of Diagnosis small enough for TLC.                            *)
EXTENDS DiagnosisProps

CONSTANTS ctx, dflt, other, web, web1, we

----------------------------------------------------------------------------
(* Three namespaces, and names two of which begin with the third.          *)

MCNamespaceList == <<ctx, dflt, other>>
MCExtends == {<<web1, web>>, <<web, we>>, <<web1, we>>}

Ask(name) == [kind |-> "namespaced", custom |-> FALSE, name |-> name, namespace |-> Empty,
              all |-> FALSE, prefixMatch |-> TRUE, context |-> ctx]
MCQueries ==
  {Ask(web), [Ask(web) EXCEPT !.prefixMatch = FALSE], [Ask(web) EXCEPT !.context = Empty],
   [Ask(web) EXCEPT !.all = TRUE], [Ask(Empty) EXCEPT !.namespace = other]}
  \cup {[Ask(n) EXCEPT !.namespace = other, !.prefixMatch = p] : n \in {web, we}, p \in BOOLEAN}
  \cup {[Ask(web) EXCEPT !.kind = "cluster", !.custom = c] : c \in BOOLEAN}

MCWorlds ==
  LET In(a, b, c, d) == (ctx :> a) @@ (dflt :> b) @@ (other :> c) @@ (Cluster :> d)
      Some == {{}, {web}, {web1}}
  IN {In(a, b, c, {}) : a, b \in Some, c \in Some \cup {{web, web1}}}
     \cup {In({}, {}, {}, d) : d \in SUBSET {web, web1}}

----------------------------------------------------------------------------
(* Pods.                                                                   *)

Running == [waiting |-> "", text |-> {}, exited |-> "", failed |-> FALSE, lastOOM |-> FALSE,
            restarts |-> 0, ready |-> TRUE, init |-> FALSE, probes |-> {}]
Waiting(reason, text) == [Running EXCEPT !.waiting = reason, !.text = text, !.ready = FALSE]
Crashing == [Waiting("CrashLoopBackOff", {}) EXCEPT !.restarts = 6, !.lastOOM = TRUE]

GoodNode == [name |-> "node", conditions |-> [Ready |-> "True"], text |-> {}, cordoned |-> FALSE,
             labels |-> {<<"zone", "a">>}, taints |-> {}, cpu |-> 2, memory |-> 2]
BadNode == [GoodNode EXCEPT !.conditions = [Ready |-> "False", DiskPressure |-> "True"],
                            !.cordoned = TRUE]

Event(type, reason, text) == [type |-> type, reason |-> reason, text |-> text]
NoEvents == The("events") :> <<>>
OnNode(node) == (The("node") :> node) @@ (The("node_events") :> <<>>) @@ (The("metrics") :> FALSE)

NewPod(name, owner, containers) ==
  [kind |-> "Pod", name |-> name, owner |-> owner, phase |-> "Running", assigned |-> TRUE,
   containers |-> containers, conditions |-> {}, ports |-> {}, refs |-> <<>>,
   requests |-> [cpu |-> 1, memory |-> 1], selector |-> {}, terms |-> <<>>, tolerations |-> {},
   unsupported |-> {}, there |-> NoEvents @@ OnNode(GoodNode) @@ (The("logs") :> {})]
NotReady == {[type |-> "Ready", status |-> "False", text |-> {}]}
Failing(name, owner, container) ==
  [NewPod(name, owner, <<container>>) EXCEPT !.conditions = NotReady]
Evicted(name, owner) == [NewPod(name, owner, <<>>) EXCEPT !.phase = "Failed"]

Uses(of, name, key, projected) == [of |-> of, name |-> name, key |-> key, projected |-> projected]
Needs(pod, refs, have) == [pod EXCEPT !.refs = refs, !.there = have @@ @]

\* A pod that no node takes: one is too small, one is of the wrong zone, and the
\* third is tainted, which a toleration may help.
Zone(op, value) ==
  [exprs |-> {[op |-> op, key |-> "zone", values |-> {value}]}, nodes |-> {"node", "full", "far"},
   otherField |-> FALSE]
Nodes ==
  {[GoodNode EXCEPT !.name = "full", !.cpu = 0], [GoodNode EXCEPT !.name = "far", !.labels = {}],
   [GoodNode EXCEPT !.taints = {[key |-> "gpu", value |-> "yes", effect |-> "NoSchedule"]}]}
Tolerant == {[key |-> "gpu", op |-> "Equal", value |-> "yes", effect |-> ""]}
Pending(name) ==
  [NewPod(name, "", <<>>) EXCEPT
     !.phase = "Pending", !.assigned = FALSE, !.terms = <<Zone("In", "a")>>,
     !.selector = {<<"zone", "a">>}, !.there = NoEvents @@ (The("nodes") :> Nodes)
                                                 @@ (The("metrics") :> FALSE)]

MCPods ==
  { \* A healthy one with a configmap and a key of a secret; the secret is gone.
    Needs(NewPod("p1", "", <<Running>>),
      <<Uses("configmap", "conf", "", FALSE), Uses("secret", "cred", "k", FALSE)>>,
      <<"configmap", "conf">> :> {"a"}),
    \* The same with everything there, and a volume that is projected.
    Needs(NewPod("p2", "", <<Running>>),
      <<Uses("secret", "cred", "k", FALSE), Uses("secret", "tok", "x", TRUE), Uses("pvc", "data", "", FALSE)>>,
      (<<"secret", "cred">> :> {"k"}) @@ (<<"secret", "tok">> :> {}) @@ (<<"pvc", "data">> :> "Bound")),
    \* A crash loop, with logs that say why.
    [Failing("p3", "", [Crashing EXCEPT !.probes = {"readiness", "liveness"}]) EXCEPT
       !.there = (The("previous_logs") :> {"panic"}) @@ @],
    \* An image that may not be pulled, and its pull secret.
    Needs(Failing("p4", "", Waiting("ImagePullBackOff", {"unauthorized", "imagepull", "errimagepull"})),
      <<Uses("pull", "reg", "", FALSE), Uses("account", "sa", "", FALSE), Uses("pvc", "data", "", FALSE)>>,
      <<"pvc", "data">> :> "Pending"),
    \* Running, with an Event and a log about memory, and nothing in the status.
    [NewPod("p5", "", <<Running>>) EXCEPT
       !.there = (The("events") :> <<Event("Normal", "Scheduled", {}), Event("Normal", "Pulled", {}),
                                     Event("Warning", "SystemOOM", {"oomkill"})>>)
                 @@ (The("logs") :> {"oom"}) @@ @],
    \* Running, with a log that names a failed login.
    [NewPod("p6", "", <<Running>>) EXCEPT
       !.there = (The("logs") :> {"auth_failure"}) @@ (The("node") :> BadNode) @@ @],
    [NewPod("p7", "", <<Running>>) EXCEPT !.there = (The("logs") :> {"timeout"}) @@ @],
    Pending("p8"), [Pending("p9") EXCEPT !.tolerations = Tolerant],
    [Pending("p10") EXCEPT !.requests.cpu = 3, !.unsupported = {{"affinity", "unsupported_scheduler", "schedul"}},
                           !.terms = <<Zone("Gt", "a"), Zone("NotIn", "b")>>] }

----------------------------------------------------------------------------
(* Workloads, in the namespace of their pods.                              *)

Set(name, revision) == [name |-> name, owner |-> "d", revision |-> revision]
Template == [assigned |-> FALSE, refs |-> <<Uses("configmap", "conf", "", FALSE)>>]
NewDeployment(desired, ready, pods) ==
  [kind |-> "Deployment", name |-> "d", desired |-> desired, ready |-> ready, conditions |-> {},
   template |-> Template,
   there |-> NoEvents @@ (The("replicasets") :> <<Set("d1", 1), Set("d2", 2)>>)
             @@ (The("pods") :> pods) @@ (The("hpas") :> <<"d">>) @@ (The("pdbs") :> <<>>)]

MCDeployments ==
  { \* Nothing wrong with it, and all of it fits in the graph.
    [NewDeployment(1, 1, <<NewPod("a", "d2", <<Running>>)>>) EXCEPT
       !.there = (The("replicasets") :> <<Set("d2", 2)>>) @@ @],
    \* As many pods ready as desired, and one that was evicted.
    [NewDeployment(1, 1, <<NewPod("a", "d2", <<Running>>), Evicted("b", "d2")>>) EXCEPT
       !.there = (The("replicasets") :> <<Set("d2", 2)>>) @@ @],
    \* More unhealthy pods than are diagnosed, more nodes than the graph holds.
    [NewDeployment(3, 0, <<NewPod("o", "d1", <<Running>>), Failing("a", "d2", Crashing),
                           Evicted("b", "d2"), Failing("c", "d2", Waiting("ErrImagePull", {"unauthorized"}))>>)
       EXCEPT !.conditions = {[type |-> "Progressing", status |-> "False",
                               reason |-> "ProgressDeadlineExceeded", text |-> {}]}] }

Claim(name, phase) ==
  [name |-> name, owner |-> "s", volume |-> "v", class |-> "fast", phase |-> phase]
MCSets ==
  {[kind |-> "StatefulSet", name |-> "s", desired |-> 2, ready |-> 1, updating |-> u, template |-> Template,
    there |-> NoEvents @@ (The("pods") :> <<NewPod("s0", "s", <<Running>>), Failing("s1", "s", Crashing)>>)
              @@ (The("claims") :> <<Claim("c0", "Bound"), Claim("c1", phase)>>) @@ (The("hpas") :> <<>>)] :
     u \in BOOLEAN, phase \in {"Bound", "Pending"}}
MCDaemons ==
  {[kind |-> "DaemonSet", name |-> "ds", desired |-> 2, ready |-> ready, misscheduled |-> ready = 1,
    template |-> Template,
    there |-> NoEvents @@ (The("pods") :>
                <<NewPod("ds0", "ds", <<Running>>)>>
                \o (IF ready = 1 THEN <<Failing("ds1", "ds", Waiting("CreateContainerConfigError", {}))>>
                    ELSE <<NewPod("ds1", "ds", <<Running>>)>>))] : ready \in {1, 2}}

NewJob(name, failures, failed, succeeded, pods) ==
  [kind |-> "Job", name |-> name, owner |-> "cj", failures |-> failures, failed |-> failed,
   succeeded |-> succeeded, there |-> NoEvents @@ (The("pods") :> pods)]
MCJobs ==
  { NewJob("j1", {}, 0, 0, <<Failing("j1a", "j1", Crashing)>>),
    NewJob("j2", {"BackoffLimitExceeded"}, 1, 0, <<Evicted("j2a", "j2")>>),
    NewJob("j3", {}, 0, 1, <<[NewPod("j3a", "j3", <<[Running EXCEPT !.ready = FALSE]>>)
                                EXCEPT !.phase = "Succeeded", !.conditions = NotReady]>>),
    NewJob("j4", {}, 1, 0, <<>>) }
NewCron(jobs, suspended) ==
  [kind |-> "CronJob", name |-> "cj", forbid |-> TRUE, active |-> Len(jobs), suspended |-> suspended,
   never |-> jobs = <<>>, there |-> NoEvents @@ (The("jobs") :> jobs)]
MCCrons ==
  { NewCron(<<>>, FALSE),
    NewCron(<<NewJob("j1", {}, 0, 0, <<Failing("j1a", "j1", Crashing)>>),
              NewJob("j2", {"DeadlineExceeded"}, 1, 0, <<Evicted("j2a", "j2")>>)>>, TRUE),
    \* A job that was started by hand.
    [NewCron(<<NewJob("j1", {"DeadlineExceeded"}, 1, 0, <<>>)>>, FALSE) EXCEPT !.never = TRUE] }

----------------------------------------------------------------------------
(* The network, storage, nodes, and any other kind.                        *)

Port(name, number) == [name |-> name, number |-> number]
Slice(total, ready) == [name |-> "sl", total |-> total, ready |-> ready]
NewService(selects, pods, slices) ==
  [kind |-> "Service", name |-> "svc", selects |-> selects, headless |-> FALSE, external |-> FALSE,
   targets |-> {Port("http", 0), Port("", 80)},
   there |-> NoEvents @@ (The("pods") :> pods) @@ (The("slices") :> slices)
             @@ (The("endpoints") :> [total |-> 0, ready |-> 0])]
Web(name) == [NewPod(name, "", <<Running>>) EXCEPT !.ports = {Port("http", 80)}]
MCServices ==
  { NewService(TRUE, <<Web("a")>>, <<Slice(1, 1)>>),
    NewService(TRUE, <<[Web("a") EXCEPT !.ports = {Port("api", 90)}], Failing("b", "", Crashing)>>,
               <<Slice(1, 1), Slice(1, 0)>>),
    NewService(TRUE, <<Failing("b", "", Crashing)>>, <<Slice(1, 0)>>),
    \* A pod that serves, and one that was evicted from a bad node.
    NewService(TRUE, <<Web("a"), [Web("b") EXCEPT !.phase = "Failed", !.containers = <<>>,
                                                       !.there = (The("node") :> BadNode) @@ @]>>,
               <<Slice(1, 1)>>),
    NewService(TRUE, <<>>, <<>>), NewService(FALSE, <<>>, <<>>),
    [NewService(FALSE, <<>>, <<>>) EXCEPT !.external = TRUE] }

Backend(service, number, port) == [service |-> service, number |-> number, port |-> port]
MCIngresses ==
  { [kind |-> "Ingress", name |-> "ing", backends |-> <<Backend("a", 80, ""), Backend("b", 0, "api")>>,
     class |-> "nginx", tls |-> <<"cert">>,
     there |-> NoEvents @@ (<<"service", "a">> :> {Port("http", 80)})
               @@ (<<"slices", "a">> :> <<Slice(1, 1)>>) @@ has] :
     has \in { (<<"tls", "cert">> :> "yes") @@ (The("class") :> "yes") @@
               (<<"service", "b">> :> {Port("http", 80)}) @@ (<<"slices", "b">> :> <<Slice(1, 0)>>),
               <<"tls", "other">> :> "yes" } }

MCClaims ==
  { [kind |-> "PersistentVolumeClaim", name |-> "pvc", phase |-> phase,
     volume |-> IF phase = "Pending" THEN "" ELSE "pv", class |-> "fast",
     there |-> NoEvents @@ has] :
     phase \in {"Pending", "Bound", "Lost"}, has \in {<<>>, (The("class") :> "yes") @@ (The("volume") :> "yes")} }
MCNodes ==
  { [kind |-> "Node", name |-> "n", node |-> node,
     there |-> NoEvents @@ (The("pods") :> <<>>) @@ (The("metrics") :> FALSE)] : node \in {GoodNode, BadNode} }
MCGenerics ==
  { [kind |-> "Generic", name |-> "x", cluster |-> cluster, conditions |-> conditions, there |-> NoEvents] :
     cluster \in BOOLEAN,
     conditions \in {{}, {[type |-> "Degraded", status |-> "True", reason |-> "Broken", text |-> {}]}} }

MCObjects ==
  UNION {MCPods, MCDeployments, MCSets, MCDaemons, MCJobs, MCCrons, MCServices, MCIngresses,
         MCClaims, MCNodes, MCGenerics}

ASSUME MCPlainlyWorded == \A o \in MCObjects : PlainlyWorded(o)

\* Only what finds its evidence with lists.
MCOwners == MCJobs \cup MCCrons
=============================================================================
