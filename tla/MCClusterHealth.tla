--------------------------- MODULE MCClusterHealth ---------------------------
(* Instances of ClusterHealth small enough for TLC.                        *)
EXTENDS ClusterHealthProps

Obj(kind, ns, name) == [kind |-> kind, ns |-> ns, name |-> name]

\* Two pods of one name in two namespaces, and one object of four other kinds.
MCObjects == {Obj("Node", "", "n"), Obj("Pod", "a", "p"), Obj("Pod", "b", "p"),
              Obj("Deployment", "a", "p"), Obj("Job", "a", "j"),
              Obj("PersistentVolumeClaim", "a", "d")}

\* Healthy objects of two kinds; of the others a list shows an unhealthy one or none.
MCShows ==
  [o \in MCObjects |->
     CASE o.kind = "Node" -> {[severities |-> {"warning"}]}
       [] o.kind = "Pod" /\ o.ns = "a" -> {[severities |-> {}], [severities |-> {"critical"}]}
       [] o.kind = "Pod" -> {[severities |-> {"warning", "critical"}]}
       [] o.kind = "Deployment" -> {[desired |-> 2, ready |-> 2], [desired |-> 2, ready |-> 0]}
       [] o.kind = "Job" -> {[failedCondition |-> FALSE, succeeded |-> 0, failed |-> 1]}
       [] OTHER -> {[bound |-> FALSE]}]

\* Their order by kind, namespace and name.
MCRank ==
  [o \in MCObjects |->
     CASE o.kind = "Deployment" -> 1
       [] o.kind = "Job" -> 2
       [] o.kind = "Node" -> 3
       [] o.kind = "PersistentVolumeClaim" -> 4
       [] o.kind = "Pod" /\ o.ns = "a" -> 5
       [] OTHER -> 6]
=============================================================================
