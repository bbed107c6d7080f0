-------------------------- MODULE ActionEngineProps --------------------------
(***************************************************************************)
(* What is checked of ActionEngine.                                        *)
(***************************************************************************)
EXTENDS ActionEngine

Job == [phase: Phases, call: Calls \cup {Absent}, token: Tokens \cup {NoToken},
        uid: UIDs \cup {NoUID}, schedulable: BOOLEAN, hpaSeen: BOOLEAN,
        stored: Plan \cup {Absent}, status: Statuses, applied: BOOLEAN]
Obj == [uid: UIDs, protected: BOOLEAN, unschedulable: BOOLEAN, ready: BOOLEAN]
Change == [call: Calls, uid: UIDs]

JobsTyped ==
  /\ job \in [Handlers -> Job]
  /\ \A h \in Handlers :
       /\ job[h].phase # "idle" => job[h].call \in Calls
       /\ job[h].phase \in {"reread", "recheck", "mutate"} =>
            job[h].token \in Tokens /\ job[h].stored \in Plan
WorldTyped ==
  /\ objs \in [Keys -> Obj \cup {Absent}]
  /\ gen \in [Keys -> Nat \ {0}]
  /\ moves \in 0 .. MaxMoves
  /\ \A k \in Keys : gen[k] <= moves + 1
  /\ hpa \subseteq Keys /\ pdb \subseteq Keys
  /\ denied \subseteq Contexts \X Actions
EngineTypeOK ==
  /\ StoreTypeOK
  /\ JobsTyped
  /\ WorldTyped
  /\ enabled \in BOOLEAN
  /\ changes \in [Tokens -> Seq(Change)]
  /\ calm \subseteq Handlers \X {"get", "reread"}

\* The step in which handler h's mutation is applied by the API server.
Writes(h) == job'[h].applied /\ ~job[h].applied

\* No write without a confirmation of that write: what was changed under an
\* id is what the id was issued for (target, cluster, parameters), and it was
\* changed once, whatever other handlers, retries and restarts do.
DoesPlan(p, change) ==
  /\ p.action = change.call.action /\ p.obj = change.call.obj
  /\ p.ctx = ClusterFor(change.call.ctx) /\ p.args = change.call.args
WritesAsConfirmed ==
  \A id \in Tokens :
    /\ Len(changes[id]) <= 1
    /\ \A i \in 1 .. Len(changes[id]) :
         issued[id] # Absent /\ DoesPlan(issued[id].plan, changes[id][i])

\* What the documentation asks of the moment of the mutation
\* (docs/security.md:144-153, "Revalidation").
Safe(h) ==
  LET c == Target(h)[1]
      obj == objs[Target(h)]
  IN  /\ obj.uid = job[h].stored.uid
      /\ Act(h) \in {"restart_deployment", "delete_pod"} => Target(h) \notin pdb
      /\ Act(h) = "scale" /\ Target(h) \in hpa => job[h].stored.hpa
      /\ Act(h) = "cordon" /\ IsSchedulable(obj) =>
           SchedulableReady(c) \ {job[h].call.obj} # {}

\* The revalidation closes everything but its own window: a write is made on
\* the confirmed object, with no PDB or new HPA against it, and leaves a
\* schedulable node, unless a cluster changed after the handler's last read
\* of the target.  Nothing older (the plan, the wait for the user, the reads
\* of the second call) can make it unsafe.
CalmWriteIsSafe ==
  [][\A h \in Handlers : Writes(h) /\ <<h, "reread">> \in calm => Safe(h)]_vars

\* A control-plane or mirror pod is not deleted unless its marks, or the pod,
\* changed after the GET of the call that deletes it: the marks are not read
\* again with the UID.
CalmDeleteSparesProtected ==
  [][\A h \in Handlers :
       Writes(h) /\ Act(h) = "delete_pod" /\ <<h, "get">> \in calm
         => ~objs[Target(h)].protected]_vars

\* The inductive invariant behind these two: what a handler has seen is still
\* so while no cluster has changed.
CalmFor(h) ==
  /\ <<h, "get">> \in calm =>
       /\ job[h].phase \notin {"idle", "ssar", "get"}
       /\ Act(h) = "delete_pod" => ~objs[Target(h)].protected
  /\ <<h, "reread">> \in calm =>
       /\ job[h].phase \in {"recheck", "mutate"}
       /\ objs[Target(h)] # Absent
       /\ objs[Target(h)].uid = job[h].stored.uid
       /\ job[h].schedulable = IsSchedulable(objs[Target(h)])
       /\ job[h].phase = "mutate" /\ HasCheck(Act(h)) =>
            ~PDBBlocks(h) /\ ~NewHPA(h) /\ ~LastNode(h)
CalmInv == \A h \in Handlers : CalmFor(h)

\* The confirmation a handler holds is its own and is spent: between Take and
\* the mutation no other handler holds the id and the store has dropped it.
Holds(h, id) ==
  job[h].token = id /\ job[h].phase \in {"reread", "recheck", "mutate"}
ClaimExclusive ==
  \A h \in Handlers, id \in Tokens :
    Holds(h, id) =>
      /\ items[id] = Absent
      /\ changes[id] = <<>>
      /\ \A g \in Handlers \ {h} : ~Holds(g, id)

\* The inductive invariant behind these two: an id is held by one handler,
\* once spent, for the plan it was issued for; and what was written was spent.
HoldersGenuine ==
  \A h \in Handlers, id \in Tokens :
    Holds(h, id) =>
      /\ uses[id] = 1 /\ issued[id] # Absent
      /\ job[h].stored = issued[id].plan
      /\ DoesPlan(issued[id].plan, job[h])
WrittenWasSpent == \A id \in Tokens : changes[id] # <<>> => uses[id] = 1
ClaimInv ==
  ClaimExclusive /\ HoldersGenuine /\ WrittenWasSpent /\ WritesAsConfirmed

\* A process started with writes disabled makes none, not even one that was
\* confirmed in its predecessor (docs/security.md, "Actions Disabled by
\* Default").
DisabledWritesNothing == [][\A h \in Handlers : Writes(h) => enabled]_vars

\* Its inductive invariant.
BusyIsEnabled == \A h \in Handlers : job[h].phase # "idle" => enabled

\* A tool call always comes to an end, with some status.
CallsReturn == \A h \in Handlers : ~At(h, "idle") ~> At(h, "idle")

----------------------------------------------------------------------------
(* Two claims of the documentation, taken at their word.                   *)

\* docs/security.md:146-149: "Immediately before mutate, the engine: Re-GETs
\* the target; refuses if UID changed (object was recreated)".
ConfirmedObjectWritten ==
  [][\A h \in Handlers :
       Writes(h) => objs[Target(h)].uid = job[h].stored.uid]_vars

\* internal/mcp/handlers.go: "Refuses to cordon the last schedulable Ready
\* node."
LastNodeSpared ==
  [][\A h \in Handlers :
       Writes(h) /\ Act(h) = "cordon" /\ IsSchedulable(objs[Target(h)])
         => SchedulableReady(Target(h)[1]) \ {job[h].call.obj} # {}]_vars

----------------------------------------------------------------------------
(* The engine implements the confirmed write.                              *)

WriteStage ==
  [id \in Tokens |->
     IF issued[id] = Absent THEN "unissued"
     ELSE IF changes[id] # <<>> THEN "written"
     ELSE IF \E h \in Handlers : Holds(h, id) THEN "claimed"
     ELSE IF items[id] # Absent THEN "offered"
     ELSE "void"]
WritePlan ==
  [id \in Tokens |-> IF issued[id] = Absent THEN Absent ELSE issued[id].plan]

Confirmed == INSTANCE ConfirmedWrite WITH
               Write <- Change, NoPlan <- Absent, Does <- DoesPlan,
               stage <- WriteStage, planOf <- WritePlan, written <- changes

\* Every behaviour of the engine is one of ConfirmedWrite.
ImplementsConfirmedWrite == Confirmed!WriteSpec

\* The engine uses the store only through its methods.
UsesTheStore == StoreSpec
=============================================================================
