---------------------------- MODULE ActionEngine ----------------------------
(***************************************************************************)
(* The write path, internal/action/engine.go: five tools that change a     *)
(* cluster, each served by a goroutine of its own, all sharing one         *)
(* ConfirmationStore.  A tool call is a handler that runs through          *)
(*                                                                         *)
(*   idle -> ssar -> get -> preflight -> confirm                           *)
(*        -> reread -> recheck -> mutate -> idle                           *)
(*                                                                         *)
(* one request to the API server per step, and returns a status from any   *)
(* of them.  RestartDeployment, Scale, DeletePod and Cordon are that one   *)
(* skeleton with their own checks: the checks are operators of the action, *)
(* the skeleton is written once.                                           *)
(*                                                                         *)
(* The clusters change under the handlers: objects are removed and         *)
(* recreated, HPAs and PDBs come and go, nodes fail, permissions are       *)
(* withdrawn.  Every request can fail, and a mutation can be applied with  *)
(* its answer lost.                                                        *)
(***************************************************************************)
EXTENDS ConfirmationStore, Integers, Sequences, FiniteSets

CONSTANTS
  Handlers,        \* goroutines serving tool calls
  KindOf,          \* object -> its kind
  Calls,           \* the tool calls clients make: a subset of Call
  NoContext,       \* the context argument left out
  NoToken,         \* confirmation_id left out
  Home,            \* Engine.Cluster.ContextName
  Served,          \* the contexts Factory.ForContext can open
  ActionsEnabled,  \* the values Config.ActionsEnabled has, start after start
  MaxReplicas,     \* Config.MaxReplicas
  MaxMoves         \* bound: how often the clusters change by themselves

VARIABLES
  enabled,  \* Config.ActionsEnabled of the running process
  job,      \* handler -> the locals of the call it serves
  objs,     \* the objects of every cluster, by context and name
  gen,      \* how many objects have borne a name
  hpa,      \* names an HPA scales
  pdb,      \* names covered by a PDB with disruptionsAllowed = 0
  denied,   \* <<context, action>> pairs RBAC refuses
  moves,    \* how often the clusters have changed by themselves
  changes,  \* history: id -> the changes made under it, oldest first
  calm      \* history: <<h, p>> if no cluster changed since h was at p

worldVars == <<objs, gen, hpa, pdb, denied>>
engineVars == <<enabled, job, worldVars, moves, changes, calm>>
vars == <<storeVars, engineVars>>

Call == [action: Actions, obj: Objects, ctx: Contexts \cup {NoContext},
         args: Args, category: {"none", "useful", "useless"}, force: BOOLEAN]
Phases == {"idle", "ssar", "get", "preflight", "confirm",
           "reread", "recheck", "mutate"}
Statuses == {"none", "disabled", "forbidden", "error", "restart_not_recommended",
             "blocked_by_pdb", "preflight_failed", "confirmation_required",
             "confirmation_mismatch", "success"}
Keys == Contexts \X Objects

\* A UID names one object for ever: the name it bears, and which bearer it is.
UID(k, n) == <<k, n>>   \* n <= MaxMoves + 1: a successor takes a move
Object(k, n, p) ==
  [uid |-> UID(k, n), protected |-> p, unschedulable |-> FALSE, ready |-> TRUE]

ASSUME EngineAssumption ==
  /\ Calls \subseteq Call
  /\ Actions \subseteq {"restart_deployment", "scale", "delete_pod", "cordon", "uncordon"}
  /\ ActionsEnabled \subseteq BOOLEAN /\ MaxReplicas \in Nat /\ MaxMoves \in Nat
  /\ Home \in Contexts /\ Served \subseteq Contexts
  /\ Args \subseteq Int
  /\ UIDs = Keys \X (1 .. MaxMoves + 1) /\ NoUID \notin UIDs
  /\ Requests = Plan
  /\ NoContext \notin Contexts /\ NoToken \notin Tokens
  /\ KindOf \in [Objects -> {"Deployment", "StatefulSet", "ReplicaSet",
                             "Pod", "Node"}]
  /\ \A call \in Calls :
       /\ call.action = "restart_deployment" => KindOf[call.obj] = "Deployment"
       /\ call.action = "delete_pod" => KindOf[call.obj] = "Pod"
       /\ call.action \in {"cordon", "uncordon"} => KindOf[call.obj] = "Node"

Idle(s, a) ==
  [phase |-> "idle", call |-> Absent, token |-> NoToken, uid |-> NoUID,
   schedulable |-> FALSE, hpaSeen |-> FALSE, stored |-> Absent,
   status |-> s, applied |-> a]

EngineInit ==
  /\ StoreInit
  /\ enabled \in ActionsEnabled
  /\ job = [h \in Handlers |-> Idle("none", FALSE)]
  /\ objs = [k \in Keys |-> Object(k, 1, FALSE)]
  /\ gen = [k \in Keys |-> 1]
  /\ hpa = {} /\ pdb = {} /\ denied = {}
  /\ moves = 0
  /\ changes = [id \in Tokens |-> <<>>]
  /\ calm = {}

----------------------------------------------------------------------------
(* What a call is about.                                                   *)

\* clusterFor: no context, or the one the process started with, is Home;
\* any other goes through Factory.ForContext.
ClusterFor(c) == IF c \in {NoContext, Home} THEN Home ELSE c
Reachable(c) == ClusterFor(c) \in Served \cup {Home}

Key(call) == <<ClusterFor(call.ctx), call.obj>>
Target(h) == Key(job[h].call)
Act(h) == job[h].call.action

\* The kinds a tool works on; the others are refused or not found.
Scalable(o) == KindOf[o] \in {"Deployment", "StatefulSet", "ReplicaSet"}

\* Scale's checks of its arguments, before it asks the cluster anything.
ArgsRefused(call) ==
  /\ call.action = "scale"
  /\ call.args < 0 \/ call.args > MaxReplicas \/ ~Scalable(call.obj)

\* The Pending a handler binds its confirmation to.
WantOf(h) ==
  [action |-> Act(h), obj |-> job[h].call.obj, ctx |-> Target(h)[1],
   uid |-> job[h].uid, args |-> job[h].call.args, hpa |-> job[h].hpaSeen]

----------------------------------------------------------------------------
(* The checks of the clusters, as one request reads them.                  *)

SchedulableReady(c) ==
  {o \in Objects : /\ KindOf[o] = "Node" /\ objs[<<c, o>>] # Absent
                   /\ objs[<<c, o>>].ready /\ ~objs[<<c, o>>].unschedulable}
IsSchedulable(obj) == obj.ready /\ ~obj.unschedulable

\* matchingPDBBlock and matchingPDBBlockForPod: a PDB that matches the target
\* allows no disruption.
PDBBlocks(h) == Act(h) \in {"restart_deployment", "delete_pod"} /\ Target(h) \in pdb

\* hasHPA: the v2 list, then the v1 list; what the two together say is what held
\* at one of them.
OwnedByHPA(h) == Act(h) = "scale" /\ Target(h) \in hpa

\* The last-node rule of Cordon: the target as its GET showed it, the count
\* from the list.
LastNode(h) ==
  /\ Act(h) = "cordon"
  /\ job[h].schedulable
  /\ Cardinality(SchedulableReady(Target(h)[1])) <= 1

\* What makes a tool's check fail closed when the request it needs fails;
\* uncordon asks nothing.
HasCheck(a) == a # "uncordon"

----------------------------------------------------------------------------
(* How a handler moves.                                                    *)

CalmOf(h) == {h} \X {"get", "reread"}

\* Return with a status; Proceed to the next request.
Return(h, s) ==
  /\ job' = [job EXCEPT ![h] = Idle(s, job[h].applied)]
  /\ calm' = calm \ CalmOf(h)
Proceed(h, p) ==
  /\ job' = [job EXCEPT ![h].phase = p]
  /\ UNCHANGED calm

At(h, p) == job[h].phase = p
AsksOnly == UNCHANGED <<storeVars, enabled, worldVars, moves, changes>>

\* A call arrives.  Nothing is asked of a cluster before these checks.
BeginRefused(h, call) ==
  /\ At(h, "idle")
  /\ \/ /\ ~enabled
        /\ job' = [job EXCEPT ![h] = Idle("disabled", FALSE)]
     \/ /\ enabled
        /\ ArgsRefused(call) \/ ~Reachable(call.ctx)
        /\ job' = [job EXCEPT ![h] = Idle("error", FALSE)]
  /\ UNCHANGED calm
  /\ AsksOnly

\* Mutant of Begin: the switch is not read.
BeginAlways(h, call, id) ==
  /\ At(h, "idle") /\ ~ArgsRefused(call) /\ Reachable(call.ctx)
  /\ job' = [job EXCEPT ![h] = [Idle("none", FALSE) EXCEPT
                !.phase = "ssar", !.call = call, !.token = id]]
  /\ UNCHANGED calm
  /\ AsksOnly

Begin(h, call, id) ==
  /\ At(h, "idle")
  /\ enabled /\ ~ArgsRefused(call) /\ Reachable(call.ctx)
  /\ job' = [job EXCEPT ![h] = [Idle("none", FALSE) EXCEPT
                !.phase = "ssar", !.call = call, !.token = id]]
  /\ UNCHANGED calm
  /\ AsksOnly

\* SelfSubjectAllowed.
AskPermission(h) ==
  /\ At(h, "ssar")
  /\ \/ Return(h, "error")
     \/ <<Target(h)[1], Act(h)>> \in denied /\ Return(h, "forbidden")
     \/ <<Target(h)[1], Act(h)>> \notin denied /\ Proceed(h, "get")
  /\ AsksOnly

\* Mutant of GetTarget: a control-plane or mirror pod is not refused.
GetTargetAnyPod(h) ==
  /\ At(h, "get")
  /\ objs[Target(h)] # Absent
  /\ job' = [job EXCEPT ![h].uid = objs[Target(h)].uid,
        ![h].schedulable = IsSchedulable(objs[Target(h)]),
        ![h].phase = IF HasCheck(Act(h)) THEN "preflight" ELSE "confirm"]
  /\ calm' = calm \cup {<<h, "get">>}
  /\ AsksOnly

\* The GET that plans the write; DeletePod refuses control-plane and mirror
\* pods on what it shows.
GetTarget(h) ==
  /\ At(h, "get")
  /\ \/ Return(h, "error")
     \/ LET obj == objs[Target(h)]
        IN /\ obj # Absent
           /\ \/ /\ Act(h) = "delete_pod" /\ obj.protected
                 /\ Return(h, "error")
              \/ /\ ~(Act(h) = "delete_pod" /\ obj.protected)
                 /\ job' = [job EXCEPT ![h].uid = obj.uid,
                      ![h].schedulable = IsSchedulable(obj),
                      ![h].phase = IF HasCheck(Act(h)) THEN "preflight" ELSE "confirm"]
                 /\ calm' = calm \cup {<<h, "get">>}
  /\ AsksOnly

\* A restart that will not help is refused unless forced: the category is the
\* caller's, or else what inferRestartCategory reads off the pods just now.
NotRecommended(h, inferred) ==
  LET given == job[h].call.category
  IN  /\ Act(h) = "restart_deployment"
      /\ "useless" = IF given = "none" THEN inferred ELSE given
      /\ ~job[h].call.force

\* The checks before the confirmation: PDBs, HPAs, the list of nodes.
Preflight(h) ==
  /\ At(h, "preflight")
  /\ \/ NotRecommended(h, "useless") /\ Return(h, "restart_not_recommended")
     \/ /\ ~NotRecommended(h, "none")
        /\ \/ Return(h, "preflight_failed")
           \/ PDBBlocks(h) /\ Return(h, "blocked_by_pdb")
           \/ LastNode(h) /\ Return(h, "error")
           \/ /\ ~PDBBlocks(h) /\ ~LastNode(h)
              /\ job' = [job EXCEPT ![h].phase = "confirm",
                   ![h].hpaSeen = OwnedByHPA(h)]
              /\ UNCHANGED calm
  /\ AsksOnly

\* confirm without an id: the plan is stored and the caller is given its id.
Offer(h) ==
  /\ At(h, "confirm") /\ job[h].token = NoToken
  /\ \/ \E id \in Tokens : Put(WantOf(h), id) /\ Return(h, "confirmation_required")
     \/ PutFails /\ Return(h, "error")
  /\ UNCHANGED <<enabled, worldVars, moves, changes>>

\* Mutant of Redeem: a mismatch is not answered.
RedeemOrHang(h) ==
  /\ At(h, "confirm") /\ job[h].token # NoToken
  /\ LET id == job[h].token
     IN \/ /\ TakeMissing(id) \/ TakeExpired(id)
           /\ Return(h, "error")
        \/ /\ TakeOK(id, WantOf(h))
           /\ job' = [job EXCEPT ![h].phase = "reread",
                                 ![h].stored = items[id].plan]
           /\ UNCHANGED calm
  /\ UNCHANGED <<enabled, worldVars, moves, changes>>

\* confirm with an id: the plan is taken out of the store, or the call ends.
Redeem(h) ==
  /\ At(h, "confirm") /\ job[h].token # NoToken
  /\ LET id == job[h].token
     IN \/ /\ TakeMissing(id) \/ TakeExpired(id)
           /\ Return(h, "error")
        \/ /\ TakeMismatch(id, WantOf(h))
           /\ Return(h, "confirmation_mismatch")
        \/ /\ TakeOK(id, WantOf(h))
           /\ job' = [job EXCEPT ![h].phase = "reread",
                                 ![h].stored = items[id].plan]
           /\ UNCHANGED calm
  /\ UNCHANGED <<enabled, worldVars, moves, changes>>

\* Mutant of Reread: whatever bears the name now will do.
RereadAnyUID(h) ==
  /\ At(h, "reread")
  /\ objs[Target(h)] # Absent
  /\ job' = [job EXCEPT ![h].schedulable = IsSchedulable(objs[Target(h)]),
        ![h].phase = IF HasCheck(Act(h)) THEN "recheck" ELSE "mutate"]
  /\ calm' = calm \cup {<<h, "reread">>}
  /\ AsksOnly

\* The target is read again, by name; a successor of the confirmed object is
\* refused.
Reread(h) ==
  /\ At(h, "reread")
  /\ \/ Return(h, "error")
     \/ LET obj == objs[Target(h)]
        IN /\ obj # Absent
           /\ \/ obj.uid # job[h].stored.uid /\ Return(h, "confirmation_mismatch")
              \/ /\ obj.uid = job[h].stored.uid
                 /\ job' = [job EXCEPT ![h].schedulable = IsSchedulable(obj),
                      ![h].phase = IF HasCheck(Act(h)) THEN "recheck" ELSE "mutate"]
                 /\ calm' = calm \cup {<<h, "reread">>}
  /\ AsksOnly

\* Scale refuses an HPA that the confirmed plan did not know of.
NewHPA(h) == OwnedByHPA(h) /\ ~job[h].stored.hpa

\* The checks are made again; preflight_failed is also what NewHPA returns.
Recheck(h) ==
  /\ At(h, "recheck")
  /\ \/ Return(h, "preflight_failed")
     \/ PDBBlocks(h) /\ Return(h, "blocked_by_pdb")
     \/ LastNode(h) /\ Return(h, "error")
     \/ ~PDBBlocks(h) /\ ~LastNode(h) /\ ~NewHPA(h) /\ Proceed(h, "mutate")
  /\ AsksOnly

\* What the one patch or delete does to the object that bears the name now:
\* the request carries no UID and no resource version.
Changed(h) ==
  LET obj == objs[Target(h)]
  IN CASE Act(h) = "delete_pod" -> Absent
       [] Act(h) = "cordon"     -> [obj EXCEPT !.unschedulable = TRUE]
       [] Act(h) = "uncordon"   -> [obj EXCEPT !.unschedulable = FALSE]
       [] OTHER                 -> obj

\* The mutation is not applied: refused by RBAC, no such object, no answer.
MutateFails(h) ==
  /\ At(h, "mutate")
  /\ Return(h, "error")
  /\ AsksOnly

\* The mutation is applied; its answer may be lost.
Mutate(h) ==
  /\ At(h, "mutate")
  /\ objs[Target(h)] # Absent
  /\ <<Target(h)[1], Act(h)>> \notin denied
  /\ objs' = [objs EXCEPT ![Target(h)] = Changed(h)]
  /\ changes' = [changes EXCEPT ![job[h].token] = Append(@,
       [call |-> job[h].call, uid |-> objs[Target(h)].uid])]
  /\ \E s \in {"success", "error"} : job' = [job EXCEPT ![h] = Idle(s, TRUE)]
  /\ calm' = {}
  /\ UNCHANGED <<storeVars, enabled, gen, hpa, pdb, denied, moves>>

Serve(h) ==
  \/ AskPermission(h) \/ GetTarget(h) \/ Preflight(h) \/ Offer(h) \/ Redeem(h)
  \/ Reread(h) \/ Recheck(h) \/ Mutate(h) \/ MutateFails(h)

----------------------------------------------------------------------------
(* What happens around the handlers.                                       *)

\* The clusters change by themselves: other users, controllers, failures.
Move ==
  /\ moves < MaxMoves
  /\ moves' = moves + 1
  /\ calm' = {}
  /\ UNCHANGED <<storeVars, enabled, job, changes>>

Remove(k) ==
  /\ objs[k] # Absent
  /\ objs' = [objs EXCEPT ![k] = Absent]
  /\ UNCHANGED <<gen, hpa, pdb, denied>>

\* The name is given to a new object; a pod may be a mirror pod this time.
Recreate(k, p) ==
  /\ p => KindOf[k[2]] = "Pod"
  /\ objs' = [objs EXCEPT ![k] = Object(k, gen[k] + 1, p)]
  /\ gen' = [gen EXCEPT ![k] = @ + 1]
  /\ UNCHANGED <<hpa, pdb, denied>>

\* An object is edited in place: a node fails, recovers, is (un)cordoned by
\* hand; a pod's marks are edited.
Edit(k) ==
  /\ objs[k] # Absent
  /\ \/ /\ KindOf[k[2]] = "Node"
        /\ \/ objs' = [objs EXCEPT ![k].ready = ~@]
           \/ objs' = [objs EXCEPT ![k].unschedulable = ~@]
     \/ /\ KindOf[k[2]] = "Pod"
        /\ objs' = [objs EXCEPT ![k].protected = ~@]
  /\ UNCHANGED <<gen, hpa, pdb, denied>>

Flip(S, x) == (S \ {x}) \cup ({x} \ S)

FlipHPA(k) ==
  /\ Scalable(k[2])
  /\ hpa' = Flip(hpa, k)
  /\ UNCHANGED <<objs, gen, pdb, denied>>

FlipPDB(k) ==
  /\ KindOf[k[2]] \in {"Deployment", "Pod"}
  /\ pdb' = Flip(pdb, k)
  /\ UNCHANGED <<objs, gen, hpa, denied>>

FlipPermission(c, a) ==
  /\ denied' = Flip(denied, <<c, a>>)
  /\ UNCHANGED <<objs, gen, hpa, pdb>>

ClusterMoves ==
  /\ Move
  /\ \/ \E k \in Keys : Remove(k) \/ Edit(k) \/ FlipHPA(k) \/ FlipPDB(k)
     \/ \E k \in Keys, p \in BOOLEAN : Recreate(k, p)
     \/ \E c \in Contexts, a \in Actions : FlipPermission(c, a)

ClockTicks == Tick /\ UNCHANGED engineVars

\* Mutant of ServerRestarts: the confirmations outlive the process.
RestartKeepsStore ==
  /\ epoch < MaxEpoch /\ epoch' = epoch + 1
  /\ enabled' \in ActionsEnabled
  /\ job' = [h \in Handlers |-> Idle("none", FALSE)]
  /\ calm' = {}
  /\ UNCHANGED <<items, now, issued, uses, grant, sweptAt, worldVars, moves, changes>>

\* The process dies with its handlers and its store, and may come
\* back with another configuration; the clusters stay as they are.
ServerRestarts ==
  /\ Restart
  /\ enabled' \in ActionsEnabled
  /\ job' = [h \in Handlers |-> Idle("none", FALSE)]
  /\ calm' = {}
  /\ UNCHANGED <<worldVars, moves, changes>>

ClientCalls ==
  \E h \in Handlers, call \in Calls :
     BeginRefused(h, call) \/ \E id \in Tokens \cup {NoToken} : Begin(h, call, id)

Next ==
  \/ ClientCalls
  \/ \E h \in Handlers : Serve(h)
  \/ ClusterMoves \/ ClockTicks \/ ServerRestarts

Spec == EngineInit /\ [][Next]_vars

\* Every request to an API server is answered or runs into its deadline
\* (kube.WithTimeout in each handler), so a handler never stays where it is.
FairSpec == Spec /\ \A h \in Handlers : WF_vars(Serve(h))
=============================================================================
