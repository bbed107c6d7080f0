--------------------------- MODULE DiagnosisFanout ---------------------------
(***************************************************************************)
(* How a diagnosis fans out: internal/diagnostic/bounded.go, cache.go, and *)
(* the parts of engine.go that use them.  A Diagnose call is a tree of     *)
(* tasks: the call itself, the jobs of a CronJob, the pods of a job or of  *)
(* a workload.  A task lists its children, runs them through runBounded,   *)
(* waits, and reads what else it needs through the call's apiCache.        *)
(*                                                                         *)
(* Each child of a fan-out is a goroutine that waits for a slot of that    *)
(* fan-out's own semaphore or for the end of the call's context; an only   *)
(* child runs in its parent's goroutine and waits for neither.  The cache  *)
(* is locked for a look-up and for a store, and not for the request        *)
(* between the two.                                                        *)
(*                                                                         *)
(* The variables `began' and `got' are history: no action reads them.      *)
(***************************************************************************)
EXTENDS Naturals, Sequences, FiniteSets

CONSTANTS
  Tasks,          \* everything a set of Diagnose calls may run
  Calls,          \* the Diagnose calls themselves: the roots
  CallOf,         \* task -> the call it is part of
  Children,       \* task -> what it fans out to, after the cap on deep pods
  Keys,           \* the cache keys: one API object or list each
  Reads,          \* task -> the keys it reads, in order, once its children end
  MaxConcurrent,  \* Config.MaxConcurrentK8s; 0 is "not configured"
  MaxVersion,     \* bound: how often an API object changes
  None            \* "no entry", "no answer"

VARIABLES
  pc,       \* task -> where it is
  next,     \* task -> which of Reads it is at
  answer,   \* task -> what its request returned, until get returns
  cache,    \* call -> key -> the entry of its apiCache
  over,     \* calls whose context is done
  version,  \* key -> the present version of the object at the API server
  began,    \* history: call -> the versions when it began
  got       \* history: task -> the versions it went on with, in order

taskVars == <<pc, next, answer, got>>
vars == <<taskVars, cache, over, version, began>>

\* runBounded: a limit of zero becomes eight.
Limit == IF MaxConcurrent = 0 THEN 8 ELSE MaxConcurrent

Phases == {"idle", "queued", "list", "wait", "read", "load", "check", "store",
           "done", "skipped"}
Running == {"list", "wait", "read", "load", "check", "store"}
Ended == {"done", "skipped"}

\* What a request comes back with.  "answered": what the API server said, the
\* object, that there is none, a refusal, or an error of its own.  "timeout": the
\* one error of the server's that apierrors.IsTimeout knows.  "unreached": no answer
\* and the call not over, so the REST client's timeout (APITimeout, shorter than a
\* call) or a lost connection.  "cancelled": the error of a request whose context is
\* done.
Kinds == {"answered", "timeout", "unreached", "cancelled"}
Answer == [kind: Kinds, version: Nat]

ASSUME FanoutAssumption ==
  /\ Calls \subseteq Tasks
  /\ CallOf \in [Tasks -> Calls]
  /\ \A r \in Calls : CallOf[r] = r
  /\ Children \in [Tasks -> SUBSET Tasks]
  /\ \A t \in Tasks : IsFiniteSet(Children[t])
  /\ \A t \in Tasks : \A c \in Children[t] : CallOf[c] = CallOf[t] /\ c \notin Calls
  /\ \A t, u \in Tasks : t # u => Children[t] \cap Children[u] = {}
  /\ Reads \in [Tasks -> Seq(Keys)]
  /\ MaxConcurrent \in Nat /\ MaxVersion \in Nat
  /\ None \notin Answer

Init ==
  /\ pc = [t \in Tasks |-> "idle"]
  /\ next = [t \in Tasks |-> 1]
  /\ answer = [t \in Tasks |-> None]
  /\ cache = [r \in Calls |-> [k \in Keys |-> None]]
  /\ over = {}
  /\ version = [k \in Keys |-> 0]
  /\ began = [r \in Calls |-> [k \in Keys |-> 0]]
  /\ got = [t \in Tasks |-> <<>>]

At(t, p) == pc[t] = p
Goto(t, p) == pc' = [pc EXCEPT ![t] = p]

----------------------------------------------------------------------------
(* A call.                                                                 *)

\* Mutant of Diagnose: the engine keeps the cache of an earlier call.
DiagnoseKeepsCache(r) ==
  /\ At(r, "idle")
  /\ Goto(r, "list")
  /\ \E q \in Calls : cache' = [cache EXCEPT ![r] = cache[q]]
  /\ began' = [began EXCEPT ![r] = version]
  /\ UNCHANGED <<next, answer, got, over, version>>

\* Diagnose works on a copy of the engine, with a new cache.
Diagnose(r) ==
  /\ At(r, "idle")
  /\ Goto(r, "list")
  /\ cache' = [cache EXCEPT ![r] = [k \in Keys |-> None]]
  /\ began' = [began EXCEPT ![r] = version]
  /\ UNCHANGED <<next, answer, got, over, version>>

\* The deadline of the tool call passes, or its client goes away.
ContextEnds(r) ==
  /\ ~At(r, "idle") /\ r \notin over
  /\ over' = over \cup {r}
  /\ UNCHANGED <<taskVars, cache, version, began>>

----------------------------------------------------------------------------
(* The fan-out.                                                            *)

\* The list of children could not be read: the task goes on with none.
ListFails(t) ==
  /\ At(t, "list")
  /\ Goto(t, "read")
  /\ UNCHANGED <<next, answer, got, cache, over, version, began>>

\* runBounded starts one goroutine per child, or runs an only child inline.
Spawn(t) ==
  /\ At(t, "list")
  /\ pc' = [u \in Tasks |->
       IF u = t THEN "wait"
       ELSE IF u \notin Children[t] THEN pc[u]
       ELSE IF Cardinality(Children[t]) = 1 THEN "list" ELSE "queued"]
  /\ UNCHANGED <<next, answer, got, cache, over, version, began>>

\* The slots of t's fan-out that are taken.
Slots(t) == {c \in Children[t] : pc[c] \in Running}

\* Mutants of Enter: one semaphore for a whole call; no semaphore at all.
EnterShared(t, c) ==
  /\ At(t, "wait") /\ c \in Children[t] /\ At(c, "queued")
  /\ Cardinality(UNION {Slots(u) : u \in {v \in Tasks : CallOf[v] = CallOf[t]}}) < Limit
  /\ Goto(c, "list")
  /\ UNCHANGED <<next, answer, got, cache, over, version, began>>
EnterAtOnce(t, c) ==
  /\ At(t, "wait") /\ c \in Children[t] /\ At(c, "queued")
  /\ Goto(c, "list")
  /\ UNCHANGED <<next, answer, got, cache, over, version, began>>

\* A child gets a slot of its fan-out; it may even if the context is done,
\* since select takes either case when both are ready.
Enter(t, c) ==
  /\ At(t, "wait") /\ c \in Children[t] /\ At(c, "queued")
  /\ Cardinality(Slots(t)) < Limit
  /\ Goto(c, "list")
  /\ UNCHANGED <<next, answer, got, cache, over, version, began>>

\* A child gives up its place in the queue; its result stays empty.
Skip(c) ==
  /\ At(c, "queued") /\ CallOf[c] \in over
  /\ Goto(c, "skipped")
  /\ UNCHANGED <<next, answer, got, cache, over, version, began>>

\* Mutant of Join: the goroutine that could not start is not waited for.
JoinRunning(t) ==
  /\ At(t, "wait")
  /\ Slots(t) = {}
  /\ Goto(t, "read")
  /\ UNCHANGED <<next, answer, got, cache, over, version, began>>

\* wg.Wait.
Join(t) ==
  /\ At(t, "wait")
  /\ \A c \in Children[t] : pc[c] \in Ended
  /\ Goto(t, "read")
  /\ UNCHANGED <<next, answer, got, cache, over, version, began>>

----------------------------------------------------------------------------
(* The cache.                                                              *)

Key(t) == Reads[t][next[t]]
Pending(t) == next[t] <= Len(Reads[t])

\* Mutant of GoOnWith: the caller reads the same key again.
GoOnWithSame(t, a) ==
  /\ answer' = [answer EXCEPT ![t] = None]
  /\ got' = [got EXCEPT ![t] = Append(@, a.version)]
  /\ Goto(t, "read")
  /\ UNCHANGED next

\* get returns a to its caller.
GoOnWith(t, a) ==
  /\ next' = [next EXCEPT ![t] = @ + 1]
  /\ answer' = [answer EXCEPT ![t] = None]
  /\ got' = [got EXCEPT ![t] = Append(@, a.version)]
  /\ Goto(t, "read")

\* The look-up, under the lock.
LookUp(t) ==
  /\ At(t, "read") /\ Pending(t)
  /\ LET e == cache[CallOf[t]][Key(t)]
     IN \/ e = None /\ Goto(t, "load") /\ UNCHANGED <<next, answer, got>>
        \/ e # None /\ GoOnWith(t, e)
  /\ UNCHANGED <<cache, over, version, began>>

\* load, with no lock held: what the API server answers now, or an error.
Load(t) ==
  /\ At(t, "load")
  /\ \E kind \in Kinds :
       /\ kind = "cancelled" => CallOf[t] \in over
       /\ answer' = [answer EXCEPT ![t] = [kind |-> kind, version |-> version[Key(t)]]]
  /\ Goto(t, "check")
  /\ UNCHANGED <<next, got, cache, over, version, began>>

\* Mutant of Check: the context is not looked at.
CheckTimeoutOnly(t) ==
  /\ At(t, "check")
  /\ IF answer[t].kind = "timeout"
       THEN GoOnWith(t, answer[t])
       ELSE Goto(t, "store") /\ UNCHANGED <<next, answer, got>>
  /\ UNCHANGED <<cache, over, version, began>>

\* An answer is not kept once the context is done, nor if it is an error that
\* apierrors.IsTimeout knows; any other error is.
Check(t) ==
  /\ At(t, "check")
  /\ IF CallOf[t] \in over \/ answer[t].kind = "timeout"
       THEN GoOnWith(t, answer[t])
       ELSE Goto(t, "store") /\ UNCHANGED <<next, answer, got>>
  /\ UNCHANGED <<cache, over, version, began>>

\* The store, under the lock again: it replaces what another task stored.
Store(t) ==
  /\ At(t, "store")
  /\ cache' = [cache EXCEPT ![CallOf[t]][Key(t)] = answer[t]]
  /\ GoOnWith(t, answer[t])
  /\ UNCHANGED <<over, version, began>>

\* The task returns; a goroutine gives its slot back.
Finish(t) ==
  /\ At(t, "read") /\ ~Pending(t)
  /\ Goto(t, "done")
  /\ UNCHANGED <<next, answer, got, cache, over, version, began>>

----------------------------------------------------------------------------
\* The object behind a key changes.
Changes(k) ==
  /\ version[k] < MaxVersion
  /\ version' = [version EXCEPT ![k] = @ + 1]
  /\ UNCHANGED <<taskVars, cache, over, began>>

Step(t) ==
  \/ ListFails(t) \/ Spawn(t) \/ Join(t) \/ Skip(t) \/ (\E u \in Tasks : Enter(u, t))
  \/ LookUp(t) \/ Load(t) \/ Check(t) \/ Store(t) \/ Finish(t)

Next ==
  \/ \E t \in Tasks : Step(t)
  \/ \E r \in Calls : Diagnose(r) \/ ContextEnds(r)
  \/ \E k \in Keys : Changes(k)

Spec == Init /\ [][Next]_vars

\* Requests are answered or fail, and goroutines that can run do; nothing is
\* asked of clients, of deadlines or of the cluster.
FairSpec == Spec /\ \A t \in Tasks : WF_vars(Step(t))
=============================================================================
