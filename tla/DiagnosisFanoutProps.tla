------------------------- MODULE DiagnosisFanoutProps -------------------------
(***************************************************************************)
(* What is checked of DiagnosisFanout.                                     *)
(***************************************************************************)
EXTENDS DiagnosisFanout

FanoutTypeOK ==
  /\ pc \in [Tasks -> Phases]
  /\ next \in [Tasks -> Nat \ {0}]
  /\ answer \in [Tasks -> Answer \cup {None}]
  /\ cache \in [Calls -> [Keys -> Answer \cup {None}]]
  /\ over \subseteq Calls
  /\ version \in [Keys -> Nat]
  /\ began \in [Calls -> [Keys -> Nat]]
  /\ got \in [Tasks -> Seq(Nat)]
  /\ \A t \in Tasks :
       /\ next[t] = Len(got[t]) + 1 /\ next[t] <= Len(Reads[t]) + 1
       /\ pc[t] \in {"load", "check", "store"} => Pending(t)
       /\ pc[t] \in {"check", "store"} => answer[t] \in Answer

\* Each fan-out has a semaphore of its own, so the bound on what runs is a product:
\* under a task there are never more children at work than MaxConcurrentK8s allows,
\* nor more children of those, over all of them, than its square; a child that has
\* ended leaves none of its own behind to be counted beside the next one's
\* (bounded.go: sem and wg.Wait; the jobs of a CronJob and their pods).
SlotsBounded == \A t \in Tasks : Cardinality(Slots(t)) <= Limit
Grandchildren(t) == UNION {Slots(c) : c \in Children[t]}
FanoutsBounded ==
  /\ SlotsBounded
  /\ \A t \in Tasks : Cardinality(Grandchildren(t)) <= Limit * Limit

\* No goroutine outlives the fan-out that started it: when a task goes on from
\* the wait, each child has ended, and none was left out but because the
\* context was done; so its results can be read without a lock (bounded.go:
\* wg.Wait; the slices tmp and names of deepPodSignals).
Waiting(t) == At(t, "wait")
JoinedBeforeReading ==
  \A t \in Tasks : \A c \in Children[t] :
    /\ pc[c] \in Running \cup {"queued"} => Waiting(t)
    /\ pc[c] = "skipped" => CallOf[c] \in over

\* The error a request got because its call was over is never kept, whenever the
\* context ends between the look-up and the store, and neither is the one timeout that
\* apierrors.IsTimeout knows: no other task takes either for the answer to its key (cache.go
\* get).  Every other error is kept and given to all later readers of the key, a
\* refusal, the REST client's timeout and a lost connection among them.
EndNotKept ==
  \A r \in Calls, k \in Keys :
    cache[r][k] # None => cache[r][k].kind \in {"answered", "unreached"}

\* A diagnosis goes by the cluster of its own time: whatever a task goes on
\* with, out of the cache or not, was so at the API server after the call
\* began (cache.go: "It never outlives a single Diagnose call").
AnswersOfThisCall ==
  \A t \in Tasks : \A i \in 1 .. Len(got[t]) :
    got[t][i] >= began[CallOf[t]][Reads[t][i]]

\* A call always ends, with nested fan-outs at the limit, a context that ends
\* or never does, and requests that fail.
CallsEnd == \A r \in Calls : ~At(r, "idle") ~> At(r, "done")

----------------------------------------------------------------------------
(* The inductive invariant behind the safety properties.                   *)

\* What the cache of a call holds is of this call.
HeldByCall(r) ==
  \A k \in Keys :
    /\ began[r][k] <= version[k]
    /\ cache[r][k] # None => cache[r][k].version >= began[r][k]

\* So is what a task holds, between its request and the return of get.
HeldByTask(t) ==
  /\ pc[t] # "idle" => pc[CallOf[t]] # "idle"
  /\ pc[t] = "idle" => got[t] = <<>>
  /\ pc[t] \in {"check", "store"} =>
       answer[t].version >= began[CallOf[t]][Key(t)]
  /\ pc[t] = "check" /\ answer[t].kind = "cancelled" => CallOf[t] \in over
  /\ pc[t] = "store" => answer[t].kind \in {"answered", "unreached"}

HeldInv == (\A r \in Calls : HeldByCall(r)) /\ (\A t \in Tasks : HeldByTask(t))
=============================================================================
