------------------------------ MODULE Resolver ------------------------------
(***************************************************************************)
(* How a tool finds the object a client names: internal/kube/resolver.go,  *)
(* what it uses of errors.go and discovery.go, and the tools of            *)
(* internal/mcp that resolve a name and then read the object: k8s_find,    *)
(* k8s_get and the k8s_diagnose tools.                                     *)
(*                                                                         *)
(* Every request to the API server is a step of its own; it is answered,   *)
(* refused, or fails for another reason, and between two of them another   *)
(* client may create or delete objects.  The variable `seen' is history: no *)
(* action reads it.                                                        *)
(***************************************************************************)
EXTENDS Naturals, Sequences, FiniteSets

CONSTANTS
  Namespaces,     \* the namespaces of the cluster
  NamespaceList,  \* the same, in the order the API server lists them
  Default,        \* the namespace "default"
  Cluster,        \* where the objects that are in no namespace are
  Names,          \* names of objects
  Extends,        \* pairs <<name, prefix>>: the name begins with the prefix
  Long,           \* the names of at least three characters
  Empty,          \* the empty name, and the empty namespace
  Queries,        \* what clients ask
  Worlds,         \* place -> names: which objects there are to begin with
  MaxChanges      \* bound: how often another client creates or deletes one

VARIABLES
  query,    \* the client's question
  objects,  \* place -> the names of the objects of the kind there
  at,       \* where the call is
  todo,     \* the namespaces it has not asked yet, in order
  hits      \* what it found so far: at which turn, and the object
VARIABLES
  found,    \* the ResolveResult
  reply,    \* the answer of the tool
  changes,  \* how often another client created or deleted an object
  seen      \* history: what the call met on the way

resolverVars == <<query, objects, at, todo, hits, found, reply, changes, seen>>

Places == Namespaces \cup {Cluster}
Query == [kind: {"namespaced", "cluster"},  \* the scope of the kind at the API server
          custom: BOOLEAN,                  \* it is not a kind of knownGVR
          name: Names \cup {Empty}, namespace: Namespaces \cup {Empty},
          all: BOOLEAN, prefixMatch: BOOLEAN,
          context: Namespaces \cup {Empty}]

Ref == [place: Places, name: Names]
Hit == [turn: Nat, ref: Ref]   \* how many requests were to follow, and the object
Statuses == {"found", "ambiguous", "not_found", "permission_denied"}
Nothing == [status |-> "none", match |-> {}, how |-> ""]

ASSUME ResolverAssumption ==
  /\ IsFiniteSet(Namespaces) /\ IsFiniteSet(Names)
  /\ Default \in Namespaces /\ Cluster \notin Namespaces
  /\ Empty \notin Names /\ Empty \notin Places
  /\ NamespaceList \in Seq(Namespaces)
  /\ {NamespaceList[i] : i \in DOMAIN NamespaceList} = Namespaces
  /\ \A i, j \in DOMAIN NamespaceList : NamespaceList[i] = NamespaceList[j] => i = j
  /\ Extends \subseteq Names \X Names /\ Long \subseteq Names
  /\ Queries \subseteq Query
  /\ Worlds \subseteq [Places -> SUBSET Names]
  /\ MaxChanges \in Nat

----------------------------------------------------------------------------
(* Pure parts.                                                             *)

\* Mutant of ContextNamespace: a context without a namespace has the empty one.
ContextNamespaceUnset(q) == q.context

\* ContextNamespace.
ContextNamespace(q) == IF q.context = Empty THEN Default ELSE q.context

\* unique(nonEmpty(namespace, context, "default")): the namespace is empty here.
Priority(q) ==
  IF ContextNamespace(q) = Default THEN <<Default>>
  ELSE <<ContextNamespace(q), Default>>

\* What listNamespaces falls back to: the two may be one, which is then asked twice.
Fallback(q) == <<ContextNamespace(q), Default>>

\* Where a request that names namespace ns looks.
PlaceOf(q, ns) == IF q.kind = "cluster" THEN Cluster ELSE ns

\* Mutant of PrefixFilter: an exact name does not come before longer ones.
PrefixFilterAny(q, refs, prefix) ==
  {r \in refs : \/ r.name = q.name
                \/ prefix /\ q.name \in Long /\ <<r.name, q.name>> \in Extends}

\* prefixFilter: the objects of that name, or else those whose name begins so.
PrefixFilter(q, refs, prefix) ==
  LET exact == {r \in refs : r.name = q.name}
  IN IF exact # {} THEN exact
     ELSE {r \in refs : prefix /\ q.name \in Long /\ <<r.name, q.name>> \in Extends}

\* buildResult.
BuildResult(q, hs) ==
  IF hs = {} THEN [Nothing EXCEPT !.status = "not_found"]
  ELSE IF Cardinality(hs) > 1 THEN [Nothing EXCEPT !.status = "ambiguous"]
  ELSE [status |-> "found", match |-> {h.ref : h \in hs},
        how |-> IF \E h \in hs : h.ref.name # q.name THEN "prefix" ELSE "exact"]

Denied == [Nothing EXCEPT !.status = "permission_denied"]
Missing == [Nothing EXCEPT !.status = "not_found"]
Exactly(ref) == [status |-> "found", match |-> {ref}, how |-> "exact"]

----------------------------------------------------------------------------
(* Requests.                                                               *)

\* Whether MappingForKind tells the scope of the kind: for a kind of knownGVR
\* always, for any other only if the discovery answers.
MappingTold == IF query.custom THEN BOOLEAN ELSE {TRUE}

\* The API server's answers to a Get and to a List now, one of Classify's
\* kinds of error in place of either.  A kind that is not in knownGVR is
\* looked up by discovery for every request: that failing is a failed request.
Errors == {"failed", "forbidden"}
GetAnswers(ns) ==
  Errors \cup {IF query.name \in objects[PlaceOf(query, ns)] THEN "found" ELSE "absent"}
ListAnswers == Errors \cup {"items"}

RefsIn(places) == {[place |-> p, name |-> n] : p \in places, n \in Names}
Listed(places) == {r \in RefsIn(places) : r.name \in objects[r.place]}
HitsOf(turn, refs) == {[turn |-> turn, ref |-> r] : r \in refs}
TheRef(ns) == [place |-> PlaceOf(query, ns), name |-> query.name]

Met(a) ==
  seen' = [seen EXCEPT !.failed = @ \/ a = "failed",
                       !.forbidden = @ \/ a = "forbidden",
                       !.exact = @ \/ a = "found"]
MetItems(a, refs) ==
  seen' = [seen EXCEPT !.failed = @ \/ a = "failed",
                       !.forbidden = @ \/ a = "forbidden",
                       !.exact = @ \/ (a = "items" /\ \E r \in refs : r.name = query.name)]

\* ResolveFilter returns r.
Resolved(r) ==
  /\ found' = r /\ at' = "resolved"
  /\ todo' = <<>> /\ hits' = {}

Onward(where, nss) ==
  /\ at' = where /\ todo' = nss
  /\ UNCHANGED <<hits, found>>

ResolverInit ==
  /\ query \in Queries
  /\ objects \in {w \in Worlds :
       \A p \in Places : (p = Cluster) # (query.kind = "cluster") => w[p] = {}}
  /\ changes = 0
  /\ at = "scope" /\ todo = <<>> /\ hits = {} /\ found = Nothing /\ reply = "none"
  /\ seen = [failed |-> FALSE, forbidden |-> FALSE, exact |-> FALSE]

----------------------------------------------------------------------------
(* ResolveFilter.                                                          *)

\* The name is required; then the scope of the kind decides what is asked.  A
\* kind the discovery does not tell is taken for a namespaced one.
Scope ==
  /\ at = "scope"
  /\ UNCHANGED <<query, objects, reply, changes>>
  /\ IF query.name = Empty
       THEN Resolved(Missing) /\ UNCHANGED seen
       ELSE \E told \in MappingTold :
              /\ seen' = [seen EXCEPT !.failed = @ \/ ~told]
              /\ IF query.kind = "cluster" /\ told THEN Onward("cluster", <<>>)
                 ELSE IF query.all THEN Onward("everywhere", <<>>)
                 ELSE IF query.namespace # Empty THEN Onward("namespace", <<>>)
                 ELSE Onward("priority", Priority(query))

\* A Get of the name where the client said; not found there, or not read,
\* the objects there are listed.
GetThere(where, then, ns) ==
  /\ at = where
  /\ \E a \in GetAnswers(ns) :
       /\ Met(a)
       /\ CASE a = "found" -> Resolved(Exactly(TheRef(ns)))
            [] a = "forbidden" -> Resolved(Denied)
            [] a \in {"absent", "failed"} ->
                 IF where = "namespace" /\ ~query.prefixMatch
                   THEN Resolved(Missing) ELSE Onward(then, <<>>)
  /\ UNCHANGED <<query, objects, reply, changes>>

\* The list there; if it fails there is nothing to choose from.
ListThere(where, ns) ==
  /\ at = where
  /\ \E a \in ListAnswers :
       LET refs == IF a = "items" THEN Listed({PlaceOf(query, ns)}) ELSE {}
       IN /\ MetItems(a, refs)
          /\ IF a = "forbidden" THEN Resolved(Denied)
             ELSE Resolved(BuildResult(query,
                    HitsOf(0, PrefixFilter(query, refs, query.prefixMatch))))
  /\ UNCHANGED <<query, objects, reply, changes>>

\* All namespaces, in one list; an error of any kind is a refusal.
ListEverywhere ==
  /\ at = "everywhere"
  /\ \E a \in ListAnswers :
       LET refs == Listed(IF query.kind = "cluster" THEN {Cluster} ELSE Namespaces)
       IN /\ MetItems(a, refs)
          /\ IF a # "items" THEN Resolved(Denied)
             ELSE Resolved(BuildResult(query,
                    HitsOf(0, PrefixFilter(query, refs, query.prefixMatch))))
  /\ UNCHANGED <<query, objects, reply, changes>>

\* The context's namespace, then "default".
TryPriority ==
  /\ at = "priority" /\ todo # <<>>
  /\ \E a \in GetAnswers(Head(todo)) :
       /\ Met(a)
       /\ CASE a = "found" -> Resolved(Exactly(TheRef(Head(todo))))
            [] a = "forbidden" -> Resolved(Denied)
            [] a \in {"absent", "failed"} -> Onward("priority", Tail(todo))
  /\ UNCHANGED <<query, objects, reply, changes>>

\* listNamespaces, which has a fallback for when it fails; being refused ends
\* the search.
ListNamespaces ==
  /\ at = "priority" /\ todo = <<>>
  /\ \E a \in ListAnswers :
       /\ Met(a)
       /\ CASE a = "forbidden" -> Resolved(Denied)
            [] a = "items" -> Onward("search", NamespaceList)
            [] a = "failed" -> Onward("search_known", Fallback(query))
  /\ UNCHANGED <<query, objects, reply, changes>>

InPriority(ns) == \E i \in DOMAIN Priority(query) : Priority(query)[i] = ns
Searching == at \in {"search", "search_known"}

\* Mutant of Search: one that is refused is passed over as well.
SearchPassesOver ==
  /\ Searching /\ todo # <<>>
  /\ IF InPriority(Head(todo)) THEN UNCHANGED <<hits, seen>>
     ELSE \E a \in GetAnswers(Head(todo)) :
            /\ Met(a)
            /\ hits' = hits \cup (IF a = "found" THEN HitsOf(Len(todo), {TheRef(Head(todo))}) ELSE {})
  /\ todo' = Tail(todo)
  /\ UNCHANGED <<query, objects, at, found, reply, changes>>

\* A Get in every other namespace; one that fails is passed over.
Search ==
  /\ Searching /\ todo # <<>>
  /\ IF InPriority(Head(todo))
       THEN hits' = hits /\ UNCHANGED <<at, found, seen>> /\ todo' = Tail(todo)
       ELSE \E a \in GetAnswers(Head(todo)) :
              /\ Met(a)
              /\ IF a = "forbidden" THEN Resolved(Denied)
                 ELSE /\ hits' = hits \cup (IF a = "found"
                                              THEN HitsOf(Len(todo), {TheRef(Head(todo))}) ELSE {})
                      /\ todo' = Tail(todo) /\ UNCHANGED <<at, found>>
  /\ UNCHANGED <<query, objects, reply, changes>>

\* What the search found decides, unless it found nothing.
Searched ==
  /\ Searching /\ todo = <<>>
  /\ IF hits # {} THEN Resolved(BuildResult(query, hits))
     ELSE IF ~query.prefixMatch THEN Resolved(Missing)
     ELSE Onward("prefix", IF at = "search" THEN NamespaceList ELSE Fallback(query))
  /\ UNCHANGED <<query, objects, reply, changes, seen>>

\* A List in every namespace; one that fails is passed over.
SearchPrefix ==
  /\ at = "prefix" /\ todo # <<>>
  /\ \E a \in ListAnswers :
       LET refs == IF a = "items" THEN Listed({PlaceOf(query, Head(todo))}) ELSE {}
       IN /\ MetItems(a, refs)
          /\ IF a = "forbidden" THEN Resolved(Denied)
             ELSE /\ hits' = hits \cup HitsOf(Len(todo), PrefixFilter(query, refs, TRUE))
                  /\ todo' = Tail(todo) /\ UNCHANGED <<at, found>>
  /\ UNCHANGED <<query, objects, reply, changes>>

PrefixSearched ==
  /\ at = "prefix" /\ todo = <<>>
  /\ Resolved(BuildResult(query, hits))
  /\ UNCHANGED <<query, objects, reply, changes, seen>>

----------------------------------------------------------------------------
(* The tools.                                                              *)

\* What the client is told when the resolution did not find one object.
Refused ==
  /\ at = "resolved" /\ found.status # "found"
  /\ reply' = found.status /\ at' = "replied"
  /\ UNCHANGED <<query, objects, todo, hits, found, changes, seen>>

\* The answer of a tool to what the second Get, of the object resolved, returns:
\* k8s_find shows the reference in any case, to k8s_get every error is the same.
ReplyTo(tool, a) ==
  CASE tool = "find" -> "found"
    [] tool = "get" -> IF a = "found" THEN "found" ELSE "not_found"
    [] tool = "diagnose" -> CASE a = "found" -> "diagnosing"
                              [] a = "forbidden" -> "permission_denied"
                              [] a = "absent" -> "not_found"
                              [] a = "failed" -> "error"

\* The second Get.  Only k8s_find asks in all namespaces.
Fetch ==
  /\ at = "resolved" /\ found.status = "found"
  /\ \E ref \in found.match, tool \in {"find", "get", "diagnose"} :
       /\ query.all => tool = "find"
       /\ \E a \in Errors \cup {IF ref.name \in objects[ref.place] THEN "found" ELSE "absent"} :
            reply' = ReplyTo(tool, a)
  /\ at' = "replied"
  /\ UNCHANGED <<query, objects, todo, hits, found, changes, seen>>

ResolverStep ==
  \/ Scope
  \/ GetThere("cluster", "cluster_list", Cluster) \/ ListThere("cluster_list", Cluster)
  \/ GetThere("namespace", "namespace_list", query.namespace)
  \/ ListThere("namespace_list", query.namespace)
  \/ ListEverywhere
  \/ TryPriority \/ ListNamespaces \/ Search \/ Searched \/ SearchPrefix \/ PrefixSearched
  \/ Refused \/ Fetch

\* Another client creates or deletes an object of the kind.
OtherClient ==
  /\ at # "replied" /\ changes < MaxChanges
  /\ \E p \in (IF query.kind = "cluster" THEN {Cluster} ELSE Namespaces), n \in Names :
       objects' = [objects EXCEPT ![p] = IF n \in @ THEN @ \ {n} ELSE @ \cup {n}]
  /\ changes' = changes + 1
  /\ UNCHANGED <<query, at, todo, hits, found, reply, seen>>
=============================================================================
