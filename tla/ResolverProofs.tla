---------------------------- MODULE ResolverProofs ----------------------------
(***************************************************************************)
(* Proofs about the resolution of a name in Diagnosis, for any namespaces, *)
(* names, questions and worlds.                                            *)
(***************************************************************************)
EXTENDS DiagnosisProps, FiniteSetTheorems, TLAPS

----------------------------------------------------------------------------
(* Types, and that a refusal ends the resolution.                          *)

Results == [status: Statuses \cup {"none"}, match: SUBSET Ref, how: {"", "exact", "prefix"}]
Over == {"resolved", "replied"}

\* What is so between two steps of a resolution: the types, what the question must
\* be for the call to be where it is, and that nothing is found before it has ended.
ResolverInv ==
  /\ ResolverTypeOK
  /\ query \in Queries
  /\ at \notin {"scope"} \cup Over => query.name \in Names
  /\ at \in {"cluster", "cluster_list"} => query.kind = "cluster"
  /\ at \in {"namespace", "namespace_list"} => query.namespace \in Namespaces
  /\ found # Nothing => at \in Over
  /\ seen.forbidden => found.status = "permission_denied"
  /\ found.status = "permission_denied" => seen.forbidden \/ seen.failed
  /\ reply \notin {"none"} => at = "replied"
  /\ reply = "diagnosing" => found.status = "found"

\* Lemma: the parts a result is put together from are of its type.
LEMMA ResultTypes ==
  /\ Nothing \in Results /\ Nothing.status = "none"
  /\ Denied \in Results /\ Denied.status = "permission_denied"
  /\ Missing \in Results /\ Missing.status = "not_found"
  /\ \A ref \in Ref : Exactly(ref) \in Results /\ Exactly(ref).status = "found"
  BY DEF Nothing, Denied, Missing, Exactly, Results, Statuses

\* Lemma: what the hits come to is a result, and never a refusal.
LEMMA BuildResultType ==
  ASSUME NEW q, NEW hs \in SUBSET Hit
  PROVE  BuildResult(q, hs) \in Results /\ BuildResult(q, hs).status \in {"found", "ambiguous", "not_found"}
  <1>1. {h.ref : h \in hs} \in SUBSET Ref
    BY DEF Hit
  <1> QED
    BY <1>1 DEF BuildResult, Nothing, Results, Statuses

\* Lemma: a list gives references, and those of them that are chosen are hits.
LEMMA ListedTypes ==
  /\ \A places \in SUBSET Places : Listed(places) \in SUBSET Ref
  /\ {} \in SUBSET Ref
  /\ \A q, prefix : \A refs \in SUBSET Ref : PrefixFilter(q, refs, prefix) \in SUBSET Ref
  /\ \A turn \in Nat : \A refs \in SUBSET Ref : HitsOf(turn, refs) \in SUBSET Hit
  BY DEF Listed, RefsIn, Ref, PrefixFilter, HitsOf, Hit

\* Lemma: initially.
LEMMA ResolverInvInit == ResolverInit => ResolverInv
  <1> SUFFICES ASSUME ResolverInit PROVE ResolverInv
    OBVIOUS
  <1>1. query \in Query /\ objects \in [Places -> SUBSET Names] /\ 0 \in 0 .. MaxChanges
    BY ResolverAssumption DEF ResolverInit
  <1>2. <<>> \in Seq(Namespaces) /\ {} \subseteq Hit
    OBVIOUS
  <1> QED
    BY <1>1, <1>2, ResultTypes DEF ResolverInit, ResolverInv, ResolverTypeOK, Results, Over

\* Lemma: a step that resolves to r, having met what seen' says.
LEMMA ResolvedKeepsInv ==
  ASSUME ResolverInv, at \notin Over, NEW r \in Results, Resolved(r), UNCHANGED <<query, objects, reply, changes>>,
         seen' \in [failed: BOOLEAN, forbidden: BOOLEAN, exact: BOOLEAN],
         seen'.forbidden => r.status = "permission_denied",
         r.status = "permission_denied" => seen'.forbidden \/ seen'.failed
  PROVE  ResolverInv'
  <1>1. found' = r /\ at' = "resolved" /\ todo' = <<>> /\ hits' = {}
    BY DEF Resolved
  <1>2. <<>> \in Seq(Namespaces)
    OBVIOUS
  <1>3. reply = "none"
    BY DEF ResolverInv, Over
  <1> QED
    BY <1>1, <1>2, <1>3 DEF ResolverInv, ResolverTypeOK, Results, Over

Underway == {"cluster", "cluster_list", "everywhere", "namespace", "namespace_list",
            "priority", "search", "search_known", "prefix"}

\* Lemma: a step that goes on, having met no refusal.
LEMMA OnwardKeepsInv ==
  ASSUME ResolverInv, at \notin Over, at' \in Underway, UNCHANGED <<query, objects, reply, changes, found>>,
         todo' \in Seq(Namespaces), hits' \in SUBSET Hit,
         seen' \in [failed: BOOLEAN, forbidden: BOOLEAN, exact: BOOLEAN],
         seen'.forbidden => seen.forbidden,
         query.name \in Names,
         at' \in {"cluster", "cluster_list"} => query.kind = "cluster",
         at' \in {"namespace", "namespace_list"} => query.namespace \in Namespaces
  PROVE  ResolverInv'
  <1>1. found = Nothing /\ ~seen.forbidden /\ reply = "none"
    BY ResultTypes DEF ResolverInv, Over
  <1> QED
    BY <1>1, ResultTypes DEF ResolverInv, ResolverTypeOK, Underway, Over

\* Lemma: what the history says after a request that was answered a.
LEMMA MetFacts ==
  ASSUME ResolverInv, NEW a, NEW refs, Met(a) \/ MetItems(a, refs)
  PROVE  /\ seen' \in [failed: BOOLEAN, forbidden: BOOLEAN, exact: BOOLEAN]
         /\ seen'.forbidden <=> seen.forbidden \/ a = "forbidden"
         /\ seen'.failed <=> seen.failed \/ a = "failed"
  <1>1. seen \in [failed: BOOLEAN, forbidden: BOOLEAN, exact: BOOLEAN]
    BY DEF ResolverInv, ResolverTypeOK
  <1>2. CASE Met(a)
    BY <1>1, <1>2 DEF Met
  <1>3. CASE MetItems(a, refs)
    BY <1>1, <1>3 DEF MetItems
  <1> QED
    BY <1>2, <1>3

\* Lemma: a tail of namespaces, and the first of them.
LEMMA TodoFacts ==
  ASSUME ResolverInv, todo # <<>>
  PROVE  Head(todo) \in Namespaces /\ Tail(todo) \in Seq(Namespaces) /\ Len(todo) \in Nat
  <1>1. todo \in Seq(Namespaces)
    BY DEF ResolverInv, ResolverTypeOK
  <1> QED
    BY <1>1

\* Lemma: the namespaces a search goes through.
LEMMA SearchListTypes ==
  ASSUME query \in Query
  PROVE  Priority(query) \in Seq(Namespaces) /\ Fallback(query) \in Seq(Namespaces)
         /\ NamespaceList \in Seq(Namespaces)
  <1>1. ContextNamespace(query) \in Namespaces /\ Default \in Namespaces
    BY ResolverAssumption DEF ContextNamespace, Query
  <1> QED
    BY <1>1, ResolverAssumption DEF Priority, Fallback

LEMMA ScopeKeepsInv == ResolverInv /\ Scope => ResolverInv'
  <1> SUFFICES ASSUME ResolverInv, Scope PROVE ResolverInv'
    OBVIOUS
  <1>1. at = "scope" /\ at \notin Over /\ UNCHANGED <<query, objects, reply, changes>>
    BY DEF Scope, Over
  <1>2. CASE query.name = Empty
    <2>1. Resolved(Missing) /\ seen' = seen
      BY <1>2 DEF Scope
    <2>2. ~seen.forbidden
      BY <1>1, ResultTypes DEF ResolverInv
    <2> QED
      BY <1>1, <2>1, <2>2, ResultTypes, ResolvedKeepsInv DEF ResolverInv, ResolverTypeOK
  <1>3. CASE query.name # Empty
    <2> PICK told \in MappingTold :
          /\ seen' = [seen EXCEPT !.failed = @ \/ ~told]
          /\ IF query.kind = "cluster" /\ told THEN Onward("cluster", <<>>)
             ELSE IF query.all THEN Onward("everywhere", <<>>)
             ELSE IF query.namespace # Empty THEN Onward("namespace", <<>>)
             ELSE Onward("priority", Priority(query))
      BY <1>3 DEF Scope
    <2>1. seen' \in [failed: BOOLEAN, forbidden: BOOLEAN, exact: BOOLEAN]
          /\ (seen'.forbidden => seen.forbidden)
      BY DEF ResolverInv, ResolverTypeOK
    <2>2. query.name \in Names /\ query.namespace \in Namespaces \cup {Empty} /\ query \in Query
      BY <1>3 DEF ResolverInv, ResolverTypeOK, Query
    <2>3. Priority(query) \in Seq(Namespaces) /\ <<>> \in Seq(Namespaces)
      BY <2>2, SearchListTypes
    <2>4. /\ at' \in Underway /\ todo' \in Seq(Namespaces) /\ hits' = hits /\ found' = found
          /\ at' \in {"cluster", "cluster_list"} => query.kind = "cluster"
          /\ at' \in {"namespace", "namespace_list"} => query.namespace \in Namespaces
      BY <2>2, <2>3 DEF Onward, Underway
    <2>5. hits' \in SUBSET Hit
      BY <2>4 DEF ResolverInv, ResolverTypeOK
    <2> QED
      BY <1>1, <2>1, <2>2, <2>4, <2>5, OnwardKeepsInv
  <1> QED
    BY <1>2, <1>3

\* Lemma: before the resolution ends nothing has been refused.
LEMMA NotYetRefused ==
  ASSUME ResolverInv, at \notin Over
  PROVE  ~seen.forbidden /\ found = Nothing /\ (at # "scope" => query.name \in Names)
  BY ResultTypes DEF ResolverInv, Over

LEMMA GetThereKeepsInv ==
  ASSUME ResolverInv, NEW where, NEW then, NEW ns, GetThere(where, then, ns),
         \/ where = "cluster" /\ then = "cluster_list" /\ ns = Cluster
         \/ where = "namespace" /\ then = "namespace_list" /\ ns = query.namespace
  PROVE  ResolverInv'
  <1>1. at = where /\ at \notin Over /\ at # "scope" /\ UNCHANGED <<query, objects, reply, changes>>
    BY DEF GetThere, Over
  <1>2. PICK a \in GetAnswers(ns) :
          /\ Met(a)
          /\ CASE a = "found" -> Resolved(Exactly(TheRef(ns)))
               [] a = "forbidden" -> Resolved(Denied)
               [] a \in {"absent", "failed"} ->
                    IF where = "namespace" /\ ~query.prefixMatch
                      THEN Resolved(Missing) ELSE Onward(then, <<>>)
    BY DEF GetThere
  <1>3. a \in {"found", "absent", "failed", "forbidden"}
    BY <1>2 DEF GetAnswers, Errors
  <1>4. ~seen.forbidden /\ query.name \in Names
    BY <1>1, NotYetRefused
  <1>5. TheRef(ns) \in Ref
    BY <1>1, <1>4 DEF TheRef, PlaceOf, Ref, Places, ResolverInv
  <1>6. /\ seen' \in [failed: BOOLEAN, forbidden: BOOLEAN, exact: BOOLEAN]
        /\ seen'.forbidden <=> seen.forbidden \/ a = "forbidden"
    BY <1>2, MetFacts
  <1>7. CASE a = "found"
    <2>1. Resolved(Exactly(TheRef(ns))) /\ ~seen'.forbidden
      BY <1>2, <1>4, <1>6, <1>7
    <2> QED
      BY <1>1, <1>5, <1>6, <2>1, ResultTypes, ResolvedKeepsInv
  <1>8. CASE a = "forbidden"
    BY <1>1, <1>2, <1>6, <1>8, ResultTypes, ResolvedKeepsInv
  <1>9. CASE a \in {"absent", "failed"}
    <2>1. ~seen'.forbidden
      BY <1>4, <1>6, <1>9
    <2>2. CASE where = "namespace" /\ ~query.prefixMatch
      BY <1>1, <1>2, <1>6, <1>9, <2>1, <2>2, ResultTypes, ResolvedKeepsInv
    <2>3. CASE ~(where = "namespace" /\ ~query.prefixMatch)
      <3>1. Onward(then, <<>>)
        BY <1>2, <1>9, <2>3
      <3>2. at' = then /\ todo' = <<>> /\ hits' = hits /\ found' = found
        BY <3>1 DEF Onward
      <3>3. /\ at' \in Underway /\ todo' \in Seq(Namespaces) /\ hits' \in SUBSET Hit
            /\ at' \in {"cluster", "cluster_list"} => query.kind = "cluster"
            /\ at' \in {"namespace", "namespace_list"} => query.namespace \in Namespaces
        <4>1. hits \in SUBSET Hit
          BY DEF ResolverInv, ResolverTypeOK
        <4>9. <<>> \in Seq(Namespaces)
          OBVIOUS
        <4>2. then \in {"cluster_list", "namespace_list"}
          OBVIOUS
        <4>3. then = "cluster_list" => query.kind = "cluster"
          BY <1>1 DEF ResolverInv
        <4>4. then = "namespace_list" => query.namespace \in Namespaces
          BY <1>1 DEF ResolverInv
        <4> QED
          BY <3>2, <4>1, <4>2, <4>3, <4>4, <4>9 DEF Underway
      <3> QED
        BY <1>1, <1>4, <1>6, <2>1, <3>2, <3>3, OnwardKeepsInv
    <2> QED
      BY <2>2, <2>3
  <1> QED
    BY <1>3, <1>7, <1>8, <1>9

\* Lemma: a resolution that ends with what a list gave.
LEMMA ChosenKeepsInv ==
  ASSUME ResolverInv, at \notin Over, NEW hs \in SUBSET Hit, Resolved(BuildResult(query, hs)),
         UNCHANGED <<query, objects, reply, changes>>,
         seen' \in [failed: BOOLEAN, forbidden: BOOLEAN, exact: BOOLEAN], ~seen'.forbidden
  PROVE  ResolverInv'
  BY BuildResultType, ResolvedKeepsInv

LEMMA ListThereKeepsInv ==
  ASSUME ResolverInv, NEW where, NEW ns, ListThere(where, ns),
         \/ where = "cluster_list" /\ ns = Cluster
         \/ where = "namespace_list" /\ ns = query.namespace
  PROVE  ResolverInv'
  <1>1. at = where /\ at \notin Over /\ at # "scope" /\ UNCHANGED <<query, objects, reply, changes>>
    BY DEF ListThere, Over
  <1> DEFINE RefsOf(a) == IF a = "items" THEN Listed({PlaceOf(query, ns)}) ELSE {}
  <1>2. PICK a \in ListAnswers :
          /\ MetItems(a, RefsOf(a))
          /\ IF a = "forbidden" THEN Resolved(Denied)
             ELSE Resolved(BuildResult(query,
                    HitsOf(0, PrefixFilter(query, RefsOf(a), query.prefixMatch))))
    BY DEF ListThere
  <1>3. PlaceOf(query, ns) \in Places
    BY <1>1 DEF PlaceOf, Places, ResolverInv
  <1>4. RefsOf(a) \in SUBSET Ref
    BY <1>3, ListedTypes
  <1>5. HitsOf(0, PrefixFilter(query, RefsOf(a), query.prefixMatch)) \in SUBSET Hit
    BY <1>4, ListedTypes
  <1>6. /\ seen' \in [failed: BOOLEAN, forbidden: BOOLEAN, exact: BOOLEAN]
        /\ seen'.forbidden <=> seen.forbidden \/ a = "forbidden"
    BY <1>2, MetFacts
  <1>7. ~seen.forbidden
    BY <1>1, NotYetRefused
  <1> HIDE DEF RefsOf
  <1>8. CASE a = "forbidden"
    BY <1>1, <1>2, <1>6, <1>8, ResultTypes, ResolvedKeepsInv
  <1>9. CASE a # "forbidden"
    BY <1>1, <1>2, <1>5, <1>6, <1>7, <1>9, ChosenKeepsInv
  <1> QED
    BY <1>8, <1>9

LEMMA ListEverywhereKeepsInv == ResolverInv /\ ListEverywhere => ResolverInv'
  <1> SUFFICES ASSUME ResolverInv, ListEverywhere PROVE ResolverInv'
    OBVIOUS
  <1>1. at \notin Over /\ at # "scope" /\ UNCHANGED <<query, objects, reply, changes>>
    BY DEF ListEverywhere, Over
  <1> DEFINE refs == Listed(IF query.kind = "cluster" THEN {Cluster} ELSE Namespaces)
  <1>2. PICK a \in ListAnswers :
          /\ MetItems(a, refs)
          /\ IF a # "items" THEN Resolved(Denied)
             ELSE Resolved(BuildResult(query, HitsOf(0, PrefixFilter(query, refs, query.prefixMatch))))
    BY DEF ListEverywhere
  <1>3. refs \in SUBSET Ref
    BY ListedTypes DEF Places
  <1>4. HitsOf(0, PrefixFilter(query, refs, query.prefixMatch)) \in SUBSET Hit
    BY <1>3, ListedTypes
  <1>5. /\ seen' \in [failed: BOOLEAN, forbidden: BOOLEAN, exact: BOOLEAN]
        /\ seen'.forbidden <=> seen.forbidden \/ a = "forbidden"
        /\ seen'.failed <=> seen.failed \/ a = "failed"
    BY <1>2, MetFacts
  <1>6. ~seen.forbidden /\ a \in {"items", "failed", "forbidden"}
    BY <1>1, <1>2, NotYetRefused DEF ListAnswers, Errors
  <1> HIDE DEF refs
  <1>7. CASE a # "items"
    <2>1. seen'.forbidden \/ seen'.failed
      BY <1>5, <1>6, <1>7
    <2> QED
      BY <1>1, <1>2, <1>5, <1>7, <2>1, ResultTypes, ResolvedKeepsInv
  <1>8. CASE a = "items"
    <2>1. ~seen'.forbidden
      BY <1>5, <1>6, <1>8
    <2> QED
      BY <1>1, <1>2, <1>4, <1>5, <1>8, <2>1, ChosenKeepsInv
  <1> QED
    BY <1>7, <1>8

LEMMA TryPriorityKeepsInv == ResolverInv /\ TryPriority => ResolverInv'
  <1> SUFFICES ASSUME ResolverInv, TryPriority PROVE ResolverInv'
    OBVIOUS
  <1>1. at = "priority" /\ at \notin Over /\ at # "scope" /\ todo # <<>>
        /\ UNCHANGED <<query, objects, reply, changes>>
    BY DEF TryPriority, Over
  <1>2. PICK a \in GetAnswers(Head(todo)) :
          /\ Met(a)
          /\ CASE a = "found" -> Resolved(Exactly(TheRef(Head(todo))))
               [] a = "forbidden" -> Resolved(Denied)
               [] a \in {"absent", "failed"} -> Onward("priority", Tail(todo))
    BY DEF TryPriority
  <1>3. a \in {"found", "absent", "failed", "forbidden"}
    BY <1>2 DEF GetAnswers, Errors
  <1>4. ~seen.forbidden /\ query.name \in Names
    BY <1>1, NotYetRefused
  <1>5. Head(todo) \in Namespaces /\ Tail(todo) \in Seq(Namespaces)
    BY <1>1, TodoFacts
  <1>6. TheRef(Head(todo)) \in Ref
    BY <1>4, <1>5 DEF TheRef, PlaceOf, Ref, Places
  <1>7. /\ seen' \in [failed: BOOLEAN, forbidden: BOOLEAN, exact: BOOLEAN]
        /\ seen'.forbidden <=> seen.forbidden \/ a = "forbidden"
    BY <1>2, MetFacts
  <1>8. CASE a = "found"
    <2>1. Resolved(Exactly(TheRef(Head(todo)))) /\ ~seen'.forbidden
      BY <1>2, <1>4, <1>7, <1>8
    <2> QED
      BY <1>1, <1>6, <1>7, <2>1, ResultTypes, ResolvedKeepsInv
  <1>9. CASE a = "forbidden"
    BY <1>1, <1>2, <1>7, <1>9, ResultTypes, ResolvedKeepsInv
  <1>10. CASE a \in {"absent", "failed"}
    <2>1. ~seen'.forbidden
      BY <1>4, <1>7, <1>10
    <2>2. at' = "priority" /\ todo' = Tail(todo) /\ hits' = hits /\ found' = found
      BY <1>2, <1>10 DEF Onward
    <2>3. at' \in Underway /\ hits' \in SUBSET Hit
      BY <2>2 DEF Underway, ResolverInv, ResolverTypeOK
    <2> QED
      BY <1>1, <1>4, <1>5, <1>7, <2>1, <2>2, <2>3, OnwardKeepsInv
  <1> QED
    BY <1>3, <1>8, <1>9, <1>10

LEMMA ListNamespacesKeepsInv == ResolverInv /\ ListNamespaces => ResolverInv'
  <1> SUFFICES ASSUME ResolverInv, ListNamespaces PROVE ResolverInv'
    OBVIOUS
  <1>1. at \notin Over /\ at # "scope" /\ UNCHANGED <<query, objects, reply, changes>>
    BY DEF ListNamespaces, Over
  <1>2. PICK a \in ListAnswers :
          /\ Met(a)
          /\ CASE a = "forbidden" -> Resolved(Denied)
               [] a = "items" -> Onward("search", NamespaceList)
               [] a = "failed" -> Onward("search_known", Fallback(query))
    BY DEF ListNamespaces
  <1>3. a \in {"items", "failed", "forbidden"}
    BY <1>2 DEF ListAnswers, Errors
  <1>4. ~seen.forbidden /\ query.name \in Names
    BY <1>1, NotYetRefused
  <1>5. /\ seen' \in [failed: BOOLEAN, forbidden: BOOLEAN, exact: BOOLEAN]
        /\ seen'.forbidden <=> seen.forbidden \/ a = "forbidden"
    BY <1>2, MetFacts
  <1>6. CASE a = "forbidden"
    BY <1>1, <1>2, <1>5, <1>6, ResultTypes, ResolvedKeepsInv
  <1>7. CASE a # "forbidden"
    <2>1. ~seen'.forbidden
      BY <1>4, <1>5, <1>7
    <2>2. at' \in {"search", "search_known"} /\ todo' \in {NamespaceList, Fallback(query)}
          /\ hits' = hits /\ found' = found
      BY <1>2, <1>3, <1>7 DEF Onward
    <2>3. at' \in Underway /\ hits' \in SUBSET Hit /\ todo' \in Seq(Namespaces)
      BY <2>2, SearchListTypes DEF Underway, ResolverInv, ResolverTypeOK
    <2> QED
      BY <1>1, <1>4, <1>5, <2>1, <2>2, <2>3, OnwardKeepsInv
  <1> QED
    BY <1>6, <1>7

LEMMA SearchKeepsInv == ResolverInv /\ Search => ResolverInv'
  <1> SUFFICES ASSUME ResolverInv, Search PROVE ResolverInv'
    OBVIOUS
  <1>1. at \in {"search", "search_known"} /\ at \notin Over /\ at # "scope" /\ todo # <<>>
        /\ UNCHANGED <<query, objects, reply, changes>>
    BY DEF Search, Searching, Over
  <1>2. ~seen.forbidden /\ query.name \in Names
    BY <1>1, NotYetRefused
  <1>3. Head(todo) \in Namespaces /\ Tail(todo) \in Seq(Namespaces) /\ Len(todo) \in Nat
    BY <1>1, TodoFacts
  <1>4. at \in Underway
    BY <1>1 DEF Underway
  <1>5. hits \in SUBSET Hit /\ seen \in [failed: BOOLEAN, forbidden: BOOLEAN, exact: BOOLEAN]
    BY DEF ResolverInv, ResolverTypeOK
  <1>6. CASE InPriority(Head(todo))
    <2>1. hits' = hits /\ UNCHANGED <<at, found, seen>> /\ todo' = Tail(todo)
      BY <1>6 DEF Search
    <2> QED
      BY <1>1, <1>2, <1>3, <1>4, <1>5, <2>1, OnwardKeepsInv
  <1>7. CASE ~InPriority(Head(todo))
    <2>1. PICK a \in GetAnswers(Head(todo)) :
            /\ Met(a)
            /\ IF a = "forbidden" THEN Resolved(Denied)
               ELSE /\ hits' = hits \cup (IF a = "found"
                                            THEN HitsOf(Len(todo), {TheRef(Head(todo))}) ELSE {})
                    /\ todo' = Tail(todo) /\ UNCHANGED <<at, found>>
      BY <1>7 DEF Search
    <2>2. TheRef(Head(todo)) \in Ref
      BY <1>2, <1>3 DEF TheRef, PlaceOf, Ref, Places
    <2>3. HitsOf(Len(todo), {TheRef(Head(todo))}) \in SUBSET Hit
      BY <1>3, <2>2, ListedTypes
    <2>4. /\ seen' \in [failed: BOOLEAN, forbidden: BOOLEAN, exact: BOOLEAN]
          /\ seen'.forbidden <=> seen.forbidden \/ a = "forbidden"
      BY <2>1, MetFacts
    <2>5. CASE a = "forbidden"
      BY <1>1, <2>1, <2>4, <2>5, ResultTypes, ResolvedKeepsInv
    <2>6. CASE a # "forbidden"
      <3>1. hits' \in SUBSET Hit /\ todo' = Tail(todo) /\ at' = at /\ found' = found
        BY <1>5, <2>1, <2>3, <2>6
      <3> QED
        BY <1>1, <1>2, <1>3, <1>4, <2>4, <2>6, <3>1, OnwardKeepsInv
    <2> QED
      BY <2>5, <2>6
  <1> QED
    BY <1>6, <1>7

LEMMA SearchPrefixKeepsInv == ResolverInv /\ SearchPrefix => ResolverInv'
  <1> SUFFICES ASSUME ResolverInv, SearchPrefix PROVE ResolverInv'
    OBVIOUS
  <1>1. at = "prefix" /\ at \notin Over /\ at # "scope" /\ at \in Underway /\ todo # <<>>
        /\ UNCHANGED <<query, objects, reply, changes>>
    BY DEF SearchPrefix, Over, Underway
  <1> DEFINE RefsOf(a) == IF a = "items" THEN Listed({PlaceOf(query, Head(todo))}) ELSE {}
  <1>2. PICK a \in ListAnswers :
          /\ MetItems(a, RefsOf(a))
          /\ IF a = "forbidden" THEN Resolved(Denied)
             ELSE /\ hits' = hits \cup HitsOf(Len(todo), PrefixFilter(query, RefsOf(a), TRUE))
                  /\ todo' = Tail(todo) /\ UNCHANGED <<at, found>>
    BY DEF SearchPrefix
  <1>3. ~seen.forbidden /\ query.name \in Names
    BY <1>1, NotYetRefused
  <1>4. Head(todo) \in Namespaces /\ Tail(todo) \in Seq(Namespaces) /\ Len(todo) \in Nat
    BY <1>1, TodoFacts
  <1>5. RefsOf(a) \in SUBSET Ref
    BY <1>4, ListedTypes DEF PlaceOf, Places
  <1>6. HitsOf(Len(todo), PrefixFilter(query, RefsOf(a), TRUE)) \in SUBSET Hit
    BY <1>4, <1>5, ListedTypes
  <1>7. /\ seen' \in [failed: BOOLEAN, forbidden: BOOLEAN, exact: BOOLEAN]
        /\ seen'.forbidden <=> seen.forbidden \/ a = "forbidden"
    BY <1>2, MetFacts
  <1> HIDE DEF RefsOf
  <1>8. CASE a = "forbidden"
    BY <1>1, <1>2, <1>7, <1>8, ResultTypes, ResolvedKeepsInv
  <1>9. CASE a # "forbidden"
    <2>1. hits' \in SUBSET Hit /\ todo' = Tail(todo) /\ at' = at /\ found' = found
      BY <1>2, <1>6, <1>9 DEF ResolverInv, ResolverTypeOK
    <2> QED
      BY <1>1, <1>3, <1>4, <1>7, <1>9, <2>1, OnwardKeepsInv
  <1> QED
    BY <1>8, <1>9

LEMMA SearchedKeepsInv == ResolverInv /\ (Searched \/ PrefixSearched) => ResolverInv'
  <1> SUFFICES ASSUME ResolverInv, Searched \/ PrefixSearched PROVE ResolverInv'
    OBVIOUS
  <1>1. at \notin Over /\ at # "scope" /\ UNCHANGED <<query, objects, reply, changes, seen>>
    BY DEF Searched, PrefixSearched, Searching, Over
  <1>2. ~seen.forbidden /\ query.name \in Names
    BY <1>1, NotYetRefused
  <1>3. hits \in SUBSET Hit /\ seen \in [failed: BOOLEAN, forbidden: BOOLEAN, exact: BOOLEAN]
    BY DEF ResolverInv, ResolverTypeOK
  <1>4. CASE Resolved(BuildResult(query, hits))
    BY <1>1, <1>2, <1>3, <1>4, ChosenKeepsInv
  <1>5. CASE Resolved(Missing)
    BY <1>1, <1>2, <1>3, <1>5, ResultTypes, ResolvedKeepsInv
  <1>6. CASE \E nss \in {NamespaceList, Fallback(query)} : Onward("prefix", nss)
    <2>1. at' = "prefix" /\ todo' \in {NamespaceList, Fallback(query)} /\ hits' = hits /\ found' = found
      BY <1>6 DEF Onward
    <2>2. at' \in Underway /\ todo' \in Seq(Namespaces)
      BY <2>1, SearchListTypes DEF Underway, ResolverInv, ResolverTypeOK
    <2> QED
      BY <1>1, <1>2, <1>3, <2>1, <2>2, OnwardKeepsInv
  <1> QED
    BY <1>4, <1>5, <1>6 DEF Searched, PrefixSearched

\* Lemma: the tool's own request changes nothing of the resolution.
LEMMA ToolsKeepInv == ResolverInv /\ (Refused \/ Fetch) => ResolverInv'
  <1> SUFFICES ASSUME ResolverInv, Refused \/ Fetch PROVE ResolverInv'
    OBVIOUS
  <1>1. at = "resolved" /\ at' = "replied" /\ UNCHANGED <<query, objects, todo, hits, found, changes, seen>>
    BY DEF Refused, Fetch
  <1>2. reply' \in Statuses \cup {"none", "diagnosing", "error"} /\ (reply' = "diagnosing" => found.status = "found")
    <2>1. CASE Refused
      BY <2>1 DEF Refused, ResolverInv, ResolverTypeOK, Statuses
    <2>2. CASE Fetch
      <3>1. PICK tool \in {"find", "get", "diagnose"}, a \in {"failed", "forbidden", "found", "absent"} :
              reply' = ReplyTo(tool, a)
        BY <2>2 DEF Fetch, Errors
      <3>2. found.status = "found"
        BY <2>2 DEF Fetch
      <3> QED
        BY <3>1, <3>2 DEF ReplyTo, Statuses
    <2> QED
      BY <2>1, <2>2
  <1> QED
    BY <1>1, <1>2 DEF ResolverInv, ResolverTypeOK, Over

LEMMA OtherClientKeepsInv == ResolverInv /\ OtherClient => ResolverInv'
  <1> SUFFICES ASSUME ResolverInv, OtherClient PROVE ResolverInv'
    OBVIOUS
  <1>1. PICK p \in Places, n \in Names :
          objects' = [objects EXCEPT ![p] = IF n \in @ THEN @ \ {n} ELSE @ \cup {n}]
    BY DEF OtherClient, Places
  <1>2. objects' \in [Places -> SUBSET Names]
    BY <1>1 DEF ResolverInv, ResolverTypeOK
  <1>3. changes' \in 0 .. MaxChanges
    <2>1. changes \in 0 .. MaxChanges /\ changes < MaxChanges /\ changes' = changes + 1
      BY DEF OtherClient, ResolverInv, ResolverTypeOK
    <2>2. MaxChanges \in Nat
      BY ResolverAssumption
    <2> QED
      BY <2>1, <2>2
  <1> QED
    BY <1>2, <1>3 DEF OtherClient, ResolverInv, ResolverTypeOK, Over

\* Lemma: the diagnosis begins with the status of what was found.
LEMMA DispatchKeepsInv == ResolverInv /\ Dispatch => ResolverInv'
  <1> SUFFICES ASSUME ResolverInv, Dispatch PROVE ResolverInv'
    OBVIOUS
  <1>1. /\ reply = "diagnosing" /\ reply' = reply /\ at' = at /\ todo' = todo /\ hits' = hits
        /\ query' = (CHOOSE q \in Queries : TRUE) /\ objects' = Nowhere /\ changes' = 0
        /\ found' = [found EXCEPT !.match = {}]
        /\ seen' = [failed |-> FALSE, forbidden |-> FALSE, exact |-> FALSE]
    BY DEF Dispatch
  <1>2. query' \in Queries
    BY <1>1 DEF ResolverInv
  <1>3. query' \in Query /\ changes' \in 0 .. MaxChanges /\ objects' \in [Places -> SUBSET Names]
    BY <1>1, <1>2, ResolverAssumption DEF Nowhere
  <1>4. found' \in Results /\ found'.status = "found" /\ at = "replied"
    BY <1>1 DEF ResolverInv, ResolverTypeOK, Results, Statuses
  <1> QED
    BY <1>1, <1>2, <1>3, <1>4 DEF ResolverInv, ResolverTypeOK, Results, Over

LEMMA ResolverInvNext == ResolverInv /\ [Next]_vars => ResolverInv'
  <1> SUFFICES ASSUME ResolverInv, [Next]_vars PROVE ResolverInv'
    OBVIOUS
  <1>1. CASE ResolverStep
    BY <1>1, ScopeKeepsInv, GetThereKeepsInv, ListThereKeepsInv, ListEverywhereKeepsInv,
       TryPriorityKeepsInv, ListNamespacesKeepsInv, SearchKeepsInv, SearchPrefixKeepsInv,
       SearchedKeepsInv, ToolsKeepInv
    DEF ResolverStep
  <1>2. CASE Dispatch
    BY <1>2, DispatchKeepsInv
  <1>3. CASE OtherClient
    BY <1>3, OtherClientKeepsInv
  <1>4. CASE UNCHANGED resolverVars
    <2>1. /\ query' = query /\ objects' = objects /\ at' = at /\ todo' = todo /\ hits' = hits
          /\ found' = found /\ reply' = reply /\ changes' = changes /\ seen' = seen
      BY <1>4 DEF resolverVars
    <2>2. ResolverTypeOK'
      BY <2>1 DEF ResolverInv, ResolverTypeOK
    <2> QED
      BY <2>1, <2>2 DEF ResolverInv
  <1> QED
    BY <1>1, <1>2, <1>3, <1>4 DEF Next, Call, Environment, Resolve, Read, Analyze, ContextEnds,
       vars, OtherClient

\* The inductive invariant of the resolution: nothing is found before it has ended, a
\* refusal ends it as permission_denied, and nothing else does but a failure.
THEOREM ResolverInvHolds == Spec => []ResolverInv
  <1>1. Init => ResolverInv
    BY ResolverInvInit DEF Init
  <1> QED
    BY <1>1, ResolverInvNext, PTL DEF Spec

\* A refusal is never passed over, in whichever of the resolution's requests it comes.
THEOREM RefusalIsToldHolds == Spec => []RefusalIsTold
  <1>1. ResolverInv => RefusalIsTold
    BY DEF ResolverInv, RefusalIsTold
  <1> QED
    BY <1>1, ResolverInvHolds, PTL

----------------------------------------------------------------------------
(* The answer is what the name stands for, if every request is answered    *)
(* and no other client gets in between.                                    *)

Calm == stage = "resolve" /\ ~seen.failed /\ ~seen.forbidden /\ changes = 0

K == Len(NamespaceList)
HoldsIt(p) == query.name \in objects[p]
RefOf(p) == [place |-> p, name |-> query.name]

\* What a search is to gather: the exact name, or those that begin with it, of the
\* first n namespaces.
Wanted(exact, ns) ==
  {r \in Listed({ns}) : IF exact THEN r.name = query.name
                        ELSE query.name \in Long /\ <<r.name, query.name>> \in Extends}
Gathered(exact, n) == UNION {HitsOf(K + 1 - i, Wanted(exact, NamespaceList[i])) : i \in 1 .. n}

\* Objects are where the kind has them.
WorldOK == \A p \in Places : (p = Cluster) # (query.kind = "cluster") => objects[p] = {}

\* What the question must be for a calm call to be where it is.
PathOK ==
  /\ at \notin {"scope", "cluster", "cluster_list"} \cup Over => query.kind = "namespaced"
  /\ at = "everywhere" => query.all
  /\ at \in {"namespace", "namespace_list"} => ~query.all
  /\ at \in {"priority", "search", "prefix"} => ~query.all /\ query.namespace = Empty
  /\ at # "search_known"

\* Where the name has been looked for in vain.
LookedOK ==
  /\ at = "cluster_list" => ~HoldsIt(Cluster)
  /\ at = "namespace_list" => query.prefixMatch /\ ~HoldsIt(query.namespace)
  /\ at = "priority" =>
       \/ todo = Priority(query)
       \/ todo = <<Default>> /\ ~HoldsIt(ContextNamespace(query))
       \/ todo = <<>> /\ ~HoldsIt(ContextNamespace(query)) /\ ~HoldsIt(Default)
  /\ at \in {"search", "prefix"} => ~HoldsIt(ContextNamespace(query)) /\ ~HoldsIt(Default)
  /\ at = "prefix" => query.prefixMatch /\ \A ns \in Namespaces : ~HoldsIt(ns)

\* How far a search has come, and what it has gathered on the way.
GatheredOK ==
  /\ at \notin {"search", "prefix"} => hits = {}
  /\ at \in {"search", "prefix"} =>
       /\ Len(todo) <= K
       /\ \A i \in 1 .. Len(todo) : todo[i] = NamespaceList[K - Len(todo) + i]
       /\ hits = Gathered(at = "search", K - Len(todo))

AnswerOK == found # Nothing => Says(found, Candidates(query, objects))

SearchInv == Calm => WorldOK /\ PathOK /\ LookedOK /\ GatheredOK /\ AnswerOK

\* Lemma: there are finitely many references.
LEMMA RefFinite == IsFiniteSet(Ref)
  <1>1. IsFiniteSet(Places) /\ IsFiniteSet(Names)
    <2>1. IsFiniteSet(Namespaces) /\ IsFiniteSet(Names)
      BY ResolverAssumption
    <2>2. IsFiniteSet(Namespaces \cup {Cluster})
      BY <2>1, FS_AddElement
    <2> QED
      BY <2>1, <2>2 DEF Places
  <1>2. IsFiniteSet(Places \X Names)
    BY <1>1, FS_Product
  <1> DEFINE f == [r \in Ref |-> <<r.place, r.name>>]
  <1>3. f \in Injection(Ref, Places \X Names)
    <2>1. f \in [Ref -> Places \X Names]
      BY DEF Ref
    <2>2. \A r, s \in Ref : f[r] = f[s] => r = s
      BY DEF Ref
    <2> QED
      BY <2>1, <2>2 DEF Injection, IsInjective
  <1> HIDE DEF f
  <1> QED
    BY <1>2, <1>3, FS_Injection

\* Lemma: hits of distinct references come to what their references say.
LEMMA BuildTrue ==
  ASSUME NEW q, NEW hs \in SUBSET Hit, NEW C \in SUBSET Ref,
         \A h \in hs : h.ref \in C, \A r \in C : \E h \in hs : h.ref = r,
         \A h, k \in hs : h.ref = k.ref => h = k
  PROVE  Says(BuildResult(q, hs), C)
  <1>1. IsFiniteSet(C)
    BY RefFinite, FS_Subset
  <1> DEFINE f == [h \in hs |-> h.ref]
  <1>2. f \in Injection(hs, C)
    BY DEF Injection, IsInjective
  <1>3. f \in Surjection(hs, C)
    BY <1>2 DEF Injection, Surjection
  <1> HIDE DEF f
  <1>4. IsFiniteSet(hs) /\ Cardinality(hs) = Cardinality(C)
    BY <1>1, <1>2, <1>3, FS_Injection
  <1>5. Cardinality(C) \in Nat /\ (Cardinality(hs) = 0 <=> hs = {})
    BY <1>1, <1>4, FS_CardinalityType, FS_EmptySet
  <1>6. {h.ref : h \in hs} = C
    OBVIOUS
  <1>7. CASE Cardinality(C) = 0
    BY <1>4, <1>5, <1>7 DEF Says, BuildResult, Nothing
  <1>8. CASE Cardinality(C) = 1
    <2>1. BuildResult(q, hs).status = "found" /\ BuildResult(q, hs).match = {h.ref : h \in hs}
      BY <1>4, <1>5, <1>8 DEF BuildResult
    <2> QED
      BY <1>6, <1>8, <2>1 DEF Says
  <1>9. CASE Cardinality(C) > 1
    <2>1. BuildResult(q, hs).status = "ambiguous"
      BY <1>4, <1>5, <1>9 DEF BuildResult, Nothing
    <2> QED
      BY <1>5, <1>9, <2>1 DEF Says
  <1> QED
    BY <1>5, <1>7, <1>8, <1>9

\* Lemma: what is said of one object, and of none.
LEMMA SaysOneNone ==
  /\ \A r : Says(Exactly(r), {r})
  /\ Says(Missing, {})
  BY FS_Singleton, FS_EmptySet DEF Says, Exactly, Missing, Nothing

\* Lemma: the references of a list chosen from, each found at one turn.
LEMMA HitsOfTrue ==
  ASSUME NEW q, NEW turn \in Nat, NEW refs \in SUBSET Ref
  PROVE  Says(BuildResult(q, HitsOf(turn, refs)), refs)
  <1>1. HitsOf(turn, refs) \in SUBSET Hit
    BY ListedTypes
  <1>2. /\ \A h \in HitsOf(turn, refs) : h.ref \in refs
        /\ \A r \in refs : \E h \in HitsOf(turn, refs) : h.ref = r
        /\ \A h, k \in HitsOf(turn, refs) : h.ref = k.ref => h = k
    <2>1. \A h \in HitsOf(turn, refs) : \E r \in refs : h = [turn |-> turn, ref |-> r]
      BY DEF HitsOf
    <2>2. \A r \in refs : [turn |-> turn, ref |-> r] \in HitsOf(turn, refs)
      BY DEF HitsOf
    <2>3. \A h \in HitsOf(turn, refs) : h.ref \in refs /\ h = [turn |-> turn, ref |-> h.ref]
      BY <2>1
    <2>4. \A r \in refs : \E h \in HitsOf(turn, refs) : h.ref = r
      BY <2>2
    <2> QED
      BY <2>3, <2>4
  <1> QED
    BY <1>1, <1>2, BuildTrue

----------------------------------------------------------------------------
(* What the name stands for, seen from where the call is.                  *)

Preferring == query.kind = "namespaced" /\ ~query.all /\ query.namespace = Empty

\* Lemma: a name in the one place the question names stands for the object there.
LEMMA OneThere ==
  ASSUME NEW p \in Places, InScope(query) = {p}, query.name \in Names, ~Preferring, HoldsIt(p)
  PROVE  Candidates(query, objects) = {RefOf(p)}
  <1> DEFINE refs == {r \in RefsIn(InScope(query)) : r.name \in objects[r.place]}
             exact == {r \in refs : r.name = query.name}
  <1>1. exact = {RefOf(p)}
    BY DEF RefsIn, HoldsIt, RefOf
  <1>2. query.name # Empty
    BY ResolverAssumption
  <1> QED
    BY <1>1, <1>2 DEF Candidates, Preferring

\* Lemma: a list of all of its scope is chosen from as the name would be.
LEMMA ChosenFromList ==
  ASSUME query.name \in Names, ~Preferring
  PROVE  PrefixFilter(query, Listed(InScope(query)), query.prefixMatch) = Candidates(query, objects)
  <1>1. query.name # Empty
    BY ResolverAssumption
  <1> QED
    BY <1>1 DEF Candidates, Preferring, PrefixFilter, Listed

\* Lemma: the context's namespace comes first, then "default", then all.
LEMMA PreferredThere ==
  ASSUME query \in Query, query.name \in Names, Preferring
  PROVE  /\ HoldsIt(ContextNamespace(query)) =>
              Candidates(query, objects) = {RefOf(ContextNamespace(query))}
         /\ ~HoldsIt(ContextNamespace(query)) /\ HoldsIt(Default) =>
              Candidates(query, objects) = {RefOf(Default)}
         /\ ~HoldsIt(ContextNamespace(query)) /\ ~HoldsIt(Default) =>
              Candidates(query, objects) =
                LET refs == Listed(Namespaces)
                    exact == {r \in refs : r.name = query.name}
                IN IF exact # {} THEN exact
                   ELSE {r \in refs : query.prefixMatch /\ query.name \in Long
                                        /\ <<r.name, query.name>> \in Extends}
  <1> DEFINE refs == {r \in RefsIn(InScope(query)) : r.name \in objects[r.place]}
             exact == {r \in refs : r.name = query.name}
             In(ns) == {r \in exact : r.place = ns}
             ctx == ContextNamespace(query)
  <1>1. ctx \in Namespaces /\ Default \in Namespaces /\ InScope(query) = Namespaces
        /\ query.name # Empty /\ refs = Listed(Namespaces)
    BY ResolverAssumption DEF ContextNamespace, Query, InScope, Preferring, Listed
  <1>2. \A ns \in Namespaces : HoldsIt(ns) => In(ns) = {RefOf(ns)}
    BY <1>1 DEF RefsIn, HoldsIt, RefOf
  <1>3. \A ns \in Namespaces : ~HoldsIt(ns) => In(ns) = {}
    BY <1>1 DEF RefsIn, HoldsIt
  <1>4. Candidates(query, objects) =
          LET preferred == IF In(ctx) # {} THEN In(ctx) ELSE In(Default)
          IN IF preferred # {} THEN preferred
             ELSE IF exact # {} THEN exact
             ELSE {r \in refs : query.prefixMatch /\ query.name \in Long
                                  /\ <<r.name, query.name>> \in Extends}
    BY <1>1 DEF Candidates, Preferring
  <1> HIDE DEF In, refs, ctx
  <1>5. HoldsIt(ctx) => Candidates(query, objects) = {RefOf(ctx)}
    BY <1>1, <1>2, <1>4
  <1>6. ~HoldsIt(ctx) /\ HoldsIt(Default) => Candidates(query, objects) = {RefOf(Default)}
    BY <1>1, <1>2, <1>3, <1>4
  <1>7. ~HoldsIt(ctx) /\ ~HoldsIt(Default) =>
          Candidates(query, objects) =
             IF exact # {} THEN exact
             ELSE {r \in refs : query.prefixMatch /\ query.name \in Long
                                  /\ <<r.name, query.name>> \in Extends}
    BY <1>1, <1>3, <1>4
  <1> QED
    BY <1>1, <1>5, <1>6, <1>7 DEF ctx

----------------------------------------------------------------------------
(* Gathering.                                                              *)

\* Lemma: K is a number, and the list has every namespace once.
LEMMA NamespaceListFacts ==
  /\ K \in Nat
  /\ \A i \in 1 .. K : NamespaceList[i] \in Namespaces
  /\ \A ns \in Namespaces : \E i \in 1 .. K : NamespaceList[i] = ns
  /\ \A i, j \in 1 .. K : NamespaceList[i] = NamespaceList[j] => i = j
  <1>1. NamespaceList \in Seq(Namespaces)
    BY ResolverAssumption
  <1>2. K \in Nat /\ DOMAIN NamespaceList = 1 .. K
    BY <1>1 DEF K
  <1> QED
    BY <1>1, <1>2, ResolverAssumption

\* Lemma: nothing is gathered at first, and one namespace at a time.
LEMMA GatherMore ==
  ASSUME NEW exact
  PROVE  /\ Gathered(exact, 0) = {}
         /\ \A n \in 0 .. K - 1 :
              Gathered(exact, n + 1) =
                Gathered(exact, n) \cup HitsOf(K - n, Wanted(exact, NamespaceList[n + 1]))
  <1>1. Gathered(exact, 0) = {}
    BY DEF Gathered
  <1>2. ASSUME NEW n \in 0 .. K - 1
        PROVE  Gathered(exact, n + 1) =
                 Gathered(exact, n) \cup HitsOf(K - n, Wanted(exact, NamespaceList[n + 1]))
    <2>1. K \in Nat /\ 1 .. (n + 1) = (1 .. n) \cup {n + 1} /\ K + 1 - (n + 1) = K - n
      BY NamespaceListFacts
    <2> QED
      BY <2>1 DEF Gathered
  <1> QED
    BY <1>1, <1>2

\* Lemma: what a finished search has gathered.
LEMMA GatheredTrue ==
  ASSUME NEW exact \in BOOLEAN, NEW q
  PROVE  LET C == {r \in Listed(Namespaces) :
                     IF exact THEN r.name = query.name
                     ELSE query.name \in Long /\ <<r.name, query.name>> \in Extends}
         IN /\ Says(BuildResult(q, Gathered(exact, K)), C)
            /\ Gathered(exact, K) = {} <=> C = {}
  <1> DEFINE C == {r \in Listed(Namespaces) :
                     IF exact THEN r.name = query.name
                     ELSE query.name \in Long /\ <<r.name, query.name>> \in Extends}
             hs == Gathered(exact, K)
  <1>1. C \in SUBSET Ref
    BY ListedTypes DEF Places
  <1>2. \A r \in C : \E i \in 1 .. K : r \in Wanted(exact, NamespaceList[i])
    BY NamespaceListFacts DEF Wanted, Listed, RefsIn
  <1>3. \A i \in 1 .. K : \A r \in Wanted(exact, NamespaceList[i]) : r \in C /\ r.place = NamespaceList[i]
    BY NamespaceListFacts DEF Wanted, Listed, RefsIn
  <1>4. \A h \in hs : \E i \in 1 .. K : \E r \in Wanted(exact, NamespaceList[i]) :
           h = [turn |-> K + 1 - i, ref |-> r]
    BY DEF Gathered, HitsOf
  <1>5. \A i \in 1 .. K : \A r \in Wanted(exact, NamespaceList[i]) :
           [turn |-> K + 1 - i, ref |-> r] \in hs
    BY DEF Gathered, HitsOf
  <1> HIDE DEF hs, C
  <1>6. hs \in SUBSET Hit
    <2>1. \A i \in 1 .. K : K + 1 - i \in Nat
      BY NamespaceListFacts
    <2> QED
      BY <1>1, <1>3, <1>4, <2>1 DEF Hit
  <1>7. \A h \in hs : h.ref \in C
    BY <1>3, <1>4
  <1>8. \A r \in C : \E h \in hs : h.ref = r
    BY <1>2, <1>5
  <1>9. \A h, k \in hs : h.ref = k.ref => h = k
    BY <1>3, <1>4, NamespaceListFacts
  <1>10. Says(BuildResult(q, hs), C)
    BY <1>1, <1>6, <1>7, <1>8, <1>9, BuildTrue
  <1>11. hs = {} <=> C = {}
    BY <1>7, <1>8
  <1> QED
    BY <1>10, <1>11 DEF hs, C

----------------------------------------------------------------------------
(* The steps.                                                              *)

\* Lemma: in a calm state a request was answered, and the state before was calm.
LEMMA CalmBefore ==
  ASSUME ResolverInv, UNCHANGED <<stage, changes>>, Calm', NEW a, NEW refs, Met(a) \/ MetItems(a, refs)
  PROVE  Calm /\ a \notin Errors
  BY MetFacts DEF Calm, Errors

\* Lemma: a resolution that ends with the truth.
LEMMA EndsTrue ==
  ASSUME SearchInv, Calm, NEW r, Resolved(r), UNCHANGED <<query, objects>>,
         Says(r, Candidates(query, objects))
  PROVE  SearchInv'
  <1>1. found' = r /\ at' = "resolved" /\ todo' = <<>> /\ hits' = {} /\ query' = query /\ objects' = objects
    BY DEF Resolved
  <1>2. WorldOK'
    BY <1>1 DEF SearchInv, WorldOK
  <1>3. PathOK' /\ LookedOK' /\ GatheredOK'
    BY <1>1 DEF PathOK, LookedOK, GatheredOK, Over
  <1>4. AnswerOK'
    BY <1>1 DEF AnswerOK
  <1> QED
    BY <1>2, <1>3, <1>4 DEF SearchInv

\* Lemma: a resolution that goes on, with nothing found yet.
LEMMA GoesOnTrue ==
  ASSUME ResolverInv, SearchInv, Calm, at \notin Over, UNCHANGED <<query, objects, found>>,
         PathOK', LookedOK', GatheredOK'
  PROVE  SearchInv'
  <1>1. found' = Nothing
    BY NotYetRefused
  <1>2. AnswerOK' /\ WorldOK'
    BY <1>1 DEF AnswerOK, WorldOK, SearchInv
  <1> QED
    BY <1>2 DEF SearchInv

\* Lemma: what the parts of the invariant say before a step.
LEMMA CalmFacts ==
  ASSUME ResolverInv, SearchInv, Calm
  PROVE  /\ WorldOK /\ PathOK /\ LookedOK /\ GatheredOK /\ AnswerOK
         /\ query \in Query /\ query.kind \in {"namespaced", "cluster"} /\ query.prefixMatch \in BOOLEAN
  BY DEF SearchInv, ResolverInv, ResolverTypeOK, Query

\* Lemma: a search that has gathered what it must, up to the namespace it is at.
LEMMA GatheringAfter ==
  ASSUME UNCHANGED <<query, objects>>, at' \in {"search", "prefix"},
         Len(todo') <= K,
         \A i \in 1 .. Len(todo') : todo'[i] = NamespaceList[K - Len(todo') + i],
         hits' = Gathered(at' = "search", K - Len(todo'))
  PROVE  GatheredOK'
  <1>1. query' = query /\ objects' = objects
    OBVIOUS
  <1>2. \A exact, n : Gathered(exact, n)' = Gathered(exact, n)
    BY <1>1 DEF Gathered, Wanted, Listed, RefsIn
  <1>3. hits' = Gathered(at = "search", K - Len(todo))'
    BY <1>1 DEF Gathered, Wanted, Listed, RefsIn
  <1> QED
    BY <1>3 DEF GatheredOK

LEMMA ScopeTrue ==
  ASSUME ResolverInv, SearchInv, Scope, UNCHANGED stage, Calm'
  PROVE  SearchInv'
  <1>1. at = "scope" /\ UNCHANGED <<query, objects, changes>> /\ at \notin Over
    BY DEF Scope, Over
  <1>2. CASE query.name = Empty
    <2>1. Resolved(Missing) /\ Calm
      BY <1>1, <1>2 DEF Scope, Calm
    <2>2. Candidates(query, objects) = {}
      BY <1>2 DEF Candidates
    <2> QED
      BY <1>1, <2>1, <2>2, SaysOneNone, EndsTrue
  <1>3. CASE query.name # Empty
    <2> PICK told \in MappingTold :
          /\ seen' = [seen EXCEPT !.failed = @ \/ ~told]
          /\ IF query.kind = "cluster" /\ told THEN Onward("cluster", <<>>)
             ELSE IF query.all THEN Onward("everywhere", <<>>)
             ELSE IF query.namespace # Empty THEN Onward("namespace", <<>>)
             ELSE Onward("priority", Priority(query))
      BY <1>3 DEF Scope
    <2>1. told /\ Calm
      BY <1>1 DEF Calm, ResolverInv, ResolverTypeOK
    <2>2. hits = {} /\ query.kind \in {"namespaced", "cluster"}
      BY <1>1, <2>1, CalmFacts DEF GatheredOK
    <2>3. hits' = hits /\ found' = found
          /\ \/ query.kind = "cluster" /\ at' = "cluster"
             \/ query.kind = "namespaced" /\ query.all /\ at' = "everywhere"
             \/ query.kind = "namespaced" /\ ~query.all /\ at' = "namespace"
             \/ query.kind = "namespaced" /\ ~query.all /\ query.namespace = Empty
                  /\ at' = "priority" /\ todo' = Priority(query)
      BY <2>1, <2>2 DEF Onward
    <2>4. PathOK' /\ LookedOK' /\ GatheredOK'
      BY <1>1, <2>2, <2>3 DEF PathOK, LookedOK, GatheredOK, Over
    <2> QED
      BY <1>1, <2>1, <2>3, <2>4, GoesOnTrue
  <1> QED
    BY <1>2, <1>3

\* Lemma: the one place a question may name.
LEMMA ThePlace ==
  ASSUME ResolverInv, SearchInv, Calm, NEW ns,
         \/ at \in {"cluster", "cluster_list"} /\ ns = Cluster
         \/ at \in {"namespace", "namespace_list"} /\ ns = query.namespace
  PROVE  /\ PlaceOf(query, ns) = ns /\ ns \in Places /\ InScope(query) = {ns} /\ ~Preferring
         /\ query.name \in Names
  <1>1. query.name \in Names
    BY DEF ResolverInv, Over
  <1>2. CASE at \in {"cluster", "cluster_list"} /\ ns = Cluster
    <2>1. query.kind = "cluster"
      BY <1>2 DEF ResolverInv
    <2> QED
      BY <1>1, <1>2, <2>1 DEF PlaceOf, Places, InScope, Preferring
  <1>3. CASE at \in {"namespace", "namespace_list"} /\ ns = query.namespace
    <2>1. query.kind = "namespaced" /\ ~query.all
      BY <1>3, CalmFacts DEF PathOK, Over
    <2>2. ns \in Namespaces /\ ns # Empty
      BY <1>3, ResolverAssumption DEF ResolverInv, Places
    <2> QED
      BY <1>1, <1>3, <2>1, <2>2 DEF PlaceOf, Places, InScope, Preferring
  <1> QED
    BY <1>2, <1>3

LEMMA GetThereTrue ==
  ASSUME ResolverInv, SearchInv, NEW where, NEW then, NEW ns, GetThere(where, then, ns),
         \/ where = "cluster" /\ then = "cluster_list" /\ ns = Cluster
         \/ where = "namespace" /\ then = "namespace_list" /\ ns = query.namespace,
         UNCHANGED stage, Calm'
  PROVE  SearchInv'
  <1>1. at = where /\ at \notin Over /\ UNCHANGED <<query, objects, changes>>
    BY DEF GetThere, Over
  <1>2. PICK a \in GetAnswers(ns) :
          /\ Met(a)
          /\ CASE a = "found" -> Resolved(Exactly(TheRef(ns)))
               [] a = "forbidden" -> Resolved(Denied)
               [] a \in {"absent", "failed"} ->
                    IF where = "namespace" /\ ~query.prefixMatch
                      THEN Resolved(Missing) ELSE Onward(then, <<>>)
    BY DEF GetThere
  <1>3. Calm /\ a \notin Errors
    BY <1>1, <1>2, CalmBefore
  <1>4. /\ PlaceOf(query, ns) = ns /\ ns \in Places /\ InScope(query) = {ns} /\ ~Preferring
        /\ query.name \in Names
    BY <1>1, <1>3, ThePlace
  <1>5. a = (IF HoldsIt(ns) THEN "found" ELSE "absent")
    BY <1>2, <1>3, <1>4 DEF GetAnswers, HoldsIt
  <1>6. CASE HoldsIt(ns)
    <2>1. Resolved(Exactly(RefOf(ns)))
      BY <1>2, <1>4, <1>5, <1>6 DEF TheRef, RefOf
    <2>2. Candidates(query, objects) = {RefOf(ns)}
      BY <1>4, <1>6, OneThere
    <2> QED
      BY <1>1, <1>3, <2>1, <2>2, SaysOneNone, EndsTrue
  <1>7. CASE ~HoldsIt(ns) /\ where = "namespace" /\ ~query.prefixMatch
    <2>1. Resolved(Missing)
      BY <1>2, <1>5, <1>7
    <2>2. PrefixFilter(query, Listed({ns}), query.prefixMatch) = {}
      BY <1>7 DEF PrefixFilter, Listed, RefsIn, HoldsIt
    <2>3. Candidates(query, objects) = {}
      BY <1>4, <2>2, ChosenFromList
    <2> QED
      BY <1>1, <1>3, <2>1, <2>3, SaysOneNone, EndsTrue
  <1>8. CASE ~HoldsIt(ns) /\ ~(where = "namespace" /\ ~query.prefixMatch)
    <2>1. Onward(then, <<>>)
      BY <1>2, <1>5, <1>8
    <2>2. at' = then /\ hits' = hits /\ found' = found
      BY <2>1 DEF Onward
    <2>3. hits = {} /\ PathOK /\ query.prefixMatch \in BOOLEAN
      BY <1>1, <1>3, CalmFacts DEF GatheredOK
    <2>4. PathOK'
      BY <1>1, <2>2, <2>3 DEF PathOK, Over
    <2>5. LookedOK' /\ GatheredOK'
      BY <1>1, <1>8, <2>2, <2>3 DEF LookedOK, GatheredOK, HoldsIt
    <2> QED
      BY <1>1, <1>3, <2>2, <2>4, <2>5, GoesOnTrue
  <1> QED
    BY <1>6, <1>7, <1>8

LEMMA ListThereTrue ==
  ASSUME ResolverInv, SearchInv, NEW where, NEW ns, ListThere(where, ns),
         \/ where = "cluster_list" /\ ns = Cluster
         \/ where = "namespace_list" /\ ns = query.namespace,
         UNCHANGED stage, Calm'
  PROVE  SearchInv'
  <1>1. at = where /\ at \notin Over /\ UNCHANGED <<query, objects, changes>>
    BY DEF ListThere, Over
  <1> DEFINE RefsOf(a) == IF a = "items" THEN Listed({PlaceOf(query, ns)}) ELSE {}
  <1>2. PICK a \in ListAnswers :
          /\ MetItems(a, RefsOf(a))
          /\ IF a = "forbidden" THEN Resolved(Denied)
             ELSE Resolved(BuildResult(query,
                    HitsOf(0, PrefixFilter(query, RefsOf(a), query.prefixMatch))))
    BY DEF ListThere
  <1>3. Calm /\ a \notin Errors
    BY <1>1, <1>2, CalmBefore
  <1>4. a = "items" /\ a # "forbidden"
    BY <1>3 DEF ListAnswers, Errors
  <1>5. /\ PlaceOf(query, ns) = ns /\ ns \in Places /\ InScope(query) = {ns} /\ ~Preferring
        /\ query.name \in Names
    BY <1>1, <1>3, ThePlace
  <1>6. RefsOf(a) = Listed({ns})
    BY <1>4, <1>5
  <1> HIDE DEF RefsOf
  <1>7. PrefixFilter(query, RefsOf(a), query.prefixMatch) = Candidates(query, objects)
    BY <1>5, <1>6, ChosenFromList
  <1>8. Candidates(query, objects) \in SUBSET Ref
    BY <1>5, <1>6, <1>7, ListedTypes
  <1>9. Resolved(BuildResult(query, HitsOf(0, Candidates(query, objects))))
    BY <1>2, <1>4, <1>7
  <1> QED
    BY <1>1, <1>3, <1>8, <1>9, HitsOfTrue, EndsTrue

LEMMA ListEverywhereTrue ==
  ASSUME ResolverInv, SearchInv, ListEverywhere, UNCHANGED stage, Calm'
  PROVE  SearchInv'
  <1>1. at = "everywhere" /\ at \notin Over /\ UNCHANGED <<query, objects, changes>>
    BY DEF ListEverywhere, Over
  <1> DEFINE refs == Listed(IF query.kind = "cluster" THEN {Cluster} ELSE Namespaces)
  <1>2. PICK a \in ListAnswers :
          /\ MetItems(a, refs)
          /\ IF a # "items" THEN Resolved(Denied)
             ELSE Resolved(BuildResult(query, HitsOf(0, PrefixFilter(query, refs, query.prefixMatch))))
    BY DEF ListEverywhere
  <1>3. Calm /\ a \notin Errors
    BY <1>1, <1>2, CalmBefore
  <1>4. a = "items"
    BY <1>3 DEF ListAnswers, Errors
  <1>5. query.kind = "namespaced" /\ query.all /\ query.name \in Names
    BY <1>1, <1>3, CalmFacts DEF PathOK, Over, ResolverInv
  <1>6. refs = Listed(InScope(query)) /\ ~Preferring
    BY <1>5 DEF InScope, Preferring
  <1>7. PrefixFilter(query, refs, query.prefixMatch) = Candidates(query, objects)
    BY <1>5, <1>6, ChosenFromList
  <1>8. refs \in SUBSET Ref
    BY <1>5, ListedTypes DEF Places
  <1> HIDE DEF refs
  <1>9. Candidates(query, objects) \in SUBSET Ref
    BY <1>7, <1>8, ListedTypes
  <1>10. Resolved(BuildResult(query, HitsOf(0, Candidates(query, objects))))
    BY <1>2, <1>4, <1>7
  <1> QED
    BY <1>1, <1>3, <1>9, <1>10, HitsOfTrue, EndsTrue

\* Lemma: the search by namespace is for a name in any of them.
LEMMA AnyNamespace ==
  ASSUME ResolverInv, SearchInv, Calm, at \in {"priority", "search", "prefix"}
  PROVE  /\ Preferring /\ query.kind = "namespaced" /\ query \in Query /\ query.name \in Names
         /\ ContextNamespace(query) \in Namespaces /\ Default \in Namespaces
         /\ \A ns \in Namespaces : PlaceOf(query, ns) = ns /\ TheRef(ns) = RefOf(ns)
  <1>1. query.kind = "namespaced" /\ ~query.all /\ query.namespace = Empty
    BY CalmFacts DEF PathOK, Over
  <1>2. query.name \in Names /\ query \in Query
    BY DEF ResolverInv, ResolverTypeOK, Over
  <1>3. ContextNamespace(query) \in Namespaces /\ Default \in Namespaces
    BY <1>2, ResolverAssumption DEF ContextNamespace, Query
  <1> QED
    BY <1>1, <1>2, <1>3 DEF Preferring, PlaceOf, TheRef, RefOf

LEMMA TryPriorityTrue ==
  ASSUME ResolverInv, SearchInv, TryPriority, UNCHANGED stage, Calm'
  PROVE  SearchInv'
  <1>1. at = "priority" /\ at \notin Over /\ todo # <<>> /\ UNCHANGED <<query, objects, changes>>
    BY DEF TryPriority, Over
  <1>2. PICK a \in GetAnswers(Head(todo)) :
          /\ Met(a)
          /\ CASE a = "found" -> Resolved(Exactly(TheRef(Head(todo))))
               [] a = "forbidden" -> Resolved(Denied)
               [] a \in {"absent", "failed"} -> Onward("priority", Tail(todo))
    BY DEF TryPriority
  <1>3. Calm /\ a \notin Errors
    BY <1>1, <1>2, CalmBefore
  <1>4. /\ Preferring /\ query.kind = "namespaced" /\ query \in Query /\ query.name \in Names
        /\ ContextNamespace(query) \in Namespaces /\ Default \in Namespaces
        /\ \A ns \in Namespaces : PlaceOf(query, ns) = ns /\ TheRef(ns) = RefOf(ns)
    BY <1>1, <1>3, AnyNamespace
  <1>5. LookedOK /\ GatheredOK /\ PathOK
    BY <1>3, CalmFacts
  <1>6. \/ /\ Head(todo) = ContextNamespace(query)
           /\ Tail(todo) = <<Default>> \/ (ContextNamespace(query) = Default /\ Tail(todo) = <<>>)
        \/ ~HoldsIt(ContextNamespace(query)) /\ Head(todo) = Default /\ Tail(todo) = <<>>
    <2>1. \/ todo = Priority(query)
          \/ todo = <<Default>> /\ ~HoldsIt(ContextNamespace(query))
      <3>1. at = "priority" => \/ todo = Priority(query)
                               \/ todo = <<Default>> /\ ~HoldsIt(ContextNamespace(query))
                               \/ todo = <<>> /\ ~HoldsIt(ContextNamespace(query)) /\ ~HoldsIt(Default)
        BY <1>5 DEF LookedOK
      <3> QED
        BY <1>1, <3>1
    <2>2. /\ Head(<<ContextNamespace(query), Default>>) = ContextNamespace(query)
          /\ Tail(<<ContextNamespace(query), Default>>) = <<Default>>
          /\ Head(<<Default>>) = Default /\ Tail(<<Default>>) = <<>>
      OBVIOUS
    <2>3. Priority(query) = IF ContextNamespace(query) = Default THEN <<Default>> ELSE <<ContextNamespace(query), Default>>
      BY DEF Priority
    <2>4. CASE todo = <<Default>>
      <3>1. Head(todo) = Default /\ Tail(todo) = <<>>
        BY <2>2, <2>4
      <3> QED
        BY <2>1, <2>3, <2>4, <3>1
    <2>5. CASE todo = <<ContextNamespace(query), Default>>
      <3>1. Head(todo) = ContextNamespace(query) /\ Tail(todo) = <<Default>>
        BY <2>2, <2>5
      <3> QED
        BY <3>1
    <2> QED
      BY <2>1, <2>3, <2>4, <2>5
  <1>7. Head(todo) \in Namespaces /\ a = (IF HoldsIt(Head(todo)) THEN "found" ELSE "absent")
    <2>1. Head(todo) \in Namespaces
      BY <1>4, <1>6
    <2> QED
      BY <1>2, <1>3, <1>4, <2>1 DEF GetAnswers, HoldsIt
  <1>8. CASE HoldsIt(Head(todo))
    <2>1. Resolved(Exactly(RefOf(Head(todo))))
      BY <1>2, <1>4, <1>7, <1>8
    <2>2. Candidates(query, objects) = {RefOf(Head(todo))}
      BY <1>4, <1>6, <1>8, PreferredThere
    <2> QED
      BY <1>1, <1>3, <2>1, <2>2, SaysOneNone, EndsTrue
  <1>9. CASE ~HoldsIt(Head(todo))
    <2>1. at' = "priority" /\ todo' = Tail(todo) /\ hits' = hits /\ found' = found
      BY <1>2, <1>7, <1>9 DEF Onward
    <2>2. \/ todo' = <<Default>> /\ ~HoldsIt(ContextNamespace(query))
          \/ todo' = <<>> /\ ~HoldsIt(ContextNamespace(query)) /\ ~HoldsIt(Default)
      BY <1>6, <1>9, <2>1
    <2>3. PathOK'
      BY <1>1, <1>5, <2>1 DEF PathOK, Over
    <2>4. LookedOK'
      BY <1>1, <2>1, <2>2 DEF LookedOK, HoldsIt
    <2>5. GatheredOK'
      BY <1>1, <1>5, <2>1 DEF GatheredOK
    <2> QED
      BY <1>1, <1>3, <2>1, <2>3, <2>4, <2>5, GoesOnTrue
  <1> QED
    BY <1>8, <1>9

LEMMA ListNamespacesTrue ==
  ASSUME ResolverInv, SearchInv, ListNamespaces, UNCHANGED stage, Calm'
  PROVE  SearchInv'
  <1>1. at = "priority" /\ at \notin Over /\ todo = <<>> /\ UNCHANGED <<query, objects, changes>>
    BY DEF ListNamespaces, Over
  <1>2. PICK a \in ListAnswers :
          /\ Met(a)
          /\ CASE a = "forbidden" -> Resolved(Denied)
               [] a = "items" -> Onward("search", NamespaceList)
               [] a = "failed" -> Onward("search_known", Fallback(query))
    BY DEF ListNamespaces
  <1>3. Calm /\ a \notin Errors
    BY <1>1, <1>2, CalmBefore
  <1>4. a = "items"
    BY <1>3 DEF ListAnswers, Errors
  <1>5. at' = "search" /\ todo' = NamespaceList /\ hits' = hits /\ found' = found
    BY <1>2, <1>4 DEF Onward
  <1>6. LookedOK /\ GatheredOK /\ PathOK
    BY <1>3, CalmFacts
  <1>7. ~HoldsIt(ContextNamespace(query)) /\ ~HoldsIt(Default)
    <2>1. Priority(query) # <<>> /\ <<Default>> # <<>>
      BY DEF Priority
    <2> QED
      BY <1>1, <1>6, <2>1 DEF LookedOK
  <1>8. PathOK'
    BY <1>1, <1>5, <1>6 DEF PathOK, Over
  <1>9. LookedOK'
    BY <1>1, <1>5, <1>7 DEF LookedOK, HoldsIt
  <1>10. GatheredOK'
    <2>1. Len(todo') = K /\ K \in Nat /\ K - K = 0
      BY <1>5, NamespaceListFacts DEF K
    <2>2. \A i \in 1 .. K : todo'[i] = NamespaceList[0 + i]
      BY <1>5, NamespaceListFacts
    <2>3. hits' = Gathered(TRUE, 0)
      BY <1>1, <1>5, <1>6, GatherMore DEF GatheredOK
    <2>4. (at' = "search") = TRUE /\ K - Len(todo') = 0 /\ Len(todo') <= K
      BY <1>5, <2>1
    <2>5. hits' = Gathered(at' = "search", K - Len(todo'))
      BY <2>3, <2>4
    <2>6. \A i \in 1 .. Len(todo') : todo'[i] = NamespaceList[K - Len(todo') + i]
      BY <2>1, <2>2, <2>4
    <2> QED
      BY <1>1, <1>5, <2>4, <2>5, <2>6, GatheringAfter
  <1> QED
    BY <1>1, <1>3, <1>5, <1>8, <1>9, <1>10, GoesOnTrue

\* Lemma: the next namespace of a search, and how far it is after it.
LEMMA NextNamespace ==
  ASSUME ResolverInv, SearchInv, Calm, at \in {"search", "prefix"}, todo # <<>>
  PROVE  LET n == K - Len(todo)
         IN /\ n \in 0 .. K - 1 /\ Head(todo) = NamespaceList[n + 1] /\ Head(todo) \in Namespaces
            /\ Len(todo) = K - n /\ Len(Tail(todo)) = K - (n + 1) /\ K - Len(Tail(todo)) = n + 1
            /\ Len(Tail(todo)) <= K
            /\ \A i \in 1 .. Len(Tail(todo)) : Tail(todo)[i] = NamespaceList[n + 1 + i]
            /\ hits = Gathered(at = "search", n)
            /\ Gathered(at = "search", n + 1) =
                 hits \cup HitsOf(Len(todo), Wanted(at = "search", Head(todo)))
  <1> DEFINE n == K - Len(todo)
  <1>1. todo \in Seq(Namespaces) /\ K \in Nat
    BY NamespaceListFacts DEF ResolverInv, ResolverTypeOK
  <1>2. Len(todo) \in Nat \ {0} /\ Len(todo) <= K
    BY <1>1, CalmFacts DEF GatheredOK
  <1>3. \A i \in 1 .. Len(todo) : todo[i] = NamespaceList[n + i]
    BY CalmFacts DEF GatheredOK
  <1>4. Head(todo) = todo[1] /\ Len(Tail(todo)) = Len(todo) - 1
        /\ \A i \in 1 .. Len(Tail(todo)) : Tail(todo)[i] = todo[i + 1]
    BY <1>1
  <1>5. n \in 0 .. K - 1 /\ Len(todo) = K - n
    BY <1>1, <1>2
  <1>6. Head(todo) = NamespaceList[n + 1] /\ Head(todo) \in Namespaces
    BY <1>1, <1>2, <1>3, <1>4
  <1>7. Len(Tail(todo)) = K - (n + 1) /\ K - Len(Tail(todo)) = n + 1 /\ Len(Tail(todo)) <= K
    BY <1>1, <1>2, <1>4, <1>5
  <1>8. \A i \in 1 .. Len(Tail(todo)) : Tail(todo)[i] = NamespaceList[n + 1 + i]
    <2> SUFFICES ASSUME NEW i \in 1 .. Len(Tail(todo)) PROVE Tail(todo)[i] = NamespaceList[n + 1 + i]
      OBVIOUS
    <2>1. i + 1 \in 1 .. Len(todo) /\ n + (i + 1) = n + 1 + i
      BY <1>1, <1>2, <1>4
    <2> QED
      BY <1>3, <1>4, <2>1
  <1>9. hits = Gathered(at = "search", n)
    BY CalmFacts DEF GatheredOK
  <1>10. Gathered(at = "search", n + 1) =
           Gathered(at = "search", n) \cup HitsOf(K - n, Wanted(at = "search", NamespaceList[n + 1]))
    BY <1>5, GatherMore
  <1> QED
    BY <1>5, <1>6, <1>7, <1>8, <1>9, <1>10

\* Lemma: a search that has gathered what is wanted of the next namespace.
LEMMA SearchedOne ==
  ASSUME ResolverInv, SearchInv, Calm, at \in {"search", "prefix"}, todo # <<>>,
         UNCHANGED <<query, objects, at, found>>, todo' = Tail(todo),
         hits' = hits \cup HitsOf(Len(todo), Wanted(at = "search", Head(todo)))
  PROVE  SearchInv'
  <1> DEFINE n == K - Len(todo)
  <1>1. /\ K - Len(todo') = n + 1 /\ Len(todo') <= K
        /\ \A i \in 1 .. Len(todo') : todo'[i] = NamespaceList[n + 1 + i]
        /\ hits' = Gathered(at = "search", n + 1)
    BY NextNamespace
  <1>2. \A i \in 1 .. Len(todo') : todo'[i] = NamespaceList[K - Len(todo') + i]
    BY <1>1
  <1>3. hits' = Gathered(at' = "search", K - Len(todo'))
    BY <1>1
  <1>4. GatheredOK'
    BY <1>1, <1>2, <1>3, GatheringAfter
  <1>5. PathOK' /\ LookedOK'
    BY CalmFacts DEF PathOK, LookedOK, HoldsIt
  <1> QED
    BY <1>4, <1>5, GoesOnTrue DEF Over

LEMMA SearchTrue ==
  ASSUME ResolverInv, SearchInv, Search, UNCHANGED stage, Calm'
  PROVE  SearchInv'
  <1>1. at \in {"search", "search_known"} /\ todo # <<>> /\ UNCHANGED <<query, objects, changes>>
    BY DEF Search, Searching
  <1> DEFINE ns == Head(todo)
  <1>2. CASE InPriority(ns)
    <2>1. hits' = hits /\ UNCHANGED <<at, found, seen>> /\ todo' = Tail(todo) /\ Calm
      BY <1>1, <1>2 DEF Search, Calm
    <2>2. at = "search"
      BY <1>1, <2>1, CalmFacts DEF PathOK
    <2>3. ns = ContextNamespace(query) \/ ns = Default
      BY <1>2 DEF InPriority, Priority
    <2>4. ~HoldsIt(ns)
      BY <2>1, <2>2, <2>3, CalmFacts DEF LookedOK
    <2>5. Wanted(TRUE, ns) = {}
      BY <2>4 DEF Wanted, Listed, RefsIn, HoldsIt
    <2>6. HitsOf(Len(todo), Wanted(at = "search", ns)) = {}
      BY <2>2, <2>5 DEF HitsOf
    <2> QED
      BY <1>1, <2>1, <2>2, <2>6, SearchedOne
  <1>3. CASE ~InPriority(ns)
    <2>1. PICK a \in GetAnswers(ns) :
            /\ Met(a)
            /\ IF a = "forbidden" THEN Resolved(Denied)
               ELSE /\ hits' = hits \cup (IF a = "found" THEN HitsOf(Len(todo), {TheRef(ns)}) ELSE {})
                    /\ todo' = Tail(todo) /\ UNCHANGED <<at, found>>
      BY <1>3 DEF Search
    <2>2. Calm /\ a \notin Errors
      BY <1>1, <2>1, CalmBefore
    <2>3. at = "search"
      BY <1>1, <2>2, CalmFacts DEF PathOK
    <2>4. ns \in Namespaces /\ query.name \in Names /\ PlaceOf(query, ns) = ns /\ TheRef(ns) = RefOf(ns)
      BY <1>1, <2>2, <2>3, AnyNamespace, TodoFacts
    <2>5. a = (IF HoldsIt(ns) THEN "found" ELSE "absent")
      BY <2>1, <2>2, <2>4 DEF GetAnswers, HoldsIt
    <2>6. Wanted(TRUE, ns) = (IF HoldsIt(ns) THEN {RefOf(ns)} ELSE {})
      BY <2>4 DEF Wanted, Listed, RefsIn, HoldsIt, RefOf
    <2>7. HitsOf(Len(todo), {}) = {}
      BY DEF HitsOf
    <2>8. hits' = hits \cup HitsOf(Len(todo), Wanted(TRUE, ns)) /\ todo' = Tail(todo) /\ UNCHANGED <<at, found>>
      BY <2>1, <2>4, <2>5, <2>6, <2>7
    <2> QED
      BY <1>1, <2>2, <2>3, <2>8, SearchedOne
  <1> QED
    BY <1>2, <1>3

\* Lemma: a search that is through.
LEMMA SearchOver ==
  ASSUME ResolverInv, SearchInv, Calm, at \in {"search", "prefix"}, todo = <<>>
  PROVE  /\ hits = Gathered(at = "search", K)
         /\ Candidates(query, objects) =
              LET refs == Listed(Namespaces)
                  exact == {r \in refs : r.name = query.name}
              IN IF exact # {} THEN exact
                 ELSE {r \in refs : query.prefixMatch /\ query.name \in Long
                                      /\ <<r.name, query.name>> \in Extends}
  <1>1. Len(todo) = 0 /\ K - 0 = K
    BY NamespaceListFacts
  <1>2. hits = Gathered(at = "search", K)
    BY <1>1, CalmFacts DEF GatheredOK
  <1>3. ~HoldsIt(ContextNamespace(query)) /\ ~HoldsIt(Default)
    BY CalmFacts DEF LookedOK
  <1> QED
    BY <1>2, <1>3, AnyNamespace, PreferredThere

LEMMA SearchedTrue ==
  ASSUME ResolverInv, SearchInv, Searched, UNCHANGED stage, Calm'
  PROVE  SearchInv'
  <1>1. at \in {"search", "search_known"} /\ at \notin Over /\ todo = <<>>
        /\ UNCHANGED <<query, objects, changes, seen>>
    BY DEF Searched, Searching, Over
  <1>2. Calm
    BY <1>1 DEF Calm
  <1>3. at = "search"
    BY <1>1, <1>2, CalmFacts DEF PathOK
  <1> DEFINE refs == Listed(Namespaces)
             exact == {r \in refs : r.name = query.name}
             C == {r \in Listed(Namespaces) :
                     IF TRUE THEN r.name = query.name
                     ELSE query.name \in Long /\ <<r.name, query.name>> \in Extends}
  <1>4. C = exact
    OBVIOUS
  <1>5. /\ hits = Gathered(TRUE, K)
        /\ Candidates(query, objects) =
             IF exact # {} THEN exact
             ELSE {r \in refs : query.prefixMatch /\ query.name \in Long
                                  /\ <<r.name, query.name>> \in Extends}
    BY <1>1, <1>2, <1>3, SearchOver
  <1>6. Says(BuildResult(query, hits), exact) /\ (hits = {} <=> exact = {})
    <2>1. Says(BuildResult(query, Gathered(TRUE, K)), C) /\ (Gathered(TRUE, K) = {} <=> C = {})
      BY GatheredTrue
    <2> QED
      BY <1>4, <1>5, <2>1
  <1>7. CASE hits # {}
    <2>1. Resolved(BuildResult(query, hits))
      BY <1>7 DEF Searched
    <2>2. Candidates(query, objects) = exact
      BY <1>5, <1>6, <1>7
    <2> HIDE DEF exact
    <2> QED
      BY <1>1, <1>2, <1>6, <2>1, <2>2, EndsTrue
  <1>8. CASE hits = {} /\ ~query.prefixMatch
    <2>1. Resolved(Missing)
      BY <1>8 DEF Searched
    <2>2. Candidates(query, objects) = {}
      BY <1>5, <1>6, <1>8
    <2> QED
      BY <1>1, <1>2, <2>1, <2>2, SaysOneNone, EndsTrue
  <1>9. CASE hits = {} /\ query.prefixMatch
    <2>1. at' = "prefix" /\ todo' = NamespaceList /\ hits' = {} /\ found' = found
      BY <1>3, <1>9 DEF Searched, Onward
    <2>2. \A ns \in Namespaces : ~HoldsIt(ns)
      <3>1. query.name \in Names
        BY <1>2, <1>3, AnyNamespace
      <3>2. \A ns \in Namespaces : HoldsIt(ns) => RefOf(ns) \in exact
        BY <3>1 DEF Listed, RefsIn, HoldsIt, RefOf
      <3> QED
        BY <1>6, <1>9, <3>2
    <2>3. PathOK'
      BY <1>1, <1>2, <1>3, <2>1, CalmFacts DEF PathOK, Over
    <2>4. LookedOK'
      BY <1>1, <1>2, <1>3, <1>9, <2>1, <2>2, CalmFacts DEF LookedOK, HoldsIt
    <2>5. GatheredOK'
      <3>1. Len(todo') = K /\ K \in Nat /\ K - K = 0
        BY <2>1, NamespaceListFacts DEF K
      <3>2. \A i \in 1 .. K : todo'[i] = NamespaceList[0 + i]
        BY <2>1, NamespaceListFacts
      <3>3. hits' = Gathered(FALSE, 0)
        BY <2>1, GatherMore
      <3>4. (at' = "search") = FALSE /\ K - Len(todo') = 0 /\ Len(todo') <= K
        BY <2>1, <3>1
      <3>5. hits' = Gathered(at' = "search", K - Len(todo'))
        BY <3>3, <3>4
      <3>6. \A i \in 1 .. Len(todo') : todo'[i] = NamespaceList[K - Len(todo') + i]
        BY <3>1, <3>2, <3>4
      <3> QED
        BY <1>1, <2>1, <3>4, <3>5, <3>6, GatheringAfter
    <2> QED
      BY <1>1, <1>2, <2>1, <2>3, <2>4, <2>5, GoesOnTrue
  <1> QED
    BY <1>7, <1>8, <1>9, CalmFacts, <1>2

LEMMA SearchPrefixTrue ==
  ASSUME ResolverInv, SearchInv, SearchPrefix, UNCHANGED stage, Calm'
  PROVE  SearchInv'
  <1>1. at = "prefix" /\ todo # <<>> /\ UNCHANGED <<query, objects, changes>>
    BY DEF SearchPrefix
  <1> DEFINE ns == Head(todo)
             RefsOf(a) == IF a = "items" THEN Listed({PlaceOf(query, ns)}) ELSE {}
  <1>2. PICK a \in ListAnswers :
          /\ MetItems(a, RefsOf(a))
          /\ IF a = "forbidden" THEN Resolved(Denied)
             ELSE /\ hits' = hits \cup HitsOf(Len(todo), PrefixFilter(query, RefsOf(a), TRUE))
                  /\ todo' = Tail(todo) /\ UNCHANGED <<at, found>>
    BY DEF SearchPrefix
  <1>3. Calm /\ a \notin Errors
    BY <1>1, <1>2, CalmBefore
  <1>4. a = "items" /\ a # "forbidden"
    BY <1>3 DEF ListAnswers, Errors
  <1>5. ns \in Namespaces /\ PlaceOf(query, ns) = ns /\ query.name \in Names
    BY <1>1, <1>3, AnyNamespace, TodoFacts
  <1>6. ~HoldsIt(ns)
    BY <1>1, <1>3, <1>5, CalmFacts DEF LookedOK
  <1>7. RefsOf(a) = Listed({ns})
    BY <1>4, <1>5
  <1>8. PrefixFilter(query, Listed({ns}), TRUE) = Wanted(FALSE, ns)
    BY <1>6 DEF PrefixFilter, Wanted, Listed, RefsIn, HoldsIt
  <1>9. hits' = hits \cup HitsOf(Len(todo), Wanted(FALSE, ns)) /\ todo' = Tail(todo) /\ UNCHANGED <<at, found>>
    BY <1>2, <1>4, <1>7, <1>8
  <1> QED
    BY <1>1, <1>3, <1>9, SearchedOne

LEMMA PrefixSearchedTrue ==
  ASSUME ResolverInv, SearchInv, PrefixSearched, UNCHANGED stage, Calm'
  PROVE  SearchInv'
  <1>1. at = "prefix" /\ todo = <<>> /\ Resolved(BuildResult(query, hits))
        /\ UNCHANGED <<query, objects, changes, seen>>
    BY DEF PrefixSearched
  <1>2. Calm
    BY <1>1 DEF Calm
  <1> DEFINE refs == Listed(Namespaces)
             exact == {r \in refs : r.name = query.name}
             longer == {r \in refs : query.prefixMatch /\ query.name \in Long
                                       /\ <<r.name, query.name>> \in Extends}
             C == {r \in Listed(Namespaces) :
                     IF FALSE THEN r.name = query.name
                     ELSE query.name \in Long /\ <<r.name, query.name>> \in Extends}
  <1>3. query.prefixMatch /\ \A ns \in Namespaces : ~HoldsIt(ns)
    BY <1>1, <1>2, CalmFacts DEF LookedOK
  <1>4. exact = {} /\ longer = C
    BY <1>3 DEF Listed, RefsIn, HoldsIt
  <1>5. /\ hits = Gathered(FALSE, K)
        /\ Candidates(query, objects) = IF exact # {} THEN exact ELSE longer
    BY <1>1, <1>2, SearchOver
  <1>6. Says(BuildResult(query, Gathered(FALSE, K)), C)
    BY GatheredTrue
  <1>7. Candidates(query, objects) = C
    BY <1>4, <1>5
  <1> HIDE DEF C
  <1> QED
    BY <1>1, <1>2, <1>5, <1>6, <1>7, EndsTrue

\* Lemma: the tool's own request is no part of the resolution.
LEMMA ToolsTrue ==
  ASSUME ResolverInv, SearchInv, Refused \/ Fetch, UNCHANGED stage, Calm'
  PROVE  SearchInv'
  <1>1. at = "resolved" /\ at' = "replied" /\ UNCHANGED <<query, objects, todo, hits, found, changes, seen>>
    BY DEF Refused, Fetch
  <1>2. Calm
    BY <1>1 DEF Calm
  <1>3. WorldOK /\ PathOK /\ LookedOK /\ GatheredOK /\ AnswerOK
    BY <1>2, CalmFacts
  <1>4. WorldOK' /\ PathOK' /\ LookedOK' /\ GatheredOK'
    BY <1>1, <1>3 DEF WorldOK, PathOK, LookedOK, GatheredOK, Over
  <1>5. AnswerOK'
    BY <1>1, <1>3 DEF AnswerOK
  <1> QED
    BY <1>4, <1>5 DEF SearchInv

LEMMA SearchInvInit == Init => SearchInv
  BY DEF Init, ResolverInit, SearchInv, WorldOK, PathOK, LookedOK, GatheredOK, AnswerOK, Over

LEMMA SearchInvNext == ResolverInv /\ SearchInv /\ [Next]_vars => SearchInv'
  <1> SUFFICES ASSUME ResolverInv, SearchInv, [Next]_vars, Calm' PROVE SearchInv'
    BY DEF SearchInv
  <1>1. CASE Resolve
    <2>1. ResolverStep /\ UNCHANGED stage
      BY <1>1 DEF Resolve, diagnosisVars
    <2> QED
      BY <2>1, ScopeTrue, GetThereTrue, ListThereTrue, ListEverywhereTrue, TryPriorityTrue,
         ListNamespacesTrue, SearchTrue, SearchedTrue, SearchPrefixTrue, PrefixSearchedTrue, ToolsTrue
      DEF ResolverStep
  <1>2. CASE Dispatch \/ Read \/ Analyze \/ ContextEnds
    BY <1>2 DEF Dispatch, Read, Analyze, ContextEnds, Calm
  <1>3. CASE OtherClient
    <2>1. changes \in Nat /\ changes' = changes + 1
      <3>1. changes \in 0 .. MaxChanges
        BY DEF ResolverInv, ResolverTypeOK
      <3>2. changes' = changes + 1
        BY <1>3 DEF OtherClient
      <3>3. MaxChanges \in Nat
        BY ResolverAssumption
      <3> QED
        BY <3>1, <3>2, <3>3
    <2>2. changes' # 0
      BY <2>1
    <2> QED
      BY <2>2 DEF Calm
  <1>4. CASE UNCHANGED vars
    <2>1. /\ query' = query /\ objects' = objects /\ at' = at /\ todo' = todo /\ hits' = hits
          /\ found' = found /\ changes' = changes /\ seen' = seen /\ stage' = stage
      BY <1>4 DEF vars, resolverVars, diagnosisVars
    <2>2. WorldOK /\ PathOK /\ LookedOK /\ GatheredOK /\ AnswerOK
      BY <2>1, CalmFacts DEF Calm
    <2>3. WorldOK' /\ PathOK' /\ LookedOK' /\ AnswerOK'
      BY <2>1, <2>2 DEF WorldOK, PathOK, LookedOK, AnswerOK, HoldsIt
    <2>4. GatheredOK'
      <3>1. CASE at \in {"search", "prefix"}
        <4>1. /\ Len(todo) <= K /\ hits = Gathered(at = "search", K - Len(todo))
              /\ \A i \in 1 .. Len(todo) : todo[i] = NamespaceList[K - Len(todo) + i]
          BY <2>2, <3>1 DEF GatheredOK
        <4> QED
          BY <2>1, <3>1, <4>1, GatheringAfter
      <3>2. CASE at \notin {"search", "prefix"}
        BY <2>1, <2>2, <3>2 DEF GatheredOK
      <3> QED
        BY <3>1, <3>2
    <2> QED
      BY <2>3, <2>4 DEF SearchInv
  <1> QED
    BY <1>1, <1>2, <1>3, <1>4 DEF Next, Call, Environment

\* The inductive invariant behind it: where the name has been looked for in vain, and
\* what the search has gathered from the namespaces it has passed.
THEOREM SearchInvHolds == Spec => []SearchInv
  BY SearchInvInit, SearchInvNext, ResolverInvHolds, PTL DEF Spec

\* Whenever its requests are answered and no other client gets in between, a resolution
\* comes to what the name stands for.
THEOREM AnswerTrueHolds == Spec => []AnswerTrue
  <1>1. SearchInv => AnswerTrue
    BY DEF SearchInv, AnswerTrue, AnswerOK, Calm
  <1> QED
    BY <1>1, SearchInvHolds, PTL
=============================================================================
