------------------------ MODULE WorkflowEditsProofs ------------------------
(***************************************************************************)
(* Proofs about WorkflowEdits, for any workflows, any names and any number *)
(* of entries: lists stay lists, connecting two jobs never closes a cycle, *)
(* the prompts say what the edits do, a removal takes away its own wires   *)
(* and no others, and a renaming takes away none.                          *)
(***************************************************************************)
EXTENDS WorkflowEdits, WellFoundedInduction, TLAPS

-----------------------------------------------------------------------------
(* Lists and the ids in them.                                              *)

\* A list is a function from some of the positions to entries.
LEMMA ListDomain ==
    ASSUME NEW list
    PROVE  IsList(list) <=> DOMAIN list \subseteq Positions /\ list \in [DOMAIN list -> Entry]
BY DEF IsList

\* The id of an instance of an entry is an id.
LEMMA IdOfIsId ==
    ASSUME NEW e \in Entry, NEW c \in Combos \cup {Plain}
    PROVE  IdOf(e, c) \in Id
BY DEF Entry, IdOf, Substitute, Id

\* The fields of a node.
LEMMA NodeFields ==
    ASSUME NEW list, NEW i, NEW c
    PROVE  /\ Node(list, i, c).pos = i /\ Node(list, i, c).at = c
           /\ Node(list, i, c).id = IdOf(list[i], c)
           /\ Node(list, i, c).job = list[i].job
           /\ Node(list, i, c).aliased <=> (list[i].alias # NoAlias \/ c # Plain)
           /\ Node(list, i, c).matrix = (list[i].combos # {})
           /\ Node(list, i, c).requires = {Substitute(r, c) : r \in list[i].requires}
BY Zenon DEF Node

\* What is known of the nodes of a list.
LEMMA NodeFacts ==
    ASSUME NEW list, IsList(list), NEW n \in Nodes(list)
    PROVE  /\ n.pos \in DOMAIN list /\ n.at \in Instances(list[n.pos])
           /\ n = Node(list, n.pos, n.at)
           /\ n.pos \in Nat /\ n.at \in Combos \cup {Plain} /\ n.at \in Nat
           /\ n.id \in Id /\ n.job \in Names
<1>1. PICK i \in DOMAIN list : \E c \in Instances(list[i]) : n = Node(list, i, c)
  BY DEF Nodes
<1>2. PICK c \in Instances(list[i]) : n = Node(list, i, c)
  BY <1>1
<1>3. i \in Nat /\ list[i] \in Entry
  BY <1>1, ListDomain, PositionsAssumption
<1>4. c \in Combos \cup {Plain} /\ c \in Nat
  BY <1>2, <1>3, CombosAssumption DEF Instances, Entry, Plain
<1>5. IdOf(list[i], c) \in Id /\ list[i].job \in Names
  BY <1>3, <1>4, IdOfIsId DEF Entry
<1>6. n.pos = i /\ n.at = c /\ n.id = IdOf(list[i], c) /\ n.job = list[i].job
  BY <1>2 DEF Node
<1>7. QED
  BY <1>1, <1>2, <1>3, <1>4, <1>5, <1>6

\* A nonempty set of numbers has a least one.
LEMMA LeastNumber ==
    ASSUME NEW S, S \subseteq Nat, S # {}
    PROVE  \E x \in S : \A y \in S : x <= y
<1>1. PICK x \in S : \A y \in S : <<y, x>> \notin OpToRel(<, Nat)
  BY NatLessThanWellFounded, WFMin
<1>2. \A y \in S : ~(y < x)
  BY <1>1 DEF OpToRel
<1>3. QED
  BY <1>2

\* An id of the list has a first node, which is the one the edits find.
LEMMA TargetIsANode ==
    ASSUME NEW list, IsList(list), NEW id \in Ids(list)
    PROVE  Target(list, id) \in Nodes(list) /\ Target(list, id).id = id
<1> DEFINE Mine == {n \in Nodes(list) : n.id = id}
           First(n) == n.id = id /\ \A m \in Nodes(list) : m.id = id =>
                          m.pos > n.pos \/ (m.pos = n.pos /\ m.at >= n.at)
<1>1. Mine # {} /\ \A n \in Mine : n \in Nodes(list) /\ n.pos \in Nat /\ n.at \in Nat
  BY NodeFacts DEF Ids
<1>2. PICK p \in {n.pos : n \in Mine} : \A q \in {n.pos : n \in Mine} : p <= q
  <2>1. {n.pos : n \in Mine} # {} /\ {n.pos : n \in Mine} \subseteq Nat
    BY <1>1
  <2>2. QED
    BY <2>1, LeastNumber
<1> DEFINE Here == {n \in Mine : n.pos = p}
<1>3. PICK a \in {n.at : n \in Here} : \A b \in {n.at : n \in Here} : a <= b
  <2>1. {n.at : n \in Here} # {} /\ {n.at : n \in Here} \subseteq Nat
    BY <1>1, <1>2
  <2>2. QED
    BY <2>1, LeastNumber
<1>4. PICK n \in Here : n.at = a
  BY <1>3
<1>5. p \in Nat /\ a \in Nat
  BY <1>1, <1>2, <1>3
<1>6. ASSUME NEW m \in Mine
      PROVE  m.pos > p \/ (m.pos = p /\ m.at >= a)
  <2>1. m.pos \in Nat /\ m.at \in Nat /\ p <= m.pos
    BY <1>1, <1>2
  <2>2. m.pos = p => a <= m.at
    BY <1>3
  <2>3. QED
    BY <1>5, <2>1, <2>2
<1>7. n \in Nodes(list) /\ First(n)
  BY <1>4, <1>6
<1>8. Target(list, id) = CHOOSE m \in Nodes(list) : First(m)
  BY DEF Target
<1> HIDE DEF First
<1>9. Target(list, id) \in Nodes(list) /\ First(Target(list, id))
  BY <1>7, <1>8
<1>10. QED
  BY <1>9 DEF First

\* The ids of a list are ids.
LEMMA IdsAreIds == ASSUME NEW list, IsList(list) PROVE Ids(list) \subseteq Id
BY NodeFacts DEF Ids

-----------------------------------------------------------------------------
(* Lists stay lists.                                                       *)

\* The pieces the edits are made of, and what they keep.
LEMMA PiecesKeepLists ==
    ASSUME NEW list, IsList(list)
    PROVE  /\ \A P : IsList(Drop(list, P))
           /\ \A ids : IsList(Prune(list, ids))
           /\ \A old : \A new \in Id : IsList(RenameRequires(list, old, new))
           /\ \A old : \A new \in Names : IsList(RenameEntries(list, old, new))
           /\ \A p \in Positions : \A e \in Entry : IsList(Push(list, p, e))
<1>1. DOMAIN list \subseteq Positions /\ \A i \in DOMAIN list : list[i] \in Entry
  BY ListDomain
<1>2. ASSUME NEW P PROVE IsList(Drop(list, P))
  BY <1>1, ListDomain DEF Drop
<1>3. ASSUME NEW ids PROVE IsList(Prune(list, ids))
  <2>1. \A i \in DOMAIN list : [list[i] EXCEPT !.requires = @ \ ids] \in Entry
    BY <1>1 DEF Entry
  <2>2. QED
    BY <1>1, <2>1, ListDomain DEF Prune
<1>4. ASSUME NEW old, NEW new \in Id PROVE IsList(RenameRequires(list, old, new))
  <2>1. ASSUME NEW i \in DOMAIN list
        PROVE  [list[i] EXCEPT !.requires = {IF r = old THEN new ELSE r : r \in @}] \in Entry
    <3>1. {IF r = old THEN new ELSE r : r \in list[i].requires} \subseteq Id
      BY <1>1 DEF Entry
    <3>2. QED
      BY <1>1, <3>1 DEF Entry
  <2>2. QED
    BY <1>1, <2>1, ListDomain DEF RenameRequires
<1>5. ASSUME NEW old, NEW new \in Names PROVE IsList(RenameEntries(list, old, new))
  <2>1. \A i \in DOMAIN list : [list[i] EXCEPT !.job = IF @ = old THEN new ELSE @] \in Entry
    BY <1>1 DEF Entry
  <2>2. QED
    BY <1>1, <2>1, ListDomain DEF RenameEntries
<1>6. ASSUME NEW p \in Positions, NEW e \in Entry PROVE IsList(Push(list, p, e))
  BY <1>1, ListDomain DEF Push
<1>7. QED
  BY <1>2, <1>3, <1>4, <1>5, <1>6

\* A new entry of a job is an entry.
LEMMA BareEntryIsEntry == \A j \in Names : BareEntry(j) \in Entry /\ Bare(j) \in Id
BY DEF BareEntry, Entry, Bare, Id

\* So is one that has a name and requirements.
LEMMA NewEntryIsEntry ==
    ASSUME NEW j \in Names, NEW alias \in Id \cup {NoAlias}, NEW requires \in SUBSET Id
    PROVE  [BareEntry(j) EXCEPT !.alias = alias, !.requires = requires] \in Entry
<1> DEFINE named == [BareEntry(j) EXCEPT !.alias = alias]
<1>1. named = [job |-> j, alias |-> alias, combos |-> {}, requires |-> {}]
  BY DEF BareEntry
<1>2. [named EXCEPT !.requires = requires] \in Entry
  <2> HIDE DEF named
  <2>1. QED
    BY <1>1 DEF Entry
<1>3. QED
  BY <1>2

\* One list replaced by another.
LEMMA OneListReplaced ==
    ASSUME NEW f, AreLists(f), NEW l \in Lists, NEW list, IsList(list)
    PROVE  AreLists([f EXCEPT ![l] = list])
BY DEF AreLists

\* The configs the sessions open with.
LEMMA InitTypes == Init => TypeOK
BY ConfigsAssumption DEF Init, TypeOK

\* Adding a job, and an entry of it where asked.
LEMMA AddJobTypes ==
    ASSUME TypeOK, NEW j \in Names, NEW into, AddJob(j, into)
    PROVE  TypeOK'
<1>1. PICK p \in Positions :
        lists' = [l \in Lists |-> IF l \in into
                     THEN Push(lists[l], p, BareEntry(j)) ELSE lists[l]]
  BY DEF AddJob
<1>2. \A l \in Lists : IsList(lists[l]) /\ IsList(Push(lists[l], p, BareEntry(j)))
  BY PiecesKeepLists, BareEntryIsEntry DEF TypeOK, AreLists
<1>3. AreLists(lists')
  BY <1>1, <1>2 DEF AreLists
<1>4. QED
  BY <1>3 DEF AddJob, TypeOK

\* Deleting a job from every list.
LEMMA DeleteJobTypes ==
    ASSUME TypeOK, NEW j \in Names, DeleteJob(j)
    PROVE  TypeOK'
<1>1. \A l \in Lists : IsList(lists[l])
  BY DEF TypeOK, AreLists
<1>2. \A l \in Lists : IsList(DeleteFromGroup(lists[l], j)) /\ IsList(DeleteFrom(lists[l], j))
  BY <1>1, PiecesKeepLists DEF DeleteFromGroup, DeleteFrom
<1>3. AreLists(lists')
  BY <1>2 DEF DeleteJob, AreLists
<1>4. QED
  BY <1>3 DEF DeleteJob, TypeOK

\* Renaming a job in every list.
LEMMA RenameJobTypes ==
    ASSUME TypeOK, NEW j \in Names, NEW k \in Names, RenameJob(j, k)
    PROVE  TypeOK'
<1>1. \A l \in Lists : IsList(lists[l])
  BY DEF TypeOK, AreLists
<1>2. \A l \in Lists : IsList(RenameEntries(lists[l], j, k))
  BY <1>1, PiecesKeepLists
<1>3. \A l \in Lists : IsList(RenameRequires(RenameEntries(lists[l], j, k), Bare(j), Bare(k)))
  BY <1>2, PiecesKeepLists, BareEntryIsEntry
<1>4. \A l \in Lists : IsList(RenameInGroup(lists[l], j, k)) /\ IsList(RenameIn(lists[l], j, k))
  BY <1>2, <1>3 DEF RenameInGroup, RenameIn
<1>5. AreLists(lists')
  BY <1>4 DEF RenameJob, AreLists
<1>6. QED
  BY <1>5 DEF RenameJob, TypeOK

\* Adding an entry to a workflow, and removing one.
LEMMA EntriesTypes ==
    ASSUME TypeOK, NEW w \in Workflows,
           \/ \E j \in Names, alias \in NewAliases, requires \in NewRequires :
                 AddEntry(w, j, alias, requires)
           \/ \E id \in Ids(lists[w]) : RemoveEntry(w, id)
    PROVE  TypeOK'
<1>1. w \in Lists /\ IsList(lists[w]) /\ AreLists(lists)
  BY DEF Lists, TypeOK, AreLists
<1>2. ASSUME NEW j \in Names, NEW alias \in NewAliases, NEW requires \in NewRequires,
             AddEntry(w, j, alias, requires)
      PROVE  TypeOK'
  <2> DEFINE e == [BareEntry(j) EXCEPT !.alias = alias, !.requires = requires]
  <2>1. e \in Entry
    <3>1. alias \in Id \cup {NoAlias} /\ requires \subseteq Id
      BY TypedAssumption DEF NewAliases, NewRequires
    <3>2. QED
      BY <3>1, NewEntryIsEntry
  <2>2. PICK p \in End(lists[w]) : lists' = [lists EXCEPT ![w] = Push(lists[w], p, e)]
    BY <1>2 DEF AddEntry
  <2>5. p \in Positions
    BY DEF End
  <2> HIDE DEF e
  <2>3. AreLists(lists')
    BY <1>1, <2>1, <2>2, <2>5, PiecesKeepLists, OneListReplaced
  <2>4. QED
    BY <1>2, <2>3 DEF AddEntry, TypeOK
<1>3. ASSUME NEW id \in Ids(lists[w]), RemoveEntry(w, id)
      PROVE  TypeOK'
  <2> DEFINE i == Target(lists[w], id).pos
             gone == {n.id : n \in {m \in Nodes(lists[w]) : m.pos = i}}
             after == Prune(Drop(lists[w], {i}), gone)
  <2>1. lists' = [lists EXCEPT ![w] = after]
    BY <1>3 DEF RemoveEntry
  <2>2. IsList(after)
    <3> HIDE DEF i, gone
    <3>1. IsList(Drop(lists[w], {i}))
      BY <1>1, PiecesKeepLists
    <3>2. QED
      BY <3>1, PiecesKeepLists
  <2> HIDE DEF after
  <2>3. AreLists(lists')
    BY <1>1, <2>1, <2>2, OneListReplaced
  <2>4. QED
    BY <1>3, <2>3 DEF RemoveEntry, TypeOK
<1>4. QED
  BY <1>2, <1>3

\* Naming an entry of a workflow.
LEMMA SetAliasTypes ==
    ASSUME TypeOK, NEW w \in Workflows, NEW id \in Ids(lists[w]),
           NEW alias \in NewAliases, SetAlias(w, id, alias)
    PROVE  TypeOK'
<1> DEFINE list == lists[w]
           target == Target(list, id)
           newId == IF alias = NoAlias THEN Bare(target.job) ELSE alias
           key == IF newId = Bare(target.job) THEN NoAlias ELSE newId
           named == [list EXCEPT ![target.pos].alias = key]
<1>1. w \in Lists /\ IsList(list) /\ AreLists(lists)
  BY DEF Lists, TypeOK, AreLists
<1>2. target \in Nodes(list)
  BY <1>1, TargetIsANode
<1>3. target.job \in Names /\ target.pos \in DOMAIN list
  BY <1>1, <1>2, NodeFacts
<1>4. newId \in Id /\ key \in Id \cup {NoAlias}
  BY <1>3, BareEntryIsEntry, TypedAssumption DEF NewAliases
<1>5. lists' = [lists EXCEPT ![w] = RenameRequires(named, id, newId)] /\ jobs' = jobs
  BY DEF SetAlias
<1> HIDE DEF target, newId, key, list
<1>6. IsList(named)
  <2>1. DOMAIN list \subseteq Positions /\ \A i \in DOMAIN list : list[i] \in Entry
    BY <1>1, ListDomain
  <2>2. [list[target.pos] EXCEPT !.alias = key] \in Entry
    BY <1>3, <1>4, <2>1 DEF Entry
  <2>3. named = [i \in DOMAIN list |->
                   IF i = target.pos THEN [list[target.pos] EXCEPT !.alias = key] ELSE list[i]]
    BY <1>1, <1>3, ListDomain
  <2>4. QED
    BY <2>1, <2>2, <2>3, ListDomain
<1> HIDE DEF named
<1>7. AreLists(lists')
  BY <1>1, <1>4, <1>5, <1>6, PiecesKeepLists, OneListReplaced
<1>8. QED
  BY <1>5, <1>7 DEF TypeOK

\* What becomes of a list when one entry requires something else.
LEMMA RequiresReplaced ==
    ASSUME NEW list, IsList(list), NEW i \in DOMAIN list, NEW R \in SUBSET Id
    PROVE  /\ IsList([list EXCEPT ![i].requires = R])
           /\ DOMAIN [list EXCEPT ![i].requires = R] = DOMAIN list
           /\ \A k \in DOMAIN list \ {i} : [list EXCEPT ![i].requires = R][k] = list[k]
           /\ [list EXCEPT ![i].requires = R][i] = [list[i] EXCEPT !.requires = R]
<1> DEFINE after == [list EXCEPT ![i].requires = R]
<1>1. DOMAIN list \subseteq Positions /\ \A k \in DOMAIN list : list[k] \in Entry
  BY ListDomain
<1>2. [list[i] EXCEPT !.requires = R] \in Entry
  BY <1>1 DEF Entry
<1>3. after = [k \in DOMAIN list |->
                 IF k = i THEN [list[i] EXCEPT !.requires = R] ELSE list[k]]
  BY ListDomain
<1>4. IsList(after)
  BY <1>1, <1>2, <1>3, ListDomain
<1>5. QED
  BY <1>3, <1>4

\* Requiring, and no longer requiring, one entry from another.
LEMMA RequirementsTypes ==
    ASSUME TypeOK, NEW w \in Workflows, NEW id \in Ids(lists[w]),
           \/ \E source \in Ids(lists[w]) : AddRequire(w, id, source)
           \/ \E source \in Id : RemoveRequire(w, id, source)
    PROVE  TypeOK'
<1> DEFINE list == lists[w]
           i == Target(list, id).pos
<1>1. w \in Lists /\ IsList(list) /\ AreLists(lists)
  BY DEF Lists, TypeOK, AreLists
<1>2. i \in DOMAIN list
  BY <1>1, TargetIsANode, NodeFacts
<1>3. list[i].requires \subseteq Id /\ Ids(list) \subseteq Id
  BY <1>1, <1>2, ListDomain, IdsAreIds DEF Entry
<1>4. \E R \in SUBSET Id :
         lists' = [lists EXCEPT ![w] = [list EXCEPT ![i].requires = R]]
  <2>1. ASSUME NEW source \in Ids(list), AddRequire(w, id, source)
        PROVE  lists' = [lists EXCEPT ![w] = [list EXCEPT
                            ![i].requires = list[i].requires \cup {source}]]
    BY <1>1, <2>1 DEF AddRequire, AreLists
  <2>2. ASSUME NEW source \in Id, RemoveRequire(w, id, source)
        PROVE  lists' = [lists EXCEPT ![w] = [list EXCEPT
                            ![i].requires = list[i].requires \ {source}]]
    BY <1>1, <2>2 DEF RemoveRequire, AreLists
  <2>3. CASE \E source \in Ids(list) : AddRequire(w, id, source)
    <3>1. PICK source \in Ids(list) : AddRequire(w, id, source)
      BY <2>3
    <3>2. list[i].requires \cup {source} \in SUBSET Id
      BY <1>3
    <3>3. QED
      BY <2>1, <3>1, <3>2
  <2>4. CASE \E source \in Id : RemoveRequire(w, id, source)
    <3>1. PICK source \in Id : RemoveRequire(w, id, source)
      BY <2>4
    <3>2. list[i].requires \ {source} \in SUBSET Id
      BY <1>3
    <3>3. QED
      BY <2>2, <3>1, <3>2
  <2>5. QED
    BY <2>3, <2>4
<1>5. jobs' = jobs
  BY DEF AddRequire, RemoveRequire
<1> HIDE DEF list, i
<1>6. AreLists(lists')
  <2>1. PICK R \in SUBSET Id :
           lists' = [lists EXCEPT ![w] = [list EXCEPT ![i].requires = R]]
    BY <1>4
  <2>2. IsList([list EXCEPT ![i].requires = R])
    BY <1>1, <1>2, RequiresReplaced
  <2>3. QED
    BY <1>1, <2>1, <2>2, OneListReplaced
<1>7. QED
  BY <1>5, <1>6 DEF TypeOK

\* Every edit.
LEMMA NextTypes == TypeOK /\ [Next]_vars => TypeOK'
<1> SUFFICES ASSUME TypeOK, [Next]_vars PROVE TypeOK'
  OBVIOUS
<1>1. CASE UNCHANGED vars
  BY <1>1 DEF vars, TypeOK
<1>2. CASE \E j \in Names, into \in {{}} \cup {{w} : w \in Workflows} : AddJob(j, into)
  BY <1>2, AddJobTypes
<1>3. CASE \E j \in Names : DeleteJob(j)
  BY <1>3, DeleteJobTypes
<1>4. CASE \E j, k \in Names : RenameJob(j, k)
  BY <1>4, RenameJobTypes
<1>5. CASE \E w \in Workflows, j \in Names, alias \in NewAliases,
              requires \in NewRequires : AddEntry(w, j, alias, requires)
  BY <1>5, EntriesTypes
<1>6. ASSUME NEW w \in Workflows, NEW id \in Ids(lists[w]), RemoveEntry(w, id)
      PROVE  TypeOK'
  BY <1>6, EntriesTypes
<1>7. ASSUME NEW w \in Workflows, NEW id \in Ids(lists[w]),
             NEW alias \in NewAliases, SetAlias(w, id, alias)
      PROVE  TypeOK'
  BY <1>7, SetAliasTypes
<1>8. ASSUME NEW w \in Workflows, NEW id \in Ids(lists[w]),
             \/ \E source \in Ids(lists[w]) : AddRequire(w, id, source)
             \/ \E source \in Id : RemoveRequire(w, id, source)
      PROVE  TypeOK'
  BY <1>8, RequirementsTypes
<1>9. QED
  BY <1>1, <1>2, <1>3, <1>4, <1>5, <1>6, <1>7, <1>8 DEF Next

\* Whatever is edited, a list holds entries and every requirement is an id.
THEOREM TypeCorrect == Spec => []TypeOK
BY InitTypes, NextTypes, PTL DEF Spec

-----------------------------------------------------------------------------
(* Cycles.                                                                 *)

\* In a graph without a cycle every nonempty set, of vertices or not, has a
\* member with no predecessor in the set.
LEMMA MinimalMember ==
    ASSUME NEW E, Acyclic(E), NEW V, V # {}
    PROVE  \E v \in V : \A u \in V : <<u, v>> \notin E
<1> DEFINE vertices == {e[1] : e \in E} \cup {e[2] : e \in E}
           W == V \cap vertices
<1>1. \A u, v : <<u, v>> \in E => u \in vertices /\ v \in vertices
  OBVIOUS
<1>2. CASE W = {}
  BY <1>1, <1>2
<1>3. CASE W # {}
  <2>1. W \in SUBSET vertices
    OBVIOUS
  <2>2. PICK v \in W : \A u \in W : <<u, v>> \notin E
    BY <1>3, <2>1 DEF Acyclic
  <2>3. QED
    BY <1>1, <2>2
<1>4. QED
  BY <1>2, <1>3

\* One more edge closes no cycle when it leads into a set that the graph does
\* not lead out of, from outside the set.
LEMMA EdgeIntoAClosedSet ==
    ASSUME NEW E, Acyclic(E), NEW s, NEW t,
           NEW F, \A u, v : <<u, v>> \in F => <<u, v>> \in E \/ (u = s /\ v = t),
           NEW R, t \in R, s \notin R,
           \A u, v : <<u, v>> \in E /\ u \in R => v \in R
    PROVE  Acyclic(F)
<1> DEFINE vertices == {e[1] : e \in F} \cup {e[2] : e \in F}
<1> SUFFICES ASSUME NEW V \in SUBSET vertices, V # {}
             PROVE  \E v \in V : \A u \in V : <<u, v>> \notin F
  BY DEF Acyclic
<1>1. CASE V \ R # {}
  <2>1. PICK v \in V \ R : \A u \in V \ R : <<u, v>> \notin E
    BY <1>1, MinimalMember
  <2>2. QED
    BY <2>1
<1>2. CASE V \ R = {}
  <2>1. PICK v \in V : \A u \in V : <<u, v>> \notin E
    BY MinimalMember
  <2>2. QED
    BY <1>2, <2>1
<1>3. QED
  BY <1>1, <1>2

\* What an edge of the graph of a list is.
LEMMA EdgeFacts ==
    ASSUME NEW list, NEW u, NEW v
    PROVE  <<u, v>> \in Edges(list) <=>
             \E n \in Nodes(list) : \E r \in n.requires :
                u \in Sources(list, r) /\ v = n.id
BY DEF Edges

\* A part of a graph without a cycle has none.
LEMMA PartOfAcyclic ==
    ASSUME NEW E, Acyclic(E), NEW F, \A u, v : <<u, v>> \in F => <<u, v>> \in E
    PROVE  Acyclic(F)
BY MinimalMember DEF Acyclic

\* What a direct edge of the graph of a list is.
LEMMA DirectEdgeFacts ==
    ASSUME NEW list, NEW u, NEW v
    PROVE  <<u, v>> \in DirectEdges(list) <=>
             u \in Ids(list) /\ \E n \in Nodes(list) : u \in n.requires /\ v = n.id
BY DEF DirectEdges

\* The graph draws the direct edges.
LEMMA DirectEdgesAreEdges ==
    ASSUME NEW list, NEW u, NEW v, <<u, v>> \in DirectEdges(list)
    PROVE  <<u, v>> \in Edges(list)
<1>1. PICK n \in Nodes(list) : u \in Ids(list) /\ u \in n.requires /\ v = n.id
  BY DirectEdgeFacts
<1>2. u \in Sources(list, u)
  BY <1>1 DEF Sources, Resolve
<1>3. QED
  BY <1>1, <1>2 DEF Edges

\* A set of ids that holds what follows its members, node by node, is one that
\* no direct edge leads out of.
LEMMA FollowsIsByEdges ==
    ASSUME NEW list, NEW R \in SUBSET Ids(list), Follows(list, R) \subseteq R,
           NEW u \in R, NEW v, <<u, v>> \in DirectEdges(list)
    PROVE  v \in R
<1>1. PICK n \in Nodes(list) : u \in n.requires /\ v = n.id
  BY DirectEdgeFacts
<1>2. v \in Follows(list, R)
  BY <1>1 DEF Follows
<1>3. QED
  BY <1>2

\* Two lists that differ in what one entry requires have nodes of the same ids.
LEMMA SameButRequires ==
    ASSUME NEW list, NEW after, DOMAIN after = DOMAIN list,
           \A k \in DOMAIN list :
              /\ after[k].job = list[k].job /\ after[k].alias = list[k].alias
              /\ after[k].combos = list[k].combos
    PROVE  Ids(after) = Ids(list)
<1>1. \A k \in DOMAIN list :
         /\ Instances(after[k]) = Instances(list[k])
         /\ \A c : Node(after, k, c).id = Node(list, k, c).id
  BY DEF Instances, Node, IdOf
<1>2. /\ \A m \in Nodes(after) : \E n \in Nodes(list) : m.id = n.id
      /\ \A n \in Nodes(list) : \E m \in Nodes(after) : m.id = n.id
  BY <1>1 DEF Nodes
<1>3. QED
  BY <1>2 DEF Ids

\* When an entry requires one id more, the graph has an edge more for each of
\* its nodes, and no other direct edge.
LEMMA OneRequirementMore ==
    ASSUME NEW list, IsList(list), NEW i \in DOMAIN list, NEW source,
           NEW after, DOMAIN after = DOMAIN list,
           \A k \in DOMAIN list \ {i} : after[k] = list[k],
           after[i] = [list[i] EXCEPT !.requires = @ \cup {source}],
           NEW u, NEW v, <<u, v>> \in DirectEdges(after)
    PROVE  \/ <<u, v>> \in DirectEdges(list)
           \/ \E n \in Nodes(list) : n.pos = i /\ u = Substitute(source, n.at) /\ v = n.id
<1>1. \A k \in DOMAIN list : list[k] \in Entry
  BY ListDomain
<1>2. /\ after[i].job = list[i].job /\ after[i].alias = list[i].alias
      /\ after[i].combos = list[i].combos
      /\ after[i].requires = list[i].requires \cup {source}
  BY <1>1 DEF Entry
<1>3. Ids(after) = Ids(list)
  <2>1. \A k \in DOMAIN list :
           /\ after[k].job = list[k].job /\ after[k].alias = list[k].alias
           /\ after[k].combos = list[k].combos
    BY <1>2
  <2>2. QED
    BY <2>1, SameButRequires
<1>4. PICK m \in Nodes(after) : u \in Ids(list) /\ u \in m.requires /\ v = m.id
  BY <1>3, DirectEdgeFacts
<1>5. PICK k \in DOMAIN list : \E c \in Instances(after[k]) : m = Node(after, k, c)
  BY DEF Nodes
<1>6. PICK c \in Instances(after[k]) : m = Node(after, k, c)
  BY <1>5
<1>7. PICK q \in after[k].requires : u = Substitute(q, c)
  BY <1>4, <1>6 DEF Node
<1> DEFINE n == Node(list, k, c)
<1>8. n \in Nodes(list) /\ n.id = v /\ n.pos = k /\ n.at = c
  <2>1. Instances(after[k]) = Instances(list[k]) /\ IdOf(after[k], c) = IdOf(list[k], c)
    BY <1>2 DEF Instances, IdOf
  <2>2. n \in Nodes(list)
    BY <1>6, <2>1 DEF Nodes
  <2>3. QED
    BY <1>4, <1>6, <2>1, <2>2 DEF Node
<1>9. CASE q \in list[k].requires
  <2>1. u \in n.requires
    BY <1>7, <1>9 DEF Node
  <2>2. QED
    BY <1>4, <1>8, <2>1, DirectEdgeFacts
<1>10. CASE k = i /\ q = source
  BY <1>7, <1>8, <1>10
<1>11. QED
  BY <1>2, <1>7, <1>9, <1>10

\* Requiring one job from another closes no cycle of direct edges but over the
\* other instances of its target.
LEMMA ConnectingStep ==
    ASSUME TypeOK, NEW w \in Workflows,
           NEW target \in Ids(lists[w]), NEW source \in Ids(lists[w]),
           AddRequire(w, target, source), Acyclic(Edges(lists[w]))
    PROVE  Acyclic(DirectEdges(lists'[w]) \ DrawnBeside(lists[w], target, source))
<1> DEFINE list == lists[w]
           i == Target(list, target).pos
           after == [list EXCEPT ![i].requires = @ \cup {source}]
           beside == DrawnBeside(list, target, source)
<1>1. w \in Lists /\ IsList(list) /\ AreLists(lists)
  BY DEF Lists, TypeOK, AreLists
<1>2. i \in DOMAIN list
  BY <1>1, TargetIsANode, NodeFacts
<1>3. lists'[w] = after
  BY <1>1 DEF AddRequire, AreLists
<1>4. /\ DOMAIN after = DOMAIN list
      /\ \A k \in DOMAIN list \ {i} : after[k] = list[k]
      /\ after[i] = [list[i] EXCEPT !.requires = @ \cup {source}]
  BY <1>1, <1>2, ListDomain
<1>5. PICK R \in SUBSET Ids(list) :
         target \in R /\ Follows(list, R) \subseteq R /\ source \notin R
  BY DEF AddRequire, HasPath
<1>6. \A u, v : <<u, v>> \in DirectEdges(list) /\ u \in R => v \in R
  BY <1>5, FollowsIsByEdges
<1>7. ASSUME NEW n \in Nodes(list), n.pos = i
      PROVE  \/ <<Substitute(source, n.at), n.id>> \in beside
             \/ <<Substitute(source, n.at), n.id>> \in DirectEdges(list)
             \/ Substitute(source, n.at) = source /\ n.id = target
  BY <1>7 DEF DrawnBeside
<1>8. Acyclic(DirectEdges(list))
  BY DirectEdgesAreEdges, PartOfAcyclic
<1> HIDE DEF beside, after, i, list
<1>9. \A u, v : <<u, v>> \in DirectEdges(after) =>
           \/ <<u, v>> \in DirectEdges(list)
           \/ \E n \in Nodes(list) : n.pos = i /\ u = Substitute(source, n.at) /\ v = n.id
  BY <1>1, <1>2, <1>4, OneRequirementMore
<1>10. \A u, v : <<u, v>> \in DirectEdges(after) \ beside =>
                   <<u, v>> \in DirectEdges(list) \/ (u = source /\ v = target)
  BY <1>7, <1>9
<1>11. Acyclic(DirectEdges(after) \ beside)
  BY <1>5, <1>6, <1>8, <1>10, EdgeIntoAClosedSet
<1>12. QED
  BY <1>3, <1>11 DEF list, beside

\* Requiring one job from another closes a cycle in a workflow that has none
\* only by way of a matrix, however large the workflow is and whatever its
\* requirements resolve to: the search by id that addRequire makes
\* (configMutations.ts:1149-1197) finds every other one.
THEOREM CyclesNeedAMatrix == Spec => CyclesCloseOnlyOverAMatrix
<1>1. TypeOK /\ [Next]_vars =>
        [\A w \in Workflows : \A target, source \in Ids(lists[w]) :
            AddRequire(w, target, source) /\ Acyclic(Edges(lists[w]))
            => Acyclic(DirectEdges(lists'[w]) \ DrawnBeside(lists[w], target, source))]_vars
  BY ConnectingStep
<1>2. QED
  BY InitTypes, NextTypes, <1>1, PTL DEF Spec, CyclesCloseOnlyOverAMatrix

-----------------------------------------------------------------------------
(* The prompts.                                                            *)

\* Without a matrix an entry has one node, and the id the prompt reads.
LEMMA NodesWithoutMatrices ==
    ASSUME NEW list, \A i \in DOMAIN list : list[i].combos = {}
    PROVE  /\ Nodes(list) = {Node(list, i, Plain) : i \in DOMAIN list}
           /\ \A i \in DOMAIN list :
                 /\ Node(list, i, Plain).pos = i
                 /\ Node(list, i, Plain).id = EntryId(list[i])
                 /\ Node(list, i, Plain).job = list[i].job
                 /\ Node(list, i, Plain).aliased <=> list[i].alias # NoAlias
<1>1. \A i \in DOMAIN list : Instances(list[i]) = {Plain}
  BY DEF Instances
<1>2. Nodes(list) = {Node(list, i, Plain) : i \in DOMAIN list}
  <2> DEFINE N(i, c) == Node(list, i, c)
  <2>1. Nodes(list) = UNION {{N(i, c) : c \in Instances(list[i])} : i \in DOMAIN list}
    BY Zenon DEF Nodes
  <2> HIDE DEF N
  <2>2. Nodes(list) = {N(i, Plain) : i \in DOMAIN list}
    BY <1>1, <2>1
  <2>3. QED
    BY <2>2 DEF N
<1>3. \A i \in DOMAIN list : IdOf(list[i], Plain) = EntryId(list[i])
  BY DEF IdOf, EntryId, Substitute, Bare
<1>4. QED
  BY <1>2, <1>3, NodeFields

\* The ids and the places a delete finds are those the prompt counts with.
LEMMA DeleteFindsTheEntries ==
    ASSUME NEW list, \A i \in DOMAIN list : list[i].combos = {}, NEW j
    PROVE  /\ {n.pos : n \in NodesOf(list, j)} = {i \in DOMAIN list : list[i].job = j}
           /\ {n.id : n \in NodesOf(list, j)} =
                 {EntryId(list[i]) : i \in {k \in DOMAIN list : list[k].job = j}}
<1> DEFINE N(i) == Node(list, i, Plain)
<1>1. /\ Nodes(list) = {N(i) : i \in DOMAIN list}
      /\ \A i \in DOMAIN list :
            N(i).pos = i /\ N(i).id = EntryId(list[i]) /\ N(i).job = list[i].job
  BY NodesWithoutMatrices
<1> HIDE DEF N
<1>2. NodesOf(list, j) = {N(i) : i \in {k \in DOMAIN list : list[k].job = j}}
  BY <1>1 DEF NodesOf
<1>3. QED
  BY <1>1, <1>2

\* A rename rewrites a workflow exactly when the prompt says so.
LEMMA RenameAgrees ==
    ASSUME NEW list, \A i \in DOMAIN list : list[i].combos = {}, NEW j
    PROVE  ShouldRenameRequires(list, j) <=> RewrittenOnRename(list, j)
<1> DEFINE N(i) == Node(list, i, Plain)
<1>1. /\ Nodes(list) = {N(i) : i \in DOMAIN list}
      /\ \A i \in DOMAIN list :
            /\ N(i).id = EntryId(list[i]) /\ N(i).job = list[i].job
            /\ N(i).aliased <=> list[i].alias # NoAlias
  BY NodesWithoutMatrices
<1> HIDE DEF N
<1>2. {n \in Nodes(list) : n.id = Bare(j)} =
         {N(i) : i \in {k \in DOMAIN list : EntryId(list[k]) = Bare(j)}}
  BY <1>1
<1>3. \A i \in DOMAIN list : ~N(i).aliased <=> list[i].alias = NoAlias
  BY <1>1, Zenon
<1>4. QED
  BY <1>1, <1>2, <1>3 DEF ShouldRenameRequires, RewrittenOnRename

\* What an edit takes from the entries that stay, and what a prompt counts,
\* requirement by requirement.
LEMMA CountedOneByOne ==
    ASSUME NEW list, NEW after
    PROVE  /\ Changed(list, after) =
                 {ref \in Changed(list, after) : ref = <<ref[1], ref[2]>>}
           /\ \A i, r : <<i, r>> \in Changed(list, after) <=>
                 i \in DOMAIN after /\ r \in list[i].requires \ after[i].requires
BY DEF Changed

\* The requirements that name one of the job's entries, one by one.
LEMMA ReferencesOneByOne ==
    ASSUME NEW list, NEW j
    PROVE  /\ References(list, j) =
                 {ref \in References(list, j) : ref = <<ref[1], ref[2]>>}
           /\ \A i, r : <<i, r>> \in References(list, j) <=>
                 /\ i \in DOMAIN list /\ r \in list[i].requires
                 /\ r \in {EntryId(list[k]) : k \in {k \in DOMAIN list : list[k].job = j}}
BY DEF References

\* Deleting a job takes from the entries that stay what the prompt says.
LEMMA DeletePromptIsHonest ==
    ASSUME NEW list, IsList(list), \A i \in DOMAIN list : list[i].combos = {}, NEW j
    PROVE  Changed(list, DeleteFrom(list, j)) =
              {ref \in DeletePromises(list, j) : ref[1] \in DOMAIN DeleteFrom(list, j)}
<1> DEFINE mine == {i \in DOMAIN list : list[i].job = j}
           ids == {EntryId(list[i]) : i \in mine}
           after == DeleteFrom(list, j)
           announced == {ref \in DeletePromises(list, j) : ref[1] \in DOMAIN after}
<1>1. after = Prune(Drop(list, mine), ids)
  BY DeleteFindsTheEntries DEF DeleteFrom
<1>2. \A i \in DOMAIN list : list[i] \in Entry
  BY ListDomain
<1>3. /\ DOMAIN after = DOMAIN list \ mine
      /\ \A i \in DOMAIN after : after[i].requires = list[i].requires \ ids
  <2> HIDE DEF mine, ids
  <2>1. DOMAIN Drop(list, mine) = DOMAIN list \ mine
        /\ \A i \in DOMAIN list \ mine : Drop(list, mine)[i] = list[i]
    BY DEF Drop
  <2>2. DOMAIN after = DOMAIN list \ mine
        /\ \A i \in DOMAIN after : after[i] = [list[i] EXCEPT !.requires = @ \ ids]
    BY <1>1, <2>1 DEF Prune
  <2>3. QED
    BY <1>2, <2>2 DEF Entry
<1>4. \A i, r : <<i, r>> \in Changed(list, after) <=> <<i, r>> \in announced
  <2>1. \A i, r : <<i, r>> \in Changed(list, after) <=>
                     i \in DOMAIN list \ mine /\ r \in list[i].requires \cap ids
    <3> HIDE DEF mine, ids, after
    <3>1. ASSUME NEW i, NEW r
          PROVE  <<i, r>> \in Changed(list, after) <=>
                     i \in DOMAIN list \ mine /\ r \in list[i].requires \cap ids
      <4>1. <<i, r>> \in Changed(list, after) <=>
              i \in DOMAIN after /\ r \in list[i].requires \ after[i].requires
        BY CountedOneByOne
      <4>2. QED
        BY <1>3, <4>1
    <3>2. QED
      BY <3>1
  <2>2. \A i, r : <<i, r>> \in announced <=>
                     i \in DOMAIN list \ mine /\ r \in list[i].requires \cap ids
    <3>1. ASSUME NEW i, NEW r
          PROVE  <<i, r>> \in announced <=>
                     i \in DOMAIN list \ mine /\ r \in list[i].requires \cap ids
      <4>1. <<i, r>> \in References(list, j) <=>
              i \in DOMAIN list /\ r \in list[i].requires /\ r \in ids
        BY ReferencesOneByOne
      <4>2. <<i, r>> \in announced <=>
              <<i, r>> \in References(list, j) /\ i \in DOMAIN after
        BY DEF DeletePromises
      <4>3. QED
        BY <1>3, <4>1, <4>2
    <3>2. QED
      BY <3>1
  <2>3. QED
    BY <2>1, <2>2
<1>5. \A ref \in Changed(list, after) : ref = <<ref[1], ref[2]>>
  BY CountedOneByOne
<1>6. \A ref \in announced : ref = <<ref[1], ref[2]>>
  BY ReferencesOneByOne DEF DeletePromises
<1> HIDE DEF announced, after
<1>7. Changed(list, after) = announced
  BY <1>4, <1>5, <1>6
<1>8. QED
  BY <1>7 DEF announced, after

\* Renaming a job takes from the entries what the prompt says.
LEMMA RenamePromptIsHonest ==
    ASSUME NEW list, IsList(list), \A i \in DOMAIN list : list[i].combos = {},
           NEW j, NEW k, k # j
    PROVE  Changed(list, RenameIn(list, j, k)) = RenamePromises(list, j)
<1> DEFINE named == RenameEntries(list, j, k)
           after == RenameIn(list, j, k)
<1>1. \A i \in DOMAIN list : list[i] \in Entry
  BY ListDomain
<1>2. DOMAIN named = DOMAIN list
      /\ \A i \in DOMAIN list : named[i].requires = list[i].requires /\ DOMAIN named[i] = DOMAIN list[i]
  BY <1>1 DEF RenameEntries, Entry
<1>3. CASE RewrittenOnRename(list, j)
  <2>1. after = RenameRequires(named, Bare(j), Bare(k))
    BY <1>3, RenameAgrees DEF RenameIn
  <2> HIDE DEF named
  <2>2. DOMAIN after = DOMAIN list
        /\ \A i \in DOMAIN list : after[i].requires =
              {IF r = Bare(j) THEN Bare(k) ELSE r : r \in list[i].requires}
    <3>1. \A i \in DOMAIN list : "requires" \in DOMAIN named[i]
      BY <1>1, <1>2 DEF Entry
    <3>2. QED
      BY <1>2, <2>1, <3>1 DEF RenameRequires
  <2>3. Bare(k) # Bare(j)
    BY DEF Bare
  <2> HIDE DEF after
  <2>4. \A i, r : <<i, r>> \in Changed(list, after) <=>
                     i \in DOMAIN list /\ r \in list[i].requires /\ r = Bare(j)
    <3>1. ASSUME NEW i, NEW r
          PROVE  <<i, r>> \in Changed(list, after) <=>
                     i \in DOMAIN list /\ r \in list[i].requires /\ r = Bare(j)
      <4>1. <<i, r>> \in Changed(list, after) <=>
              i \in DOMAIN after /\ r \in list[i].requires \ after[i].requires
        BY CountedOneByOne
      <4>2. QED
        BY <2>2, <2>3, <4>1
    <3>2. QED
      BY <3>1
  <2>5. Bare(j) \in {EntryId(list[i]) : i \in {n \in DOMAIN list : list[n].job = j}}
    BY <1>3 DEF RewrittenOnRename
  <2>6. \A i, r : <<i, r>> \in RenamePromises(list, j) <=>
                     i \in DOMAIN list /\ r \in list[i].requires /\ r = Bare(j)
    <3>1. ASSUME NEW i, NEW r
          PROVE  <<i, r>> \in RenamePromises(list, j) <=>
                     i \in DOMAIN list /\ r \in list[i].requires /\ r = Bare(j)
      <4>1. <<i, r>> \in References(list, j) <=>
              /\ i \in DOMAIN list /\ r \in list[i].requires
              /\ r \in {EntryId(list[n]) : n \in {m \in DOMAIN list : list[m].job = j}}
        BY ReferencesOneByOne
      <4>2. <<i, r>> \in RenamePromises(list, j) <=>
              <<i, r>> \in References(list, j) /\ r = Bare(j)
        BY <1>3 DEF RenamePromises
      <4>3. QED
        BY <2>5, <4>1, <4>2
    <3>2. QED
      BY <3>1
  <2>7. \A ref \in Changed(list, after) \cup RenamePromises(list, j) :
           ref = <<ref[1], ref[2]>>
    BY CountedOneByOne, ReferencesOneByOne DEF RenamePromises
  <2>8. Changed(list, after) = RenamePromises(list, j)
    BY <2>4, <2>6, <2>7
  <2>9. QED
    BY <2>8 DEF after
<1>4. CASE ~RewrittenOnRename(list, j)
  <2>1. after = named
    BY <1>4, RenameAgrees DEF RenameIn
  <2>2. Changed(list, after) = {}
    BY <1>2, <2>1 DEF Changed
  <2>3. RenamePromises(list, j) = {}
    BY <1>4 DEF RenamePromises
  <2>4. QED
    BY <2>2, <2>3
<1>5. QED
  BY <1>3, <1>4

\* On every workflow without a matrix a rename rewrites the requirements its
\* prompt announces and no other, and so does a delete in the entries that stay
\* (jobReferences.ts:91-93).
THEOREM HonestPrompts == Spec => PromptsAreHonest
<1>1. ASSUME TypeOK, NEW w \in Workflows, NotAMatrix(lists[w], DOMAIN lists[w]),
             NEW j \in Names
      PROVE  /\ DeleteJob(j) => Changed(lists[w], lists'[w]) =
                   {ref \in DeletePromises(lists[w], j) : ref[1] \in DOMAIN lists'[w]}
             /\ \A k \in Names : RenameJob(j, k) =>
                   Changed(lists[w], lists'[w]) = RenamePromises(lists[w], j)
  <2>1. w \in Lists \ Groups /\ IsList(lists[w])
        /\ \A i \in DOMAIN lists[w] : lists[w][i].combos = {}
    BY <1>1, ListsAssumption DEF Lists, TypeOK, AreLists, NotAMatrix
  <2>2. ASSUME DeleteJob(j)
        PROVE  Changed(lists[w], lists'[w]) =
                 {ref \in DeletePromises(lists[w], j) : ref[1] \in DOMAIN lists'[w]}
    <3>1. lists'[w] = DeleteFrom(lists[w], j)
      BY <2>1, <2>2 DEF DeleteJob
    <3>2. QED
      BY <2>1, <3>1, DeletePromptIsHonest
  <2>3. ASSUME NEW k \in Names, RenameJob(j, k)
        PROVE  Changed(lists[w], lists'[w]) = RenamePromises(lists[w], j)
    <3>1. lists'[w] = RenameIn(lists[w], j, k) /\ k # j
      BY <2>1, <2>3 DEF RenameJob
    <3>2. QED
      BY <2>1, <3>1, RenamePromptIsHonest
  <2>4. QED
    BY <2>2, <2>3
<1>2. TypeOK /\ [Next]_vars =>
        [\A w \in Workflows :
            NotAMatrix(lists[w], DOMAIN lists[w])
            => \A j \in Names :
                  /\ DeleteJob(j) => Changed(lists[w], lists'[w]) =
                        {ref \in DeletePromises(lists[w], j) : ref[1] \in DOMAIN lists'[w]}
                  /\ \A k \in Names : RenameJob(j, k) =>
                        Changed(lists[w], lists'[w]) = RenamePromises(lists[w], j)]_vars
  BY <1>1
<1>3. QED
  BY InitTypes, NextTypes, <1>2, PTL DEF Spec, PromptsAreHonest

-----------------------------------------------------------------------------
(* Wires.                                                                  *)

\* Requirements that are no templates are the same for every instance.
LEMMA RequiresWithoutTemplates ==
    ASSUME NEW list, NoTemplates(list), NEW i \in DOMAIN list, NEW c
    PROVE  Node(list, i, c).requires = list[i].requires
<1>1. \A r \in list[i].requires : Substitute(r, c) = r
  BY DEF NoTemplates, Substitute
<1>2. Node(list, i, c).requires = {Substitute(r, c) : r \in list[i].requires}
  BY NodeFields
<1>3. QED
  BY <1>1, <1>2

\* A node is given by its place.
LEMMA NodesByPlace ==
    ASSUME NEW list
    PROVE  /\ \A n \in Nodes(list) :
                 /\ n.pos \in DOMAIN list /\ n.at \in Instances(list[n.pos])
                 /\ n = Node(list, n.pos, n.at)
           /\ \A i \in DOMAIN list : \A c \in Instances(list[i]) :
                 Node(list, i, c) \in Nodes(list)
<1>1. \A i \in DOMAIN list : \A c \in Instances(list[i]) : Node(list, i, c) \in Nodes(list)
  BY DEF Nodes
<1>2. ASSUME NEW n \in Nodes(list)
      PROVE  /\ n.pos \in DOMAIN list /\ n.at \in Instances(list[n.pos])
             /\ n = Node(list, n.pos, n.at)
  <2>1. PICK i \in DOMAIN list : \E c \in Instances(list[i]) : n = Node(list, i, c)
    BY DEF Nodes
  <2>2. PICK c \in Instances(list[i]) : n = Node(list, i, c)
    BY <2>1
  <2>3. n.pos = i /\ n.at = c
    BY <2>2, NodeFields
  <2>4. QED
    BY <2>1, <2>2, <2>3
<1>3. QED
  BY <1>1, <1>2

\* Where ids are unique, a wire leads from each source of a requirement.
LEMMA WiresByNodes ==
    ASSUME NEW list, UniqueIds(list), NEW e
    PROVE  e \in Wires(list) <=>
             \E m, n \in Nodes(list) :
                /\ e = <<Place(m), Place(n)>>
                /\ \E r \in n.requires : m.id \in Sources(list, r)
<1>1. e \in Wires(list) <=>
        \E m, n \in Nodes(list) :
           e = <<Place(m), Place(n)>> /\ <<m.id, n.id>> \in Edges(list)
  <2> DEFINE edges == Edges(list)
             into(n) == {<<Place(m), Place(n)>> : m \in {k \in Nodes(list) : <<k.id, n.id>> \in edges}}
  <2>1. Wires(list) = UNION {into(n) : n \in Nodes(list)}
    BY DEF Wires
  <2>2. \A n : e \in into(n) <=>
           \E m \in Nodes(list) : e = <<Place(m), Place(n)>> /\ <<m.id, n.id>> \in edges
    OBVIOUS
  <2> HIDE DEF into
  <2>3. e \in Wires(list) <=> \E n \in Nodes(list) : e \in into(n)
    BY <2>1
  <2> HIDE DEF edges
  <2>4. e \in Wires(list) <=>
           \E m, n \in Nodes(list) : e = <<Place(m), Place(n)>> /\ <<m.id, n.id>> \in edges
    BY <2>2, <2>3, Zenon
  <2>5. QED
    BY <2>4 DEF edges
<1>2. ASSUME NEW m \in Nodes(list), NEW n \in Nodes(list)
      PROVE  <<m.id, n.id>> \in Edges(list) <=>
                \E r \in n.requires : m.id \in Sources(list, r)
  BY EdgeFacts DEF UniqueIds
<1>3. QED
  BY <1>1, <1>2

\* Where every requirement is a node's id, a wire leads from that node, and
\* nothing dangles.
LEMMA DirectWires ==
    ASSUME NEW list, UniqueIds(list), Direct(list), NoTemplates(list)
    PROVE  /\ Dangling(list) = {}
           /\ \A e : e \in Wires(list) <=>
                 \E m, n \in Nodes(list) :
                    e = <<Place(m), Place(n)>> /\ m.id \in list[n.pos].requires
<1>1. \A n \in Nodes(list) : n.requires = list[n.pos].requires
  <2>1. ASSUME NEW n \in Nodes(list) PROVE n.requires = list[n.pos].requires
    <3>1. n.pos \in DOMAIN list /\ n = Node(list, n.pos, n.at)
      BY NodesByPlace
    <3>2. Node(list, n.pos, n.at).requires = list[n.pos].requires
      BY <3>1, RequiresWithoutTemplates
    <3>3. QED
      BY <3>1, <3>2
  <2>2. QED
    BY <2>1
<1>2. \A n \in Nodes(list) : n.requires \subseteq Ids(list)
  BY <1>1, NodesByPlace DEF Direct
<1>3. \A n \in Nodes(list) : \A r \in n.requires :
         Resolve(list, r) = {r} /\ Sources(list, r) = {r}
  BY <1>2 DEF Resolve, Sources
<1>4. Dangling(list) = {}
  BY <1>3 DEF Dangling
<1>5. ASSUME NEW e
      PROVE  e \in Wires(list) <=>
               \E m, n \in Nodes(list) :
                  e = <<Place(m), Place(n)>> /\ m.id \in list[n.pos].requires
  <2>1. \A m, n \in Nodes(list) :
           (\E r \in n.requires : m.id \in Sources(list, r)) <=> m.id \in list[n.pos].requires
    BY <1>1, <1>3
  <2>2. QED
    BY <2>1, WiresByNodes
<1>6. QED
  BY <1>4, <1>5

-----------------------------------------------------------------------------
(* Removals.                                                               *)

\* OnlyLoses, of two lists.
Loses(list, after, P) ==
    /\ DOMAIN after = DOMAIN list \ P
    /\ Wires(after) = WiresWithout(list, P)
    /\ Dangling(after) = {}

\* Whatever loses the entries at some positions, and the requirements on all of
\* their ids, loses the wires at them and no others.
LEMMA RemovalOfEntries ==
    ASSUME NEW list, IsList(list), UniqueIds(list), Direct(list), NoTemplates(list),
           NEW P, NEW ids, NEW after, after = Prune(Drop(list, P), ids),
           \A id : id \in ids <=> \E n \in Nodes(list) : n.pos \in P /\ n.id = id
    PROVE  Loses(list, after, P)
<1>1. \A i \in DOMAIN list : list[i] \in Entry
  BY ListDomain
<1>2. DOMAIN after = DOMAIN list \ P
      /\ \A i \in DOMAIN after : after[i] = [list[i] EXCEPT !.requires = @ \ ids]
  BY DEF Prune, Drop
<1>3. \A i \in DOMAIN after :
         /\ after[i].job = list[i].job /\ after[i].alias = list[i].alias
         /\ after[i].combos = list[i].combos
         /\ after[i].requires = list[i].requires \ ids
  BY <1>1, <1>2 DEF Entry
<1>4. \A i \in DOMAIN after :
         /\ Instances(after[i]) = Instances(list[i])
         /\ \A c : Node(after, i, c).id = Node(list, i, c).id
  <2>1. ASSUME NEW i \in DOMAIN after, NEW c
        PROVE  Node(after, i, c).id = Node(list, i, c).id
    <3>1. IdOf(after[i], c) = IdOf(list[i], c)
      BY <1>3 DEF IdOf
    <3>2. QED
      BY <3>1, NodeFields
  <2>2. \A i \in DOMAIN after : Instances(after[i]) = Instances(list[i])
    BY <1>3 DEF Instances
  <2>3. QED
    BY <2>1, <2>2
<1>5. ASSUME NEW n \in Nodes(list), n.pos \notin P
      PROVE  \E m \in Nodes(after) : m.pos = n.pos /\ m.at = n.at /\ m.id = n.id
  <2>1. n.pos \in DOMAIN after /\ n.at \in Instances(after[n.pos])
        /\ n = Node(list, n.pos, n.at)
    BY <1>2, <1>4, <1>5, NodesByPlace
  <2>2. Node(after, n.pos, n.at) \in Nodes(after)
    BY <2>1, NodesByPlace
  <2>3. Node(after, n.pos, n.at).id = n.id
    BY <1>4, <2>1
  <2>4. Node(after, n.pos, n.at).pos = n.pos /\ Node(after, n.pos, n.at).at = n.at
    BY NodeFields
  <2>5. QED
    BY <2>2, <2>3, <2>4
<1>6. ASSUME NEW m \in Nodes(after)
      PROVE  /\ m.pos \notin P /\ m.pos \in DOMAIN after
             /\ \E n \in Nodes(list) : n.pos = m.pos /\ n.at = m.at /\ n.id = m.id
  <2>1. m.pos \in DOMAIN after /\ m.at \in Instances(after[m.pos])
        /\ m = Node(after, m.pos, m.at)
    BY NodesByPlace
  <2>2. Node(list, m.pos, m.at) \in Nodes(list)
    BY <1>2, <1>4, <2>1, NodesByPlace
  <2>3. Node(list, m.pos, m.at).id = m.id
    BY <1>4, <2>1
  <2>4. QED
    BY <1>2, <2>1, <2>2, <2>3, NodeFields
<1>7. UniqueIds(after)
  <2>1. ASSUME NEW m \in Nodes(after), NEW n \in Nodes(after), m.id = n.id
        PROVE  m = n
    <3>1. m.pos = n.pos /\ m.at = n.at
      BY <1>6, <2>1 DEF UniqueIds
    <3>2. m = Node(after, m.pos, m.at) /\ n = Node(after, n.pos, n.at)
      BY NodesByPlace
    <3>3. QED
      BY <3>1, <3>2
  <2>2. QED
    BY <2>1 DEF UniqueIds
<1>8. NoTemplates(after)
  BY <1>2, <1>3 DEF NoTemplates
<1>9. Direct(after)
  <2>1. ASSUME NEW i \in DOMAIN after, NEW r \in after[i].requires
        PROVE  r \in Ids(after)
    <3>1. r \in Ids(list) /\ r \notin ids
      BY <1>2, <1>3, <2>1 DEF Direct
    <3>2. PICK n \in Nodes(list) : n.id = r
      BY <3>1 DEF Ids
    <3>3. n.pos \notin P
      BY <3>1, <3>2
    <3>4. QED
      BY <1>5, <3>2, <3>3 DEF Ids
  <2>2. QED
    BY <2>1 DEF Direct
<1>10. \A n \in Nodes(list) : n.pos \notin P => n.id \notin ids
  BY DEF UniqueIds
<1>11. ASSUME NEW e
       PROVE  e \in Wires(after) <=> e \in WiresWithout(list, P)
  <2>1. e \in Wires(after) <=>
          \E m, n \in Nodes(after) :
             e = <<Place(m), Place(n)>> /\ m.id \in after[n.pos].requires
    BY <1>7, <1>8, <1>9, DirectWires
  <2>2. e \in Wires(list) <=>
          \E m, n \in Nodes(list) :
             e = <<Place(m), Place(n)>> /\ m.id \in list[n.pos].requires
    BY DirectWires
  <2>3. e \in WiresWithout(list, P) <=>
          \E m, n \in Nodes(list) :
             /\ e = <<Place(m), Place(n)>> /\ m.id \in list[n.pos].requires
             /\ m.pos \notin P /\ n.pos \notin P
    BY <2>2 DEF WiresWithout, Place
  <2>4. ASSUME NEW m \in Nodes(after), NEW n \in Nodes(after),
               e = <<Place(m), Place(n)>>, m.id \in after[n.pos].requires
        PROVE  e \in WiresWithout(list, P)
    <3>1. PICK k \in Nodes(list) : k.pos = m.pos /\ k.at = m.at /\ k.id = m.id
      BY <1>6
    <3>2. PICK l \in Nodes(list) : l.pos = n.pos /\ l.at = n.at /\ l.id = n.id
      BY <1>6
    <3>3. k.id \in list[l.pos].requires
      BY <1>3, <1>6, <2>4, <3>1, <3>2
    <3>4. e = <<Place(k), Place(l)>> /\ k.pos \notin P /\ l.pos \notin P
      BY <1>6, <2>4, <3>1, <3>2 DEF Place
    <3>5. QED
      BY <2>3, <3>3, <3>4
  <2>5. ASSUME NEW m \in Nodes(list), NEW n \in Nodes(list),
               e = <<Place(m), Place(n)>>, m.id \in list[n.pos].requires,
               m.pos \notin P, n.pos \notin P
        PROVE  e \in Wires(after)
    <3>1. PICK k \in Nodes(after) : k.pos = m.pos /\ k.at = m.at /\ k.id = m.id
      BY <1>5, <2>5
    <3>2. PICK l \in Nodes(after) : l.pos = n.pos /\ l.at = n.at /\ l.id = n.id
      BY <1>5, <2>5
    <3>3. k.id \in after[l.pos].requires
      BY <1>3, <1>6, <1>10, <2>5, <3>1, <3>2
    <3>4. e = <<Place(k), Place(l)>>
      BY <2>5, <3>1, <3>2 DEF Place
    <3>5. QED
      BY <2>1, <3>3, <3>4
  <2>6. QED
    BY <2>1, <2>3, <2>4, <2>5
<1>12. Dangling(after) = {}
  BY <1>7, <1>8, <1>9, DirectWires
<1>13. QED
  BY <1>2, <1>11, <1>12 DEF Loses

\* A list that loses nothing.
LEMMA RemovalOfNothing ==
    ASSUME NEW list, UniqueIds(list), Direct(list), NoTemplates(list)
    PROVE  Loses(list, list, {})
BY DirectWires DEF WiresWithout, Loses

\* The entries of a job and their nodes: what a delete removes.
LEMMA NodesOfAJob ==
    ASSUME NEW list, NEW j
    PROVE  /\ \A i : i \in {n.pos : n \in NodesOf(list, j)} <=>
                        i \in DOMAIN list /\ list[i].job = j
           /\ NodesOf(list, j) = {n \in Nodes(list) : list[n.pos].job = j}
<1>1. \A n \in Nodes(list) : n.pos \in DOMAIN list /\ n.job = list[n.pos].job
  BY NodesByPlace, NodeFields
<1>2. ASSUME NEW i \in DOMAIN list, list[i].job = j
      PROVE  \E n \in NodesOf(list, j) : n.pos = i
  <2>1. PICK c : c \in Instances(list[i])
    BY DEF Instances
  <2>2. Node(list, i, c) \in Nodes(list)
    BY <2>1, NodesByPlace
  <2>3. QED
    BY <1>2, <2>2, NodeFields DEF NodesOf
<1>3. QED
  BY <1>1, <1>2 DEF NodesOf

\* Without aliases and matrices the entries of a job answer to its bare name.
LEMMA BareNameOfAJob ==
    ASSUME NEW list, NoAliasIn(list), NEW j, NEW P, P # {},
           \A i : i \in P <=> i \in DOMAIN list /\ list[i].job = j
    PROVE  \A id : id = Bare(j) <=> \E n \in Nodes(list) : n.pos \in P /\ n.id = id
<1>1. \A n \in Nodes(list) : n.pos \in P => n.id = Bare(j)
  <2>1. ASSUME NEW n \in Nodes(list), n.pos \in P PROVE n.id = Bare(j)
    <3>1. n.at \in Instances(list[n.pos]) /\ n = Node(list, n.pos, n.at)
      BY NodesByPlace
    <3>2. n.at = Plain /\ list[n.pos].alias = NoAlias
      BY <2>1, <3>1 DEF NoAliasIn, Instances
    <3>3. n.id = IdOf(list[n.pos], Plain)
      BY <3>1, <3>2, NodeFields
    <3>4. QED
      BY <2>1, <3>2, <3>3 DEF IdOf, Bare
  <2>2. QED
    BY <2>1
<1>2. \E n \in Nodes(list) : n.pos \in P
  <2>1. PICK i \in P : TRUE
    OBVIOUS
  <2>2. PICK c : c \in Instances(list[i])
    BY DEF Instances
  <2>3. Node(list, i, c) \in Nodes(list) /\ Node(list, i, c).pos = i
    BY <2>2, NodesByPlace, NodeFields
  <2>4. QED
    BY <2>1, <2>3
<1>3. QED
  BY <1>1, <1>2

\* Deleting a job, in a list of either kind.
LEMMA DeleteJobIsExact ==
    ASSUME TypeOK, NEW l \in Lists, UniqueIds(lists[l]), Direct(lists[l]),
           NoTemplates(lists[l]), l \in Groups => NoAliasIn(lists[l]),
           NEW j \in Names, DeleteJob(j)
    PROVE  OnlyLoses(l, PositionsOf(l, j))
<1> DEFINE list == lists[l]
           P == {i \in DOMAIN list : list[i].job = j}
           after == lists'[l]
<1>1. IsList(list) /\ \A i : i \in P <=> i \in DOMAIN list /\ list[i].job = j
  BY DEF TypeOK, AreLists
<1>2. SUFFICES Loses(list, after, P)
  BY DEF OnlyLoses, Loses, PositionsOf
<1>3. CASE l \notin Groups
  <2> DEFINE places == {n.pos : n \in NodesOf(list, j)}
             ids == {n.id : n \in NodesOf(list, j)}
  <2>1. after = Prune(Drop(list, places), ids)
    BY <1>3 DEF DeleteJob, DeleteFrom
  <2>2. places = P
    BY NodesOfAJob
  <2>3. \A id : id \in ids <=> \E n \in Nodes(list) : list[n.pos].job = j /\ n.id = id
    <3>1. NodesOf(list, j) = {n \in Nodes(list) : list[n.pos].job = j}
      BY NodesOfAJob
    <3>2. QED
      BY <3>1
  <2> HIDE DEF P, places, ids, after
  <2>4. \A id : id \in ids <=> \E n \in Nodes(list) : n.pos \in P /\ n.id = id
    BY <1>1, <2>3, NodesByPlace
  <2>5. QED
    BY <1>1, <2>1, <2>2, <2>4, RemovalOfEntries, Zenon
<1>4. CASE l \in Groups /\ P = {}
  <2>1. after = list
    BY <1>4 DEF DeleteJob, DeleteFromGroup
  <2> HIDE DEF P, after
  <2>2. QED
    BY <1>4, <2>1, RemovalOfNothing
<1>5. CASE l \in Groups /\ P # {}
  <2>1. after = Prune(Drop(list, P), {Bare(j)})
    BY <1>5 DEF DeleteJob, DeleteFromGroup
  <2> HIDE DEF P, after
  <2>2. \A id : id \in {Bare(j)} <=> \E n \in Nodes(list) : n.pos \in P /\ n.id = id
    BY <1>1, <1>5, BareNameOfAJob
  <2>3. QED
    BY <1>1, <2>1, <2>2, RemovalOfEntries, Zenon
<1>6. QED
  BY <1>3, <1>4, <1>5

\* Removing an entry of a workflow, seen in every list.
LEMMA RemoveEntryIsExact ==
    ASSUME TypeOK, NEW l \in Lists, UniqueIds(lists[l]), Direct(lists[l]),
           NoTemplates(lists[l]),
           NEW w \in Workflows, NEW id \in Ids(lists[w]), RemoveEntry(w, id)
    PROVE  OnlyLoses(l, IF w = l THEN {Target(lists[w], id).pos} ELSE {})
<1> DEFINE i == Target(lists[w], id).pos
           gone == {n.id : n \in {m \in Nodes(lists[w]) : m.pos = i}}
<1>1. w \in Lists /\ IsList(lists[l])
  BY DEF TypeOK, AreLists, Lists
<1>2. lists' = [lists EXCEPT ![w] = Prune(Drop(lists[w], {i}), gone)]
  BY DEF RemoveEntry
<1> HIDE DEF i
<1>3. CASE w = l
  <2>1. lists'[l] = Prune(Drop(lists[l], {i}), gone)
    BY <1>1, <1>2, <1>3 DEF TypeOK, AreLists
  <2>2. \A x : x \in gone <=> \E n \in Nodes(lists[l]) : n.pos \in {i} /\ n.id = x
    BY <1>3
  <2> DEFINE after == lists'[l]
  <2> HIDE DEF gone, after
  <2>3. Loses(lists[l], after, {i})
    BY <1>1, <2>1, <2>2, RemovalOfEntries, Zenon DEF after
  <2>4. QED
    BY <1>3, <2>3 DEF Loses, OnlyLoses, i, after
<1>4. CASE w # l
  <2>1. lists'[l] = lists[l]
    BY <1>1, <1>2, <1>4 DEF TypeOK, AreLists
  <2>2. QED
    BY <1>4, <2>1, RemovalOfNothing DEF Loses, OnlyLoses
<1>5. QED
  BY <1>3, <1>4

\* Deleting a job, or one entry, takes away its nodes and the wires at them and
\* nothing else, in every workflow and group of any size, whatever aliases and
\* matrix instances the entries answered to (configMutations.ts:753-858,
\* 1040-1079).
THEOREM ExactRemovals == Spec => RemovalIsExact
<1>1. TypeOK /\ [Next]_vars =>
        [\A l \in Lists :
            UniqueIds(lists[l]) /\ Direct(lists[l]) /\ NoTemplates(lists[l])
                /\ (l \in Groups => NoAliasIn(lists[l]))
            => /\ \A j \in Names : DeleteJob(j) => OnlyLoses(l, PositionsOf(l, j))
               /\ \A w \in Workflows : \A id \in Ids(lists[w]) : RemoveEntry(w, id) =>
                     OnlyLoses(l, IF w = l THEN {Target(lists[w], id).pos} ELSE {})]_vars
  BY DeleteJobIsExact, RemoveEntryIsExact
<1>2. QED
  BY InitTypes, NextTypes, <1>1, PTL DEF Spec, RemovalIsExact

-----------------------------------------------------------------------------
(* Renamings.                                                              *)

\* One id takes the place of another.
Renamed(id, old, new) == IF id = old THEN new ELSE id

\* One list is the other with one id in the place of another, in what its
\* entries answer to and in what they require; matrices answer as before.
Relabels(list, after, old, new) ==
    /\ DOMAIN after = DOMAIN list
    /\ \A i \in DOMAIN list :
          /\ after[i].combos = list[i].combos
          /\ list[i].combos # {} => after[i].job = list[i].job
          /\ \A c \in Instances(list[i]) :
                /\ IdOf(after[i], c) = Renamed(IdOf(list[i], c), old, new)
                /\ list[i].combos # {} => IdOf(list[i], c) # old
          /\ \A r : r \in after[i].requires <=>
                \E q \in list[i].requires : r = Renamed(q, old, new)

\* The new id is new, and where the old one is required it is a node's, unless
\* no matrix is there to fan out.
Fresh(list, old, new) ==
    /\ old = new \/ ~Mentions(list, new)
    /\ \/ \A i \in DOMAIN list : list[i].combos = {}
       \/ old \in Ids(list)
       \/ \A i \in DOMAIN list : old \notin list[i].requires

\* A node of the list, and what has become of it.
LEMMA RelabeledNodes ==
    ASSUME NEW list, NEW after, NEW old, NEW new,
           NoTemplates(list), NoTemplates(after), Relabels(list, after, old, new),
           NEW i \in DOMAIN list, NEW c \in Instances(list[i])
    PROVE  /\ Node(list, i, c) \in Nodes(list) /\ Node(after, i, c) \in Nodes(after)
           /\ Node(after, i, c).id = Renamed(Node(list, i, c).id, old, new)
           /\ Node(list, i, c).requires = list[i].requires
           /\ Node(after, i, c).requires = after[i].requires
<1>1. i \in DOMAIN after /\ Instances(after[i]) = Instances(list[i])
  BY DEF Relabels, Instances
<1>2. Node(list, i, c) \in Nodes(list) /\ Node(after, i, c) \in Nodes(after)
  BY <1>1, NodesByPlace
<1>3. Node(after, i, c).id = Renamed(Node(list, i, c).id, old, new)
  BY NodeFields DEF Relabels
<1>4. QED
  BY <1>1, <1>2, <1>3, RequiresWithoutTemplates

\* A source of a requirement is a node it names, or an instance of a matrix it
\* names when it names no node.
LEMMA SourceFacts ==
    ASSUME NEW list, NEW r, NEW m \in Nodes(list)
    PROVE  m.id \in Sources(list, r) <=>
             \/ m.id = r
             \/ /\ r \notin Ids(list)
                /\ \E k \in Nodes(list) : k.matrix /\ Bare(k.job) = r /\ m.id = k.id
<1>1. r \in Ids(list) => (m.id \in Sources(list, r) <=> m.id = r)
  BY DEF Sources, Resolve
<1>2. ASSUME r \notin Ids(list)
      PROVE  m.id \in Sources(list, r) <=>
                \E k \in Nodes(list) : k.matrix /\ Bare(k.job) = r /\ m.id = k.id
  <2>1. m.id # r
    BY <1>2 DEF Ids
  <2>2. Resolve(list, r) = FanOut(list, r)
    BY <1>2 DEF Resolve
  <2>3. m.id \in FanOut(list, r) <=>
           \E k \in Nodes(list) : k.matrix /\ Bare(k.job) = r /\ m.id = k.id
    BY DEF FanOut
  <2>4. QED
    BY <2>1, <2>2, <2>3 DEF Sources
<1>3. m.id = r => r \in Ids(list)
  BY DEF Ids
<1>4. QED
  BY <1>1, <1>2, <1>3

\* Such a list has the same wires, and its ids are as unique.
LEMMA RelabelingKeepsWires ==
    ASSUME NEW list, NEW after, NEW old, NEW new, UniqueIds(list),
           NoTemplates(list), NoTemplates(after),
           Relabels(list, after, old, new), Fresh(list, old, new)
    PROVE  UniqueIds(after) /\ Wires(after) = Wires(list)
<1> DEFINE f(id) == Renamed(id, old, new)
           To(m) == Node(after, m.pos, m.at)
<1>1. ASSUME NEW m \in Nodes(list)
      PROVE  /\ To(m) \in Nodes(after)
             /\ To(m).pos = m.pos /\ To(m).at = m.at
             /\ To(m).id = f(m.id)
             /\ m.requires = list[m.pos].requires
             /\ \A r : r \in To(m).requires <=> \E q \in m.requires : r = f(q)
  <2>1. /\ m.pos \in DOMAIN list /\ m.at \in Instances(list[m.pos])
        /\ m = Node(list, m.pos, m.at)
    BY NodesByPlace
  <2>2. /\ To(m) \in Nodes(after)
        /\ To(m).id = f(m.id)
        /\ m.requires = list[m.pos].requires
        /\ To(m).requires = after[m.pos].requires
    BY <2>1, RelabeledNodes
  <2>3. To(m).pos = m.pos /\ To(m).at = m.at
    BY NodeFields
  <2>4. QED
    BY <2>1, <2>2, <2>3 DEF Relabels
<1>2. ASSUME NEW m \in Nodes(list)
      PROVE  /\ To(m).matrix <=> m.matrix
             /\ m.matrix => /\ To(m).job = m.job /\ m.id # old
                            /\ list[m.pos].combos # {} /\ m.pos \in DOMAIN list
  <2>1. /\ m.pos \in DOMAIN list /\ m.at \in Instances(list[m.pos])
        /\ m = Node(list, m.pos, m.at)
    BY NodesByPlace
  <2>2. /\ after[m.pos].combos = list[m.pos].combos
        /\ list[m.pos].combos # {} =>
              after[m.pos].job = list[m.pos].job /\ IdOf(list[m.pos], m.at) # old
    BY <2>1 DEF Relabels
  <2>3. /\ m.matrix = (list[m.pos].combos # {}) /\ To(m).matrix = (after[m.pos].combos # {})
        /\ m.job = list[m.pos].job /\ To(m).job = after[m.pos].job
        /\ m.id = IdOf(list[m.pos], m.at)
    BY <2>1, NodeFields
  <2>4. QED
    BY <2>1, <2>2, <2>3
<1>3. \A n \in Nodes(after) : \E m \in Nodes(list) : n = To(m)
  <2>1. ASSUME NEW n \in Nodes(after)
        PROVE  \E m \in Nodes(list) : n = To(m)
    <3>1. /\ n.pos \in DOMAIN list /\ n.at \in Instances(list[n.pos])
          /\ n = Node(after, n.pos, n.at)
      BY NodesByPlace DEF Relabels, Instances
    <3>2. Node(list, n.pos, n.at) \in Nodes(list)
      BY <3>1, NodesByPlace
    <3>3. Node(list, n.pos, n.at).pos = n.pos /\ Node(list, n.pos, n.at).at = n.at
      BY NodeFields
    <3>4. QED
      BY <3>1, <3>2, <3>3
  <2>2. QED
    BY <2>1
<1>4. \A x, y : Mentions(list, x) /\ Mentions(list, y) /\ f(x) = f(y) => x = y
  BY DEF Fresh, Renamed
<1>5. \A m \in Nodes(list) : Mentions(list, m.id) /\ \A r \in m.requires : Mentions(list, r)
  BY DEF Mentions, Ids
<1> HIDE DEF f, To
<1>6. UniqueIds(after)
  BY <1>1, <1>3, <1>4, <1>5 DEF UniqueIds
<1>7. ASSUME NEW m \in Nodes(list), NEW n \in Nodes(list), NEW r \in n.requires
      PROVE  m.id \in Sources(list, r) <=> To(m).id \in Sources(after, f(r))
  <2>1. m.id = r <=> To(m).id = f(r)
    BY <1>1, <1>4, <1>5
  <2>2. r \in Ids(list) <=> f(r) \in Ids(after)
    <3>1. \A k \in Nodes(list) : k.id = r <=> To(k).id = f(r)
      BY <1>1, <1>4, <1>5
    <3>2. QED
      BY <1>1, <1>3, <3>1 DEF Ids
  <2>3. ASSUME r \notin Ids(list)
        PROVE  (\E k \in Nodes(list) : k.matrix /\ Bare(k.job) = r /\ m.id = k.id)
                 <=> (\E k \in Nodes(after) : k.matrix /\ Bare(k.job) = f(r) /\ To(m).id = k.id)
    <3>1. CASE \A i \in DOMAIN list : list[i].combos = {}
      BY <1>2, <1>3, <3>1
    <3>2. CASE ~\A i \in DOMAIN list : list[i].combos = {}
      <4>1. f(r) = r
        <5>1. n.pos \in DOMAIN list /\ r \in list[n.pos].requires
          BY <1>1, NodesByPlace
        <5>2. r # old
          BY <2>3, <3>2, <5>1 DEF Fresh
        <5>3. QED
          BY <5>2 DEF f, Renamed
      <4>2. \A k \in Nodes(list) : m.id = k.id <=> To(m).id = To(k).id
        BY <1>1, <1>4, <1>5
      <4>3. QED
        BY <1>1, <1>2, <1>3, <4>1, <4>2
    <3>3. QED
      BY <3>1, <3>2
  <2>4. To(m) \in Nodes(after)
    BY <1>1
  <2>5. QED
    BY <2>1, <2>2, <2>3, <2>4, SourceFacts
<1>8. ASSUME NEW m \in Nodes(list), NEW n \in Nodes(list)
      PROVE  (\E r \in n.requires : m.id \in Sources(list, r)) <=>
                (\E r \in To(n).requires : To(m).id \in Sources(after, r))
  BY <1>1, <1>7
<1>9. ASSUME NEW e PROVE e \in Wires(after) <=> e \in Wires(list)
  <2>1. e \in Wires(list) <=>
          \E m, n \in Nodes(list) :
             /\ e = <<Place(m), Place(n)>>
             /\ \E r \in n.requires : m.id \in Sources(list, r)
    BY WiresByNodes
  <2>2. e \in Wires(after) <=>
          \E m, n \in Nodes(after) :
             /\ e = <<Place(m), Place(n)>>
             /\ \E r \in n.requires : m.id \in Sources(after, r)
    BY <1>6, WiresByNodes
  <2>3. \A m \in Nodes(list) : To(m) \in Nodes(after) /\ Place(To(m)) = Place(m)
    BY <1>1 DEF Place
  <2>4. QED
    BY <1>3, <1>8, <2>1, <2>2, <2>3
<1>10. QED
  BY <1>6, <1>9

\* What an id is for an entry, with a matrix and without one.
LEMMA IdOfFacts ==
    ASSUME NEW e \in Entry, NEW c \in Instances(e)
    PROVE  /\ IdOf(e, c) \in Id
           /\ e.combos = {} => c = Plain /\ IdOf(e, c) = (IF e.alias = NoAlias THEN Bare(e.job) ELSE e.alias)
           /\ e.combos # {} /\ e.alias = NoAlias => \A x : IdOf(e, c) # Bare(x)
<1>1. c \in Combos \cup {Plain} /\ (e.combos = {} => c = Plain)
         /\ (e.combos # {} => c # Plain)
  BY CombosAssumption DEF Instances, Entry, Plain
<1>2. IdOf(e, c) \in Id
  BY <1>1, IdOfIsId
<1>3. e.combos = {} => IdOf(e, c) = (IF e.alias = NoAlias THEN Bare(e.job) ELSE e.alias)
  BY <1>1 DEF IdOf, Bare, Substitute
<1>4. e.combos # {} /\ e.alias = NoAlias => \A x : IdOf(e, c) # Bare(x)
  BY <1>1 DEF IdOf, Bare
<1>5. QED
  BY <1>1, <1>2, <1>3, <1>4

\* Entries renamed, and nothing else.
LEMMA RenamedEntries ==
    ASSUME NEW list, IsList(list), NEW j, NEW k, NEW i \in DOMAIN list
    PROVE  LET after == RenameEntries(list, j, k)
           IN  /\ DOMAIN after = DOMAIN list
               /\ after[i].job = (IF list[i].job = j THEN k ELSE list[i].job)
               /\ after[i].alias = list[i].alias
               /\ after[i].combos = list[i].combos
               /\ after[i].requires = list[i].requires
<1>1. list[i] \in Entry
  BY ListDomain
<1>2. QED
  BY <1>1 DEF RenameEntries, Entry

\* Requirements renamed, and nothing else.
LEMMA RenamedRequires ==
    ASSUME NEW list, IsList(list), NEW old, NEW new, NEW i \in DOMAIN list
    PROVE  LET after == RenameRequires(list, old, new)
           IN  /\ DOMAIN after = DOMAIN list
               /\ after[i].job = list[i].job
               /\ after[i].alias = list[i].alias
               /\ after[i].combos = list[i].combos
               /\ \A r : r \in after[i].requires <=>
                     \E q \in list[i].requires : r = Renamed(q, old, new)
<1> DEFINE R == {IF r = old THEN new ELSE r : r \in list[i].requires}
<1>1. RenameRequires(list, old, new)[i] = [list[i] EXCEPT !.requires = R]
  BY DEF RenameRequires
<1>2. \A r : r \in R <=> \E q \in list[i].requires : r = Renamed(q, old, new)
  BY DEF Renamed
<1> HIDE DEF R
<1>3. DOMAIN RenameRequires(list, old, new) = DOMAIN list /\ list[i] \in Entry
  BY ListDomain DEF RenameRequires
<1>4. QED
  BY <1>1, <1>2, <1>3 DEF Entry

\* Both at once.
LEMMA RenamedBoth ==
    ASSUME NEW list, IsList(list), NEW j \in Names, NEW k \in Names, NEW i \in DOMAIN list
    PROVE  LET after == RenameRequires(RenameEntries(list, j, k), Bare(j), Bare(k))
           IN  /\ DOMAIN after = DOMAIN list
               /\ after[i].job = (IF list[i].job = j THEN k ELSE list[i].job)
               /\ after[i].alias = list[i].alias
               /\ after[i].combos = list[i].combos
               /\ \A r : r \in after[i].requires <=>
                     \E q \in list[i].requires : r = Renamed(q, Bare(j), Bare(k))
<1> DEFINE mid == RenameEntries(list, j, k)
<1>1. /\ DOMAIN mid = DOMAIN list
      /\ mid[i].job = (IF list[i].job = j THEN k ELSE list[i].job)
      /\ mid[i].alias = list[i].alias
      /\ mid[i].combos = list[i].combos
      /\ mid[i].requires = list[i].requires
  BY RenamedEntries
<1>2. IsList(mid)
  BY PiecesKeepLists
<1> HIDE DEF mid
<1>3. /\ DOMAIN RenameRequires(mid, Bare(j), Bare(k)) = DOMAIN mid
      /\ RenameRequires(mid, Bare(j), Bare(k))[i].job = mid[i].job
      /\ RenameRequires(mid, Bare(j), Bare(k))[i].alias = mid[i].alias
      /\ RenameRequires(mid, Bare(j), Bare(k))[i].combos = mid[i].combos
      /\ \A r : r \in RenameRequires(mid, Bare(j), Bare(k))[i].requires <=>
            \E q \in mid[i].requires : r = Renamed(q, Bare(j), Bare(k))
  BY <1>1, <1>2, RenamedRequires
<1>4. QED
  BY <1>1, <1>3 DEF mid

\* Where no entry but the job's own, under no alias, answers to the job's name,
\* renaming the job there puts one id in the place of another.
LEMMA RenamingRelabels ==
    ASSUME NEW list, IsList(list), NoTemplates(list), NEW j \in Names, NEW k \in Names,
           \A i \in DOMAIN list : list[i].job = j => list[i].combos = {},
           \A i \in DOMAIN list : \A c \in Instances(list[i]) :
              IdOf(list[i], c) = Bare(j) => list[i].job = j /\ list[i].alias = NoAlias
    PROVE  LET after == RenameRequires(RenameEntries(list, j, k), Bare(j), Bare(k))
           IN  Relabels(list, after, Bare(j), Bare(k)) /\ NoTemplates(after)
<1> DEFINE after == RenameRequires(RenameEntries(list, j, k), Bare(j), Bare(k))
<1>1. ASSUME NEW i \in DOMAIN list
      PROVE  /\ DOMAIN after = DOMAIN list
             /\ after[i].job = (IF list[i].job = j THEN k ELSE list[i].job)
             /\ after[i].alias = list[i].alias
             /\ after[i].combos = list[i].combos
             /\ \A r : r \in after[i].requires <=>
                   \E q \in list[i].requires : r = Renamed(q, Bare(j), Bare(k))
             /\ list[i] \in Entry
  BY ListDomain, RenamedBoth
<1>2. DOMAIN after = DOMAIN list
  BY DEF RenameRequires, RenameEntries
<1> HIDE DEF after
<1>3. ASSUME NEW i \in DOMAIN list, NEW c \in Instances(list[i])
      PROVE  IdOf(after[i], c) = Renamed(IdOf(list[i], c), Bare(j), Bare(k))
  <2>1. CASE list[i].alias # NoAlias
    <3>1. IdOf(after[i], c) = IdOf(list[i], c)
      BY <1>1, <2>1 DEF IdOf
    <3>2. IdOf(list[i], c) # Bare(j)
      BY <2>1
    <3>3. QED
      BY <3>1, <3>2 DEF Renamed
  <2>2. CASE list[i].alias = NoAlias /\ list[i].job = j
    <3>1. c = Plain
      BY <2>2 DEF Instances
    <3>2. QED
      BY <1>1, <2>2, <3>1 DEF IdOf, Bare, Renamed
  <2>3. CASE list[i].alias = NoAlias /\ list[i].job # j
    <3>1. IdOf(after[i], c) = IdOf(list[i], c)
      BY <1>1, <2>3 DEF IdOf
    <3>2. IdOf(list[i], c) # Bare(j)
      BY <2>3
    <3>3. QED
      BY <3>1, <3>2 DEF Renamed
  <2>4. QED
    BY <2>1, <2>2, <2>3
<1>4. ASSUME NEW i \in DOMAIN list, NEW c \in Instances(list[i]), list[i].combos # {}
      PROVE  IdOf(list[i], c) # Bare(j) /\ after[i].job = list[i].job
  BY <1>1, <1>4
<1>5. Relabels(list, after, Bare(j), Bare(k))
  BY <1>1, <1>2, <1>3, <1>4 DEF Relabels, Instances
<1>6. NoTemplates(after)
  BY <1>1, <1>2 DEF NoTemplates, Renamed, Bare, Plain, Each
<1>7. QED
  BY <1>5, <1>6 DEF after

\* Where every entry of the job goes by an alias, a rename changes no id.
LEMMA RenamingUnderAliases ==
    ASSUME NEW list, IsList(list), NoTemplates(list), UniqueIds(list), NEW j, NEW k,
           \A i \in DOMAIN list : list[i].job = j =>
              list[i].combos = {} /\ list[i].alias # NoAlias
    PROVE  LET after == RenameEntries(list, j, k)
           IN  UniqueIds(after) /\ Wires(after) = Wires(list)
<1> DEFINE after == RenameEntries(list, j, k)
<1>1. ASSUME NEW i \in DOMAIN list
      PROVE  /\ after[i].job = (IF list[i].job = j THEN k ELSE list[i].job)
             /\ after[i].alias = list[i].alias
             /\ after[i].combos = list[i].combos
             /\ after[i].requires = list[i].requires
             /\ list[i] \in Entry
  BY ListDomain, RenamedEntries
<1>2. DOMAIN after = DOMAIN list
  BY DEF RenameEntries
<1> HIDE DEF after
<1>3. \A x : Renamed(x, NoAlias, NoAlias) = x
  BY DEF Renamed
<1>4. ASSUME NEW i \in DOMAIN list, NEW c \in Instances(list[i])
      PROVE  IdOf(after[i], c) = IdOf(list[i], c) /\ IdOf(list[i], c) # NoAlias
  <2>1. IdOf(list[i], c) \in Id
    BY <1>1, IdOfFacts
  <2>2. QED
    BY <1>1, <2>1, NoAliasAssumption DEF IdOf
<1>5. Relabels(list, after, NoAlias, NoAlias)
  BY <1>1, <1>2, <1>3, <1>4 DEF Relabels
<1>6. NoTemplates(after)
  BY <1>1, <1>2 DEF NoTemplates
<1>7. Fresh(list, NoAlias, NoAlias)
  BY <1>1, NoAliasAssumption DEF Fresh, Entry
<1>8. QED
  BY <1>5, <1>6, <1>7, RelabelingKeepsWires DEF after

\* Renaming a job, in a list of either kind.
LEMMA RenameJobKeepsWires ==
    ASSUME TypeOK, NEW l \in Lists, UniqueIds(lists[l]), NoTemplates(lists[l]),
           l \in Groups => NoAliasIn(lists[l]),
           NEW j \in Names, NEW k \in Names, RenameJob(j, k),
           ~Mentions(lists[l], Bare(k)), NotAMatrix(lists[l], PositionsOf(l, j))
    PROVE  UniqueIds(lists'[l]) /\ Wires(lists'[l]) = Wires(lists[l])
<1> DEFINE list == lists[l]
           both == RenameRequires(RenameEntries(list, j, k), Bare(j), Bare(k))
           Own == \A i \in DOMAIN list : \A c \in Instances(list[i]) :
                     IdOf(list[i], c) = Bare(j) => list[i].job = j /\ list[i].alias = NoAlias
<1>1. IsList(list) /\ \A i \in DOMAIN list : list[i] \in Entry
  BY ListDomain DEF TypeOK, AreLists
<1>2. \A i \in DOMAIN list : list[i].job = j => list[i].combos = {}
  BY DEF NotAMatrix, PositionsOf
<1>3. lists'[l] = IF l \in Groups \/ ShouldRenameRequires(list, j)
                  THEN both ELSE RenameEntries(list, j, k)
  BY DEF RenameJob, RenameIn, RenameInGroup
<1> DEFINE after == lists'[l]
<1> HIDE DEF list, after
<1>4. \A i \in DOMAIN list : \A c \in Instances(list[i]) :
        /\ Node(list, i, c) \in Nodes(list) /\ Node(list, i, c).id = IdOf(list[i], c)
        /\ Node(list, i, c).job = list[i].job
        /\ Node(list, i, c).aliased <=> (list[i].alias # NoAlias \/ c # Plain)
  <2>1. ASSUME NEW i \in DOMAIN list, NEW c \in Instances(list[i])
        PROVE  /\ Node(list, i, c) \in Nodes(list) /\ Node(list, i, c).id = IdOf(list[i], c)
               /\ Node(list, i, c).job = list[i].job
    BY NodesByPlace, NodeFields
  <2>2. ASSUME NEW i \in DOMAIN list, NEW c \in Instances(list[i])
        PROVE  Node(list, i, c).aliased <=> (list[i].alias # NoAlias \/ c # Plain)
    BY Zenon DEF Node
  <2>3. QED
    BY <2>1, <2>2, Zenon
<1>5. ASSUME Own, Fresh(list, Bare(j), Bare(k))
      PROVE  UniqueIds(both) /\ Wires(both) = Wires(list)
  <2>1. Relabels(list, both, Bare(j), Bare(k)) /\ NoTemplates(both)
    BY <1>1, <1>2, <1>5, RenamingRelabels DEF list
  <2> HIDE DEF both
  <2>2. QED
    BY <1>5, <2>1, RelabelingKeepsWires DEF list
<1>6. CASE l \in Groups
  <2>1. \A i \in DOMAIN list : list[i].alias = NoAlias /\ list[i].combos = {}
    BY <1>6 DEF NoAliasIn, list
  <2>2. Own
    BY <1>1, <2>1, IdOfFacts DEF Bare
  <2>3. Fresh(list, Bare(j), Bare(k))
    BY <2>1 DEF Fresh, list
  <2>4. QED
    BY <1>3, <1>5, <1>6, <2>2, <2>3 DEF list
<1>7. CASE l \notin Groups /\ ShouldRenameRequires(list, j)
  <2>1. /\ Bare(j) \in Ids(list)
        /\ \A n \in Nodes(list) : n.id = Bare(j) => n.job = j /\ ~n.aliased
    BY <1>7 DEF ShouldRenameRequires, Ids
  <2>2. Own
    BY <1>4, <2>1, Zenon
  <2>3. Fresh(list, Bare(j), Bare(k))
    BY <2>1 DEF Fresh, list
  <2>4. QED
    BY <1>3, <1>5, <1>7, <2>2, <2>3 DEF list
<1>8. CASE l \notin Groups /\ ~ShouldRenameRequires(list, j)
  <2>1. ASSUME NEW i \in DOMAIN list, list[i].job = j, list[i].alias = NoAlias
        PROVE  FALSE
    <3> DEFINE n == Node(list, i, Plain)
    <3>1. Plain \in Instances(list[i]) /\ IdOf(list[i], Plain) = Bare(j)
      BY <1>2, <2>1 DEF Instances, IdOf, Bare
    <3>2. n \in Nodes(list) /\ n.id = Bare(j) /\ n.job = j /\ ~n.aliased
      BY <1>4, <2>1, <3>1, Zenon
    <3> HIDE DEF n
    <3>3. \A m \in Nodes(list) : m.id = Bare(j) => m = n
      BY <3>2 DEF UniqueIds, list
    <3>4. ShouldRenameRequires(list, j)
      BY <3>2, <3>3, Zenon DEF ShouldRenameRequires
    <3>5. QED
      BY <1>8, <3>4
  <2>2. lists'[l] = RenameEntries(list, j, k)
    BY <1>3, <1>8
  <2>3. QED
    BY <1>1, <1>2, <2>1, <2>2, RenamingUnderAliases DEF list
<1>9. QED
  BY <1>6, <1>7, <1>8 DEF list

\* Giving an entry of a workflow another alias, in that workflow.
LEMMA AliasRelabels ==
    ASSUME NEW list, IsList(list), NoTemplates(list), UniqueIds(list),
           NEW id \in Ids(list), NEW alias \in Id, alias[2] # Each, ~Mentions(list, alias),
           list[Target(list, id).pos].combos = {}, NEW key,
           key = (IF alias = Bare(Target(list, id).job) THEN NoAlias ELSE alias)
    PROVE  LET after == RenameRequires([list EXCEPT ![Target(list, id).pos].alias = key], id, alias)
           IN  UniqueIds(after) /\ Wires(after) = Wires(list)
<1> DEFINE target == Target(list, id)
           p == target.pos
           named == [list EXCEPT ![p].alias = key]
           after == RenameRequires(named, id, alias)
<1>1. /\ target \in Nodes(list) /\ target.id = id /\ p \in DOMAIN list
      /\ target.at \in Instances(list[p]) /\ target = Node(list, p, target.at)
  BY TargetIsANode, NodesByPlace
<1>2. target.at = Plain /\ target.job = list[p].job /\ IdOf(list[p], Plain) = id
  <2>1. target.at = Plain
    BY <1>1 DEF Instances
  <2>2. QED
    BY <1>1, <2>1, NodeFields
<1>3. key = (IF alias = Bare(list[p].job) THEN NoAlias ELSE alias) /\ list[p].combos = {}
  BY <1>2
<1>4. key \in Id \cup {NoAlias}
  BY <1>3
<1> HIDE DEF target, p
<1>5. \A i \in DOMAIN list : list[i] \in Entry
  BY ListDomain
<1>6. named = [i \in DOMAIN list |->
                 IF i = p THEN [list[p] EXCEPT !.alias = key] ELSE list[i]]
  BY <1>1, ListDomain
<1>7. ASSUME NEW i \in DOMAIN list
      PROVE  /\ named[i] \in Entry
             /\ named[i].job = list[i].job
             /\ named[i].alias = (IF i = p THEN key ELSE list[i].alias)
             /\ named[i].combos = list[i].combos
             /\ named[i].requires = list[i].requires
  <2>1. CASE i = p
    BY <1>4, <1>5, <1>6, <2>1 DEF Entry
  <2>2. CASE i # p
    BY <1>5, <1>6, <2>2
  <2>3. QED
    BY <2>1, <2>2
<1>8. DOMAIN named = DOMAIN list /\ IsList(named)
  BY <1>6, <1>7, ListDomain
<1> HIDE DEF named
<1>9. ASSUME NEW i \in DOMAIN list
      PROVE  /\ after[i].job = list[i].job
             /\ after[i].alias = (IF i = p THEN key ELSE list[i].alias)
             /\ after[i].combos = list[i].combos
             /\ \A r : r \in after[i].requires <=>
                   \E q \in list[i].requires : r = Renamed(q, id, alias)
  BY <1>7, <1>8, RenamedRequires
<1>10. DOMAIN after = DOMAIN list
  BY <1>8 DEF RenameRequires
<1> HIDE DEF after
<1>11. ASSUME NEW i \in DOMAIN list, NEW c \in Instances(list[i])
       PROVE  IdOf(after[i], c) = Renamed(IdOf(list[i], c), id, alias)
  <2>1. CASE i = p
    <3>1. c = Plain
      BY <1>3, <2>1 DEF Instances
    <3>2. IdOf(after[i], c) = alias
      BY <1>3, <1>9, <2>1, <3>1, NoAliasAssumption DEF IdOf, Bare, Substitute
    <3>3. QED
      BY <1>2, <2>1, <3>1, <3>2 DEF Renamed
  <2>2. CASE i # p
    <3>1. IdOf(after[i], c) = IdOf(list[i], c)
      BY <1>9, <2>2 DEF IdOf
    <3>2. Node(list, i, c) \in Nodes(list) /\ Node(list, i, c).pos = i
             /\ Node(list, i, c).id = IdOf(list[i], c)
      BY NodesByPlace, NodeFields
    <3>3. IdOf(list[i], c) # id
      BY <1>1, <2>2, <3>2 DEF UniqueIds, p
    <3>4. QED
      BY <3>1, <3>3 DEF Renamed
  <2>3. QED
    BY <2>1, <2>2
<1>12. ASSUME NEW i \in DOMAIN list, NEW c \in Instances(list[i]), list[i].combos # {}
       PROVE  IdOf(list[i], c) # id
  <2>1. Node(list, i, c) \in Nodes(list) /\ Node(list, i, c).pos = i
           /\ Node(list, i, c).id = IdOf(list[i], c)
    BY NodesByPlace, NodeFields
  <2>2. i # p
    BY <1>3, <1>12
  <2>3. QED
    BY <1>1, <2>1, <2>2 DEF UniqueIds, p
<1>13. Relabels(list, after, id, alias)
  BY <1>9, <1>10, <1>11, <1>12 DEF Relabels
<1>14. NoTemplates(after)
  BY <1>9, <1>10 DEF NoTemplates, Renamed
<1>15. Fresh(list, id, alias)
  BY DEF Fresh
<1>16. QED
  <2>1. UniqueIds(after) /\ Wires(after) = Wires(list)
    BY <1>13, <1>14, <1>15, RelabelingKeepsWires
  <2>2. QED
    BY <2>1 DEF after, named, p, target

\* The same, seen in every list.
LEMMA SetAliasKeepsWires ==
    ASSUME TypeOK, NEW l \in Lists, UniqueIds(lists[l]), NoTemplates(lists[l]),
           NEW w \in Workflows, NEW alias \in Typed, NEW id \in Ids(lists[w]),
           SetAlias(w, id, alias), alias[2] # Each, ~Mentions(lists[w], alias),
           NotAMatrix(lists[w], {Target(lists[w], id).pos})
    PROVE  UniqueIds(lists'[l]) /\ Wires(lists'[l]) = Wires(lists[l])
<1> DEFINE list == lists[w]
           key == IF alias = Bare(Target(list, id).job) THEN NoAlias ELSE alias
           after == RenameRequires([list EXCEPT ![Target(list, id).pos].alias = key], id, alias)
<1>1. w \in Lists /\ IsList(list) /\ alias \in Id /\ alias # NoAlias
  BY TypedAssumption, NoAliasAssumption DEF TypeOK, AreLists, Lists
<1>2. lists' = [lists EXCEPT ![w] = after]
  BY <1>1 DEF SetAlias
<1>3. CASE w = l
  <2>1. list[Target(list, id).pos].combos = {}
    BY DEF NotAMatrix
  <2>2. UniqueIds(after) /\ Wires(after) = Wires(list)
    BY <1>1, <1>3, <2>1, AliasRelabels
  <2> HIDE DEF after
  <2>3. lists'[l] = after
    BY <1>1, <1>2, <1>3 DEF TypeOK, AreLists
  <2>4. QED
    BY <1>3, <2>2, <2>3
<1>4. CASE w # l
  <2> HIDE DEF after
  <2>1. lists'[l] = lists[l]
    BY <1>1, <1>2, <1>4 DEF TypeOK, AreLists
  <2>2. QED
    BY <2>1
<1>5. QED
  BY <1>3, <1>4

\* Renaming a job, or giving an entry another alias, leaves every wire where it
\* was and every id unique, in workflows and groups of any size, whether the
\* name is the job's own or another job's alias owns it (configMutations.ts:899-999
\* and setWorkflowJobEntryAlias).
THEOREM RenamingsKeepWires == Spec => RenamingKeepsTheWires
<1>1. TypeOK /\ [Next]_vars =>
        [\A l \in Lists :
            UniqueIds(lists[l]) /\ NoTemplates(lists[l])
                /\ (l \in Groups => NoAliasIn(lists[l]))
            => /\ \A j, k \in Names :
                     RenameJob(j, k) /\ ~Mentions(lists[l], Bare(k))
                         /\ NotAMatrix(lists[l], PositionsOf(l, j))
                     => UniqueIds(lists'[l]) /\ Wires(lists'[l]) = Wires(lists[l])
               /\ \A w \in Workflows, alias \in Typed : \A id \in Ids(lists[w]) :
                     SetAlias(w, id, alias) /\ alias[2] # Each /\ ~Mentions(lists[w], alias)
                         /\ NotAMatrix(lists[w], {Target(lists[w], id).pos})
                     => UniqueIds(lists'[l]) /\ Wires(lists'[l]) = Wires(lists[l])]_vars
  BY RenameJobKeepsWires, SetAliasKeepsWires
<1>2. QED
  BY InitTypes, NextTypes, <1>1, PTL DEF Spec, RenamingKeepsTheWires

=============================================================================
