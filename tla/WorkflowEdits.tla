--------------------------- MODULE WorkflowEdits ---------------------------
(***************************************************************************)
(* The structured edits of a config's jobs and of who requires whom:       *)
(* web/src/lib/mutations/configMutations.ts, with the prompts that         *)
(* announce a rename or a delete, jobReferences.ts beside it.              *)
(*                                                                         *)
(* An action is one call handed to the editing session's `mutate`: by the  *)
(* canvas, the inspector, the palette, the orb browser or an approved      *)
(* proposal of the assistant.  A call that throws changes nothing, so its  *)
(* throws are guards.  Left out: YAML anchors, which make a delete throw,  *)
(* and the edits inside a job (executor, steps, parameters).               *)
(***************************************************************************)
EXTENDS WorkflowGraph

CONSTANTS
    Workflows,
    Groups,       \* job groups
    Configs,      \* configs a session may open with: [jobs, lists]
    Typed         \* bound: ids a user or the assistant makes up

Lists == Workflows \cup Groups

ASSUME ListsAssumption == Workflows \cap Groups = {}

AreLists(f) == f = [l \in Lists |-> f[l]] /\ \A l \in Lists : IsList(f[l])

ASSUME ConfigsAssumption ==
    \A config \in Configs : config.jobs \subseteq Names /\ AreLists(config.lists)

ASSUME TypedAssumption == Typed \subseteq Id

VARIABLES
    jobs,         \* the keys of jobs:
    lists         \* the jobs: list of every workflow and every job group

vars == <<jobs, lists>>

TypeOK ==
    /\ jobs \subseteq Names
    /\ AreLists(lists)

Init == \E config \in Configs : jobs = config.jobs /\ lists = config.lists

----------------------------------------------------------------------------
(* The pieces the edits are made of.                                       *)

Drop(list, P) == [i \in DOMAIN list \ P |-> list[i]]

\* pruneRequiresIds
Prune(list, ids) ==
    [i \in DOMAIN list |-> [list[i] EXCEPT !.requires = @ \ ids]]

\* renameRequiresReferences
RenameRequires(list, old, new) ==
    [i \in DOMAIN list |-> [list[i] EXCEPT
        !.requires = {IF r = old THEN new ELSE r : r \in @}]]

\* renameEntryNames
RenameEntries(list, old, new) ==
    [i \in DOMAIN list |-> [list[i] EXCEPT !.job = IF @ = old THEN new ELSE @]]

\* The position a push fills: the first after every entry, if the bound
\* leaves one.
End(list) ==
    {p \in Positions :
        /\ \A i \in DOMAIN list : i < p
        /\ \A q \in Positions : (\A i \in DOMAIN list : i < q) => p <= q}

Push(list, p, e) == [i \in DOMAIN list \cup {p} |-> IF i = p THEN e ELSE list[i]]

BareEntry(j) == [job |-> j, alias |-> NoAlias, combos |-> {}, requires |-> {}]

\* entries.find: the first node with this id.
Target(list, id) ==
    CHOOSE n \in Nodes(list) :
        /\ n.id = id
        /\ \A m \in Nodes(list) : m.id = id =>
              m.pos > n.pos \/ (m.pos = n.pos /\ m.at >= n.at)

----------------------------------------------------------------------------
(* Jobs.                                                                   *)

\* addJob and addJobFromExecutor; `into` holds the workflow, or nothing.
AddJob(j, into) ==
    /\ j \notin jobs
    /\ jobs' = jobs \cup {j}
    /\ \E p \in Positions :
        /\ \A w \in into : p \in End(lists[w])
        /\ lists' = [l \in Lists |-> IF l \in into
                        THEN Push(lists[l], p, BareEntry(j)) ELSE lists[l]]

NodesOf(list, j) == {n \in Nodes(list) : n.job = j}

\* A workflow loses the job's entries and every id they answered to.
DeleteFrom(list, j) ==
    LET mine == NodesOf(list, j)
    IN  Prune(Drop(list, {n.pos : n \in mine}), {n.id : n \in mine})

\* deleteJobFromGroups: a group loses the entries, and the bare name only.
DeleteFromGroup(list, j) ==
    LET mine == {i \in DOMAIN list : list[i].job = j}
    IN  IF mine = {} THEN list ELSE Prune(Drop(list, mine), {Bare(j)})

DeleteJob(j) ==
    /\ j \in jobs
    /\ jobs' = jobs \ {j}
    /\ lists' = [l \in Lists |-> IF l \in Groups
                    THEN DeleteFromGroup(lists[l], j)
                    ELSE DeleteFrom(lists[l], j)]

\* Mutant: every workflow that has the name is rewritten.
RenameWhereverClaimed(list, j) == Bare(j) \in Ids(list)

\* In this workflow, a requirement on the bare name means the job j.
ShouldRenameRequires(list, j) ==
    LET claimants == {n \in Nodes(list) : n.id = Bare(j)}
    IN  claimants # {} /\ \A n \in claimants : n.job = j /\ ~n.aliased

RenameIn(list, j, k) ==
    IF ShouldRenameRequires(list, j)
    THEN RenameRequires(RenameEntries(list, j, k), Bare(j), Bare(k))
    ELSE RenameEntries(list, j, k)

RenameInGroup(list, j, k) ==
    RenameRequires(RenameEntries(list, j, k), Bare(j), Bare(k))

RenameJob(j, k) ==
    /\ j \in jobs
    /\ k \notin jobs
    /\ jobs' = (jobs \ {j}) \cup {k}
    /\ lists' = [l \in Lists |-> IF l \in Groups
                    THEN RenameInGroup(lists[l], j, k)
                    ELSE RenameIn(lists[l], j, k)]

----------------------------------------------------------------------------
(* Entries of a workflow.                                                  *)

\* addWorkflowJobEntry, and insertOrbJob for a job no jobs: key defines.
AddEntry(w, j, alias, requires) ==
    /\ \E p \in End(lists[w]) :
         lists' = [lists EXCEPT ![w] = Push(@, p,
             [BareEntry(j) EXCEPT !.alias = alias, !.requires = requires])]
    /\ UNCHANGED jobs

\* Mutant: only the id the user clicked on is pruned.
RemoveEntryOneId(w, id) ==
    /\ id \in Ids(lists[w])
    /\ lists' = [lists EXCEPT
          ![w] = Prune(Drop(@, {Target(lists[w], id).pos}), {id})]
    /\ UNCHANGED jobs

RemoveEntry(w, id) ==
    /\ id \in Ids(lists[w])
    /\ LET i == Target(lists[w], id).pos
           gone == {n.id : n \in {m \in Nodes(lists[w]) : m.pos = i}}
       IN  lists' = [lists EXCEPT ![w] = Prune(Drop(@, {i}), gone)]
    /\ UNCHANGED jobs

\* setWorkflowJobEntryAlias; an empty alias brings the job's name back.
SetAlias(w, id, alias) ==
    /\ id \in Ids(lists[w])
    /\ LET target == Target(lists[w], id)
           newId == IF alias = NoAlias THEN Bare(target.job) ELSE alias
           key == IF newId = Bare(target.job) THEN NoAlias ELSE newId
       IN  /\ newId # id
           /\ \A n \in Nodes(lists[w]) \ {target} : n.id # newId
           /\ lists' = [lists EXCEPT ![w] =
                 RenameRequires([@ EXCEPT ![target.pos].alias = key], id, newId)]
    /\ UNCHANGED jobs

----------------------------------------------------------------------------
(* Requirements.                                                           *)

\* buildSuccessors: what comes after a node, matched by id alone.
Follows(list, R) ==
    {n.id : n \in {m \in Nodes(list) : m.requires \cap R # {}}}

\* Mutant: the search starts at the other end.
HasPathBackwards(list, start, goal) ==
    \A R \in SUBSET Ids(list) :
        goal \in R /\ Follows(list, R) \subseteq R => start \in R

\* findPath: every set that holds the start and what follows its members
\* holds the goal.
HasPath(list, start, goal) ==
    \A R \in SUBSET Ids(list) :
        start \in R /\ Follows(list, R) \subseteq R => goal \in R

AddRequire(w, target, source) ==
    /\ {target, source} \subseteq Ids(lists[w])
    /\ target # source
    /\ source \notin Target(lists[w], target).requires
    /\ ~HasPath(lists[w], target, source)
    /\ lists' = [lists EXCEPT
          ![w][Target(lists[w], target).pos].requires = @ \cup {source}]
    /\ UNCHANGED jobs

RemoveRequire(w, target, source) ==
    /\ target \in Ids(lists[w])
    /\ lists' = [lists EXCEPT
          ![w][Target(lists[w], target).pos].requires = @ \ {source}]
    /\ UNCHANGED jobs

----------------------------------------------------------------------------

NewAliases == Typed \cup {NoAlias}
NewRequires == {{}} \cup {{r} : r \in Typed}   \* bound: one per entry added

Next ==
    \/ \E j \in Names, into \in {{}} \cup {{w} : w \in Workflows} : AddJob(j, into)
    \/ \E j \in Names : DeleteJob(j)
    \/ \E j, k \in Names : RenameJob(j, k)
    \/ \E w \in Workflows, j \in Names, alias \in NewAliases,
          requires \in NewRequires : AddEntry(w, j, alias, requires)
    \/ \E w \in Workflows : \E id \in Ids(lists[w]) :
          \/ RemoveEntry(w, id)
          \/ \E alias \in NewAliases : SetAlias(w, id, alias)
          \/ \E source \in Ids(lists[w]) : AddRequire(w, id, source)
          \/ \E source \in Id : RemoveRequire(w, id, source)

Spec == Init /\ [][Next]_vars

----------------------------------------------------------------------------
(* What an edit of one job or entry owes to all the others.                *)

UniqueIds(list) == \A m, n \in Nodes(list) : m.id = n.id => m = n

\* Every requirement is an id some node has: no fan-out, nothing dangling.
Direct(list) == \A i \in DOMAIN list : list[i].requires \subseteq Ids(list)

\* No requirement is a template to be filled in by the matrix that requires it.
NoTemplates(list) ==
    \A i \in DOMAIN list : \A r \in list[i].requires : r[2] # Each

\* Who requires whom, by place in the list: what no renaming may change.
Place(n) == <<n.pos, n.at>>

Wires(list) ==
    LET edges == Edges(list)
    IN  UNION {{<<Place(m), Place(n)>> : m \in {k \in Nodes(list) : <<k.id, n.id>> \in edges}}
               : n \in Nodes(list)}

WiresWithout(list, P) ==
    {e \in Wires(list) : e[1][1] \notin P /\ e[2][1] \notin P}

\* Neither an alias nor a matrix: what a job group's own edits can handle.
NoAliasIn(list) ==
    \A i \in DOMAIN list : list[i].alias = NoAlias /\ list[i].combos = {}

PositionsOf(l, j) == {i \in DOMAIN lists[l] : lists[l][i].job = j}

\* After losing the entries at P, list l has the wires of the others, and
\* nothing in it dangles.
OnlyLoses(l, P) ==
    /\ DOMAIN lists'[l] = DOMAIN lists[l] \ P
    /\ Wires(lists'[l]) = WiresWithout(lists[l], P)
    /\ Dangling(lists'[l]) = {}

\* Deleting a job, or one entry of a workflow, takes away its nodes and the
\* edges at them and nothing else, in every workflow and group, whatever
\* aliases or matrix instances the entries answered to: deleteJob,
\* deleteJobFromGroups and removeWorkflowJobEntry (configMutations.ts:753-858,
\* 1040-1079) must find every requirement on every one of their ids.
RemovalIsExact ==
    [][\A l \in Lists :
        UniqueIds(lists[l]) /\ Direct(lists[l]) /\ NoTemplates(lists[l])
            /\ (l \in Groups => NoAliasIn(lists[l]))
        => /\ \A j \in Names : DeleteJob(j) => OnlyLoses(l, PositionsOf(l, j))
           /\ \A w \in Workflows : \A id \in Ids(lists[w]) : RemoveEntry(w, id) =>
                 OnlyLoses(l, IF w = l THEN {Target(lists[w], id).pos} ELSE {})]_vars

Mentions(list, id) ==
    id \in Ids(list) \/ \E n \in Nodes(list) : id \in n.requires

\* The job's entries in this list have names of their own to go by: the rename
\* does not follow requirements on the instances of a matrix.
NotAMatrix(list, P) == \A i \in P : list[i].combos = {}

\* Renaming a job, or giving an entry another alias, leaves every wire where it
\* was and every id unique, in the workflows where the name is the job's own and
\* in those where another job's alias owns it: renameJob with
\* shouldRenameRequiresIn (configMutations.ts:899-999), setWorkflowJobEntryAlias.
RenamingKeepsTheWires ==
    [][\A l \in Lists :
        UniqueIds(lists[l]) /\ NoTemplates(lists[l])
            /\ (l \in Groups => NoAliasIn(lists[l]))
        => /\ \A j, k \in Names :
                 RenameJob(j, k) /\ ~Mentions(lists[l], Bare(k))
                     /\ NotAMatrix(lists[l], PositionsOf(l, j))
                 => UniqueIds(lists'[l]) /\ Wires(lists'[l]) = Wires(lists[l])
           /\ \A w \in Workflows, alias \in Typed : \A id \in Ids(lists[w]) :
                 SetAlias(w, id, alias) /\ alias[2] # Each /\ ~Mentions(lists[w], alias)
                     /\ NotAMatrix(lists[w], {Target(lists[w], id).pos})
                 => UniqueIds(lists'[l]) /\ Wires(lists'[l]) = Wires(lists[l])]_vars

\* The edges of requirements on a node's own id, as addRequire looks for them.
DirectEdges(list) ==
    UNION {{<<r, n.id>> : r \in n.requires \cap Ids(list)} : n \in Nodes(list)}

\* The edges a new requirement draws beside the one asked for: a matrix entry
\* requires with all its instances.
DrawnBeside(list, target, source) ==
    {<<Substitute(source, n.at), n.id>> :
        n \in {m \in Nodes(list) : m.pos = Target(list, target).pos}}
    \ (DirectEdges(list) \cup {<<source, target>>})

\* Requiring one job from another closes a cycle in a workflow that has none
\* only by way of a matrix: over an edge drawn because a matrix is required as a
\* whole, or over one into another instance of the matrix that requires.
\* addRequire (configMutations.ts:1149-1197) looks for a way round by id and
\* sees neither; every other cycle it refuses.
CyclesCloseOnlyOverAMatrix ==
    [][\A w \in Workflows : \A target, source \in Ids(lists[w]) :
        AddRequire(w, target, source) /\ Acyclic(Edges(lists[w]))
        => Acyclic(DirectEdges(lists'[w]) \ DrawnBeside(lists[w], target, source))]_vars

----------------------------------------------------------------------------
(* The prompts: jobReferences.ts reads the config on its own.              *)

\* parseWorkflowEntries, which knows nothing of matrices.
EntryId(e) == IF e.alias = NoAlias THEN Bare(e.job) ELSE e.alias

\* Mutant: requirements on an alias of the job are not looked for.
ReferencesByName(list, j) ==
    IF \E i \in DOMAIN list : list[i].job = j
    THEN {<<i, Bare(j)>> : i \in {k \in DOMAIN list : Bare(j) \in list[k].requires}}
    ELSE {}

\* findJobReferences: the requirements that name one of the job's entries.
References(list, j) ==
    LET mine == {EntryId(list[i]) : i \in {k \in DOMAIN list : list[k].job = j}}
    IN  UNION {{<<i, r>> : r \in list[i].requires \cap mine} : i \in DOMAIN list}

RewrittenOnRename(list, j) ==
    LET claimants == {i \in DOMAIN list : EntryId(list[i]) = Bare(j)}
    IN  /\ claimants # {}
        /\ \A i \in claimants : list[i].job = j /\ list[i].alias = NoAlias

\* describeRenameImpact and describeDeleteImpact: the requirements the prompt
\* says will change.  A delete's are all of them, those its own entries make
\* included.
RenamePromises(list, j) ==
    {ref \in References(list, j) : ref[2] = Bare(j) /\ RewrittenOnRename(list, j)}

DeletePromises(list, j) == References(list, j)

\* The requirements an edit took from entries that stayed.
Changed(list, after) ==
    UNION {{<<i, r>> : r \in list[i].requires \ after[i].requires} : i \in DOMAIN after}

\* On workflows without a matrix a rename rewrites the requirements its prompt
\* announces and no other, and so does a delete in the entries that stay:
\* jobReferences.ts:91-93, "the prompt must promise the same set of edits the
\* mutation performs, or it is lying".  Of a job with several entries the delete
\* prompt also announces, and counts, what the job's entries require of each
\* other, which goes with them.
PromptsAreHonest ==
    [][\A w \in Workflows :
        NotAMatrix(lists[w], DOMAIN lists[w])
        => \A j \in Names :
              /\ DeleteJob(j) => Changed(lists[w], lists'[w]) =
                    {ref \in DeletePromises(lists[w], j) : ref[1] \in DOMAIN lists'[w]}
              /\ \A k \in Names : RenameJob(j, k) =>
                    Changed(lists[w], lists'[w]) = RenamePromises(lists[w], j)]_vars

============================================================================
