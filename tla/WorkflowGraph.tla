--------------------------- MODULE WorkflowGraph ---------------------------
(***************************************************************************)
(* The dependency graph of one `jobs:` list of a config, a workflow's or a *)
(* job group's: web/src/lib/graph/buildGraph.ts, with the matrix expansion *)
(* of web/src/lib/yaml/matrixExpansion.ts.  configMutations.readEntries is *)
(* the same reading made by the editing side.                              *)
(*                                                                         *)
(* A list is a function from positions to entries.  Deleting an entry      *)
(* leaves the others at their positions, so a position names one entry for *)
(* good; only the order of positions means anything.                       *)
(*                                                                         *)
(* An id is a name and what follows it: Plain for the bare name, a         *)
(* combination c for the name CircleCI gives one instance of a matrix      *)
(* (`build-1`), Each for a template still to be filled in                  *)
(* (`build-<< matrix.p >>`).  Left out: status lists on requirements, the  *)
(* order and the repetitions inside one `requires:`, `matrix.alias`, a     *)
(* matrix that expands to nothing, and every other option of an entry.     *)
(***************************************************************************)
EXTENDS Integers

CONSTANTS
    Names,        \* names a job, an alias or a job group may have
    Combos,       \* parameter combinations a matrix may expand to
    Positions,    \* bound: places in one jobs: list
    NoAlias

ASSUME CombosAssumption == Combos \subseteq Nat \ {0}

ASSUME PositionsAssumption == Positions \subseteq Nat

Plain == 0
Each == -1

Id == Names \X (Combos \cup {Plain, Each})

ASSUME NoAliasAssumption == NoAlias \notin Id

\* One item of a jobs: list.
Entry == [job : Names,                   \* the job, orb job or group invoked
          alias : Id \cup {NoAlias},     \* name:
          combos : SUBSET Combos,        \* what matrix: expands to
          requires : SUBSET Id]

IsList(list) == \E P \in SUBSET Positions : list \in [P -> Entry]

Bare(name) == <<name, Plain>>

----------------------------------------------------------------------------
(* Nodes: one per entry, or one per combination of a matrix entry.         *)

Instances(e) == IF e.combos = {} THEN {Plain} ELSE e.combos

\* substituteMatrixTemplate
Substitute(id, c) == IF id[2] = Each /\ c # Plain THEN <<id[1], c>> ELSE id

\* The entry's alias with its template filled in, else the default name.
IdOf(e, c) == IF e.alias = NoAlias THEN <<e.job, c>> ELSE Substitute(e.alias, c)

Node(list, i, c) ==
    [pos |-> i, at |-> c, id |-> IdOf(list[i], c), job |-> list[i].job,
     aliased |-> list[i].alias # NoAlias \/ c # Plain,
     matrix |-> list[i].combos # {},
     requires |-> {Substitute(r, c) : r \in list[i].requires}]

Nodes(list) ==
    UNION {{Node(list, i, c) : c \in Instances(list[i])} : i \in DOMAIN list}

Ids(list) == {n.id : n \in Nodes(list)}

----------------------------------------------------------------------------
(* Edges, from the required id to the requiring one.                       *)

\* The bare name of a matrix job that no node has as its id stands for every
\* instance of the matrix.
FanOut(list, r) == {n.id : n \in {m \in Nodes(list) : m.matrix /\ Bare(m.job) = r}}

Resolve(list, r) == IF r \in Ids(list) THEN {r} ELSE FanOut(list, r)

\* A requirement nothing answers is drawn from a placeholder of that id.
Sources(list, r) == IF Resolve(list, r) = {} THEN {r} ELSE Resolve(list, r)

Edges(list) ==
    UNION {UNION {{<<s, n.id>> : s \in Sources(list, r)} : r \in n.requires}
           : n \in Nodes(list)}

Dangling(list) ==
    UNION {{r \in n.requires : Resolve(list, r) = {}} : n \in Nodes(list)}

\* detectCycles: a relation without a cycle is one where every nonempty set
\* of vertices has a member with no predecessor in the set.
Acyclic(edges) ==
    LET vertices == {e[1] : e \in edges} \cup {e[2] : e \in edges}
    IN  \A V \in SUBSET vertices :
            V # {} => \E v \in V : \A u \in V : <<u, v>> \notin edges

============================================================================
