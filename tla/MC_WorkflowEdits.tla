------------------------- MODULE MC_WorkflowEdits --------------------------
(* Instances of WorkflowEdits for TLC: the configs to open, and sessions   *)
(* of a bounded number of edits.                                           *)
EXTENDS WorkflowEdits

CONSTANTS
    a, b, c,      \* names
    w, v,         \* workflows
    g,            \* a job group
    MaxEdits      \* bound: edits in one session

Job(j) == BareEntry(j)
Needs(j, ids) == [Job(j) EXCEPT !.requires = ids]
Named(j, alias) == [Job(j) EXCEPT !.alias = alias]
Matrix(e) == [e EXCEPT !.combos = Combos]

One(l1) == [l \in Lists |-> IF l = w THEN l1 ELSE <<>>]
Three(l1, l2, l3) == [l \in Lists |->
    IF l = w THEN l1 ELSE IF l = v THEN l2 ELSE l3]

All == {a, b, c}

\* b after a in a workflow and in a group; in another workflow c is called a.
Shared == [jobs |-> {a, b}, lists |-> Three(
    <<Job(a), Needs(b, {Bare(a)})>>,
    <<Named(c, Bare(a)), Needs(b, {Bare(a)})>>,
    <<Job(a), Needs(b, {Bare(a)})>>)]

\* Two entries of one job, one of them aliased, and what requires each.
Twice == [jobs |-> {a, b}, lists |-> One(
    <<Job(a), [Named(a, Bare(c)) EXCEPT !.requires = {Bare(a)}],
      Needs(b, {Bare(a), Bare(c)})>>)]

\* A matrix, required by instance.
Instanced == [jobs |-> {a, b}, lists |-> One(
    <<Matrix(Job(a)), Needs(b, {<<a, k>> : k \in Combos}), Needs(c, {Bare(b)})>>)]

\* A matrix with a templated name, required by a second one combination by
\* combination.
Templated == [jobs |-> {a, b}, lists |-> One(
    <<Matrix(Named(a, <<c, Each>>)), Matrix(Needs(b, {<<c, Each>>}))>>)]

\* A matrix required as a whole.
FannedOut == [jobs |-> {a, b}, lists |-> One(
    <<Matrix(Job(a)), Needs(b, {Bare(a)})>>)]

SomeConfigs == {Shared, Twice, Instanced, Templated, FannedOut}

SomeTyped == {Bare(c), <<a, 1>>}

VARIABLE edits
mcVars == <<vars, edits>>

ShortInit == Init /\ edits = 0
ShortNext == edits < MaxEdits /\ Next /\ edits' = edits + 1
ShortSession == ShortInit /\ [][ShortNext]_mcVars

============================================================================
