\* Every pair of edits, of every config of MC_WorkflowEdits.
SPECIFICATION ShortSession
CONSTANTS
    a = a
    b = b
    c = c
    w = w
    v = v
    g = g
    Names = {a, b, c}
    Combos = {1, 2}
    Positions = {1, 2, 3, 4}
    NoAlias = NoAlias
    Workflows = {w, v}
    Groups = {g}
    Configs <- SomeConfigs
    Typed <- SomeTyped
    MaxEdits = 2
PROPERTIES
    RemovalIsExact
    RenamingKeepsTheWires
    CyclesCloseOnlyOverAMatrix
    PromptsAreHonest
CHECK_DEADLOCK FALSE
