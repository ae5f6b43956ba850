-------------------------- MODULE MC_EditorSession --------------------------
(* Instances of EditorSession for TLC: which texts exist and where.        *)
EXTENDS EditorSession, TLC

CONSTANTS a, b,            \* the primary config and a second file
          a1, a2, bad,     \* texts of a; bad does not parse
          b1, b2           \* texts of b

OneFile == [t \in {a1, a2} |-> a]
OneFileBad == [t \in {a1, a2, bad} |-> a]
TwoFilesBad == [t \in {a1, bad, b1} |-> IF t = b1 THEN b ELSE a]
TwoFiles == [t \in {a1, a2, b1, b2} |-> IF t \in {a1, a2} THEN a ELSE b]

=============================================================================
