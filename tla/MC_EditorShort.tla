--------------------------- MODULE MC_EditorShort ---------------------------
(* Sessions of EditorSession with at most MaxMoves user actions, for the   *)
(* instances with two files.  Timers and answers are never limited.        *)
EXTENDS MC_EditorSession

CONSTANT MaxMoves          \* bound: user actions in a session

VARIABLE moves

\* The two texts of a file are alike where no verdict tells them apart.
Alike == Permutations({a1, a2}) \cup Permutations({b1, b2})
         \cup Permutations(PutSlots) \cup Permutations(GetSlots)

ShortInit == Init /\ moves = 0

ShortNext ==
    \/ User /\ moves < MaxMoves /\ moves' = moves + 1
    \/ (Timer \/ Answer) /\ UNCHANGED moves

ShortSession == ShortInit /\ [][ShortNext]_<<vars, moves>>

=============================================================================
