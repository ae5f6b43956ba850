---------------------------- MODULE MC_OrbBrowser ----------------------------
(* Three orbs, one of them with two versions; one search finds all three.    *)
EXTENDS OrbBrowser

CONSTANTS q, r, all, private, x, y, z, x1, x2, y1, z1

SomeNameOf == [v \in Versions |-> CASE v = y1 -> y [] v = z1 -> z [] OTHER -> x]

SomeFound == [s \in Queries \X Filters |->
    CASE s = <<q, all>> -> <<x2, y1, z1>>
      [] s = <<r, all>> -> <<y1>>
      [] s = <<q, private>> -> <<y1, x2>>
      [] OTHER -> <<>>]
=============================================================================
