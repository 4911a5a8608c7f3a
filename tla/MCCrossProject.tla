--------------------------- MODULE MCCrossProject ---------------------------
(* Instances of CrossProject: two requests, of one process or of two, for two *)
(* versions of the asset char and, unless Refs leaves them out, an asset      *)
(* char/x in its directory and an asset char2, whose path only begins like    *)
(* it.  The project uses one version of char, and char/x or the other one.    *)
EXTENDS CrossProject, TLC

CONSTANTS c1, c2, p1, p2, f1, f2

MCOrder == SelectSeq(<<"char#v1", "char#v2", "char/x", "char2">>, LAMBDA r : r \in Refs)
MCUsed == <<"char#v1", "char/x">>
MCVersions == <<"char#v1", "char#v2">>
MCAssetOf == [r \in Refs |-> IF r \in {"char#v1", "char#v2"} THEN "char" ELSE r]
MCWithin == [r \in Refs |-> IF MCAssetOf[r] = "char" THEN Refs \ {"char2"} ELSE {r}]
MCPrefixed == [r \in Refs |-> IF MCAssetOf[r] = "char" THEN Refs ELSE {r}]

MCSymmetry == Permutations(Clients) \cup Permutations(Processes) \cup Permutations(Files)
=============================================================================
