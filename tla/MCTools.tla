------------------------------ MODULE MCTools ------------------------------
(***************************************************************************)
(* Values for the constants of Tools that a configuration cannot write.    *)
(***************************************************************************)
EXTENDS Tools

Op(name, fit) == [name |-> name, fit |-> fit]

MCSymbol == [map |-> "map", concatMap |-> "mergeMap"]

MCPipelines ==
  {<<>>, <<Op("map", "fine")>>, <<Op("map", "arity")>>,
   <<Op("concatMap", "fine"), Op("map", "fine")>>,
   <<Op("map", "fine"), Op("concatMap", "scheduler")>>,
   <<Op("other", "fine"), Op("map", "fine")>>}

MCHeights == <<5, 6>>

MCTops == <<<<1, 3>>, <<1, 4>>>>
=============================================================================
