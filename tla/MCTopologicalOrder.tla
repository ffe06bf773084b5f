-------------------------- MODULE MCTopologicalOrder --------------------------
(***************************************************************************)
(* TopologicalOrder for TLC: every list of up to four of the edges below   *)
(* over node lists in which d may be missing and a may repeat -- chains,   *)
(* diamonds, cycles, self loops, repeated and dangling edges.              *)
(***************************************************************************)
EXTENDS TopologicalOrder

MCNetwork == [x \in {} |-> {}]

MCNodeLists ==
    {<<>>, <<"c", "a">>, <<"a", "b", "c">>, <<"d", "c", "b", "a">>, <<"a", "b", "a">>}

MCEdges == {Edge("a", "b"), Edge("b", "c"), Edge("a", "c"), Edge("c", "a"),
            Edge("b", "a"), Edge("a", "a"), Edge("c", "d"), Edge("b", "d")}

MCEdgeLists == UNION {[1 .. n -> MCEdges] : n \in 0 .. 4}
=============================================================================
