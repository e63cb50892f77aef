---------------------------- MODULE MCSyscallFile ----------------------------
(* A volume of two-sector clusters with two intact files, one file whose    *)
(* chain is too short and a deleted one.                                    *)
EXTENDS SyscallFile

Entry(name, first_cluster, size) ==
    [kind |-> "file", name |-> name, first_cluster |-> first_cluster, size |-> size]
Other(kind) == [kind |-> kind, name |-> <<"B", " ", " ">>, first_cluster |-> 0, size |-> 0]

\* Clusters 2 and 3: the root directory; 4, 6: A; 5: AB.B; 7: B, cut short.
MCFat == (2 :> 3) @@ (3 :> 20) @@ (4 :> 6) @@ (5 :> 20) @@ (6 :> 20) @@ (7 :> 1)

\* A has a full cluster and part of a sector.
MCRootDir ==
    (10 :> <<Other("label"), Other("lfn")>>) @@ (11 :> <<Entry(<<"A", " ", " ">>, 4, 5)>>)
    @@ (12 :> <<Other("deleted"), Entry(<<"A", "B", "B">>, 5, 1)>>)
    @@ (13 :> <<Entry(<<"B", " ", " ">>, 7, 5), Other("end")>>)

MCPaths == {<<"a">>, <<"a", "B", ".", "b">>, <<"B">>, <<"a", "b">>,
            <<"a", "b", "a">>, <<".", "a">>, <<"a", ".", "a", ".">>, <<>>}
MCBuffers == {<<>>, <<0, 1, 0>>}
=============================================================================
