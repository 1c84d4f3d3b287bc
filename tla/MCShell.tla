------------------------------ MODULE MCShell -------------------------------
(* One module with one resource, a page of every type of route, and an
   address that is not of the form of a route. *)
EXTENDS Shell

MCListings == {<<"m", "r">>}

MCSegments == {"m", "r", "1", "create", "edit", "x"}

MCPaths == MCListings \cup {<<>>, <<"m">>, <<"m", "r", "create">>, <<"m", "r", "1">>,
                             <<"m", "r", "1", "edit">>, <<"m", "r", "1", "x">>}
=============================================================================
