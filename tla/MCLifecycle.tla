----------------------------- MODULE MCLifecycle -----------------------------
(* Two ports, the first of which other processes contest, a configuration   *)
(* without a name, and tables with a finished, an unfinished and a repeated *)
(* row.  Three workspaces want two names.                                   *)
EXTENDS Lifecycle, TLC

CONSTANTS low, high, nameless

MCPortOf == (low :> 1) @@ (high :> 2) @@ (nameless :> 1)

Row(n, p) == [name |-> n, path |-> p]
MCTables == {<<>>, <<Row(<<"api">>, "/a")>>,
             <<Row(<<"api">>, "/a"), Row(<<>>, "b")>>,
             <<Row(<<"api">>, "/a"), Row(<<"api">>, "/b")>>}
MCPaths == {"/a", "/b", "/c", "/d"}

Workspace(p, t, b) == [path |-> p, title |-> t, base |-> b]
MCWorkspaces == <<Workspace("/b", <<"api">>, <<"b">>),
                  Workspace("/c", <<"api", 2>>, <<"c">>),
                  Workspace("/d", <<>>, <<>>)>>
==============================================================================
