---------------------------- MODULE MCPkgLoader ----------------------------
(* Every import graph over three packages, their platform and a library,   *)
(* for a table of two entries that moves when it grows.                    *)
EXTENDS PkgLoader

App == <<"src", "app">>
A == <<"src", "a">>
B == <<"src", "b">>
Builtin == <<"usr", "lib", "builtin">>
Plat == <<"usr", "lib", "platform", "p">>
Generic == <<"usr", "lib", "platform">>

Tree == {App, A, B, Builtin, Plat, Generic}
Files(app, a, b, plat) ==
    (App :> app) @@ (A :> a) @@ (B :> b) @@ (Plat :> plat)
    @@ (Builtin :> << >>) @@ (Generic :> << >>)

World(single, app, a, b, plat, broken, invalid) ==
    [tree |-> Tree, imports |-> Files(IF single THEN <<  <<"a">>  >> ELSE app, a, b, plat),
     entry |-> App, single |-> single, entryImports |-> app,
     exeDir |-> <<"usr">>, platform |-> "p", broken |-> broken, invalid |-> invalid]

\* Import lists of at most two paths.
Lists == SeqOf({ <<"app">>, <<"a">>, <<"b">> }, 2)

\* Cycles, diamonds and chains, broken and refused packages.
GraphWorlds ==
    { World(single, app, a, b, plat, {}, {}) :
        single \in BOOLEAN, app \in Lists \ {<< >>}, a \in Lists, b \in Lists,
        plat \in { << >>, << <<"b">> >> } }
    \cup { World(FALSE, << <<"a">>, <<"platform">>, <<"builtin">> >>, << <<"b">> >>, << >>, << >>,
                 broken, invalid) : broken \in {{}, {A}, {App}, {Plat}}, invalid \in {{}, {B}} }
    \cup { World(TRUE, << <<"a">>, <<"platform", "p">> >>, << <<"none">> >>, << >>, << <<"a">> >>, broken, {}) :
                 broken \in {{}, {App}} }
    \cup { World(single, << <<"a">> >>, << <<"b">> >>, << >>, << >>, {B}, {}) : single \in BOOLEAN }

\* Imports of the platform, of a library and of nothing.
OtherWorlds ==
    { World(single, app, a, b, << >>, {}, {}) :
        single \in BOOLEAN, app \in { << >>, << <<"a">>, <<"b">> >> },
        a \in { << >>, << <<"b">>, <<"platform">> >>, << <<"app">> >> },
        b \in { << >>, << <<"platform", "p">> >>, << <<"none">> >> } }

MCWorlds == GraphWorlds \cup OtherWorlds

\* Files named on the command line, with a directory of the imported name both
\* next to them and next to their directory.
RootWorlds ==
    { [World(TRUE, << <<"a">> >>, << >>, << >>, << >>, {}, {}) EXCEPT
          !.tree = @ \cup {App \o <<"a">>},
          !.imports = @ @@ ((App \o <<"a">>) :> << >>)] }
=============================================================================
