---------------------------- MODULE MCMirAssembly ----------------------------
(* Programs of an entry point, a function, a constant and a variable.      *)
EXTENDS MirAssembly, TLC

Pkg == Named("LOAD_IDENT", "pkg")
Qual(x) == <<Pkg, Named("AGG_GET", x)>>
Load(x) == <<Named("LOAD_IDENT", x)>>
Call(x) == <<Named("CALL", x)>>
Return == <<Plain("RETURN")>>
Refs(f) == {Qual(x) : x \in {f, "c", "v"}} \cup {Load(x) : x \in {f, "c", "v"}}
           \cup {Call(f), Call("a")}

World(root, main, f, g, c, v, refused) ==
    [functions |-> {"main", "f", "g"}, consts |-> {"c"}, vars |-> {"v"}, imports |-> {"pkg"},
     alias |-> ("a" :> "f"), root |-> root, refused |-> refused,
     code |-> ("main" :> main \o Return @@ "f" :> f \o Return @@ "g" :> g \o Return
               @@ "c" :> c \o Return @@ "v" :> v \o Return)]

\* A function that is given up while another one calls it, and a root that is.
GivenUpWorlds ==
    { World("main", Qual("v") \o Call("g"), Call("g") \o Load("c"), Call("f"), <<>>, Call("f"), refused) :
        refused \in {{"c"}, {"main"}} }

\* Branches in a function that moves, before, over and behind a qualified name.
Branch(op, to) == <<[Plain(op) EXCEPT !.num = to]>>
Field(x) == <<Named("LOAD_IDENT", "p"), Named("AGG_GET", x)>>
FieldWorlds == { World("main", Call("f") \o Field("c"), Field("f") \o Qual("c") \o Call("host") \o Field("v"), <<>>, Qual("v") \o Field("v"), <<>>, {}) }
JumpWorlds ==
    { World("main", main, s \o Qual("c"), <<>>, <<>>, <<>>, {}) :
        main \in { Call("f") \o Qual("c"), Qual("f"), Qual("c") \o Load("f") \o Qual("f") },
        s \in { Branch("JUMP_IF_FALSE", 2) \o Load("c"), Branch("JUMP_IF_FALSE", 3),
                Load("c") \o Branch("JUMP", 1), Qual("c") \o Branch("JUMP", 5) } }

\* Two references in the root, one in each other item.
MCWorlds ==
    FieldWorlds \cup JumpWorlds \cup GivenUpWorlds \cup
    { World("main", main, f, <<>>, c, v, refused) :
        main \in {s \o t : s, t \in Refs("f")},
        f \in {<<>>} \cup Refs("main"),
        c \in {<<>>, Call("f")},
        v \in {<<>>, Qual("c"), Load("v"), Call("f")},
        refused \in {{}, {"f"}, {"c"}, {"v"}} }
    \cup
    { World("v", <<>>, f, <<>>, c, v, refused) :
        f \in {<<>>} \cup Refs("f"),
        c \in {<<>>, Call("f"), Qual("f")},
        v \in {s \o t : s, t \in Refs("f")},
        refused \in {{}, {"f"}, {"c"}} }

=============================================================================
