---------------------------- MODULE ImportSurface ----------------------------
(***************************************************************************)
(* What a package is checked and compiled as (src/src/hop_pkg.c).          *)
(*                                                                         *)
(* The checker and the C back end see one file per package.  It is         *)
(* combined from the declarations of the package and from a surface of     *)
(* each package it imports, in which b.x is written b__x.  Two rewritings  *)
(* make it: one walks the tree and replaces the names of named imports     *)
(* (`import "b" { x }`), with shadowing tracked by hand; the other walks   *)
(* the tokens and replaces alias.name, and in a surface every exported     *)
(* name, wherever it stands.                                               *)
(*                                                                         *)
(* Trees and names are those of NameMeaning.                               *)
(***************************************************************************)
EXTENDS NameMeaning

CONSTANT Families   \* sets of workspaces: [order, pkgs]

VARIABLES
    ws,        \* the workspace: pkgs, and order, in which packages finish loading
    at,        \* the package of the step, an index of ws.order
    syms,      \* of each package, its finalized named imports
    pc,        \* the next step
    combined,  \* the text built so far: a sequence of declarations
    emitted,   \* the surfaces in it: a set of [pkg, alias]
    todo       \* the next import, whose surface is appended

vars == <<ws, at, syms, pc, combined, emitted, todo>>

Here == ws.order[at]
Pkg(p) == ws.pkgs[p]
Exports(p) == {d \in ToSet(Pkg(p).decls) : d.pub}
Exported(p, f) == \E d \in Exports(p) : d.n = f
Named(a, f) == a \o <<f>>

(***************************************************************************)
(* The named imports, by the tree.                                         *)
(***************************************************************************)
\* FindImportSymbolBindingIndexBySlice; functions behind a wrapper keep their name.
Binding(ss, n, type) ==
    {s \in ToSet(ss) : <<s.local>> = n /\ s.type = type /\ (type \/ ~s.wrap)}
Qualified(ss, n, type) ==
    LET s == CHOOSE s \in Binding(ss, n, type) : TRUE IN Named(s.alias, s.src)

ByAlias(p, n) == {i \in ToSet(Pkg(p).imps) : i.bind # "" /\ <<i.bind>> = n}

\* CollectTypeNameImportRewritesNode: type names are replaced in any scope.
RECURSIVE NameType(_, _)
NameType(ss, t) ==
    CASE t.k = "name" /\ Binding(ss, t.n, TRUE) # {} -> Id(Qualified(ss, t.n, TRUE))
      [] t.k = "sel" -> [t EXCEPT !.e = NameType(ss, @)]
      [] OTHER -> t

\* The receiver of a field expression that names an imported type.
Receiver(ss, sh, e) ==
    IF e.k = "name" /\ e.n \notin sh /\ Binding(ss, e.n, TRUE) # {}
      THEN Id(Qualified(ss, e.n, TRUE)) ELSE e

\* CollectExprImportRewritesNode in package p, where the names sh are shadowed.
\* Of the parts it does not descend to (on = FALSE) only the types are replaced.
RECURSIVE NameExpr(_, _, _, _, _)
NameExpr(p, ss, sh, on, e) ==
    LET Sub(x) == NameExpr(p, ss, sh, on, x)
        Value(n) == on /\ n \notin sh /\ Binding(ss, n, FALSE) # {}
        Method == /\ e.k = "call" /\ e.e.k = "sel" /\ Value(e.e.f)
                  /\ ~(e.e.e.k = "name" /\ ByAlias(p, e.e.e.n) # {})
    IN  CASE e.k = "name" -> IF Value(e.n) THEN Id(Qualified(ss, e.n, FALSE)) ELSE e
          [] e.k = "sel" ->
               [e EXCEPT !.e = Sub(IF on THEN Receiver(ss, sh, e.e) ELSE e.e)]
          [] e.k = "two" -> [e EXCEPT !.e = Sub(@), !.g = Sub(@)]
          [] e.k = "call" ->
               LET callee == Sub(e.e)
               IN  [e EXCEPT !.as = [i \in DOMAIN @ |-> Sub(@[i])],
                             !.e = IF Method THEN [callee EXCEPT !.f = Qualified(ss, @, FALSE)]
                                   ELSE callee]
          [] e.k = "lit" ->
               [e EXCEPT !.t = NameType(ss, @), !.e = NameExpr(p, ss, sh, FALSE, @)]
          [] OTHER -> e

\* Variant: a declaration does not shadow.
Shadow_Forgotten(sh, s) == sh

\* PushShadow
Shadow(sh, s) == sh \cup {s.n}

\* CollectBlockImportRewritesNode
RECURSIVE NameStmt(_, _, _, _, _), NameBlock(_, _, _, _, _)
NameBlock(p, ss, sh, on, b) ==
    IF b = <<>> THEN <<>>
    ELSE LET s == Head(b)
         IN  <<NameStmt(p, ss, sh, on, s)>>
             \o NameBlock(p, ss, IF s.k = "var" THEN Shadow(sh, s) ELSE sh, on, Tail(b))

\* The names of a loop are shadows in its condition and its body, of a for-in
\* loop in its body; those of a switch in none: its patterns are passed by.
NameLoop(p, ss, sh, on, s) ==
    [s EXCEPT !.e = NameExpr(p, ss, sh, on, @),
              !.g = NameExpr(p, ss, Shadow(sh, s), on, @),
              !.b = NameBlock(p, ss, Shadow(sh, s), on, @)]
NameSwitch(p, ss, sh, on, s) ==
    [s EXCEPT !.e = NameExpr(p, ss, sh, on, @),
              !.g = NameExpr(p, ss, sh, FALSE, @),
              !.b = NameBlock(p, ss, sh, on, @)]

\* CollectStmtImportRewritesNode.  A short declaration is passed by: its value is
\* not rewritten and its name is not pushed as a shadow.
NameStmt(p, ss, sh, on, s) ==
    CASE s.k \in {"for", "in"} -> NameLoop(p, ss, sh, on, s)
      [] s.k = "switch" -> NameSwitch(p, ss, sh, on, s)
      [] s.k = "short" -> [s EXCEPT !.e = NameExpr(p, ss, sh, FALSE, @)]
      [] OTHER -> [s EXCEPT !.e = NameExpr(p, ss, sh, on, @), !.b = NameBlock(p, ss, sh, on, @)]

NameParams(ss, ps) == [i \in DOMAIN ps |-> [ps[i] EXCEPT !.t = NameType(ss, @)]]

\* RewriteDeclTextForNamedImports: bodies and constants, not the values of variables.
NamedImportsIn(p, ss, d) ==
    [d EXCEPT !.ps = NameParams(ss, @),
              !.e = NameExpr(p, ss, {}, d.k = "const", @),
              !.b = NameBlock(p, ss, {x.n : x \in ToSet(d.ps)}, TRUE, @)]

(***************************************************************************)
(* The qualified and the exported names, by the tokens.                    *)
(***************************************************************************)
\* Variant: looked up by the last name of the path.
Import_Path(r, a, f) ==
    {i \in ToSet(r.imps) : /\ i.bind # "" /\ a = <<i.to>> /\ Len(f) = 1
                            /\ Exported(i.to, f[1])}

\* alias.name of an import, if it exports the name; r.imps, of RewriteText's imports.
Import(r, a, f) ==
    {i \in ToSet(r.imps) : /\ i.bind # "" /\ a = <<i.bind>> /\ Len(f) = 1
                            /\ Exported(i.to, f[1])}
Joined(r, a, f) == Named((CHOOSE i \in Import(r, a, f) : TRUE).alias, f[1])

\* FindIdentReplacement: any identifier that reads like a declaration of the surface.
Mapped(r, n) == IF Len(n) = 1 /\ n[1] \in r.names THEN Named(r.alias, n[1]) ELSE n

RECURSIVE Tokens(_, _)
Tokens(r, e) ==
    LET Taken == e.e.k = "sel" /\ e.e.e.k = "name" /\ Import(r, e.e.e.n, e.e.f) # {}
    IN  CASE e.k = "name" -> Id(Mapped(r, e.n))
          [] e.k = "sel" ->
               IF e.e.k = "name" /\ Import(r, e.e.n, e.f) # {} THEN Id(Joined(r, e.e.n, e.f))
               ELSE IF e.e.k = "sel" /\ ~Taken /\ Import(r, e.e.f, e.f) # {}
               THEN [e.e EXCEPT !.e = Tokens(r, @), !.f = Joined(r, @, e.f)]
               ELSE [e EXCEPT !.e = Tokens(r, @), !.f = Mapped(r, @)]
          [] e.k = "two" -> [e EXCEPT !.e = Tokens(r, @), !.g = Tokens(r, @)]
          [] e.k = "call" ->
               [e EXCEPT !.e = Tokens(r, @), !.as = [i \in DOMAIN @ |-> Tokens(r, @[i])]]
          [] e.k = "lit" ->
               [e EXCEPT !.t = Tokens(r, @), !.f = Mapped(r, @), !.e = Tokens(r, @)]
          [] OTHER -> e

RECURSIVE TokensOf(_, _)
TokensOf(r, b) ==
    [i \in DOMAIN b |->
       [b[i] EXCEPT !.n = Mapped(r, @), !.e = Tokens(r, @), !.g = Tokens(r, @),
                    !.b = TokensOf(r, @)]]

\* RewriteText of one declaration.
RewriteText(r, d) ==
    [d EXCEPT !.ps = [i \in DOMAIN @ |-> [n |-> Mapped(r, @[i].n), t |-> Tokens(r, @[i].t)]],
              !.e = Tokens(r, @), !.b = TokensOf(r, @)]

(***************************************************************************)
(* The surfaces.                                                           *)
(***************************************************************************)
\* DupPubDeclText: the body of an exported function stays behind unless the
\* function is generic.
Header(d) == IF d.k = "fn" /\ d.pub /\ ~d.any THEN [d EXCEPT !.b = <<>>, !.body = FALSE] ELSE d

Entry(p, name, d, text) ==
    [name |-> name, ent |-> <<p, d.n>>, from |-> p, d |-> d, text |-> text]

Pub(p) == SelectSeq(Pkg(p).decls, LAMBDA d : d.pub)
Private(p) == SelectSeq(Pkg(p).decls, LAMBDA d : ~d.pub)

\* AppendAliasedPubDecls: p under an alias, its own imports known or not.
AliasedDecls(p, alias, imps, private) ==
    LET own == IF private THEN Private(p) ELSE <<>>
        r == [imps |-> imps, alias |-> alias,
              names |-> {d.n : d \in ToSet(own \o Pub(p))}]
        Exposed(d) == Entry(p, Named(alias, d.n), Header(d), RewriteText(r, Header(d)))
        Kept(d) == Entry(p, Named(alias, d.n), d, RewriteText(r, NamedImportsIn(p, syms[p], d)))
    IN  [i \in DOMAIN Pub(p) |-> Exposed(Pub(p)[i])] \o [i \in DOMAIN own |-> Kept(own[i])]

\* PackageNeedsPrivateDeclSurface
NeedsPrivate(p) == \E d \in Exports(p) : d.k = "fn"

\* AppendImportedPackageSurface: first what the package itself imports, bare,
\* then the package; a surface under the same alias is not appended again.
RECURSIVE BareSurfaces(_, _)
BareSurfaces(imps, done) ==
    IF imps = <<>> THEN <<>>
    ELSE LET i == Head(imps)
             it == [pkg |-> i.to, alias |-> i.alias]
         IN  (IF it \in done THEN <<>> ELSE AliasedDecls(i.to, i.alias, <<>>, FALSE))
             \o BareSurfaces(Tail(imps), done \cup {it})

Surfaces(p) == {[pkg |-> i.to, alias |-> i.alias] : i \in ToSet(Pkg(p).imps)}

\* AppendImportFunctionWrappers: fn local(params) { return alias__name(params) }
Wrapper(s) ==
    LET d == [k |-> "fn", n |-> s.src, pub |-> FALSE, any |-> FALSE, body |-> TRUE,
              e |-> Number, ps |-> s.shape,
              b |-> <<[k |-> "use", n |-> <<>>, g |-> Number, b |-> <<>>,
                       e |-> [k |-> "call", e |-> Id(Named(s.alias, s.src)),
                              as |-> [i \in DOMAIN s.shape |-> Id(s.shape[i].n)]]]>>]
    IN  [name |-> <<s.local>>, ent |-> <<s.to, s.src>>, from |-> "", d |-> d, text |-> d]
Wrappers(p) ==
    LET ss == SelectSeq(syms[p], LAMBDA s : s.wrap) IN [i \in DOMAIN ss |-> Wrapper(ss[i])]

OwnDecls(p) ==
    LET r == [imps |-> Pkg(p).imps, alias |-> <<>>, names |-> {}]
        Own(d) == Entry(p, <<d.n>>, d, RewriteText(r, NamedImportsIn(p, syms[p], d)))
    IN  [i \in DOMAIN Pkg(p).decls |-> Own(Pkg(p).decls[i])]

(***************************************************************************)
(* Loading: a package is validated when everything it imports is.          *)
(***************************************************************************)
\* MakeUniqueImportAlias: the names are made unique within the package.
WithAliases(imps) ==
    [i \in DOMAIN imps |->
       LET want(j) == IF imps[j].bind # "" THEN imps[j].bind ELSE imps[j].seg
       IN  [to |-> imps[i].to, bind |-> imps[i].bind, syms |-> imps[i].syms,
            alias |-> <<want(i), Len(SelectSeq(SubSeq(imps, 1, i),
                                               LAMBDA x : (IF x.bind # "" THEN x.bind ELSE x.seg)
                                                            = want(i)))>>]]

Init ==
    \E family \in Families : \E w \in family :
        /\ ws = [order |-> w.order,
                 pkgs |-> [p \in DOMAIN w.pkgs |->
                             [w.pkgs[p] EXCEPT !.imps = WithAliases(@)]]]
        /\ at = 1 /\ pc = "finalize"
        /\ syms = [p \in DOMAIN w.pkgs |-> <<>>]
        /\ combined = <<>> /\ emitted = {} /\ todo = 1

\* ValidateAndFinalizeImportSymbols: one symbol for each overload; a function
\* has the types of its parameters, as the importer will read them, for a shape.
Matches(i, s) == SelectSeq(Pub(i.to), LAMBDA d : d.n = s.src)
Symbol(i, s, d) ==
    LET r == [imps |-> Pkg(i.to).imps, alias |-> i.alias,
              names |-> {x.n : x \in Exports(i.to)}]
    IN  [to |-> i.to, alias |-> i.alias, src |-> s.src, local |-> s.local, wrap |-> FALSE,
         type |-> d.k = "struct", fn |-> d.k = "fn",
         shape |-> RewriteText(r, Header(d)).ps]
Symbols(i) ==
    FlattenSeq([j \in DOMAIN i.syms |->
        LET ds == Matches(i, i.syms[j])
        IN  [k \in DOMAIN ds |-> Symbol(i, i.syms[j], ds[k])]])

Refused == pc' = "refused" /\ UNCHANGED <<ws, at, syms, combined, emitted, todo>>

FinalizeSymbols ==
    LET imps == Pkg(Here).imps
        unknown == \E i \in ToSet(imps) : \E s \in ToSet(i.syms) : Matches(i, s) = <<>>
    IN  /\ pc = "finalize"
        /\ \/ unknown /\ Refused
           \/ /\ ~unknown
              /\ syms' = [syms EXCEPT ![Here] =
                             FlattenSeq([i \in DOMAIN imps |-> Symbols(imps[i])])]
              /\ pc' = "conflicts"
              /\ UNCHANGED <<ws, at, combined, emitted, todo>>

\* ValidateImportBindingConflicts: imports of one name are accepted, through
\* wrappers, when they are functions that differ in their parameters.
Types(s) == [i \in DOMAIN s.shape |-> s.shape[i].t]
Overloads(s, t) == s.fn /\ t.fn /\ Types(s) # Types(t)
Others(i) == {j \in DOMAIN syms[Here] : j # i /\ syms[Here][j].local = syms[Here][i].local}

BindingConflict ==
    LET p == Pkg(Here)
        declared == {d.n : d \in ToSet(p.decls)}
        bound == {i \in DOMAIN p.imps : p.imps[i].bind # ""}
        locals == {s.local : s \in ToSet(syms[Here])}
    IN  \/ \E i \in bound : p.imps[i].bind \in declared \cup locals
        \/ \E i, j \in bound : i # j /\ p.imps[i].bind = p.imps[j].bind
        \/ locals \cap declared # {}
        \/ \E i \in DOMAIN syms[Here] : \E j \in Others(i) : ~Overloads(syms[Here][i], syms[Here][j])

Conflicts ==
    /\ pc = "conflicts"
    /\ \/ BindingConflict /\ Refused
       \/ /\ ~BindingConflict
          /\ syms' = [syms EXCEPT ![Here] =
                         [i \in DOMAIN @ |-> [@[i] EXCEPT !.wrap = Others(i) # {}]]]
          /\ pc' = "validate"
          /\ UNCHANGED <<ws, at, combined, emitted, todo>>

\* ValidatePackageSelectors, over the field expressions and the qualified types.
AsType(t) == [t EXCEPT !.k = "type"]
RECURSIVE Selectors(_)
Selectors(e) ==
    CASE e.k = "sel" -> {e} \cup Selectors(e.e)
      [] e.k = "two" -> Selectors(e.e) \cup Selectors(e.g)
      [] e.k = "call" -> Selectors(e.e) \cup UNION {Selectors(a) : a \in ToSet(e.as)}
      [] e.k = "lit" -> Selectors(e.e) \cup {AsType(t) : t \in Selectors(e.t)}
      [] OTHER -> {}
RECURSIVE SelectorsOf(_)
SelectorsOf(b) ==
    UNION {Selectors(s.e) \cup Selectors(s.g) \cup SelectorsOf(s.b) : s \in ToSet(b)}

UnknownSelector(p, x) ==
    /\ x.e.k = "name"
    /\ \/ x.k = "type" /\ ByAlias(p, x.e.n) = {}
       \/ \E i \in ByAlias(p, x.e.n) : ~Exported(i.to, x.f[1])
BadSelectors(p) ==
    \E d \in ToSet(Pkg(p).decls) :
        LET types == UNION {Selectors(y.t) : y \in ToSet(d.ps)}
        IN  \E x \in Selectors(d.e) \cup SelectorsOf(d.b) \cup {AsType(t) : t \in types} :
                UnknownSelector(p, x)

\* ValidatePubTypeNode, for the parameters and the fields of what is exported.
PubType(p, t) ==
    \/ t = Number
    \/ /\ t.k = "name"
       /\ \/ \E d \in Exports(p) : d.k = "struct" /\ <<d.n>> = t.n
          \/ Binding(syms[p], t.n, TRUE) # {}
    \/ t.k = "sel" /\ \E i \in ByAlias(p, t.e.n) :
                         \E d \in Exports(i.to) : d.k = "struct" /\ <<d.n>> = t.f
PubClosed(p) == \A d \in Exports(p) : \A x \in ToSet(d.ps) : PubType(p, x.t)

Validate ==
    LET valid == ~BadSelectors(Here) /\ PubClosed(Here)
        last == at = Len(ws.order)
    IN  /\ pc = "validate"
        /\ \/ ~valid /\ Refused
           \/ /\ valid
              /\ at' = IF last THEN 1 ELSE at + 1
              /\ pc' = IF last THEN "surfaces" ELSE "finalize"
              /\ UNCHANGED <<ws, syms, combined, emitted, todo>>

(***************************************************************************)
(* Checking: the combined source of each package (BuildCombinedPackage-    *)
(* Source, CheckLoadedPackage).                                            *)
(***************************************************************************)
AppendSurface ==
    LET i == Pkg(Here).imps[todo]
        it == [pkg |-> i.to, alias |-> i.alias]
        subs == Pkg(i.to).imps
    IN  /\ pc = "surfaces" /\ todo \in DOMAIN Pkg(Here).imps
        /\ IF it \in emitted THEN UNCHANGED <<combined, emitted>>
           ELSE /\ combined' = combined \o BareSurfaces(subs, emitted)
                               \o AliasedDecls(i.to, i.alias, subs, NeedsPrivate(i.to))
                /\ emitted' = emitted \cup Surfaces(i.to) \cup {it}
        /\ todo' = todo + 1
        /\ UNCHANGED <<ws, at, syms, pc>>

AppendOwn ==
    /\ pc = "surfaces" /\ todo \notin DOMAIN Pkg(Here).imps
    /\ combined' = combined \o Wrappers(Here) \o OwnDecls(Here)
    /\ pc' = "check"
    /\ UNCHANGED <<ws, at, syms, emitted, todo>>

\* The scope of the combined source: it has neither aliases nor packages.
CombinedItem(c) == Item(c.name, c.name, c.ent, c.text)
\* The functions beside a type are those with its prefix.
CombinedScope ==
    LET bare == [i \in DOMAIN combined |-> CombinedItem(combined[i])]
        structs == {x \in ToSet(bare) : x.k = "struct"}
        env(items) == [items |-> items, structs |-> structs, alias |-> {}, locs |-> <<>>,
                       beside |-> {[type |-> y.id, n |-> <<Last(x.n)>>, x |-> x] :
                                     x \in {f \in ToSet(items) : f.k = "fn"}, y \in structs}]
        typed == env([i \in DOMAIN combined |-> Typed(env(bare), bare[i], combined[i].text)])
    IN  [typed EXCEPT !.beside = {b \in @ : Len(b.type) > 1 /\ Front(b.type) = Front(b.x.n)}]

\* H2TCAddNamedType, H2TCCollectFunctionFromNode: constants may be repeated.
Duplicate(env) ==
    \E i, j \in DOMAIN combined :
        /\ i < j /\ combined[i].name = combined[j].name
        /\ env.items[i].k = env.items[j].k
        /\ \/ env.items[i].k = "struct"
           \/ /\ env.items[i].k = "fn" /\ env.items[i].sig = env.items[j].sig
              /\ combined[i].text.body /\ combined[j].text.body

\* A generic function is checked when it is called.
Accepted ==
    LET env == CombinedScope
    IN  /\ ~Duplicate(env)
        /\ \A i \in DOMAIN combined :
              combined[i].d.any \/ Resolved(DeclNames(env, combined[i].text))

Check ==
    /\ pc = "check"
    /\ \/ ~Accepted /\ Refused
       \/ Accepted /\ pc' = "checked" /\ UNCHANGED <<ws, at, syms, combined, emitted, todo>>

\* The next package, if there is one.
NextPackage ==
    /\ pc = "checked" /\ at < Len(ws.order)
    /\ at' = at + 1 /\ pc' = "surfaces"
    /\ combined' = <<>> /\ emitted' = {} /\ todo' = 1
    /\ UNCHANGED <<ws, syms>>

Next == FinalizeSymbols \/ Conflicts \/ Validate \/ AppendSurface \/ AppendOwn \/ Check \/ NextPackage

Spec == Init /\ [][Next]_vars

(***************************************************************************)
(* What the sources say.                                                   *)
(***************************************************************************)
OwnItem(p, d) == Item(<<d.n>>, <<p, d.n>>, <<p, d.n>>, d)
ImportedItem(i, s, d) == Item(<<s.local>>, <<i.to, d.n>>, <<i.to, d.n>>, d)
NamedIn(i) ==
    FlattenSeq([j \in DOMAIN i.syms |->
        LET ds == Matches(i, i.syms[j])
        IN  [k \in DOMAIN ds |-> [item |-> ImportedItem(i, i.syms[j], ds[k]), d |-> ds[k], p |-> i.to]]])

\* The declarations and named imports of p, with the package each is declared in.
Declared(p) ==
    LET own == Pkg(p).decls
        imps == Pkg(p).imps
    IN  [i \in DOMAIN own |-> [item |-> OwnItem(p, own[i]), d |-> own[i], p |-> p]]
        \o FlattenSeq([i \in DOMAIN imps |-> NamedIn(imps[i])])

\* Its scope, at first without the types of parameters.
TypeScope(p) ==
    LET bare(q) == [i \in DOMAIN Pub(q) |-> OwnItem(q, Pub(q)[i])]
    IN  [items |-> [i \in DOMAIN Declared(p) |-> Declared(p)[i].item],
         alias |-> {[n |-> <<i.bind>>, items |-> bare(i.to)] :
                      i \in {j \in ToSet(Pkg(p).imps) : j.bind # ""}},
         structs |-> {}, beside |-> {}, locs |-> <<>>]

SourceScope(p) ==
    LET typed(q, item, d) == Typed(TypeScope(q), item, d)
        exported(q) == [i \in DOMAIN Pub(q) |-> typed(q, OwnItem(q, Pub(q)[i]), Pub(q)[i])]
        structs(q) == {OwnItem(q, d) : d \in {x \in ToSet(Pkg(q).decls) : x.k = "struct"}}
        all == UNION {structs(q) : q \in DOMAIN ws.pkgs}
    IN  [items |-> [i \in DOMAIN Declared(p) |->
                      LET x == Declared(p)[i] IN typed(x.p, x.item, x.d)],
         alias |-> {[n |-> <<i.bind>>, items |-> exported(i.to)] :
                      i \in {j \in ToSet(Pkg(p).imps) : j.bind # ""}},
         structs |-> all,
         beside |-> UNION {{[type |-> y.id, n |-> x.n, x |-> x] :
                              x \in {f \in ToSet(exported(q)) : f.k = "fn"}, y \in structs(q)} :
                             q \in DOMAIN ws.pkgs},
         locs |-> <<>>]

(***************************************************************************)
(* Where the combined source means something else, or is refused.          *)
(***************************************************************************)
\* Two packages within reach under one alias.
AliasClash == \E i, j \in emitted : i.alias = j.alias /\ i.pkg # j.pkg

RECURSIVE Locals(_, _)
Locals(kinds, b) ==
    UNION {(IF s.k \in kinds THEN {s.n} ELSE {}) \cup Locals(kinds, s.b) : s \in ToSet(b)}
LocalsOf(d) == {x.n : x \in ToSet(d.ps)} \cup Locals({"var", "short", "for", "in"}, d.b)

\* A local with the name of an import, or one of := with the name of a named import.
Captured(p, d) ==
    \/ \E n \in LocalsOf(d) : ByAlias(p, n) # {}
    \/ Locals({"short"}, d.b) \cap {<<s.local>> : s \in ToSet(syms[p])} # {}

\* A method that the package of the receiver's type does not export.
PrivateMethod(d) == \E x \in Selectors(d.e) \cup SelectorsOf(d.b) :
    \E q \in DOMAIN ws.pkgs : \E f \in ToSet(Private(q)) : f.k = "fn" /\ <<f.n>> = x.f

\* Every name of an accepted combined source denotes what it denotes in the
\* source of its package (hop_pkg.c rewrites names by tokens, without scopes).
NamesMeanSame ==
    pc = "checked" /\ ~AliasClash =>
        \A i \in DOMAIN combined :
            LET c == combined[i]
                here == DeclNames(CombinedScope, c.text)
                there == DeclNames(SourceScope(c.from), c.d)
            IN  c.from # "" /\ ~Captured(c.from, c.d) /\ ~PrivateMethod(c.d) =>
                    \A j \in DOMAIN there : here[j] = there[j] \/ (c.d.any /\ here[j] = {})

RECURSIVE Idents(_), IdentsOf(_)
Idents(e) ==
    CASE e.k = "name" -> {e.n}
      [] e.k = "sel" -> Idents(e.e)
      [] e.k = "two" -> Idents(e.e) \cup Idents(e.g)
      [] e.k = "call" -> Idents(e.e) \cup UNION {Idents(a) : a \in ToSet(e.as)}
      [] e.k = "lit" -> Idents(e.t) \cup Idents(e.e)
      [] OTHER -> {}
IdentsOf(b) == UNION {Idents(s.e) \cup Idents(s.g) \cup IdentsOf(s.b) : s \in ToSet(b)}
Used(d) == UNION {Idents(x.t) : x \in ToSet(d.ps)} \cup Idents(d.e) \cup IdentsOf(d.b)

\* The names where NameExpr and NameBlock do not look for values.
RECURSIVE Within(_), PassedBy(_)
Within(e) ==
    CASE e.k = "sel" -> Within(e.e)
      [] e.k = "two" -> Within(e.e) \cup Within(e.g)
      [] e.k = "call" -> Within(e.e) \cup UNION {Within(a) : a \in ToSet(e.as)}
      [] e.k = "lit" -> Idents(e.e)
      [] OTHER -> {}
PassedBy(b) ==
    UNION {(IF s.k = "short" THEN Idents(s.e) ELSE Within(s.e))
           \cup (IF s.k = "switch" THEN Idents(s.g) ELSE Within(s.g))
           \cup PassedBy(s.b) : s \in ToSet(b)}

\* A method with the name of a named import, that another package exports too.
Retargeted(p, d) == \E x \in Selectors(d.e) \cup SelectorsOf(d.b) : \E s \in ToSet(syms[p]) :
    <<s.local>> = x.f /\ \E q \in DOMAIN ws.pkgs : q # s.to /\ Exported(q, x.f[1])

NamesOf(xs) == {<<x.n>> : x \in ToSet(xs)}
NamedLocals(p) == {<<s.local>> : s \in ToSet(syms[p])}

\* Named imports stand where they are rewritten, and no field has the name of a
\* declaration.
Plain(p) ==
    \A d \in ToSet(Pkg(p).decls) :
        /\ ~Retargeted(p, d)
        /\ (PassedBy(d.b) \cup Within(d.e) \cup (IF d.k = "var" THEN Idents(d.e) ELSE {}))
           \cap NamedLocals(p) = {}
        /\ d.k = "struct" => {x.n : x \in ToSet(d.ps)} \cap NamesOf(Pkg(p).decls) = {}

\* What a surface holds of p uses only what the surface has: exports no private
\* names and no named imports, and no other package where p is within reach of
\* a second package; private declarations no imports behind a wrapper.
Exposable(p) ==
    LET used == UNION {Used(Header(d)) : d \in Exports(p)}
        second == \E q \in DOMAIN ws.pkgs \ {Here} : \E i \in ToSet(Pkg(q).imps) : i.to = p
    IN  /\ used \cap (NamedLocals(p) \cup NamesOf(Private(p))) = {}
        /\ second => used \cap {<<i.bind>> : i \in ToSet(Pkg(p).imps)} = {}
        /\ \A d \in ToSet(Private(p)) : \A s \in ToSet(syms[p]) :
              s.wrap => <<s.local>> \notin Used(d)

\* One alias for each package of the workspace, and one package for each alias.
AliasesApart ==
    \A p, q \in DOMAIN ws.pkgs :
        \A i \in ToSet(Pkg(p).imps), j \in ToSet(Pkg(q).imps) :
            (i.to = j.to) = (i.alias = j.alias)

\* A combined source is refused only for an error in the source of its package.
PlainAccepted ==
    /\ pc = "refused" /\ combined # <<>>
    /\ AliasesApart /\ \A p \in ToSet(ws.order) : Plain(p) /\ (p # Here => Exposable(p))
    => \E d \in ToSet(Pkg(Here).decls) : ~Resolved(DeclNames(SourceScope(Here), d))
=============================================================================
