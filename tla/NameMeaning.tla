----------------------------- MODULE NameMeaning -----------------------------
(***************************************************************************)
(* What the names in a text denote.                                        *)
(*                                                                         *)
(* A name is a sequence: <<"x">> as written, <<"b", 1, "x">> for b__x      *)
(* under the first import of a package with the alias b.  Names are all    *)
(* that the trees keep of a text.                                          *)
(*   expressions  int; name n; sel e.f; two e,g; call e(as); lit t{f: e}   *)
(*   statements   var n = e, short (n := e), use e, if e { b } (and any    *)
(*                block), switch e { case g { b } }, for var n = e; g { b },*)
(*                in (for n in e { b })                                    *)
(*   declarations fn, const, var and struct n, with parameters or fields   *)
(*                ps, body b and value e                                   *)
(* A type is int, the name of a struct, or a sel of an alias and a name.   *)
(*                                                                         *)
(* An item is something declared: its name in a scope, the entity it       *)
(* stands for, <<package, name>>, and its identity as a type.  A scope has *)
(* items in the order of the text, import aliases with the items behind    *)
(* them, the structs whose fields can be read, the functions beside the    *)
(* declaration of each type, and locals.                                   *)
(***************************************************************************)
EXTENDS Naturals, Sequences, SequencesExt

Number == [k |-> "int"]
Id(n) == [k |-> "name", n |-> n]

Structs(items, n) == {x \in ToSet(items) : x.k = "struct" /\ x.n = n}
Fns(items, n) == {x \in ToSet(items) : x.k = "fn" /\ x.n = n}

\* A value name: a function, with all its overloads, before a constant or
\* variable, of which the first in the text counts.
Values(items, n) ==
    LET consts == SelectSeq(items, LAMBDA x : x.k \in {"const", "var"} /\ x.n = n)
    IN  IF Fns(items, n) # {} THEN Fns(items, n)
        ELSE IF consts = <<>> THEN {} ELSE {Head(consts)}

Ents(xs) == {x.ent : x \in xs}
Ids(xs) == {x.id : x \in xs}

Behind(env, n) == UNION {ToSet(a.items) : a \in {b \in env.alias : b.n = n}}
IsAlias(env, n) == \E a \in env.alias : a.n = n

TypeItems(env, t) ==
    CASE t.k = "name" -> Structs(env.items, t.n)
      [] t.k = "sel" /\ t.e.k = "name" ->
           {x \in Behind(env, t.e.n) : x.k = "struct" /\ x.n = t.f}
      [] OTHER -> {}

TypeNames(env, t) == IF t = Number THEN <<>> ELSE <<Ents(TypeItems(env, t))>>

\* The latest local of a name, 0 if there is none.
Local(env, n) ==
    LET at == {i \in DOMAIN env.locs : env.locs[i].n = n}
    IN  IF at = {} THEN 0 ELSE CHOOSE i \in at : \A j \in at : j <= i

\* The struct type of an expression; {} is int.
TypeOf(env, e) ==
    CASE e.k = "name" /\ Local(env, e.n) # 0 -> env.locs[Local(env, e.n)].t
      [] e.k = "lit" -> Ids(TypeItems(env, e.t))
      [] OTHER -> {}

Field(env, type, f) ==
    UNION {{<<x.ent, i>> : i \in {j \in DOMAIN x.fs : x.fs[j] = f}} :
             x \in {s \in env.structs : s.id \in type}}

\* alias.name, unless a local has the alias's name.
IsQualified(env, e) ==
    e.k = "sel" /\ e.e.k = "name" /\ Local(env, e.e.n) = 0 /\ IsAlias(env, e.e.n)

\* x.f(a): f is called with x unless x has such a field or is an alias.
IsMethod(env, e) == /\ e.k = "sel" /\ ~IsQualified(env, e)
                    /\ Field(env, TypeOf(env, e.e), e.f) = {}

Callees(env, e) ==
    CASE IsQualified(env, e) -> {x \in Behind(env, e.e.n) : x.k = "fn" /\ x.n = e.f}
      [] IsMethod(env, e) -> Fns(env.items, e.f)
      [] e.k = "name" /\ Local(env, e.n) = 0 -> Fns(env.items, e.n)
      [] OTHER -> {}

\* Where no function called so takes the receiver, those beside its type are tried.
Beside(env, e) ==
    IF IsMethod(env, e)
      THEN {m.x : m \in {b \in env.beside : b.type \in TypeOf(env, e.e) /\ b.n = e.f}}
      ELSE {}

Called(env, f, types) ==
    LET Fitting(xs) == {x \in xs : x.sig = types}
    IN  IF Fitting(Callees(env, f)) # {} THEN Fitting(Callees(env, f)) ELSE Fitting(Beside(env, f))

\* What each name of an expression denotes, in the order of the text; {} is
\* an error.
RECURSIVE Names(_, _)
Names(env, e) ==
    CASE e.k = "name" ->
           IF Local(env, e.n) # 0 THEN <<{<<"local", Local(env, e.n)>>}>>
           ELSE <<Ents(Values(env.items, e.n))>>
      [] e.k = "sel" ->
           IF IsQualified(env, e)
             THEN <<Ents({x \in Behind(env, e.e.n) : x.k # "struct" /\ x.n = e.f})>>
             ELSE Names(env, e.e) \o <<Field(env, TypeOf(env, e.e), e.f)>>
      [] e.k = "two" -> Names(env, e.e) \o Names(env, e.g)
      [] e.k = "call" ->
           LET receiver == IF IsMethod(env, e.e) THEN <<e.e.e>> ELSE <<>>
               args == receiver \o e.as
               types == [i \in DOMAIN args |-> TypeOf(env, args[i])]
           IN  <<Ents(Called(env, e.e, types))>>
               \o FlattenSeq([i \in DOMAIN args |-> Names(env, args[i])])
      [] e.k = "lit" ->
           TypeNames(env, e.t) \o <<Field(env, Ids(TypeItems(env, e.t)), e.f)>>
           \o Names(env, e.e)
      [] OTHER -> <<>>

WithLocal(env, n, t) == [env EXCEPT !.locs = Append(@, [n |-> n, t |-> t])]

RECURSIVE BlockNames(_, _)
BlockNames(env, b) ==
    IF b = <<>> THEN <<>>
    ELSE LET s == Head(b)
             inner == CASE s.k = "for" -> WithLocal(env, s.n, TypeOf(env, s.e))
                        [] s.k = "in" -> WithLocal(env, s.n, {})
                        [] OTHER -> env
             after == IF s.k \in {"var", "short"} THEN WithLocal(env, s.n, TypeOf(env, s.e))
                      ELSE env
         IN  Names(env, s.e) \o Names(inner, s.g) \o BlockNames(inner, s.b)
             \o BlockNames(after, Tail(b))

DeclNames(env, d) ==
    LET locs == [i \in DOMAIN d.ps |-> [n |-> d.ps[i].n, t |-> Ids(TypeItems(env, d.ps[i].t))]]
    IN  FlattenSeq([i \in DOMAIN d.ps |-> TypeNames(env, d.ps[i].t)])
        \o Names(env, d.e) \o BlockNames([env EXCEPT !.locs = locs], d.b)

Resolved(names) == {} \notin ToSet(names)

Item(n, id, ent, d) ==
    [n |-> n, id |-> id, ent |-> ent, k |-> d.k, sig |-> <<>>,
     fs |-> [i \in DOMAIN d.ps |-> d.ps[i].n]]
\* An item with its parameter types, as its own scope has them.
Typed(env, item, d) ==
    [item EXCEPT !.sig = [i \in DOMAIN d.ps |-> Ids(TypeItems(env, d.ps[i].t))]]
=============================================================================
