---------------------------- MODULE ConstSource ----------------------------
(***************************************************************************)
(* Programs whose constants, functions and array lengths need one another, *)
(* and what their names mean: a name is that of the nearest declaration    *)
(* around the place where it is written.  The evaluator that works these   *)
(* values out while functions are checked is ConstEval.                    *)
(***************************************************************************)
EXTENDS Integers, FiniteSets, SequencesExt

\* A program is [consts, fns, checks].  A constant is [names, inits], several
\* names being one declaration; a function is [name, params, local, ret], local
\* holding at most one [name, init, inner], inner when it is declared in a block
\* that ends before the return; `checks' are functions that are checked and never
\* evaluated, each a sequence of [kind, name, init] with kind "const", "var" or
\* "size" (the length of an array).
VARIABLE program

Lit(n)     == [kind |-> "lit", value |-> n]
Name(n)    == [kind |-> "name", name |-> n]
Call(n, a) == [kind |-> "call", name |-> n, args |-> a]    \* at most one argument

IntOf(n) == [is |-> "int", of |-> n]
FnRef(f) == [is |-> "fn", of |-> f]
NotConst == [is |-> "not const", of |-> 0]

Consts == DOMAIN program.consts
Fns    == DOMAIN program.fns

Grouped(i)  == Len(program.consts[i].names) > 1
NamesOf(i)  == ToSet(program.consts[i].names)

\* H2TCFindTopLevelVarLikeNode: the declaration of a constant and the place in it.
ConstOf(n)  == { i \in Consts : n \in NamesOf(i) }
PlaceIn(n, i) == CHOOSE k \in DOMAIN program.consts[i].names : program.consts[i].names[k] = n
InitOf(i, k)  == program.consts[i].inits[k]

\* H2TCFindPlainFunctionValueIndex: the only function of the name.
PlainFn(n) == { f \in Fns : program.fns[f].name = n
                            /\ \A g \in Fns : program.fns[g].name = n => g = f }

\* H2TCFindConstCallableFunction: the functions of the name with that many parameters.
ByArity(n, count) ==
    { f \in Fns : program.fns[f].name = n /\ Len(program.fns[f].params) = count }

The(set) == CHOOSE x \in set : TRUE

-----------------------------------------------------------------------------
(* The meaning of an expression where `env' gives the local names, `busy'  *)
(* being the constants and functions whose meaning is being asked for.     *)

Empty == [n \in {} |-> NotConst]
Bound(env, n, v) == (n :> v) @@ env

RECURSIVE Meaning(_, _, _)
MeaningOfCall(f, args, busy) ==
    LET fn    == program.fns[f]
        given == [n \in ToSet(fn.params) |-> args[1]]
        inner == busy \cup {<<"fn", f, 0>>}
        local == fn.local[1]
        value == Meaning(local.init, given, inner)
    IN  IF <<"fn", f, 0>> \in busy \/ Len(args) # Len(fn.params) THEN NotConst
        ELSE IF fn.local = << >> THEN Meaning(fn.ret, given, inner)
        ELSE IF value = NotConst THEN NotConst
        ELSE Meaning(fn.ret, IF local.inner THEN given ELSE Bound(given, local.name, value), inner)

Meaning(e, env, busy) ==
    CASE e.kind = "lit" -> IntOf(e.value)
      [] e.kind = "name" ->
           IF e.name \in DOMAIN env THEN env[e.name]
           ELSE IF PlainFn(e.name) # {} THEN FnRef(The(PlainFn(e.name)))
           ELSE IF ConstOf(e.name) = {} THEN NotConst
           ELSE LET i == The(ConstOf(e.name))
                    k == PlaceIn(e.name, i)
                IN  IF <<"const", i, k>> \in busy THEN NotConst
                    ELSE Meaning(InitOf(i, k), Empty, busy \cup {<<"const", i, k>>})
      [] e.kind = "call" ->
           LET args   == [i \in DOMAIN e.args |-> Meaning(e.args[i], env, busy)]
               callee == Meaning(Name(e.name), env, busy)
               named  == ByArity(e.name, Len(args))
           IN  IF NotConst \in Range(args) THEN NotConst
               ELSE IF callee.is = "fn" THEN MeaningOfCall(callee.of, args, busy)
               ELSE IF e.name \notin DOMAIN env /\ Cardinality(named) = 1
                    THEN MeaningOfCall(The(named), args, busy)
               ELSE NotConst

\* The local names of a checked function before its item i.
EnvBefore(items, i) ==
    LET env[j \in 0 .. Len(items)] ==
            IF j = 0 THEN Empty
            ELSE LET item == items[j]
                 IN  IF item.kind = "size" THEN env[j - 1]
                     ELSE Bound(env[j - 1], item.name,
                                IF item.kind = "var" THEN NotConst
                                ELSE Meaning(item.init, env[j - 1], {}))
    IN  env[i - 1]

-----------------------------------------------------------------------------
(* Which programs look a name up after its scope is gone.                  *)

RECURSIVE NamesIn(_)
NamesIn(e) ==
    IF e.kind = "lit" THEN {}
    ELSE {e.name} \cup IF e.kind = "name" THEN {} ELSE UNION { NamesIn(e.args[i]) : i \in DOMAIN e.args }

InitNames(i) == UNION { NamesIn(InitOf(i, k)) : k \in DOMAIN program.consts[i].inits }

\* Names that are looked up while the program is evaluated and not when the
\* place they are written at is lowered: constants declared together, what their
\* initialisers name, a constant in its own initialiser, and functions.
LateNames ==
    UNION { IF Grouped(i) THEN NamesOf(i) \cup InitNames(i) ELSE NamesOf(i) \cap InitNames(i) : i \in Consts }
    \cup { program.fns[f].name : f \in Fns }

\* The parameters and locals of the functions that are evaluated.
InnerNames ==
    UNION { ToSet(program.fns[f].params)
            \cup { program.fns[f].local[l].name : l \in DOMAIN program.fns[f].local } : f \in Fns }

Declared(items) == { items[j].name : j \in { k \in DOMAIN items : items[k].kind # "size" } }

\* A local constant is evaluated where it is used: what is declared from its own
\* place on may be taken for a name of its initialiser.  A variable is passed
\* over, so that the name is looked up outside.
LateLocal(items) ==
    \E j \in DOMAIN items :
        \/ items[j].kind = "const"
           /\ \E k \in j .. Len(items) : items[k].kind # "size" /\ items[k].name \in NamesIn(items[j].init)
        \/ items[j].kind = "var"
           /\ (items[j].name \in UNION { NamesOf(i) : i \in Consts }
               \/ \E k \in 1 .. j - 1 : items[k].kind = "const" /\ items[k].name = items[j].name)

\* A local is in scope in its own initialiser when that is lowered.
ReadsItself ==
    \E f \in Fns : \E l \in DOMAIN program.fns[f].local :
        program.fns[f].local[l].name \in NamesIn(program.fns[f].local[l].init)

Captures ==
    \/ ReadsItself
    \/ InnerNames \cap LateNames # {}
    \/ \E c \in DOMAIN program.checks :
           Declared(program.checks[c]) \cap LateNames # {} \/ LateLocal(program.checks[c])
=============================================================================
