----------------------------- MODULE FormatBody -----------------------------
(***************************************************************************)
(* What `hop fmt` rewrites in a function body (format.c): casts of         *)
(* literals that the context fixes, types of variables that the            *)
(* initialiser fixes, and `var x = e` to `x := e`.  The formatter has no   *)
(* types and no scopes: it looks names up in the order of the text.        *)
(* Meaning says what the type checker makes of a body                    *)
(* (docs/language.md, sections 4.3 and 6), to compare both forms.          *)
(***************************************************************************)
EXTENDS Naturals, Sequences, SequencesExt

CONSTANT Params     \* the function's parameters: a sequence of [name, type]

ASSUME ParamsAssumption == Params \in Seq([name : {"x", "y", "i"}, type : {"int", "i64", "?i64"}])

NoType  == "none"
Numbers == {"int", "i64"}

(* Expressions.                                                            *)
None       == [k |-> "none"]
Lit        == [k |-> "lit"]
Name(x)    == [k |-> "name", x |-> x]
Cast(e, T) == [k |-> "cast", e |-> e, type |-> T]
Sum(l, r)  == [k |-> "sum", l |-> l, r |-> r]

(* Statements.  Sum stands for every operator whose operands share a type. *)
Var(x, T, e)   == [s |-> "var", x |-> x, type |-> T, e |-> e]
Const(x, T, e) == [s |-> "const", x |-> x, type |-> T, e |-> e]
Short(x, e)    == [s |-> "short", x |-> x, e |-> e]
Assign(x, e)   == [s |-> "assign", x |-> x, e |-> e]
Block(b)       == [s |-> "block", body |-> b]
ForIn(x, b)    == [s |-> "forin", x |-> x, body |-> b]     \* elements are i64

-----------------------------------------------------------------------------
(* The formatter's view of a position: the declarations with `var` and     *)
(* `const` that end before it, after the parameters, and the names bound   *)
(* by those and by short assignments - of blocks already closed, too.      *)

Before == [decls |-> [j \in DOMAIN Params |->
                        [x |-> Params[j].name, type |-> Params[j].type, e |-> None]],
           names |-> {Params[j].name : j \in DOMAIN Params}]

FindLocalBindingBefore(decls, x) ==
    SelectLastInSubSeq(decls, 1, Len(decls), LAMBDA d : d.x = x)

RECURSIVE InferExprType(_, _)
InferExprType(decls, e) ==
    CASE e.k = "cast" -> e.type
      [] e.k = "name" ->
            LET j == FindLocalBindingBefore(decls, e.x)
            IN  IF j = 0 THEN NoType
                ELSE IF decls[j].type # NoType THEN decls[j].type
                ELSE InferExprType(SubSeq(decls, 1, j - 1), decls[j].e)
      [] OTHER -> NoType

CastLiteralNumericType(e) ==
    IF e.k = "cast" /\ e.e.k = "lit" /\ e.type \in Numbers THEN e.type ELSE NoType

\* want: the type the context fixes for the whole expression, NoType for none.
CanDropRedundantLiteralCast(cast, want) ==
    CastLiteralNumericType(cast) # NoType /\ cast.type = want

RewriteRedundantLiteralCast(cast, want) ==
    IF CanDropRedundantLiteralCast(cast, want) THEN cast.e ELSE cast

RECURSIVE RewriteAst(_, _, _)
RewriteAst(decls, e, want) ==
    IF e.k = "sum"
    THEN Sum(RewriteAst(decls, e.l, InferExprType(decls, e.r)),
             RewriteAst(decls, e.r, InferExprType(decls, e.l)))
    ELSE RewriteRedundantLiteralCast(e, want)

\* `var x = 1 as T` is written as `var x T = 1`.
RewriteVarTypeFromLiteralCast(s) ==
    IF s.s = "var" /\ s.type = NoType /\ CastLiteralNumericType(s.e) # NoType
    THEN Var(s.x, s.e.type, s.e.e) ELSE s

RewriteRedundantVarType(decls, s, init) ==
    IF /\ s.s = "var" /\ s.type # NoType /\ init.k # "cast"
       /\ InferExprType(decls, init) = s.type
    THEN [s EXCEPT !.type = NoType] ELSE s

\* Variant: names bound by short assignments are not looked at.
HasEarlierLocalBindingNamed_Declared(g, x) == \E j \in DOMAIN g.decls : g.decls[j].x = x
HasEarlierLocalBindingNamed(g, x) == x \in g.names

CanEmitShortVarDecl(g, s) ==
    /\ s.s = "var" /\ s.type = NoType /\ s.e.k \in {"lit", "name"}
    /\ ~HasEarlierLocalBindingNamed(g, s.x)

\* Variant: the short form is considered before the type is removed.
EmitVarLike_ShortFirst(g, s) ==
    LET casts == [s EXCEPT !.e = RewriteAst(g.decls, s.e, s.type)]
    IN  IF CanEmitShortVarDecl(g, s) THEN Short(s.x, casts.e)
        ELSE RewriteRedundantVarType(g.decls, RewriteVarTypeFromLiteralCast(casts), casts.e)
EmitVarLike(g, s) ==
    LET casts == [s EXCEPT !.e = RewriteAst(g.decls, s.e, s.type)]
        typed == RewriteVarTypeFromLiteralCast(casts)
        bare  == RewriteRedundantVarType(g.decls, typed, typed.e)
    IN  IF CanEmitShortVarDecl(g, bare) THEN Short(bare.x, bare.e) ELSE bare

\* What the statements behind s see of it.
Behind(g, s) ==
    CASE s.s \in {"var", "const"} ->
            [decls |-> Append(g.decls, [x |-> s.x, type |-> s.type, e |-> s.e]),
             names |-> g.names \cup {s.x}]
      [] s.s = "short" -> [g EXCEPT !.names = @ \cup {s.x}]
      [] OTHER -> g

RECURSIVE EmitBlock(_, _)
\* [b, g]: the statements written, and what is before the next position.
EmitBlock(b, g) ==
    FoldLeft(
        LAMBDA a, s :
            LET inner == EmitBlock(s.body, a.g)
                here(t) == [b |-> Append(a.b, t), g |-> Behind(a.g, s)]
            IN  CASE s.s \in {"var", "const"} -> here(EmitVarLike(a.g, s))
                  [] s.s = "short"  -> here(Short(s.x, RewriteAst(a.g.decls, s.e, NoType)))
                  [] s.s = "assign" ->
                        here(Assign(s.x, RewriteAst(a.g.decls, s.e,
                                                    InferExprType(a.g.decls, Name(s.x)))))
                  [] OTHER -> [b |-> Append(a.b, [s EXCEPT !.body = inner.b]), g |-> inner.g],
        [b |-> <<>>, g |-> g], b)

FormatBody(b) == EmitBlock(b, Before).b

-----------------------------------------------------------------------------
(* What a body means: the sequence of declarations and assignments, with   *)
(* types, the declaration each name refers to, and the conversions.        *)

Untyped == "untyped"
Value(type, sem) == [type |-> type, sem |-> sem]
Wrong == Value("wrong", <<>>)

\* An untyped sum adds up to the same before a conversion as after it (overflow
\* is not modelled).
RECURSIVE Converted(_, _)
Converted(sem, T) ==
    IF sem[1] = "sum" THEN <<"sum", Converted(sem[2], T), Converted(sem[3], T)>>
    ELSE <<sem, T>>

\* A value as one of the wanted type: untyped numbers adapt, i64 is lifted to ?i64.
As(v, T) ==
    CASE v.type = T -> v
      [] v.type = Untyped /\ T \in Numbers -> Value(T, Converted(v.sem, T))
      [] v.type = Untyped /\ T = "?i64" -> Value(T, <<Converted(v.sem, "i64"), T>>)
      [] v.type = "i64" /\ T = "?i64" -> Value(T, <<v.sem, T>>)
      [] OTHER -> Wrong

LookUp(env, x) == SelectLastInSubSeq(env, 1, Len(env), LAMBDA d : d.x = x)

RECURSIVE TypeOf(_, _)
TypeOf(env, e) ==
    CASE e.k = "lit"  -> Value(Untyped, <<"lit">>)
      [] e.k = "name" ->
            LET j == LookUp(env, e.x)
            IN  IF j = 0 THEN Wrong ELSE Value(env[j].type, <<"name", env[j].id>>)
      [] e.k = "cast" ->
            LET v == TypeOf(env, e.e) IN IF v.type = Untyped THEN As(v, e.type) ELSE Wrong
      [] e.k = "sum"  ->
            LET l == TypeOf(env, e.l)
                r == TypeOf(env, e.r)
                T == IF l.type = Untyped THEN r.type ELSE l.type
            IN  IF T \notin Numbers \cup {Untyped} \/ Wrong \in {l, r} \/ As(l, T) = Wrong \/ As(r, T) = Wrong
                THEN Wrong
                ELSE Value(T, <<"sum", As(l, T).sem, As(r, T).sem>>)

\* The type of a variable that is declared without one.
Default(v) == IF v.type = Untyped THEN "int" ELSE v.type

RECURSIVE Constant(_, _)
Constant(env, e) ==
    CASE e.k = "lit"  -> TRUE
      [] e.k = "name" -> LookUp(env, e.x) # 0 /\ env[LookUp(env, e.x)].const
      [] e.k = "cast" -> Constant(env, e.e)
      [] e.k = "sum"  -> Constant(env, e.l) /\ Constant(env, e.r)

\* m: [ok, out, env], whether the text so far is correct, what it means and
\* the declarations it can see, the innermost last.
Declared(m, x, v, const) ==
    [ok  |-> m.ok /\ v # Wrong,
     out |-> Append(m.out, <<"declare", v.type, v.sem>>),
     env |-> Append(m.env, [x |-> x, type |-> v.type, const |-> const, id |-> Len(m.out) + 1])]
Stored(m, x, v) ==
    LET j == LookUp(m.env, x)
        w == IF j = 0 THEN Wrong ELSE As(v, m.env[j].type)
    IN  [m EXCEPT !.ok = @ /\ w # Wrong /\ ~m.env[j].const,
                  !.out = IF j = 0 THEN @ ELSE Append(@, <<"assign", m.env[j].id, w.sem>>)]
Entered(m, what)  == [m EXCEPT !.out = Append(@, what)]
Left(m, env)      == [Entered(m, <<"end">>) EXCEPT !.env = env]

RECURSIVE Elaborate(_, _)
Elaborate(b, m0) ==
    FoldLeft(
        LAMBDA m, s :
            LET v == TypeOf(m.env, s.e)
                variable == As(v, IF s.type = NoType THEN Default(v) ELSE s.type)
                constant == IF ~Constant(m.env, s.e) THEN Wrong
                            ELSE IF s.type = NoType THEN v ELSE As(v, s.type)
                element == Declared(Entered(m, <<"for">>), s.x, Value("i64", <<"element">>), FALSE)
            IN  CASE ~m.ok -> m
                  [] s.s = "var"    -> Declared(m, s.x, variable, FALSE)
                  [] s.s = "const"  -> Declared(m, s.x, constant, TRUE)
                  [] s.s = "short" /\ LookUp(m.env, s.x) # 0 -> Stored(m, s.x, v)
                  [] s.s = "short"  -> Declared(m, s.x, As(v, Default(v)), FALSE)
                  [] s.s = "assign" -> Stored(m, s.x, v)
                  [] s.s = "block"  -> Left(Elaborate(s.body, Entered(m, <<"block">>)), m.env)
                  [] s.s = "forin"  -> Left(Elaborate(s.body, element), m.env),
        m0, b)

Visible == [j \in DOMAIN Params |-> [x |-> Params[j].name, type |-> Params[j].type,
                                     const |-> FALSE, id |-> 100 + j]]
Meaning(b) ==
    LET m == Elaborate(b, [ok |-> TRUE, out |-> <<>>, env |-> Visible])
    IN  [ok |-> m.ok, out |-> IF m.ok THEN m.out ELSE <<>>]

(***************************************************************************)
(* Known disagreements: a name is looked up that a closed block or a loop  *)
(* has bound last, and a `var` of a loop variable's name, which becomes an *)
(* assignment to that variable.  a: [ok, hidden, loops, bound], so far.    *)
(***************************************************************************)
RECURSIVE DeclNames(_), LookupsAgree(_, _)
DeclNames(b) ==
    UNION {IF s.s \in {"var", "const"} THEN {s.x}
           ELSE IF s.s \in {"block", "forin"} THEN DeclNames(s.body) ELSE {} : s \in ToSet(b)}

RECURSIVE Mentions(_)
Mentions(e) == CASE e.k = "name" -> {e.x}
                 [] e.k = "cast" -> Mentions(e.e)
                 [] e.k = "sum"  -> Mentions(e.l) \cup Mentions(e.r)
                 [] OTHER -> {}

LookupsAgree(b, start) ==
    FoldLeft(
        LAMBDA a, s :
            LET right(names) == a.ok /\ names \cap a.hidden = {}
                inner == LookupsAgree(s.body,
                            IF s.s = "block" THEN a
                            ELSE [a EXCEPT !.hidden = @ \cup ({s.x} \cap a.bound),
                                           !.loops = @ \cup {s.x}])
            IN  CASE s.s \in {"var", "const"} ->
                        [a EXCEPT !.ok = right(Mentions(s.e)) /\ s.x \notin a.loops,
                                  !.hidden = @ \ {s.x}, !.bound = @ \cup {s.x}]
                  [] s.s = "short"  -> [a EXCEPT !.ok = right(Mentions(s.e))]
                  [] s.s = "assign" -> [a EXCEPT !.ok = right(Mentions(s.e) \cup {s.x})]
                  [] OTHER -> [ok |-> inner.ok, hidden |-> a.hidden \cup DeclNames(s.body),
                               loops |-> a.loops, bound |-> inner.bound],
        start, b)

NamesAgree(b) ==
    LookupsAgree(b, [ok |-> TRUE, hidden |-> {}, loops |-> {}, bound |-> Before.names]).ok

(***************************************************************************)
(* Known disagreement: of two casts of literals to one type that are       *)
(* added, each is dropped for the sake of the other, and where no type is  *)
(* declared the sum has none left.                                         *)
(***************************************************************************)
RECURSIVE Bare(_), SumsTyped(_)
CastsAlike(l, r) == CastLiteralNumericType(l) # NoType /\ CastLiteralNumericType(l) = CastLiteralNumericType(r)
Bare(e) == \/ e.k \in {"lit", "name"}
           \/ e.k = "sum" /\ (CastsAlike(e.l, e.r) \/ (Bare(e.l) /\ Bare(e.r)))
SumsTyped(b) ==
    \A s \in ToSet(b) :
        /\ s.s \in {"block", "forin"} => SumsTyped(s.body)
        /\ s.s = "short" \/ (s.s \in {"var", "const"} /\ s.type = NoType) =>
              ~(s.e.k = "sum" /\ Bare(s.e))
=============================================================================
