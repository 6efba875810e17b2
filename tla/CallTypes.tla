----------------------------- MODULE CallTypes -----------------------------
(***************************************************************************)
(* What an argument of one type costs as a parameter of another, in the    *)
(* three places of the compiler that choose among overloads:               *)
(*                                                                         *)
(*   - the type checker (typecheck/resolve.c) works on types;              *)
(*   - the C back end (codegen_c/expr.c) works on flattened H2TypeRef      *)
(*     records: a base name, a depth and flags;                            *)
(*   - the evaluator (evaluator.c) works on run-time values and scores.    *)
(*                                                                         *)
(* Types are records.  Arrays, slices, tuples, packs, floats, str and      *)
(* templates (anytype) are left out; a reference is read-only, because the *)
(* source has no way to write another (docs/language.md:378).              *)
(*                                                                         *)
(* CheckCost, BuildCost and RunScore of CallResolution stand for           *)
(* ConversionCost, ArgumentCost and ArgumentScore.                         *)
(***************************************************************************)
EXTENDS CallResolution

CONSTANTS Integer,      \* names of the integer types
          AliasTarget,  \* [alias name -> integer type name]
          Embedded      \* [struct name -> the struct it embeds]

Named(n)     == [kind |-> "name", name |-> n]
Alias(n)     == [kind |-> "alias", name |-> n]
Struct(n)    == [kind |-> "struct", name |-> n]
Ref(t)       == [kind |-> "ref", of |-> t]
Ptr(t)       == [kind |-> "ptr", of |-> t]
Opt(t)       == [kind |-> "opt", of |-> t]
Untyped      == [kind |-> "untyped"]

\* H2TCResolveAliasBaseType.
Peel(t) == IF t.kind = "alias" THEN Named(AliasTarget[t.name]) ELSE t

\* The structs reached from struct n by embedding, nearest first.
RECURSIVE Ancestors(_)
Ancestors(n) ==
    IF n \in DOMAIN Embedded THEN <<Embedded[n]>> \o Ancestors(Embedded[n]) ELSE << >>

\* Position of m among the ancestors of n, Refused when it is not one.
Distance(n, m) ==
    IF \E i \in DOMAIN Ancestors(n) : Ancestors(n)[i] = m
    THEN CHOOSE i \in DOMAIN Ancestors(n) : Ancestors(n)[i] = m
    ELSE Refused

\* H2TCEmbedDistanceToType between two different types.
EmbedDistance(dst, src) ==
    IF dst.kind = "struct" /\ src.kind = "struct" THEN Distance(src.name, dst.name) ELSE Refused

Upcasts(dst, src) == EmbedDistance(dst, src) # Refused

-----------------------------------------------------------------------------
(* Type checker.                                                           *)

RECURSIVE CanAssign(_, _)
CanAssign(dst, src) ==
    \/ dst = src
    \/ /\ dst.kind # "alias"
       /\ \/ src.kind = "untyped" /\ dst.kind = "name" /\ dst.name \in Integer
          \/ src.kind = "alias" /\ CanAssign(dst, Peel(src))
          \/ Upcasts(dst, src)
          \/ dst.kind = "ref" /\ src.kind \in {"ref", "ptr"} /\ CanAssign(dst.of, src.of)
          \/ /\ dst.kind = "ptr" /\ src.kind = "ptr"
             /\ Peel(dst.of) = Peel(src.of) \/ Upcasts(Peel(dst.of), Peel(src.of))
          \/ dst.kind = "opt" /\ src.kind = "opt" /\ CanAssign(dst.of, src.of)
          \/ dst.kind = "opt" /\ src.kind \notin {"opt", "alias"} /\ CanAssign(dst.of, src)

\* Variant: the distance of an embedded type is not counted.
RECURSIVE ConversionCost_FlatUpcast(_, _)
ConversionCost_FlatUpcast(dst, src) ==
    IF ~CanAssign(dst, src) THEN Refused
    ELSE IF dst = src THEN 0
    ELSE IF src.kind = "untyped" THEN 3
    ELSE IF src.kind = "alias" THEN ConversionCost_FlatUpcast(dst, Peel(src)) + 1
    ELSE IF dst.kind = "opt" /\ src.kind # "opt" THEN 4
    ELSE IF dst.kind = "opt" THEN ConversionCost_FlatUpcast(dst.of, src.of)
    ELSE IF dst.kind = src.kind /\ dst.kind \in {"ref", "ptr"} /\ Upcasts(dst.of, src.of) THEN 2
    ELSE IF Upcasts(dst, src) THEN 2
    ELSE 1

RECURSIVE ConversionCost(_, _)
ConversionCost(dst, src) ==
    IF ~CanAssign(dst, src) THEN Refused
    ELSE IF dst = src THEN 0
    ELSE IF src.kind = "untyped" THEN 3
    ELSE IF src.kind = "alias" THEN ConversionCost(dst, Peel(src)) + 1
    ELSE IF dst.kind = "opt" /\ src.kind # "opt" THEN 4
    ELSE IF dst.kind = "opt" THEN ConversionCost(dst.of, src.of)
    ELSE IF dst.kind = src.kind /\ dst.kind \in {"ref", "ptr"} /\ Upcasts(dst.of, src.of)
         THEN 1 + EmbedDistance(dst.of, src.of)
    ELSE IF Upcasts(dst, src) THEN 1 + EmbedDistance(dst, src)
    ELSE 1

-----------------------------------------------------------------------------
(* C back end.                                                             *)

\* ParseTypeRef: one base name, a pointer depth and two flags.
RECURSIVE TypeRef(_)
TypeRef(t) ==
    CASE t.kind \in {"name", "alias", "struct"} ->
           [base |-> t.name, ptrDepth |-> 0, readOnly |-> FALSE, isOptional |-> FALSE]
      [] t.kind = "untyped" ->
           [base |-> "int", ptrDepth |-> 0, readOnly |-> FALSE, isOptional |-> FALSE]
      [] t.kind = "ref" ->
           [TypeRef(t.of) EXCEPT !.ptrDepth = @ + 1, !.readOnly = TRUE]
      [] t.kind = "ptr" ->
           [TypeRef(t.of) EXCEPT !.ptrDepth = @ + 1, !.readOnly = FALSE]
      [] t.kind = "opt" -> [TypeRef(t.of) EXCEPT !.isOptional = TRUE]

\* ResolveScalarAliasBaseName.
ScalarBase(n) == IF n \in DOMAIN AliasTarget THEN AliasTarget[n] ELSE n

\* The argument's alias is expanded first; only when that fails are the
\* optional, the names and the embedded structs compared.
RECURSIVE TypeRefAssignableCost(_, _)
TypeRefAssignableCost(dst, src) ==
    LET expanded == TypeRefAssignableCost(dst, [src EXCEPT !.base = ScalarBase(src.base)])
        bare(r)  == [r EXCEPT !.isOptional = FALSE]
        steps    == Distance(ScalarBase(src.base), ScalarBase(dst.base))
    IN  IF dst = src THEN 0
        ELSE IF src.base \in DOMAIN AliasTarget /\ expanded # Refused THEN expanded + 1
        ELSE IF dst.isOptional /\ ~src.isOptional
             THEN IF TypeRefAssignableCost(bare(dst), src) = Refused THEN Refused ELSE 4
        ELSE IF dst.isOptional THEN TypeRefAssignableCost(bare(dst), bare(src))
        ELSE IF src.isOptional \/ dst.ptrDepth # src.ptrDepth THEN Refused
        ELSE IF dst.base = src.base
             THEN IF dst.readOnly = src.readOnly THEN 0 ELSE IF dst.readOnly THEN 1 ELSE Refused
        ELSE IF steps = Refused THEN Refused ELSE 1 + steps

\* The element of a variadic parameter keeps the read-only mark of its slice.
ParamRef(t, rest) == IF rest THEN [TypeRef(t) EXCEPT !.readOnly = TRUE] ELSE TypeRef(t)

\* ResolveCallTargetFromCandidates: a literal is an int first; when that is
\* refused, it is typed again with the parameter's type, at the cost of one.
ArgumentCost(t, rest, arg) ==
    LET dst  == ParamRef(t, rest)
        asIs == TypeRefAssignableCost(dst, TypeRef(arg))
    IN  IF /\ asIs = Refused
           /\ arg.kind = "untyped"
           /\ dst.ptrDepth = 0 /\ ScalarBase(dst.base) \in Integer
        THEN 1
        ELSE asIs

-----------------------------------------------------------------------------
(* Evaluator.                                                              *)

\* Variant: an alias accepts a value of its target.
ArgumentScore_NoAliasTag(dst, arg) ==
    IF dst.kind = "struct" \/ arg.kind = "struct"
    THEN IF dst = arg THEN 16
         ELSE IF Upcasts(dst, arg) THEN 16 - EmbedDistance(dst, arg) ELSE Refused
    ELSE IF dst.kind = "alias" THEN 4 ELSE 2

\* Every integer value has one kind; an alias is told by the value's tag.
ArgumentScore(dst, arg) ==
    IF dst.kind = "struct" \/ arg.kind = "struct"
    THEN IF dst = arg THEN 16
         ELSE IF Upcasts(dst, arg) THEN 16 - EmbedDistance(dst, arg) ELSE Refused
    ELSE IF dst.kind = "alias" THEN IF dst = arg THEN 4 ELSE Refused
    ELSE IF arg.kind = "alias" THEN 1 ELSE 2
=============================================================================
