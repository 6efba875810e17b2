----------------------------- MODULE FormatExpr -----------------------------
(***************************************************************************)
(* Expressions on their way through `hop fmt`: characters, tokens (H2Lex), *)
(* trees (parse.c, H2PParseExpr) and characters again (format.c,           *)
(* H2FmtEmitExpr).  A text is a sequence of symbols: a name, a literal, a  *)
(* type name, the keyword `as`, a space, or one punctuation character, for *)
(* which characters stand side by side matters.                            *)
(***************************************************************************)
EXTENDS Naturals, Sequences, SequencesExt

(***************************************************************************)
(* Trees.  paren: the expression was written in parentheses.               *)
(***************************************************************************)
Node(k, op, c) == [k |-> k, op |-> op, c |-> c, paren |-> FALSE]
Ident(x)       == Node("ident", x, <<>>)
Paren(t)       == [t EXCEPT !.paren = TRUE]

Unaries  == {"+", "-", "!", "*", "&"}
Assigns  == {"=", "+=", "-=", "*=", "/=", "%=", "&="}
Compares == {"&&", "==", "!=", "<", "<="}

\* The same table is kept by the parser and by the formatter.
BinPrec(op) ==
    IF op \in Assigns THEN 1
    ELSE CASE op = "&&" -> 3
           [] op \in Compares \ {"&&"} -> 4
           [] op \in {"+", "-"} -> 5
           [] op \in {"*", "/", "%", "&"} -> 6
           [] OTHER -> 0

-----------------------------------------------------------------------------
(* Characters to tokens.                                                   *)

Pairs == {<<"&", "&">>, <<"=", "=">>, <<"!", "=">>, <<"<", "=">>, <<"+", "=">>,
          <<"-", "=">>, <<"*", "=">>, <<"/", "=">>, <<"%", "=">>, <<"&", "=">>}
At(s, i) == IF i <= Len(s) THEN s[i] ELSE ""

RECURSIVE SkipBlockComment(_, _, _), Lex(_, _)

\* The position behind the comment, 0 when it does not end.  Comments nest.
SkipBlockComment(s, i, depth) ==
    IF i > Len(s) THEN 0
    ELSE IF <<At(s, i), At(s, i + 1)>> = <<"/", "*">>
         THEN SkipBlockComment(s, i + 2, depth + 1)
    ELSE IF <<At(s, i), At(s, i + 1)>> = <<"*", "/">>
         THEN IF depth = 1 THEN i + 2 ELSE SkipBlockComment(s, i + 2, depth - 1)
    ELSE SkipBlockComment(s, i + 1, depth)

\* The tokens from position i on; a text that cannot be read ends in "invalid".
\* A pair of characters that is an operator is always read as one.
Lex(s, i) ==
    LET two == <<At(s, i), At(s, i + 1)>>
        behind == SkipBlockComment(s, i + 2, 1)
    IN  IF i > Len(s) THEN <<"eof">>
        ELSE IF s[i] = " " THEN Lex(s, i + 1)
        ELSE IF two = <<"/", "/">> THEN <<"eof">>
        ELSE IF two = <<"/", "*">>
             THEN IF behind = 0 THEN <<"invalid">> ELSE Lex(s, behind)
        ELSE IF two \in Pairs THEN <<two[1] \o two[2]>> \o Lex(s, i + 2)
        ELSE <<s[i]>> \o Lex(s, i + 1)

-----------------------------------------------------------------------------
(* Tokens to trees: each operator gives [ok, t, i], the tree and the       *)
(* position behind it.                                                     *)

Got(t, i) == [ok |-> TRUE, t |-> t, i |-> i]
NoExpr    == [ok |-> FALSE, t |-> Ident("?"), i |-> 0]
Names     == {"a", "b", "T"}

RECURSIVE ParsePrimary(_, _), ParseItems(_, _, _), ParsePostfix(_, _), ParsePrefix(_, _),
          ParseExpr(_, _, _), ParseInfix(_, _, _)

\* The rest of a list whose items so far are given, up to its ")".
ParseItems(ts, i, items) ==
    LET item == ParseExpr(ts, i, 1)
    IN  IF ~item.ok THEN NoExpr
        ELSE IF ts[item.i] = "," THEN ParseItems(ts, item.i + 1, Append(items, item.t))
        ELSE IF ts[item.i] = ")"
             THEN Got(Node("tuple", "", Append(items, item.t)), item.i + 1)
        ELSE NoExpr

ParsePrimary(ts, i) ==
    LET list == ParseItems(ts, i + 1, <<>>)
    IN  IF ts[i] \in Names THEN Got(Ident(ts[i]), i + 1)
        ELSE IF ts[i] # "(" THEN NoExpr
        ELSE IF list.ok /\ Len(list.t.c) = 1 THEN Got(Paren(list.t.c[1]), list.i)
        ELSE list

ParsePostfix(ts, e) ==
    IF ~e.ok THEN NoExpr
    ELSE CASE ts[e.i] = "(" ->
                LET args == ParseItems(ts, e.i + 1, <<>>)
                IN  IF At(ts, e.i + 1) = ")"
                    THEN ParsePostfix(ts, Got(Node("call", "", <<e.t>>), e.i + 2))
                    ELSE IF ~args.ok THEN NoExpr
                    ELSE ParsePostfix(ts, Got(Node("call", "", <<e.t>> \o args.t.c), args.i))
           [] ts[e.i] = "as" ->
                IF At(ts, e.i + 1) # "T" THEN NoExpr
                ELSE ParsePostfix(ts, Got(Node("cast", "T", <<e.t>>), e.i + 2))
           [] ts[e.i] = "!" -> ParsePostfix(ts, Got(Node("unwrap", "", <<e.t>>), e.i + 1))
           [] OTHER -> e

ParsePrefix(ts, i) ==
    IF ts[i] \notin Unaries THEN ParsePostfix(ts, ParsePrimary(ts, i))
    ELSE LET rhs == ParsePrefix(ts, i + 1)
         IN  IF rhs.ok THEN Got(Node("unary", ts[i], <<rhs.t>>), rhs.i) ELSE NoExpr

ParseExpr(ts, i, minPrec) == ParseInfix(ts, ParsePrefix(ts, i), minPrec)

ParseInfix(ts, lhs, minPrec) ==
    IF ~lhs.ok THEN NoExpr
    ELSE LET op == ts[lhs.i]
             prec == BinPrec(op)
             rhs == ParseExpr(ts, lhs.i + 1, IF op \in Assigns THEN prec ELSE prec + 1)
         IN  IF prec = 0 \/ prec < minPrec THEN lhs
             ELSE IF ~rhs.ok THEN NoExpr
             ELSE ParseInfix(ts, Got(Node("binary", op, <<lhs.t, rhs.t>>), rhs.i), minPrec)

\* The operand of a return: an expression, or a list of them without parentheses.
RECURSIVE ParseList(_, _, _)
ParseList(ts, i, items) ==
    LET item == ParseExpr(ts, i, 1)
    IN  IF ~item.ok THEN NoExpr
        ELSE IF ts[item.i] = "," THEN ParseList(ts, item.i + 1, Append(items, item.t))
        ELSE IF ts[item.i] # "eof" THEN NoExpr
        ELSE IF items = <<>> THEN item
        ELSE Got(Node("list", "", Append(items, item.t)), item.i)
Parse(s) == ParseList(Lex(s, 1), 1, <<>>)

-----------------------------------------------------------------------------
(* Rewriting of the tree.                                                  *)

RECURSIVE BinaryCastParens(_)
BinaryCastParens(t) ==
    LET bare(u) == IF t.k = "binary" /\ u.k = "cast" THEN [u EXCEPT !.paren = FALSE] ELSE u
    IN  [t EXCEPT !.c = [j \in DOMAIN t.c |-> bare(BinaryCastParens(t.c[j]))]]

ReturnParens(t) ==
    IF t.k = "tuple" THEN [t EXCEPT !.paren = FALSE, !.k = "list"]
    ELSE [t EXCEPT !.paren = FALSE]

RewriteReturn(t) == ReturnParens(BinaryCastParens(t))

-----------------------------------------------------------------------------
(* Trees to characters.  up: the nodes above, the nearest first.           *)

NeedsParens(parent, child, right) ==
    /\ child.k = "binary"
    /\ \/ BinPrec(child.op) < BinPrec(parent.op)
       \/ /\ BinPrec(child.op) = BinPrec(parent.op)
          /\ right # (parent.op \in Assigns)

TokenOpText(op) == IF \E p \in Pairs : op = p[1] \o p[2]
                   THEN CHOOSE p \in Pairs : op = p[1] \o p[2] ELSE <<op>>

RECURSIVE InSum(_, _)
InSum(prec, up) ==
    /\ up # <<>> /\ up[1].k = "binary"
    /\ up[1].op \notin Assigns \cup Compares
    /\ \/ BinPrec(up[1].op) < prec
       \/ BinPrec(up[1].op) = prec /\ ~up[1].paren /\ InSum(prec, Tail(up))

TightMulDivMod(t, up) ==
    t.op \in {"*", "/", "%"} /\ ~t.paren /\ InSum(BinPrec(t.op), up)

RECURSIVE EmitExpr(_, _, _)
EmitExpr(t, force, up) ==
    LET sub(j, f) == EmitExpr(t.c[j], f, <<t>> \o up)
        items(from) == FoldLeftDomain(
            LAMBDA s, j : IF j < from THEN s
                          ELSE s \o (IF j = from THEN <<>> ELSE <<",", " ">>) \o sub(j, FALSE),
            <<>>, t.c)
        operator == IF TightMulDivMod(t, up) THEN <<t.op>>
                    ELSE <<" ">> \o TokenOpText(t.op) \o <<" ">>
        core ==
            CASE t.k = "ident"  -> <<t.op>>
              [] t.k = "unary"  -> <<t.op>> \o sub(1, t.c[1].k = "binary")
              [] t.k = "binary" -> sub(1, NeedsParens(t, t.c[1], FALSE)) \o operator
                                     \o sub(2, NeedsParens(t, t.c[2], TRUE))
              [] t.k = "call"   -> sub(1, FALSE) \o <<"(">> \o items(2) \o <<")">>
              [] t.k = "cast"   -> sub(1, FALSE) \o <<" ", "as", " ", t.op>>
              [] t.k = "unwrap" -> sub(1, FALSE) \o <<"!">>
              [] t.k = "tuple"  -> <<"(">> \o items(1) \o <<")">>
              [] t.k = "list"   -> items(1)
    IN  IF force \/ t.paren THEN <<"(">> \o core \o <<")">> ELSE core

FormatReturn(t) == EmitExpr(RewriteReturn(t), FALSE, <<>>)

-----------------------------------------------------------------------------
(* What is compared: the tree without its parentheses, and the text the    *)
(* programmer may have written for it, every symbol apart.                 *)

RECURSIVE Shape(_), Spread(_)
Shape(t) == [k |-> IF t.k = "list" THEN "tuple" ELSE t.k, op |-> t.op,
             c |-> [j \in DOMAIN t.c |-> Shape(t.c[j])]]

Spread(t) ==
    LET items(from) == FoldLeftDomain(
            LAMBDA s, j : IF j < from THEN s
                          ELSE s \o (IF j = from THEN <<>> ELSE <<",">>) \o Spread(t.c[j]),
            <<>>, t.c)
        core ==
            CASE t.k = "ident"  -> <<t.op>>
              [] t.k = "unary"  -> <<t.op, " ">> \o Spread(t.c[1])
              [] t.k = "binary" -> Spread(t.c[1]) \o <<" ">> \o TokenOpText(t.op) \o <<" ">>
                                     \o Spread(t.c[2])
              [] t.k = "call"   -> Spread(t.c[1]) \o <<"(">> \o items(2) \o <<")">>
              [] t.k = "cast"   -> Spread(t.c[1]) \o <<" ", "as", " ", t.op>>
              [] t.k = "unwrap" -> Spread(t.c[1]) \o <<" ", "!">>
              [] t.k = "tuple"  -> <<"(">> \o items(1) \o <<")">>
    IN  IF t.paren THEN <<"(">> \o core \o <<")">> ELSE core

(***************************************************************************)
(* Known disagreements: operators that were written apart come to stand    *)
(* side by side and are read as `&&` or as the start of a comment: a       *)
(* reference to a reference, and a quotient by a dereference in a sum.     *)
(***************************************************************************)
RECURSIVE Collides(_, _)
Collides(t, up) ==
    \/ t.k = "unary" /\ t.op = "&" /\ t.c[1].k = "unary" /\ t.c[1].op = "&" /\ ~t.c[1].paren
    \/ /\ t.k = "binary" /\ t.op = "/" /\ TightMulDivMod(t, up)
       /\ t.c[2].k = "unary" /\ t.c[2].op = "*" /\ ~t.c[2].paren
    \/ \E j \in DOMAIN t.c : Collides(t.c[j], <<t>> \o up)
=============================================================================
