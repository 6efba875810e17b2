--------------------------- MODULE CallResolution ---------------------------
(***************************************************************************)
(* One call of an overloaded name.  The type checker maps the arguments to *)
(* the parameters of each candidate, in declaration order, and keeps the   *)
(* cheapest.  Its choice is recorded, but both consumers choose again: the *)
(* C back end with the costs of its own types, the evaluator with a score  *)
(* of the values.  Each scan is one action per candidate.                  *)
(*                                                                         *)
(* Calls that are written `f(...)' are modelled: no receiver, no spread    *)
(* argument, no argument typed from the parameter other than a literal,    *)
(* no const parameter and no template.                                     *)
(***************************************************************************)
EXTENDS Integers, Sequences

\* A function is [params : Seq([name, low : BOOLEAN, type]), variadic : BOOLEAN], low
\* saying that the name starts with `_'; an argument is [type, explicit, implicit].
\* A family holds lists of functions and lists of arguments for them.
CONSTANTS Families, NoName,
          CheckCost(_, _),      \* parameter type, argument type: a number or Refused
          BuildCost(_, _, _),   \* parameter type, whether it is the variadic one, argument type
          RunScore(_, _)        \* parameter type, argument type

Refused == -1

Listed(s) == Len(s) \in Nat /\ DOMAIN s = 1 .. Len(s)

IsFunction(fn) ==
    /\ Listed(fn.params)
    /\ fn.variadic \in BOOLEAN /\ (fn.variadic => Len(fn.params) > 0)
    /\ \A p \in DOMAIN fn.params : fn.params[p].low \in BOOLEAN

CallsAssumption ==
    \A family \in Families :
        /\ {"funcs", "args"} = DOMAIN family
        /\ \A args \in family.args : Listed(args)
        /\ \A funcs \in family.funcs :
               /\ Listed(funcs)
               /\ \A f, g \in DOMAIN funcs : f # g => funcs[f] # funcs[g]
               /\ \A f \in DOMAIN funcs :
                      /\ IsFunction(funcs[f])
                      /\ \A p \in DOMAIN funcs[f].params, args \in family.args :
                             \A i \in DOMAIN args :
                                 CheckCost(funcs[f].params[p].type, args[i].type) \in Int
ASSUME CallsAssumption

VARIABLES call,     \* the call
          stage,    \* "check", "checked", "build", "run" or "end"
          scan,     \* the scan of the candidates under way
          checked,  \* the type checker's answer
          again     \* the answer of the C back end or the evaluator

vars == <<call, stage, scan, checked, again>>

Candidates == DOMAIN call.funcs
NoAnswer == [by |-> "none", status |-> "none", fn |-> 0] \* fn 0: no function

-----------------------------------------------------------------------------
(* Arguments and parameters.                                               *)

FixedCount(fn) == IF fn.variadic THEN Len(fn.params) - 1 ELSE Len(fn.params)

IsNamed(arg) == arg.explicit # NoName

\* H2TCResolveCallByName: leading named arguments are passed over, unless
\* every argument is named.
FirstPositional(args) ==
    IF \A i \in DOMAIN args : IsNamed(args[i]) THEN 1
    ELSE CHOOSE i \in DOMAIN args : ~IsNamed(args[i]) /\ \A j \in 1 .. i - 1 : IsNamed(args[j])

\* H2TCPositionalCallPrefixEnd: the first positional parameter and the
\* `_' parameters that follow it.
InPrefix(fn, first, p) == \A q \in first + 1 .. p : fn.params[q].low

\* The parameter named n after the first positional one, 0 when there is none.
ByName(fn, first, n) ==
    LET found == { p \in first + 1 .. FixedCount(fn) : fn.params[p].name = n }
    IN  IF found = {} THEN 0 ELSE CHOOSE p \in found : \A q \in found : p <= q

\* The parameter of the fixed argument i > first.
LaterParam(fn, args, first, i) ==
    IF IsNamed(args[i]) THEN ByName(fn, first, args[i].explicit)
    ELSE IF InPrefix(fn, first, i) THEN i
    ELSE IF args[i].implicit # NoName THEN ByName(fn, first, args[i].implicit)
    ELSE 0

\* MapCallArgsToParams of the C back end does not compare the first name.
CParamOf(fn, args, i) ==
    LET first == FirstPositional(args)
    IN  IF i > FixedCount(fn) THEN IF IsNamed(args[i]) THEN 0 ELSE FixedCount(fn) + 1
        ELSE IF i <= first THEN i
        ELSE LaterParam(fn, args, first, i)

\* H2TCMapCallArgsToParams, H2TCPrepareCallBinding: the parameter an
\* argument goes to, 0 when it is refused.
ParamOf(fn, args, i) ==
    LET first == FirstPositional(args)
    IN  IF i > FixedCount(fn) THEN IF IsNamed(args[i]) THEN 0 ELSE FixedCount(fn) + 1
        ELSE IF i < first THEN i
        ELSE IF i = first THEN IF args[i].explicit \in {NoName, fn.params[i].name} THEN i ELSE 0
        ELSE LaterParam(fn, args, first, i)

\* Every argument has its parameter and every fixed parameter its argument.
Binds(param, fn, args) ==
    /\ IF fn.variadic THEN Len(args) >= FixedCount(fn) ELSE Len(args) = FixedCount(fn)
    /\ \A i \in DOMAIN args : param[i] # 0
    /\ \A i, j \in 1 .. FixedCount(fn) : i # j => param[i] # param[j]

-----------------------------------------------------------------------------
(* What a candidate costs.                                                 *)

CheckCosts(fn, args) ==
    [i \in DOMAIN args |-> CheckCost(fn.params[ParamOf(fn, args, i)].type, args[i].type)]

CheckViable(fn, args) ==
    /\ Binds([i \in DOMAIN args |-> ParamOf(fn, args, i)], fn, args)
    /\ \A i \in DOMAIN args : CheckCosts(fn, args)[i] # Refused

BuildCosts(fn, args) ==
    [i \in DOMAIN args |->
        LET p == CParamOf(fn, args, i)
        IN  BuildCost(fn.params[p].type, p > FixedCount(fn), args[i].type)]

BuildViable(fn, args) ==
    /\ Binds([i \in DOMAIN args |-> CParamOf(fn, args, i)], fn, args)
    /\ \A i \in DOMAIN args : BuildCosts(fn, args)[i] # Refused

\* HOPEvalScoreFunctionCandidate: the values in the order of the call.
RunScores(fn, args) ==
    [i \in DOMAIN args |->
        RunScore(fn.params[IF i > FixedCount(fn) THEN FixedCount(fn) + 1 ELSE i].type,
                 args[i].type)]

\* The values whose scores are modelled.
Plain(t) == t.kind \in {"name", "alias", "struct", "untyped"}

RunFits(fn, args) ==
    IF fn.variadic THEN Len(args) >= FixedCount(fn) ELSE Len(args) = FixedCount(fn)

RunViable(fn, args) ==
    RunFits(fn, args) /\ \A i \in DOMAIN args : RunScores(fn, args)[i] # Refused

Total(scores) ==
    LET sum[i \in 0 .. Len(scores)] == IF i = 0 THEN 0 ELSE sum[i - 1] + scores[i]
    IN  sum[Len(scores)]

Score(fn, args) == Total(RunScores(fn, args)) + IF fn.variadic THEN 0 ELSE 1

\* H2TCCostVectorCompare, CostVecCmp.
Cheaper(a, b) ==
    \E i \in DOMAIN a : a[i] < b[i] /\ \A j \in 1 .. i - 1 : a[j] = b[j]

-----------------------------------------------------------------------------
(* The scans.                                                              *)

Start == [next |-> 1, best |-> 0, ambiguous |-> FALSE]

Init ==
    /\ \E family \in Families : call \in [funcs : family.funcs, args : family.args]
    /\ stage = "check"
    /\ scan = Start
    /\ checked = NoAnswer
    /\ again = NoAnswer

Scanning(s) == stage = s /\ scan.next \in Candidates
Scanned(s)  == stage = s /\ scan.next \notin Candidates

Current == call.funcs[scan.next]
Best    == call.funcs[scan.best]

PassOver == [scan EXCEPT !.next = @ + 1]
Take     == [next |-> scan.next + 1, best |-> scan.next, ambiguous |-> FALSE]
Tie      == [scan EXCEPT !.next = @ + 1, !.ambiguous = TRUE]

Status == IF scan.best = 0 THEN "nomatch" ELSE IF scan.ambiguous THEN "ambiguous" ELSE "found"

\* Variant: a better candidate does not end an earlier ambiguity.
CheckStep_StaysAmbiguous ==
    LET cur  == CheckCosts(Current, call.args)
        best == CheckCosts(Best, call.args)
    IN  IF ~CheckViable(Current, call.args) THEN PassOver
        ELSE IF scan.best = 0 THEN Take
        ELSE IF Cheaper(cur, best) \/ (cur = best /\ Best.variadic /\ ~Current.variadic)
             THEN [Take EXCEPT !.ambiguous = scan.ambiguous]
        ELSE IF cur = best /\ (Best.variadic \/ ~Current.variadic) THEN Tie
        ELSE PassOver

\* The total only decides between equal vectors, whose totals are equal.
CheckStep ==
    LET cur  == CheckCosts(Current, call.args)
        best == CheckCosts(Best, call.args)
    IN  IF ~CheckViable(Current, call.args) THEN PassOver
        ELSE IF scan.best = 0 THEN Take
        ELSE IF Cheaper(cur, best) \/ (cur = best /\ Best.variadic /\ ~Current.variadic) THEN Take
        ELSE IF cur = best /\ (Best.variadic \/ ~Current.variadic) THEN Tie
        ELSE PassOver

\* H2TCResolveCallFromCandidates, one candidate.
CheckCandidate ==
    /\ Scanning("check")
    /\ scan' = CheckStep
    /\ UNCHANGED <<call, stage, checked, again>>

\* A call without a function is an error and the program stops here.
CheckEnd ==
    /\ Scanned("check")
    /\ checked' = [by |-> "check", status |-> Status, fn |-> scan.best]
    /\ stage' = IF Status = "found" THEN "checked" ELSE "end"
    /\ UNCHANGED <<call, scan, again>>

\* The checked program is compiled to C ...
Build ==
    /\ stage = "checked"
    /\ stage' = "build" /\ scan' = Start
    /\ UNCHANGED <<call, checked, again>>

\* ... or run; the scores of plain values given by position are modelled.
Run ==
    /\ stage = "checked"
    /\ \A i \in DOMAIN call.args : ~IsNamed(call.args[i]) /\ Plain(call.args[i].type)
    /\ \A f \in Candidates :
           \A p \in DOMAIN call.funcs[f].params : Plain(call.funcs[f].params[p].type)
    /\ stage' = "run" /\ scan' = Start
    /\ UNCHANGED <<call, checked, again>>

\* ResolveCallTargetFromCandidates, one candidate.
BuildCandidate ==
    /\ Scanning("build")
    /\ LET cur  == BuildCosts(Current, call.args)
           best == BuildCosts(Best, call.args)
       IN  scan' = IF ~BuildViable(Current, call.args) THEN PassOver
                   ELSE IF scan.best = 0 \/ Cheaper(cur, best) THEN Take
                   ELSE IF cur = best THEN Tie
                   ELSE PassOver
    /\ UNCHANGED <<call, stage, checked, again>>

\* HOPEvalResolveFunctionBySlice, one function of the name.
RunCandidate ==
    /\ Scanning("run")
    /\ LET cur  == Score(Current, call.args)
           best == Score(Best, call.args)
       IN  scan' = IF ~RunViable(Current, call.args) THEN PassOver
                   ELSE IF scan.best = 0 \/ cur > best THEN Take
                   ELSE IF cur = best THEN Tie
                   ELSE PassOver
    /\ UNCHANGED <<call, stage, checked, again>>

\* ResolveCallTarget's answer.
BuildEnd ==
    /\ Scanned("build")
    /\ again' = [by |-> "build", status |-> Status, fn |-> scan.best]
    /\ stage' = "end"
    /\ UNCHANGED <<call, scan, checked>>

\* When no value fits, the only function with that many parameters is taken.
RunEnd ==
    /\ Scanned("run")
    /\ LET fit == { f \in Candidates : RunFits(call.funcs[f], call.args) }
       IN  again' = IF scan.best = 0 /\ \E f \in fit : fit = {f}
                    THEN [by |-> "run", status |-> "found", fn |-> CHOOSE f \in fit : TRUE]
                    ELSE [by |-> "run", status |-> Status, fn |-> scan.best]
    /\ stage' = "end"
    /\ UNCHANGED <<call, scan, checked>>

Done == stage = "end" /\ UNCHANGED vars

Next ==
    \/ CheckCandidate \/ CheckEnd
    \/ Build \/ BuildCandidate \/ BuildEnd
    \/ Run \/ RunCandidate \/ RunEnd
    \/ Done

Spec == Init /\ [][Next]_vars

-----------------------------------------------------------------------------
(* Properties.                                                             *)

\* f is preferred to g for what it costs, whatever their places.
Preferred(f, g) ==
    LET cf == CheckCosts(call.funcs[f], call.args)
        cg == CheckCosts(call.funcs[g], call.args)
    IN  Cheaper(cf, cg) \/ (cf = cg /\ ~call.funcs[f].variadic /\ call.funcs[g].variadic)

Viable == { f \in Candidates : CheckViable(call.funcs[f], call.args) }

\* The scan of the type checker (resolve.c:4542) keeps one candidate, its
\* costs and a flag, and each later candidate may replace them.  Whatever
\* the order of the declarations, its answer is the function preferred to
\* every other that the arguments fit; it is "ambiguous" when functions fit
\* and none is preferred to the others, and "no match" when none fits.
CheckedIsCheapest ==
    checked.by = "check" =>
        LET first == { f \in Viable : \A g \in Viable \ {f} : Preferred(f, g) }
        IN  CASE checked.status = "found"     -> first = {checked.fn}
              [] checked.status = "ambiguous" -> first = {} /\ Viable # {}
              [] checked.status = "nomatch"   -> Viable = {}

\* A fixed argument goes to the parameter of its name (resolve.c:2928): the
\* name it is written with, or that of the variable it consists of when its
\* position is past the `_' parameters.  Each fixed parameter gets one
\* argument: a name that is taken makes the candidate unfit.  Leading named
\* arguments that a positional one follows are excepted; the code takes them
\* by position.
NamesKept ==
    checked.status = "found" =>
        LET fn       == call.funcs[checked.fn]
            fixed    == 1 .. FixedCount(fn)
            named(i) == fn.params[ParamOf(fn, call.args, i)].name
        IN  /\ { ParamOf(fn, call.args, i) : i \in fixed } = fixed
            /\ \A i \in fixed :
                   /\ IsNamed(call.args[i]) /\ i >= FirstPositional(call.args)
                        => named(i) = call.args[i].explicit
                   /\ ~IsNamed(call.args[i]) /\ i > 1 /\ ~fn.params[i].low
                        /\ FirstPositional(call.args) = 1
                        => named(i) = call.args[i].implicit

\* The C back end chooses the type checker's function and binds each argument
\* to the same parameter.
SameInC ==
    again.by = "build" =>
        /\ again.status = "found" /\ again.fn = checked.fn
        /\ LET fn == call.funcs[checked.fn]
           IN  \A i \in DOMAIN call.args :
                   CParamOf(fn, call.args, i) = ParamOf(fn, call.args, i)

ParamTypes == UNION { { f.params[p].type : p \in DOMAIN f.params } :
                      f \in { call.funcs[g] : g \in Candidates } }

\* Calls the two cost functions agree on: no literal, no `*T', no
\* optional alias, no variadic candidate, and none whose first parameter has
\* another name than the call says.
Comparable ==
    /\ \A i \in DOMAIN call.args : call.args[i].type.kind # "untyped"
    /\ \A t \in ParamTypes \cup { call.args[i].type : i \in DOMAIN call.args } :
           /\ t.kind # "ptr"
           /\ t.kind = "opt" => t.of.kind # "alias"
    /\ \A f \in Candidates :
           LET fn == call.funcs[f]
           IN  /\ ~fn.variadic
               /\ fn.params # << >> /\ (\A i \in DOMAIN call.args : IsNamed(call.args[i]))
                    => \A i \in DOMAIN call.args : i = 1 => fn.params[i].name = call.args[i].explicit

\* The C back end has costs of its own for its own types (expr.c:806) and does
\* not use the recorded choice.  A call it resolves otherwise runs another
\* function than the one that was checked, in compiled programs only.
BuildAgrees == Comparable => SameInC

\* The evaluator adds one score per argument (evaluator.c:7337), one integer
\* kind for all widths and one point for a fixed parameter list, so that it
\* may prefer another function than the lexicographic order does.  With one
\* argument and no variadic candidate it runs the checked function or refuses
\* the call as ambiguous.
RunAgrees ==
    /\ again.by = "run"
    /\ Len(call.args) = 1
    /\ \A f \in Candidates : ~call.funcs[f].variadic
    => \/ again.status = "ambiguous"
       \/ again.status = "found" /\ again.fn = checked.fn
=============================================================================
