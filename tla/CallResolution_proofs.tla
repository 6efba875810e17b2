------------------------ MODULE CallResolution_proofs ------------------------
(***************************************************************************)
(* Theorems about the type checker's choice among overloads, whatever the  *)
(* conversions between its types cost: the scan of the candidates finds    *)
(* the cheapest one in every order of the declarations, and the arguments  *)
(* of a call that is accepted keep their names.                            *)
(***************************************************************************)
EXTENDS CallResolution, FiniteSetTheorems, WellFoundedInduction, TLAPS

Fits(f)  == CheckViable(call.funcs[f], call.args)
Costs(f) == CheckCosts(call.funcs[f], call.args)

\* The call is one of a family.
CallFits ==
    /\ Listed(call.funcs)
    /\ Listed(call.args)
    /\ \A f \in DOMAIN call.funcs :
           /\ IsFunction(call.funcs[f])
           /\ \A p \in DOMAIN call.funcs[f].params : \A i \in DOMAIN call.args :
                  CheckCost(call.funcs[f].params[p].type, call.args[i].type) \in Int

Scan == [next : Nat, best : Nat, ambiguous : BOOLEAN]

\* What a scan s has found among the candidates before s.next: none is preferred
\* to the best one, and the flag says that the best is not preferred to all.
ScanFits(s) ==
    /\ s.next \in 1 .. Len(call.funcs) + 1
    /\ s.best \in 0 .. s.next - 1
    /\ s.best = 0 => \A g \in 1 .. s.next - 1 : ~Fits(g)
    /\ s.best # 0 =>
           /\ Fits(s.best)
           /\ \A g \in 1 .. s.next - 1 : Fits(g) => ~Preferred(g, s.best)
           /\ s.ambiguous <=> \E g \in 1 .. s.next - 1 :
                                  g # s.best /\ Fits(g) /\ ~Preferred(s.best, g)

ScanInv ==
    /\ CallFits
    /\ scan \in Scan
    /\ stage = "check" => ScanFits(scan) /\ checked = NoAnswer
    /\ checked.status = "found" => checked.fn \in Viable
    /\ CheckedIsCheapest

-----------------------------------------------------------------------------
(* Cost vectors.                                                           *)

\* A set of numbers that is not empty has a least one.
LEMMA LeastNumber ==
    ASSUME NEW T, T \subseteq Nat, T # {}
    PROVE  \E x \in T : \A y \in T : x <= y
<1>1. PICK R : R = {p \in Nat \X Nat : p[1] < p[2]}
  OBVIOUS
<1>2. IsWellFoundedOn(R, Nat)
  BY <1>1, NatLessThanWellFounded, Zenon DEF OpToRel
<1>3. \E x \in T : \A y \in T : <<y, x>> \notin R
  BY <1>2, WFMin
<1>4. \A x, y \in Nat : <<y, x>> \notin R => x <= y
  BY <1>1
<1> QED BY <1>3, <1>4

\* H2TCCostVectorCompare orders the vectors of a call: the first place where two
\* differ decides.
LEMMA CheaperIrreflexive ==
    ASSUME NEW n \in Nat, NEW a \in [1 .. n -> Int]
    PROVE  ~Cheaper(a, a)
BY DEF Cheaper

\* The earlier of the two places where the vectors differ decides.
LEMMA CheaperTransitive ==
    ASSUME NEW n \in Nat, NEW a \in [1 .. n -> Int], NEW b \in [1 .. n -> Int], NEW c \in [1 .. n -> Int],
           Cheaper(a, b), Cheaper(b, c)
    PROVE  Cheaper(a, c)
<1>1. PICK i \in 1 .. n : a[i] < b[i] /\ \A k \in 1 .. i - 1 : a[k] = b[k]
  BY DEF Cheaper
<1>2. PICK j \in 1 .. n : b[j] < c[j] /\ \A k \in 1 .. j - 1 : b[k] = c[k]
  BY DEF Cheaper
<1>3. CASE i <= j
  <2>1. a[i] < c[i]
    <3>1. CASE i = j
      BY <1>1, <1>2, <3>1
    <3>2. CASE i # j
      <4>1. i \in 1 .. j - 1
        BY <1>3, <3>2
      <4> QED BY <1>1, <1>2, <4>1
    <3> QED BY <3>1, <3>2
  <2>2. \A k \in 1 .. i - 1 : a[k] = c[k]
    <3>1. \A k \in 1 .. i - 1 : k \in 1 .. j - 1
      BY <1>3
    <3> QED BY <1>1, <1>2, <3>1
  <2> QED BY <2>1, <2>2 DEF Cheaper
<1>4. CASE j < i
  <2>1. j \in 1 .. i - 1 /\ \A k \in 1 .. j - 1 : k \in 1 .. i - 1
    BY <1>4
  <2>2. a[j] < c[j] /\ \A k \in 1 .. j - 1 : a[k] = c[k]
    BY <1>1, <1>2, <2>1
  <2> QED BY <2>2 DEF Cheaper
<1> QED BY <1>3, <1>4

\* Of two different vectors one is the cheaper.
LEMMA CheaperTotal ==
    ASSUME NEW n \in Nat, NEW a \in [1 .. n -> Int], NEW b \in [1 .. n -> Int], a # b
    PROVE  Cheaper(a, b) \/ Cheaper(b, a)
<1> DEFINE T == { i \in 1 .. n : a[i] # b[i] }
<1>1. T # {}
  OBVIOUS
<1>2. T \subseteq Nat
  OBVIOUS
<1>3. PICK i \in T : \A j \in T : i <= j
  BY <1>1, <1>2, LeastNumber
<1>4. i \in 1 .. n /\ a[i] # b[i]
  BY <1>3
<1>5. ASSUME NEW j \in 1 .. i - 1
      PROVE  a[j] = b[j]
  <2>1. j \in 1 .. n /\ ~(i <= j)
    BY <1>4
  <2> QED BY <1>3, <2>1
<1> HIDE DEF T
<1>6. a[i] < b[i] \/ b[i] < a[i]
  BY <1>4
<1> QED BY <1>4, <1>5, <1>6 DEF Cheaper

-----------------------------------------------------------------------------
(* Arguments and parameters.                                               *)

\* The first positional argument is one of the arguments.
LEMMA FirstIsArgument ==
    ASSUME NEW args, Listed(args)
    PROVE  /\ FirstPositional(args) \in Nat \ {0}
           /\ args # << >> => FirstPositional(args) \in DOMAIN args
<1>1. CASE \A i \in DOMAIN args : IsNamed(args[i])
  <2>1. FirstPositional(args) = 1
    BY <1>1 DEF FirstPositional
  <2>2. Len(args) = 0 => args = << >>
    BY DEF Listed
  <2> QED BY <2>1, <2>2 DEF Listed
<1>2. CASE \E i \in DOMAIN args : ~IsNamed(args[i])
  <2> DEFINE T == { i \in DOMAIN args : ~IsNamed(args[i]) }
  <2>1. T # {} /\ T \subseteq Nat
    BY <1>2 DEF Listed
  <2>2. PICK i \in T : \A j \in T : i <= j
    BY <2>1, LeastNumber
  <2>3. i \in 1 .. Len(args) /\ Len(args) \in Nat
    BY <2>2 DEF Listed
  <2>4. ASSUME NEW j \in 1 .. i - 1
        PROVE  IsNamed(args[j])
    <3>1. j \in 1 .. Len(args) /\ ~(i <= j)
      BY <2>3
    <3> QED BY <2>2, <3>1 DEF Listed
  <2>5. i \in DOMAIN args /\ ~IsNamed(args[i]) /\ \A j \in 1 .. i - 1 : IsNamed(args[j])
    BY <2>2, <2>4
  <2> HIDE DEF T
  <2>6. FirstPositional(args) \in DOMAIN args
    BY <1>2, <2>5 DEF FirstPositional
  <2> QED BY <2>6 DEF Listed
<1> QED BY <1>1, <1>2

\* A parameter found by name is behind the first one and has that name.
LEMMA ByNameFinds ==
    ASSUME NEW fn, NEW first \in Nat, NEW n, FixedCount(fn) \in Int, ByName(fn, first, n) # 0
    PROVE  /\ ByName(fn, first, n) \in first + 1 .. FixedCount(fn)
           /\ fn.params[ByName(fn, first, n)].name = n
<1> DEFINE found == { p \in first + 1 .. FixedCount(fn) : fn.params[p].name = n }
<1>1. found # {}
  BY DEF ByName
<1>2. found \subseteq Nat
  OBVIOUS
<1>3. PICK p \in found : \A q \in found : p <= q
  BY <1>1, <1>2, LeastNumber
<1>4. ByName(fn, first, n) = CHOOSE q \in found : \A h \in found : q <= h
  BY <1>1 DEF ByName
<1> HIDE DEF found
<1>5. ByName(fn, first, n) \in found
  BY <1>3, <1>4
<1> QED BY <1>5 DEF found

\* The type checker's parameters of a function that binds the arguments are its own.
LEMMA ParamInRange ==
    ASSUME NEW fn, NEW args, IsFunction(fn), Listed(args), NEW i \in DOMAIN args,
           ParamOf(fn, args, i) # 0
    PROVE  /\ i <= FixedCount(fn) => ParamOf(fn, args, i) \in 1 .. FixedCount(fn)
           /\ i > FixedCount(fn) => ParamOf(fn, args, i) = FixedCount(fn) + 1
<1>1. FixedCount(fn) \in Nat /\ i \in Nat /\ i >= 1
  BY DEF IsFunction, Listed, FixedCount
<1>2. CASE i > FixedCount(fn)
  BY <1>1, <1>2 DEF ParamOf
<1>3. CASE i <= FixedCount(fn)
  <2> DEFINE first == FirstPositional(args)
  <2>1. first \in Nat
    BY FirstIsArgument
  <2>2. ~(i > FixedCount(fn)) /\ i \in 1 .. FixedCount(fn)
    BY <1>1, <1>3
  <2> HIDE DEF first
  <2>3. CASE i <= first
    BY <2>1, <2>2, <2>3, <1>1 DEF ParamOf, first
  <2>4. CASE ~(i <= first)
    <3>1. ~(i < first) /\ i # first
      BY <1>1, <2>1, <2>4
    <3>2. ParamOf(fn, args, i) = LaterParam(fn, args, first, i)
      BY <2>2, <3>1 DEF ParamOf, first
    <3>3. LaterParam(fn, args, first, i) \in 1 .. FixedCount(fn)
      <4>1. \A n : ByName(fn, first, n) # 0 => ByName(fn, first, n) \in 1 .. FixedCount(fn)
        <5> SUFFICES ASSUME NEW n, ByName(fn, first, n) # 0
                     PROVE  ByName(fn, first, n) \in 1 .. FixedCount(fn)
          OBVIOUS
        <5>1. ByName(fn, first, n) \in first + 1 .. FixedCount(fn)
          BY <1>1, <2>1, ByNameFinds
        <5> QED BY <1>1, <2>1, <5>1
      <4> QED BY <2>2, <3>2, <4>1 DEF LaterParam
    <3> QED BY <1>1, <1>3, <3>2, <3>3
  <2> QED BY <2>3, <2>4
<1> QED BY <1>1, <1>2, <1>3

\* A candidate that binds the arguments has a number as the cost of each.
LEMMA CostsAreNumbers ==
    ASSUME CallFits, NEW f \in DOMAIN call.funcs, Fits(f)
    PROVE  Costs(f) \in [1 .. Len(call.args) -> Int]
<1>1. PICK fn, args : fn = call.funcs[f] /\ args = call.args
  OBVIOUS
<1>2. IsFunction(fn) /\ Listed(args) /\ DOMAIN args = 1 .. Len(args) /\ Len(args) \in Nat
  BY <1>1 DEF CallFits, Listed
<1>3. Binds([i \in DOMAIN args |-> ParamOf(fn, args, i)], fn, args)
  BY <1>1 DEF Fits, CheckViable
<1>4. ASSUME NEW i \in DOMAIN args
      PROVE  ParamOf(fn, args, i) \in DOMAIN fn.params
  <2>1. ParamOf(fn, args, i) # 0
    BY <1>3 DEF Binds
  <2>2. /\ i <= FixedCount(fn) => ParamOf(fn, args, i) \in 1 .. FixedCount(fn)
        /\ i > FixedCount(fn) => ParamOf(fn, args, i) = FixedCount(fn) + 1
    BY <1>2, <2>1, ParamInRange
  <2>3. DOMAIN fn.params = 1 .. Len(fn.params) /\ Len(fn.params) \in Nat /\ fn.variadic \in BOOLEAN
        /\ (fn.variadic => Len(fn.params) > 0) /\ i \in 1 .. Len(args)
    BY <1>2 DEF IsFunction, Listed
  <2>4. i > FixedCount(fn) => fn.variadic
    BY <1>2, <1>3, <2>3 DEF Binds
  <2>5. FixedCount(fn) = IF fn.variadic THEN Len(fn.params) - 1 ELSE Len(fn.params)
    BY DEF FixedCount
  <2> QED BY <2>2, <2>3, <2>4, <2>5
<1>5. ASSUME NEW i \in DOMAIN args
      PROVE  CheckCost(fn.params[ParamOf(fn, args, i)].type, args[i].type) \in Int
  <2>1. ParamOf(fn, args, i) \in DOMAIN call.funcs[f].params /\ i \in DOMAIN call.args
    BY <1>1, <1>4
  <2> QED BY <1>1, <2>1 DEF CallFits
<1>6. CheckCosts(fn, args) \in [DOMAIN args -> Int]
  BY <1>5 DEF CheckCosts
<1> QED BY <1>1, <1>2, <1>6 DEF Costs

-----------------------------------------------------------------------------
(* What is preferred.                                                      *)

\* The cheaper vector, and between equal ones the function that is not variadic.
LEMMA PreferredMeans ==
    ASSUME NEW f, NEW g
    PROVE  Preferred(f, g) <=> \/ Cheaper(Costs(f), Costs(g))
                               \/ /\ Costs(f) = Costs(g)
                                  /\ ~call.funcs[f].variadic /\ call.funcs[g].variadic
BY DEF Preferred, Costs

\* No function is preferred to itself.
LEMMA PreferredIrreflexive ==
    ASSUME CallFits, NEW f \in DOMAIN call.funcs, Fits(f)
    PROVE  ~Preferred(f, f)
<1>1. ~Cheaper(Costs(f), Costs(f))
  BY CostsAreNumbers, CheaperIrreflexive DEF CallFits, Listed
<1> QED BY <1>1, PreferredMeans

\* What is preferred to a function is preferred to those it is preferred to.
LEMMA PreferredTransitive ==
    ASSUME CallFits, NEW f \in DOMAIN call.funcs, NEW g \in DOMAIN call.funcs, NEW h \in DOMAIN call.funcs,
           Fits(f), Fits(g), Fits(h), Preferred(f, g), Preferred(g, h)
    PROVE  Preferred(f, h)
<1>1. /\ Costs(f) \in [1 .. Len(call.args) -> Int]
      /\ Costs(g) \in [1 .. Len(call.args) -> Int]
      /\ Costs(h) \in [1 .. Len(call.args) -> Int]
      /\ Len(call.args) \in Nat
  BY CostsAreNumbers DEF CallFits, Listed
<1>2. Cheaper(Costs(f), Costs(g)) /\ Cheaper(Costs(g), Costs(h)) => Cheaper(Costs(f), Costs(h))
  BY <1>1, CheaperTransitive
<1> QED BY <1>2, PreferredMeans, Zenon

\* Neither of two functions is preferred when they cost the same and both are
\* variadic or both are not.
LEMMA PreferredTotal ==
    ASSUME CallFits, NEW f \in DOMAIN call.funcs, NEW g \in DOMAIN call.funcs,
           Fits(f), Fits(g), ~Preferred(f, g), ~Preferred(g, f)
    PROVE  Costs(f) = Costs(g) /\ (call.funcs[f].variadic <=> call.funcs[g].variadic)
<1>1. /\ Costs(f) \in [1 .. Len(call.args) -> Int]
      /\ Costs(g) \in [1 .. Len(call.args) -> Int]
      /\ Len(call.args) \in Nat
  BY CostsAreNumbers DEF CallFits, Listed
<1>2. Costs(f) = Costs(g)
  BY <1>1, CheaperTotal, PreferredMeans
<1> QED BY <1>2, PreferredMeans

\* Two functions are not preferred to each other.
LEMMA PreferredAsymmetric ==
    ASSUME CallFits, NEW f \in DOMAIN call.funcs, NEW g \in DOMAIN call.funcs,
           Fits(f), Fits(g), Preferred(f, g)
    PROVE  ~Preferred(g, f)
BY PreferredTransitive, PreferredIrreflexive

\* What is preferred to a function is preferred to those as good or worse.
LEMMA PreferredBelow ==
    ASSUME CallFits, NEW f \in DOMAIN call.funcs, NEW g \in DOMAIN call.funcs, NEW h \in DOMAIN call.funcs,
           Fits(f), Fits(g), Fits(h), Preferred(f, g), ~Preferred(h, g)
    PROVE  Preferred(f, h)
<1>1. CASE Preferred(g, h)
  BY <1>1, PreferredTransitive
<1>2. CASE ~Preferred(g, h)
  <2>1. Costs(g) = Costs(h) /\ (call.funcs[g].variadic <=> call.funcs[h].variadic)
    BY <1>2, PreferredTotal
  <2> QED BY <2>1, PreferredMeans
<1> QED BY <1>1, <1>2

-----------------------------------------------------------------------------
(* The scan.                                                               *)

\* One candidate: the comparisons of the code decide which of two is preferred.
LEMMA CheckStepMeans ==
    ASSUME CallFits, scan.next \in DOMAIN call.funcs
    PROVE  /\ ~Fits(scan.next) => CheckStep = PassOver
           /\ Fits(scan.next) /\ scan.best = 0 => CheckStep = Take
           /\ Fits(scan.next) /\ scan.best # 0 /\ scan.best \in DOMAIN call.funcs /\ Fits(scan.best) =>
                \/ Preferred(scan.next, scan.best) /\ CheckStep = Take
                \/ /\ ~Preferred(scan.next, scan.best) /\ ~Preferred(scan.best, scan.next)
                   /\ CheckStep = Tie
                \/ Preferred(scan.best, scan.next) /\ CheckStep = PassOver
<1>1. PICK cur, best, cv, bv :
         /\ cur = Costs(scan.next) /\ best = Costs(scan.best)
         /\ cv = Current.variadic /\ bv = Best.variadic
  OBVIOUS
<1>2. CheckStep = IF ~Fits(scan.next) THEN PassOver
                  ELSE IF scan.best = 0 THEN Take
                  ELSE IF Cheaper(cur, best) \/ (cur = best /\ bv /\ ~cv) THEN Take
                  ELSE IF cur = best /\ (bv \/ ~cv) THEN Tie
                  ELSE PassOver
  BY <1>1 DEF CheckStep, Fits, Costs, Current, Best
<1>3. ASSUME Fits(scan.next), scan.best # 0, scan.best \in DOMAIN call.funcs, Fits(scan.best)
      PROVE  \/ Preferred(scan.next, scan.best) /\ CheckStep = Take
             \/ /\ ~Preferred(scan.next, scan.best) /\ ~Preferred(scan.best, scan.next)
                /\ CheckStep = Tie
             \/ Preferred(scan.best, scan.next) /\ CheckStep = PassOver
  <2>1. Preferred(scan.next, scan.best) <=> Cheaper(cur, best) \/ (cur = best /\ ~cv /\ bv)
    BY <1>1, PreferredMeans DEF Current, Best
  <2>2. Preferred(scan.best, scan.next) <=> Cheaper(best, cur) \/ (cur = best /\ ~bv /\ cv)
    BY <1>1, PreferredMeans DEF Current, Best
  <2>3. cur = best => ~Cheaper(cur, best) /\ ~Cheaper(best, cur)
    BY <1>1, <1>3, CostsAreNumbers, CheaperIrreflexive DEF CallFits, Listed
  <2>4. cur # best => Cheaper(cur, best) \/ Cheaper(best, cur)
    BY <1>1, <1>3, CostsAreNumbers, CheaperTotal DEF CallFits, Listed
  <2>5. CASE Cheaper(cur, best) \/ (cur = best /\ bv /\ ~cv)
    BY <1>2, <1>3, <2>1, <2>5
  <2>6. CASE ~(Cheaper(cur, best) \/ (cur = best /\ bv /\ ~cv)) /\ cur = best /\ (bv \/ ~cv)
    BY <1>2, <1>3, <2>1, <2>2, <2>3, <2>6
  <2>7. CASE ~(Cheaper(cur, best) \/ (cur = best /\ bv /\ ~cv)) /\ ~(cur = best /\ (bv \/ ~cv))
    BY <1>2, <1>3, <2>2, <2>4, <2>7
  <2> QED BY <2>5, <2>6, <2>7
<1> QED BY <1>2, <1>3

\* The three ways to go on.
LEMMA ScanGoesOn ==
    ASSUME scan \in Scan
    PROVE  /\ PassOver = [next |-> scan.next + 1, best |-> scan.best, ambiguous |-> scan.ambiguous]
           /\ Take = [next |-> scan.next + 1, best |-> scan.next, ambiguous |-> FALSE]
           /\ Tie = [next |-> scan.next + 1, best |-> scan.best, ambiguous |-> TRUE]
           /\ {PassOver, Take, Tie} \subseteq Scan
<1>1. PICK n, b, a : /\ n = scan.next /\ b = scan.best /\ a = scan.ambiguous
                     /\ scan = [next |-> n, best |-> b, ambiguous |-> a]
  <2>1. scan = [next |-> scan.next, best |-> scan.best, ambiguous |-> scan.ambiguous]
    BY DEF Scan
  <2> QED BY <2>1
<1>2. n \in Nat /\ b \in Nat /\ a \in BOOLEAN /\ n + 1 \in Nat
  BY <1>1 DEF Scan
<1>3. PassOver = [next |-> n + 1, best |-> b, ambiguous |-> a]
  BY <1>1 DEF PassOver
<1>4. Take = [next |-> n + 1, best |-> n, ambiguous |-> FALSE]
  BY <1>1 DEF Take
<1>5. Tie = [next |-> n + 1, best |-> b, ambiguous |-> TRUE]
  <2>1. Tie = [[next |-> n, best |-> b, ambiguous |-> a] EXCEPT !.next = n + 1, !.ambiguous = TRUE]
    BY <1>1 DEF Tie
  <2> QED BY ONLY <2>1
<1>6. {PassOver, Take, Tie} \subseteq Scan
  BY ONLY <1>2, <1>3, <1>4, <1>5 DEF Scan
<1> QED BY <1>1, <1>3, <1>4, <1>5, <1>6

\* Each candidate the scan passes keeps what it has found true.
LEMMA ScanStep ==
    ASSUME CallFits, scan \in Scan, ScanFits(scan), scan.next \in DOMAIN call.funcs
    PROVE  CheckStep \in Scan /\ ScanFits(CheckStep)
<1> DEFINE k == scan.next  b == scan.best
<1>1. /\ DOMAIN call.funcs = 1 .. Len(call.funcs) /\ Len(call.funcs) \in Nat
      /\ k \in 1 .. Len(call.funcs) /\ b \in 0 .. k - 1 /\ k \in Nat /\ b \in Nat
      /\ scan.ambiguous \in BOOLEAN
  BY DEF CallFits, Listed, ScanFits, Scan
<1>2. /\ b = 0 => \A g \in 1 .. k - 1 : ~Fits(g)
      /\ b # 0 => /\ Fits(b)
                  /\ \A g \in 1 .. k - 1 : Fits(g) => ~Preferred(g, b)
                  /\ scan.ambiguous <=> \E g \in 1 .. k - 1 : g # b /\ Fits(g) /\ ~Preferred(b, g)
  BY DEF ScanFits
<1>3. /\ PassOver = [next |-> k + 1, best |-> b, ambiguous |-> scan.ambiguous]
      /\ Take = [next |-> k + 1, best |-> k, ambiguous |-> FALSE]
      /\ Tie = [next |-> k + 1, best |-> b, ambiguous |-> TRUE]
  BY ScanGoesOn
<1>4. /\ ~Fits(k) => CheckStep = PassOver
      /\ Fits(k) /\ b = 0 => CheckStep = Take
      /\ Fits(k) /\ b # 0 /\ b \in DOMAIN call.funcs /\ Fits(b) =>
                \/ Preferred(k, b) /\ CheckStep = Take
                \/ ~Preferred(k, b) /\ ~Preferred(b, k) /\ CheckStep = Tie
                \/ Preferred(b, k) /\ CheckStep = PassOver
  BY CheckStepMeans
<1> HIDE DEF k, b
<1>5. /\ k + 1 \in 1 .. Len(call.funcs) + 1 /\ b \in 0 .. k /\ k \in 1 .. k /\ k # 0
      /\ (k + 1) - 1 = k /\ k + 1 \in Nat
      /\ (b # 0 => b \in 1 .. k - 1 /\ b \in 1 .. k /\ b \in DOMAIN call.funcs /\ b # k)
      /\ \A g \in 1 .. k : g = k \/ g \in 1 .. k - 1
      /\ \A g \in 1 .. k - 1 : g \in 1 .. k /\ g \in DOMAIN call.funcs
  BY <1>1
<1>6. ASSUME ~Fits(k)
      PROVE  CheckStep \in Scan /\ ScanFits(CheckStep)
  <2>1. CheckStep = [next |-> k + 1, best |-> b, ambiguous |-> scan.ambiguous]
    BY <1>3, <1>4, <1>6
  <2>2. b = 0 => \A g \in 1 .. k : ~Fits(g)
    BY <1>2, <1>5, <1>6
  <2>3. b # 0 => /\ Fits(b)
                 /\ \A g \in 1 .. k : Fits(g) => ~Preferred(g, b)
                 /\ scan.ambiguous <=> \E g \in 1 .. k : g # b /\ Fits(g) /\ ~Preferred(b, g)
    BY <1>2, <1>5, <1>6
  <2> QED BY <1>1, <1>5, <2>1, <2>2, <2>3 DEF Scan, ScanFits
<1>7. ASSUME Fits(k), b = 0
      PROVE  CheckStep \in Scan /\ ScanFits(CheckStep)
  <2>1. CheckStep = [next |-> k + 1, best |-> k, ambiguous |-> FALSE]
    BY <1>3, <1>4, <1>7
  <2>2. \A g \in 1 .. k : Fits(g) => g = k
    BY <1>2, <1>5, <1>7
  <2>3. ~Preferred(k, k)
    BY <1>1, <1>7, PreferredIrreflexive
  <2> QED BY <1>1, <1>5, <1>7, <2>1, <2>2, <2>3 DEF Scan, ScanFits
<1>8. ASSUME Fits(k), b # 0, Preferred(k, b), CheckStep = Take
      PROVE  CheckStep \in Scan /\ ScanFits(CheckStep)
  <2>1. CheckStep = [next |-> k + 1, best |-> k, ambiguous |-> FALSE]
    BY <1>3, <1>8
  <2>2. ASSUME NEW g \in 1 .. k - 1, Fits(g)
        PROVE  Preferred(k, g)
    <3>1. ~Preferred(g, b) /\ Fits(b)
      BY <1>2, <1>8, <2>2
    <3>2. g \in DOMAIN call.funcs /\ b \in DOMAIN call.funcs /\ k \in DOMAIN call.funcs
      BY <1>1, <1>5, <1>8
    <3> QED BY <1>8, <2>2, <3>1, <3>2, PreferredBelow
  <2>3. \A g \in 1 .. k - 1 : Fits(g) => Preferred(k, g) /\ ~Preferred(g, k)
    BY <1>1, <1>5, <1>8, <2>2, PreferredAsymmetric
  <2>4. ~Preferred(k, k)
    BY <1>1, <1>8, PreferredIrreflexive
  <2>5. /\ \A g \in 1 .. k : Fits(g) => ~Preferred(g, k)
        /\ ~\E g \in 1 .. k : g # k /\ Fits(g) /\ ~Preferred(k, g)
    BY <1>5, <2>3, <2>4
  <2> QED BY <1>1, <1>5, <1>8, <2>1, <2>5 DEF Scan, ScanFits
<1>9. ASSUME Fits(k), b # 0, ~Preferred(k, b), ~Preferred(b, k), CheckStep = Tie
      PROVE  CheckStep \in Scan /\ ScanFits(CheckStep)
  <2>1. CheckStep = [next |-> k + 1, best |-> b, ambiguous |-> TRUE]
    BY <1>3, <1>9
  <2>2. /\ Fits(b)
        /\ \A g \in 1 .. k : Fits(g) => ~Preferred(g, b)
        /\ \E g \in 1 .. k : g # b /\ Fits(g) /\ ~Preferred(b, g)
    BY <1>2, <1>5, <1>9
  <2> QED BY <1>1, <1>5, <1>9, <2>1, <2>2 DEF Scan, ScanFits
<1>10. ASSUME Fits(k), b # 0, Preferred(b, k), CheckStep = PassOver
       PROVE  CheckStep \in Scan /\ ScanFits(CheckStep)
  <2>1. CheckStep = [next |-> k + 1, best |-> b, ambiguous |-> scan.ambiguous]
    BY <1>3, <1>10
  <2>2. ~Preferred(k, b)
    <3>1. Fits(b) /\ b \in DOMAIN call.funcs /\ k \in DOMAIN call.funcs
      BY <1>1, <1>2, <1>5, <1>10
    <3> QED BY <1>10, <3>1, PreferredAsymmetric
  <2>3. /\ Fits(b)
        /\ \A g \in 1 .. k : Fits(g) => ~Preferred(g, b)
        /\ scan.ambiguous <=> \E g \in 1 .. k : g # b /\ Fits(g) /\ ~Preferred(b, g)
    BY <1>2, <1>5, <1>10, <2>2
  <2> QED BY <1>1, <1>5, <1>10, <2>1, <2>3 DEF Scan, ScanFits
<1> QED BY <1>2, <1>4, <1>5, <1>6, <1>7, <1>8, <1>9, <1>10

\* A scan that has ended knows the function preferred to all others, if there is one.
LEMMA ScanAnswers ==
    ASSUME CallFits, scan \in Scan, ScanFits(scan), scan.next \notin DOMAIN call.funcs
    PROVE  LET first == { f \in Viable : \A g \in Viable \ {f} : Preferred(f, g) }
           IN  /\ Status \in {"found", "ambiguous", "nomatch"}
               /\ Status = "found" => first = {scan.best} /\ scan.best \in Viable
               /\ Status = "ambiguous" => first = {} /\ Viable # {}
               /\ Status = "nomatch" => Viable = {}
<1> DEFINE first == { f \in Viable : \A g \in Viable \ {f} : Preferred(f, g) }
           b == scan.best
<1>1. /\ DOMAIN call.funcs = 1 .. Len(call.funcs) /\ Len(call.funcs) \in Nat
      /\ scan.next = Len(call.funcs) + 1 /\ b \in 0 .. Len(call.funcs)
      /\ scan.next - 1 = Len(call.funcs)
      /\ b # 0 => b \in 1 .. Len(call.funcs)
  BY DEF CallFits, Listed, ScanFits
<1>2. \A g : g \in Viable <=> g \in 1 .. Len(call.funcs) /\ Fits(g)
  BY <1>1 DEF Viable, Candidates, Fits
<1>3. /\ b = 0 => \A g \in 1 .. Len(call.funcs) : ~Fits(g)
      /\ b # 0 => /\ Fits(b)
                  /\ \A g \in 1 .. Len(call.funcs) : Fits(g) => ~Preferred(g, b)
                  /\ scan.ambiguous <=> \E g \in 1 .. Len(call.funcs) : g # b /\ Fits(g) /\ ~Preferred(b, g)
  BY <1>1 DEF ScanFits
<1>4. Status = IF b = 0 THEN "nomatch" ELSE IF scan.ambiguous THEN "ambiguous" ELSE "found"
  BY DEF Status
<1> HIDE DEF b
<1>5. CASE b = 0
  <2>1. Viable = {}
    BY <1>2, <1>3, <1>5
  <2> QED BY <1>4, <1>5, <2>1
<1>6. CASE b # 0
  <2>1. b \in Viable /\ \A g \in Viable : ~Preferred(g, b)
    BY <1>1, <1>2, <1>3, <1>6
  <2>2. \A f \in first : f = b
    BY <2>1
  <2>3. CASE scan.ambiguous
    <3>1. PICK g \in Viable : g # b /\ ~Preferred(b, g)
      BY <1>2, <1>3, <1>6, <2>3
    <3>2. b \notin first
      BY <3>1
    <3>3. first = {}
      BY <2>2, <3>2
    <3> HIDE DEF first
    <3>4. Status = "ambiguous"
      BY <1>4, <1>6, <2>3
    <3> QED BY <2>1, <3>3, <3>4 DEF first
  <2>4. CASE ~scan.ambiguous
    <3>1. \A g \in Viable : g # b => Preferred(b, g)
      BY <1>2, <1>3, <1>6, <2>4
    <3>2. b \in first
      BY <2>1, <3>1
    <3>3. first = {b}
      BY <2>2, <3>2
    <3> HIDE DEF first
    <3>4. Status = "found"
      BY <1>4, <1>6, <2>4
    <3> QED BY <2>1, <3>3, <3>4 DEF first, b
  <2> QED BY <2>3, <2>4
<1> QED BY <1>5, <1>6

-----------------------------------------------------------------------------
(* The invariant.                                                          *)

\* Nothing has been scanned at first.
LEMMA ScanInit == Init => ScanInv
<1> SUFFICES ASSUME Init
             PROVE  ScanInv
  OBVIOUS
<1>1. PICK family \in Families : call \in [funcs : family.funcs, args : family.args]
  BY DEF Init
<1>2. call.funcs \in family.funcs /\ call.args \in family.args
  BY <1>1
<1>3. CallFits
  BY <1>2, CallsAssumption DEF CallFits, CallsAssumption
<1>4. stage = "check" /\ scan = Start /\ checked = NoAnswer
  BY DEF Init
<1>5. scan \in Scan
  BY <1>4 DEF Start, Scan
<1>6. ScanFits(scan)
  <2>1. Len(call.funcs) \in Nat
    BY <1>3 DEF CallFits, Listed
  <2> QED BY <1>4, <2>1 DEF Start, ScanFits
<1>7. checked.status = "none" /\ checked.by = "none"
  BY <1>4 DEF NoAnswer
<1>8. CheckedIsCheapest
  BY <1>7 DEF CheckedIsCheapest
<1> QED BY <1>3, <1>4, <1>5, <1>6, <1>7, <1>8 DEF ScanInv

\* What is said of the call stays true while the call and the answer stay.
LEMMA AnswerKept ==
    ASSUME ScanInv, UNCHANGED <<call, checked>>, scan' \in Scan,
           stage' = "check" => ScanFits(scan)' /\ checked = NoAnswer
    PROVE  ScanInv'
<1>1. CallFits'
  BY DEF ScanInv, CallFits
<1>2. Viable' = Viable
  BY DEF Viable, Candidates
<1>3. CheckedIsCheapest
  BY DEF ScanInv
<1>4. CheckedIsCheapest'
  <2> DEFINE first == { f \in Viable : \A g \in Viable \ {f} : Preferred(f, g) }
  <2>1. first' = first
    BY <1>2 DEF Preferred
  <2>2. checked.by = "check" =>
          CASE checked.status = "found"     -> first = {checked.fn}
            [] checked.status = "ambiguous" -> first = {} /\ Viable # {}
            [] checked.status = "nomatch"   -> Viable = {}
    BY <1>3 DEF CheckedIsCheapest
  <2>3. checked'.by = "check" =>
          CASE checked'.status = "found"     -> first' = {checked'.fn}
            [] checked'.status = "ambiguous" -> first' = {} /\ Viable' # {}
            [] checked'.status = "nomatch"   -> Viable' = {}
    <3> HIDE DEF first
    <3> QED BY <1>2, <2>1, <2>2
  <2> QED BY <2>3 DEF CheckedIsCheapest
<1> QED BY <1>1, <1>2, <1>4 DEF ScanInv

\* Every step keeps what is said of the scan and of its answer.
LEMMA ScanNext == ScanInv /\ [Next]_vars => ScanInv'
<1> SUFFICES ASSUME ScanInv, [Next]_vars
             PROVE  ScanInv'
  OBVIOUS
<1>0. Start \in Scan
  BY DEF Start, Scan
<1>1. CASE CheckCandidate
  <2>1. /\ stage = "check" /\ scan.next \in DOMAIN call.funcs /\ scan' = CheckStep
        /\ UNCHANGED <<call, stage, checked>>
    BY <1>1 DEF CheckCandidate, Scanning, Candidates
  <2>2. CheckStep \in Scan /\ ScanFits(CheckStep)
    BY <2>1, ScanStep DEF ScanInv
  <2>3. ScanFits(scan)'
    BY <2>1, <2>2 DEF ScanFits, Fits, Preferred
  <2> QED BY <2>1, <2>2, <2>3, AnswerKept DEF ScanInv
<1>2. CASE CheckEnd
  <2>1. /\ stage = "check" /\ scan.next \notin DOMAIN call.funcs
        /\ checked' = [by |-> "check", status |-> Status, fn |-> scan.best]
        /\ stage' # "check" /\ UNCHANGED <<call, scan>>
    BY <1>2 DEF CheckEnd, Scanned, Candidates
  <2>2. LET first == { f \in Viable : \A g \in Viable \ {f} : Preferred(f, g) }
        IN  /\ Status \in {"found", "ambiguous", "nomatch"}
            /\ Status = "found" => first = {scan.best} /\ scan.best \in Viable
            /\ Status = "ambiguous" => first = {} /\ Viable # {}
            /\ Status = "nomatch" => Viable = {}
    BY <2>1, ScanAnswers DEF ScanInv
  <2>3. CallFits' /\ scan' \in Scan
    BY <2>1 DEF ScanInv, CallFits
  <2>4. Viable' = Viable
    BY <2>1 DEF Viable, Candidates
  <2>5. CheckedIsCheapest'
    BY <2>1, <2>2, <2>4 DEF CheckedIsCheapest, Preferred
  <2>6. checked'.status = "found" => checked'.fn \in Viable'
    BY <2>1, <2>2, <2>4
  <2> QED BY <2>1, <2>3, <2>5, <2>6 DEF ScanInv
<1>3. CASE Build \/ Run
  BY <1>0, <1>3, AnswerKept DEF Build, Run, ScanInv
<1>4. CASE BuildCandidate \/ RunCandidate
  <2>1. stage' # "check" /\ UNCHANGED <<call, checked>>
    BY <1>4 DEF BuildCandidate, RunCandidate, Scanning
  <2>2. PassOver \in Scan /\ Take \in Scan /\ Tie \in Scan
    BY ScanGoesOn DEF ScanInv
  <2>3. scan' \in Scan
    BY <1>4, <2>2 DEF BuildCandidate, RunCandidate
  <2> QED BY <2>1, <2>3, AnswerKept
<1>5. CASE BuildEnd \/ RunEnd
  BY <1>5, AnswerKept DEF BuildEnd, RunEnd, ScanInv
<1>6. CASE Done \/ UNCHANGED vars
  <2>1. UNCHANGED vars
    BY <1>6 DEF Done
  <2>2. ScanFits(scan) => ScanFits(scan)'
    BY <2>1 DEF vars, ScanFits, Fits, Preferred
  <2> QED BY <2>1, <2>2, AnswerKept DEF ScanInv, vars
<1> QED BY <1>1, <1>2, <1>3, <1>4, <1>5, <1>6 DEF Next

\* So it always holds.
LEMMA ScanIsFitting == Spec => []ScanInv
BY ScanInit, ScanNext, PTL DEF Spec

-----------------------------------------------------------------------------
(* The theorems.                                                           *)

\* H2TCResolveCallFromCandidates answers with the function preferred to every
\* other that fits, "ambiguous" when there is none and "no match" when nothing fits,
\* for every number and order of the declarations and whatever conversions cost.
THEOREM CheapestChosen == Spec => []CheckedIsCheapest
<1>1. ScanInv => CheckedIsCheapest
  BY DEF ScanInv
<1> QED BY <1>1, ScanIsFitting, PTL

\* The fixed parameters of a function that binds the arguments are all taken.
LEMMA EachParameterTaken ==
    ASSUME NEW fn, NEW args, IsFunction(fn), Listed(args),
           Binds([i \in DOMAIN args |-> ParamOf(fn, args, i)], fn, args)
    PROVE  /\ FixedCount(fn) \in Nat
           /\ 1 .. FixedCount(fn) \subseteq DOMAIN args
           /\ { ParamOf(fn, args, i) : i \in 1 .. FixedCount(fn) } = 1 .. FixedCount(fn)
<1> DEFINE n == FixedCount(fn)
           f == [i \in 1 .. n |-> ParamOf(fn, args, i)]
<1>1. n \in Nat
  BY DEF IsFunction, Listed, FixedCount
<1>2. 1 .. n \subseteq DOMAIN args
  <2>1. Len(args) >= n /\ Len(args) \in Nat /\ DOMAIN args = 1 .. Len(args)
    BY <1>1 DEF Binds, Listed
  <2> HIDE DEF n
  <2> QED BY <1>1, <2>1
<1>3. \A i \in 1 .. n : ParamOf(fn, args, i) \in 1 .. n
  <2> SUFFICES ASSUME NEW i \in 1 .. n
               PROVE  ParamOf(fn, args, i) \in 1 .. n
    OBVIOUS
  <2>1. i \in DOMAIN args
    BY <1>2
  <2>2. ParamOf(fn, args, i) # 0
    BY <2>1 DEF Binds
  <2>3. i <= n
    BY <1>1
  <2> QED BY <2>1, <2>2, <2>3, ParamInRange
<1>4. \A i, j \in 1 .. n : i # j => ParamOf(fn, args, i) # ParamOf(fn, args, j)
  BY <1>2 DEF Binds
<1> HIDE DEF n
<1>5. f \in Injection(1 .. n, 1 .. n)
  BY <1>3, <1>4 DEF Injection, IsInjective
<1> HIDE DEF f
<1>6. IsFiniteSet(1 .. n)
  BY <1>1, FS_Interval
<1>7. f \in Surjection(1 .. n, 1 .. n)
  BY <1>5, <1>6, FS_Injection
<1>8. \A p \in 1 .. n : \E i \in 1 .. n : f[i] = p
  BY <1>7 DEF Surjection
<1>9. \A p \in 1 .. n : \E i \in 1 .. n : ParamOf(fn, args, i) = p
  BY <1>8 DEF f
<1> QED BY <1>1, <1>2, <1>3, <1>9 DEF n

\* A fixed argument that is named goes where its name says; so does one past the
\* `_' parameters that consists of a variable, when the call begins by position.
LEMMA NamedParameter ==
    ASSUME NEW fn, NEW args, IsFunction(fn), Listed(args),
           NEW i \in DOMAIN args, i <= FixedCount(fn), ParamOf(fn, args, i) # 0
    PROVE  LET named == fn.params[ParamOf(fn, args, i)].name
           IN  /\ IsNamed(args[i]) /\ i >= FirstPositional(args) => named = args[i].explicit
               /\ ~IsNamed(args[i]) /\ i > 1 /\ ~fn.params[i].low /\ FirstPositional(args) = 1
                     => named = args[i].implicit
<1> DEFINE first == FirstPositional(args)
           p == ParamOf(fn, args, i)
<1>1. FixedCount(fn) \in Nat /\ i \in Nat /\ i >= 1 /\ first \in Nat \ {0}
  <2>1. first \in Nat \ {0}
    BY FirstIsArgument
  <2> HIDE DEF first
  <2> QED BY <2>1 DEF IsFunction, Listed, FixedCount
<1>2. ~(i > FixedCount(fn))
  BY <1>1
<1>3. \A m : ByName(fn, first, m) # 0 => fn.params[ByName(fn, first, m)].name = m
  BY <1>1, ByNameFinds
<1>4. i = first => p = IF args[i].explicit \in {NoName, fn.params[i].name} THEN i ELSE 0
  BY <1>1, <1>2 DEF ParamOf
<1>5. i > first => p = LaterParam(fn, args, first, i)
  BY <1>1, <1>2 DEF ParamOf
<1>6. p # 0
  OBVIOUS
<1> HIDE DEF first, p
<1>7. ASSUME IsNamed(args[i]), i >= first
      PROVE  fn.params[p].name = args[i].explicit
  <2>1. CASE i = first
    BY <1>4, <1>6, <1>7, <2>1 DEF IsNamed
  <2>2. CASE i > first
    <3>1. p = ByName(fn, first, args[i].explicit)
      BY <1>5, <1>7, <2>2 DEF LaterParam
    <3> QED BY <1>3, <1>6, <3>1
  <2> QED BY <1>1, <1>7, <2>1, <2>2
<1>8. ASSUME ~IsNamed(args[i]), i > 1, ~fn.params[i].low, first = 1
      PROVE  fn.params[p].name = args[i].implicit
  <2>1. i \in first + 1 .. i /\ i > first
    BY <1>1, <1>8
  <2>2. ~InPrefix(fn, first, i)
    BY <1>8, <2>1 DEF InPrefix
  <2>3. p = IF args[i].implicit # NoName THEN ByName(fn, first, args[i].implicit) ELSE 0
    BY <1>5, <1>8, <2>1, <2>2 DEF LaterParam
  <2> QED BY <1>3, <1>6, <2>3
<1> QED BY <1>7, <1>8 DEF first, p

\* In a call that is accepted each fixed parameter has one argument, and arguments
\* keep their names (H2TCMapCallArgsToParams).
THEOREM NamesAreKept == Spec => []NamesKept
<1>1. ScanInv => NamesKept
  <2> SUFFICES ASSUME ScanInv, checked.status = "found"
               PROVE  NamesKept
    BY DEF NamesKept
  <2>1. PICK fn, args : fn = call.funcs[checked.fn] /\ args = call.args
    OBVIOUS
  <2>2. checked.fn \in DOMAIN call.funcs /\ Fits(checked.fn)
    BY DEF ScanInv, Viable, Candidates, Fits
  <2>3. /\ IsFunction(fn) /\ Listed(args)
        /\ Binds([i \in DOMAIN args |-> ParamOf(fn, args, i)], fn, args)
    BY <2>1, <2>2 DEF ScanInv, CallFits, Fits, CheckViable
  <2>4. /\ FixedCount(fn) \in Nat
        /\ 1 .. FixedCount(fn) \subseteq DOMAIN args
        /\ { ParamOf(fn, args, i) : i \in 1 .. FixedCount(fn) } = 1 .. FixedCount(fn)
    BY <2>3, EachParameterTaken
  <2>5. ASSUME NEW i \in 1 .. FixedCount(fn)
        PROVE  LET named == fn.params[ParamOf(fn, args, i)].name
               IN  /\ IsNamed(args[i]) /\ i >= FirstPositional(args) => named = args[i].explicit
                   /\ ~IsNamed(args[i]) /\ i > 1 /\ ~fn.params[i].low /\ FirstPositional(args) = 1
                         => named = args[i].implicit
    <3>1. i \in DOMAIN args /\ i <= FixedCount(fn)
      BY <2>4
    <3>2. ParamOf(fn, args, i) # 0
      BY <2>3, <3>1 DEF Binds
    <3> QED BY <2>3, <3>1, <3>2, NamedParameter
  <2> QED BY <2>1, <2>4, <2>5 DEF NamesKept
<1> QED BY <1>1, ScanIsFitting, PTL
=============================================================================
