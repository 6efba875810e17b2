--------------------------- MODULE PkgLoader_proofs ---------------------------
(***************************************************************************)
(* Theorems about the package loader and the orders computed from what it  *)
(* loaded, for every world (file system and command line) and every first  *)
(* capacity of the table.                                                  *)
(***************************************************************************)
EXTENDS PkgLoader, Integers, FiniteSetTheorems, WellFoundedInduction, TLAPS

PackagePointer == [table : Nat, index : Nat]
\* The paths written in imports, and that of the implicit one.
ImportPath == Path \cup { <<"builtin">> }
Package == [dir : Directory, imports : Seq(ImportPath), targets : Seq(PackagePointer),
            loaded : BOOLEAN, checked : BOOLEAN]
LoadCall == [pkg : PackagePointer, own : PackagePointer]
VisitCall == [pkg : Nat, next : Nat]

-----------------------------------------------------------------------------
(* The inductive invariant.                                                *)

TypeOK ==
    /\ world \in Worlds /\ packages \in Seq(Package) /\ cap \in Nat /\ table \in Nat
    /\ load \in Seq(LoadCall)
    /\ phase \in {"load", "check", "sort", "done", "failed", "undefined"}
    /\ entryPkg \in PackagePointer \cup { << >> } /\ platformPkg \in PackagePointer \cup { << >> }
    /\ order \in Seq(Nat) /\ visit \in Seq(VisitCall) /\ roots \in Seq(Nat)
    /\ sort \in [all : BOOLEAN, builtin : BOOLEAN, platform : BOOLEAN]

\* The table has room for its packages, and has not moved while the first capacity was enough.
TableFits ==
    /\ Len(packages) <= cap /\ (cap = 0 \/ cap >= TableCap)
    /\ Len(packages) <= TableCap => table = 0 /\ (cap = 0 \/ cap = TableCap)

\* A pointer leads into the table, as it is or as it was before it moved.
Known(p) == p.index \in 1 .. Len(packages) /\ p.table <= table

PointersKnown ==
    /\ \A k \in 1 .. Len(load) : /\ Known(load[k].pkg) /\ Known(load[k].own)
                                 /\ load[k].pkg.index = load[k].own.index
    /\ \A i \in 1 .. Len(packages) : \A n \in 1 .. Len(packages[i].targets) :
          Known(packages[i].targets[n])
    /\ entryPkg # << >> => Known(entryPkg)
    /\ platformPkg # << >> => Known(platformPkg)

\* The package a call of LoadPackageRecursive loads, and the import it waits for.
Subject(k) == load[k].own.index
Awaited(i) == Len(packages[i].targets) + 1

\* Each call waits for the import that the next one loads; what is not loaded is being loaded.
CallsWait ==
    /\ \A k \in 1 .. Len(load) : ~packages[Subject(k)].loaded
    /\ \A k, m \in 1 .. Len(load) : k < m => Subject(k) < Subject(m)
    /\ \A k \in 1 .. Len(load) - 1 :
          LET i == Subject(k) IN
          /\ Awaited(i) \in 1 .. Len(packages[i].imports)
          /\ packages[Subject(k + 1)].dir =
                ResolveImport(world, packages[i].dir, packages[i].imports[Awaited(i)])
    /\ phase \notin {"failed", "undefined"} =>
          \A i \in 1 .. Len(packages) : packages[i].loaded \/ \E k \in 1 .. Len(load) : Subject(k) = i

\* A target is the loaded package of the directory the import's path leads to.
Bound(i, n) ==
    LET to == packages[packages[i].targets[n].index] IN
    to.dir = ResolveImport(world, packages[i].dir, packages[i].imports[n]) /\ to.loaded

TargetsFit ==
    \A i \in 1 .. Len(packages) :
       /\ Len(packages[i].targets) <= Len(packages[i].imports)
       /\ packages[i].loaded => Len(packages[i].targets) = Len(packages[i].imports)
       /\ \A n \in 1 .. Len(packages[i].targets) : Bound(i, n)

PhaseFits ==
    /\ phase \in {"check", "sort", "done"} => load = << >> /\ entryPkg # << >> /\ platformPkg # << >>
    /\ phase \in {"load", "check"} => order = << >> /\ visit = << >> /\ roots = << >>
    /\ phase = "done" => visit = << >> /\ roots = << >>
    /\ phase = "undefined" => Len(packages) > TableCap
    /\ error = "unresolved" => table # 0
    /\ error # "cycle in order"

\* A loaded package ranks above those it imports, and the packages visited rank lower and lower:
\* among loaded packages there is no cycle.
RankedBy(rank, top) ==
    /\ \A i \in 1 .. Len(packages) :
          /\ rank[i] \in Nat /\ rank[i] <= top
          /\ packages[i].loaded => \A n \in 1 .. Len(packages[i].targets) :
                                      rank[packages[i].targets[n].index] < rank[i]
    /\ \A k, m \in 1 .. Len(visit) : k < m => rank[visit[m].pkg] < rank[visit[k].pkg]
Ranked == \E top \in Nat : \E rank \in [1 .. Len(packages) -> Nat] : RankedBy(rank, top)

\* An import of a package that is skipped, or ordered among the first n.
Preceded(i, n, m) ==
    \/ Skipped(packages[i].imports[n])
    \/ \E k \in 1 .. m : order[k] = packages[i].targets[n].index

OrderFits ==
    /\ \A k \in 1 .. Len(order) :
          /\ order[k] \in 1 .. Len(packages)
          /\ \A n \in 1 .. Len(packages[order[k]].imports) : Preceded(order[k], n, k - 1)
    /\ \A k, m \in 1 .. Len(order) : order[k] = order[m] => k = m

VisitFits ==
    /\ \A k \in 1 .. Len(visit) :
          LET i == visit[k].pkg IN
          /\ i \in 1 .. Len(packages) /\ ~InOrder(i)
          /\ visit[k].next \in 1 .. Len(packages[i].imports) + 1
          /\ \A n \in 1 .. visit[k].next - 1 :
                \/ Preceded(i, n, Len(order))
                \/ k < Len(visit) /\ visit[k + 1].pkg = packages[i].targets[n].index
    /\ \A k \in 1 .. Len(roots) : roots[k] \in 1 .. Len(packages)

\* What the order must have in the end.
Wished == IF sort.all THEN 1 .. Len(packages) ELSE {entryPkg.index}
Coming(i) ==
    \/ InOrder(i)
    \/ visit # << >> /\ visit[1].pkg = i
    \/ \E k \in 1 .. Len(roots) : roots[k] = i
WishesKept == phase \in {"sort", "done"} => \A i \in Wished : Coming(i)

LoadInv == TypeOK /\ TableFits /\ PointersKnown /\ CallsWait /\ TargetsFit /\ PhaseFits
OrderInv == Ranked /\ OrderFits /\ VisitFits /\ WishesKept
PkgInv == LoadInv /\ OrderInv

-----------------------------------------------------------------------------
(* Lemmas about the world and the table.                                   *)

LEMMA WorldFacts ==
    ASSUME world \in Worlds
    PROVE  /\ world.tree \subseteq Directory /\ world.entry \in world.tree
           /\ DOMAIN world.imports \subseteq world.tree
           /\ \A d \in DOMAIN world.imports : world.imports[d] \in Seq(Path)
           /\ world.entryImports \in Seq(Path)
           /\ TableCap \in Nat \ {0}
<1>1. IsWorld(world) /\ TableCap \in Nat \ {0}
  BY WorldsAssumption
<1>2. world.imports \in [DOMAIN world.imports -> Seq(Path)]
  BY <1>1 DEF IsWorld
<1>3. \A d \in DOMAIN world.imports : world.imports[d] \in Seq(Path)
  BY <1>2
<1> QED BY <1>1, <1>3 DEF IsWorld

LEMMA ImportsType ==
    ASSUME NEW dir, NEW written \in Seq(Path)
    PROVE  ImportsOf(dir, written) \in Seq(ImportPath)
<1>1. written \in Seq(ImportPath) /\ <<"builtin">> \in ImportPath
  BY DEF ImportPath
<1> QED BY <1>1 DEF ImportsOf

\* A table that grows is never smaller than its first capacity, nor moves while that is enough.
LEMMA RoomMade ==
    ASSUME TypeOK, TableFits, MakeRoom(Len(packages) + 1)
    PROVE  /\ table' \in Nat /\ table <= table'
           /\ cap' \in Nat /\ Len(packages) + 1 <= cap' /\ cap' >= TableCap
           /\ Len(packages) + 1 <= TableCap => table' = 0 /\ cap' = TableCap
<1>1. /\ Len(packages) \in Nat /\ cap \in Nat /\ table \in Nat /\ TableCap \in Nat /\ TableCap > 0
      /\ Len(packages) <= cap /\ (cap = 0 \/ cap >= TableCap)
      /\ Len(packages) <= TableCap => table = 0 /\ (cap = 0 \/ cap = TableCap)
  BY WorldFacts DEF TypeOK, TableFits
<1>2. PICK moved \in BOOLEAN :
         /\ moved => cap # 0 /\ Grown(Len(packages) + 1) # cap
         /\ table' = IF moved THEN table + 1 ELSE table
         /\ cap' = Grown(Len(packages) + 1)
  BY DEF MakeRoom
<1>3. /\ cap' \in Nat /\ Len(packages) + 1 <= cap' /\ cap' >= TableCap
      /\ Len(packages) + 1 <= TableCap => cap' = TableCap /\ (cap # 0 => cap' = cap)
  BY <1>1, <1>2 DEF Grown
<1>4. table' \in Nat /\ table <= table'
  BY <1>1, <1>2
<1>5. Len(packages) + 1 <= TableCap => table' = 0
  BY <1>1, <1>2, <1>3
<1> QED BY <1>3, <1>4, <1>5

LEMMA PackageAdded ==
    ASSUME TypeOK, NEW dir \in Directory, NEW imports \in Seq(ImportPath),
           packages' = Append(packages, NewPackage(dir, imports))
    PROVE  /\ packages' \in Seq(Package) /\ Len(packages) \in Nat /\ Len(packages') = Len(packages) + 1
           /\ \A i \in 1 .. Len(packages) : packages'[i] = packages[i]
           /\ packages'[Len(packages) + 1].dir = dir
           /\ packages'[Len(packages) + 1].imports = imports
           /\ packages'[Len(packages) + 1].targets = << >>
           /\ ~packages'[Len(packages) + 1].loaded
<1> DEFINE new == NewPackage(dir, imports)
<1>1. new \in Package
  BY DEF NewPackage, Package
<1>2. new.dir = dir /\ new.imports = imports /\ new.targets = << >> /\ ~new.loaded
  BY DEF NewPackage
<1> HIDE DEF new
<1>3. packages \in Seq(Package) /\ packages' = Append(packages, new)
  BY DEF TypeOK, new
<1> QED BY <1>1, <1>2, <1>3

\* The ways a call fails leave a pointer that dangles only after the table has moved.
LEMMA Fails ==
    ASSUME TypeOK, PointersKnown, NEW reason, FailLoad(reason), table' \in Nat,
           NEW n \in Nat, n <= TableCap => table = 0 /\ table' = 0
    PROVE  /\ phase' \in {"failed", "undefined"} /\ (phase' = "undefined" => n > TableCap)
           /\ error' = error \/ error' = reason
<1>1. CASE Give(reason)
  BY <1>1 DEF Give
<1>2. CASE Undefined /\ ~\A k \in DOMAIN load : load[k].pkg.table = table'
  <2>1. PICK k \in 1 .. Len(load) : load[k].pkg.table # table'
    BY <1>2 DEF TypeOK
  <2>2. load[k].pkg.table \in Nat /\ table \in Nat
    <3>1. load[k] \in LoadCall
      BY DEF TypeOK
    <3> QED BY <3>1 DEF LoadCall, PackagePointer, TypeOK
  <2>3. load[k].pkg.table <= table
    BY DEF PointersKnown, Known
  <2>4. ~(n <= TableCap)
    BY <2>1, <2>2, <2>3
  <2>5. TableCap \in Nat
    BY WorldsAssumption
  <2> QED BY <1>2, <2>4, <2>5 DEF Undefined
<1> QED BY <1>1, <1>2 DEF FailLoad

-----------------------------------------------------------------------------
(* Loading: the calls of LoadPackageRecursive.                             *)

\* What is wanted next is the import the innermost call waits for.
LEMMA WantedNext ==
    ASSUME LoadInv, NEW dir \in Wanted
    PROVE  /\ phase = "load"
           /\ load # << >> =>
                LET i == Subject(Len(load)) IN
                /\ Awaited(i) \in 1 .. Len(packages[i].imports)
                /\ dir = ResolveImport(world, packages[i].dir, packages[i].imports[Awaited(i)])
<1>1. phase = "load"
  BY DEF Wanted
<1>2. ASSUME load # << >>
      PROVE  /\ Awaited(Subject(Len(load))) \in 1 .. Len(packages[Subject(Len(load))].imports)
             /\ dir = ResolveImport(world, packages[Subject(Len(load))].dir,
                                    packages[Subject(Len(load))].imports[Awaited(Subject(Len(load)))])
  <2>1. Len(load) \in 1 .. Len(load)
    BY <1>2 DEF LoadInv, TypeOK
  <2>2. Top.pkg.index = Subject(Len(load)) /\ Subject(Len(load)) \in 1 .. Len(packages)
    BY <2>1 DEF LoadInv, PointersKnown, Known, Top, Last, Subject
  <2>3. packages[Subject(Len(load))] \in Package
    BY <2>2 DEF LoadInv, TypeOK
  <2>4. DOMAIN packages[Subject(Len(load))].imports = 1 .. Len(packages[Subject(Len(load))].imports)
    BY <2>3 DEF Package
  <2>5. Loading = packages[Subject(Len(load))] /\ NextImport = Awaited(Subject(Len(load)))
    BY <2>2 DEF Loading, NextImport, Awaited
  <2> QED BY <1>1, <1>2, <2>4, <2>5 DEF Wanted
<1> QED BY <1>1, <1>2

\* While packages are loaded no order is computed.
LEMMA NoOrderYet ==
    ASSUME PhaseFits, phase = "load", UNCHANGED <<order, visit, roots>>, phase' \notin {"sort", "done"}
    PROVE  OrderFits' /\ VisitFits' /\ WishesKept' /\ order' = << >> /\ visit' = << >> /\ roots' = << >>
<1>1. order' = << >> /\ visit' = << >> /\ roots' = << >>
  BY DEF PhaseFits
<1>2. OrderFits'
  BY <1>1 DEF OrderFits
<1>3. VisitFits'
  BY <1>1 DEF VisitFits
<1> QED BY <1>1, <1>2, <1>3 DEF WishesKept

\* The compiler gives up, and nothing else changes.
GivesUp ==
    /\ UNCHANGED <<world, packages, cap, table, load, entryPkg, platformPkg, order, visit, roots, sort>>
    /\ phase' \in {"failed", "undefined"} /\ (phase' = "undefined" => Len(packages) > TableCap)
    /\ error' = error \/ error' \notin {"unresolved", "cycle in order"}
       \/ (error' = "unresolved" /\ table # 0)

LEMMA GivesUpKeeps ==
    ASSUME PkgInv, GivesUp
    PROVE  PkgInv'
<1>0. UNCHANGED <<world, packages, cap, table, load, entryPkg, platformPkg, order, visit, roots, sort>>
  BY DEF GivesUp
<1>1. TypeOK' /\ TableFits' /\ PointersKnown' /\ CallsWait' /\ TargetsFit'
  <2>1. TypeOK' /\ TableFits'
    BY DEF PkgInv, LoadInv, GivesUp, TypeOK, TableFits
  <2>2. PointersKnown'
    BY <1>0 DEF PkgInv, LoadInv, PointersKnown, Known
  <2>3. CallsWait'
    BY <1>0 DEF PkgInv, LoadInv, GivesUp, CallsWait, Subject, Awaited
  <2>4. TargetsFit'
    BY <1>0 DEF PkgInv, LoadInv, TargetsFit, Bound
  <2> QED BY <2>1, <2>2, <2>3, <2>4
<1>2. PhaseFits'
  BY DEF PkgInv, LoadInv, GivesUp, PhaseFits
<1>3. Ranked'
  BY DEF PkgInv, OrderInv, GivesUp, Ranked, RankedBy
<1>4. OrderFits' /\ VisitFits'
  <2>1. OrderFits'
    BY <1>0 DEF PkgInv, OrderInv, OrderFits, Preceded, Skipped
  <2>2. VisitFits'
    BY <1>0 DEF PkgInv, OrderInv, VisitFits, Preceded, Skipped, InOrder
  <2> QED BY <2>1, <2>2
<1>5. WishesKept'
  BY DEF GivesUp, WishesKept
<1> QED BY <1>1, <1>2, <1>3, <1>4, <1>5 DEF PkgInv, LoadInv, OrderInv

LEMMA LoadGivesUp ==
    ASSUME LoadInv, CycleDetected \/ NoDirectory \/ RejectImports \/ UseStaleEntry
    PROVE  GivesUp
<1>1. Len(packages) \in Nat /\ table \in Nat /\ (Len(packages) <= TableCap => table = 0)
  BY DEF LoadInv, TypeOK, TableFits
<1>2. ASSUME NEW reason \in {"cycle", "path", "imports"}, FailLoad(reason),
             UNCHANGED <<world, loaderVars>>, UNCHANGED orderVars
      PROVE  GivesUp
  <2>1. table' = table /\ table' \in Nat
    BY <1>1, <1>2 DEF loaderVars
  <2>2. /\ phase' \in {"failed", "undefined"} /\ (phase' = "undefined" => Len(packages) > TableCap)
        /\ error' = error \/ error' = reason
    BY <1>1, <1>2, <2>1, Fails DEF LoadInv
  <2> QED BY <1>2, <2>2 DEF GivesUp, loaderVars, orderVars
<1>3. CASE UseStaleEntry
  <2>1. entryPkg # << >> /\ entryPkg.table # table /\ Undefined
    BY <1>3 DEF UseStaleEntry, Current
  <2>2. entryPkg \in PackagePointer
    BY <2>1 DEF LoadInv, TypeOK
  <2>3. entryPkg.table \in Nat /\ entryPkg.table <= table
    BY <2>1, <2>2 DEF LoadInv, PointersKnown, Known, PackagePointer
  <2>4. ~(Len(packages) <= TableCap)
    BY <1>1, <2>1, <2>3
  <2>5. TableCap \in Nat
    BY WorldsAssumption
  <2>6. Len(packages) > TableCap
    BY <1>1, <2>4, <2>5
  <2> QED BY <1>3, <2>6 DEF UseStaleEntry, Undefined, GivesUp, loaderVars, orderVars
<1> QED BY <1>2, <1>3 DEF CycleDetected, NoDirectory, RejectImports

\* A ranking of the next packages.
LEMMA RankedNext ==
    ASSUME NEW top \in Nat, NEW rank \in [1 .. Len(packages') -> Nat],
           \A i \in 1 .. Len(packages') :
              /\ rank[i] <= top
              /\ packages'[i].loaded => \A n \in 1 .. Len(packages'[i].targets) :
                                           rank[packages'[i].targets[n].index] < rank[i],
           \A k, m \in 1 .. Len(visit') : k < m => rank[visit'[m].pkg] < rank[visit'[k].pkg]
    PROVE  Ranked'
<1>1. \A i \in 1 .. Len(packages') : rank[i] \in Nat
  OBVIOUS
<1>2. RankedBy(rank, top)'
  BY <1>1 DEF RankedBy
<1> QED BY <1>2 DEF Ranked

\* A package enters the table.
LEMMA AddKeeps ==
    ASSUME PkgInv, phase = "load", NEW dir \in Directory, NEW imports \in Seq(ImportPath),
           MakeRoom(Len(packages) + 1), packages' = Append(packages, NewPackage(dir, imports)),
           UNCHANGED <<world, entryPkg, platformPkg, order, visit, roots, sort>>
    PROVE  /\ TableFits' /\ TargetsFit' /\ Ranked'
           /\ \A i \in 1 .. Len(packages') : \A n \in 1 .. Len(packages'[i].targets) :
                 packages'[i].targets[n].index \in 1 .. Len(packages') /\ packages'[i].targets[n].table <= table'
           /\ \A p : p.table \in Nat /\ p.index \in Nat /\ Known(p) =>
                 p.index \in 1 .. Len(packages') /\ p.table <= table'
<1> DEFINE n == Len(packages) + 1
<1>1. /\ packages' \in Seq(Package) /\ Len(packages) \in Nat /\ Len(packages') = n
      /\ \A i \in 1 .. Len(packages) : packages'[i] = packages[i]
      /\ packages'[n].dir = dir /\ packages'[n].imports = imports
      /\ packages'[n].targets = << >> /\ ~packages'[n].loaded
  BY PackageAdded DEF PkgInv, LoadInv
<1>2. /\ table' \in Nat /\ table \in Nat /\ table <= table' /\ cap' \in Nat /\ n <= cap'
      /\ cap' >= TableCap /\ (n <= TableCap => table' = 0 /\ cap' = TableCap)
  BY RoomMade DEF PkgInv, LoadInv, TypeOK
<1>3. \A i \in 1 .. n : i = n \/ i \in 1 .. Len(packages)
  BY <1>1
<1>4. TableFits'
  BY <1>1, <1>2 DEF TableFits
<1>5. ASSUME NEW p, p.table \in Nat, p.index \in Nat, Known(p)
      PROVE  p.index \in 1 .. Len(packages') /\ p.table <= table'
  BY <1>1, <1>2, <1>5 DEF Known
<1>6. ASSUME NEW i \in 1 .. Len(packages), NEW m \in 1 .. Len(packages[i].targets)
      PROVE  /\ packages[i].targets[m].table \in Nat /\ packages[i].targets[m].index \in Nat
             /\ Known(packages[i].targets[m])
  <2>1. packages[i] \in Package
    BY DEF PkgInv, LoadInv, TypeOK
  <2>2. packages[i].targets[m] \in PackagePointer
    BY <2>1 DEF Package
  <2> QED BY <2>2 DEF PkgInv, LoadInv, PointersKnown, PackagePointer
<1> HIDE DEF n
<1>7. ASSUME NEW i \in 1 .. Len(packages'), NEW m \in 1 .. Len(packages'[i].targets)
      PROVE  i \in 1 .. Len(packages) /\ packages'[i] = packages[i]
  <2>1. i = n \/ i \in 1 .. Len(packages)
    BY <1>1, <1>3
  <2>2. i # n
    BY <1>1
  <2> QED BY <1>1, <2>1, <2>2
<1>8. ASSUME NEW i \in 1 .. Len(packages'), NEW m \in 1 .. Len(packages'[i].targets)
      PROVE  packages'[i].targets[m].index \in 1 .. Len(packages') /\ packages'[i].targets[m].table <= table'
  BY <1>5, <1>6, <1>7
<1>9. TargetsFit'
  <2>1. ASSUME NEW i \in 1 .. Len(packages')
        PROVE  /\ Len(packages'[i].targets) <= Len(packages'[i].imports)
               /\ packages'[i].loaded => Len(packages'[i].targets) = Len(packages'[i].imports)
    <3>1. CASE i = n
      BY <1>1, <3>1
    <3>2. CASE i \in 1 .. Len(packages)
      BY <1>1, <3>2 DEF PkgInv, LoadInv, TargetsFit
    <3> QED BY <1>1, <1>3, <3>1, <3>2
  <2>2. ASSUME NEW i \in 1 .. Len(packages'), NEW m \in 1 .. Len(packages'[i].targets)
        PROVE  Bound(i, m)'
    <3>1. i \in 1 .. Len(packages) /\ packages'[i] = packages[i]
      BY <1>7
    <3>2. packages[i].targets[m].index \in 1 .. Len(packages)
      BY <1>6, <3>1 DEF Known
    <3>3. Bound(i, m)
      BY <3>1 DEF PkgInv, LoadInv, TargetsFit
    <3> QED BY <1>1, <3>1, <3>2, <3>3 DEF Bound
  <2> QED BY <2>1, <2>2 DEF TargetsFit
<1>10. Ranked'
  <2>1. PICK top \in Nat, rank \in [1 .. Len(packages) -> Nat] : RankedBy(rank, top)
    BY DEF PkgInv, OrderInv, Ranked
  <2>2. visit' = << >>
    BY DEF PkgInv, LoadInv, PhaseFits
  <2> DEFINE new == [i \in 1 .. Len(packages') |-> IF i = n THEN 0 ELSE rank[i]]
  <2>3. new \in [1 .. Len(packages') -> Nat]
    BY <1>1, <1>3
  <2>4. ASSUME NEW i \in 1 .. Len(packages')
        PROVE  /\ new[i] \in Nat /\ new[i] <= top
               /\ packages'[i].loaded => \A m \in 1 .. Len(packages'[i].targets) :
                                            new[packages'[i].targets[m].index] < new[i]
    <3>1. CASE i = n
      BY <1>1, <3>1
    <3>2. CASE i \in 1 .. Len(packages)
      <4>1. i # n /\ packages'[i] = packages[i]
        BY <1>1, <3>2 DEF n
      <4>2. new[i] = rank[i] /\ rank[i] \in Nat /\ rank[i] <= top
        BY <2>1, <3>2, <4>1 DEF RankedBy
      <4>3. ASSUME NEW m \in 1 .. Len(packages[i].targets), packages[i].loaded
            PROVE  new[packages[i].targets[m].index] < new[i]
        <5>1. packages[i].targets[m].index \in 1 .. Len(packages)
          BY <1>6, <3>2 DEF Known
        <5>2. packages[i].targets[m].index # n /\ packages[i].targets[m].index \in 1 .. Len(packages')
          BY <1>1, <5>1 DEF n
        <5>3. rank[packages[i].targets[m].index] < rank[i]
          BY <2>1, <3>2, <4>3 DEF RankedBy
        <5> QED BY <4>2, <5>2, <5>3
      <4> QED BY <4>1, <4>2, <4>3
    <3> QED BY <1>1, <1>3, <3>1, <3>2
  <2> HIDE DEF new
  <2>5. \A k, m \in 1 .. Len(visit') : k < m => new[visit'[m].pkg] < new[visit'[k].pkg]
    BY <2>2
  <2> QED BY <2>3, <2>4, <2>5, RankedNext
<1> QED BY <1>4, <1>5, <1>8, <1>9, <1>10

\* A call of LoadPackageRecursive begins to load a package.
LEMMA EnterKeeps ==
    ASSUME PkgInv, phase = "load", NEW dir \in Directory, NEW imports \in Seq(ImportPath),
           Enter(dir, imports),
           load # << >> => LET i == Subject(Len(load)) IN
                           /\ Awaited(i) \in 1 .. Len(packages[i].imports)
                           /\ dir = ResolveImport(world, packages[i].dir, packages[i].imports[Awaited(i)])
    PROVE  PkgInv'
<1> DEFINE n == Len(packages) + 1
           c == Len(load) + 1
           new == [table |-> table', index |-> n]
           call == [pkg |-> new, own |-> new]
<1>0. TypeOK /\ TableFits /\ PointersKnown /\ CallsWait /\ TargetsFit /\ PhaseFits
  BY DEF PkgInv, LoadInv
<1>1. /\ MakeRoom(n) /\ packages' = Append(packages, NewPackage(dir, imports))
      /\ load' = Append(load, call) /\ UNCHANGED <<world, entryPkg, platformPkg, phase, error>>
      /\ UNCHANGED <<order, visit, roots, sort>>
  BY DEF Enter, orderVars
<1>2. /\ TableFits' /\ TargetsFit' /\ Ranked'
      /\ \A i \in 1 .. Len(packages') : \A m \in 1 .. Len(packages'[i].targets) :
            packages'[i].targets[m].index \in 1 .. Len(packages') /\ packages'[i].targets[m].table <= table'
      /\ \A p : p.table \in Nat /\ p.index \in Nat /\ Known(p) =>
            p.index \in 1 .. Len(packages') /\ p.table <= table'
  BY <1>1, AddKeeps
<1>3. /\ packages' \in Seq(Package) /\ Len(packages) \in Nat /\ Len(packages') = n
      /\ \A i \in 1 .. Len(packages) : packages'[i] = packages[i]
      /\ packages'[n].dir = dir /\ ~packages'[n].loaded
  BY <1>0, <1>1, PackageAdded
<1>4. table' \in Nat /\ cap' \in Nat /\ table <= table'
  BY <1>0, <1>1, RoomMade
<1>5. call \in LoadCall /\ call.own.index = n /\ call.pkg.index = n /\ call.pkg = new /\ call.own = new
      /\ new.index = n /\ new.table = table' /\ n \in Nat
  BY <1>3, <1>4 DEF LoadCall, PackagePointer
<1> HIDE DEF call, new
<1>6. /\ load' \in Seq(LoadCall) /\ Len(load') = c /\ Len(load) \in Nat
      /\ \A k \in 1 .. Len(load) : load'[k] = load[k]
      /\ load'[c] = call
      /\ \A k \in 1 .. c : k = c \/ k \in 1 .. Len(load)
  BY <1>0, <1>1, <1>5 DEF TypeOK
<1>7. \A k \in 1 .. Len(load) :
         /\ load[k].pkg.index \in Nat /\ load[k].pkg.table \in Nat
         /\ load[k].own.index \in Nat /\ load[k].own.table \in Nat
         /\ load[k].own.index \in 1 .. Len(packages) /\ Known(load[k].pkg) /\ Known(load[k].own)
         /\ load[k].pkg.index = load[k].own.index
  <2> SUFFICES ASSUME NEW k \in 1 .. Len(load)
               PROVE  /\ load[k].pkg.index \in Nat /\ load[k].pkg.table \in Nat
                      /\ load[k].own.index \in Nat /\ load[k].own.table \in Nat
                      /\ load[k].own.index \in 1 .. Len(packages)
                      /\ Known(load[k].pkg) /\ Known(load[k].own)
                      /\ load[k].pkg.index = load[k].own.index
    OBVIOUS
  <2>1. load[k] \in LoadCall
    BY <1>0 DEF TypeOK
  <2>2. Known(load[k].pkg) /\ Known(load[k].own) /\ load[k].pkg.index = load[k].own.index
    BY <1>0 DEF PointersKnown
  <2> QED BY <2>1, <2>2 DEF LoadCall, PackagePointer, Known
<1>8. TypeOK'
  BY <1>0, <1>1, <1>3, <1>4, <1>6 DEF TypeOK
<1>9. PointersKnown'
  <2>1. ASSUME NEW k \in 1 .. Len(load')
        PROVE  /\ load'[k].pkg.index \in 1 .. Len(packages') /\ load'[k].pkg.table <= table'
               /\ load'[k].own.index \in 1 .. Len(packages') /\ load'[k].own.table <= table'
               /\ load'[k].pkg.index = load'[k].own.index
    <3>1. CASE k = c
      BY <1>3, <1>4, <1>5, <1>6, <3>1
    <3>2. CASE k \in 1 .. Len(load)
      <4>1. load'[k] = load[k] /\ load[k].pkg.index = load[k].own.index
        BY <1>6, <1>7, <3>2
      <4>2. /\ load[k].pkg.index \in 1 .. Len(packages') /\ load[k].pkg.table <= table'
            /\ load[k].own.index \in 1 .. Len(packages') /\ load[k].own.table <= table'
        BY <1>2, <1>7, <3>2
      <4> QED BY <4>1, <4>2
    <3> QED BY <1>6, <3>1, <3>2
  <2>2. entryPkg # << >> => entryPkg.index \in 1 .. Len(packages') /\ entryPkg.table <= table'
    <3>1. entryPkg # << >> => entryPkg \in PackagePointer /\ Known(entryPkg)
      BY <1>0 DEF TypeOK, PointersKnown
    <3> QED BY <1>2, <3>1 DEF PackagePointer
  <2>3. platformPkg # << >> => platformPkg.index \in 1 .. Len(packages') /\ platformPkg.table <= table'
    <3>1. platformPkg # << >> => platformPkg \in PackagePointer /\ Known(platformPkg)
      BY <1>0 DEF TypeOK, PointersKnown
    <3> QED BY <1>2, <3>1 DEF PackagePointer
  <2> QED BY <1>1, <1>2, <2>1, <2>2, <2>3 DEF PointersKnown, Known
<1>10. CallsWait'
  <2>1. \A k \in 1 .. Len(load) :
           /\ load'[k].own.index = Subject(k) /\ Subject(k) \in 1 .. Len(packages)
           /\ packages'[Subject(k)] = packages[Subject(k)] /\ ~packages[Subject(k)].loaded
    BY <1>0, <1>3, <1>6, <1>7 DEF Subject, CallsWait
  <2>2. load'[c].own.index = n /\ ~packages'[n].loaded
    BY <1>3, <1>5, <1>6
  <2>3. ASSUME NEW k \in 1 .. Len(load')
        PROVE  ~packages'[load'[k].own.index].loaded
    BY <1>6, <2>1, <2>2
  <2>4. ASSUME NEW k \in 1 .. Len(load'), NEW m \in 1 .. Len(load'), k < m
        PROVE  load'[k].own.index < load'[m].own.index
    <3>1. CASE m = c
      <4>1. k \in 1 .. Len(load)
        BY <1>6, <2>4, <3>1
      <4> QED BY <1>3, <2>1, <2>2, <3>1, <4>1
    <3>2. CASE m \in 1 .. Len(load)
      <4>1. k \in 1 .. Len(load)
        BY <1>6, <2>4, <3>2
      <4> QED BY <1>0, <2>1, <2>4, <3>2, <4>1 DEF CallsWait
    <3> QED BY <1>6, <3>1, <3>2
  <2>5. ASSUME NEW k \in 1 .. Len(load') - 1
        PROVE  LET i == load'[k].own.index IN
               /\ Len(packages'[i].targets) + 1 \in 1 .. Len(packages'[i].imports)
               /\ packages'[load'[k + 1].own.index].dir =
                     ResolveImport(world, packages'[i].dir,
                                   packages'[i].imports[Len(packages'[i].targets) + 1])
    <3>0. k \in 1 .. Len(load) /\ k + 1 \in 1 .. c
      BY <1>6
    <3>1. load'[k].own.index = Subject(k) /\ packages'[Subject(k)] = packages[Subject(k)]
      BY <2>1, <3>0
    <3>2. CASE k = Len(load)
      <4>1. load # << >> /\ load'[k + 1].own.index = n
        BY <1>6, <2>2, <3>0, <3>2
      <4> QED BY <1>3, <3>1, <3>2, <4>1 DEF Awaited
    <3>3. CASE k \in 1 .. Len(load) - 1
      <4>1. k + 1 \in 1 .. Len(load)
        BY <1>6, <3>3
      <4>2. load'[k + 1].own.index = Subject(k + 1) /\ packages'[Subject(k + 1)] = packages[Subject(k + 1)]
        BY <2>1, <4>1
      <4> QED BY <1>0, <3>1, <3>3, <4>2 DEF CallsWait, Awaited
    <3>4. k = Len(load) \/ k \in 1 .. Len(load) - 1
      BY <1>6
    <3> QED BY <3>2, <3>3, <3>4
  <2>6. ASSUME NEW i \in 1 .. Len(packages')
        PROVE  packages'[i].loaded \/ \E k \in 1 .. Len(load') : load'[k].own.index = i
    <3>1. CASE i = n
      BY <1>6, <2>2, <3>1
    <3>2. CASE i \in 1 .. Len(packages)
      <4>1. packages[i].loaded \/ \E k \in 1 .. Len(load) : Subject(k) = i
        BY <1>0, <3>2 DEF CallsWait
      <4>2. \A k \in 1 .. Len(load) : k \in 1 .. Len(load')
        BY <1>6
      <4> QED BY <1>3, <2>1, <3>2, <4>1, <4>2
    <3> QED BY <1>3, <3>1, <3>2
  <2> QED BY <1>1, <2>3, <2>4, <2>5, <2>6 DEF CallsWait, Subject, Awaited
<1>11. PhaseFits'
  <2>1. table # 0 => table' # 0
    BY <1>0, <1>4 DEF TypeOK
  <2>2. order' = << >> /\ visit' = << >> /\ roots' = << >> /\ phase' = "load" /\ error' = error
    BY <1>0, <1>1 DEF PhaseFits
  <2> QED BY <1>0, <2>1, <2>2 DEF PhaseFits
<1>12. OrderFits' /\ VisitFits' /\ WishesKept'
  BY <1>0, <1>1, NoOrderYet
<1> QED BY <1>2, <1>8, <1>9, <1>10, <1>11, <1>12 DEF PkgInv, LoadInv, OrderInv

\* Entering a package keeps the table, the calls and the targets in order.
LEMMA StartKeeps ==
    ASSUME PkgInv, StartPackage \/ StartFiles
    PROVE  PkgInv'
<1>1. /\ world.tree \subseteq Directory /\ world.entry \in world.tree
      /\ DOMAIN world.imports \subseteq world.tree
      /\ \A d \in DOMAIN world.imports : world.imports[d] \in Seq(Path)
      /\ world.entryImports \in Seq(Path)
  BY WorldFacts DEF PkgInv, LoadInv, TypeOK
<1>2. CASE StartPackage
  <2>1. PICK dir \in Wanted \cap DOMAIN world.imports : Enter(dir, ImportsOf(dir, world.imports[dir]))
    BY <1>2 DEF StartPackage
  <2>2. dir \in Directory /\ ImportsOf(dir, world.imports[dir]) \in Seq(ImportPath)
    BY <1>1, ImportsType
  <2>3. /\ phase = "load"
        /\ load # << >> =>
             LET i == Subject(Len(load)) IN
             /\ Awaited(i) \in 1 .. Len(packages[i].imports)
             /\ dir = ResolveImport(world, packages[i].dir, packages[i].imports[Awaited(i)])
    BY WantedNext DEF PkgInv
  <2> QED BY <2>1, <2>2, <2>3, EnterKeeps
<1>3. CASE StartFiles
  <2>1. phase = "load" /\ packages = << >> /\ Enter(world.entry, ImportsOf(world.entry, world.entryImports))
    BY <1>3 DEF StartFiles
  <2>2. world.entry \in Directory /\ ImportsOf(world.entry, world.entryImports) \in Seq(ImportPath)
    BY <1>1, ImportsType
  <2>3. load = << >>
    <3>1. Len(packages) = 0 /\ load \in Seq(LoadCall)
      BY <2>1 DEF PkgInv, LoadInv, TypeOK
    <3>2. \A k \in 1 .. Len(load) : FALSE
      BY <3>1 DEF PkgInv, LoadInv, PointersKnown, Known
    <3> QED BY <3>1, <3>2
  <2> QED BY <2>1, <2>2, <2>3, EnterKeeps
<1> QED BY <1>2, <1>3

\* A directory without sources, or whose sources do not parse.
LEMMA NoSourceKeeps ==
    ASSUME PkgInv, NoSource
    PROVE  PkgInv'
<1>0. TypeOK /\ TableFits /\ PointersKnown /\ CallsWait /\ TargetsFit /\ PhaseFits
  BY DEF PkgInv, LoadInv
<1> DEFINE n == Len(packages) + 1
<1>1. PICK dir \in world.tree :
         /\ dir \in Wanted \/ phase = "load"
         /\ MakeRoom(n) /\ packages' = Append(packages, NewPackage(dir, << >>))
         /\ FailLoad("source")
         /\ UNCHANGED <<world, load, entryPkg, platformPkg>> /\ UNCHANGED orderVars
  BY DEF NoSource
<1>2. phase = "load"
  BY <1>1, WantedNext DEF PkgInv
<1>3. dir \in Directory /\ << >> \in Seq(ImportPath) /\ UNCHANGED <<order, visit, roots, sort>>
  BY <1>0, <1>1, WorldFacts DEF TypeOK, orderVars
<1>4. /\ TableFits' /\ TargetsFit' /\ Ranked'
      /\ \A i \in 1 .. Len(packages') : \A m \in 1 .. Len(packages'[i].targets) :
            packages'[i].targets[m].index \in 1 .. Len(packages') /\ packages'[i].targets[m].table <= table'
      /\ \A p : p.table \in Nat /\ p.index \in Nat /\ Known(p) =>
            p.index \in 1 .. Len(packages') /\ p.table <= table'
  BY <1>1, <1>2, <1>3, AddKeeps
<1>5. /\ packages' \in Seq(Package) /\ Len(packages) \in Nat /\ Len(packages') = n
      /\ \A i \in 1 .. Len(packages) : packages'[i] = packages[i]
  BY <1>0, <1>1, <1>3, PackageAdded
<1>6. table' \in Nat /\ cap' \in Nat /\ table <= table' /\ (n <= TableCap => table' = 0)
  BY <1>0, <1>1, RoomMade
<1>7. /\ phase' \in {"failed", "undefined"} /\ (phase' = "undefined" => n > TableCap)
      /\ error' = error \/ error' = "source"
  <2>1. n \in Nat /\ (n <= TableCap => table = 0 /\ table' = 0)
    <3>1. TableCap \in Nat /\ table \in Nat
      BY <1>0, WorldFacts DEF TypeOK
    <3> QED BY <1>5, <1>6, <3>1
  <2> HIDE DEF n
  <2> QED BY <1>0, <1>1, <1>6, <2>1, Fails
<1>8. \A k \in 1 .. Len(load) :
         /\ load[k].pkg \in PackagePointer /\ load[k].own \in PackagePointer
         /\ Known(load[k].pkg) /\ Known(load[k].own) /\ load[k].pkg.index = load[k].own.index
  <2> SUFFICES ASSUME NEW k \in 1 .. Len(load)
               PROVE  /\ load[k].pkg \in PackagePointer /\ load[k].own \in PackagePointer
                      /\ Known(load[k].pkg) /\ Known(load[k].own)
                      /\ load[k].pkg.index = load[k].own.index
    OBVIOUS
  <2>1. load[k] \in LoadCall
    BY <1>0 DEF TypeOK
  <2> QED BY <1>0, <2>1 DEF PointersKnown, LoadCall
<1>9. TypeOK'
  BY <1>0, <1>1, <1>3, <1>5, <1>6, <1>7 DEF TypeOK
<1>10. PointersKnown'
  <2>1. ASSUME NEW p \in PackagePointer, Known(p)
        PROVE  p.index \in 1 .. Len(packages') /\ p.table <= table'
    BY <1>4, <2>1 DEF PackagePointer
  <2>2. entryPkg # << >> => entryPkg \in PackagePointer /\ Known(entryPkg)
    BY <1>0 DEF TypeOK, PointersKnown
  <2>3. platformPkg # << >> => platformPkg \in PackagePointer /\ Known(platformPkg)
    BY <1>0 DEF TypeOK, PointersKnown
  <2>4. ASSUME NEW k \in 1 .. Len(load)
        PROVE  /\ load[k].pkg.index \in 1 .. Len(packages') /\ load[k].pkg.table <= table'
               /\ load[k].own.index \in 1 .. Len(packages') /\ load[k].own.table <= table'
               /\ load[k].pkg.index = load[k].own.index
    BY <1>8, <2>1
  <2> QED BY <1>1, <1>4, <2>1, <2>2, <2>3, <2>4 DEF PointersKnown, Known
<1>11. CallsWait'
  <2>1. load' = load /\ world' = world
    BY <1>1
  <2>2. \A k \in 1 .. Len(load) : Subject(k) \in 1 .. Len(packages)
                                  /\ packages'[Subject(k)] = packages[Subject(k)]
    BY <1>5, <1>8 DEF Known, Subject
  <2>3. load \in Seq(LoadCall) /\ Len(load) \in Nat
    BY <1>0 DEF TypeOK
  <2>4. ASSUME NEW k \in 1 .. Len(load) - 1
        PROVE  /\ Len(packages'[Subject(k)].targets) + 1 \in 1 .. Len(packages'[Subject(k)].imports)
               /\ packages'[Subject(k + 1)].dir =
                     ResolveImport(world, packages'[Subject(k)].dir,
                                   packages'[Subject(k)].imports[Len(packages'[Subject(k)].targets) + 1])
    <3>1. k \in 1 .. Len(load) /\ k + 1 \in 1 .. Len(load)
      BY <2>3
    <3> QED BY <1>0, <2>2, <3>1 DEF CallsWait, Awaited
  <2>5. \A k \in 1 .. Len(load) : ~packages'[Subject(k)].loaded
    BY <1>0, <2>2 DEF CallsWait
  <2>6. \A k, m \in 1 .. Len(load) : k < m => Subject(k) < Subject(m)
    BY <1>0 DEF CallsWait
  <2> QED BY <1>7, <2>1, <2>4, <2>5, <2>6 DEF CallsWait, Subject, Awaited
<1>12. PhaseFits'
  <2>1. table # 0 => table' # 0
    BY <1>0, <1>6 DEF TypeOK
  <2> QED BY <1>0, <1>5, <1>7, <2>1 DEF PhaseFits
<1>13. OrderFits' /\ VisitFits' /\ WishesKept'
  BY <1>0, <1>2, <1>3, <1>7, NoOrderYet
<1> QED BY <1>4, <1>9, <1>10, <1>11, <1>12, <1>13 DEF PkgInv, LoadInv, OrderInv

\* A pointer is not the << >> that stands for none.
LEMMA PointerIsSome ==
    ASSUME NEW p \in PackagePointer
    PROVE  p # << >>
<1>1. DOMAIN p = {"table", "index"}
  BY DEF PackagePointer
<1>2. DOMAIN << >> = {}
  OBVIOUS
<1> QED BY <1>1, <1>2

\* The tables and calls a delivery leaves: a target is added to the package of the innermost caller.
LEMMA Delivered ==
    ASSUME TypeOK, NEW pkgs \in Seq(Package), Len(pkgs) = Len(packages),
           NEW p \in PackagePointer, NEW callers \in Seq(LoadCall),
           \A k \in 1 .. Len(callers) : /\ callers[k].own.index \in 1 .. Len(packages)
                                        /\ callers[k].pkg.index = callers[k].own.index,
           Deliver(pkgs, p, callers), table' = table
    PROVE  /\ packages' \in Seq(Package) /\ Len(packages') = Len(packages)
           /\ \A j \in 1 .. Len(packages) :
                 /\ packages'[j].dir = pkgs[j].dir /\ packages'[j].imports = pkgs[j].imports
                 /\ packages'[j].loaded = pkgs[j].loaded
                 /\ packages'[j].targets =
                       IF callers # << >> /\ j = callers[Len(callers)].own.index
                       THEN Append(pkgs[j].targets, p) ELSE pkgs[j].targets
           /\ load' \in Seq(LoadCall) /\ Len(load') = Len(callers)
           /\ \A k \in 1 .. Len(callers) :
                 /\ load'[k].own = callers[k].own /\ load'[k].pkg.index = callers[k].pkg.index
                 /\ load'[k].pkg = callers[k].pkg \/ load'[k].pkg.table = table
           /\ callers # << >> => UNCHANGED <<entryPkg, platformPkg, phase, error>>
           /\ callers = << >> => /\ error' = error /\ phase' \in {phase, "check"}
                                 /\ entryPkg' \in {entryPkg, p} /\ platformPkg' \in {platformPkg, p}
                                 /\ phase' # phase => entryPkg' # << >> /\ platformPkg' = p
<1>1. CASE callers # << >>
  <2> DEFINE c == Len(callers)
             i == callers[c].pkg.index
             full == [pkgs[i] EXCEPT !.targets = Append(@, p)]
             call == [callers[c] EXCEPT !.pkg = Pointer(i)]
  <2>1. c \in 1 .. c /\ Last(callers) = callers[c]
    BY <1>1 DEF Last
  <2>2. i \in 1 .. Len(packages) /\ i = callers[c].own.index
    BY <2>1
  <2>3. /\ packages' = [pkgs EXCEPT ![i].targets = Append(@, p)]
        /\ load' = [callers EXCEPT ![c].pkg = Pointer(i)]
        /\ UNCHANGED <<entryPkg, platformPkg, phase, error>>
    BY <1>1, <2>1 DEF Deliver
  <2>4. pkgs[i] \in Package
    BY <2>2
  <2>5. /\ full \in Package /\ full.dir = pkgs[i].dir /\ full.imports = pkgs[i].imports
        /\ full.loaded = pkgs[i].loaded /\ full.targets = Append(pkgs[i].targets, p)
    <3>1. Append(pkgs[i].targets, p) \in Seq(PackagePointer)
      <4>1. pkgs[i].targets \in Seq(PackagePointer) /\ p \in PackagePointer
        BY <2>4 DEF Package
      <4> QED BY ONLY <4>1
    <3> HIDE DEF i
    <3> QED BY <2>4, <3>1 DEF Package
  <2>6. callers[c] \in LoadCall /\ Pointer(i) \in PackagePointer
        /\ Pointer(i).index = i /\ Pointer(i).table = table
    BY <2>1, <2>2 DEF Pointer, PackagePointer, TypeOK
  <2>7. call \in LoadCall /\ call.own = callers[c].own /\ call.pkg = Pointer(i)
    BY <2>6 DEF LoadCall
  <2>8. packages' = [pkgs EXCEPT ![i] = full] /\ load' = [callers EXCEPT ![c] = call]
    BY <2>3
  <2> HIDE DEF full, call, i, c
  <2>9. /\ packages' \in Seq(Package) /\ Len(packages') = Len(packages) /\ packages'[i] = full
        /\ \A j \in 1 .. Len(packages) : j # i => packages'[j] = pkgs[j]
    <3>1. pkgs \in Seq(Package) /\ Len(pkgs) = Len(packages) /\ i \in 1 .. Len(pkgs) /\ full \in Package
      BY <2>2, <2>5
    <3>2. /\ packages' \in Seq(Package) /\ Len(packages') = Len(pkgs) /\ packages'[i] = full
          /\ \A j \in 1 .. Len(pkgs) : j # i => packages'[j] = pkgs[j]
      BY ONLY <2>8, <3>1
    <3> QED BY ONLY <3>1, <3>2
  <2>10. /\ load' \in Seq(LoadCall) /\ Len(load') = Len(callers) /\ load'[c] = call
         /\ \A k \in 1 .. Len(callers) : k # c => load'[k] = callers[k]
    BY <2>1, <2>7, <2>8 DEF c
  <2>11. ASSUME NEW j \in 1 .. Len(packages)
         PROVE  /\ packages'[j].dir = pkgs[j].dir /\ packages'[j].imports = pkgs[j].imports
                /\ packages'[j].loaded = pkgs[j].loaded
                /\ packages'[j].targets = IF j = callers[Len(callers)].own.index
                                          THEN Append(pkgs[j].targets, p) ELSE pkgs[j].targets
    BY <2>2, <2>5, <2>9 DEF c
  <2>12. ASSUME NEW k \in 1 .. Len(callers)
         PROVE  /\ load'[k].own = callers[k].own /\ load'[k].pkg.index = callers[k].pkg.index
                /\ load'[k].pkg = callers[k].pkg \/ load'[k].pkg.table = table
    BY <2>2, <2>6, <2>7, <2>10 DEF i
  <2> QED BY <1>1, <2>3, <2>9, <2>10, <2>11, <2>12
<1>2. CASE callers = << >>
  <2>1. packages' = pkgs /\ load' = callers
    BY <1>2 DEF Deliver
  <2>2. /\ error' = error /\ phase' \in {phase, "check"}
        /\ entryPkg' \in {entryPkg, p} /\ platformPkg' \in {platformPkg, p}
        /\ phase' # phase => entryPkg' # << >> /\ platformPkg' = p
    BY <1>2 DEF Deliver, Go
  <2> QED BY <1>2, <2>1, <2>2
<1> QED BY <1>1, <1>2

\* The table when a package is delivered: all are loaded but those the callers load.
Settled(pkgs, callers) ==
    \A j \in 1 .. Len(packages) :
       /\ pkgs[j].dir = packages[j].dir /\ pkgs[j].imports = packages[j].imports
       /\ pkgs[j].targets = packages[j].targets
       /\ packages[j].loaded => pkgs[j].loaded
       /\ pkgs[j].loaded => Len(pkgs[j].targets) = Len(pkgs[j].imports)
       /\ pkgs[j].loaded \/ \E k \in 1 .. Len(callers) : callers[k].own.index = j
       /\ ~pkgs[j].loaded \/ \A k \in 1 .. Len(callers) : callers[k].own.index # j

\* The package delivered is the one the innermost caller waits for.
Answers(p, callers) ==
    callers # << >> =>
       LET i == Subject(Len(callers)) IN
       /\ Awaited(i) \in 1 .. Len(packages[i].imports)
       /\ packages[p.index].dir = ResolveImport(world, packages[i].dir, packages[i].imports[Awaited(i)])

RanksFit(pkgs, rank, top) ==
    \A j \in 1 .. Len(packages) :
       /\ rank[j] <= top
       /\ pkgs[j].loaded => \A n \in 1 .. Len(pkgs[j].targets) :
                               rank[pkgs[j].targets[n].index] < rank[j]

Outer(callers) == Len(callers) <= Len(load) /\ \A k \in 1 .. Len(callers) : callers[k] = load[k]

\* A loaded package goes to the import that asked for it.
LEMMA DeliverKeeps ==
    ASSUME PkgInv, phase = "load", NEW pkgs \in Seq(Package), Len(pkgs) = Len(packages),
           NEW p \in PackagePointer, Known(p), pkgs[p.index].loaded,
           NEW callers \in Seq(LoadCall), Outer(callers),
           Settled(pkgs, callers), Answers(p, callers),
           NEW top \in Nat, NEW rank \in [1 .. Len(packages) -> Nat], RanksFit(pkgs, rank, top),
           Deliver(pkgs, p, callers), UNCHANGED <<world, cap, table>>, UNCHANGED orderVars
    PROVE  PkgInv'
<1> DEFINE c == Len(callers)
           i == callers[c].own.index
<1>0. TypeOK /\ TableFits /\ PointersKnown /\ CallsWait /\ TargetsFit /\ PhaseFits
  BY DEF PkgInv, LoadInv
<1>1. /\ Len(packages) \in Nat /\ c \in Nat /\ Len(load) \in Nat /\ table \in Nat
      /\ p.index \in 1 .. Len(packages) /\ p.table <= table /\ c <= Len(load)
  BY <1>0 DEF TypeOK, Known, Outer
<1>2. \A k \in 1 .. c : /\ k \in 1 .. Len(load) /\ callers[k] = load[k] /\ callers[k].own.index = Subject(k)
                        /\ Subject(k) \in 1 .. Len(packages)
                        /\ callers[k].pkg.index = callers[k].own.index
                        /\ callers[k].pkg.table <= table /\ callers[k].own.table <= table
  <2>1. \A k \in 1 .. c : k \in 1 .. Len(load) /\ callers[k] = load[k]
    BY <1>1 DEF Outer
  <2> QED BY <1>0, <2>1 DEF PointersKnown, Known, Subject
<1>3. callers # << >> => c \in 1 .. c /\ i = Subject(c)
  BY <1>2 DEF Subject
<1>4. /\ packages' \in Seq(Package) /\ Len(packages') = Len(packages)
      /\ \A j \in 1 .. Len(packages) :
            /\ packages'[j].dir = pkgs[j].dir /\ packages'[j].imports = pkgs[j].imports
            /\ packages'[j].loaded = pkgs[j].loaded
            /\ packages'[j].targets = IF callers # << >> /\ j = i
                                      THEN Append(pkgs[j].targets, p) ELSE pkgs[j].targets
      /\ load' \in Seq(LoadCall) /\ Len(load') = c
      /\ \A k \in 1 .. c :
            /\ load'[k].own = callers[k].own /\ load'[k].pkg.index = callers[k].pkg.index
            /\ load'[k].pkg = callers[k].pkg \/ load'[k].pkg.table = table
      /\ callers # << >> => UNCHANGED <<entryPkg, platformPkg, phase, error>>
      /\ callers = << >> => /\ error' = error /\ phase' \in {phase, "check"}
                            /\ entryPkg' \in {entryPkg, p} /\ platformPkg' \in {platformPkg, p}
                            /\ phase' # phase => entryPkg' # << >> /\ platformPkg' = p
  <2>1. \A k \in 1 .. Len(callers) : /\ callers[k].own.index \in 1 .. Len(packages)
                                      /\ callers[k].pkg.index = callers[k].own.index
    BY <1>2
  <2> QED BY <1>0, <2>1, Delivered
<1> HIDE DEF i, c
<1>5. \A j \in 1 .. Len(packages) : packages[j].targets \in Seq(PackagePointer)
                                    /\ packages[j].imports \in Seq(ImportPath)
  <2> SUFFICES ASSUME NEW j \in 1 .. Len(packages)
               PROVE  packages[j].targets \in Seq(PackagePointer) /\ packages[j].imports \in Seq(ImportPath)
    OBVIOUS
  <2>1. packages[j] \in Package
    BY <1>0 DEF TypeOK
  <2> QED BY <2>1 DEF Package
<1>6. \A j \in 1 .. Len(packages) :
         /\ packages'[j].dir = packages[j].dir /\ packages'[j].imports = packages[j].imports
         /\ packages'[j].loaded \/ \E k \in 1 .. c : Subject(k) = j
         /\ ~packages'[j].loaded \/ \A k \in 1 .. c : Subject(k) # j
         /\ packages'[j].loaded => Len(packages[j].targets) = Len(packages[j].imports)
         /\ packages[j].loaded => packages'[j].loaded
         /\ ~(callers # << >> /\ j = i) => packages'[j].targets = packages[j].targets
         /\ callers # << >> /\ j = i => packages'[j].targets = Append(packages[j].targets, p)
  <2> SUFFICES ASSUME NEW j \in 1 .. Len(packages)
               PROVE  /\ packages'[j].dir = packages[j].dir /\ packages'[j].imports = packages[j].imports
                      /\ packages'[j].loaded \/ \E k \in 1 .. c : Subject(k) = j
                      /\ ~packages'[j].loaded \/ \A k \in 1 .. c : Subject(k) # j
                      /\ packages'[j].loaded => Len(packages[j].targets) = Len(packages[j].imports)
                      /\ packages[j].loaded => packages'[j].loaded
                      /\ ~(callers # << >> /\ j = i) => packages'[j].targets = packages[j].targets
                      /\ callers # << >> /\ j = i => packages'[j].targets = Append(packages[j].targets, p)
    OBVIOUS
  <2>1. /\ packages'[j].dir = pkgs[j].dir /\ packages'[j].imports = pkgs[j].imports
        /\ packages'[j].loaded = pkgs[j].loaded
        /\ packages'[j].targets = IF callers # << >> /\ j = i
                                  THEN Append(pkgs[j].targets, p) ELSE pkgs[j].targets
    BY <1>4
  <2>2. /\ pkgs[j].dir = packages[j].dir /\ pkgs[j].imports = packages[j].imports
        /\ pkgs[j].targets = packages[j].targets
        /\ packages[j].loaded => pkgs[j].loaded
        /\ pkgs[j].loaded => Len(pkgs[j].targets) = Len(pkgs[j].imports)
        /\ pkgs[j].loaded \/ \E k \in 1 .. c : callers[k].own.index = j
        /\ ~pkgs[j].loaded \/ \A k \in 1 .. c : callers[k].own.index # j
    BY DEF Settled, c
  <2> QED BY <1>2, <2>1, <2>2
<1>7. \A j \in 1 .. Len(packages) : packages'[j].loaded => packages'[j].targets = packages[j].targets
  BY <1>3, <1>6
<1>8. ASSUME NEW j \in 1 .. Len(packages), NEW n \in 1 .. Len(packages'[j].targets)
      PROVE  \/ n \in 1 .. Len(packages[j].targets) /\ packages'[j].targets[n] = packages[j].targets[n]
             \/ callers # << >> /\ j = i /\ n = Awaited(i) /\ packages'[j].targets[n] = p
  <2>1. CASE callers # << >> /\ j = i
    <3>1. packages'[j].targets = Append(packages[j].targets, p) /\ packages[j].targets \in Seq(PackagePointer)
      BY <1>5, <1>6, <2>1
    <3> QED BY <2>1, <3>1 DEF Awaited
  <2>2. CASE ~(callers # << >> /\ j = i)
    BY <1>6, <2>2
  <2> QED BY <2>1, <2>2
<1>9. \A q \in PackagePointer : Known(q) => q.index \in 1 .. Len(packages') /\ q.table <= table'
  BY <1>4 DEF Known
<1>10. TypeOK'
  <2>1. phase' \in {"load", "check"}
    BY <1>4
  <2>2. /\ entryPkg' \in PackagePointer \cup { << >> }
        /\ platformPkg' \in PackagePointer \cup { << >> }
    BY <1>0, <1>4 DEF TypeOK
  <2> QED BY <1>0, <1>4, <2>1, <2>2 DEF TypeOK, orderVars
<1>11. TableFits'
  BY <1>0, <1>4 DEF TableFits
<1>12. PointersKnown'
  <2>1. ASSUME NEW k \in 1 .. Len(load')
        PROVE  /\ load'[k].pkg.index \in 1 .. Len(packages') /\ load'[k].pkg.table <= table'
               /\ load'[k].own.index \in 1 .. Len(packages') /\ load'[k].own.table <= table'
               /\ load'[k].pkg.index = load'[k].own.index
    <3>1. k \in 1 .. c /\ table' = table
      BY <1>4
    <3>2. /\ load'[k].own = callers[k].own /\ load'[k].pkg.index = callers[k].pkg.index
          /\ load'[k].pkg = callers[k].pkg \/ load'[k].pkg.table = table
      BY <1>4, <3>1
    <3>3. /\ callers[k].own.index \in 1 .. Len(packages) /\ callers[k].pkg.index = callers[k].own.index
          /\ callers[k].pkg.table <= table /\ callers[k].own.table <= table
      BY <1>2, <3>1
    <3>4. load'[k].pkg.table <= table
      BY <1>1, <3>2, <3>3
    <3> QED BY <1>4, <3>1, <3>2, <3>3, <3>4
  <2>2. ASSUME NEW j \in 1 .. Len(packages'), NEW n \in 1 .. Len(packages'[j].targets)
        PROVE  packages'[j].targets[n].index \in 1 .. Len(packages') /\ packages'[j].targets[n].table <= table'
    <3>1. j \in 1 .. Len(packages)
      BY <1>4
    <3>2. CASE n \in 1 .. Len(packages[j].targets) /\ packages'[j].targets[n] = packages[j].targets[n]
      BY <1>0, <1>4, <3>1, <3>2 DEF PointersKnown, Known
    <3>3. CASE packages'[j].targets[n] = p
      BY <1>1, <1>4, <3>3
    <3> QED BY <1>8, <3>1, <3>2, <3>3
  <2>3. entryPkg' # << >> => entryPkg'.index \in 1 .. Len(packages') /\ entryPkg'.table <= table'
    <3>1. entryPkg' = entryPkg \/ entryPkg' = p
      BY <1>4
    <3> QED BY <1>0, <1>1, <1>4, <3>1 DEF PointersKnown, Known
  <2>4. platformPkg' # << >> => platformPkg'.index \in 1 .. Len(packages') /\ platformPkg'.table <= table'
    <3>1. platformPkg' = platformPkg \/ platformPkg' = p
      BY <1>4
    <3> QED BY <1>0, <1>1, <1>4, <3>1 DEF PointersKnown, Known
  <2> QED BY <2>1, <2>2, <2>3, <2>4 DEF PointersKnown, Known
<1>13. CallsWait'
  <2>1. \A k \in 1 .. c : load'[k].own.index = Subject(k)
    BY <1>2, <1>4
  <2>2. \A k, m \in 1 .. c : k < m => Subject(k) < Subject(m)
    BY <1>0, <1>2 DEF CallsWait
  <2>3. \A k \in 1 .. Len(load') : ~packages'[load'[k].own.index].loaded
    <3>1. ASSUME NEW k \in 1 .. c PROVE ~packages'[load'[k].own.index].loaded
      <4>1. load'[k].own.index = Subject(k)
        BY <2>1
      <4>2. PICK j : j = Subject(k)
        OBVIOUS
      <4>3. j \in 1 .. Len(packages)
        BY <1>2, <4>2
      <4>4. ~packages'[j].loaded \/ \A m \in 1 .. c : Subject(m) # j
        BY <1>6, <4>3
      <4>5. \E m \in 1 .. c : Subject(m) = j
        BY <4>2
      <4> QED BY ONLY <4>1, <4>2, <4>4, <4>5
    <3>2. Len(load') = c
      BY <1>4
    <3> QED BY ONLY <3>1, <3>2
  <2>4. \A k, m \in 1 .. Len(load') : k < m => load'[k].own.index < load'[m].own.index
    BY <1>4, <2>1, <2>2
  <2>5. ASSUME NEW k \in 1 .. Len(load') - 1
        PROVE  LET s == load'[k].own.index IN
               /\ Len(packages'[s].targets) + 1 \in 1 .. Len(packages'[s].imports)
               /\ packages'[load'[k + 1].own.index].dir =
                     ResolveImport(world, packages'[s].dir,
                                   packages'[s].imports[Len(packages'[s].targets) + 1])
    <3>1. k \in 1 .. c /\ k + 1 \in 1 .. c /\ k \in 1 .. Len(load) - 1 /\ c \in 1 .. c /\ k < c
      <4>1. k \in 1 .. c - 1
        BY <1>4
      <4> QED BY <1>1, <4>1
    <3>2. Subject(k) # i
      <4>1. callers # << >>
        BY <3>1 DEF c
      <4>2. Subject(k) < Subject(c) /\ i = Subject(c)
        BY <1>3, <2>2, <3>1, <4>1
      <4>3. Subject(k) \in Int /\ Subject(c) \in Int
        BY <1>2, <3>1
      <4> QED BY <4>2, <4>3
    <3>3. /\ load'[k].own.index = Subject(k) /\ load'[k + 1].own.index = Subject(k + 1)
          /\ Subject(k) \in 1 .. Len(packages) /\ Subject(k + 1) \in 1 .. Len(packages)
      BY <1>2, <2>1, <3>1
    <3>4. /\ packages'[Subject(k)].targets = packages[Subject(k)].targets
          /\ packages'[Subject(k)].dir = packages[Subject(k)].dir
          /\ packages'[Subject(k)].imports = packages[Subject(k)].imports
          /\ packages'[Subject(k + 1)].dir = packages[Subject(k + 1)].dir
      BY <1>6, <3>2, <3>3
    <3> QED BY <1>0, <3>1, <3>3, <3>4 DEF CallsWait, Awaited
  <2>6. ASSUME NEW j \in 1 .. Len(packages')
        PROVE  packages'[j].loaded \/ \E k \in 1 .. Len(load') : load'[k].own.index = j
    <3>1. packages'[j].loaded \/ \E k \in 1 .. c : Subject(k) = j
      BY <1>4, <1>6
    <3>2. Len(load') = c
      BY <1>4
    <3> QED BY <2>1, <3>1, <3>2
  <2> QED BY <2>3, <2>4, <2>5, <2>6 DEF CallsWait, Subject, Awaited
<1>14. TargetsFit'
  <2>1. ASSUME NEW j \in 1 .. Len(packages')
        PROVE  /\ Len(packages'[j].targets) <= Len(packages'[j].imports)
               /\ packages'[j].loaded => Len(packages'[j].targets) = Len(packages'[j].imports)
    <3>0. j \in 1 .. Len(packages)
      BY <1>4
    <3>1. packages'[j].loaded => Len(packages'[j].targets) = Len(packages'[j].imports)
      BY <1>6, <1>7, <3>0
    <3>2. CASE callers # << >> /\ j = i
      <4>1. Awaited(i) <= Len(packages[i].imports)
        BY <1>3, <3>2 DEF c, Answers
      <4>2. Len(Append(packages[i].targets, p)) = Awaited(i)
        BY <1>5, <3>0, <3>2 DEF Awaited
      <4> QED BY <1>6, <3>0, <3>1, <3>2, <4>1, <4>2
    <3>3. CASE ~(callers # << >> /\ j = i)
      BY <1>0, <1>6, <3>0, <3>1, <3>3 DEF TargetsFit
    <3> QED BY <3>2, <3>3
  <2>2. ASSUME NEW j \in 1 .. Len(packages'), NEW n \in 1 .. Len(packages'[j].targets)
        PROVE  Bound(j, n)'
    <3>0. j \in 1 .. Len(packages) /\ world' = world
      BY <1>4
    <3>1. CASE n \in 1 .. Len(packages[j].targets) /\ packages'[j].targets[n] = packages[j].targets[n]
      <4>1. Bound(j, n) /\ packages[j].targets[n].index \in 1 .. Len(packages)
        BY <1>0, <3>0, <3>1 DEF TargetsFit, PointersKnown, Known
      <4> DEFINE x == packages[j].targets[n].index
      <4>2. /\ packages'[x].dir = packages[x].dir /\ (packages[x].loaded => packages'[x].loaded)
            /\ packages'[j].dir = packages[j].dir /\ packages'[j].imports = packages[j].imports
        BY <1>6, <3>0, <4>1
      <4>3. /\ packages[x].dir = ResolveImport(world, packages[j].dir, packages[j].imports[n])
            /\ packages[x].loaded /\ packages'[j].targets[n].index = x
        BY <3>1, <4>1 DEF Bound
      <4> HIDE DEF x
      <4> QED BY <3>0, <4>2, <4>3 DEF Bound
    <3>2. CASE callers # << >> /\ j = i /\ n = Awaited(i) /\ packages'[j].targets[n] = p
      <4>1. packages[p.index].dir = ResolveImport(world, packages[i].dir, packages[i].imports[n])
        BY <1>3, <3>2 DEF c, Answers
      <4>2. packages'[p.index].loaded
        BY <1>1, <1>4
      <4> QED BY <1>1, <1>6, <3>0, <3>2, <4>1, <4>2 DEF Bound
    <3> QED BY <1>8, <3>0, <3>1, <3>2
  <2> QED BY <2>1, <2>2 DEF TargetsFit
<1>15. order' = << >> /\ visit' = << >> /\ roots' = << >> /\ phase' \in {"load", "check"} /\ error' = error
  BY <1>0, <1>4 DEF PhaseFits, orderVars
<1>16. PhaseFits'
  <2>1. phase' = "check" => load' = << >> /\ entryPkg' # << >> /\ platformPkg' # << >>
    <3>1. phase' = "check" => callers = << >> /\ entryPkg' # << >> /\ platformPkg' = p
      BY <1>4
    <3>2. callers = << >> => load' = << >>
      BY <1>4 DEF c
    <3> QED BY <3>1, <3>2, PointerIsSome
  <2> QED BY <1>0, <1>15, <2>1 DEF PhaseFits
<1>17. Ranked'
  <2>1. ASSUME NEW j \in 1 .. Len(packages')
        PROVE  /\ rank[j] <= top
               /\ packages'[j].loaded => \A n \in 1 .. Len(packages'[j].targets) :
                                            rank[packages'[j].targets[n].index] < rank[j]
    <3>1. j \in 1 .. Len(packages) /\ packages'[j].loaded = pkgs[j].loaded /\ pkgs[j].targets = packages[j].targets
      BY <1>4 DEF Settled
    <3>2. /\ rank[j] <= top
          /\ pkgs[j].loaded => \A n \in 1 .. Len(packages[j].targets) :
                                  rank[packages[j].targets[n].index] < rank[j]
      BY <3>1 DEF RanksFit
    <3> QED BY <1>7, <3>1, <3>2
  <2>2. rank \in [1 .. Len(packages') -> Nat]
    BY <1>4
  <2>3. \A k, m \in 1 .. Len(visit') : k < m => rank[visit'[m].pkg] < rank[visit'[k].pkg]
    BY <1>15
  <2> QED BY <2>1, <2>2, <2>3, RankedNext
<1>18. OrderFits' /\ VisitFits' /\ WishesKept'
  BY <1>0, <1>15, NoOrderYet DEF orderVars
<1> QED BY <1>10, <1>11, <1>12, <1>13, <1>14, <1>16, <1>17, <1>18 DEF PkgInv, LoadInv, OrderInv

LEMMA FrontFacts ==
    ASSUME NEW T, NEW q \in Seq(T), q # << >>
    PROVE  /\ Front(q) \in Seq(T) /\ Len(Front(q)) = Len(q) - 1 /\ Len(q) - 1 \in Nat
           /\ \A k \in 1 .. Len(q) - 1 : Front(q)[k] = q[k]
<1>1. Len(q) \in Nat /\ Len(q) # 0
  OBVIOUS
<1> DEFINE n == Len(q) - 1
<1>2. n \in Nat /\ n <= Len(q) /\ Front(q) = SubSeq(q, 1, n)
  BY <1>1 DEF Front
<1>3. \A k \in 1 .. n : k \in 1 .. Len(q)
  BY <1>1
<1> HIDE DEF n
<1>4. Len(SubSeq(q, 1, n)) = n
  BY <1>2
<1>5. \A k \in 1 .. n : SubSeq(q, 1, n)[k] = q[k]
  BY <1>2, <1>3
<1>6. SubSeq(q, 1, n) \in Seq(T)
  BY <1>2, <1>3
<1> QED BY <1>2, <1>4, <1>5, <1>6 DEF n

\* Delivering a package that is there already keeps them.
LEMMA ReuseKeeps ==
    ASSUME PkgInv, Reuse
    PROVE  PkgInv'
<1>0. TypeOK /\ PointersKnown /\ CallsWait /\ TargetsFit /\ PhaseFits
  BY DEF PkgInv, LoadInv
<1>a. PICK dir \in Wanted : \E i \in FindPackageByDir(dir) :
         /\ packages[i].loaded /\ Deliver(packages, Pointer(i), load)
         /\ UNCHANGED <<world, cap, table>> /\ UNCHANGED orderVars
  BY DEF Reuse
<1>1. PICK i \in FindPackageByDir(dir) :
         /\ packages[i].loaded /\ Deliver(packages, Pointer(i), load)
         /\ UNCHANGED <<world, cap, table>> /\ UNCHANGED orderVars
  BY <1>a
<1>2. /\ phase = "load"
      /\ load # << >> =>
           LET s == Subject(Len(load)) IN
           /\ Awaited(s) \in 1 .. Len(packages[s].imports)
           /\ dir = ResolveImport(world, packages[s].dir, packages[s].imports[Awaited(s)])
  BY WantedNext DEF PkgInv
<1>3. i \in 1 .. Len(packages) /\ packages[i].dir = dir
  BY <1>0 DEF FindPackageByDir, TypeOK
<1> DEFINE p == Pointer(i)
<1>4. p \in PackagePointer /\ p.index = i /\ Known(p) /\ packages \in Seq(Package) /\ load \in Seq(LoadCall)
  BY <1>0, <1>3 DEF Pointer, PackagePointer, Known, TypeOK
<1> HIDE DEF p
<1>5. Outer(load)
  BY <1>4 DEF Outer
<1>6. Settled(packages, load)
  <2> SUFFICES ASSUME NEW j \in 1 .. Len(packages)
               PROVE  /\ packages[j].loaded => Len(packages[j].targets) = Len(packages[j].imports)
                      /\ packages[j].loaded \/ \E k \in 1 .. Len(load) : load[k].own.index = j
                      /\ ~packages[j].loaded \/ \A k \in 1 .. Len(load) : load[k].own.index # j
    BY DEF Settled
  <2> QED BY <1>0, <1>2 DEF CallsWait, TargetsFit, Subject
<1>7. Answers(p, load)
  BY <1>2, <1>3, <1>4 DEF Answers
<1>8. PICK top \in Nat, rank \in [1 .. Len(packages) -> Nat] : RankedBy(rank, top)
  BY DEF PkgInv, OrderInv, Ranked
<1>9. RanksFit(packages, rank, top)
  BY <1>8 DEF RankedBy, RanksFit
<1>10. packages[p.index].loaded /\ Deliver(packages, p, load)
  BY <1>1, <1>4 DEF p
<1> QED BY <1>1, <1>2, <1>4, <1>5, <1>6, <1>7, <1>9, <1>10, DeliverKeeps

\* Delivering a package whose imports are bound keeps them.
LEMMA FinishKeeps ==
    ASSUME PkgInv, FinishPackage
    PROVE  PkgInv'
<1>0. TypeOK /\ PointersKnown /\ CallsWait /\ TargetsFit /\ PhaseFits
  BY DEF PkgInv, LoadInv
<1> DEFINE c == Len(load)
           s == Subject(c)
           p == load[c].own
           pkgs == [packages EXCEPT ![s].loaded = TRUE]
           callers == Front(load)
<1>1. phase = "load" /\ load # << >> /\ NextImport \notin DOMAIN Loading.imports
  BY DEF FinishPackage, ImportsLoaded
<1>2. load \in Seq(LoadCall) /\ c \in 1 .. c /\ c \in Nat /\ Last(load) = load[c] /\ c # 0
  BY <1>0, <1>1 DEF TypeOK, Last
<1>3. /\ load[c].pkg.index = s /\ load[c].own.index = s /\ Known(load[c].own)
      /\ s \in 1 .. Len(packages) /\ ~packages[s].loaded
  BY <1>0, <1>2 DEF PointersKnown, CallsWait, Known, Subject
<1>4. /\ Deliver(pkgs, p, callers) /\ UNCHANGED <<world, cap, table>> /\ UNCHANGED orderVars
  <2>1. Top = load[c] /\ Top.pkg.index = s
    BY <1>2, <1>3 DEF Top
  <2> QED BY <2>1 DEF FinishPackage
<1>5. Len(packages[s].targets) = Len(packages[s].imports)
  <2>1. Loading = packages[s] /\ NextImport = Len(packages[s].targets) + 1
    BY <1>2, <1>3 DEF Loading, Top, NextImport
  <2>2. packages[s] \in Package
    BY <1>0, <1>3 DEF TypeOK
  <2>3. /\ DOMAIN packages[s].imports = 1 .. Len(packages[s].imports)
        /\ Len(packages[s].targets) \in Nat /\ Len(packages[s].imports) \in Nat
    BY <2>2 DEF Package
  <2>4. Len(packages[s].targets) <= Len(packages[s].imports)
    BY <1>0, <1>3 DEF TargetsFit
  <2>5. Len(packages[s].targets) + 1 \notin 1 .. Len(packages[s].imports)
    BY <1>1, <2>1, <2>3
  <2> QED BY <2>3, <2>4, <2>5
<1>6. /\ pkgs \in Seq(Package) /\ Len(pkgs) = Len(packages)
      /\ pkgs[s].dir = packages[s].dir /\ pkgs[s].imports = packages[s].imports
      /\ pkgs[s].targets = packages[s].targets /\ pkgs[s].loaded
      /\ \A j \in 1 .. Len(packages) : j # s => pkgs[j] = packages[j]
  <2> DEFINE done == [packages[s] EXCEPT !.loaded = TRUE]
  <2>1. packages[s] \in Package /\ packages \in Seq(Package)
    BY <1>0, <1>3 DEF TypeOK
  <2> HIDE DEF s
  <2>2. /\ done \in Package /\ done.dir = packages[s].dir /\ done.imports = packages[s].imports
        /\ done.targets = packages[s].targets /\ done.loaded
    BY <2>1 DEF Package
  <2>3. pkgs = [packages EXCEPT ![s] = done]
    OBVIOUS
  <2> HIDE DEF done, pkgs
  <2> QED BY <1>3, <2>1, <2>2, <2>3
<1>7. /\ callers \in Seq(LoadCall) /\ Len(callers) = c - 1 /\ Len(callers) \in Nat
      /\ \A k \in 1 .. c - 1 : callers[k] = load[k]
  <2> QED BY <1>1, <1>2, FrontFacts
<1>8. p \in PackagePointer /\ p.index = s /\ Known(p)
  <2>1. load[c] \in LoadCall
    BY <1>2
  <2> QED BY <1>3, <2>1 DEF LoadCall
<1> HIDE DEF pkgs, callers, p
<1>9. \A k \in 1 .. c - 1 : /\ k \in 1 .. c /\ callers[k].own.index = Subject(k)
                            /\ Subject(k) \in Int /\ Subject(k) < s
  <2> SUFFICES ASSUME NEW k \in 1 .. c - 1
               PROVE  /\ k \in 1 .. c /\ callers[k].own.index = Subject(k)
                      /\ Subject(k) \in Int /\ Subject(k) < s
    OBVIOUS
  <2>1. k \in 1 .. c /\ k < c
    BY <1>2
  <2>2. Subject(k) \in 1 .. Len(packages)
    BY <1>0, <2>1 DEF PointersKnown, Known, Subject
  <2> QED BY <1>0, <1>2, <1>7, <2>1, <2>2 DEF CallsWait, Subject
<1>10. Outer(callers)
  BY <1>2, <1>7 DEF Outer
<1> HIDE DEF s, c
<1>11. Settled(pkgs, callers)
  <2> SUFFICES ASSUME NEW j \in 1 .. Len(packages)
               PROVE  /\ pkgs[j].dir = packages[j].dir /\ pkgs[j].imports = packages[j].imports
                      /\ pkgs[j].targets = packages[j].targets
                      /\ packages[j].loaded => pkgs[j].loaded
                      /\ pkgs[j].loaded => Len(pkgs[j].targets) = Len(pkgs[j].imports)
                      /\ pkgs[j].loaded \/ \E k \in 1 .. Len(callers) : callers[k].own.index = j
                      /\ ~pkgs[j].loaded \/ \A k \in 1 .. Len(callers) : callers[k].own.index # j
    BY DEF Settled
  <2>1. CASE j = s
    <3>1. \A k \in 1 .. Len(callers) : callers[k].own.index # j
      BY <1>3, <1>7, <1>9, <2>1
    <3> QED BY <1>5, <1>6, <2>1, <3>1
  <2>2. CASE j # s
    <3>1. pkgs[j] = packages[j]
      BY <1>6, <2>2
    <3>2. packages[j].loaded \/ \E k \in 1 .. Len(load) : Subject(k) = j
      BY <1>0, <1>1 DEF CallsWait
    <3>3. packages[j].loaded \/ \E k \in 1 .. c - 1 : Subject(k) = j
      BY <1>2, <2>2, <3>2 DEF c, s
    <3>4. packages[j].loaded \/ \E k \in 1 .. Len(callers) : callers[k].own.index = j
      BY <1>7, <1>9, <3>3
    <3>5. ~packages[j].loaded \/ \A k \in 1 .. Len(load) : Subject(k) # j
      BY <1>0 DEF CallsWait
    <3>6. ~packages[j].loaded \/ \A k \in 1 .. Len(callers) : callers[k].own.index # j
      BY <1>7, <1>9, <3>5 DEF c
    <3>7. packages[j].loaded => Len(packages[j].targets) = Len(packages[j].imports)
      BY <1>0 DEF TargetsFit
    <3> QED BY <3>1, <3>4, <3>6, <3>7
  <2> QED BY <2>1, <2>2
<1>12. Answers(p, callers)
  <2> SUFFICES ASSUME callers # << >>
               PROVE  LET i == Subject(c - 1) IN
                      /\ Awaited(i) \in 1 .. Len(packages[i].imports)
                      /\ packages[p.index].dir =
                            ResolveImport(world, packages[i].dir, packages[i].imports[Awaited(i)])
    BY <1>7 DEF Answers
  <2>1. c - 1 \in 1 .. Len(load) - 1 /\ c - 1 + 1 = c
    BY <1>2, <1>7 DEF c
  <2>2. Subject(c - 1 + 1) = s
    BY <2>1 DEF s
  <2> QED BY <1>0, <1>8, <2>1, <2>2 DEF CallsWait
<1>13. PICK top \in Nat, rank \in [1 .. Len(packages) -> Nat] : RankedBy(rank, top)
  BY DEF PkgInv, OrderInv, Ranked
<1> DEFINE new == [rank EXCEPT ![s] = top + 1]
<1>14. new \in [1 .. Len(packages) -> Nat] /\ top + 1 \in Nat
  BY <1>3, <1>13
<1>15. RanksFit(pkgs, new, top + 1)
  <2> SUFFICES ASSUME NEW j \in 1 .. Len(packages)
               PROVE  /\ new[j] <= top + 1
                      /\ pkgs[j].loaded => \A n \in 1 .. Len(pkgs[j].targets) :
                                              new[pkgs[j].targets[n].index] < new[j]
    BY DEF RanksFit
  <2>1. ASSUME NEW n \in 1 .. Len(packages[j].targets)
        PROVE  /\ packages[j].targets[n].index \in 1 .. Len(packages)
               /\ packages[j].targets[n].index # s
    <3>1. Bound(j, n) /\ Known(packages[j].targets[n])
      BY <1>0 DEF TargetsFit, PointersKnown
    <3> QED BY <1>3, <3>1 DEF Bound, Known
  <2>2. ASSUME NEW n \in 1 .. Len(packages[j].targets)
        PROVE  /\ new[packages[j].targets[n].index] = rank[packages[j].targets[n].index]
               /\ rank[packages[j].targets[n].index] \in Nat
               /\ rank[packages[j].targets[n].index] <= top
    BY <1>13, <2>1 DEF RankedBy
  <2>3. rank[j] \in Nat /\ rank[j] <= top
    BY <1>13 DEF RankedBy
  <2>4. CASE j = s
    <3>1. new[j] = top + 1 /\ pkgs[j].targets = packages[j].targets
      BY <1>3, <1>6, <2>4
    <3> HIDE DEF new
    <3> QED BY <2>2, <3>1
  <2>5. CASE j # s
    <3>1. new[j] = rank[j] /\ pkgs[j] = packages[j]
      BY <1>6, <2>5
    <3>2. packages[j].loaded => \A n \in 1 .. Len(packages[j].targets) :
                                   rank[packages[j].targets[n].index] < rank[j]
      BY <1>13 DEF RankedBy
    <3> HIDE DEF new
    <3> QED BY <2>2, <2>3, <3>1, <3>2
  <2> QED BY <2>4, <2>5
<1>16. pkgs[p.index].loaded
  BY <1>6, <1>8
<1> HIDE DEF new
<1> QED BY <1>1, <1>4, <1>6, <1>7, <1>8, <1>10, <1>11, <1>12, <1>14, <1>15, <1>16, DeliverKeeps

-----------------------------------------------------------------------------
(* Checking, and the orders.                                               *)

\* A pointer of the table dangles only after the table has moved.
LEMMA TargetCurrent ==
    ASSUME LoadInv, NEW i \in 1 .. Len(packages), NEW n \in 1 .. Len(packages[i].targets), table = 0
    PROVE  Current(packages[i].targets[n])
<1>1. packages[i] \in Package
  BY DEF LoadInv, TypeOK
<1>2. packages[i].targets[n] \in PackagePointer
  BY <1>1 DEF Package
<1>3. packages[i].targets[n].table <= table
  BY DEF LoadInv, PointersKnown, Known
<1> QED BY <1>2, <1>3 DEF PackagePointer, Current

\* What is reached from a package in two steps are targets of packages of the table.
LEMMA SurfaceTargets ==
    ASSUME LoadInv, NEW i \in 1 .. Len(packages), NEW p \in Surface(i)
    PROVE  \E j \in 1 .. Len(packages) : \E n \in 1 .. Len(packages[j].targets) : p = packages[j].targets[n]
<1>1. ASSUME NEW j \in 1 .. Len(packages), NEW q \in Targets(j)
      PROVE  \E n \in 1 .. Len(packages[j].targets) : q = packages[j].targets[n]
  <2>1. packages[j] \in Package
    BY DEF LoadInv, TypeOK
  <2>2. packages[j].targets \in Seq(PackagePointer)
    BY <2>1 DEF Package
  <2> QED BY <2>2 DEF Targets, ToSet
<1>2. CASE p \in Targets(i)
  BY <1>1, <1>2
<1>3. CASE \E q \in Targets(i) : p \in Targets(q.index)
  <2>1. PICK q \in Targets(i) : p \in Targets(q.index)
    BY <1>3
  <2>2. q.index \in 1 .. Len(packages)
    <3>1. PICK n \in 1 .. Len(packages[i].targets) : q = packages[i].targets[n]
      BY <1>1
    <3> QED BY <3>1 DEF LoadInv, PointersKnown, Known
  <2> QED BY <1>1, <2>1, <2>2
<1> QED BY <1>2, <1>3 DEF Surface

\* Checking a package changes nothing the invariant speaks of.
LEMMA CheckedKeeps ==
    ASSUME PkgInv, phase = "check", packages' \in Seq(Package), Len(packages') = Len(packages),
           \A j \in 1 .. Len(packages) :
              /\ packages'[j].dir = packages[j].dir /\ packages'[j].imports = packages[j].imports
              /\ packages'[j].targets = packages[j].targets /\ packages'[j].loaded = packages[j].loaded,
           UNCHANGED <<world, cap, table, load, phase, error, entryPkg, platformPkg,
                       order, visit, roots, sort>>
    PROVE  PkgInv'
<1>0. TypeOK /\ TableFits /\ PointersKnown /\ CallsWait /\ TargetsFit /\ PhaseFits
  BY DEF PkgInv, LoadInv
<1>1. load = << >> /\ order = << >> /\ visit = << >> /\ roots = << >>
  BY <1>0 DEF PhaseFits
<1>2. TypeOK' /\ TableFits'
  BY <1>0 DEF TypeOK, TableFits
<1>3. PointersKnown'
  <2>1. load' = << >>
    BY <1>1
  <2>2. ASSUME NEW i \in 1 .. Len(packages'), NEW n \in 1 .. Len(packages'[i].targets)
        PROVE  packages'[i].targets[n].index \in 1 .. Len(packages') /\ packages'[i].targets[n].table <= table'
    BY <1>0 DEF PointersKnown, Known
  <2>3. entryPkg # << >> => Known(entryPkg)
    BY <1>0 DEF PointersKnown
  <2>4. platformPkg # << >> => Known(platformPkg)
    BY <1>0 DEF PointersKnown
  <2> QED BY <2>1, <2>2, <2>3, <2>4 DEF PointersKnown, Known
<1>4. CallsWait'
  <2>1. load' = << >> /\ Len(load) = 0
    BY <1>1
  <2>2. \A i \in 1 .. Len(packages) : packages[i].loaded
    BY <1>0, <2>1 DEF CallsWait
  <2> QED BY <2>1, <2>2 DEF CallsWait
<1>5. TargetsFit'
  <2>1. ASSUME NEW i \in 1 .. Len(packages')
        PROVE  /\ Len(packages'[i].targets) <= Len(packages'[i].imports)
               /\ packages'[i].loaded => Len(packages'[i].targets) = Len(packages'[i].imports)
    BY <1>0 DEF TargetsFit
  <2>2. ASSUME NEW i \in 1 .. Len(packages'), NEW n \in 1 .. Len(packages'[i].targets)
        PROVE  Bound(i, n)'
    <3> DEFINE x == packages[i].targets[n].index
    <3>1. x \in 1 .. Len(packages) /\ Bound(i, n)
      BY <1>0 DEF TargetsFit, PointersKnown, Known
    <3>2. /\ packages'[x].dir = packages[x].dir /\ packages'[x].loaded = packages[x].loaded
          /\ packages'[i].dir = packages[i].dir /\ packages'[i].imports = packages[i].imports
          /\ packages'[i].targets = packages[i].targets
      BY <3>1
    <3>3. /\ packages[x].dir = ResolveImport(world, packages[i].dir, packages[i].imports[n])
          /\ packages[x].loaded /\ packages'[i].targets[n].index = x
      BY <3>1, <3>2 DEF Bound
    <3> HIDE DEF x
    <3> QED BY <3>2, <3>3 DEF Bound
  <2> QED BY <2>1, <2>2 DEF TargetsFit
<1>6. PhaseFits'
  BY <1>0 DEF PhaseFits
<1>7. Ranked'
  <2>1. PICK top \in Nat, rank \in [1 .. Len(packages) -> Nat] : RankedBy(rank, top)
    BY DEF PkgInv, OrderInv, Ranked
  <2>2. \A i \in 1 .. Len(packages') :
           /\ rank[i] <= top
           /\ packages'[i].loaded => \A n \in 1 .. Len(packages'[i].targets) :
                                        rank[packages'[i].targets[n].index] < rank[i]
    BY <2>1 DEF RankedBy
  <2>3. rank \in [1 .. Len(packages') -> Nat]
    OBVIOUS
  <2>4. \A k, m \in 1 .. Len(visit') : k < m => rank[visit'[m].pkg] < rank[visit'[k].pkg]
    BY <1>1
  <2> QED BY <2>2, <2>3, <2>4, RankedNext
<1>8. OrderFits' /\ VisitFits' /\ WishesKept'
  <2>1. order' = << >> /\ visit' = << >> /\ roots' = << >>
    BY <1>1
  <2> QED BY <2>1 DEF OrderFits, VisitFits, WishesKept
<1> QED BY <1>2, <1>3, <1>4, <1>5, <1>6, <1>7, <1>8 DEF PkgInv, LoadInv, OrderInv

\* Checking a package, or giving up on it, keeps them.
LEMMA CheckKeeps ==
    ASSUME PkgInv, Check
    PROVE  PkgInv'
<1>0. LoadInv /\ packages \in Seq(Package) /\ Len(packages) \in Nat /\ TableCap \in Nat
  BY WorldsAssumption DEF PkgInv, LoadInv, TypeOK
<1>1. phase = "check" /\ UNCHANGED <<world, cap, table, load, entryPkg, platformPkg>>
      /\ UNCHANGED <<order, visit, roots, sort>>
  BY DEF Check, orderVars
<1>2. PICK i \in 1 .. Len(packages) :
         IF \E p \in Surface(i) : ~Current(p)
         THEN Undefined /\ UNCHANGED packages
         ELSE \/ packages' = [packages EXCEPT ![i].checked = TRUE] /\ Go("check")
              \/ Give("types") /\ UNCHANGED packages
  BY <1>0 DEF Check
<1>3. CASE (\E p \in Surface(i) : ~Current(p)) /\ Undefined /\ UNCHANGED packages
  <2>1. table # 0
    BY <1>0, <1>3, SurfaceTargets, TargetCurrent
  <2>2. Len(packages) > TableCap
    BY <1>0, <2>1 DEF LoadInv, TableFits
  <2> QED BY <1>1, <1>3, <2>2, GivesUpKeeps DEF GivesUp, Undefined
<1>4. CASE Give("types") /\ UNCHANGED packages
  BY <1>1, <1>4, GivesUpKeeps DEF GivesUp, Give
<1>5. CASE packages' = [packages EXCEPT ![i].checked = TRUE] /\ Go("check")
  <2> DEFINE done == [packages[i] EXCEPT !.checked = TRUE]
  <2>1. packages[i] \in Package
    BY <1>0
  <2>2. /\ done \in Package /\ done.dir = packages[i].dir /\ done.imports = packages[i].imports
        /\ done.targets = packages[i].targets /\ done.loaded = packages[i].loaded
    BY <2>1 DEF Package
  <2>3. packages' = [packages EXCEPT ![i] = done] /\ UNCHANGED <<phase, error>>
    BY <1>1, <1>5 DEF Go
  <2> HIDE DEF done
  <2>4. /\ packages' \in Seq(Package) /\ Len(packages') = Len(packages)
        /\ packages'[i] = done /\ \A j \in 1 .. Len(packages) : j # i => packages'[j] = packages[j]
    BY <1>0, <2>2, <2>3
  <2>5. \A j \in 1 .. Len(packages) :
           /\ packages'[j].dir = packages[j].dir /\ packages'[j].imports = packages[j].imports
           /\ packages'[j].targets = packages[j].targets /\ packages'[j].loaded = packages[j].loaded
    BY <2>2, <2>4
  <2> QED BY <1>1, <2>3, <2>4, <2>5, CheckedKeeps
<1> QED BY <1>2, <1>3, <1>4, <1>5

\* What was loaded stays as it is, while phases without a failure follow.
LEMMA LoadKept ==
    ASSUME LoadInv, phase \in {"check", "sort"},
           UNCHANGED <<world, packages, cap, table, load, entryPkg, platformPkg>>
    PROVE  TableFits' /\ PointersKnown' /\ CallsWait' /\ TargetsFit'
<1>0. /\ UNCHANGED <<world, packages, cap, table, load, entryPkg, platformPkg>>
      /\ TypeOK /\ TableFits /\ PointersKnown /\ CallsWait /\ TargetsFit /\ PhaseFits
  BY DEF LoadInv
<1>1. load = << >> /\ load' = << >>
  BY <1>0 DEF PhaseFits
<1>2. TableFits'
  BY <1>0 DEF TableFits
<1>3. PointersKnown'
  BY <1>0 DEF PointersKnown, Known
<1>4. CallsWait'
  <2>1. \A i \in 1 .. Len(packages) : packages[i].loaded
    BY <1>0, <1>1 DEF CallsWait
  <2> QED BY <1>0, <1>1, <2>1 DEF CallsWait
<1>5. TargetsFit'
  BY <1>0 DEF TargetsFit, Bound
<1> QED BY <1>2, <1>3, <1>4, <1>5

\* The entry package and the platform's are in the table, and every package is loaded.
LEMMA AllLoaded ==
    ASSUME LoadInv, phase \in {"check", "sort"}
    PROVE  /\ entryPkg # << >> /\ Known(entryPkg) /\ entryPkg \in PackagePointer
           /\ platformPkg # << >> /\ Known(platformPkg) /\ platformPkg \in PackagePointer
           /\ load = << >> /\ \A i \in 1 .. Len(packages) : packages[i].loaded
<1>0. TypeOK /\ PointersKnown /\ CallsWait /\ PhaseFits
  BY DEF LoadInv
<1>1. load = << >> /\ entryPkg # << >> /\ platformPkg # << >>
  BY <1>0 DEF PhaseFits
<1>2. \A i \in 1 .. Len(packages) : packages[i].loaded
  BY <1>0, <1>1 DEF CallsWait
<1> QED BY <1>0, <1>1, <1>2 DEF PointersKnown, TypeOK

LEMMA StartOrderKeeps ==
    ASSUME PkgInv, StartOrder
    PROVE  PkgInv'
<1>0. LoadInv /\ TypeOK /\ TableFits /\ PhaseFits /\ PointersKnown
  BY DEF PkgInv, LoadInv
<1>1. /\ phase = "check" /\ sort' \in Sorts
      /\ UNCHANGED <<world, packages, cap, table, load, entryPkg, platformPkg, order, visit>>
  BY DEF StartOrder, loaderVars
<1>2. order = << >> /\ visit = << >> /\ roots = << >> /\ error # "cycle in order"
      /\ (error = "unresolved" => table # 0)
  BY <1>0, <1>1 DEF PhaseFits
<1>3. /\ entryPkg # << >> /\ Known(entryPkg) /\ entryPkg \in PackagePointer
      /\ platformPkg # << >> /\ Known(platformPkg) /\ platformPkg \in PackagePointer /\ load = << >>
  BY <1>0, <1>1, AllLoaded
<1>4. sort' \in [all : BOOLEAN, builtin : BOOLEAN, platform : BOOLEAN]
  BY <1>1 DEF Sorts
<1>5. /\ roots' \in Seq(Nat) /\ \A k \in 1 .. Len(roots') : roots'[k] \in 1 .. Len(packages)
      /\ phase' \in {"sort", "failed"}
      /\ error' = error \/ (error' = "unresolved" /\ table # 0)
      /\ phase' = "sort" =>
            IF sort'.all THEN \A i \in 1 .. Len(packages) : \E k \in 1 .. Len(roots') : roots'[k] = i
            ELSE \E k \in 1 .. Len(roots') : roots'[k] = entryPkg.index
  <2>1. packages \in Seq(Package) /\ Len(packages) \in Nat /\ DOMAIN packages = 1 .. Len(packages)
    BY <1>0 DEF TypeOK
  <2>2. CASE sort'.all
    <3>1. roots' = [i \in 1 .. Len(packages) |-> i] /\ phase' = "sort" /\ error' = error
      BY <2>1, <2>2 DEF StartOrder, Go
    <3>2. roots' \in Seq(Nat) /\ Len(roots') = Len(packages)
      BY <2>1, <3>1
    <3> QED BY <2>2, <3>1, <3>2
  <2>3. CASE ~sort'.all /\ (~Current(entryPkg) \/ ~Current(platformPkg))
    <3>1. phase' = "failed" /\ error' = "unresolved" /\ roots' = << >>
      BY <1>2, <2>3 DEF StartOrder, Give
    <3>2. table # 0
      BY <1>0, <1>3, <2>3 DEF Current, Known, PackagePointer, TypeOK
    <3> QED BY <3>1, <3>2
  <2>4. CASE ~sort'.all /\ ~(~Current(entryPkg) \/ ~Current(platformPkg))
    <3>1. /\ roots' = <<entryPkg.index, platformPkg.index>> \/ roots' = <<entryPkg.index>>
          /\ phase' = "sort" /\ error' = error
      BY <2>4 DEF StartOrder, Go
    <3>2. /\ entryPkg.index \in Nat /\ entryPkg.index \in 1 .. Len(packages)
          /\ platformPkg.index \in Nat /\ platformPkg.index \in 1 .. Len(packages)
      BY <1>3 DEF Known, PackagePointer
    <3>3. CASE roots' = <<entryPkg.index, platformPkg.index>>
      <4>1. Len(roots') = 2 /\ roots'[1] = entryPkg.index /\ roots'[2] = platformPkg.index
        BY <3>3
      <4>2. roots' \in Seq(Nat)
        BY <3>2, <3>3
      <4>3. \A k \in 1 .. Len(roots') : roots'[k] \in 1 .. Len(packages)
        BY <3>2, <4>1
      <4>4. 1 \in 1 .. Len(roots')
        BY <4>1
      <4> QED BY <2>4, <3>1, <4>1, <4>2, <4>3, <4>4
    <3>4. CASE roots' = <<entryPkg.index>>
      <4>1. Len(roots') = 1 /\ roots'[1] = entryPkg.index
        BY <3>4
      <4>2. roots' \in Seq(Nat)
        BY <3>2, <3>4
      <4> QED BY <2>4, <3>1, <3>2, <4>1, <4>2
    <3> QED BY <3>1, <3>3, <3>4
  <2> QED BY <2>2, <2>3, <2>4
<1>6. TypeOK'
  BY <1>0, <1>1, <1>4, <1>5 DEF TypeOK
<1>7. TableFits' /\ PointersKnown' /\ CallsWait' /\ TargetsFit'
  BY <1>0, <1>1, LoadKept
<1>8. PhaseFits'
  BY <1>1, <1>2, <1>3, <1>5 DEF PhaseFits
<1>9. Ranked'
  <2>1. PICK top \in Nat, rank \in [1 .. Len(packages) -> Nat] : RankedBy(rank, top)
    BY DEF PkgInv, OrderInv, Ranked
  <2>2. RankedBy(rank, top)'
    BY <1>1, <2>1 DEF RankedBy
  <2>3. packages' = packages
    BY <1>1
  <2> QED BY <2>2, <2>3 DEF Ranked
<1>10. OrderFits' /\ VisitFits'
  <2>1. order' = << >> /\ visit' = << >> /\ packages' = packages
    BY <1>1, <1>2
  <2>2. OrderFits'
    BY <2>1 DEF OrderFits
  <2> QED BY <1>5, <2>1, <2>2 DEF VisitFits
<1>11. WishesKept'
  <2>1. entryPkg' = entryPkg /\ packages' = packages
    BY <1>1
  <2>2. ASSUME phase' = "sort", NEW i \in Wished'
        PROVE  \E k \in 1 .. Len(roots') : roots'[k] = i
    BY <1>5, <2>1, <2>2 DEF Wished
  <2> QED BY <1>5, <2>2 DEF WishesKept, Coming
<1> QED BY <1>6, <1>7, <1>8, <1>9, <1>10, <1>11 DEF PkgInv, LoadInv, OrderInv

-----------------------------------------------------------------------------
(* The depth-first visit.                                                  *)

\* A step of the visit leaves what was loaded as it is.
LEMMA SortingKeeps ==
    ASSUME PkgInv, phase = "sort",
           UNCHANGED <<world, loaderVars, sort>>,
           order' \in Seq(Nat), visit' \in Seq(VisitCall), roots' \in Seq(Nat),
           phase' \in {"sort", "done"}, error' = error,
           phase' = "done" => visit' = << >> /\ roots' = << >>
    PROVE  LoadInv'
<1>0. /\ LoadInv /\ TypeOK /\ PhaseFits
      /\ UNCHANGED <<world, packages, cap, table, load, entryPkg, platformPkg, sort>>
  BY DEF PkgInv, LoadInv, loaderVars
<1>1. TypeOK'
  BY <1>0 DEF TypeOK
<1>2. TableFits' /\ PointersKnown' /\ CallsWait' /\ TargetsFit'
  BY <1>0, LoadKept
<1>3. PhaseFits'
  BY <1>0 DEF PhaseFits
<1> QED BY <1>1, <1>2, <1>3 DEF LoadInv

LEMMA OrderedIndex ==
    ASSUME order \in Seq(Nat), NEW i
    PROVE  InOrder(i) <=> \E k \in 1 .. Len(order) : order[k] = i
BY DEF InOrder, ToSet

LEMMA VisitRootKeeps ==
    ASSUME PkgInv, VisitRoot
    PROVE  PkgInv'
<1>0. LoadInv /\ TypeOK /\ OrderFits /\ VisitFits /\ WishesKept
  BY DEF PkgInv, LoadInv, OrderInv
<1>1. /\ phase = "sort" /\ UNCHANGED <<world, loaderVars, sort>> /\ visit = << >> /\ roots # << >>
      /\ roots' = Tail(roots) /\ UNCHANGED <<order, phase, error>>
      /\ visit' = IF InOrder(Head(roots)) THEN << >> ELSE <<Open(Head(roots))>>
  BY DEF VisitRoot, Sorting
<1> DEFINE h == roots[1]
<1>2. /\ Head(roots) = h /\ h \in 1 .. Len(packages) /\ h \in Nat
      /\ roots' \in Seq(Nat) /\ Len(roots') = Len(roots) - 1 /\ Len(roots) \in Nat
      /\ \A k \in 1 .. Len(roots) - 1 : roots'[k] = roots[k + 1]
  <2>1. roots \in Seq(Nat) /\ 1 \in 1 .. Len(roots)
    BY <1>0, <1>1 DEF TypeOK
  <2>2. h \in 1 .. Len(packages) /\ h \in Nat
    BY <1>0, <2>1 DEF VisitFits
  <2> QED BY <1>1, <2>1, <2>2
<1>3. packages' = packages /\ entryPkg' = entryPkg
  BY <1>1 DEF loaderVars
<1>4. Open(h) \in VisitCall /\ Open(h).pkg = h /\ Open(h).next = 1
  BY <1>2 DEF Open, VisitCall
<1> HIDE DEF h
<1>5. /\ visit' \in Seq(VisitCall) /\ Len(visit') \in {0, 1}
      /\ Len(visit') = 1 => visit'[1] = Open(h) /\ ~InOrder(h)
      /\ ~InOrder(h) => visit' # << >> /\ visit'[1] = Open(h)
  BY <1>1, <1>2, <1>4
<1>6. LoadInv'
  BY <1>0, <1>1, <1>2, <1>5, SortingKeeps DEF TypeOK
<1>7. Ranked'
  <2>1. PICK top \in Nat, rank \in [1 .. Len(packages) -> Nat] : RankedBy(rank, top)
    BY DEF PkgInv, OrderInv, Ranked
  <2>2. RankedBy(rank, top)'
    BY <1>3, <1>5, <2>1 DEF RankedBy
  <2> QED BY <1>3, <2>2 DEF Ranked
<1>8. OrderFits'
  BY <1>0, <1>1, <1>3 DEF OrderFits, Preceded, Skipped
<1>9. VisitFits'
  <2>1. ASSUME NEW k \in 1 .. Len(visit')
        PROVE  /\ visit'[k].pkg \in 1 .. Len(packages) /\ ~InOrder(visit'[k].pkg)
               /\ visit'[k].next = 1
    BY <1>2, <1>4, <1>5
  <2>2. ASSUME NEW k \in 1 .. Len(roots')
        PROVE  roots'[k] \in 1 .. Len(packages)
    <3>1. k + 1 \in 1 .. Len(roots) /\ k \in 1 .. Len(roots) - 1
      BY <1>2
    <3> QED BY <1>0, <1>2, <3>1 DEF VisitFits
  <2>3. ASSUME NEW k \in 1 .. Len(visit')
        PROVE  1 \in 1 .. Len(packages[visit'[k].pkg].imports) + 1
    <3>1. packages[visit'[k].pkg] \in Package
      BY <1>0, <2>1 DEF TypeOK
    <3> QED BY <3>1 DEF Package
  <2> QED BY <1>1, <1>3, <2>1, <2>2, <2>3 DEF VisitFits, InOrder
<1>10. WishesKept'
  <2>1. ASSUME NEW i \in Wished
        PROVE  Coming(i)'
    <3>1. Coming(i)
      BY <1>0, <1>1 DEF WishesKept
    <3>2. CASE InOrder(i)
      BY <1>1, <3>2 DEF Coming, InOrder
    <3>3. CASE \E k \in 1 .. Len(roots) : roots[k] = i
      <4>1. PICK k \in 1 .. Len(roots) : roots[k] = i
        BY <3>3
      <4>2. CASE k = 1
        <5>1. i = h
          BY <4>1, <4>2 DEF h
        <5> QED BY <1>1, <1>4, <1>5, <5>1 DEF Coming, InOrder
      <4>3. CASE k # 1
        <5>1. k - 1 \in 1 .. Len(roots') /\ roots'[k - 1] = i
          <6>1. k - 1 \in 1 .. Len(roots) - 1
            BY <1>2, <4>3
          <6>2. roots'[k - 1] = roots[k - 1 + 1] /\ k - 1 + 1 = k
            BY <1>2, <6>1
          <6> QED BY <1>2, <4>1, <6>1, <6>2
        <5> QED BY <5>1 DEF Coming
      <4> QED BY <4>2, <4>3
    <3> QED BY <1>1, <3>1, <3>2, <3>3 DEF Coming
  <2>2. Wished' = Wished
    BY <1>1, <1>3 DEF Wished
  <2> QED BY <2>1, <2>2 DEF WishesKept
<1> QED BY <1>6, <1>7, <1>8, <1>9, <1>10 DEF PkgInv, OrderInv

LEMMA OrderedKeeps ==
    ASSUME PkgInv, Ordered
    PROVE  PkgInv'
<1>0. LoadInv /\ TypeOK /\ OrderFits /\ VisitFits /\ WishesKept
  BY DEF PkgInv, LoadInv, OrderInv
<1>1. /\ phase = "sort" /\ UNCHANGED <<world, loaderVars, sort>> /\ visit = << >> /\ roots = << >>
      /\ phase' = "done" /\ UNCHANGED <<error, order, visit, roots>>
  BY DEF Ordered, Sorting, Go
<1>2. packages' = packages /\ entryPkg' = entryPkg
  BY <1>1 DEF loaderVars
<1>3. LoadInv'
  BY <1>0, <1>1, SortingKeeps DEF TypeOK
<1>4. Ranked'
  BY <1>1, <1>2 DEF PkgInv, OrderInv, Ranked, RankedBy
<1>5. OrderFits'
  BY <1>0, <1>1, <1>2 DEF OrderFits, Preceded, Skipped
<1>6. VisitFits'
  BY <1>0, <1>1, <1>2 DEF VisitFits
<1>7. WishesKept'
  <2>1. Wished' = Wished /\ \A i : Coming(i) => Coming(i)'
    BY <1>1, <1>2 DEF Wished, Coming, InOrder
  <2> QED BY <1>0, <1>1, <2>1 DEF WishesKept
<1> QED BY <1>3, <1>4, <1>5, <1>6, <1>7 DEF PkgInv, OrderInv

\* The package visited: what it imports is loaded, and what was visited for it is in the order.
LEMMA TopVisit ==
    ASSUME PkgInv, phase = "sort", visit # << >>
    PROVE  LET c == Len(visit)
               i == visit[c].pkg IN
           /\ c \in 1 .. c /\ Last(visit) = visit[c] /\ visit[c] \in VisitCall
           /\ i \in 1 .. Len(packages) /\ ~InOrder(i) /\ Visited = packages[i]
           /\ packages[i].imports \in Seq(ImportPath)
           /\ DOMAIN packages[i].imports = 1 .. Len(packages[i].imports)
           /\ Len(packages[i].targets) = Len(packages[i].imports)
           /\ visit[c].next \in 1 .. Len(packages[i].imports) + 1
           /\ \A n \in 1 .. visit[c].next - 1 : Preceded(i, n, Len(order))
<1> DEFINE c == Len(visit)
           i == visit[c].pkg
<1>0. LoadInv /\ TypeOK /\ VisitFits /\ TargetsFit
  BY DEF PkgInv, LoadInv, OrderInv
<1>1. c \in 1 .. c /\ Last(visit) = visit[c] /\ visit[c] \in VisitCall
  BY <1>0 DEF TypeOK, Last
<1>2. i \in 1 .. Len(packages) /\ ~InOrder(i) /\ visit[c].next \in 1 .. Len(packages[i].imports) + 1
  BY <1>0, <1>1 DEF VisitFits
<1>3. \A n \in 1 .. visit[c].next - 1 : Preceded(i, n, Len(order))
  BY <1>0, <1>1 DEF VisitFits
<1>4. packages[i] \in Package /\ packages[i].loaded
  BY <1>0, <1>2, AllLoaded DEF TypeOK
<1>5. packages[i].imports \in Seq(ImportPath)
      /\ DOMAIN packages[i].imports = 1 .. Len(packages[i].imports)
      /\ Len(packages[i].targets) = Len(packages[i].imports)
  BY <1>0, <1>2, <1>4 DEF Package, TargetsFit
<1>6. Visited = packages[i]
  BY <1>1 DEF Visited
<1> QED BY <1>1, <1>2, <1>3, <1>5, <1>6

LEMMA SeenVisit ==
    ASSUME visit \in Seq(VisitCall), visit # << >>
    PROVE  /\ Seen(visit) \in Seq(VisitCall) /\ Len(Seen(visit)) = Len(visit)
           /\ \A k \in 1 .. Len(visit) : /\ Seen(visit)[k].pkg = visit[k].pkg
                                         /\ k # Len(visit) => Seen(visit)[k].next = visit[k].next
           /\ Seen(visit)[Len(visit)].next = visit[Len(visit)].next + 1
<1> DEFINE c == Len(visit)
           call == [visit[c] EXCEPT !.next = @ + 1]
<1>1. c \in 1 .. Len(visit)
  OBVIOUS
<1>2. visit[c] \in VisitCall
  BY <1>1
<1>3. call \in VisitCall /\ call.pkg = visit[c].pkg /\ call.next = visit[c].next + 1
  BY <1>2 DEF VisitCall
<1>4. Seen(visit) = [visit EXCEPT ![c] = call]
  BY DEF Seen
<1> HIDE DEF c, call
<1>5. /\ Seen(visit) \in Seq(VisitCall) /\ Len(Seen(visit)) = Len(visit) /\ Seen(visit)[c] = call
      /\ \A k \in 1 .. Len(visit) : k # c => Seen(visit)[k] = visit[k]
  BY <1>1, <1>3, <1>4
<1> QED BY <1>3, <1>5 DEF c

\* The next import of the package visited needs no visit, or is visited.
VisitsNext ==
    LET i == visit[Len(visit)].pkg
        n == visit[Len(visit)].next IN
    \/ visit' = Seen(visit) /\ Preceded(i, n, Len(order))
    \/ /\ visit' = Append(Seen(visit), Open(packages[i].targets[n].index))
       /\ ~InOrder(packages[i].targets[n].index)

LEMMA VisitGoesOn ==
    ASSUME PkgInv, phase = "sort", visit # << >>, visit[Len(visit)].next \in DOMAIN Visited.imports,
           UNCHANGED <<world, loaderVars, sort>>, UNCHANGED <<order, roots, phase, error>>,
           VisitsNext
    PROVE  PkgInv'
<1> DEFINE c == Len(visit)
           i == visit[c].pkg
           n == visit[c].next
           x == packages[i].targets[n].index
<1>0. LoadInv /\ TypeOK /\ PointersKnown /\ OrderFits /\ VisitFits /\ WishesKept
      /\ visit \in Seq(VisitCall) /\ Len(order) \in Nat
  BY DEF PkgInv, LoadInv, OrderInv, TypeOK
<1>1. /\ c \in 1 .. c /\ Last(visit) = visit[c] /\ visit[c] \in VisitCall
      /\ i \in 1 .. Len(packages) /\ ~InOrder(i) /\ Visited = packages[i]
      /\ packages[i].imports \in Seq(ImportPath)
      /\ DOMAIN packages[i].imports = 1 .. Len(packages[i].imports)
      /\ Len(packages[i].targets) = Len(packages[i].imports)
      /\ \A m \in 1 .. n - 1 : Preceded(i, m, Len(order))
  BY TopVisit
<1>2. n \in 1 .. Len(packages[i].imports) /\ n \in 1 .. Len(packages[i].targets) /\ n \in Nat
      /\ Len(packages[i].imports) \in Nat
  BY <1>1
<1>3. x \in 1 .. Len(packages) /\ x \in Nat
  <2>1. Known(packages[i].targets[n])
    BY <1>0, <1>1, <1>2 DEF PointersKnown
  <2>2. Len(packages) \in Nat
    BY <1>0 DEF TypeOK
  <2>3. PICK t : t = packages[i].targets[n]
    OBVIOUS
  <2>4. Known(t) /\ t.index = x
    BY ONLY <2>1, <2>3
  <2> HIDE DEF i, n, x
  <2> QED BY ONLY <2>2, <2>4 DEF Known
<1>4. /\ Seen(visit) \in Seq(VisitCall) /\ Len(Seen(visit)) = c
      /\ \A k \in 1 .. c : /\ Seen(visit)[k].pkg = visit[k].pkg
                           /\ k # c => Seen(visit)[k].next = visit[k].next
      /\ Seen(visit)[c].next = n + 1
  BY <1>0, SeenVisit
<1>5. Open(x) \in VisitCall /\ Open(x).pkg = x /\ Open(x).next = 1
  BY <1>3 DEF Open, VisitCall
<1>6. \/ visit' = Seen(visit) /\ Preceded(i, n, Len(order))
      \/ visit' = Append(Seen(visit), Open(x)) /\ ~InOrder(x)
  BY DEF VisitsNext
<1> HIDE DEF x, n, i, c
\* The calls of the visit are there as they were, but for the import the last one has come to.
<1>7. /\ visit' \in Seq(VisitCall) /\ Len(visit') \in {c, c + 1} /\ c \in Nat
      /\ \A k \in 1 .. c : /\ visit'[k].pkg = visit[k].pkg
                           /\ k # c => visit'[k].next = visit[k].next
      /\ visit'[c].next = n + 1
      /\ Len(visit') = c + 1 => visit'[c + 1] = Open(x) /\ ~InOrder(x)
      /\ Len(visit') = c => Preceded(i, n, Len(order))
  <2>1. CASE visit' = Seen(visit) /\ Preceded(i, n, Len(order))
    BY <1>1, <1>4, <2>1
  <2>2. CASE visit' = Append(Seen(visit), Open(x)) /\ ~InOrder(x)
    <3>1. /\ visit' \in Seq(VisitCall) /\ Len(visit') = c + 1 /\ visit'[c + 1] = Open(x)
          /\ \A k \in 1 .. c : visit'[k] = Seen(visit)[k]
      BY <1>1, <1>4, <1>5, <2>2
    <3> QED BY <1>1, <1>4, <2>2, <3>1
  <2> QED BY <1>6, <2>1, <2>2
<1>8. /\ packages' = packages /\ entryPkg' = entryPkg /\ order' = order /\ roots' = roots
      /\ sort' = sort /\ phase' = "sort"
  BY DEF loaderVars
<1>9. LoadInv'
  BY <1>0, <1>7, <1>8, SortingKeeps DEF TypeOK
<1>10. \A k \in 1 .. Len(visit') : k = c + 1 \/ k \in 1 .. c
  BY <1>7
<1>11. Ranked'
  <2>1. PICK top \in Nat, rank \in [1 .. Len(packages) -> Nat] : RankedBy(rank, top)
    BY DEF PkgInv, OrderInv, Ranked
  <2>2. rank[x] < rank[i] /\ rank[x] \in Nat /\ rank[i] \in Nat
    <3>1. packages[i].loaded
      BY <1>0, <1>1, AllLoaded
    <3> QED BY <1>1, <1>2, <1>3, <2>1, <3>1 DEF RankedBy, x
  <2>3. ASSUME NEW k \in 1 .. Len(visit'), NEW m \in 1 .. Len(visit'), k < m
        PROVE  rank[visit'[m].pkg] < rank[visit'[k].pkg]
    <3>1. k \in 1 .. c /\ visit'[k].pkg = visit[k].pkg /\ visit[k].pkg \in 1 .. Len(packages)
      <4>1. k \in 1 .. c
        BY <1>7, <2>3
      <4> QED BY <1>0, <1>7, <4>1 DEF VisitFits, c
    <3>2. CASE m \in 1 .. c
      BY <1>7, <2>1, <2>3, <3>1, <3>2 DEF RankedBy, c
    <3>3. CASE m = c + 1
      <4>1. visit'[m].pkg = x
        BY <1>5, <1>7, <3>3
      <4>2. k = c => visit[k].pkg = i
        BY DEF i
      <4>3. k # c => rank[i] < rank[visit[k].pkg]
        <5>1. k # c => k < c
          BY <1>7, <3>1
        <5> QED BY <1>1, <2>1, <3>1, <5>1 DEF RankedBy, c, i
      <4>4. rank[visit[k].pkg] \in Nat
        BY <2>1, <3>1 DEF RankedBy
      <4> QED BY <2>2, <3>1, <4>1, <4>2, <4>3, <4>4
    <3> QED BY <1>10, <3>2, <3>3
  <2>4. RankedBy(rank, top)'
    BY <1>8, <2>1, <2>3 DEF RankedBy
  <2> QED BY <1>8, <2>4 DEF Ranked
<1>12. OrderFits'
  BY <1>0, <1>8 DEF OrderFits, Preceded, Skipped
<1>13. \A j, m : Preceded(j, m, Len(order)) => Preceded(j, m, Len(order))'
  BY <1>8 DEF Preceded, Skipped
<1>14. VisitFits'
  <2>1. ASSUME NEW k \in 1 .. Len(visit')
        PROVE  /\ visit'[k].pkg \in 1 .. Len(packages) /\ ~InOrder(visit'[k].pkg)
               /\ visit'[k].next \in 1 .. Len(packages[visit'[k].pkg].imports) + 1
    <3>1. CASE k \in 1 .. c /\ k # c
      BY <1>0, <1>7, <3>1 DEF VisitFits, c
    <3>2. CASE k = c
      <4>1. visit'[k].pkg = i /\ visit'[k].next = n + 1
        BY <1>1, <1>7, <3>2 DEF i
      <4> QED BY <1>1, <1>2, <4>1
    <3>3. CASE k = c + 1
      <4>1. visit'[k].pkg = x /\ visit'[k].next = 1 /\ ~InOrder(x)
        BY <1>5, <1>7, <3>3
      <4>2. packages[x] \in Package
        BY <1>0, <1>3 DEF TypeOK
      <4> QED BY <1>3, <4>1, <4>2 DEF Package
    <3> QED BY <1>10, <3>1, <3>2, <3>3
  <2>2. ASSUME NEW k \in 1 .. Len(visit'), NEW m \in 1 .. visit'[k].next - 1
        PROVE  \/ Preceded(visit'[k].pkg, m, Len(order))
               \/ k < Len(visit') /\ visit'[k + 1].pkg = packages[visit'[k].pkg].targets[m].index
    <3>1. CASE k \in 1 .. c /\ k # c
      <4>1. m \in 1 .. visit[k].next - 1 /\ visit'[k].pkg = visit[k].pkg
        BY <1>7, <3>1
      <4>2. k + 1 \in 1 .. c /\ visit'[k + 1].pkg = visit[k + 1].pkg /\ k < Len(visit')
        BY <1>7, <3>1
      <4>3. \/ Preceded(visit[k].pkg, m, Len(order))
            \/ k < Len(visit) /\ visit[k + 1].pkg = packages[visit[k].pkg].targets[m].index
        BY <1>0, <3>1, <4>1 DEF VisitFits, c
      <4> QED BY <4>1, <4>2, <4>3
    <3>2. CASE k = c /\ m # n
      <4>1. visit'[k].pkg = i /\ visit'[k].next = n + 1
        BY <1>1, <1>7, <3>2 DEF i
      <4>2. m \in 1 .. n - 1
        BY <1>2, <3>2, <4>1
      <4> QED BY <1>1, <4>1, <4>2
    <3>3. CASE k = c /\ m = n
      <4>1. visit'[k].pkg = i
        BY <1>1, <1>7, <3>3 DEF i
      <4>2. CASE Len(visit') = c
        BY <1>7, <3>3, <4>1, <4>2
      <4>3. CASE Len(visit') = c + 1
        <5>1. visit'[k + 1].pkg = x /\ k < Len(visit')
          BY <1>5, <1>7, <3>3, <4>3
        <5> QED BY <3>3, <4>1, <5>1 DEF x
      <4> QED BY <1>7, <4>2, <4>3
    <3>4. CASE k = c + 1
      <4>1. visit'[k].next = 1
        BY <1>5, <1>7, <3>4
      <4> QED BY <4>1
    <3> QED BY <1>10, <3>1, <3>2, <3>3, <3>4
  <2>3. \A k \in 1 .. Len(roots) : roots[k] \in 1 .. Len(packages)
    BY <1>0 DEF VisitFits
  <2>4. \A j : InOrder(j)' <=> InOrder(j)
    BY <1>8 DEF InOrder
  <2> QED BY ONLY <1>8, <1>13, <2>1, <2>2, <2>3, <2>4 DEF VisitFits
<1>15. WishesKept'
  <2>1. visit'[1].pkg = visit[1].pkg /\ visit' # << >>
    BY <1>1, <1>7
  <2>2. \A j : Coming(j) => Coming(j)'
    BY <1>8, <2>1 DEF Coming, InOrder
  <2>3. Wished' = Wished
    BY <1>8 DEF Wished
  <2> QED BY <1>0, <2>2, <2>3 DEF WishesKept
<1> QED BY <1>9, <1>11, <1>12, <1>14, <1>15 DEF PkgInv, OrderInv

LEMMA VisitImportKeeps ==
    ASSUME PkgInv, VisitImport
    PROVE  PkgInv'
<1> DEFINE c == Len(visit)
           i == visit[c].pkg
           n == visit[c].next
           p == packages[i].targets[n]
           skip == Skipped(packages[i].imports[n])
<1>0. LoadInv /\ TypeOK /\ PointersKnown /\ TableFits
  BY DEF PkgInv, LoadInv
<1>1. /\ phase = "sort" /\ UNCHANGED <<world, loaderVars, sort>> /\ visit # << >>
      /\ Last(visit).next \in DOMAIN Visited.imports /\ UNCHANGED <<order, roots>>
  BY DEF VisitImport, Sorting
<1>2. /\ c \in 1 .. c /\ Last(visit) = visit[c] /\ visit[c] \in VisitCall
      /\ i \in 1 .. Len(packages) /\ Visited = packages[i]
      /\ DOMAIN packages[i].imports = 1 .. Len(packages[i].imports)
      /\ Len(packages[i].targets) = Len(packages[i].imports)
  BY <1>1, TopVisit
<1>3. n \in 1 .. Len(packages[i].targets) /\ n \in DOMAIN Visited.imports
  BY <1>1, <1>2
<1>4. p.index \in 1 .. Len(packages) /\ p.table <= table /\ (table = 0 => Current(p))
  BY <1>0, <1>2, <1>3, TargetCurrent DEF PointersKnown, Known
<1>5. IF ~skip /\ ~Current(p) THEN Give("unresolved") /\ UNCHANGED visit
      ELSE IF ~skip /\ Visiting(p.index)
      THEN Give("cycle in order") /\ UNCHANGED visit
      ELSE /\ visit' = IF skip \/ InOrder(p.index) THEN Seen(visit)
                       ELSE Append(Seen(visit), Open(p.index))
           /\ Go("sort")
  BY <1>2 DEF VisitImport
<1>6. ~Visiting(p.index)
  <2> SUFFICES ASSUME NEW k \in DOMAIN visit, visit[k].pkg = p.index
               PROVE  FALSE
    BY DEF Visiting
  <2>1. PICK top \in Nat, rank \in [1 .. Len(packages) -> Nat] : RankedBy(rank, top)
    BY DEF PkgInv, OrderInv, Ranked
  <2>2. k \in 1 .. c /\ k <= c
    BY <1>0 DEF TypeOK
  <2>3. packages[i].loaded
    BY <1>0, <1>1, <1>2, AllLoaded
  <2>4. rank[p.index] < rank[i] /\ rank[p.index] \in Nat /\ rank[i] \in Nat
    BY <1>2, <1>3, <1>4, <2>1, <2>3 DEF RankedBy
  <2>5. PICK a, b : a = rank[p.index] /\ b = rank[i]
    OBVIOUS
  <2>6. a \in Nat /\ b \in Nat /\ a < b
    BY ONLY <2>4, <2>5
  <2>7. CASE k = c
    <3>1. a = b
      BY <2>5, <2>7
    <3> QED BY ONLY <2>6, <3>1
  <2>8. CASE k # c
    <3>1. k < c
      BY <1>2, <2>2, <2>8
    <3>2. rank[i] < rank[p.index]
      BY <1>2, <2>1, <2>2, <3>1 DEF RankedBy
    <3>3. b < a
      BY ONLY <2>5, <3>2
    <3> QED BY ONLY <2>6, <3>3
  <2> QED BY <2>7, <2>8
<1>7. CASE ~skip /\ ~Current(p)
  <2>1. table # 0 /\ Give("unresolved") /\ UNCHANGED visit
    BY <1>4, <1>5, <1>7
  <2>2. GivesUp
    BY <1>1, <2>1 DEF GivesUp, Give, loaderVars
  <2> QED BY <2>2, GivesUpKeeps
<1>8. CASE skip \/ Current(p)
  <2>1. /\ visit' = IF skip \/ InOrder(p.index) THEN Seen(visit)
                    ELSE Append(Seen(visit), Open(p.index))
        /\ UNCHANGED <<phase, error>>
    BY <1>1, <1>5, <1>6, <1>8 DEF Go
  <2>2. skip \/ InOrder(p.index) => Preceded(i, n, Len(order))
    <3>1. InOrder(p.index) => \E k \in 1 .. Len(order) : order[k] = p.index
      BY <1>0, OrderedIndex DEF TypeOK
    <3> QED BY <3>1 DEF Preceded
  <2>3. VisitsNext
    BY <2>1, <2>2 DEF VisitsNext
  <2>4. UNCHANGED <<order, roots, phase, error>>
    BY <1>1, <2>1
  <2>5. visit[Len(visit)].next \in DOMAIN Visited.imports
    BY <1>3
  <2> QED BY <1>1, <2>3, <2>4, <2>5, VisitGoesOn
<1> QED BY <1>7, <1>8

LEMMA VisitDoneKeeps ==
    ASSUME PkgInv, VisitDone
    PROVE  PkgInv'
<1> DEFINE c == Len(visit)
           i == visit[c].pkg
           d == Len(order)
<1>0. LoadInv /\ TypeOK /\ OrderFits /\ VisitFits /\ WishesKept /\ PhaseFits
      /\ visit \in Seq(VisitCall) /\ order \in Seq(Nat) /\ d \in Nat
  BY DEF PkgInv, LoadInv, OrderInv, TypeOK
<1>1. /\ phase = "sort" /\ UNCHANGED <<world, loaderVars, sort>> /\ visit # << >>
      /\ Last(visit).next \notin DOMAIN Visited.imports
      /\ order' = Append(order, Last(visit).pkg) /\ visit' = Front(visit)
      /\ UNCHANGED <<roots, phase, error>>
  BY DEF VisitDone, Sorting
<1>2. /\ c \in 1 .. c /\ c \in Nat /\ Last(visit) = visit[c] /\ visit[c] \in VisitCall
      /\ i \in 1 .. Len(packages) /\ ~InOrder(i) /\ Visited = packages[i]
      /\ packages[i].imports \in Seq(ImportPath)
      /\ DOMAIN packages[i].imports = 1 .. Len(packages[i].imports)
      /\ visit[c].next \in 1 .. Len(packages[i].imports) + 1
      /\ \A n \in 1 .. visit[c].next - 1 : Preceded(i, n, d)
  BY <1>0, <1>1, TopVisit
<1>3. \A n \in 1 .. Len(packages[i].imports) : Preceded(i, n, d)
  <2>1. Len(packages[i].imports) \in Nat /\ visit[c].next \notin 1 .. Len(packages[i].imports)
    BY <1>1, <1>2
  <2>2. visit[c].next = Len(packages[i].imports) + 1
    BY <1>2, <2>1
  <2> QED BY <1>2, <2>1, <2>2
<1>4. /\ order' \in Seq(Nat) /\ Len(order') = d + 1 /\ order'[d + 1] = i
      /\ \A k \in 1 .. d : order'[k] = order[k]
      /\ \A k \in 1 .. d + 1 : k = d + 1 \/ k \in 1 .. d
  <2>1. i \in Nat
    BY <1>2 DEF VisitCall
  <2> HIDE DEF i
  <2> QED BY <1>0, <1>1, <1>2, <2>1 DEF i
<1>5. /\ visit' \in Seq(VisitCall) /\ Len(visit') = c - 1
      /\ \A k \in 1 .. c - 1 : visit'[k] = visit[k]
  BY <1>0, <1>1, FrontFacts
<1>6. \A k \in 1 .. d : order[k] # i
  BY <1>0, <1>2, OrderedIndex
<1>7. packages' = packages /\ entryPkg' = entryPkg /\ sort' = sort /\ roots' = roots /\ phase' = "sort"
  BY <1>1 DEF loaderVars
<1> HIDE DEF i, c, d
<1>8. LoadInv'
  BY <1>0, <1>1, <1>4, <1>5, SortingKeeps DEF TypeOK
<1>9. PICK top \in Nat, rank \in [1 .. Len(packages) -> Nat] : RankedBy(rank, top)
  BY DEF PkgInv, OrderInv, Ranked
<1>10. \A k \in 1 .. c - 1 : k \in 1 .. c /\ k < c /\ k + 1 \in 1 .. c
  BY <1>2
<1>11. Ranked'
  <2>1. ASSUME NEW k \in 1 .. Len(visit'), NEW m \in 1 .. Len(visit'), k < m
        PROVE  rank[visit'[m].pkg] < rank[visit'[k].pkg]
    <3>1. k \in 1 .. c - 1 /\ m \in 1 .. c - 1
      BY <1>5
    <3>2. rank[visit[m].pkg] < rank[visit[k].pkg]
      BY <1>9, <1>10, <2>1, <3>1 DEF RankedBy, c
    <3> QED BY <1>5, <3>1, <3>2
  <2>2. RankedBy(rank, top)'
    BY <1>7, <1>9, <2>1 DEF RankedBy
  <2> QED BY <1>7, <2>2 DEF Ranked
\* What preceded still does, and so does the package that enters the order.
<1>12. \A j, n : \A m \in 0 .. d : Preceded(j, n, m) =>
          \/ ~sort'.all /\ \/ IsPlatformImportPath(packages'[j].imports[n])
                           \/ Head(packages'[j].imports[n]) = "builtin" /\ ~sort'.builtin
          \/ \E k \in 1 .. m : order'[k] = packages'[j].targets[n].index
  <2> SUFFICES ASSUME NEW j, NEW n, NEW m \in 0 .. d, Preceded(j, n, m)
               PROVE  \/ Skipped(packages[j].imports[n])
                      \/ \E k \in 1 .. m : order'[k] = packages[j].targets[n].index
    BY <1>7 DEF Skipped
  <2>1. \A k \in 1 .. m : k \in 1 .. d
    BY <1>0
  <2> QED BY <1>4, <2>1 DEF Preceded
<1>13. OrderFits'
  <2>1. ASSUME NEW k \in 1 .. Len(order')
        PROVE  order'[k] \in 1 .. Len(packages')
    <3>1. CASE k = d + 1
      BY <1>2, <1>4, <1>7, <3>1
    <3>2. CASE k \in 1 .. d
      BY <1>0, <1>4, <1>7, <3>2 DEF OrderFits, d
    <3> QED BY <1>4, <3>1, <3>2
  <2>2. ASSUME NEW k \in 1 .. Len(order'), NEW n \in 1 .. Len(packages'[order'[k]].imports)
        PROVE  \/ ~sort'.all /\ \/ IsPlatformImportPath(packages'[order'[k]].imports[n])
                                \/ Head(packages'[order'[k]].imports[n]) = "builtin" /\ ~sort'.builtin
               \/ \E t \in 1 .. k - 1 : order'[t] = packages'[order'[k]].targets[n].index
    <3>1. k \in 1 .. d + 1 /\ k - 1 \in 0 .. d
      BY <1>0, <1>4
    <3>2. Preceded(order'[k], n, k - 1)
      <4>1. CASE k = d + 1
        <5>1. order'[k] = i /\ k - 1 = d
          BY <1>0, <1>4, <4>1
        <5> QED BY <1>3, <1>7, <5>1
      <4>2. CASE k \in 1 .. d
        <5>1. order'[k] = order[k]
          BY <1>4, <4>2
        <5> QED BY <1>0, <1>7, <4>2, <5>1 DEF OrderFits, d
      <4> QED BY <1>4, <3>1, <4>1, <4>2
    <3> QED BY <1>12, <3>1, <3>2
  <2>3. ASSUME NEW k \in 1 .. Len(order'), NEW m \in 1 .. Len(order'), order'[k] = order'[m]
        PROVE  k = m
    <3>1. CASE k \in 1 .. d /\ m \in 1 .. d
      BY <1>0, <1>4, <2>3, <3>1 DEF OrderFits, d
    <3>2. CASE k = d + 1 /\ m \in 1 .. d
      BY <1>4, <1>6, <2>3, <3>2
    <3>3. CASE k \in 1 .. d /\ m = d + 1
      BY <1>4, <1>6, <2>3, <3>3
    <3> QED BY <1>4, <3>1, <3>2, <3>3
  <2> QED BY <2>1, <2>2, <2>3 DEF OrderFits, Preceded, Skipped
<1>14. VisitFits'
  <2>1. ASSUME NEW k \in 1 .. Len(visit')
        PROVE  /\ visit'[k].pkg \in 1 .. Len(packages') /\ visit'[k].pkg \notin ToSet(order')
               /\ visit'[k].next \in 1 .. Len(packages'[visit'[k].pkg].imports) + 1
    <3>1. k \in 1 .. c - 1 /\ visit'[k] = visit[k] /\ k \in 1 .. c /\ k < c
      BY <1>5, <1>10
    <3>2. /\ visit[k].pkg \in 1 .. Len(packages) /\ ~InOrder(visit[k].pkg)
          /\ visit[k].next \in 1 .. Len(packages[visit[k].pkg].imports) + 1
      BY <1>0, <3>1 DEF VisitFits, c
    <3>3. visit[k].pkg # i
      <4>1. rank[i] < rank[visit[k].pkg]
        BY <1>2, <1>9, <3>1 DEF RankedBy, c, i
      <4>2. rank[i] \in Nat
        BY <1>2, <1>9
      <4> QED BY <4>1, <4>2
    <3>4. \A t \in 1 .. d + 1 : order'[t] # visit[k].pkg
      <4>1. \A t \in 1 .. d : order[t] # visit[k].pkg
        BY <1>0, <3>2, OrderedIndex DEF d
      <4> QED BY <1>4, <3>3, <4>1
    <3>5. visit[k].pkg \notin ToSet(order')
      BY <1>4, <3>4 DEF ToSet
    <3> QED BY <1>7, <3>1, <3>2, <3>5
  <2>2. ASSUME NEW k \in 1 .. Len(visit'), NEW n \in 1 .. visit'[k].next - 1
        PROVE  \/ ~sort'.all /\ \/ IsPlatformImportPath(packages'[visit'[k].pkg].imports[n])
                                \/ /\ Head(packages'[visit'[k].pkg].imports[n]) = "builtin"
                                   /\ ~sort'.builtin
               \/ \E t \in 1 .. Len(order') : order'[t] = packages'[visit'[k].pkg].targets[n].index
               \/ k < Len(visit') /\ visit'[k + 1].pkg = packages'[visit'[k].pkg].targets[n].index
    <3>1. k \in 1 .. c - 1 /\ visit'[k] = visit[k] /\ k \in 1 .. c /\ k < c /\ k + 1 \in 1 .. c
      BY <1>5, <1>10
    <3>2. \/ Preceded(visit[k].pkg, n, d)
          \/ visit[k + 1].pkg = packages[visit[k].pkg].targets[n].index
      BY <1>0, <3>1 DEF VisitFits, c, d
    <3>3. CASE Preceded(visit[k].pkg, n, d)
      <4>1. d \in 0 .. d
        BY <1>0
      <4>2. \/ ~sort'.all /\ \/ IsPlatformImportPath(packages'[visit[k].pkg].imports[n])
                             \/ Head(packages'[visit[k].pkg].imports[n]) = "builtin" /\ ~sort'.builtin
            \/ \E t \in 1 .. d : order'[t] = packages'[visit[k].pkg].targets[n].index
        BY <1>12, <3>3, <4>1
      <4>3. \A t \in 1 .. d : t \in 1 .. Len(order')
        BY <1>0, <1>4
      <4> QED BY <3>1, <4>2, <4>3
    <3>4. CASE visit[k + 1].pkg = packages[visit[k].pkg].targets[n].index /\ k + 1 = c
      <4>1. order'[d + 1] = packages'[visit'[k].pkg].targets[n].index /\ d + 1 \in 1 .. Len(order')
        BY <1>0, <1>4, <1>7, <3>1, <3>4 DEF i
      <4> QED BY <4>1
    <3>5. CASE visit[k + 1].pkg = packages[visit[k].pkg].targets[n].index /\ k + 1 # c
      <4>1. k + 1 \in 1 .. c - 1 /\ k < Len(visit')
        BY <1>2, <1>5, <3>1, <3>5
      <4> QED BY <1>5, <1>7, <3>1, <3>5, <4>1
    <3> QED BY <3>2, <3>3, <3>4, <3>5
  <2>3. \A k \in 1 .. Len(roots') : roots'[k] \in 1 .. Len(packages')
    BY <1>0, <1>7 DEF VisitFits
  <2> QED BY <2>1, <2>2, <2>3 DEF VisitFits, Preceded, Skipped, InOrder
<1>15. WishesKept'
  <2>1. Wished' = Wished
    BY <1>7 DEF Wished
  <2>2. ASSUME NEW j \in Wished
        PROVE  Coming(j)'
    <3>1. \A k \in 1 .. d + 1 : order'[k] \in ToSet(order')
      BY <1>4 DEF ToSet
    <3>2. CASE InOrder(j)
      <4>1. PICK k \in 1 .. d : order[k] = j
        BY <1>0, <3>2, OrderedIndex DEF d
      <4>2. order'[k] = j /\ k \in 1 .. d + 1
        BY <1>0, <1>4, <4>1
      <4> QED BY <3>1, <4>2 DEF Coming, InOrder
    <3>3. CASE visit[1].pkg = j /\ c = 1
      <4>1. order'[d + 1] = j /\ d + 1 \in 1 .. d + 1
        BY <1>0, <1>4, <3>3 DEF i
      <4> QED BY <3>1, <4>1 DEF Coming, InOrder
    <3>4. CASE visit[1].pkg = j /\ c # 1
      <4>1. visit'[1] = visit[1] /\ visit' # << >>
        BY <1>2, <1>5, <3>4
      <4> QED BY <3>4, <4>1 DEF Coming
    <3>5. CASE \E k \in 1 .. Len(roots) : roots[k] = j
      BY <1>7, <3>5 DEF Coming
    <3>6. Coming(j)
      BY <1>0, <1>1 DEF WishesKept
    <3> QED BY <3>2, <3>3, <3>4, <3>5, <3>6 DEF Coming
  <2> QED BY <2>1, <2>2 DEF WishesKept
<1> QED BY <1>8, <1>11, <1>13, <1>14, <1>15 DEF PkgInv, OrderInv

-----------------------------------------------------------------------------
(* Every step keeps the invariant.                                         *)

\* The invariant holds at first.
LEMMA InitInv ==
    ASSUME Init
    PROVE  PkgInv
<1>1. /\ world \in Worlds /\ packages = << >> /\ cap = 0 /\ table = 0 /\ load = << >>
      /\ phase = "load" /\ error = "" /\ entryPkg = << >> /\ platformPkg = << >>
      /\ order = << >> /\ visit = << >> /\ roots = << >>
      /\ sort = [all |-> TRUE, builtin |-> TRUE, platform |-> FALSE]
  BY DEF Init
<1>2. /\ Len(packages) = 0 /\ Len(load) = 0 /\ Len(order) = 0 /\ Len(visit) = 0 /\ Len(roots) = 0
      /\ packages \in Seq(Package) /\ load \in Seq(LoadCall)
      /\ order \in Seq(Nat) /\ visit \in Seq(VisitCall) /\ roots \in Seq(Nat)
  <2>1. Len(<< >>) = 0 /\ \A T : << >> \in Seq(T)
    OBVIOUS
  <2> QED BY <1>1, <2>1
<1>3. \A k : k \notin 1 .. 0 /\ k \notin 1 .. 0 - 1
  OBVIOUS
<1>4. TypeOK
  <2>1. sort \in [all : BOOLEAN, builtin : BOOLEAN, platform : BOOLEAN]
    BY <1>1
  <2>2. cap \in Nat /\ table \in Nat
    BY <1>1
  <2> QED BY <1>1, <1>2, <2>1, <2>2 DEF TypeOK
<1>5. TableFits
  <2>1. cap = 0 /\ table = 0
    BY <1>1
  <2> QED BY <1>2, <2>1 DEF TableFits
<1>6. PointersKnown
  BY <1>1, <1>2, <1>3 DEF PointersKnown
<1>7. CallsWait
  BY <1>1, <1>2, <1>3 DEF CallsWait
<1>8. TargetsFit
  BY <1>2, <1>3 DEF TargetsFit
<1>9. PhaseFits
  BY <1>1 DEF PhaseFits
<1>10. Ranked
  <2> DEFINE rank == [i \in 1 .. Len(packages) |-> 0]
  <2>1. rank \in [1 .. Len(packages) -> Nat] /\ 0 \in Nat
    OBVIOUS
  <2> HIDE DEF rank
  <2>2. RankedBy(rank, 0)
    BY <1>2, <1>3 DEF RankedBy
  <2> QED BY <2>1, <2>2 DEF Ranked
<1>11. OrderFits
  BY <1>2, <1>3 DEF OrderFits
<1>12. VisitFits
  BY <1>2, <1>3 DEF VisitFits
<1>13. WishesKept
  BY <1>1 DEF WishesKept
<1> QED BY <1>4, <1>5, <1>6, <1>7, <1>8, <1>9, <1>10, <1>11, <1>12, <1>13
        DEF PkgInv, LoadInv, OrderInv

\* A step that changes nothing keeps it.
LEMMA StutterKeeps ==
    ASSUME PkgInv, UNCHANGED vars
    PROVE  PkgInv'
<1>1. UNCHANGED <<world, packages, cap, table, load, phase, error, entryPkg, platformPkg,
                  order, visit, roots, sort>>
  BY DEF vars
<1>2. LoadInv'
  <2>0. TypeOK'
    BY <1>1 DEF PkgInv, LoadInv, TypeOK
  <2>1. TableFits' /\ PhaseFits'
    <3>1. TableFits'
      BY <1>1 DEF PkgInv, LoadInv, TableFits
    <3>2. PhaseFits'
      BY <1>1 DEF PkgInv, LoadInv, PhaseFits
    <3> QED BY <3>1, <3>2
  <2>2. PointersKnown' /\ CallsWait'
    BY <1>1 DEF PkgInv, LoadInv, PointersKnown, Known, CallsWait, Subject, Awaited
  <2>3. TargetsFit'
    BY <1>1 DEF PkgInv, LoadInv, TargetsFit, Bound
  <2> QED BY <2>0, <2>1, <2>2, <2>3 DEF LoadInv
<1>3. OrderInv'
  <2>1. Ranked'
    BY <1>1 DEF PkgInv, OrderInv, Ranked, RankedBy
  <2>2. OrderFits'
    BY <1>1 DEF PkgInv, OrderInv, OrderFits, Preceded, Skipped
  <2>3. VisitFits'
    <3>1. VisitFits
      BY DEF PkgInv, OrderInv
    <3>2. \A i, n, m : Preceded(i, n, m)' <=> Preceded(i, n, m)
      BY <1>1 DEF Preceded, Skipped
    <3>3. \A i : InOrder(i)' <=> InOrder(i)
      BY <1>1 DEF InOrder
    <3> QED BY ONLY <1>1, <3>1, <3>2, <3>3 DEF VisitFits
  <2>4. WishesKept'
    BY <1>1 DEF PkgInv, OrderInv, WishesKept, Wished, Coming, InOrder
  <2> QED BY <2>1, <2>2, <2>3, <2>4 DEF OrderInv
<1> QED BY <1>2, <1>3 DEF PkgInv

\* Every step keeps it.
LEMMA NextInv ==
    ASSUME PkgInv, [Next]_vars
    PROVE  PkgInv'
<1>1. CASE Reuse
  BY <1>1, ReuseKeeps
<1>2. CASE CycleDetected \/ NoDirectory \/ RejectImports \/ UseStaleEntry
  BY <1>2, LoadGivesUp, GivesUpKeeps DEF PkgInv
<1>3. CASE StartPackage \/ StartFiles
  BY <1>3, StartKeeps
<1>4. CASE NoSource
  BY <1>4, NoSourceKeeps
<1>5. CASE FinishPackage
  BY <1>5, FinishKeeps
<1>6. CASE Check
  BY <1>6, CheckKeeps
<1>7. CASE StartOrder
  BY <1>7, StartOrderKeeps
<1>8. CASE VisitRoot
  BY <1>8, VisitRootKeeps
<1>9. CASE VisitImport
  BY <1>9, VisitImportKeeps
<1>10. CASE VisitDone
  BY <1>10, VisitDoneKeeps
<1>11. CASE Ordered
  BY <1>11, OrderedKeeps
<1>12. CASE UNCHANGED vars
  BY <1>12, StutterKeeps
<1> QED BY <1>1, <1>2, <1>3, <1>4, <1>5, <1>6, <1>7, <1>8, <1>9, <1>10, <1>11, <1>12
        DEF Next, Load, Order, Stopped

\* The table and its pointers, the calls, the imports bound and the visit fit together.
THEOREM LoaderFits == Spec => []PkgInv
<1>1. Init => PkgInv
  BY InitInv
<1>2. PkgInv /\ [Next]_vars => PkgInv'
  BY NextInv
<1> QED BY <1>1, <1>2, PTL DEF Spec

-----------------------------------------------------------------------------
(* What follows from it.                                                   *)

\* Up to the first capacity of the table (AddPackageSlot, EnsureCap) no pointer
\* to a package that is kept dangles, and none that does is used.
THEOREM PointersCurrent == Spec => []NoStalePointer
<1>1. PkgInv => NoStalePointer
  <2> SUFFICES ASSUME PkgInv, Len(packages) <= TableCap
               PROVE  phase # "undefined" /\ \A p \in Pointers : Current(p)
    BY DEF NoStalePointer
  <2>0. LoadInv /\ TypeOK /\ TableFits /\ PointersKnown /\ PhaseFits
    BY DEF PkgInv, LoadInv
  <2>1. table = 0 /\ Len(packages) \in Nat /\ TableCap \in Nat
    BY <2>0, WorldsAssumption DEF TableFits, TypeOK
  <2>2. phase # "undefined"
    <3>1. phase = "undefined" => Len(packages) > TableCap
      BY <2>0 DEF PhaseFits
    <3> QED BY <2>1, <3>1
  <2>3. ASSUME NEW p \in PackagePointer, Known(p)
        PROVE  Current(p)
    BY <2>1, <2>3 DEF PackagePointer, Known, Current
  <2>4. ASSUME NEW k \in DOMAIN load
        PROVE  Current(load[k].pkg) /\ Current(load[k].own)
    <3>1. load[k] \in LoadCall /\ k \in 1 .. Len(load)
      BY <2>0 DEF TypeOK
    <3>2. Known(load[k].pkg) /\ Known(load[k].own)
      BY <2>0, <3>1 DEF PointersKnown
    <3> QED BY <2>3, <3>1, <3>2 DEF LoadCall
  <2>5. ASSUME NEW i \in DOMAIN packages, NEW p \in Targets(i)
        PROVE  Current(p)
    <3>1. i \in 1 .. Len(packages) /\ p \in Surface(i)
      BY <2>0 DEF TypeOK, Surface
    <3> QED BY <2>0, <2>1, <3>1, SurfaceTargets, TargetCurrent
  <2>6. entryPkg # << >> => Current(entryPkg)
    BY <2>0, <2>3 DEF TypeOK, PointersKnown
  <2>7. platformPkg # << >> => Current(platformPkg)
    BY <2>0, <2>3 DEF TypeOK, PointersKnown
  <2> QED BY <2>2, <2>4, <2>5, <2>6, <2>7 DEF Pointers
<1> QED BY <1>1, LoaderFits, PTL

\* LoadPackageRecursive binds an import to the package of the directory its path
\* leads to, once that package is loaded, whatever else is loaded meanwhile.
THEOREM ImportsLeadThere == Spec => []ImportsBound
<1>1. PkgInv => ImportsBound
  <2> SUFFICES ASSUME PkgInv, NEW i \in DOMAIN packages, NEW k \in DOMAIN packages[i].targets
               PROVE  Bound(i, k)
    BY DEF ImportsBound, Bound
  <2>1. TypeOK /\ TargetsFit
    BY DEF PkgInv, LoadInv
  <2>2. i \in 1 .. Len(packages) /\ packages[i] \in Package
    BY <2>1 DEF TypeOK
  <2>3. k \in 1 .. Len(packages[i].targets)
    BY <2>2 DEF Package
  <2> QED BY <2>1, <2>2, <2>3 DEF TargetsFit
<1> QED BY <1>1, LoaderFits, PTL

\* BuildPackageTopologicalOrder and BuildEntryPackageMirOrder put each package
\* once, after what it imports, and never meet a cycle.
THEOREM OrderIsSound == Spec => []OrderSound
<1>1. PkgInv => OrderSound
  <2> SUFFICES ASSUME PkgInv
               PROVE  OrderSound
    OBVIOUS
  <2>0. TypeOK /\ PhaseFits /\ OrderFits /\ WishesKept /\ LoadInv
        /\ DOMAIN order = 1 .. Len(order) /\ Len(order) \in Nat /\ DOMAIN packages = 1 .. Len(packages)
    BY DEF PkgInv, LoadInv, OrderInv, TypeOK
  <2>1. error # "cycle in order" /\ (table = 0 => error # "unresolved")
    BY <2>0 DEF PhaseFits
  <2>2. ASSUME NEW k \in DOMAIN order, NEW n \in DOMAIN packages[order[k]].imports
        PROVE  \/ Skipped(packages[order[k]].imports[n])
               \/ packages[order[k]].targets[n].index \in ToSet(SubSeq(order, 1, k - 1))
    <3>1. k \in 1 .. Len(order) /\ order[k] \in 1 .. Len(packages)
      BY <2>0 DEF OrderFits
    <3>2. packages[order[k]] \in Package
      BY <2>0, <3>1 DEF TypeOK
    <3>3. n \in 1 .. Len(packages[order[k]].imports)
      BY <3>2 DEF Package
    <3>4. Preceded(order[k], n, k - 1)
      BY <2>0, <3>1, <3>3 DEF OrderFits
    <3>5. ASSUME NEW t \in 1 .. k - 1
          PROVE  order[t] \in ToSet(SubSeq(order, 1, k - 1))
      <4> DEFINE some == SubSeq(order, 1, k - 1)
      <4>1. k - 1 \in Nat /\ k - 1 <= Len(order) /\ order \in Seq(Nat)
        BY <2>0, <3>1 DEF TypeOK
      <4>2. Len(some) = k - 1 /\ some[t] = order[t] /\ DOMAIN some = 1 .. k - 1
        BY <4>1
      <4> HIDE DEF some
      <4>3. order[t] \in ToSet(some)
        BY <4>2 DEF ToSet
      <4> QED BY <4>3 DEF some
    <3> QED BY <3>4, <3>5 DEF Preceded
  <2>3. IsInjective(order)
    BY <2>0 DEF IsInjective, OrderFits
  <2>4. ASSUME phase = "done"
        PROVE  IF sort.all THEN ToSet(order) = DOMAIN packages ELSE entryPkg.index \in ToSet(order)
    <3>1. \A i \in Wished : Coming(i)
      BY <2>0, <2>4 DEF WishesKept
    <3>2. visit = << >> /\ roots = << >>
      BY <2>0, <2>4 DEF PhaseFits
    <3>3. \A i \in Wished : i \in ToSet(order)
      BY <3>1, <3>2 DEF Coming, InOrder
    <3>4. ToSet(order) \subseteq 1 .. Len(packages)
      BY <2>0 DEF ToSet, OrderFits
    <3> QED BY <2>0, <3>3, <3>4 DEF Wished
  <2> QED BY <2>1, <2>2, <2>3, <2>4 DEF OrderSound
<1> QED BY <1>1, LoaderFits, PTL

-----------------------------------------------------------------------------
(* What the closure of a set of directories is.  A claim about all natural *)
(* numbers is proved from the least one it fails for.                      *)

\* A set of numbers that is not empty has a least one.
LEMMA LeastNumber ==
    ASSUME NEW T, T \subseteq Nat, T # {}
    PROVE  \E x \in T : \A y \in T : x <= y
<1>1. PICK R : R = {p \in Nat \X Nat : p[1] < p[2]}
  OBVIOUS
<1>2. IsWellFoundedOn(R, Nat)
  BY <1>1, NatLessThanWellFounded, Zenon DEF OpToRel
<1>3. \E x \in T : \A y \in T : <<y, x>> \notin R
  BY <1>2, WFMin
<1>4. \A x, y \in Nat : <<y, x>> \notin R => x <= y
  BY <1>1
<1> QED BY <1>3, <1>4

\* The least one, and the number before it.
LEMMA Before ==
    ASSUME NEW n \in Nat, NEW T, T \subseteq 0 .. n, T # {}, 0 \notin T
    PROVE  \E m \in 1 .. n : m \in T /\ m - 1 \in 0 .. n - 1 /\ m - 1 \notin T
<1>1. T \subseteq Nat
  OBVIOUS
<1>2. PICK m \in T : \A k \in T : m <= k
  BY <1>1, LeastNumber
<1>3. m \in 0 .. n /\ m # 0
  BY <1>2
<1>4. m \in 1 .. n /\ m - 1 \in 0 .. n - 1 /\ ~(m <= m - 1)
  BY ONLY <1>3, n \in Nat
<1> QED BY <1>2, <1>4

\* The rounds of the closure: what is reached after n of them.
IsRounds(f, w, dirs, n) ==
    f = [i \in 0 .. n |-> IF i = 0 THEN dirs ELSE Spread(w, f[i - 1])]

\* The recursive function of the rounds has a value.
LEMMA RoundsExist ==
    ASSUME NEW w, NEW dirs, NEW n \in Nat
    PROVE  \E f : IsRounds(f, w, dirs, n)
<1> DEFINE T == { m \in 0 .. n : ~\E f : IsRounds(f, w, dirs, m) }
<1>1. 0 \notin T
  <2> DEFINE f == [i \in 0 .. 0 |-> dirs]
  <2>1. f = [i \in 0 .. 0 |-> IF i = 0 THEN dirs ELSE Spread(w, f[i - 1])]
    <3>1. \A i \in 0 .. 0 : i = 0
      OBVIOUS
    <3> QED BY <3>1
  <2> HIDE DEF f
  <2>2. IsRounds(f, w, dirs, 0)
    BY <2>1 DEF IsRounds
  <2> QED BY <2>2
<1>2. ASSUME NEW m \in 1 .. n, m \in T, m - 1 \in 0 .. n - 1, m - 1 \notin T
      PROVE  FALSE
  <2>1. m - 1 \in 0 .. n /\ m \in Nat /\ m - 1 \in Nat
    BY <1>2
  <2>2. PICK g : IsRounds(g, w, dirs, m - 1)
    BY <1>2, <2>1
  <2> DEFINE f == [i \in 0 .. m |-> IF i = m THEN Spread(w, g[m - 1]) ELSE g[i]]
  <2>3. \A i \in 0 .. m - 1 : f[i] = g[i]
    BY <2>1
  <2>4. ASSUME NEW i \in 0 .. m
        PROVE  f[i] = IF i = 0 THEN dirs ELSE Spread(w, f[i - 1])
    <3>1. CASE i = m
      <4>1. m - 1 \in 0 .. m - 1 /\ m # 0 /\ m \in 0 .. m
        BY <1>2, <2>1
      <4>2. f[m] = Spread(w, g[m - 1])
        BY <4>1
      <4> HIDE DEF f
      <4> QED BY <2>3, <3>1, <4>1, <4>2
    <3>2. CASE i # m
      <4>1. i \in 0 .. m - 1 /\ (i # 0 => i - 1 \in 0 .. m - 1)
        BY <2>1, <3>2
      <4>2. g[i] = IF i = 0 THEN dirs ELSE Spread(w, g[i - 1])
        BY <2>2, <4>1 DEF IsRounds
      <4> HIDE DEF f
      <4> QED BY <2>3, <4>1, <4>2
    <3> QED BY <3>1, <3>2
  <2>5. f = [i \in 0 .. m |-> f[i]]
    OBVIOUS
  <2> HIDE DEF f
  <2>6. IsRounds(f, w, dirs, m)
    BY <2>4, <2>5, Zenon DEF IsRounds
  <2> QED BY <1>2, <2>6
<1> HIDE DEF T
<1>3. T = {}
  <2>1. T \subseteq 0 .. n
    BY DEF T
  <2> QED BY <1>1, <1>2, <2>1, Before
<1>4. n \in 0 .. n
  OBVIOUS
<1> QED BY <1>3, <1>4 DEF T

\* The closure is what the last of as many rounds as there are directories reaches.
LEMMA ClosureRounds ==
    ASSUME NEW w, NEW dirs, NEW n \in Nat, n = Cardinality(w.tree)
    PROVE  \E f : /\ Closure(w, dirs) = f[n] /\ f[0] = dirs
                  /\ \A i \in 1 .. n : f[i] = Spread(w, f[i - 1])
<1>1. PICK f : f = CHOOSE g : IsRounds(g, w, dirs, n)
  OBVIOUS
<1>2. Closure(w, dirs) = f[n]
  BY <1>1 DEF Closure, IsRounds
<1>3. IsRounds(f, w, dirs, n)
  BY <1>1, RoundsExist
<1>4. f = [i \in 0 .. n |-> IF i = 0 THEN dirs ELSE Spread(w, f[i - 1])]
  BY <1>3 DEF IsRounds
<1>5. 0 \in 0 .. n /\ \A i \in 1 .. n : i \in 0 .. n /\ i # 0
  OBVIOUS
<1> QED BY <1>2, <1>4, <1>5

\* No round takes away what there was at first.
LEMMA RoundsGrow ==
    ASSUME NEW w, NEW n \in Nat, NEW f, \A i \in 1 .. n : f[i] = Spread(w, f[i - 1])
    PROVE  f[0] \subseteq f[n]
<1> DEFINE T == { m \in 0 .. n : ~(f[0] \subseteq f[m]) }
<1>1. 0 \notin T
  OBVIOUS
<1>2. ASSUME NEW m \in 1 .. n, m \in T, m - 1 \in 0 .. n - 1, m - 1 \notin T
      PROVE  FALSE
  <2>1. m - 1 \in 0 .. n
    BY <1>2
  <2>2. f[0] \subseteq f[m - 1] /\ f[m] = Spread(w, f[m - 1])
    BY <1>2, <2>1
  <2>3. f[0] \subseteq f[m]
    BY <2>2 DEF Spread
  <2> QED BY <1>2, <2>3
<1> HIDE DEF T
<1>3. T = {}
  <2>1. T \subseteq 0 .. n
    BY DEF T
  <2> QED BY <1>1, <1>2, <2>1, Before
<1>4. n \in 0 .. n
  OBVIOUS
<1> QED BY <1>3, <1>4 DEF T

\* The closure holds what it starts from.
LEMMA ClosureHas ==
    ASSUME NEW w, IsFiniteSet(w.tree), NEW dirs
    PROVE  dirs \subseteq Closure(w, dirs)
<1>0. PICK n \in Nat : n = Cardinality(w.tree)
  BY FS_CardinalityType
<1>1. PICK f : /\ Closure(w, dirs) = f[n] /\ f[0] = dirs
               /\ \A i \in 1 .. n : f[i] = Spread(w, f[i - 1])
  BY <1>0, ClosureRounds
<1>2. f[0] \subseteq f[n]
  BY <1>1, RoundsGrow
<1> QED BY <1>1, <1>2

\* Nothing is in it that another set closed under imports lacks.
LEMMA ClosureLeast ==
    ASSUME NEW w, IsFiniteSet(w.tree), NEW dirs, NEW S, dirs \subseteq S,
           \A d \in S : HasSource(w, d) => Needs(w, d) \subseteq S
    PROVE  Closure(w, dirs) \subseteq S
<1>0. PICK n \in Nat : n = Cardinality(w.tree)
  BY FS_CardinalityType
<1>1. PICK f : /\ Closure(w, dirs) = f[n] /\ f[0] = dirs
               /\ \A i \in 1 .. n : f[i] = Spread(w, f[i - 1])
  BY <1>0, ClosureRounds
<1> DEFINE T == { m \in 0 .. n : ~(f[m] \subseteq S) }
<1>2. 0 \notin T
  BY <1>1
<1>3. ASSUME NEW m \in 1 .. n, m \in T, m - 1 \in 0 .. n - 1, m - 1 \notin T
      PROVE  FALSE
  <2>1. m - 1 \in 0 .. n
    BY <1>3
  <2>2. f[m - 1] \subseteq S /\ f[m] = Spread(w, f[m - 1])
    BY <1>1, <1>3, <2>1
  <2>3. f[m] \subseteq S
    BY <2>2 DEF Spread
  <2> QED BY <1>3, <2>3
<1> HIDE DEF T
<1>4. T = {}
  <2>1. T \subseteq 0 .. n
    BY DEF T
  <2> QED BY <1>2, <1>3, <2>1, Before
<1>5. n \in 0 .. n
  OBVIOUS
<1> QED BY <1>1, <1>4, <1>5 DEF T

\* Each round that finds something new finds it through another directory with
\* source files, so the last round finds nothing new.
Sources(w, dirs) == { e \in dirs : HasSource(w, e) }
Still(w, dirs) == Spread(w, dirs) = dirs

\* There are no more sources to follow than directories.
LEMMA SourcesBounded ==
    ASSUME NEW w, IsWorld(w), NEW dirs
    PROVE  /\ IsFiniteSet(w.tree) /\ Sources(w, dirs) \subseteq w.tree
           /\ IsFiniteSet(Sources(w, dirs)) /\ Cardinality(Sources(w, dirs)) \in Nat
           /\ Cardinality(Sources(w, dirs)) <= Cardinality(w.tree)
<1>1. IsFiniteSet(w.tree) /\ DOMAIN w.imports \subseteq w.tree /\ w.entry \in w.tree
  BY DEF IsWorld
<1>2. Sources(w, dirs) \subseteq w.tree
  BY <1>1 DEF Sources, HasSource
<1>3. IsFiniteSet(Sources(w, dirs)) /\ Cardinality(Sources(w, dirs)) <= Cardinality(w.tree)
  BY <1>1, <1>2, FS_Subset
<1> QED BY <1>1, <1>2, <1>3, FS_CardinalityType

\* While the rounds add something, each has more sources to follow than the one before.
LEMMA NextRound ==
    ASSUME NEW w, IsWorld(w), NEW dirs, NEW k \in Nat,
           Still(w, dirs) \/ k + 1 <= Cardinality(Sources(w, dirs)),
           NEW more, more = Spread(w, dirs)
    PROVE  Still(w, more) \/ k + 2 <= Cardinality(Sources(w, more))
<1>1. CASE Still(w, dirs)
  BY <1>1 DEF Still
<1>2. CASE Sources(w, more) = Sources(w, dirs)
  <2>1. more = dirs \cup UNION { Needs(w, d) : d \in Sources(w, dirs) }
    BY DEF Spread, Sources
  <2>2. Spread(w, more) = more \cup UNION { Needs(w, d) : d \in Sources(w, more) }
    BY DEF Spread, Sources
  <2> QED BY <1>2, <2>1, <2>2 DEF Still
<1>3. CASE ~Still(w, dirs) /\ Sources(w, more) # Sources(w, dirs)
  <2>1. Sources(w, dirs) \subseteq Sources(w, more)
    BY DEF Spread, Sources
  <2>2. PICK a, b : a = Cardinality(Sources(w, dirs)) /\ b = Cardinality(Sources(w, more))
    OBVIOUS
  <2>3. a \in Nat /\ b \in Nat /\ IsFiniteSet(Sources(w, more))
    BY <2>2, SourcesBounded
  <2>4. a <= b /\ a # b
    BY <1>3, <2>1, <2>2, <2>3, FS_Subset
  <2>5. k + 1 <= a
    BY <1>3, <2>2
  <2>6. k + 2 <= b
    BY ONLY <2>3, <2>4, <2>5, k \in Nat
  <2> QED BY <2>2, <2>6
<1> QED BY <1>1, <1>2, <1>3

\* After as many rounds as there are directories nothing is added.
LEMMA LastRoundStill ==
    ASSUME NEW w, IsWorld(w), NEW n \in Nat, n = Cardinality(w.tree), NEW f,
           \A i \in 1 .. n : f[i] = Spread(w, f[i - 1])
    PROVE  Still(w, f[n])
<1> DEFINE Grown2(m) == m + 1 <= Cardinality(Sources(w, f[m]))
           T == { m \in 0 .. n : ~(Still(w, f[m]) \/ Grown2(m)) }
<1>1. 0 \notin T
  <2>1. CASE Sources(w, f[0]) = {}
    BY <2>1 DEF Still, Spread, Sources
  <2>2. CASE Sources(w, f[0]) # {}
    <3>1. PICK a : a = Cardinality(Sources(w, f[0]))
      OBVIOUS
    <3>2. a \in Nat /\ a # 0
      BY <2>2, <3>1, SourcesBounded, FS_EmptySet
    <3>3. 0 + 1 <= a
      BY ONLY <3>2
    <3> QED BY <3>1, <3>3
  <2> QED BY <2>1, <2>2
<1>2. ASSUME NEW m \in 1 .. n, m \in T, m - 1 \in 0 .. n - 1, m - 1 \notin T
      PROVE  FALSE
  <2>1. m - 1 \in 0 .. n /\ m - 1 \in Nat /\ m \in 0 .. n
    BY <1>2
  <2>2. Still(w, f[m - 1]) \/ (m - 1) + 1 <= Cardinality(Sources(w, f[m - 1]))
    BY <1>2, <2>1
  <2>3. f[m] = Spread(w, f[m - 1])
    OBVIOUS
  <2>4. Still(w, f[m]) \/ (m - 1) + 2 <= Cardinality(Sources(w, f[m]))
    <3> HIDE DEF T
    <3> QED BY <2>1, <2>2, <2>3, NextRound
  <2>5. (m - 1) + 2 = m + 1
    OBVIOUS
  <2> QED BY <1>2, <2>1, <2>4, <2>5
<1> HIDE DEF T
<1>3. T = {}
  <2>1. T \subseteq 0 .. n
    BY DEF T
  <2> QED BY <1>1, <1>2, <2>1, Before
<1>4. Still(w, f[n]) \/ n + 1 <= Cardinality(Sources(w, f[n]))
  <2>1. n \in 0 .. n
    OBVIOUS
  <2> QED BY <1>3, <2>1 DEF T
<1>5. ~(n + 1 <= Cardinality(Sources(w, f[n])))
  <2>1. PICK a : a = Cardinality(Sources(w, f[n]))
    OBVIOUS
  <2>2. a \in Nat /\ a <= n
    BY <2>1, SourcesBounded
  <2> QED BY <2>1, <2>2
<1> QED BY <1>4, <1>5

\* What a directory of the closure imports is in the closure.
LEMMA ClosureClosed ==
    ASSUME NEW w, IsWorld(w), NEW dirs, NEW d \in Closure(w, dirs), HasSource(w, d)
    PROVE  Needs(w, d) \subseteq Closure(w, dirs)
<1>1. IsFiniteSet(w.tree)
  BY DEF IsWorld
<1>2. PICK n \in Nat : n = Cardinality(w.tree)
  BY <1>1, FS_CardinalityType
<1>3. PICK f : /\ Closure(w, dirs) = f[n]
               /\ \A i \in 1 .. n : f[i] = Spread(w, f[i - 1])
  BY <1>2, ClosureRounds
<1>4. Spread(w, f[n]) = f[n]
  BY <1>2, <1>3, LastRoundStill DEF Still
<1> QED BY <1>3, <1>4 DEF Spread

-----------------------------------------------------------------------------
(* The packages in the table, as part of the graph of the program's imports *)
(* that the world describes.                                               *)

\* Package i has the imports of the files of its directory.
Sourced(i) ==
    LET dir == packages[i].dir
        written == IF world.single /\ dir = world.entry THEN world.entryImports ELSE world.imports[dir]
    IN  HasSource(world, dir) /\ packages[i].imports = ImportsOf(dir, written)

\* The entry package is entered first, each package once, and only if it is needed.
Entered ==
    /\ packages # << >> => packages[1].dir = world.entry
    /\ \A i, j \in 1 .. Len(packages) : packages[i].dir = packages[j].dir => i = j
    /\ \A i \in 1 .. Len(packages) : packages[i].dir \in Needed(world) /\ Sourced(i)

\* The outermost call loads the entry package, or after it the platform's.
Called ==
    /\ load # << >> => packages[Subject(1)].dir = IF entryPkg = << >> THEN world.entry ELSE PlatformDir(world)
    /\ entryPkg # << >> => packages[entryPkg.index].dir = world.entry
    /\ platformPkg # << >> => packages[platformPkg.index].dir = PlatformDir(world)

GivenUp == phase \in {"failed", "undefined"}
CycleFits == error = "cycle" => Cyclic(world)
GraphInv == CycleFits /\ (GivenUp \/ (Entered /\ Called))

\* The imports of a package lead where its directory needs a package.
LEMMA NeedsOf ==
    ASSUME TypeOK, Entered, NEW i \in 1 .. Len(packages), NEW dir, dir = packages[i].dir
    PROVE  /\ HasSource(world, dir)
           /\ \A n \in 1 .. Len(packages[i].imports) :
                 ResolveImport(world, dir, packages[i].imports[n]) \in Needs(world, dir)
           /\ \A d \in Needs(world, dir) : \E n \in 1 .. Len(packages[i].imports) :
                 d = ResolveImport(world, dir, packages[i].imports[n])
<1>1. PICK paths : paths = packages[i].imports
  OBVIOUS
<1>2. HasSource(world, dir) /\ Needs(world, dir) = { ResolveImport(world, dir, path) : path \in ToSet(paths) }
  BY <1>1 DEF Entered, Sourced, Needs
<1>3. DOMAIN paths = 1 .. Len(paths)
  <2>1. packages[i] \in Package
    BY DEF TypeOK
  <2> QED BY <1>1, <2>1 DEF Package
<1>4. ToSet(paths) = { paths[n] : n \in 1 .. Len(paths) }
  BY <1>3 DEF ToSet
<1> QED BY <1>1, <1>2, <1>4

\* The world of the load is one with finitely many directories.
LEMMA WorldClosure ==
    ASSUME TypeOK
    PROVE  IsWorld(world) /\ IsFiniteSet(world.tree)
BY WorldsAssumption DEF TypeOK, IsWorld

\* What is wanted next is needed.
LEMMA WantedNeeded ==
    ASSUME PkgInv, Entered, NEW dir \in Wanted
    PROVE  /\ dir \in Needed(world)
           /\ load = << >> => dir = IF entryPkg = << >> THEN world.entry ELSE PlatformDir(world)
           /\ load # << >> => dir \in Needs(world, packages[Subject(Len(load))].dir)
<1>0. TypeOK /\ LoadInv /\ IsWorld(world) /\ IsFiniteSet(world.tree)
  BY WorldClosure DEF PkgInv, LoadInv
<1>1. CASE load = << >>
  <2>1. dir = IF entryPkg = << >> THEN world.entry ELSE PlatformDir(world)
    BY <1>1 DEF Wanted
  <2>2. {world.entry, PlatformDir(world)} \subseteq Needed(world)
    BY <1>0, ClosureHas DEF Needed
  <2> QED BY <1>1, <2>1, <2>2
<1>2. CASE load # << >>
  <2>1. PICK i : i = Subject(Len(load))
    OBVIOUS
  <2>2. /\ Awaited(i) \in 1 .. Len(packages[i].imports)
        /\ dir = ResolveImport(world, packages[i].dir, packages[i].imports[Awaited(i)])
    BY <1>0, <1>2, <2>1, WantedNext
  <2>3. i \in 1 .. Len(packages)
    <3>1. Len(load) \in 1 .. Len(load)
      BY <1>0, <1>2 DEF TypeOK
    <3> QED BY <1>0, <2>1, <3>1 DEF LoadInv, PointersKnown, Known, Subject
  <2>4. HasSource(world, packages[i].dir) /\ dir \in Needs(world, packages[i].dir)
    BY <1>0, <2>2, <2>3, NeedsOf
  <2>5. packages[i].dir \in Needed(world)
    BY <2>3 DEF Entered
  <2>6. Needs(world, packages[i].dir) \subseteq Needed(world)
    BY <1>0, <2>4, <2>5, ClosureClosed DEF Needed
  <2> QED BY <1>2, <2>1, <2>4, <2>6
<1> QED BY <1>1, <1>2

\* The packages that are being loaded need one another.
LEMMA CallsChain ==
    ASSUME TypeOK, PointersKnown, CallsWait, Entered, NEW k \in 1 .. Len(load), NEW m \in k + 1 .. Len(load)
    PROVE  packages[Subject(m)].dir \in Closure(world, Needs(world, packages[Subject(k)].dir))
<1>0. IsWorld(world) /\ IsFiniteSet(world.tree) /\ Len(load) \in Nat /\ k \in Nat
  BY WorldClosure DEF TypeOK
<1> DEFINE all == Closure(world, Needs(world, packages[Subject(k)].dir))
           T == { h \in k + 1 .. Len(load) : packages[Subject(h)].dir \notin all }
<1>1. ASSUME NEW h \in k .. Len(load) - 1
      PROVE  /\ HasSource(world, packages[Subject(h)].dir)
             /\ packages[Subject(h + 1)].dir \in Needs(world, packages[Subject(h)].dir)
  <2>1. h \in 1 .. Len(load) /\ h \in 1 .. Len(load) - 1
    BY <1>0
  <2>2. PICK i : i = Subject(h)
    OBVIOUS
  <2>3. i \in 1 .. Len(packages)
    BY <2>1, <2>2 DEF PointersKnown, Known, Subject
  <2>4. /\ Awaited(i) \in 1 .. Len(packages[i].imports)
        /\ packages[Subject(h + 1)].dir =
              ResolveImport(world, packages[i].dir, packages[i].imports[Awaited(i)])
    BY <2>1, <2>2 DEF CallsWait
  <2> QED BY <2>2, <2>3, <2>4, NeedsOf
<1>2. Needs(world, packages[Subject(k)].dir) \subseteq all
  BY <1>0, ClosureHas
<1>3. \A d \in all : HasSource(world, d) => Needs(world, d) \subseteq all
  BY <1>0, ClosureClosed
<1> HIDE DEF all
<1>4. T = {}
  <2> SUFFICES ASSUME T # {} PROVE FALSE
    OBVIOUS
  <2>1. T \subseteq Nat
    BY <1>0
  <2>2. PICK h \in T : \A g \in T : h <= g
    BY <2>1, LeastNumber
  <2>3. /\ h \in Nat /\ h - 1 \in k .. Len(load) - 1 /\ (h - 1) + 1 = h /\ ~(h <= h - 1)
        /\ h - 1 = k \/ h - 1 \in k + 1 .. Len(load)
    <3>1. h \in k + 1 .. Len(load)
      BY <2>2
    <3> QED BY ONLY <1>0, <3>1
  <2>4. /\ HasSource(world, packages[Subject(h - 1)].dir)
        /\ packages[Subject(h)].dir \in Needs(world, packages[Subject(h - 1)].dir)
    BY <1>1, <2>3
  <2>5. CASE h - 1 = k
    BY <1>2, <2>2, <2>4, <2>5
  <2>6. CASE h - 1 \in k + 1 .. Len(load)
    <3>1. h - 1 \notin T
      BY <2>2, <2>3
    <3>2. packages[Subject(h - 1)].dir \in all
      BY <2>6, <3>1
    <3> QED BY <1>3, <2>2, <2>4, <3>2
  <2> QED BY <2>3, <2>5, <2>6
<1> QED BY <1>4 DEF all

\* A package whose loading waits for itself.
LEMMA CycleFound ==
    ASSUME PkgInv, Entered, CycleDetected
    PROVE  Cyclic(world)
<1>0. /\ TypeOK /\ LoadInv /\ PointersKnown /\ CallsWait /\ IsWorld(world) /\ IsFiniteSet(world.tree)
  BY WorldClosure DEF PkgInv, LoadInv
<1>1. PICK dir \in Wanted : \E i \in FindPackageByDir(dir) : ~packages[i].loaded
  BY DEF CycleDetected
<1>2. PICK i \in 1 .. Len(packages) : packages[i].dir = dir /\ ~packages[i].loaded
  BY <1>0, <1>1 DEF FindPackageByDir, TypeOK
<1>3. phase = "load"
  BY <1>0, WantedNext
<1>4. PICK k \in 1 .. Len(load) : Subject(k) = i
  BY <1>0, <1>2, <1>3 DEF CallsWait
<1>5. PICK c : c = Len(load)
  OBVIOUS
<1>6. load # << >> /\ c \in 1 .. Len(load) /\ c \in Nat /\ k \in 1 .. c
  BY <1>0, <1>4, <1>5 DEF TypeOK
<1>7. PICK s : s = Subject(c)
  OBVIOUS
<1>8. s \in 1 .. Len(packages)
  BY <1>0, <1>6, <1>7 DEF PointersKnown, Known, Subject
<1>9. dir \in Needed(world) /\ dir \in Needs(world, packages[s].dir)
  BY <1>5, <1>6, <1>7, WantedNeeded
<1>10. HasSource(world, dir) /\ HasSource(world, packages[s].dir)
  BY <1>0, <1>2, <1>8, NeedsOf
<1>11. dir \in Closure(world, Needs(world, dir))
  <2>1. CASE k = c
    <3>1. dir \in Needs(world, dir)
      BY <1>2, <1>4, <1>7, <1>9, <2>1
    <3> QED BY <1>0, <3>1, ClosureHas
  <2>2. CASE k # c
    <3>1. c \in k + 1 .. Len(load)
      BY ONLY <1>5, <1>6, <2>2
    <3>2. packages[s].dir \in Closure(world, Needs(world, dir))
      BY <1>0, <1>2, <1>4, <1>7, <3>1, CallsChain
    <3> QED BY <1>0, <1>9, <1>10, <3>2, ClosureClosed
  <2> QED BY <2>1, <2>2
<1> QED BY <1>9, <1>10, <1>11 DEF Cyclic

\* A program that is accepted has the packages it needs, and none that needs itself.
LEMMA AcceptedWhole ==
    ASSUME PkgInv, Entered, Called, phase = "check"
    PROVE  /\ ~Cyclic(world)
           /\ { packages[i].dir : i \in DOMAIN packages } = Needed(world)
           /\ \A i \in DOMAIN packages : packages[i].loaded
<1>0. /\ TypeOK /\ LoadInv /\ TargetsFit /\ PointersKnown /\ IsWorld(world) /\ IsFiniteSet(world.tree)
  BY WorldClosure DEF PkgInv, LoadInv
<1>1. DOMAIN packages = 1 .. Len(packages)
  BY <1>0 DEF TypeOK
<1>2. /\ entryPkg # << >> /\ entryPkg.index \in 1 .. Len(packages)
      /\ platformPkg # << >> /\ platformPkg.index \in 1 .. Len(packages)
      /\ \A i \in 1 .. Len(packages) : packages[i].loaded
  BY <1>0, AllLoaded DEF Known
\* What a package needs is among its targets.
<1>3. ASSUME NEW i \in 1 .. Len(packages), NEW d \in Needs(world, packages[i].dir)
      PROVE  \E n \in 1 .. Len(packages[i].targets) :
                /\ packages[i].targets[n].index \in 1 .. Len(packages)
                /\ packages[packages[i].targets[n].index].dir = d
  <2>1. PICK n \in 1 .. Len(packages[i].imports) :
           d = ResolveImport(world, packages[i].dir, packages[i].imports[n])
    BY <1>0, NeedsOf
  <2>2. Len(packages[i].targets) = Len(packages[i].imports)
    BY <1>0, <1>2 DEF TargetsFit
  <2>3. n \in 1 .. Len(packages[i].targets)
    BY <2>2
  <2>4. Bound(i, n) /\ Known(packages[i].targets[n])
    BY <1>0, <2>3 DEF TargetsFit, PointersKnown
  <2> QED BY <2>1, <2>3, <2>4 DEF Bound, Known
<1>4. { packages[i].dir : i \in DOMAIN packages } = Needed(world)
  <2> DEFINE dirs == { packages[i].dir : i \in 1 .. Len(packages) }
  <2>1. dirs \subseteq Needed(world)
    BY DEF Entered
  <2>2. {world.entry, PlatformDir(world)} \subseteq dirs
    BY <1>2 DEF Called
  <2>3. \A d \in dirs : Needs(world, d) \subseteq dirs
    BY <1>3
  <2> HIDE DEF dirs
  <2>4. Needed(world) \subseteq dirs
    BY <1>0, <2>2, <2>3, ClosureLeast DEF Needed
  <2>5. dirs = Needed(world)
    BY <2>1, <2>4
  <2> QED BY <1>1, <2>5 DEF dirs
<1>5. ~Cyclic(world)
  <2> SUFFICES ASSUME NEW d \in Needed(world), d \in Closure(world, Needs(world, d))
               PROVE  FALSE
    BY DEF Cyclic
  <2>1. PICK i \in 1 .. Len(packages) : packages[i].dir = d
    BY <1>1, <1>4
  <2>2. PICK top \in Nat, rank \in [1 .. Len(packages) -> Nat] : RankedBy(rank, top)
    BY DEF PkgInv, OrderInv, Ranked
  <2>3. PICK r : r = rank[i]
    OBVIOUS
  <2> DEFINE lower == { packages[j].dir : j \in { h \in 1 .. Len(packages) : rank[h] < r } }
  <2>4. ASSUME NEW j \in 1 .. Len(packages), rank[j] <= r
        PROVE  Needs(world, packages[j].dir) \subseteq lower
    <3> SUFFICES ASSUME NEW e \in Needs(world, packages[j].dir)
                 PROVE  e \in lower
      OBVIOUS
    <3> HIDE DEF lower
    <3>0. PICK n \in 1 .. Len(packages[j].targets) :
             /\ packages[j].targets[n].index \in 1 .. Len(packages)
             /\ packages[packages[j].targets[n].index].dir = e
      BY ONLY <1>3, j \in 1 .. Len(packages), e \in Needs(world, packages[j].dir)
    <3>1. PICK h \in 1 .. Len(packages) :
             h = packages[j].targets[n].index /\ packages[h].dir = e
      BY ONLY <3>0
    <3>2. rank[h] < rank[j]
      BY <1>2, <2>2, <3>1 DEF RankedBy
    <3>3. rank[h] \in Nat /\ rank[j] \in Nat /\ r \in Nat
      BY <2>2, <2>3
    <3>4. rank[h] < r
      <4>1. PICK a, b : a = rank[h] /\ b = rank[j]
        OBVIOUS
      <4>2. a \in Nat /\ b \in Nat /\ r \in Nat /\ a < b /\ b <= r
        BY <2>4, <3>2, <3>3, <4>1
      <4>3. a < r
        BY ONLY <4>2
      <4> QED BY <4>1, <4>3
    <3> QED BY <3>1, <3>4 DEF lower
  <2>5. Needs(world, d) \subseteq lower
    <3>1. rank[i] <= r
      BY <2>2, <2>3
    <3> HIDE DEF lower
    <3> QED BY <2>1, <2>4, <3>1
  <2>6. \A e \in lower : Needs(world, e) \subseteq lower
    <3> SUFFICES ASSUME NEW e \in lower
                 PROVE  Needs(world, e) \subseteq lower
      OBVIOUS
    <3>1. PICK j \in 1 .. Len(packages) : packages[j].dir = e /\ rank[j] < r
      OBVIOUS
    <3>2. rank[j] <= r
      <4>1. rank[j] \in Nat /\ r \in Nat
        BY <2>2, <2>3
      <4> QED BY <3>1, <4>1
    <3> HIDE DEF lower
    <3> QED BY <2>4, <3>1, <3>2
  <2>7. d \in lower
    <3> HIDE DEF lower
    <3> QED BY <1>0, <2>5, <2>6, ClosureLeast
  <2>8. PICK j \in 1 .. Len(packages) : packages[j].dir = d /\ rank[j] < r
    BY <2>7
  <2>9. j = i
    BY <2>1, <2>8 DEF Entered
  <2> QED BY <2>2, <2>3, <2>8, <2>9
<1> QED BY <1>1, <1>2, <1>4, <1>5

-----------------------------------------------------------------------------
(* Every step keeps it.                                                    *)

\* Packages keep their directories and imports.
LEMMA EnteredKept ==
    ASSUME Entered, Len(packages) \in Nat, world' = world, packages' \in Seq(Package),
           packages \in Seq(Package), Len(packages') = Len(packages),
           \A j \in 1 .. Len(packages) : /\ packages'[j].dir = packages[j].dir
                                         /\ packages'[j].imports = packages[j].imports
    PROVE  Entered'
<1>1. packages' # << >> => packages'[1].dir = world.entry
  BY DEF Entered
<1>2. ASSUME NEW i \in 1 .. Len(packages)
      PROVE  packages'[i].dir \in Needed(world) /\ Sourced(i)'
  <2>1. packages[i].dir \in Needed(world) /\ Sourced(i)
    BY DEF Entered
  <2> QED BY <2>1 DEF Sourced
<1>3. \A i, j \in 1 .. Len(packages) : packages'[i].dir = packages'[j].dir => i = j
  BY DEF Entered
<1> QED BY <1>1, <1>2, <1>3 DEF Entered

\* The loader's tables are left alone.
LEMMA LoaderKept ==
    ASSUME TypeOK, Entered, Called,
           UNCHANGED <<world, packages, load, entryPkg, platformPkg>>
    PROVE  Entered' /\ Called'
<1>1. Entered'
  BY EnteredKept DEF TypeOK
<1> QED BY <1>1 DEF Called, Subject

\* A package of the directory that was wanted is delivered.
LEMMA DeliveredFits ==
    ASSUME PkgInv, Entered, Called, NEW pkgs \in Seq(Package), Len(pkgs) = Len(packages),
           \A j \in 1 .. Len(packages) : /\ pkgs[j].dir = packages[j].dir
                                         /\ pkgs[j].imports = packages[j].imports,
           NEW p \in PackagePointer, Known(p), NEW callers \in Seq(LoadCall),
           Len(callers) <= Len(load), \A k \in 1 .. Len(callers) : callers[k] = load[k],
           callers = << >> =>
              packages[p.index].dir = IF entryPkg = << >> THEN world.entry ELSE PlatformDir(world),
           Deliver(pkgs, p, callers), UNCHANGED <<world, table>>
    PROVE  Entered' /\ Called'
<1>0. TypeOK /\ PointersKnown /\ Len(load) \in Nat /\ Len(callers) \in Nat
  BY DEF PkgInv, LoadInv, TypeOK
<1>1. ASSUME NEW k \in 1 .. Len(callers)
      PROVE  /\ k \in 1 .. Len(load) /\ callers[k].own.index \in 1 .. Len(packages)
             /\ callers[k].pkg.index = callers[k].own.index
  <2>1. k \in 1 .. Len(load)
    BY <1>0
  <2> QED BY <1>0, <2>1 DEF PointersKnown, Known
<1>2. /\ packages' \in Seq(Package) /\ Len(packages') = Len(packages)
      /\ \A j \in 1 .. Len(packages) :
            packages'[j].dir = pkgs[j].dir /\ packages'[j].imports = pkgs[j].imports
      /\ load' \in Seq(LoadCall) /\ Len(load') = Len(callers)
      /\ \A k \in 1 .. Len(callers) : load'[k].own = callers[k].own
      /\ callers # << >> => UNCHANGED <<entryPkg, platformPkg>>
  BY <1>0, <1>1, Delivered
<1>3. \A j \in 1 .. Len(packages) : packages'[j].dir = packages[j].dir
  BY <1>2
<1>4. Entered'
  <2>1. packages \in Seq(Package) /\ Len(packages) \in Nat
    BY <1>0 DEF TypeOK
  <2> QED BY <1>2, <2>1, EnteredKept
<1>5. CASE callers # << >>
  <2>1. 1 \in 1 .. Len(callers) /\ 1 \in 1 .. Len(load) /\ load # << >>
    BY <1>0, <1>1, <1>5
  <2>2. Subject(1)' = Subject(1) /\ Subject(1) \in 1 .. Len(packages)
    BY <1>1, <1>2, <2>1 DEF Subject
  <2>3. packages'[Subject(1)'].dir = IF entryPkg' = << >> THEN world'.entry ELSE PlatformDir(world')
    BY <1>2, <1>3, <1>5, <2>1, <2>2 DEF Called
  <2>4. /\ entryPkg' # << >> => packages'[entryPkg'.index].dir = world'.entry
        /\ platformPkg' # << >> => packages'[platformPkg'.index].dir = PlatformDir(world')
    BY <1>0, <1>2, <1>3, <1>5 DEF Called, PointersKnown, Known
  <2> QED BY <1>4, <2>3, <2>4 DEF Called
<1>6. CASE callers = << >>
  <2>1. load' = << >> /\ packages' = pkgs
    BY <1>6 DEF Deliver
  <2>2. p.index \in 1 .. Len(packages) /\ p # << >>
    BY PointerIsSome DEF Known
  <2>3. CASE entryPkg = << >>
    <3>1. entryPkg' = p /\ platformPkg' = platformPkg
      BY <1>6, <2>3 DEF Deliver
    <3>2. packages'[p.index].dir = world.entry
      BY <1>3, <1>6, <2>2, <2>3
    <3>3. platformPkg # << >> => packages'[platformPkg.index].dir = PlatformDir(world)
      BY <1>0, <1>3 DEF Called, PointersKnown, Known
    <3> QED BY <1>4, <2>1, <3>1, <3>2, <3>3 DEF Called
  <2>4. CASE entryPkg # << >>
    <3>1. entryPkg' = entryPkg /\ platformPkg' = p
      BY <1>6, <2>4 DEF Deliver
    <3>2. packages'[p.index].dir = PlatformDir(world)
      BY <1>3, <1>6, <2>2, <2>4
    <3>3. packages'[entryPkg.index].dir = world.entry
      BY <1>0, <1>3, <2>4 DEF Called, PointersKnown, Known
    <3> QED BY <1>4, <2>1, <3>1, <3>2, <3>3 DEF Called
  <2> QED BY <2>3, <2>4
<1> QED BY <1>5, <1>6

\* A package that is there already is delivered.
LEMMA ReuseFits ==
    ASSUME PkgInv, Entered, Called, Reuse
    PROVE  Entered' /\ Called' /\ error' = error /\ world' = world
<1>0. TypeOK
  BY DEF PkgInv, LoadInv
<1>1. PICK dir \in Wanted : \E i \in FindPackageByDir(dir) :
         Deliver(packages, Pointer(i), load) /\ UNCHANGED <<world, cap, table>>
  BY DEF Reuse
<1>2. PICK i \in 1 .. Len(packages) :
         /\ packages[i].dir = dir /\ Deliver(packages, Pointer(i), load)
         /\ UNCHANGED <<world, cap, table>>
  BY <1>0, <1>1 DEF FindPackageByDir, TypeOK
<1>3. PICK p : p = Pointer(i)
  OBVIOUS
<1>4. p \in PackagePointer /\ p.index = i /\ Known(p) /\ packages \in Seq(Package)
      /\ load \in Seq(LoadCall) /\ Len(load) <= Len(load)
  BY <1>0, <1>3 DEF Pointer, PackagePointer, Known, TypeOK
<1>5. load = << >> => packages[p.index].dir = IF entryPkg = << >> THEN world.entry ELSE PlatformDir(world)
  BY <1>2, <1>4, WantedNeeded
<1>6. Deliver(packages, p, load) /\ UNCHANGED <<world, table>>
  BY <1>2, <1>3
<1>7. error' = error
  BY <1>6 DEF Deliver, Go
<1>8. Entered' /\ Called'
  BY <1>4, <1>5, <1>6, DeliveredFits
<1> QED BY <1>6, <1>7, <1>8

\* A package whose imports are bound is delivered.
LEMMA FinishFits ==
    ASSUME PkgInv, Entered, Called, FinishPackage
    PROVE  Entered' /\ Called' /\ error' = error /\ world' = world
<1>0. TypeOK /\ PointersKnown /\ packages \in Seq(Package) /\ load \in Seq(LoadCall)
  BY DEF PkgInv, LoadInv, TypeOK
<1>1. load # << >>
  BY DEF FinishPackage, ImportsLoaded
<1>2. PICK c, s, p, pkgs, callers :
         /\ c = Len(load) /\ s = Subject(c) /\ p = load[c].own
         /\ pkgs = [packages EXCEPT ![s].loaded = TRUE] /\ callers = Front(load)
  OBVIOUS
<1>3. c \in Nat /\ c # 0 /\ c \in 1 .. Len(load) /\ Top = load[c]
  BY <1>0, <1>1, <1>2 DEF Top, Last
<1>4. /\ load[c].pkg.index = s /\ p.index = s /\ Known(p) /\ s \in 1 .. Len(packages)
      /\ p \in PackagePointer
  <2>1. load[c] \in LoadCall
    BY <1>0, <1>3
  <2> QED BY <1>0, <1>2, <1>3, <2>1 DEF PointersKnown, Known, Subject, LoadCall
<1>5. Deliver(pkgs, p, callers) /\ UNCHANGED <<world, table>>
  BY <1>2, <1>3, <1>4 DEF FinishPackage
<1>6. /\ pkgs \in Seq(Package) /\ Len(pkgs) = Len(packages)
      /\ \A j \in 1 .. Len(packages) : pkgs[j].dir = packages[j].dir /\ pkgs[j].imports = packages[j].imports
  <2> DEFINE done == [packages[s] EXCEPT !.loaded = TRUE]
  <2>1. packages[s] \in Package
    BY <1>0, <1>4
  <2>2. done \in Package /\ done.dir = packages[s].dir /\ done.imports = packages[s].imports
    BY <2>1 DEF Package
  <2>3. pkgs = [packages EXCEPT ![s] = done]
    BY <1>2
  <2> HIDE DEF done
  <2>4. /\ pkgs \in Seq(Package) /\ Len(pkgs) = Len(packages) /\ pkgs[s] = done
        /\ \A j \in 1 .. Len(packages) : j # s => pkgs[j] = packages[j]
    BY <1>0, <1>4, <2>2, <2>3
  <2> QED BY <2>2, <2>4
<1>7. /\ callers \in Seq(LoadCall) /\ Len(callers) = c - 1 /\ \A k \in 1 .. c - 1 : callers[k] = load[k]
  BY <1>0, <1>1, <1>2, FrontFacts
<1>8. Len(callers) <= Len(load) /\ \A k \in 1 .. Len(callers) : callers[k] = load[k]
  BY <1>2, <1>3, <1>7
<1>9. callers = << >> => packages[p.index].dir = IF entryPkg = << >> THEN world.entry ELSE PlatformDir(world)
  <2> HAVE callers = << >>
  <2>1. c = 1
    <3>1. Len(callers) = 0
      OBVIOUS
    <3> QED BY <1>3, <1>7, <3>1
  <2> QED BY <1>1, <1>2, <1>4, <2>1 DEF Called
<1>10. error' = error
  BY <1>5 DEF Deliver, Go
<1>11. Entered' /\ Called'
  BY <1>4, <1>5, <1>6, <1>7, <1>8, <1>9, DeliveredFits
<1> QED BY <1>5, <1>10, <1>11

\* A needed package that is not there is entered.
LEMMA EnterFits ==
    ASSUME PkgInv, Entered, Called, NEW dir \in Directory, NEW written \in Seq(Path),
           Enter(dir, ImportsOf(dir, written)), dir \in Needed(world),
           \A i \in 1 .. Len(packages) : packages[i].dir # dir,
           HasSource(world, dir),
           written = IF world.single /\ dir = world.entry THEN world.entryImports ELSE world.imports[dir],
           packages = << >> => dir = world.entry,
           load = << >> => dir = IF entryPkg = << >> THEN world.entry ELSE PlatformDir(world)
    PROVE  Entered' /\ Called' /\ error' = error /\ world' = world
<1>0. TypeOK /\ PointersKnown
  BY DEF PkgInv, LoadInv
<1>1. PICK n, new, imports : /\ n = Len(packages) + 1 /\ new = [table |-> table', index |-> n]
                             /\ imports = ImportsOf(dir, written)
  OBVIOUS
<1>2. /\ packages' = Append(packages, NewPackage(dir, imports))
      /\ load' = Append(load, [pkg |-> new, own |-> new])
      /\ UNCHANGED <<world, entryPkg, platformPkg, phase, error>>
  BY <1>1 DEF Enter
<1>3. imports \in Seq(ImportPath)
  BY <1>1, ImportsType
<1>4. /\ packages' \in Seq(Package) /\ Len(packages) \in Nat /\ Len(packages') = n
      /\ \A i \in 1 .. Len(packages) : packages'[i] = packages[i]
      /\ packages'[n].dir = dir /\ packages'[n].imports = imports
  BY <1>0, <1>1, <1>2, <1>3, PackageAdded
<1>5. \A i \in 1 .. Len(packages') : i = n \/ i \in 1 .. Len(packages)
  BY <1>1, <1>4
<1>6. Entered'
  <2>1. packages'[1].dir = world.entry
    <3>1. CASE packages = << >>
      <4>1. n = 1
        BY <1>1, <3>1
      <4> QED BY <1>4, <3>1, <4>1
    <3>2. CASE packages # << >>
      <4>1. 1 \in 1 .. Len(packages)
        BY <1>0, <3>2 DEF TypeOK
      <4> QED BY <1>4, <3>2, <4>1 DEF Entered
    <3> QED BY <3>1, <3>2
  <2>2. ASSUME NEW i \in 1 .. Len(packages'), NEW j \in 1 .. Len(packages'), packages'[i].dir = packages'[j].dir
        PROVE  i = j
    <3>1. CASE i = n /\ j = n
      BY <3>1
    <3>2. CASE i \in 1 .. Len(packages) /\ j \in 1 .. Len(packages)
      BY <1>4, <2>2, <3>2 DEF Entered
    <3>3. CASE i = n /\ j \in 1 .. Len(packages)
      BY <1>4, <2>2, <3>3
    <3>4. CASE i \in 1 .. Len(packages) /\ j = n
      BY <1>4, <2>2, <3>4
    <3> QED BY <1>5, <3>1, <3>2, <3>3, <3>4
  <2>3. ASSUME NEW i \in 1 .. Len(packages')
        PROVE  packages'[i].dir \in Needed(world) /\ Sourced(i)'
    <3>1. CASE i = n
      <4>1. packages'[i].dir = dir /\ packages'[i].imports = ImportsOf(dir, written)
        BY <1>1, <1>4, <3>1
      <4> QED BY <1>2, <4>1 DEF Sourced
    <3>2. CASE i \in 1 .. Len(packages)
      <4>1. packages[i].dir \in Needed(world) /\ Sourced(i) /\ packages'[i] = packages[i]
        BY <1>4, <3>2 DEF Entered
      <4> QED BY <1>2, <4>1 DEF Sourced
    <3> QED BY <1>5, <3>1, <3>2
  <2> QED BY <1>2, <2>1, <2>2, <2>3 DEF Entered
<1>7. Called'
  <2>1. packages'[Subject(1)'].dir = IF entryPkg = << >> THEN world.entry ELSE PlatformDir(world)
    <3>1. CASE load = << >>
      <4>1. load' = <<[pkg |-> new, own |-> new]>>
        BY <1>2, <3>1
      <4>2. Subject(1)' = n
        BY <1>1, <4>1 DEF Subject
      <4> QED BY <1>4, <3>1, <4>2
    <3>2. CASE load # << >>
      <4>1. load'[1] = load[1] /\ 1 \in 1 .. Len(load)
        <5>1. load \in Seq(LoadCall) /\ Len(load) \in Nat /\ Len(load) # 0
          BY <1>0, <3>2 DEF TypeOK
        <5> QED BY <1>2, <5>1
      <4>2. Subject(1)' = Subject(1) /\ Subject(1) \in 1 .. Len(packages)
        BY <1>0, <4>1 DEF Subject, PointersKnown, Known
      <4> QED BY <1>4, <3>2, <4>2 DEF Called
    <3> QED BY <3>1, <3>2
  <2>2. /\ entryPkg # << >> => packages'[entryPkg.index].dir = world.entry
        /\ platformPkg # << >> => packages'[platformPkg.index].dir = PlatformDir(world)
    BY <1>0, <1>4 DEF Called, PointersKnown, Known
  <2> QED BY <1>2, <2>1, <2>2 DEF Called
<1> QED BY <1>2, <1>6, <1>7

\* A package is entered for a directory or for files.
LEMMA StartFits ==
    ASSUME PkgInv, Entered, Called, StartPackage \/ StartFiles
    PROVE  Entered' /\ Called' /\ error' = error /\ world' = world
<1>0. /\ TypeOK /\ PointersKnown /\ IsWorld(world) /\ IsFiniteSet(world.tree)
      /\ packages \in Seq(Package) /\ DOMAIN packages = 1 .. Len(packages)
  BY WorldClosure DEF PkgInv, LoadInv, TypeOK
<1>1. /\ world.tree \subseteq Directory /\ world.entry \in world.tree
      /\ DOMAIN world.imports \subseteq world.tree
      /\ \A d \in DOMAIN world.imports : world.imports[d] \in Seq(Path)
      /\ world.entryImports \in Seq(Path)
  BY <1>0, WorldFacts DEF TypeOK
\* Nothing points into an empty table.
<1>2. packages = << >> => load = << >> /\ entryPkg = << >>
  <2> HAVE packages = << >>
  <2>1. Len(packages) = 0
    OBVIOUS
  <2>2. \A p : ~Known(p)
    BY <2>1 DEF Known
  <2>3. load \in Seq(LoadCall) /\ (load # << >> => 1 \in 1 .. Len(load))
    BY <1>0 DEF TypeOK
  <2> QED BY <1>0, <2>2, <2>3 DEF PointersKnown
<1>3. CASE StartPackage
  <2>1. PICK dir \in Wanted \cap DOMAIN world.imports :
           /\ FindPackageByDir(dir) = {} /\ Enter(dir, ImportsOf(dir, world.imports[dir]))
    BY <1>3 DEF StartPackage
  <2>2. \A i \in 1 .. Len(packages) : packages[i].dir # dir
    BY <1>0, <2>1 DEF FindPackageByDir
  <2>3. /\ dir \in Needed(world)
        /\ load = << >> => dir = IF entryPkg = << >> THEN world.entry ELSE PlatformDir(world)
    BY WantedNeeded
  <2>4. packages = << >> => dir = world.entry
    BY <1>2, <2>3
  <2>5. ~(world.single /\ dir = world.entry)
    <3> SUFFICES ASSUME world.single, dir = world.entry PROVE FALSE
      OBVIOUS
    <3>1. load # << >> \/ entryPkg # << >>
      BY DEF Wanted
    <3>2. packages # << >>
      <4>1. entryPkg # << >> => Known(entryPkg)
        BY <1>0 DEF PointersKnown
      <4>2. load # << >> => Known(load[1].own)
        BY <1>0 DEF PointersKnown, TypeOK
      <4>3. packages = << >> => \A p : ~Known(p)
        BY DEF Known
      <4> QED BY <3>1, <4>1, <4>2, <4>3
    <3>3. 1 \in 1 .. Len(packages) /\ packages[1].dir = world.entry
      BY <1>0, <3>2 DEF Entered
    <3> QED BY <2>2, <3>3
  <2>6. dir \in Directory /\ HasSource(world, dir) /\ world.imports[dir] \in Seq(Path)
    BY <1>1 DEF HasSource
  <2>7. world.imports[dir] = IF world.single /\ dir = world.entry THEN world.entryImports ELSE world.imports[dir]
    BY <2>5
  <2> QED BY <2>1, <2>2, <2>3, <2>4, <2>6, <2>7, EnterFits
<1>4. CASE StartFiles
  <2>1. packages = << >> /\ world.single /\ Enter(world.entry, ImportsOf(world.entry, world.entryImports))
    BY <1>4 DEF StartFiles
  <2>2. world.entry \in Needed(world)
    BY <1>0, ClosureHas DEF Needed
  <2>3. world.entry \in Directory /\ HasSource(world, world.entry)
    BY <1>1, <2>1 DEF HasSource
  <2>4. \A i \in 1 .. Len(packages) : packages[i].dir # world.entry
    BY <2>1
  <2> QED BY <1>1, <1>2, <2>1, <2>2, <2>3, <2>4, EnterFits
<1> QED BY <1>3, <1>4

\* Checking gives up or leaves packages and imports as they are.
LEMMA CheckFits ==
    ASSUME PkgInv, Entered, Called, Check
    PROVE  GivenUp' \/ (Entered' /\ Called')
<1>0. /\ TypeOK /\ PointersKnown /\ packages \in Seq(Package) /\ Len(packages) \in Nat
      /\ DOMAIN packages = 1 .. Len(packages)
  BY DEF PkgInv, LoadInv, TypeOK
<1>1. UNCHANGED <<world, load, entryPkg, platformPkg>> /\ phase = "check"
  BY DEF Check
<1>2. PICK i \in 1 .. Len(packages) :
         \/ Undefined \/ Give("types")
         \/ packages' = [packages EXCEPT ![i].checked = TRUE] /\ Go("check")
  BY <1>0 DEF Check
<1>3. CASE Undefined \/ Give("types")
  BY <1>3 DEF Undefined, Give, GivenUp
<1>4. CASE packages' = [packages EXCEPT ![i].checked = TRUE] /\ Go("check")
  <2> DEFINE done == [packages[i] EXCEPT !.checked = TRUE]
  <2>1. packages[i] \in Package
    BY <1>0
  <2>2. done \in Package /\ done.dir = packages[i].dir /\ done.imports = packages[i].imports
    BY <2>1 DEF Package
  <2>3. packages' = [packages EXCEPT ![i] = done]
    BY <1>4
  <2> HIDE DEF done
  <2>4. /\ packages' \in Seq(Package) /\ Len(packages') = Len(packages) /\ packages'[i] = done
        /\ \A j \in 1 .. Len(packages) : j # i => packages'[j] = packages[j]
    BY <1>0, <2>2, <2>3
  <2>5. \A j \in 1 .. Len(packages) : packages'[j].dir = packages[j].dir
                                      /\ packages'[j].imports = packages[j].imports
    BY <2>2, <2>4
  <2>6. Entered'
    BY <1>0, <1>1, <2>4, <2>5, EnteredKept
  <2>7. Called'
    <3>1. load = << >> /\ load' = << >>
      BY <1>1 DEF PkgInv, LoadInv, PhaseFits
    <3> QED BY <1>0, <1>1, <2>5, <3>1 DEF Called, PointersKnown, Known
  <2> QED BY <2>6, <2>7
<1> QED BY <1>2, <1>3, <1>4

\* The other steps that change no package.
LEMMA OrderFitsGraph ==
    ASSUME PkgInv, Entered, Called, StartOrder \/ VisitRoot \/ VisitImport \/ VisitDone \/ Ordered
    PROVE  Entered' /\ Called'
<1>1. UNCHANGED <<world, loaderVars>>
  BY DEF StartOrder, VisitRoot, VisitImport, VisitDone, Ordered, Sorting
<1>2. TypeOK /\ UNCHANGED <<world, packages, load, entryPkg, platformPkg>>
  BY <1>1 DEF loaderVars, PkgInv, LoadInv
<1> QED BY <1>2, LoaderKept

\* Only a cycle of imports is refused as one.
LEMMA OtherReasons ==
    ASSUME [Next]_vars, ~CycleDetected
    PROVE  world' = world /\ (error' = "cycle" => error = "cycle")
<1>1. CASE Reuse
  BY <1>1 DEF Reuse, Deliver, Go
<1>2. CASE NoDirectory
  BY <1>2 DEF NoDirectory, FailLoad, Give, Undefined
<1>3. CASE StartPackage \/ StartFiles
  BY <1>3 DEF StartPackage, StartFiles, Enter
<1>4. CASE NoSource
  BY <1>4 DEF NoSource, FailLoad, Give, Undefined
<1>5. CASE RejectImports
  BY <1>5 DEF RejectImports, FailLoad, Give, Undefined
<1>6. CASE FinishPackage
  BY <1>6 DEF FinishPackage, Deliver, Go
<1>7. CASE UseStaleEntry
  BY <1>7 DEF UseStaleEntry, Undefined
<1>8. CASE Check
  BY <1>8 DEF Check, Give, Undefined, Go
<1>9. CASE StartOrder
  BY <1>9 DEF StartOrder, Give, Go
<1>10. CASE VisitRoot \/ VisitDone \/ Ordered
  BY <1>10 DEF VisitRoot, VisitDone, Ordered, Sorting, Go
<1>11. CASE VisitImport
  BY <1>11 DEF VisitImport, Sorting, Give, Go
<1>12. CASE UNCHANGED vars
  BY <1>12 DEF vars
<1> QED BY <1>1, <1>2, <1>3, <1>4, <1>5, <1>6, <1>7, <1>8, <1>9, <1>10, <1>11, <1>12
        DEF Next, Load, Order, Stopped

\* Nothing is entered at first.
LEMMA GraphInit ==
    ASSUME Init
    PROVE  GraphInv
<1>1. packages = << >> /\ load = << >> /\ entryPkg = << >> /\ platformPkg = << >> /\ error = ""
  BY DEF Init
<1>2. \A i : i \notin 1 .. Len(packages)
  <2>1. Len(<< >>) = 0 /\ \A i : i \notin 1 .. 0
    OBVIOUS
  <2> QED BY <1>1, <2>1
<1>3. Entered
  BY <1>1, <1>2 DEF Entered
<1>4. Called
  BY <1>1 DEF Called
<1>5. CycleFits
  BY <1>1 DEF CycleFits
<1> QED BY <1>3, <1>4, <1>5 DEF GraphInv

\* Every step keeps the graph as it is in the files.
LEMMA GraphNext ==
    ASSUME PkgInv, GraphInv, [Next]_vars
    PROVE  GraphInv'
<1>1. CycleFits'
  <2>1. CASE CycleDetected
    <3>1. ~GivenUp
      <4>1. PICK dir : dir \in Wanted
        BY <2>1 DEF CycleDetected
      <4>2. phase = "load"
        BY <4>1, WantedNext DEF PkgInv
      <4> QED BY <4>2 DEF GivenUp
    <3>2. Cyclic(world)
      BY <2>1, <3>1, CycleFound DEF GraphInv
    <3>3. world' = world
      BY <2>1 DEF CycleDetected
    <3> QED BY <3>2, <3>3 DEF CycleFits
  <2>2. CASE ~CycleDetected
    BY <2>2, OtherReasons DEF GraphInv, CycleFits
  <2> QED BY <2>1, <2>2
<1>2. GivenUp' \/ (Entered' /\ Called')
  <2>1. CASE GivenUp
    <3>1. phase' = phase
      <4>1. \A dir : dir \notin Wanted
        BY <2>1 DEF Wanted, GivenUp
      <4>2. ~(Reuse \/ CycleDetected \/ NoDirectory \/ StartPackage)
        BY <4>1 DEF Reuse, CycleDetected, NoDirectory, StartPackage
      <4>3. ~(StartFiles \/ RejectImports \/ FinishPackage \/ UseStaleEntry \/ NoSource)
        BY <2>1, <4>1 DEF GivenUp, StartFiles, RejectImports, FinishPackage, ImportsLoaded,
           UseStaleEntry, NoSource
      <4>4. ~Check /\ ~Order
        BY <2>1 DEF GivenUp, Check, Order, StartOrder, VisitRoot, VisitImport, VisitDone, Ordered, Sorting
      <4> QED BY <4>2, <4>3, <4>4 DEF Next, Load, Stopped, vars
    <3> QED BY <2>1, <3>1 DEF GivenUp
  <2>2. CASE Entered /\ Called
    <3>1. CASE Reuse
      BY <2>2, <3>1, ReuseFits
    <3>2. CASE CycleDetected \/ NoDirectory \/ RejectImports \/ UseStaleEntry
      BY <3>2, LoadGivesUp DEF PkgInv, GivesUp, GivenUp
    <3>3. CASE StartPackage \/ StartFiles
      BY <2>2, <3>3, StartFits
    <3>4. CASE NoSource
      BY <3>4 DEF NoSource, FailLoad, Give, Undefined, GivenUp
    <3>5. CASE FinishPackage
      BY <2>2, <3>5, FinishFits
    <3>6. CASE Check
      BY <2>2, <3>6, CheckFits
    <3>7. CASE StartOrder \/ VisitRoot \/ VisitImport \/ VisitDone \/ Ordered
      BY <2>2, <3>7, OrderFitsGraph
    <3>8. CASE UNCHANGED vars
      BY <2>2, <3>8, LoaderKept DEF vars, PkgInv, LoadInv
    <3> QED BY <3>1, <3>2, <3>3, <3>4, <3>5, <3>6, <3>7, <3>8 DEF Next, Load, Order, Stopped
  <2> QED BY <2>1, <2>2 DEF GraphInv
<1> QED BY <1>1, <1>2 DEF GraphInv

\* docs/language.md:756 "Import cycles are invalid": LoadPackageRecursive refuses a
\* program as cyclic only if a package needs itself, and what it accepts has every
\* package that is needed, no other, and no cycle.
THEOREM CyclesAreRefused == Spec => []CyclesRefused
<1>1. Init => PkgInv /\ GraphInv
  BY InitInv, GraphInit
<1>2. PkgInv /\ GraphInv /\ [Next]_vars => (PkgInv /\ GraphInv)'
  BY NextInv, GraphNext
<1>3. PkgInv /\ GraphInv => CyclesRefused
  <2> SUFFICES ASSUME PkgInv, GraphInv
               PROVE  CyclesRefused
    OBVIOUS
  <2>1. error = "cycle" => Cyclic(world)
    BY DEF GraphInv, CycleFits
  <2>2. phase = "check" => /\ ~Cyclic(world)
                           /\ { packages[i].dir : i \in DOMAIN packages } = Needed(world)
                           /\ \A i \in DOMAIN packages : packages[i].loaded
    BY AcceptedWhole DEF GraphInv, GivenUp
  <2> QED BY <2>1, <2>2 DEF CyclesRefused
<1> QED BY <1>1, <1>2, <1>3, PTL DEF Spec
=============================================================================
