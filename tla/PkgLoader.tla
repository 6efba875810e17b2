----------------------------- MODULE PkgLoader -----------------------------
(***************************************************************************)
(* The package loader (src/src/hop_pkg.c) and the package orders computed  *)
(* from what it loaded (src/src/hop_codegen.c, src/src/hop_mir.c).         *)
(*                                                                         *)
(* A package is found by its directory, entered in the loader's table in   *)
(* state "loading", and its imports are loaded one by one, depth first;    *)
(* the recursion of LoadPackageRecursive is the stack "load".  The table   *)
(* is a C array that moves when it grows while pointers into it are held   *)
(* by the recursion and by the imports already resolved, so a pointer is   *)
(* an index together with the table it points into.                        *)
(***************************************************************************)
EXTENDS Naturals, Sequences, SequencesExt, FiniteSetsExt

CONSTANTS
    Worlds,     \* the file systems and command lines loaded from
    TableCap    \* the table's first capacity, 256 in AddPackageSlot

(***************************************************************************)
(* A world: directories are sequences of names, tree is the set of those   *)
(* that exist and imports gives, for those with source files, the paths    *)
(* their files import.  The command line names the directory "entry" or    *)
(* files of it (single), which import entryImports.                        *)
(***************************************************************************)
Directory == Seq(STRING)
Path == Directory \ { << >> }

IsWorld(w) ==
    /\ w.tree \subseteq Directory /\ IsFiniteSet(w.tree)
    /\ w.imports \in [DOMAIN w.imports -> Seq(Path)] /\ w.entryImports \in Seq(Path)
    /\ w.entry # << >> /\ w.single \in BOOLEAN
    /\ DOMAIN w.imports \cup {w.entry} \subseteq w.tree
    /\ w.broken \subseteq w.tree      \* their files do not parse
    /\ w.invalid \subseteq w.tree     \* what they import or export is refused

ASSUME WorldsAssumption == TableCap \in Nat \ {0} /\ \A w \in Worlds : IsWorld(w)

VARIABLES
    world,
    packages,   \* the table: [dir, imports, targets, loaded, checked]
    cap,        \* its capacity
    table,      \* which table it is: how often it has moved
    load,       \* the calls of LoadPackageRecursive, outermost first
    phase,
    error,      \* why the compiler gave up
    entryPkg,   \* a pointer, << >> before the entry package is loaded
    platformPkg,
    order,      \* indices of packages, dependencies first
    visit,      \* the calls of the depth-first visit that computes it
    roots,      \* the packages still to visit from
    sort        \* the order wanted: [all, builtin, platform]

vars == <<world, packages, cap, table, load, phase, error, entryPkg, platformPkg,
          order, visit, roots, sort>>
loaderVars == <<packages, cap, table, load, entryPkg, platformPkg>>
orderVars == <<order, visit, roots, sort>>

-----------------------------------------------------------------------------
(* Where an import path leads.                                             *)

Parent(dir) == IF dir = << >> THEN dir ELSE Front(dir)

\* Every entry mode makes the parent of the entry directory the loader's root.
RootDir(w) == Parent(w.entry)

IsLibImportPath(path) ==
    \/ Head(path) \in {"builtin", "mem", "platform", "compiler", "playbit", "str"}
    \/ path = <<"testing">>
    \/ Head(path) = "std" /\ Len(path) > 1

LibIn(dir, path) == dir \o <<"lib">> \o path

\* ResolveLibImportDir: the nearest directory at or above dir whose lib has a
\* package at path, as a set of at most one directory.
ResolveLibImportDir(w, dir, path) ==
    LET above == { n \in 0 .. Len(dir) : LibIn(SubSeq(dir, 1, n), path) \in DOMAIN w.imports }
    IN  IF ~IsLibImportPath(path) \/ above = {} THEN {}
        ELSE { LibIn(SubSeq(dir, 1, Max(above)), path) }

LibDirs(w, dir, path) ==
    LET near == ResolveLibImportDir(w, dir, path)
    IN  IF near # {} THEN near ELSE ResolveLibImportDir(w, w.exeDir, path)

Library(w, dir, path) ==
    LET found == LibDirs(w, dir, path)
    IN  IF found = {} THEN RootDir(w) \o path ELSE CHOOSE d \in found : TRUE

\* The directory an import leads to: under the root, next to the importing
\* package, or in a library.  (The code first looks whether the path is that of
\* the platform already selected; while imports are resolved none is.)
ResolveImport(w, from, path) ==
    IF RootDir(w) \o path \in w.tree THEN RootDir(w) \o path
    ELSE IF from \o path \in w.tree THEN from \o path
    ELSE Library(w, from, path)

PlatformDir(w) ==
    LET path == <<"platform", w.platform>>
    IN  IF RootDir(w) \o path \in w.tree THEN RootDir(w) \o path
        ELSE Library(w, w.entry, path)

-----------------------------------------------------------------------------
(* The table.                                                              *)

Pointer(i) == [table |-> table, index |-> i]
Current(p) == p.table = table

IsBuiltinPackage(dir) == Last(dir) = "builtin"

\* EnsureImplicitBuiltinImport
ImportsOf(dir, written) ==
    IF IsBuiltinPackage(dir) \/ Contains(written, <<"builtin">>) THEN written
    ELSE Append(written, <<"builtin">>)

Written(w, dir, first) ==
    IF first /\ w.single THEN w.entryImports ELSE w.imports[dir]

NewPackage(dir, imports) ==
    [dir |-> dir, imports |-> imports, targets |-> << >>, loaded |-> FALSE,
     checked |-> FALSE]

\* FindPackageByDir: the package of that directory, as a set.
FindPackageByDir(dir) == { i \in DOMAIN packages : packages[i].dir = dir }

Give(reason) == phase' = "failed" /\ error' = reason
Undefined == phase' = "undefined" /\ UNCHANGED error
Go(to) == phase' = to /\ UNCHANGED error

\* The calls of the recursion return; each reports the import that failed, and
\* reads the name of its file from the package it holds.
FailLoad(reason) ==
    IF \A k \in DOMAIN load : load[k].pkg.table = table' THEN Give(reason) ELSE Undefined

\* Variant: the table starts with room for one package.
Grown_FromOne(need) == IF need <= cap THEN cap ELSE IF cap = 0 THEN 1 ELSE 2 * cap

\* EnsureCap, from a first capacity.
Grown(need) == IF need <= cap THEN cap ELSE IF cap = 0 THEN TableCap ELSE 2 * cap

\* EnsureCap and the end of AddPackageSlot: a table that grows may move.
MakeRoom(need) ==
    \E moved \in BOOLEAN :
      /\ moved => cap # 0 /\ Grown(need) # cap
      /\ table' = IF moved THEN table + 1 ELSE table
      /\ cap' = Grown(need)

-----------------------------------------------------------------------------
(* Loading.                                                                *)

Top == Last(load)
Loading == packages[Top.pkg.index]     \* the package whose imports are loaded
NextImport == Len(Loading.targets) + 1

\* The directory LoadPackageRecursive is called for next, as a set: that of the
\* entry package, of the next import, or of the platform's package at the end.
Wanted ==
    IF phase # "load" THEN {}
    ELSE IF load # << >>
    THEN IF NextImport \in DOMAIN Loading.imports
         THEN { ResolveImport(world, Loading.dir, Loading.imports[NextImport]) } ELSE {}
    ELSE IF entryPkg # << >>
    THEN IF Current(entryPkg) THEN { PlatformDir(world) } ELSE {}
    ELSE IF world.single THEN {} ELSE { world.entry }

\* A package has been loaded: its pointer goes to the import that asked for it,
\* whose own package is found again in the table, or to the loader.
Deliver(pkgs, p, callers) ==
    IF callers # << >>
    THEN LET i == Last(callers).pkg.index IN
         /\ packages' = [pkgs EXCEPT ![i].targets = Append(@, p)]
         /\ load' = [callers EXCEPT ![Len(callers)].pkg = Pointer(i)]
         /\ UNCHANGED <<entryPkg, platformPkg, phase, error>>
    ELSE /\ IF entryPkg = << >>
            THEN entryPkg' = p /\ UNCHANGED <<platformPkg, phase, error>>
            ELSE platformPkg' = p /\ Go("check") /\ UNCHANGED entryPkg
         /\ packages' = pkgs
         /\ load' = callers

\* A package of that directory is in the table and is loaded.
Reuse ==
    \E dir \in Wanted : \E i \in FindPackageByDir(dir) :
        /\ packages[i].loaded
        /\ Deliver(packages, Pointer(i), load)
        /\ UNCHANGED <<world, cap, table>> /\ UNCHANGED orderVars

\* It is in the table and its imports are being loaded.
CycleDetected ==
    \E dir \in Wanted : \E i \in FindPackageByDir(dir) :
        /\ ~packages[i].loaded
        /\ UNCHANGED <<world, loaderVars>> /\ UNCHANGED orderVars
        /\ FailLoad("cycle")

NoDirectory ==
    \E dir \in Wanted \ world.tree :
        /\ UNCHANGED <<world, loaderVars>> /\ UNCHANGED orderVars
        /\ FailLoad("path")

\* A new package is entered in the table, its files are read and parsed and
\* their imports collected.  The calls that load it keep two pointers to it.
Enter(dir, imports) ==
    LET n == Len(packages) + 1
        new == [table |-> table', index |-> n]
    IN  /\ MakeRoom(n)
        /\ packages' = Append(packages, NewPackage(dir, imports))
        /\ load' = Append(load, [pkg |-> new, own |-> new])
        /\ UNCHANGED <<world, entryPkg, platformPkg, phase, error>> /\ UNCHANGED orderVars

StartPackage ==
    \E dir \in Wanted \cap DOMAIN world.imports :
        /\ FindPackageByDir(dir) = {} /\ dir \notin world.broken
        /\ Enter(dir, ImportsOf(dir, world.imports[dir]))

\* LoadSingleFilePackage and LoadExplicitFilePackage.
StartFiles ==
    /\ phase = "load" /\ packages = << >> /\ world.single
    /\ world.entry \notin world.broken
    /\ Enter(world.entry, ImportsOf(world.entry, world.entryImports))

\* The directory has no source files, or one of them does not parse: its package
\* is in the table, and stays there unloaded.
NoSource ==
    \E dir \in world.tree :
        /\ \/ /\ dir \in Wanted /\ FindPackageByDir(dir) = {}
              /\ dir \notin DOMAIN world.imports \ world.broken
           \/ /\ phase = "load" /\ packages = << >> /\ world.single
              /\ dir = world.entry /\ dir \in world.broken
        /\ MakeRoom(Len(packages) + 1)
        /\ packages' = Append(packages, NewPackage(dir, << >>))
        /\ FailLoad("source")
        /\ UNCHANGED <<world, load, entryPkg, platformPkg>> /\ UNCHANGED orderVars

ImportsLoaded == phase = "load" /\ load # << >> /\ NextImport \notin DOMAIN Loading.imports

\* ValidateAndFinalizeImportSymbols and the checks after it.
RejectImports ==
    /\ ImportsLoaded /\ Loading.dir \in world.invalid
    /\ UNCHANGED <<world, loaderVars>> /\ UNCHANGED orderVars
    /\ FailLoad("imports")

\* Variant: a package counts as loaded as soon as it is in the table.
FinishPackage_NeverMarks ==
    /\ ImportsLoaded /\ Loading.dir \notin world.invalid
    /\ Deliver(packages, Top.own, Front(load))
    /\ UNCHANGED <<world, cap, table>> /\ UNCHANGED orderVars

\* Variant: the import is bound to the package entered last.
FinishPackage_BindsNewest ==
    /\ ImportsLoaded /\ Loading.dir \notin world.invalid
    /\ Deliver([packages EXCEPT ![Top.pkg.index].loaded = TRUE], Pointer(Len(packages)), Front(load))
    /\ UNCHANGED <<world, cap, table>> /\ UNCHANGED orderVars

\* Its imports are loaded and agree with what they name: it is loaded.
FinishPackage ==
    /\ ImportsLoaded /\ Loading.dir \notin world.invalid
    /\ Deliver([packages EXCEPT ![Top.pkg.index].loaded = TRUE], Top.own, Front(load))
    /\ UNCHANGED <<world, cap, table>> /\ UNCHANGED orderVars

\* The platform's package is looked for from the entry package's directory.
UseStaleEntry ==
    /\ phase = "load" /\ load = << >> /\ entryPkg # << >> /\ ~Current(entryPkg)
    /\ Undefined
    /\ UNCHANGED <<world, loaderVars>> /\ UNCHANGED orderVars

-----------------------------------------------------------------------------
(* Checking: the packages in the order of the table, each together with the *)
(* declarations of its imports and of theirs.                               *)

Targets(i) == ToSet(packages[i].targets)
Surface(i) == Targets(i) \cup
              UNION { Targets(p.index) : p \in { q \in Targets(i) : Current(q) } }

Check ==
    /\ phase = "check"
    /\ \E i \in DOMAIN packages :
          /\ ~packages[i].checked
          /\ \A j \in 1 .. i - 1 : packages[j].checked
          /\ IF \E p \in Surface(i) : ~Current(p)
             THEN Undefined /\ UNCHANGED packages
             ELSE \/ packages' = [packages EXCEPT ![i].checked = TRUE] /\ Go("check")
                  \/ Give("types") /\ UNCHANGED packages
    /\ UNCHANGED <<world, cap, table, load, entryPkg, platformPkg>> /\ UNCHANGED orderVars

-----------------------------------------------------------------------------
(* Orders: BuildPackageTopologicalOrder (all) visits from every package,    *)
(* BuildEntryPackageMirOrder from the entry package without the imports of  *)
(* the platform and, on demand, of the builtin package.                     *)

IsPlatformImportPath(path) == Head(path) = "platform"

Skipped(path) ==
    ~sort.all /\ \/ IsPlatformImportPath(path)
                 \/ Head(path) = "builtin" /\ ~sort.builtin

PackageUsesPlatformImport ==
    \E i \in DOMAIN packages : \E path \in ToSet(packages[i].imports) :
        IsPlatformImportPath(path)

Sorts == [all : {TRUE}, builtin : {TRUE}, platform : {FALSE}]
         \cup [all : {FALSE}, builtin : BOOLEAN, platform : BOOLEAN]

StartOrder ==
    /\ phase = "check" /\ \A i \in DOMAIN packages : packages[i].checked
    /\ sort' \in Sorts
    /\ IF sort'.all
       THEN roots' = [i \in DOMAIN packages |-> i] /\ Go("sort")
       ELSE IF ~Current(entryPkg) \/ ~Current(platformPkg)
       THEN Give("unresolved") /\ UNCHANGED roots
       ELSE /\ roots' = IF sort'.platform \/ PackageUsesPlatformImport
                        THEN <<entryPkg.index, platformPkg.index>> ELSE <<entryPkg.index>>
            /\ Go("sort")
    /\ UNCHANGED <<world, loaderVars, order, visit>>

InOrder(i) == i \in ToSet(order)

Visiting(i) == \E k \in DOMAIN visit : visit[k].pkg = i
Open(i) == [pkg |-> i, next |-> 1]
Sorting == phase = "sort" /\ UNCHANGED <<world, loaderVars, sort>>

VisitRoot ==
    /\ Sorting /\ visit = << >> /\ roots # << >>
    /\ visit' = IF InOrder(Head(roots)) THEN << >> ELSE <<Open(Head(roots))>>
    /\ roots' = Tail(roots)
    /\ UNCHANGED <<order, phase, error>>

Visited == packages[Last(visit).pkg]

\* Variant: the visit does not go on to the next import.
Seen_Again(v) == v
Seen(v) == [v EXCEPT ![Len(v)].next = @ + 1]

\* Variant: a package that is in the order is visited again.
VisitImport_Revisits ==
    /\ Sorting /\ visit # << >> /\ Last(visit).next \in DOMAIN Visited.imports
    /\ LET p    == Visited.targets[Last(visit).next]
           skip == Skipped(Visited.imports[Last(visit).next])
       IN  visit' = IF skip THEN Seen(visit) ELSE Append(Seen(visit), Open(p.index))
    /\ UNCHANGED <<order, roots, phase, error>>

\* The next import of the package visited: skipped, ordered before, or visited
\* in turn; FindPackageIndex finds no package for a pointer into an old table.
VisitImport ==
    /\ Sorting /\ visit # << >> /\ Last(visit).next \in DOMAIN Visited.imports
    /\ LET p    == Visited.targets[Last(visit).next]
           skip == Skipped(Visited.imports[Last(visit).next])
       IN  IF ~skip /\ ~Current(p) THEN Give("unresolved") /\ UNCHANGED visit
           ELSE IF ~skip /\ Visiting(p.index)
           THEN Give("cycle in order") /\ UNCHANGED visit
           ELSE /\ visit' = IF skip \/ InOrder(p.index) THEN Seen(visit)
                            ELSE Append(Seen(visit), Open(p.index))
                /\ Go("sort")
    /\ UNCHANGED <<order, roots>>

VisitDone ==
    /\ Sorting /\ visit # << >> /\ Last(visit).next \notin DOMAIN Visited.imports
    /\ order' = Append(order, Last(visit).pkg)
    /\ visit' = Front(visit)
    /\ UNCHANGED <<roots, phase, error>>

Ordered ==
    /\ Sorting /\ visit = << >> /\ roots = << >>
    /\ Go("done")
    /\ UNCHANGED <<order, visit, roots>>

Ended == phase \in {"done", "failed", "undefined"}
Stopped == Ended /\ UNCHANGED vars

-----------------------------------------------------------------------------
Init ==
    /\ world \in Worlds
    /\ packages = << >> /\ cap = 0 /\ table = 0 /\ load = << >>
    /\ phase = "load" /\ error = "" /\ entryPkg = << >> /\ platformPkg = << >>
    /\ order = << >> /\ visit = << >> /\ roots = << >>
    /\ sort = [all |-> TRUE, builtin |-> TRUE, platform |-> FALSE]

Load == Reuse \/ CycleDetected \/ NoDirectory \/ StartPackage \/ StartFiles \/ NoSource
        \/ RejectImports \/ FinishPackage \/ UseStaleEntry
Order == StartOrder \/ VisitRoot \/ VisitImport \/ VisitDone \/ Ordered

Next == Load \/ Check \/ Order \/ Stopped

\* One thread runs the loader to its end.
Spec == Init /\ [][Next]_vars /\ WF_vars(Next)

-----------------------------------------------------------------------------
(* Properties.                                                             *)

Pointers ==
    (UNION { {load[k].pkg, load[k].own} : k \in DOMAIN load })
    \cup (UNION { Targets(i) : i \in DOMAIN packages })
    \cup ({entryPkg, platformPkg} \ {<< >>})

\* The imports of the program, whatever order they are loaded in.
Needs(w, dir) ==
    LET written == IF w.single /\ dir = w.entry THEN w.entryImports ELSE w.imports[dir]
    IN  { ResolveImport(w, dir, path) : path \in ToSet(ImportsOf(dir, written)) }
HasSource(w, dir) == dir \in DOMAIN w.imports \/ (w.single /\ dir = w.entry)
Spread(w, dirs) == dirs \cup UNION { Needs(w, d) : d \in { e \in dirs : HasSource(w, e) } }
Closure(w, dirs) ==
    LET upTo[n \in 0 .. Cardinality(w.tree)] == IF n = 0 THEN dirs ELSE Spread(w, upTo[n - 1])
    IN  upTo[Cardinality(w.tree)]
Needed(w) == Closure(w, {w.entry, PlatformDir(w)})
Cyclic(w) ==
    \E d \in Needed(w) : HasSource(w, d) /\ d \in Closure(w, Needs(w, d))

\* docs/language.md:756 "Import cycles are invalid": a program is accepted
\* only without a cycle, and with every package it needs, and refused as cyclic
\* only with one.
CyclesRefused ==
    /\ error = "cycle" => Cyclic(world)
    /\ phase = "check" /\ ~packages[1].checked =>
          /\ ~Cyclic(world)
          /\ { packages[i].dir : i \in DOMAIN packages } = Needed(world)
          /\ \A i \in DOMAIN packages : packages[i].loaded

\* An import is bound to the package of the directory its path leads to, and a
\* loaded package only imports loaded packages.
ImportsBound ==
    \A i \in DOMAIN packages : \A k \in DOMAIN packages[i].targets :
        LET to == packages[packages[i].targets[k].index] IN
        /\ to.dir = ResolveImport(world, packages[i].dir, packages[i].imports[k])
        /\ to.loaded

\* Up to the first capacity of the table no pointer to a package dangles and
\* none that does is used.
NoStalePointer ==
    Len(packages) <= TableCap =>
        phase # "undefined" /\ \A p \in Pointers : Current(p)

\* Each package comes after the packages it imports, once; the order of the
\* objects has every package, and the order of the MIR the entry package. A program
\* that was loaded without a cycle is put in order without one.
OrderSound ==
    /\ error # "cycle in order" /\ (table = 0 => error # "unresolved")
    /\ \A k \in DOMAIN order : \A n \in DOMAIN packages[order[k]].imports :
          \/ Skipped(packages[order[k]].imports[n])
          \/ packages[order[k]].targets[n].index \in ToSet(SubSeq(order, 1, k - 1))
    /\ IsInjective(order)
    /\ phase = "done" => IF sort.all THEN ToSet(order) = DOMAIN packages
                         ELSE entryPkg.index \in ToSet(order)

\* Loading, checking and ordering end, for cyclic programs too.
Terminates == <>Ended

=============================================================================
