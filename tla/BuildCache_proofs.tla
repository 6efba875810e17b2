-------------------------- MODULE BuildCache_proofs --------------------------
(***************************************************************************)
(* Theorems about the build cache, for every program, set of builds and    *)
(* number of builds, edits and interruptions: which objects a build may    *)
(* take, what they are made of, and what the linked program holds.         *)
(***************************************************************************)
EXTENDS BuildCache, TLAPS

Artifact == [in : SUBSET (Files \X Nat), sigs : SUBSET Sigs, whole : BOOLEAN, at : Nat \ {0}]
File == Artifact \cup {None}
Programs == [there : BOOLEAN, of : UNION { [S -> File] : S \in SUBSET Units }, whole : BOOLEAN,
             at : Nat]
Build == [pc : {Idle, "check", "write", "cc", "sign", "link", "done"}, req : Requests,
          i : Nat \ {0}, loaded : [Files -> Nat]]

\* The versions of a file come one after another, and none in the future.
TypeOK ==
    /\ clock \in Nat \ {0}
    /\ times \in [Files -> Seq(Nat)]
    /\ \A f \in Files : \A i, j \in 1 .. Len(times[f]) :
          times[f][i] <= clock /\ (i <= j => times[f][i] <= times[f][j])
    /\ cfile \in [Units -> File] /\ obj \in [Units -> File]
    /\ sig \in [Units -> Sigs \cup {"none"}]
    /\ exe \in [Outputs -> Programs]
    /\ build \in Build
    /\ torn \in SUBSET Units
    /\ builds \in Nat

\* What the running build has read of the sources, and where it is.
BuildFits ==
    /\ build.i \in 1 .. Len(build.req.order)
    /\ \A f \in Files : build.loaded[f] \in 1 .. Len(times[f])
    /\ build.pc = "write" => Kind[Unit] # "object"

\* Every file was written at a time that has come.
WrittenBefore ==
    /\ \A u \in Units : cfile[u].at <= clock /\ obj[u].at <= clock
    /\ \A o \in Outputs : exe[o].at <= clock

-----------------------------------------------------------------------------
(* The inductive invariant.                                                *)

\* The sources a unit is made of.
OwnSources(u) == Sources[u] \cup UNION { Sources[d] : d \in Imports[u] }
AllSources(u) == Headers \cup UNION { Sources[d] : d \in { e \in Included(u) : Kind[e] # "wrapper" } }

\* What a text and an object can hold.
ContentsFit ==
    \A u \in Units :
        /\ cfile[u] # None =>
             /\ Kind[u] # "object"
             /\ Kind[u] # "package" => cfile[u].in = {} /\ cfile[u].sigs = {}
             /\ \A p \in cfile[u].in : p[1] \in OwnSources(u)
        /\ obj[u] # None => \A p \in obj[u].in : p[1] \in AllSources(u)

\* The unit that is made, when its object has been written.
Taken == Passed \cup (IF build.pc = "sign" THEN {Unit} ELSE {})

\* Objects the build has found or made are newer than what it has read and than the
\* objects of all their imports.
TakenFits ==
    /\ \A u \in Passed : sig[u] = build.req.sig
    /\ \A u \in Taken :
        /\ obj[u] # None
        /\ Kind[u] = "package" => cfile[u] # None
        /\ Kind[u] = "wrapper" => cfile[u] # None /\ cfile[u].whole /\ cfile[u].at <= obj[u].at
        /\ Kind[u] # "wrapper" => \A f \in Sources[u] : times[f][build.loaded[f]] <= obj[u].at
        /\ \A d \in Closure[u] : obj[d] # None /\ obj[d].at <= obj[u].at

Making(u) == build.pc \in {"write", "cc", "sign"} /\ u = Unit

\* A file that is complete and made under the signature s, if there is one.
Sound(file, s) == file # None => file.whole /\ file.sigs \subseteq {s}

\* Whatever is neither torn nor being made fits the signature beside it.
ConfigFits ==
    /\ \A u \in Units : u \notin torn /\ ~Making(u) => Sound(obj[u], sig[u]) /\ Sound(cfile[u], sig[u])
    /\ build.pc \in {"cc", "sign"} => Sound(cfile[Unit], build.req.sig)
    /\ build.pc = "sign" /\ Closure[Unit] \cap torn = {} => Sound(obj[Unit], build.req.sig)

\* A linked program holds the objects of its request, or they are no older than it.
LinkFits ==
    /\ build.pc = "done" => IsLinkedOutputUpToDate
    /\ \A r \in Requests : Owned(r.exe) /\ exe[r.exe].whole =>
         /\ DOMAIN exe[r.exe].of = UnitsOf(r)
         /\ \A u \in UnitsOf(r) : exe[r.exe].of[u] = obj[u] \/ obj[u].at >= exe[r.exe].at

\* An output in a package's directory is no newer than the package's object, unless the
\* build has linked it.
OutputsFit ==
    \A u \in Taken : Kind[u] = "package" =>
        \A o \in OutputsIn[u] :
            exe[o].at <= obj[u].at \/ (build.pc = "done" /\ o = build.req.exe)

CacheInv ==
    /\ TypeOK /\ BuildFits /\ WrittenBefore
    /\ ContentsFit /\ TakenFits /\ ConfigFits /\ LinkFits /\ OutputsFit

-----------------------------------------------------------------------------
(* Lemmas about the data.                                                  *)

\* A file that exists is not the one that does not.
LEMMA Written ==
    /\ None.at = 0
    /\ \A x \in Artifact : x # None /\ x.at # 0
BY DEF None, Artifact

\* What a request is.
LEMMA RequestFits ==
    ASSUME NEW r \in Requests
    PROVE  /\ r.order \in Seq(Units) /\ Len(r.order) \in Nat /\ Len(r.order) > 0
           /\ \A i \in 1 .. Len(r.order) : r.order[i] \in Units
           /\ \A i, j \in 1 .. Len(r.order) : r.order[i] = r.order[j] => i = j
           /\ r.sig \in Sigs /\ r.sig # "none" /\ r.exe \in Outputs
           /\ UnitsOf(r) = { r.order[i] : i \in 1 .. Len(r.order) }
           /\ UnitsOf(r) \subseteq Units
           /\ \A i \in 1 .. Len(r.order) :
                 Closure[r.order[i]] \subseteq { r.order[j] : j \in 1 .. (i - 1) }
<1>1. /\ r.order \in Seq(Units) /\ r.order # << >> /\ r.sig # "none"
      /\ \A i, j \in DOMAIN r.order : r.order[i] = r.order[j] => i = j
      /\ \A i \in DOMAIN r.order :
            Closure[r.order[i]] \subseteq { r.order[j] : j \in 1..(i - 1) }
  BY CacheAssumption
<1>2. /\ Len(r.order) \in Nat /\ Len(r.order) > 0 /\ DOMAIN r.order = 1 .. Len(r.order)
      /\ \A i \in 1 .. Len(r.order) : r.order[i] \in Units
  BY <1>1
<1>3. UnitsOf(r) = { r.order[i] : i \in 1 .. Len(r.order) }
  BY <1>2 DEF UnitsOf
<1>4. r.sig \in Sigs /\ r.exe \in Outputs
  BY DEF Sigs, Outputs
<1> QED BY <1>1, <1>2, <1>3, <1>4

\* Imports of a unit, direct or not.
LEMMA ClosureFits ==
    ASSUME NEW u \in Units
    PROVE  /\ Closure[u] \subseteq Units /\ Imports[u] \subseteq Closure[u]
           /\ Sources[u] \subseteq Files
           /\ Kind[u] \in {"object", "package", "wrapper"}
           /\ Kind[u] # "package" => Closure[u] = {}
           /\ \A d \in Closure[u] :
                 /\ Kind[d] = "package" /\ Closure[d] \subseteq Closure[u]
                 /\ d \in Imports[u] \/ \E e \in Imports[u] : d \in Closure[e]
BY CacheAssumption

\* What the running build is.
LEMMA Building ==
    ASSUME TypeOK
    PROVE  /\ build.req \in Requests /\ build.i \in Nat \ {0}
           /\ build.loaded \in [Files -> Nat]
           /\ build.pc \in {Idle, "check", "write", "cc", "sign", "link", "done"}
           /\ build = [pc |-> build.pc, req |-> build.req, i |-> build.i,
                       loaded |-> build.loaded]
BY DEF TypeOK, Build

\* When no build runs.
LEMMA NoBuildFits ==
    /\ NoBuild \in Build /\ NoBuild.req \in Requests /\ NoBuild.pc = Idle /\ NoBuild.i = 1
    /\ NoBuild.loaded = [f \in Files |-> 1] /\ 1 \in 1 .. Len(NoBuild.req.order)
<1>1. (CHOOSE r \in Requests : TRUE) \in Requests
  BY CacheAssumption
<1>2. /\ NoBuild \in Build /\ NoBuild.req \in Requests /\ NoBuild.pc = Idle /\ NoBuild.i = 1
      /\ NoBuild.loaded = [f \in Files |-> 1]
  BY <1>1 DEF NoBuild, Build, Idle
<1> QED BY <1>2, RequestFits

\* The imports of a unit the build has passed are passed.
LEMMA PassedFits ==
    ASSUME TypeOK, BuildFits
    PROVE  /\ Passed \subseteq UnitsOf(build.req) /\ Passed \subseteq Units
           /\ \A u \in Passed : Closure[u] \subseteq Passed
<1>1. build.req \in Requests /\ build.i \in 1 .. Len(build.req.order)
  BY Building DEF BuildFits
<1> DEFINE r == build.req
           Before(n) == { r.order[j] : j \in 1 .. n }
<1>2. /\ Len(r.order) \in Nat
      /\ UnitsOf(r) = Before(Len(r.order)) /\ UnitsOf(r) \subseteq Units
      /\ \A i \in 1 .. Len(r.order) : Closure[r.order[i]] \subseteq Before(i - 1)
  BY <1>1, RequestFits
<1>3. ASSUME NEW n \in 0 .. Len(r.order)
      PROVE  Before(n) \subseteq UnitsOf(r) /\ \A u \in Before(n) : Closure[u] \subseteq Before(n)
  <2>1. \A i \in 1 .. n : i \in 1 .. Len(r.order) /\ 1 .. (i - 1) \subseteq 1 .. n
    BY <1>2
  <2>2. Before(n) \subseteq Before(Len(r.order))
    BY <2>1
  <2>3. \A i \in 1 .. n : Before(i - 1) \subseteq Before(n)
    BY <2>1
  <2> QED BY <1>2, <2>1, <2>2, <2>3
<1>4. \E n \in 0 .. Len(r.order) : Passed = {} \/ Passed = Before(n)
  <2>1. CASE build.pc = Idle
    <3>1. Passed = {}
      BY ONLY <2>1 DEF Passed, Idle
    <3>2. 0 \in 0 .. Len(r.order)
      BY <1>2
    <3> HIDE DEF Before
    <3> QED BY <3>1, <3>2
  <2>2. CASE build.pc \in {"link", "done"}
    <3>1. Passed = UnitsOf(r)
      BY ONLY <2>2 DEF Passed, Idle
    <3>2. Len(r.order) \in 0 .. Len(r.order)
      BY <1>2
    <3> HIDE DEF Before
    <3> QED BY <1>2, <3>1, <3>2
  <2>3. CASE build.pc \notin {Idle, "link", "done"}
    <3>1. Passed = Before(build.i - 1) /\ build.i - 1 \in 0 .. Len(r.order)
      BY <1>1, <1>2, <2>3 DEF Passed
    <3> QED BY <3>1
  <2> QED BY <2>1, <2>2, <2>3
<1> HIDE DEF Before
<1> QED BY <1>2, <1>3, <1>4

\* The unit the build is at is not passed, and its imports are.
LEMMA UnitFits ==
    ASSUME TypeOK, BuildFits, build.pc \in {"check", "write", "cc", "sign"}
    PROVE  /\ Unit \in Units /\ Unit \in UnitsOf(build.req) /\ Unit \notin Passed
           /\ Closure[Unit] \subseteq Passed /\ Unit \notin Closure[Unit]
<1>1. build.req \in Requests /\ build.i \in 1 .. Len(build.req.order)
  BY Building DEF BuildFits
<1>2. Passed = { build.req.order[j] : j \in 1 .. (build.i - 1) }
  BY DEF Passed, Idle
<1>3. Unit \notin Passed
  BY <1>1, <1>2, RequestFits DEF Unit
<1>4. Unit \in Units /\ Unit \in UnitsOf(build.req) /\ Closure[Unit] \subseteq Passed
  <2> DEFINE r == build.req
             k == build.i
  <2>1. /\ r.order[k] \in Units /\ UnitsOf(r) = { r.order[i] : i \in 1 .. Len(r.order) }
        /\ Closure[r.order[k]] \subseteq { r.order[j] : j \in 1 .. (k - 1) }
    BY <1>1, RequestFits
  <2>2. r.order[k] \in UnitsOf(r)
    BY <1>1, <2>1
  <2> QED BY <1>2, <2>1, <2>2 DEF Unit
<1> QED BY <1>3, <1>4

\* The step to the next unit, or to linking, passes the unit.
LEMMA UnitPassed ==
    ASSUME TypeOK, BuildFits, build.pc \in {"check", "sign"}, NextUnit
    PROVE  /\ Passed' = Passed \cup {Unit} /\ Taken' = Passed' /\ build'.pc \in {"check", "link"}
           /\ build' \in Build /\ build'.req = build.req /\ build'.loaded = build.loaded
           /\ build'.i \in 1 .. Len(build.req.order)
<1> DEFINE r == build.req
           n == Len(r.order)
<1>1. r \in Requests /\ build.i \in 1 .. n /\ n \in Nat
  BY Building, RequestFits DEF BuildFits
<1>2. /\ build'.pc = IF build.i = n THEN "link" ELSE "check"
      /\ build'.i = IF build.i = n THEN build.i ELSE build.i + 1
      /\ build'.req = r /\ build'.loaded = build.loaded /\ build' \in Build
  <2>1. (IF build.i = n THEN "link" ELSE "check") \in {"link", "check"}
    OBVIOUS
  <2>2. (IF build.i = n THEN build.i ELSE build.i + 1) \in Nat \ {0}
    BY <1>1
  <2> QED BY <2>1, <2>2, Building DEF NextUnit, Build
<1>3. Passed = { r.order[j] : j \in 1 .. (build.i - 1) }
  BY DEF Passed, Idle
<1>4. Passed' = { r.order[j] : j \in 1 .. build.i }
  <2>1. CASE build.i = n
    BY <1>1, <1>2, <2>1, RequestFits DEF Passed, Idle
  <2>2. CASE build.i # n
    <3>1. Passed' = { r.order[j] : j \in 1 .. ((build.i + 1) - 1) }
      BY <1>2, <2>2 DEF Passed, Idle
    <3> QED BY <1>1, <3>1
  <2> QED BY <2>1, <2>2
<1>5. Passed' = Passed \cup {Unit}
  BY <1>1, <1>3, <1>4 DEF Unit
<1>6. Taken' = Passed'
  BY <1>2 DEF Taken
<1> QED BY <1>1, <1>2, <1>5, <1>6

\* A step that leaves the unit and passes none.
LEMMA Stays ==
    ASSUME TypeOK, NEW pc \in {"check", "write", "cc", "sign", "link", "done"},
           build.pc # Idle, Goto(pc)
    PROVE  /\ build'.pc = pc /\ build' \in Build /\ build'.req = build.req
           /\ build'.i = build.i /\ build'.loaded = build.loaded /\ Unit' = Unit
BY Building DEF Goto, Build, Unit

\* A build that ends has passed nothing.
LEMMA Abandoned ==
    ASSUME TypeOK, BuildFits, Abandon
    PROVE  /\ build' = NoBuild /\ build'.pc = Idle /\ build' \in Build
           /\ Passed' = {} /\ Taken' = {}
           /\ torn' \subseteq Units /\ torn \subseteq torn'
           /\ build.pc \in {"write", "cc", "sign"} => Unit \in torn'
<1>1. build' = NoBuild /\ build'.pc = Idle /\ build' \in Build
  BY NoBuildFits DEF Abandon
<1>2. Passed' = {} /\ Taken' = {}
  BY <1>1 DEF Passed, Taken, Idle
<1>3. /\ torn' \subseteq Units /\ torn \subseteq torn'
      /\ build.pc \in {"write", "cc", "sign"} => Unit \in torn'
  BY UnitFits DEF Abandon, Interrupted, TypeOK
<1> QED BY <1>1, <1>2, <1>3

-----------------------------------------------------------------------------
(* What is written.                                                        *)

\* Versions of files that are read.
LEMMA ReadFits ==
    ASSUME NEW fs \in SUBSET Files, NEW versions \in [Files -> Nat]
    PROVE  /\ Read(fs, versions) \in SUBSET (Files \X Nat)
           /\ \A p \in Read(fs, versions) : p[1] \in fs
BY DEF Read

\* A text is made of the sources of the unit and of what it imports.
LEMMA TextFits ==
    ASSUME TypeOK, NEW u \in Units
    PROVE  /\ TextOf(u).in \in SUBSET (Files \X Nat)
           /\ TextOf(u).sigs \subseteq {build.req.sig} /\ TextOf(u).sigs \in SUBSET Sigs
           /\ \A p \in TextOf(u).in : p[1] \in OwnSources(u)
           /\ Kind[u] # "package" => TextOf(u).in = {} /\ TextOf(u).sigs = {}
<1>1. OwnSources(u) \in SUBSET Files
  BY ClosureFits DEF OwnSources
<1>2. build.loaded \in [Files -> Nat] /\ build.req.sig \in Sigs
  BY Building, RequestFits
<1>3. CASE Kind[u] = "package"
  <2>1. TextOf(u) = [in |-> Read(OwnSources(u), build.loaded), sigs |-> {build.req.sig}]
    BY <1>3 DEF TextOf, OwnSources
  <2> QED BY <1>1, <1>2, <1>3, <2>1, ReadFits
<1>4. CASE Kind[u] # "package"
  <2>1. TextOf(u) = [in |-> {}, sigs |-> {}]
    BY <1>4 DEF TextOf
  <2> QED BY <1>4, <2>1
<1> QED BY <1>3, <1>4

\* The compiler reads all the texts it includes.
CanCompile(u) == \A d \in Included(u) : Kind[u] # "object" => cfile[d] # None /\ cfile[d].whole

\* An object is made of the headers and of the sources of the unit and of all it imports.
LEMMA CompiledFits ==
    ASSUME TypeOK, NEW u \in Units, CanCompile(u)
    PROVE  /\ CompiledFrom(u) \in SUBSET (Files \X Nat)
           /\ CompiledUnder(u) \in SUBSET Sigs
           /\ ContentsFit => \A p \in CompiledFrom(u) : p[1] \in AllSources(u)
<1>1. Now \in [Files -> Nat] /\ Headers \in SUBSET Files /\ Sources[u] \in SUBSET Files
  BY CacheAssumption DEF Now, Version, TypeOK
<1>2. /\ Read(Headers, Now) \in SUBSET (Files \X Nat)
      /\ \A p \in Read(Headers, Now) : p[1] \in Headers
      /\ Read(Sources[u], Now) \in SUBSET (Files \X Nat)
      /\ \A p \in Read(Sources[u], Now) : p[1] \in Sources[u]
  BY <1>1, ReadFits
<1>3. CASE Kind[u] = "object"
  <2>1. CompiledFrom(u) = Read(Headers, Now) \cup Read(Sources[u], Now) /\ CompiledUnder(u) = {}
    BY <1>3 DEF CompiledFrom, CompiledUnder
  <2>2. Sources[u] \subseteq AllSources(u) /\ Headers \subseteq AllSources(u)
    BY <1>3 DEF AllSources, Included
  <2> QED BY <1>2, <2>1, <2>2
<1>4. CASE Kind[u] # "object"
  <2>1. /\ CompiledFrom(u) = Read(Headers, Now) \cup UNION { cfile[d].in : d \in Included(u) }
        /\ CompiledUnder(u) = UNION { cfile[d].sigs : d \in Included(u) }
    BY <1>4 DEF CompiledFrom, CompiledUnder
  <2>2. \A d \in Included(u) : d \in Units /\ cfile[d] \in Artifact
    BY <1>4, ClosureFits DEF CanCompile, Included, TypeOK, File
  <2>3. \A d \in Included(u) : cfile[d].in \in SUBSET (Files \X Nat) /\ cfile[d].sigs \in SUBSET Sigs
    BY <2>2 DEF Artifact
  <2>4. ASSUME ContentsFit, NEW d \in Included(u), NEW p \in cfile[d].in
        PROVE  p[1] \in AllSources(u)
    <3>1. p[1] \in OwnSources(d) /\ (Kind[d] # "package" => cfile[d].in = {})
      BY <1>4, <2>2, <2>4 DEF ContentsFit, CanCompile
    <3>2. Kind[d] = "package" /\ d \in Included(u)
      BY <3>1, <2>4
    <3>3. Imports[d] \subseteq Included(u) /\ \A e \in Imports[d] : Kind[e] = "package"
      BY <2>2, ClosureFits DEF Included
    <3> QED BY <3>1, <3>2, <3>3 DEF OwnSources, AllSources
  <2> QED BY <1>2, <2>1, <2>3, <2>4 DEF AllSources
<1> QED BY <1>3, <1>4

\* What a step writes is a file, whole or not.
LEMMA MadeFits ==
    ASSUME TypeOK, NEW in \in SUBSET (Files \X Nat), NEW sigs \in SUBSET Sigs
    PROVE  /\ Made(in, sigs, clock) \in Artifact /\ Made(in, sigs, clock).at = clock
           /\ Made(in, sigs, clock).in = in /\ Made(in, sigs, clock).sigs = sigs
           /\ Made(in, sigs, clock).whole
           /\ Partial(clock) \in Artifact /\ Partial(clock).at = clock /\ Partial(clock).in = {}
BY DEF TypeOK, Artifact, Made, Partial

\* What is linked is a program, whole or not.
LEMMA LinkedFits ==
    ASSUME TypeOK
    PROVE  /\ Linked(clock) \in Programs /\ Linked(clock).at = clock
           /\ Linked(clock).of = LinkOf(build.req)
           /\ HalfLinked(clock) \in Programs /\ HalfLinked(clock).at = clock
           /\ Gone(clock) \in Programs /\ Gone(clock).at = clock
           /\ Linked(clock).there /\ ~HalfLinked(clock).whole /\ ~Gone(clock).whole
<1>1. LinkOf(build.req) \in [UnitsOf(build.req) -> File] /\ UnitsOf(build.req) \subseteq Units
  BY Building, RequestFits DEF LinkOf, TypeOK
<1>2. << >> \in [{} -> File]
  OBVIOUS
<1>3. clock \in Nat \ {0}
  BY DEF TypeOK
<1> QED BY <1>1, <1>2, <1>3 DEF Linked, HalfLinked, Gone, Programs

-----------------------------------------------------------------------------
(* The types, and when things were written.                                *)

Times == <<clock, times>>
Disk == <<cfile, obj, sig, exe>>

\* Steps that change nothing but where the build is.
LEMMA QuietTyped ==
    ASSUME TypeOK, UNCHANGED <<Times, Disk>>, build' \in Build, torn' \in SUBSET Units, builds' \in Nat
    PROVE  TypeOK'
BY DEF TypeOK, Times, Disk

\* An edit appends a version that is the newest.
LEMMA EditFits ==
    ASSUME TypeOK, Edit
    PROVE  /\ times' \in [Files -> Seq(Nat)]
           /\ \A f \in Files :
                /\ Len(times[f]) \in Nat /\ Len(times'[f]) >= Len(times[f])
                /\ \A i \in 1 .. Len(times[f]) : times'[f][i] = times[f][i]
                /\ \A i, j \in 1 .. Len(times'[f]) :
                      times'[f][i] <= clock /\ (i <= j => times'[f][i] <= times'[f][j])
<1>1. PICK e \in Files : times' = [times EXCEPT ![e] = Append(@, clock)]
  BY DEF Edit
<1>2. times \in [Files -> Seq(Nat)] /\ clock \in Nat
  BY DEF TypeOK
<1>3. times' \in [Files -> Seq(Nat)] /\ \A f \in Files : Len(times[f]) \in Nat
  BY <1>1, <1>2
<1>4. ASSUME NEW f \in Files
      PROVE  /\ Len(times'[f]) >= Len(times[f])
             /\ \A i \in 1 .. Len(times[f]) : times'[f][i] = times[f][i]
             /\ \A i, j \in 1 .. Len(times'[f]) :
                   times'[f][i] <= clock /\ (i <= j => times'[f][i] <= times'[f][j])
  <2>1. \A i, j \in 1 .. Len(times[f]) :
           times[f][i] <= clock /\ (i <= j => times[f][i] <= times[f][j])
    BY DEF TypeOK
  <2>2. CASE f # e
    <3>1. times'[f] = times[f]
      BY <1>1, <1>2, <2>2
    <3> QED BY <2>1, <3>1, <1>3
  <2>3. CASE f = e
    <3>1. times'[f] = Append(times[f], clock)
      BY <1>1, <1>2, <2>3
    <3> DEFINE s == times[f]
               n == Len(s)
    <3>2. s \in Seq(Nat) /\ n \in Nat
      BY <1>2
    <3>3. /\ Len(times'[f]) = n + 1
          /\ \A i \in 1 .. n : times'[f][i] = s[i]
          /\ times'[f][n + 1] = clock
      BY <3>1, <3>2, <1>2
    <3>4. \A i \in 1 .. n : s[i] \in Nat
      BY <3>2
    <3> HIDE DEF s, n
    <3>5. \A i, j \in 1 .. n : s[i] <= clock /\ (i <= j => s[i] <= s[j])
      BY <2>1 DEF s, n
    <3>6. ASSUME NEW i \in 1 .. (n + 1), NEW j \in 1 .. (n + 1)
          PROVE  times'[f][i] <= clock /\ (i <= j => times'[f][i] <= times'[f][j])
      <4>1. \A k \in 1 .. n : times'[f][k] \in Nat /\ times'[f][k] <= clock
        BY <3>3, <3>4, <3>5
      <4>2. times'[f][i] <= clock
        BY <3>2, <3>3, <4>1, <1>2
      <4>3. CASE j = n + 1
        BY <4>2, <4>3, <3>3
      <4>4. CASE j \in 1 .. n
        <5>1. i <= j => i \in 1 .. n
          BY <3>2, <4>4
        <5> QED BY <4>2, <4>4, <5>1, <3>3, <3>5
      <4>5. j = n + 1 \/ j \in 1 .. n
        BY <3>2
      <4> QED BY <4>2, <4>3, <4>4, <4>5
    <3>7. Len(times'[f]) >= n /\ \A i \in 1 .. n : times'[f][i] = s[i]
      BY <3>2, <3>3
    <3> QED BY <3>3, <3>6, <3>7 DEF s, n
  <2> QED BY <2>2, <2>3
<1> QED BY <1>3, <1>4

\* Every step keeps the types.
LEMMA TypeKept == TypeOK /\ BuildFits /\ [Next]_vars => TypeOK'
<1> SUFFICES ASSUME TypeOK, BuildFits, [Next]_vars PROVE TypeOK'
  OBVIOUS
<1>0. build \in Build /\ torn \in SUBSET Units /\ builds \in Nat
  BY DEF TypeOK
<1>1. CASE Start
  <2>1. \A f \in Files : Version(f) \in Nat
    BY DEF Version, TypeOK
  <2>2. build' \in Build /\ builds' \in Nat
    BY <1>0, <1>1, <2>1 DEF Start, Build, Now
  <2> QED BY <1>0, <1>1, <2>2, QuietTyped DEF Start, Times, Disk
<1>2. CASE Reuse
  BY <1>0, <1>2, UnitPassed, QuietTyped DEF Reuse, At, Times, Disk
<1>3. CASE MustMake
  <2>1. \E pc \in {"cc", "write"} : Goto(pc)
    BY <1>3 DEF MustMake
  <2> QED BY <1>0, <1>3, <2>1, Stays, QuietTyped DEF MustMake, At, Idle, Times, Disk
<1>4. CASE WriteText
  <2>1. build' \in Build /\ Unit \in Units
    BY <1>4, Stays, UnitFits DEF WriteText, At, Idle
  <2>2. Made(TextOf(Unit).in, TextOf(Unit).sigs, clock) \in File
    BY <2>1, TextFits, MadeFits DEF File
  <2>3. cfile' \in [Units -> File]
    BY <1>4, <2>2 DEF WriteText, TypeOK
  <2> QED BY <1>4, <2>1, <2>3 DEF WriteText, TypeOK
<1>5. CASE Compile
  <2>1. build' \in Build /\ Unit \in Units
    BY <1>5, Stays, UnitFits DEF Compile, At, Idle
  <2>2. Made(CompiledFrom(Unit), CompiledUnder(Unit), clock) \in File
    BY <1>5, <2>1, CompiledFits, MadeFits DEF File, Compile, CanCompile
  <2>3. obj' \in [Units -> File]
    BY <1>5, <2>2 DEF Compile, TypeOK
  <2> QED BY <1>5, <2>1, <2>3 DEF Compile, TypeOK
<1>6. CASE WriteSignature
  <2>1. build' \in Build /\ Unit \in Units
    BY <1>6, UnitPassed, UnitFits DEF WriteSignature, At
  <2>2. sig' \in [Units -> Sigs \cup {"none"}]
    BY <1>6, Building, RequestFits DEF WriteSignature, TypeOK
  <2>3. torn' \in SUBSET Units
    BY <1>0, <1>6, <2>1 DEF WriteSignature
  <2> QED BY <1>6, <2>1, <2>2, <2>3 DEF WriteSignature, TypeOK
<1>7. CASE Link
  <2>1. build' \in Build
    BY <1>7, Stays DEF Link, At, Idle
  <2>2. exe' \in [Outputs -> Programs]
    BY <1>7, LinkedFits DEF Link, TypeOK
  <2> QED BY <1>7, <2>1, <2>2 DEF Link, TypeOK
<1>8. CASE SkipLink
  <2>1. build' \in Build
    BY <1>8, Stays DEF SkipLink, At, Idle
  <2> QED BY <1>0, <1>8, <2>1, QuietTyped DEF SkipLink, Times, Disk
<1>9. CASE Leave
  <2>1. build' \in Build
    BY <1>9, NoBuildFits DEF Leave
  <2> QED BY <1>0, <1>9, <2>1, QuietTyped DEF Leave, Times, Disk
<1>10. CASE Fail
  BY <1>0, <1>10, Abandoned, QuietTyped DEF Fail, Times, Disk
<1>11. CASE KilledWriting
  <2>1. build' \in Build /\ torn' \in SUBSET Units
    BY <1>11, Abandoned DEF KilledWriting
  <2>2. Partial(clock) \in File
    BY MadeFits DEF File
  <2>3. cfile' \in [Units -> File] /\ obj' \in [Units -> File]
    BY <1>11, <2>2 DEF KilledWriting, TypeOK
  <2>4. sig' \in [Units -> Sigs \cup {"none"}]
    BY <1>11 DEF KilledWriting, TypeOK
  <2>5. exe' \in [Outputs -> Programs]
    BY <1>11, LinkedFits DEF KilledWriting, TypeOK
  <2> QED BY <1>11, <2>1, <2>3, <2>4, <2>5 DEF KilledWriting, TypeOK
<1>12. CASE Edit
  BY <1>12, EditFits DEF Edit, TypeOK
<1>15. CASE LinkFails
  <2>1. build' \in Build /\ torn' \in SUBSET Units
    BY <1>15, Abandoned DEF LinkFails
  <2>2. exe' \in [Outputs -> Programs]
    BY <1>15, LinkedFits DEF LinkFails, TypeOK
  <2> QED BY <1>15, <2>1, <2>2 DEF LinkFails, TypeOK
<1>13. CASE Tick
  <2>1. clock' = clock + 1 /\ times' = times /\ clock \in Nat
    BY <1>13 DEF Tick, TypeOK
  <2>2. ASSUME NEW f \in Files, NEW i \in 1 .. Len(times[f]), NEW j \in 1 .. Len(times[f])
        PROVE  times[f][i] <= clock + 1 /\ (i <= j => times[f][i] <= times[f][j])
    <3>1. times[f][i] \in Nat /\ times[f][i] <= clock
      BY DEF TypeOK
    <3> QED BY <2>1, <3>1 DEF TypeOK
  <2> QED BY <1>13, <2>1, <2>2 DEF Tick, TypeOK
<1>14. CASE UNCHANGED vars
  BY <1>0, <1>14, QuietTyped DEF vars, Times, Disk
<1> QED BY <1>1, <1>2, <1>3, <1>4, <1>5, <1>6, <1>7, <1>8, <1>9, <1>10, <1>11, <1>12,
           <1>13, <1>14, <1>15 DEF Next

\* Every step keeps where the build is.
LEMMA BuildKept == TypeOK /\ BuildFits /\ [Next]_vars => BuildFits'
<1> SUFFICES ASSUME TypeOK, BuildFits, [Next]_vars PROVE BuildFits'
  OBVIOUS
<1>0. ASSUME build'.req = build.req, build'.i = build.i, build'.loaded = build.loaded,
             times' = times, build'.pc = "write" => Kind[Unit] # "object"
      PROVE  BuildFits'
  BY <1>0 DEF BuildFits, Unit
<1>1. CASE Start
  <2>1. PICK r \in Requests :
           build' = [pc |-> "check", req |-> r, i |-> 1, loaded |-> Now]
    BY <1>1 DEF Start
  <2>2. build'.req = r /\ build'.i = 1 /\ build'.loaded = Now /\ build'.pc = "check"
    BY <2>1
  <2>3. 1 \in 1 .. Len(r.order)
    BY RequestFits
  <2>4. ASSUME NEW f \in Files PROVE Now[f] \in 1 .. Len(times[f])
    <3>1. Now[f] = Len(times[f])
      BY DEF Now, Version
    <3>2. Len(times[f]) \in Nat /\ build.loaded[f] \in 1 .. Len(times[f])
      BY DEF TypeOK, BuildFits
    <3> QED BY <3>1, <3>2
  <2>5. times' = times
    BY <1>1 DEF Start
  <2> QED BY <2>2, <2>3, <2>4, <2>5 DEF BuildFits
<1>2. CASE Reuse
  BY <1>2, UnitPassed DEF Reuse, At, BuildFits
<1>3. CASE MustMake
  <2>1. Unit \in Units
    BY <1>3, UnitFits DEF MustMake, At
  <2>2. /\ Goto(IF Kind[Unit] = "object" \/ (Kind[Unit] = "wrapper" /\ WrapperMatches(Unit))
                THEN "cc" ELSE "write")
        /\ build.pc = "check" /\ times' = times
    BY <1>3 DEF MustMake, At
  <2>3. CASE Kind[Unit] = "object"
    <3>1. Goto("cc")
      BY <2>2, <2>3
    <3> QED BY <2>2, <3>1, <1>0, Stays DEF Idle
  <2>4. CASE Kind[Unit] # "object"
    <3>1. \E pc \in {"cc", "write"} : Goto(pc)
      BY <2>2
    <3> QED BY <2>2, <2>4, <3>1, <1>0, Stays DEF Idle
  <2> QED BY <2>3, <2>4
<1>4. CASE WriteText
  BY <1>4, <1>0, Stays DEF WriteText, At, Idle
<1>5. CASE Compile
  BY <1>5, <1>0, Stays DEF Compile, At, Idle
<1>6. CASE WriteSignature
  BY <1>6, UnitPassed DEF WriteSignature, At, BuildFits
<1>7. CASE Link \/ SkipLink
  BY <1>7, <1>0, Stays DEF Link, SkipLink, At, Idle
<1>8. CASE Leave \/ Fail \/ LinkFails \/ KilledWriting
  <2>1. build' = NoBuild /\ times' = times
    BY <1>8, Abandoned DEF Leave, Fail, LinkFails, KilledWriting
  <2>2. \A f \in Files : 1 \in 1 .. Len(times[f])
    <3> TAKE f \in Files
    <3>1. Len(times[f]) \in Nat /\ build.loaded[f] \in 1 .. Len(times[f])
      BY DEF TypeOK, BuildFits
    <3> QED BY <3>1
  <2>3. build'.i \in 1 .. Len(build'.req.order) /\ build'.pc # "write"
    BY <2>1, NoBuildFits DEF Idle
  <2>4. \A f \in Files : build'.loaded[f] \in 1 .. Len(times'[f])
    BY <2>1, <2>2, NoBuildFits
  <2> QED BY <2>3, <2>4 DEF BuildFits
<1>10. CASE Edit
  <2>1. /\ build' = build
        /\ \A f \in Files : Len(times[f]) \in Nat /\ Len(times'[f]) \in Nat /\ Len(times'[f]) >= Len(times[f])
    BY <1>10, EditFits DEF Edit
  <2>2. \A f \in Files : build.loaded[f] \in Nat /\ build.loaded[f] \in 1 .. Len(times[f])
    BY Building DEF BuildFits
  <2>3. \A f \in Files : build.loaded[f] \in 1 .. Len(times'[f])
    BY <2>1, <2>2
  <2> QED BY <2>1, <2>3 DEF BuildFits, Unit
<1>11. CASE Tick \/ UNCHANGED vars
  BY <1>11, <1>0 DEF Tick, vars, BuildFits
<1> QED BY <1>1, <1>2, <1>3, <1>4, <1>5, <1>6, <1>7, <1>8, <1>10, <1>11 DEF Next

\* Every step writes at the time that has come.
LEMMA WrittenKept == TypeOK /\ BuildFits /\ WrittenBefore /\ [Next]_vars => WrittenBefore'
<1> SUFFICES ASSUME TypeOK, BuildFits, WrittenBefore, [Next]_vars PROVE WrittenBefore'
  OBVIOUS
<1>0. clock \in Nat
  BY DEF TypeOK
<1>1. CASE UNCHANGED <<clock, cfile, obj, exe>>
  BY <1>1 DEF WrittenBefore
<1>2. CASE WriteText
  <2>1. Made(TextOf(Unit).in, TextOf(Unit).sigs, clock).at = clock
    BY DEF Made
  <2>2. \A u \in Units : cfile'[u].at <= clock
    BY <1>0, <1>2, <2>1 DEF WriteText, WrittenBefore, TypeOK
  <2> QED BY <1>2, <2>2 DEF WriteText, WrittenBefore
<1>3. CASE Compile
  <2>1. Made(CompiledFrom(Unit), CompiledUnder(Unit), clock).at = clock
    BY DEF Made
  <2>2. \A u \in Units : obj'[u].at <= clock
    BY <1>0, <1>3, <2>1 DEF Compile, WrittenBefore, TypeOK
  <2> QED BY <1>3, <2>2 DEF Compile, WrittenBefore
<1>4. CASE Link
  <2>1. Linked(clock).at = clock
    BY DEF Linked
  <2>2. \A o \in Outputs : exe'[o].at <= clock
    BY <1>0, <1>4, <2>1 DEF Link, WrittenBefore, TypeOK
  <2> QED BY <1>4, <2>2 DEF Link, WrittenBefore
<1>7. CASE LinkFails
  <2>1. \A o \in Outputs : exe'[o].at <= clock
    BY <1>0, <1>7, LinkedFits DEF LinkFails, WrittenBefore, TypeOK
  <2> QED BY <1>7, <2>1 DEF LinkFails, WrittenBefore
<1>5. CASE KilledWriting
  <2>1. Partial(clock).at = clock
    BY DEF Partial
  <2>2. \A u \in Units : cfile'[u].at <= clock
    BY <1>0, <1>5, <2>1 DEF KilledWriting, WrittenBefore, TypeOK
  <2>3. \A u \in Units : obj'[u].at <= clock
    BY <1>0, <1>5, <2>1 DEF KilledWriting, WrittenBefore, TypeOK
  <2>4. \A o \in Outputs : exe'[o].at <= clock
    BY <1>0, <1>5, LinkedFits DEF KilledWriting, WrittenBefore, TypeOK
  <2> QED BY <1>5, <2>2, <2>3, <2>4 DEF KilledWriting, WrittenBefore
<1>6. CASE Tick
  <2>1. clock' = clock + 1 /\ UNCHANGED Disk
    BY <1>6 DEF Tick, Disk
  <2>2. \A u \in Units : cfile[u].at \in Nat /\ obj[u].at \in Nat
    BY DEF TypeOK, File, Artifact, None
  <2>3. \A o \in Outputs : exe[o].at \in Nat
    BY DEF TypeOK, Programs
  <2>4. \A u \in Units : cfile[u].at <= clock + 1 /\ obj[u].at <= clock + 1
    BY <1>0, <2>2 DEF WrittenBefore
  <2>5. \A o \in Outputs : exe[o].at <= clock + 1
    BY <1>0, <2>3 DEF WrittenBefore
  <2> QED BY <2>1, <2>4, <2>5 DEF WrittenBefore, Disk
<1> QED BY <1>1, <1>2, <1>3, <1>4, <1>5, <1>6, <1>7
        DEF Next, Start, Reuse, MustMake, WriteSignature, SkipLink, Leave, Fail, Edit, vars

\* Every step keeps what texts and objects can hold.
LEMMA ContentsKept == TypeOK /\ BuildFits /\ ContentsFit /\ [Next]_vars => ContentsFit'
<1> SUFFICES ASSUME TypeOK, BuildFits, ContentsFit, [Next]_vars PROVE ContentsFit'
  OBVIOUS
<1>1. CASE UNCHANGED <<cfile, obj>>
  BY <1>1 DEF ContentsFit
<1>2. CASE WriteText
  <2> DEFINE text == TextOf(Unit)
             file == Made(text.in, text.sigs, clock)
  <2>1. Unit \in Units /\ Kind[Unit] # "object"
    BY <1>2, UnitFits DEF WriteText, At, BuildFits
  <2>2. /\ file.in = text.in /\ file.sigs = text.sigs
        /\ \A p \in text.in : p[1] \in OwnSources(Unit)
        /\ Kind[Unit] # "package" => text.in = {} /\ text.sigs = {}
    BY <2>1, TextFits DEF Made
  <2> HIDE DEF file, text
  <2>3. cfile' = [cfile EXCEPT ![Unit] = file] /\ obj' = obj
    BY <1>2 DEF WriteText, file, text
  <2>4. \A u \in Units : cfile'[u] = IF u = Unit THEN file ELSE cfile[u]
    BY <2>3 DEF TypeOK
  <2> QED BY <2>1, <2>2, <2>3, <2>4 DEF ContentsFit
<1>3. CASE Compile
  <2> DEFINE file == Made(CompiledFrom(Unit), CompiledUnder(Unit), clock)
  <2>1. Unit \in Units /\ CanCompile(Unit)
    BY <1>3, UnitFits DEF Compile, At, CanCompile
  <2>2. file.in = CompiledFrom(Unit) /\ \A p \in CompiledFrom(Unit) : p[1] \in AllSources(Unit)
    BY <2>1, CompiledFits DEF Made
  <2> HIDE DEF file
  <2>3. obj' = [obj EXCEPT ![Unit] = file] /\ cfile' = cfile
    BY <1>3 DEF Compile, file
  <2>4. \A u \in Units : obj'[u] = IF u = Unit THEN file ELSE obj[u]
    BY <2>3 DEF TypeOK
  <2> QED BY <2>1, <2>2, <2>3, <2>4 DEF ContentsFit
<1>4. CASE KilledWriting
  <2>1. Partial(clock).in = {} /\ Partial(clock).sigs = {}
    BY DEF Partial
  <2>2. build.pc = "write" => Kind[Unit] # "object"
    BY DEF BuildFits
  <2>3. \A u \in Units : \/ cfile'[u] = cfile[u]
                         \/ cfile'[u] = Partial(clock) /\ Kind[u] # "object"
    BY <1>4, <2>2 DEF KilledWriting, At, TypeOK
  <2>4. \A u \in Units : obj'[u] = obj[u] \/ obj'[u] = Partial(clock)
    BY <1>4 DEF KilledWriting, TypeOK
  <2>5. ASSUME NEW u \in Units
        PROVE  cfile'[u] # None =>
                 /\ Kind[u] # "object"
                 /\ Kind[u] # "package" => cfile'[u].in = {} /\ cfile'[u].sigs = {}
                 /\ \A p \in cfile'[u].in : p[1] \in OwnSources(u)
    BY <2>1, <2>3 DEF ContentsFit
  <2>6. ASSUME NEW u \in Units
        PROVE  obj'[u] # None => \A p \in obj'[u].in : p[1] \in AllSources(u)
    BY <2>1, <2>4 DEF ContentsFit
  <2> QED BY <2>5, <2>6 DEF ContentsFit
<1> QED BY <1>1, <1>2, <1>3, <1>4
        DEF Next, Start, Reuse, MustMake, WriteSignature, Link, SkipLink, Leave, Fail, LinkFails, Edit,
            Tick, vars

-----------------------------------------------------------------------------
(* The objects a build takes.                                              *)

\* What TakenFits says of a unit whose object is there.
TakenUnit(u) ==
    /\ obj[u] # None
    /\ Kind[u] = "package" => cfile[u] # None
    /\ Kind[u] = "wrapper" => cfile[u] # None /\ cfile[u].whole /\ cfile[u].at <= obj[u].at
    /\ Kind[u] # "wrapper" => \A f \in Sources[u] : times[f][build.loaded[f]] <= obj[u].at
    /\ \A d \in Closure[u] : obj[d] # None /\ obj[d].at <= obj[u].at

\* An object no older than those of the imports is no older than those of all it imports.
LEMMA ClosureOlder ==
    ASSUME TypeOK, BuildFits, TakenFits, NEW u \in Units, Closure[u] \subseteq Passed, NoNewerImport(u)
    PROVE  \A d \in Closure[u] : obj[d] # None /\ obj[d].at <= obj[u].at
<1> TAKE d \in Closure[u]
<1>1. \A x \in Units : obj[x].at \in Nat
  BY DEF TypeOK, File, Artifact, None
<1>2. CASE d \in Imports[u]
  BY <1>2 DEF NoNewerImport
<1>3. CASE d \notin Imports[u]
  <2>1. PICK e \in Imports[u] : d \in Closure[e]
    BY <1>3, ClosureFits
  <2>2. e \in Passed /\ e \in Units /\ d \in Units
    BY <2>1, ClosureFits
  <2>3. obj[d] # None /\ obj[d].at <= obj[e].at
    BY <2>1, <2>2 DEF TakenFits, Taken
  <2>4. obj[e].at <= obj[u].at
    BY <2>1 DEF NoNewerImport
  <2> QED BY <1>1, <2>2, <2>3, <2>4
<1> QED BY <1>2, <1>3

\* A unit that is up to date can be taken.
LEMMA UpToDateFits ==
    ASSUME TypeOK, BuildFits, TakenFits, build.pc = "check", UpToDate(Unit)
    PROVE  sig[Unit] = build.req.sig /\ TakenUnit(Unit)
<1> DEFINE u == Unit
<1>1. u \in Units /\ Closure[u] \subseteq Passed
  BY UnitFits
<1>2. Kind[u] \in {"object", "package", "wrapper"} /\ Sources[u] \subseteq Files
      /\ (Kind[u] # "package" => Closure[u] = {})
  BY <1>1, ClosureFits
<1>3. \A f \in Sources[u] : Mtime(f) <= obj[u].at => times[f][build.loaded[f]] <= obj[u].at
  <2> TAKE f \in Sources[u]
  <2>1. /\ Len(times[f]) \in Nat /\ build.loaded[f] \in 1 .. Len(times[f])
        /\ \A i \in 1 .. Len(times[f]) : times[f][i] \in Nat
    BY <1>2 DEF TypeOK, BuildFits
  <2>2. times[f][build.loaded[f]] <= times[f][Len(times[f])]
    BY <1>2, <2>1 DEF TypeOK
  <2>3. obj[u].at \in Nat
    BY <1>1 DEF TypeOK, File, Artifact, None
  <2> QED BY <2>1, <2>2, <2>3 DEF Mtime, Version
<1> HIDE DEF u
<1>4. UpToDate(u)
  BY DEF u
<1>5. CASE Kind[u] = "package"
  <2>1. IsPackageArtifactUpToDate(u)
    BY <1>4, <1>5 DEF UpToDate
  <2>2. \A d \in Closure[u] : obj[d] # None /\ obj[d].at <= obj[u].at
    BY <1>1, <2>1, ClosureOlder DEF IsPackageArtifactUpToDate
  <2> QED BY <1>3, <1>5, <2>1, <2>2
          DEF IsPackageArtifactUpToDate, NoNewerSource, ToolchainSignatureMatches, TakenUnit, u
<1>6. CASE Kind[u] = "object"
  <2>1. IsObjectUpToDate(u)
    BY <1>4, <1>6 DEF UpToDate
  <2> QED BY <1>2, <1>3, <1>6, <2>1 DEF IsObjectUpToDate, ToolchainSignatureMatches, TakenUnit, u
<1>7. CASE Kind[u] = "wrapper"
  <2>1. IsWrapperUpToDate(u)
    BY <1>4, <1>7 DEF UpToDate
  <2> QED BY <1>2, <1>7, <2>1
          DEF IsWrapperUpToDate, WrapperMatches, ToolchainSignatureMatches, TakenUnit, u
<1> QED BY <1>2, <1>5, <1>6, <1>7

\* An object that has just been written can be taken.
LEMMA MadeCanBeTaken ==
    ASSUME TypeOK, BuildFits, WrittenBefore, TakenFits, Compile
    PROVE  TakenUnit(Unit)'
<1> DEFINE u == Unit
           file == Made(CompiledFrom(u), CompiledUnder(u), clock)
<1>1. /\ u \in Units /\ Closure[u] \subseteq Passed /\ u \notin Closure[u] /\ Passed \subseteq Units
      /\ u \in Units /\ CanCompile(u)
  BY UnitFits, PassedFits DEF Compile, At, CanCompile
<1>2. Unit' = u /\ build'.loaded = build.loaded /\ times' = times /\ cfile' = cfile
  BY Stays DEF Compile, At, Idle
<1>3. obj'[u] = file /\ \A d \in Closure[u] : obj'[d] = obj[d]
  BY <1>1 DEF Compile, TypeOK
<1>4. file.at = clock /\ file \in Artifact
  BY <1>1, CompiledFits, MadeFits
<1>5. obj'[u] # None
  BY <1>3, <1>4, Written
<1>6. Kind[u] # "object" => cfile[u] # None /\ cfile[u].whole
  BY <1>1 DEF CanCompile, Included
<1>7. \A f \in Sources[u] : times[f][build.loaded[f]] <= clock
  BY <1>1, ClosureFits DEF TypeOK, BuildFits
<1>8. \A d \in Closure[u] : obj[d] # None /\ obj[d].at <= clock
  BY <1>1 DEF TakenFits, Taken, WrittenBefore
<1>9. cfile[u].at <= clock
  BY <1>1 DEF WrittenBefore
<1> HIDE DEF u, file
<1> QED BY <1>2, <1>3, <1>4, <1>5, <1>6, <1>7, <1>8, <1>9 DEF TakenUnit

\* A step that leaves the passed units, and what they were compared with, as they are.
LEMMA PassedSame ==
    ASSUME TypeOK, BuildFits, TakenFits, build'.loaded = build.loaded,
           \A f \in Files : \A v \in 1 .. Len(times[f]) : times'[f][v] = times[f][v],
           \A u \in Passed : cfile'[u] = cfile[u] /\ obj'[u] = obj[u]
    PROVE  \A u \in Passed : TakenUnit(u)'
<1> TAKE u \in Passed
<1>1. u \in Units /\ Closure[u] \subseteq Passed /\ Sources[u] \subseteq Files
  BY PassedFits, ClosureFits
<1>2. TakenUnit(u)
  BY DEF TakenFits, Taken, TakenUnit
<1>3. \A f \in Sources[u] : times'[f][build'.loaded[f]] = times[f][build.loaded[f]]
  BY <1>1 DEF BuildFits
<1>4. \A d \in Closure[u] : obj'[d] = obj[d]
  BY <1>1
<1> QED BY <1>2, <1>3, <1>4 DEF TakenUnit

\* A step to another state of the same unit.
LEMMA StaysPassed ==
    ASSUME TypeOK, NEW pc \in {"write", "cc", "sign"},
           build.pc \in {"check", "write", "cc", "sign"}, Goto(pc)
    PROVE  /\ Passed' = Passed
           /\ Taken' = Passed \cup (IF pc = "sign" THEN {Unit} ELSE {})
           /\ build'.req = build.req
<1>1. build'.pc = pc /\ build'.req = build.req /\ build'.i = build.i /\ Unit' = Unit
  BY Stays DEF Idle
<1>2. Passed' = Passed
  BY <1>1 DEF Passed, Idle
<1> QED BY <1>1, <1>2 DEF Taken

\* Every step keeps what holds of the objects the build takes.
LEMMA TakenKept == TypeOK /\ BuildFits /\ WrittenBefore /\ TakenFits /\ [Next]_vars => TakenFits'
<1> SUFFICES ASSUME TypeOK, BuildFits, WrittenBefore, TakenFits, [Next]_vars PROVE TakenFits'
  OBVIOUS
<1>0. ASSUME \A u \in Passed' : sig'[u] = build'.req.sig, \A u \in Taken' : TakenUnit(u)'
      PROVE  TakenFits'
  BY <1>0 DEF TakenFits, TakenUnit
<1>a. /\ \A u \in Passed : sig[u] = build.req.sig
      /\ \A u \in Taken : TakenUnit(u)
  BY DEF TakenFits, TakenUnit
<1>b. UNCHANGED <<times, cfile, obj, build>> => \A u \in Taken : TakenUnit(u)'
  BY <1>a DEF TakenUnit
<1>1. CASE Start
  <2>1. build'.pc = "check" /\ build'.i = 1
    BY <1>1 DEF Start
  <2>2. Passed' = {}
    BY <2>1 DEF Passed, Idle
  <2>3. Taken' = {}
    BY <2>1, <2>2 DEF Taken
  <2> QED BY <1>0, <2>2, <2>3
<1>2. CASE Reuse
  <2>1. /\ Passed' = Passed \cup {Unit} /\ Taken' = Passed' /\ build'.req = build.req
        /\ build'.loaded = build.loaded /\ UNCHANGED <<times, cfile, obj, sig>>
    BY <1>2, UnitPassed DEF Reuse, At
  <2>2. sig[Unit] = build.req.sig /\ TakenUnit(Unit)
    BY <1>2, UpToDateFits DEF Reuse, At
  <2>3. \A u \in Taken' : TakenUnit(u)
    BY <1>a, <2>1, <2>2 DEF Taken
  <2>4. \A u \in Taken' : TakenUnit(u)'
    BY <2>1, <2>3 DEF TakenUnit
  <2> QED BY <1>0, <1>a, <2>1, <2>2, <2>4
<1>3. CASE MustMake
  <2>1. \E pc \in {"cc", "write"} : Goto(pc)
    BY <1>3 DEF MustMake
  <2>2. /\ Passed' = Passed /\ Taken' = Passed /\ build'.req = build.req
        /\ build'.loaded = build.loaded
    BY <1>3, <2>1, StaysPassed, Stays DEF MustMake, At, Idle
  <2>3. \A u \in Passed : TakenUnit(u)'
    BY <1>3, <2>2, PassedSame DEF MustMake
  <2> QED BY <1>0, <1>3, <1>a, <2>2, <2>3 DEF MustMake
<1>4. CASE WriteText
  <2>1. /\ Passed' = Passed /\ Taken' = Passed /\ build'.req = build.req
        /\ build'.loaded = build.loaded
    BY <1>4, StaysPassed, Stays DEF WriteText, At, Idle
  <2>2. \A u \in Passed : cfile'[u] = cfile[u]
    BY <1>4, UnitFits, PassedFits DEF WriteText, At, TypeOK
  <2>3. \A u \in Passed : TakenUnit(u)'
    BY <1>4, <2>1, <2>2, PassedSame DEF WriteText
  <2> QED BY <1>0, <1>4, <1>a, <2>1, <2>3 DEF WriteText
<1>5. CASE Compile
  <2>1. /\ Passed' = Passed /\ Taken' = Passed \cup {Unit} /\ build'.req = build.req
        /\ build'.loaded = build.loaded /\ Unit' = Unit
    BY <1>5, StaysPassed, Stays DEF Compile, At, Idle
  <2>2. \A u \in Passed : obj'[u] = obj[u]
    BY <1>5, UnitFits, PassedFits DEF Compile, At, TypeOK
  <2>3. \A u \in Passed : TakenUnit(u)'
    BY <1>5, <2>1, <2>2, PassedSame DEF Compile
  <2>4. TakenUnit(Unit)'
    BY <1>5, MadeCanBeTaken
  <2>5. \A u \in Taken' : TakenUnit(u)'
    BY <2>1, <2>3, <2>4 DEF TakenUnit
  <2> QED BY <1>0, <1>5, <1>a, <2>1, <2>5 DEF Compile
<1>6. CASE WriteSignature
  <2>1. /\ Passed' = Passed \cup {Unit} /\ Taken' = Passed' /\ build'.req = build.req
        /\ build'.loaded = build.loaded /\ UNCHANGED <<times, cfile, obj>>
    BY <1>6, UnitPassed DEF WriteSignature, At
  <2>2. Taken' = Taken
    BY <1>6, <2>1 DEF Taken, WriteSignature, At
  <2>3. \A u \in Taken' : TakenUnit(u)'
    BY <1>a, <2>1, <2>2 DEF TakenUnit
  <2>4. \A u \in Passed' : sig'[u] = build.req.sig
    BY <1>6, <1>a, <2>1, UnitFits, PassedFits DEF WriteSignature, At, TypeOK
  <2> QED BY <1>0, <2>1, <2>3, <2>4
<1>7. CASE Link \/ SkipLink
  <2>1. /\ build.pc = "link" /\ build'.pc = "done" /\ build'.req = build.req
        /\ build'.loaded = build.loaded /\ UNCHANGED <<times, cfile, obj, sig>>
    BY <1>7, Stays DEF Link, SkipLink, At, Idle
  <2>2. Passed' = Passed /\ Taken' = Passed
    BY <2>1 DEF Passed, Taken, Idle, UnitsOf
  <2>3. \A u \in Passed : TakenUnit(u)'
    BY <2>1, PassedSame
  <2> QED BY <1>0, <1>a, <2>1, <2>2, <2>3
<1>8. CASE Leave
  <2>1. build'.pc = Idle
    BY <1>8, NoBuildFits DEF Leave
  <2>2. Passed' = {} /\ Taken' = {}
    BY <2>1 DEF Passed, Taken, Idle
  <2> QED BY <1>0, <2>2
<1>9. CASE Fail \/ LinkFails \/ KilledWriting
  BY <1>0, <1>9, Abandoned DEF Fail, LinkFails, KilledWriting
<1>10. CASE Edit
  <2>1. /\ UNCHANGED <<cfile, obj, sig, build>>
        /\ \A f \in Files : \A v \in 1 .. Len(times[f]) : times'[f][v] = times[f][v]
    BY <1>10, EditFits DEF Edit
  <2>2. Passed' = Passed /\ Taken' = Taken
    BY <2>1 DEF Passed, Taken, UnitsOf, Unit
  <2>3. ASSUME NEW u \in Taken PROVE TakenUnit(u)'
    <3>1. u \in Units
      BY PassedFits, UnitFits DEF Taken
    <3>2. \A f \in Sources[u] : times'[f][build.loaded[f]] = times[f][build.loaded[f]]
      BY <2>1, <3>1, ClosureFits DEF BuildFits
    <3> QED BY <1>a, <2>1, <3>2 DEF TakenUnit
  <2> QED BY <1>0, <1>a, <2>1, <2>2, <2>3
<1>11. CASE Tick \/ UNCHANGED vars
  <2>1. UNCHANGED <<times, cfile, obj, sig, build>>
    BY <1>11 DEF Tick, vars
  <2>2. Passed' = Passed /\ Taken' = Taken
    BY <2>1 DEF Passed, Taken, UnitsOf, Unit
  <2> QED BY <1>0, <1>a, <1>b, <2>1, <2>2
<1> QED BY <1>1, <1>2, <1>3, <1>4, <1>5, <1>6, <1>7, <1>8, <1>9, <1>10, <1>11 DEF Next

-----------------------------------------------------------------------------
(* What texts and objects are made under.                                  *)

\* A unit that is not torn, and the texts it was made of.
SoundUnit(u) == Sound(obj[u], sig[u]) /\ Sound(cfile[u], sig[u])

\* Texts that fit the build give an object that fits it.
LEMMA CompiledSound ==
    ASSUME TypeOK, BuildFits, TakenFits, ConfigFits, Compile, Closure[Unit] \cap torn = {}
    PROVE  CompiledUnder(Unit) \subseteq {build.req.sig}
<1> DEFINE s == build.req.sig
<1>1. /\ Unit \in Units /\ Closure[Unit] \subseteq Passed /\ Passed \subseteq Units
      /\ Unit \notin Closure[Unit]
  BY UnitFits, PassedFits DEF Compile, At
<1>2. Sound(cfile[Unit], s)
  BY DEF ConfigFits, Compile, At
<1>3. ASSUME NEW d \in Closure[Unit] PROVE Sound(cfile[d], s)
  <2>1. d \notin torn /\ ~Making(d) /\ sig[d] = s /\ d \in Units
    BY <1>1 DEF Making, TakenFits
  <2> QED BY <2>1 DEF ConfigFits
<1>4. CASE Kind[Unit] = "object"
  BY <1>4 DEF CompiledUnder
<1>5. CASE Kind[Unit] # "object"
  <2>1. CompiledUnder(Unit) = UNION { cfile[d].sigs : d \in Included(Unit) }
    BY <1>5 DEF CompiledUnder
  <2>2. \A d \in Included(Unit) : cfile[d] # None
    BY <1>5 DEF Compile
  <2>3. \A d \in Included(Unit) : cfile[d].sigs \subseteq {s}
    BY <1>2, <1>3, <2>2 DEF Included, Sound
  <2> QED BY <2>1, <2>3
<1> QED BY <1>4, <1>5

\* Every step keeps what texts and objects are made under.
LEMMA ConfigFitsKept ==
    TypeOK /\ BuildFits /\ ContentsFit /\ TakenFits /\ ConfigFits /\ [Next]_vars => ConfigFits'
<1> SUFFICES ASSUME TypeOK, BuildFits, ContentsFit, TakenFits, ConfigFits, [Next]_vars
             PROVE  ConfigFits'
  OBVIOUS
<1>a. \A u \in Units : u \notin torn /\ ~Making(u) => SoundUnit(u)
  BY DEF ConfigFits, SoundUnit
<1>b. ASSUME \A u \in Units : u \notin torn' /\ ~Making(u)' => SoundUnit(u)',
             build'.pc \in {"cc", "sign"} => Sound(cfile'[Unit'], build'.req.sig),
             build'.pc = "sign" /\ Closure[Unit'] \cap torn' = {}
                => Sound(obj'[Unit'], build'.req.sig)
      PROVE  ConfigFits'
  BY <1>b DEF ConfigFits, SoundUnit, Sound
<1>c. ASSUME UNCHANGED <<cfile, obj, sig>>, build'.pc \notin {"cc", "sign"}, torn \subseteq torn',
             \A u \in Units : Making(u) => u \in torn' \/ Making(u)'
      PROVE  ConfigFits'
  <2>1. \A u \in Units : u \notin torn' /\ ~Making(u)' => SoundUnit(u)'
    BY <1>a, <1>c DEF SoundUnit, Sound
  <2> QED BY <1>b, <1>c, <2>1
<1>1. CASE Start
  BY <1>1, <1>c DEF Start, Making, Idle
<1>2. CASE Reuse
  BY <1>2, <1>c, UnitPassed DEF Reuse, At, Making
<1>3. CASE MustMake
  <2>1. build.pc = "check" /\ UNCHANGED <<cfile, obj, sig, torn>> /\ Unit \in Units
    BY <1>3, UnitFits DEF MustMake, At
  <2>2. \A u \in Units : ~Making(u)
    BY <2>1 DEF Making
  <2>3. CASE Kind[Unit] = "object" \/ (Kind[Unit] = "wrapper" /\ WrapperMatches(Unit))
    <3>1. Goto("cc")
      BY <1>3, <2>3 DEF MustMake
    <3>2. build'.pc = "cc" /\ build'.req = build.req /\ Unit' = Unit
      BY <2>1, <3>1, Stays DEF Idle
    <3>3. Sound(cfile[Unit], build.req.sig)
      BY <2>1, <2>3 DEF ContentsFit, WrapperMatches, Sound
    <3>4. \A u \in Units : u \notin torn' => SoundUnit(u)'
      BY <1>a, <2>1, <2>2 DEF SoundUnit, Sound
    <3> QED BY <1>b, <2>1, <3>2, <3>3, <3>4 DEF Sound
  <2>4. CASE ~(Kind[Unit] = "object" \/ (Kind[Unit] = "wrapper" /\ WrapperMatches(Unit)))
    <3>1. Goto("write")
      BY <1>3, <2>4 DEF MustMake
    <3>2. build'.pc = "write"
      BY <2>1, <3>1, Stays DEF Idle
    <3> QED BY <1>c, <2>1, <2>2, <3>2
  <2> QED BY <2>3, <2>4
<1>4. CASE WriteText
  <2> DEFINE file == Made(TextOf(Unit).in, TextOf(Unit).sigs, clock)
  <2>1. /\ build.pc = "write" /\ UNCHANGED <<obj, sig, torn>> /\ Unit \in Units
        /\ build'.pc = "cc" /\ build'.req = build.req /\ Unit' = Unit
    BY <1>4, UnitFits, Stays DEF WriteText, At, Idle
  <2>2. Sound(file, build.req.sig)
    BY <2>1, TextFits DEF Made, Sound
  <2> HIDE DEF file
  <2>3. cfile' = [cfile EXCEPT ![Unit] = file]
    BY <1>4 DEF WriteText, file
  <2>4. \A u \in Units : u # Unit => ~Making(u)
    BY DEF Making
  <2>5. \A u \in Units : u \notin torn' /\ ~Making(u)' => SoundUnit(u)'
    <3>1. \A u \in Units : ~Making(u)' => u # Unit
      BY <2>1 DEF Making
    <3> QED BY <1>a, <2>1, <2>3, <2>4, <3>1 DEF SoundUnit, Sound, TypeOK
  <2>6. cfile'[Unit] = file
    BY <2>1, <2>3 DEF TypeOK
  <2> QED BY <1>b, <2>1, <2>2, <2>5, <2>6
<1>5. CASE Compile
  <2> DEFINE file == Made(CompiledFrom(Unit), CompiledUnder(Unit), clock)
  <2>1. /\ build.pc = "cc" /\ UNCHANGED <<cfile, sig, torn>> /\ Unit \in Units
        /\ build'.pc = "sign" /\ build'.req = build.req /\ Unit' = Unit
    BY <1>5, UnitFits, Stays DEF Compile, At, Idle
  <2>2. Closure[Unit] \cap torn = {} => Sound(file, build.req.sig)
    BY <1>5, CompiledSound DEF Made, Sound
  <2>3. Sound(cfile[Unit], build.req.sig)
    BY <2>1 DEF ConfigFits
  <2> HIDE DEF file
  <2>4. obj' = [obj EXCEPT ![Unit] = file]
    BY <1>5 DEF Compile, file
  <2>5. \A u \in Units : u # Unit => ~Making(u)
    BY DEF Making
  <2>6. \A u \in Units : u \notin torn' /\ ~Making(u)' => SoundUnit(u)'
    <3>1. \A u \in Units : ~Making(u)' => u # Unit
      BY <2>1 DEF Making
    <3> QED BY <1>a, <2>1, <2>4, <2>5, <3>1 DEF SoundUnit, Sound, TypeOK
  <2>7. obj'[Unit] = file
    BY <2>1, <2>4 DEF TypeOK
  <2> QED BY <1>b, <2>1, <2>2, <2>3, <2>6, <2>7
<1>6. CASE WriteSignature
  <2>1. /\ build.pc = "sign" /\ UNCHANGED <<cfile, obj>> /\ Unit \in Units
        /\ build'.pc \in {"check", "link"} /\ sig' = [sig EXCEPT ![Unit] = build.req.sig]
        /\ torn' = IF Closure[Unit] \cap torn = {} THEN torn \ {Unit} ELSE torn \cup {Unit}
    BY <1>6, UnitFits, UnitPassed DEF WriteSignature, At
  <2>2. \A u \in Units : u # Unit => ~Making(u)
    BY DEF Making
  <2>3. ASSUME NEW u \in Units, u \notin torn' PROVE SoundUnit(u)'
    <3>1. CASE u = Unit
      <4>1. Closure[Unit] \cap torn = {}
        BY <2>1, <2>3, <3>1
      <4>2. Sound(obj[u], build.req.sig) /\ Sound(cfile[u], build.req.sig)
        BY <2>1, <3>1, <4>1 DEF ConfigFits
      <4>3. sig'[u] = build.req.sig
        BY <2>1, <3>1 DEF TypeOK
      <4> QED BY <2>1, <4>2, <4>3 DEF SoundUnit, Sound
    <3>2. CASE u # Unit
      <4>1. u \notin torn /\ sig'[u] = sig[u]
        BY <2>1, <2>3, <3>2 DEF TypeOK
      <4>2. SoundUnit(u)
        BY <1>a, <2>2, <3>2, <4>1
      <4> QED BY <2>1, <4>1, <4>2 DEF SoundUnit, Sound
    <3> QED BY <3>1, <3>2
  <2> QED BY <1>b, <2>1, <2>3
<1>7. CASE Link \/ SkipLink
  <2>1. build.pc = "link" /\ build'.pc = "done"
    BY <1>7, Stays DEF Link, SkipLink, At, Idle
  <2> QED BY <1>7, <1>c, <2>1 DEF Link, SkipLink, Making
<1>8. CASE Leave
  BY <1>8, <1>c, NoBuildFits DEF Leave, At, Making, Idle
<1>9. CASE Fail \/ LinkFails
  BY <1>9, <1>c, Abandoned DEF Fail, LinkFails, Making, Idle
<1>10. CASE KilledWriting
  <2>1. /\ build'.pc = Idle /\ torn \subseteq torn'
        /\ build.pc \in {"write", "cc", "sign"} => Unit \in torn'
    BY <1>10, Abandoned DEF KilledWriting
  <2>2. ASSUME NEW u \in Units, u \notin torn' PROVE SoundUnit(u)'
    <3>1. u \notin torn /\ ~Making(u)
      BY <2>1, <2>2 DEF Making
    <3>2. cfile'[u] = cfile[u] /\ obj'[u] = obj[u] /\ sig'[u] = sig[u]
      BY <1>10, <2>1, <2>2 DEF KilledWriting, At, TypeOK
    <3> QED BY <1>a, <3>1, <3>2 DEF SoundUnit, Sound
  <2> QED BY <1>b, <2>1, <2>2 DEF Idle
<1>11. CASE Edit \/ Tick \/ UNCHANGED vars
  BY <1>11 DEF Edit, Tick, vars, ConfigFits, Making, Sound, Unit
<1> QED BY <1>1, <1>2, <1>3, <1>4, <1>5, <1>6, <1>7, <1>8, <1>9, <1>10, <1>11 DEF Next

-----------------------------------------------------------------------------
(* What is linked.                                                         *)

\* What LinkFits says of the output of a request.
OutputFits(r) ==
    Owned(r.exe) /\ exe[r.exe].whole =>
        /\ DOMAIN exe[r.exe].of = UnitsOf(r)
        /\ \A u \in UnitsOf(r) : exe[r.exe].of[u] = obj[u] \/ obj[u].at >= exe[r.exe].at

\* Whether the output is up to date depends on the build's request, objects and outputs.
LEMMA SameLink ==
    ASSUME build'.req = build.req, UNCHANGED <<obj, exe>>
    PROVE  IsLinkedOutputUpToDate' <=> IsLinkedOutputUpToDate
BY DEF IsLinkedOutputUpToDate, UnitsOf

\* Every step keeps what outputs hold.
LEMMA LinkFitsKept == TypeOK /\ BuildFits /\ WrittenBefore /\ LinkFits /\ [Next]_vars => LinkFits'
<1> SUFFICES ASSUME TypeOK, BuildFits, WrittenBefore, LinkFits, [Next]_vars PROVE LinkFits'
  OBVIOUS
<1>a. \A r \in Requests : OutputFits(r) /\ r.exe \in Outputs /\ UnitsOf(r) \subseteq Units
  BY RequestFits DEF LinkFits, OutputFits
<1>b. ASSUME build'.pc = "done" => IsLinkedOutputUpToDate', \A r \in Requests : OutputFits(r)'
      PROVE  LinkFits'
  BY <1>b DEF LinkFits, OutputFits
<1>c. UNCHANGED <<obj, exe>> => \A r \in Requests : OutputFits(r)'
  BY <1>a DEF OutputFits, UnitsOf
<1>d. ASSUME NEW file, file.at = clock, exe' = exe, Unit \in Units,
             obj' = [obj EXCEPT ![Unit] = file]
      PROVE  \A r \in Requests : OutputFits(r)'
  <2> TAKE r \in Requests
  <2>1. exe[r.exe].at <= clock
    BY <1>a DEF WrittenBefore
  <2>2. exe[r.exe].at \in Nat /\ clock \in Nat
    BY <1>a DEF TypeOK, Programs
  <2>3. \A u \in UnitsOf(r) : obj'[u] = obj[u] \/ obj'[u].at >= exe[r.exe].at
    BY <1>a, <1>d, <2>1, <2>2 DEF TypeOK
  <2> QED BY <1>a, <1>d, <2>3 DEF OutputFits, UnitsOf
<1>1. CASE Start \/ Reuse \/ MustMake \/ WriteText \/ WriteSignature \/ Fail
  <2>1. build'.pc # "done"
    <3>1. CASE Start
      BY <3>1 DEF Start
    <3>2. CASE Reuse \/ WriteSignature
      BY <3>2, UnitPassed DEF Reuse, WriteSignature, At
    <3>3. CASE MustMake \/ WriteText
      <4>1. \E pc \in {"cc", "write"} : Goto(pc)
        BY <3>3 DEF MustMake, WriteText
      <4> QED BY <3>3, <4>1, Stays DEF MustMake, WriteText, At, Idle
    <3>4. CASE Fail
      BY <3>4, Abandoned DEF Fail, Idle
    <3> QED BY <1>1, <3>1, <3>2, <3>3, <3>4
  <2> QED BY <1>1, <1>b, <1>c, <2>1
          DEF Start, Reuse, MustMake, WriteText, WriteSignature, Fail
<1>2. CASE Compile
  <2>1. Unit \in Units /\ build'.pc = "sign"
    BY <1>2, UnitFits, Stays DEF Compile, At, Idle
  <2>2. Made(CompiledFrom(Unit), CompiledUnder(Unit), clock).at = clock
    BY DEF Made
  <2> QED BY <1>2, <1>b, <1>d, <2>1, <2>2 DEF Compile
<1>3. CASE Link
  <2> DEFINE o == build.req.exe
  <2>1. /\ build.req \in Requests /\ build'.req = build.req /\ build'.pc = "done"
        /\ obj' = obj
    BY <1>3, Stays, Building DEF Link, At, Idle
  <2>2. exe' = [exe EXCEPT ![o] = Linked(clock)] /\ o \in Outputs
    BY <1>3, <2>1, RequestFits DEF Link
  <2>3. exe'[o] = Linked(clock)
    BY <2>2 DEF TypeOK
  <2>4. /\ Linked(clock).there /\ Linked(clock).at = clock
        /\ Linked(clock).of = LinkOf(build.req)
    BY LinkedFits
  <2>5. \A u \in UnitsOf(build.req) : obj[u].at <= clock
    BY <1>a, <2>1 DEF WrittenBefore
  <2>6. IsLinkedOutputUpToDate'
    BY <2>1, <2>3, <2>4, <2>5 DEF IsLinkedOutputUpToDate, UnitsOf
  <2>7. ASSUME NEW r \in Requests PROVE OutputFits(r)'
    <3>1. CASE r.exe # o
      <4>1. exe'[r.exe] = exe[r.exe]
        BY <1>a, <2>2, <3>1 DEF TypeOK
      <4> QED BY <1>a, <2>1, <4>1 DEF OutputFits, UnitsOf
    <3>2. CASE r.exe = o /\ ~Owned(o)
      BY <3>2 DEF OutputFits
    <3>3. CASE r.exe = o /\ Owned(o)
      <4>1. r = build.req
        BY <2>1, <3>3 DEF Owned
      <4>2. /\ DOMAIN LinkOf(r) = UnitsOf(r)
            /\ \A u \in UnitsOf(r) : LinkOf(r)[u] = obj[u]
        BY DEF LinkOf
      <4> QED BY <2>1, <2>3, <2>4, <4>1, <4>2 DEF OutputFits, UnitsOf
    <3> QED BY <3>1, <3>2, <3>3
  <2> QED BY <1>b, <2>6, <2>7
<1>4. CASE SkipLink
  <2>1. build'.req = build.req /\ UNCHANGED <<obj, exe>> /\ IsLinkedOutputUpToDate
    BY <1>4, Stays DEF SkipLink, At, Idle
  <2> QED BY <1>b, <1>c, <2>1, SameLink
<1>5. CASE Leave
  BY <1>5, <1>b, <1>c, NoBuildFits DEF Leave, Idle
<1>6. CASE KilledWriting
  <2>1. build'.pc = Idle
    BY <1>6, Abandoned DEF KilledWriting
  <2>2. CASE At("cc")
    <3>1. exe' = exe /\ obj' = [obj EXCEPT ![Unit] = Partial(clock)] /\ Unit \in Units
      BY <1>6, <2>2, UnitFits DEF KilledWriting, At
    <3>2. Partial(clock).at = clock
      BY DEF Partial
    <3> QED BY <1>b, <1>d, <2>1, <3>1, <3>2 DEF Idle
  <2>3. CASE At("link") /\ ~IsLinkedOutputUpToDate
    <3> DEFINE o == build.req.exe
               part == HalfLinked(clock)
    <3>1. exe' = [exe EXCEPT ![o] = part] /\ obj' = obj
      BY <1>6, <2>3 DEF KilledWriting, At
    <3>2. ~part.whole
      BY LinkedFits
    <3> HIDE DEF part
    <3>3. \A r \in Requests : exe'[r.exe] = exe[r.exe] \/ exe'[r.exe] = part
      BY <1>a, <3>1 DEF TypeOK
    <3>4. \A r \in Requests : OutputFits(r)'
      BY <1>a, <3>1, <3>2, <3>3 DEF OutputFits, UnitsOf
    <3> QED BY <1>b, <2>1, <3>4 DEF Idle
  <2>4. CASE ~At("cc") /\ ~(At("link") /\ ~IsLinkedOutputUpToDate)
    BY <1>6, <1>b, <1>c, <2>1, <2>4 DEF KilledWriting, Idle
  <2> QED BY <2>2, <2>3, <2>4
<1>8. CASE LinkFails
  <2>1. build'.pc = Idle /\ obj' = obj /\ exe' = [exe EXCEPT ![build.req.exe] = Gone(clock)]
    BY <1>8, Abandoned DEF LinkFails
  <2>2. \A r \in Requests : exe'[r.exe] = exe[r.exe] \/ exe'[r.exe] = Gone(clock)
    BY <1>a, <2>1 DEF TypeOK
  <2>3. ~Gone(clock).whole
    BY LinkedFits
  <2>4. \A r \in Requests : OutputFits(r)'
    BY <1>a, <2>1, <2>2, <2>3 DEF OutputFits, UnitsOf
  <2> QED BY <1>b, <2>1, <2>4 DEF Idle
<1>7. CASE Edit \/ Tick \/ UNCHANGED vars
  <2>1. UNCHANGED <<obj, exe, build>>
    BY <1>7 DEF Edit, Tick, vars
  <2>2. build'.pc = "done" => IsLinkedOutputUpToDate'
    BY <2>1, SameLink DEF LinkFits
  <2> QED BY <1>b, <1>c, <2>1, <2>2
<1> QED BY <1>1, <1>2, <1>3, <1>4, <1>5, <1>6, <1>7, <1>8 DEF Next

\* Every step keeps the order of objects and the outputs beside their sources: a reused
\* object is no older, a new one is the newest, and only a link makes an output newer.
LEMMA OutputsKept == TypeOK /\ BuildFits /\ WrittenBefore /\ OutputsFit /\ [Next]_vars => OutputsFit'
<1> SUFFICES ASSUME TypeOK, BuildFits, WrittenBefore, OutputsFit, [Next]_vars PROVE OutputsFit'
  OBVIOUS
<1> DEFINE Older(u, o) == exe[o].at <= obj[u].at
<1>a. ASSUME build.pc # "done"
      PROVE  \A u \in Taken : Kind[u] = "package" => \A o \in OutputsIn[u] : Older(u, o)
  BY <1>a DEF OutputsFit
<1>b. ASSUME \A u \in Taken' : Kind[u] = "package" => \A o \in OutputsIn[u] : exe'[o].at <= obj'[u].at
      PROVE  OutputsFit'
  BY <1>b DEF OutputsFit
<1>c. ASSUME Taken' = {} PROVE OutputsFit'
  BY <1>c DEF OutputsFit
<1>1. CASE Start
  <2>1. build'.pc = "check" /\ build'.i = 1
    BY <1>1 DEF Start
  <2>2. Passed' = {}
    BY <2>1 DEF Passed, Idle
  <2> QED BY <1>c, <2>1, <2>2 DEF Taken
<1>2. CASE Reuse
  <2>1. /\ Taken' = Passed \cup {Unit} /\ UNCHANGED <<obj, exe>> /\ build.pc = "check"
        /\ UpToDate(Unit)
    BY <1>2, UnitPassed DEF Reuse, At
  <2>2. Kind[Unit] = "package" => \A o \in OutputsIn[Unit] : Older(Unit, o)
    BY <2>1 DEF UpToDate, IsPackageArtifactUpToDate, NoNewerSource
  <2> QED BY <1>a, <1>b, <2>1, <2>2 DEF Taken
<1>3. CASE MustMake \/ WriteText
  <2>1. \E pc \in {"cc", "write"} : Goto(pc)
    BY <1>3 DEF MustMake, WriteText
  <2>2. Taken' = Passed /\ UNCHANGED <<obj, exe>> /\ build.pc # "done"
    BY <1>3, <2>1, StaysPassed DEF MustMake, WriteText, At
  <2> QED BY <1>a, <1>b, <2>2 DEF Taken
<1>4. CASE Compile
  <2>1. Taken' = Passed \cup {Unit} /\ build.pc = "cc" /\ exe' = exe /\ Unit \in Units
    BY <1>4, StaysPassed, UnitFits DEF Compile, At
  <2>2. \A u \in Passed : obj'[u] = obj[u]
    BY <1>4, <2>1, UnitFits, PassedFits DEF Compile, TypeOK
  <2>3. obj'[Unit].at = clock
    BY <1>4, <2>1 DEF Compile, TypeOK, Made
  <2>4. Kind[Unit] = "package" => \A o \in OutputsIn[Unit] : exe[o].at <= clock
    BY <2>1, CacheAssumption DEF WrittenBefore, Outputs
  <2> QED BY <1>a, <1>b, <2>1, <2>2, <2>3, <2>4 DEF Taken
<1>5. CASE WriteSignature
  <2>1. Taken' = Passed \cup {Unit} /\ UNCHANGED <<obj, exe>> /\ build.pc = "sign"
    BY <1>5, UnitPassed DEF WriteSignature, At
  <2> QED BY <1>a, <1>b, <2>1 DEF Taken
<1>6. CASE Link \/ SkipLink
  <2>1. /\ build.pc = "link" /\ build'.pc = "done" /\ build'.req = build.req /\ obj' = obj
        /\ build.req \in Requests
    BY <1>6, Stays, Building DEF Link, SkipLink, At, Idle
  <2>2. Taken' = Passed
    BY <2>1 DEF Passed, Taken, Idle, UnitsOf
  <2>3. \A o \in Outputs : o = build.req.exe \/ exe'[o] = exe[o]
    BY <1>6 DEF Link, SkipLink, TypeOK
  <2>4. \A u \in Passed : OutputsIn[u] \subseteq Outputs
    BY PassedFits, CacheAssumption DEF Outputs
  <2> QED BY <1>a, <2>1, <2>2, <2>3, <2>4 DEF OutputsFit, Taken
<1>7. CASE Leave \/ Fail \/ LinkFails \/ KilledWriting
  <2>1. build'.pc = Idle
    BY <1>7, Abandoned, NoBuildFits DEF Leave, Fail, LinkFails, KilledWriting
  <2>2. Taken' = {}
    BY <2>1 DEF Passed, Taken, Idle
  <2> QED BY <1>c, <2>2
<1>8. CASE Edit \/ Tick \/ UNCHANGED vars
  <2>1. UNCHANGED <<obj, exe, build>>
    BY <1>8 DEF Edit, Tick, vars
  <2>2. Taken' = Taken
    BY <2>1 DEF Passed, Taken, UnitsOf, Unit
  <2> QED BY <2>1, <2>2 DEF OutputsFit
<1> QED BY <1>1, <1>2, <1>3, <1>4, <1>5, <1>6, <1>7, <1>8 DEF Next

-----------------------------------------------------------------------------
(* The invariant and the theorems.                                         *)

\* The cache is empty and no build has run.
LEMMA InitFits == Init => CacheInv
<1> SUFFICES ASSUME Init PROVE CacheInv
  OBVIOUS
<1>1. build = NoBuild /\ NoBuild.req \in Requests /\ NoBuild.pc = Idle /\ NoBuild.i = 1
      /\ NoBuild.loaded = [f \in Files |-> 1] /\ NoBuild \in Build
  BY NoBuildFits DEF Init
<1>2. /\ clock = 1 /\ times = [f \in Files |-> <<1>>]
      /\ \A u \in Units : cfile[u] = None /\ obj[u] = None /\ sig[u] = "none"
      /\ exe = [o \in Outputs |-> Gone(0)]
  BY DEF Init
<1>10. Gone(0) \in Programs /\ Gone(0).at = 0 /\ ~Gone(0).whole
  <2>1. << >> \in [{} -> File]
    OBVIOUS
  <2> QED BY <2>1 DEF Gone, Programs
<1>3. TypeOK
  BY <1>1, <1>2, <1>10 DEF Init, TypeOK, File
<1>4. BuildFits
  <2>1. 1 \in 1 .. Len(build.req.order)
    BY <1>1, RequestFits
  <2> QED BY <1>1, <1>2, <2>1 DEF BuildFits, Idle
<1>5. WrittenBefore
  BY <1>2, <1>10, Written DEF WrittenBefore
<1>6. ContentsFit
  BY <1>2 DEF ContentsFit
<1>7. TakenFits
  BY <1>1 DEF TakenFits, Taken, Passed, Idle
<1>8. ConfigFits
  BY <1>1, <1>2 DEF ConfigFits, Sound, Idle
<1>9. LinkFits
  BY <1>1, <1>2, <1>10, RequestFits DEF LinkFits, Idle
<1>11. OutputsFit
  BY <1>1 DEF OutputsFit, Taken, Passed, Idle
<1> QED BY <1>3, <1>4, <1>5, <1>6, <1>7, <1>8, <1>9, <1>11 DEF CacheInv

\* CacheInv is inductive.
LEMMA CacheStep == CacheInv /\ [Next]_vars => CacheInv'
BY TypeKept, BuildKept, WrittenKept, ContentsKept, TakenKept, ConfigFitsKept, LinkFitsKept,
   OutputsKept DEF CacheInv

\* CacheInv holds in every state.
LEMMA CacheInvariant == Spec => []CacheInv
BY InitFits, CacheStep, PTL DEF Spec

\* Every variable of the build cache keeps its type, whatever is built, edited or killed.
THEOREM CacheTyped == Spec => []TypeOK
<1>1. CacheInv => TypeOK
  BY DEF CacheInv
<1> QED BY CacheInvariant, <1>1, PTL

\* What the times that are compared say of the versions that went into an object.
LEMMA TakenAreFresh == CacheInv => FreshUnlessRaced
<1> SUFFICES ASSUME CacheInv, NEW u \in Passed, NEW p \in obj[u].in,
                    ~(p[2] >= build.loaded[p[1]]), p[1] \notin Headers
             PROVE  times[p[1]][p[2] + 1] <= obj[u].at
  BY DEF FreshUnlessRaced, Raced
<1>1. TypeOK /\ BuildFits /\ ContentsFit /\ TakenFits
  BY DEF CacheInv
<1>2. u \in Units /\ Closure[u] \subseteq Passed /\ Passed \subseteq Units /\ obj[u] # None
  BY <1>1, PassedFits DEF TakenFits, Taken
<1>3. obj[u] \in Artifact
  BY <1>1, <1>2 DEF TypeOK, File
<1> DEFINE f == p[1]
           v == p[2]
           loaded == build.loaded[f]
<1>4. f \in Files /\ v \in Nat
  BY <1>3 DEF Artifact
<1>5. PICK d \in Included(u) : Kind[d] # "wrapper" /\ f \in Sources[d]
  BY <1>1, <1>2 DEF ContentsFit, AllSources
<1>6. d \in Passed /\ d \in Units
  BY <1>2 DEF Included
<1>7. times[f][loaded] <= obj[d].at
  BY <1>1, <1>5, <1>6 DEF TakenFits, Taken
<1>8. obj[d].at <= obj[u].at
  <2>1. obj[u].at \in Nat
    BY <1>3 DEF Artifact
  <2>2. d \in Closure[u] => obj[d].at <= obj[u].at
    BY <1>1 DEF TakenFits, Taken
  <2> QED BY <2>1, <2>2 DEF Included
<1>9. loaded \in 1 .. Len(times[f]) /\ Len(times[f]) \in Nat
  BY <1>1, <1>4 DEF BuildFits, TypeOK
<1>10. v + 1 \in 1 .. Len(times[f]) /\ v + 1 <= loaded
  BY <1>4, <1>9
<1>11. times[f] \in Seq(Nat)
  BY <1>1, <1>4 DEF TypeOK
<1>12. times[f][v + 1] <= times[f][loaded]
  BY <1>1, <1>4, <1>9, <1>10 DEF TypeOK
<1>13. /\ times[f][v + 1] \in Nat /\ times[f][loaded] \in Nat
       /\ obj[d].at \in Nat /\ obj[u].at \in Nat
  <2>1. times[f][v + 1] \in Nat /\ times[f][loaded] \in Nat
    <3>1. \A s \in Seq(Nat) : \A i \in 1 .. Len(s) : s[i] \in Nat
      OBVIOUS
    <3> HIDE DEF f, v, loaded
    <3> QED BY <1>9, <1>10, <1>11, <3>1
  <2>2. obj[d].at \in Nat /\ obj[u].at \in Nat
    BY <1>1, <1>2, <1>6 DEF TypeOK, File, Artifact, None
  <2> QED BY <2>1, <2>2
<1> HIDE DEF f, v, loaded
<1>14. times[f][v + 1] <= obj[u].at
  BY <1>7, <1>8, <1>12, <1>13
<1> QED BY <1>14 DEF f, v

\* A unit a build takes is made of the sources the build has read, unless a source was
\* edited before the write of the object it is compared with.
THEOREM TakenFresh == Spec => []FreshUnlessRaced
BY CacheInvariant, TakenAreFresh, PTL

\* A unit a build takes is whole and made for its target and toolchain, unless it was
\* torn by an interruption.
THEOREM ConfigurationKept == Spec => []ConfigKept
<1>1. CacheInv => ConfigKept
  <2> SUFFICES ASSUME CacheInv, NEW u \in Passed, u \notin torn
               PROVE  obj[u].whole /\ obj[u].sigs \subseteq {build.req.sig}
    BY DEF ConfigKept
  <2>1. TypeOK /\ BuildFits /\ TakenFits /\ ConfigFits
    BY DEF CacheInv
  <2>2. ~Making(u) /\ u \in Units
    BY <2>1, UnitFits, PassedFits DEF Making
  <2>3. sig[u] = build.req.sig /\ obj[u] # None
    BY <2>1 DEF TakenFits, Taken
  <2> QED BY <2>1, <2>2, <2>3 DEF ConfigFits, Sound
<1> QED BY CacheInvariant, <1>1, PTL

\* After a build, with no edit since it read the sources, the next one finds the output
\* and every unit up to date, but for a package it has linked the output beside.
THEOREM SecondBuildIdle == Spec => []SecondBuildReuses
<1>1. CacheInv => SecondBuildReuses
  <2> SUFFICES ASSUME CacheInv, At("done"), build.loaded = Now
               PROVE  /\ IsLinkedOutputUpToDate
                      /\ \A u \in UnitsOf(build.req) : UpToDate(u) \/ LinkedBeside(u)
    BY DEF SecondBuildReuses
  <2>1. TypeOK /\ BuildFits /\ TakenFits /\ LinkFits /\ OutputsFit
    BY DEF CacheInv
  <2>2. IsLinkedOutputUpToDate
    BY <2>1 DEF LinkFits, At
  <2>3. UnitsOf(build.req) = Passed
    BY DEF Passed, At, Idle
  <2>4. ASSUME NEW u \in Passed, ~LinkedBeside(u) PROVE UpToDate(u)
    <3>1. u \in Units /\ TakenUnit(u) /\ ToolchainSignatureMatches(u)
      BY <2>1, PassedFits DEF TakenFits, Taken, TakenUnit, ToolchainSignatureMatches
    <3>2. \A f \in Sources[u] : times[f][build.loaded[f]] = Mtime(f)
      BY <3>1, ClosureFits DEF Now, Mtime
    <3>3. NoNewerImport(u)
      BY <3>1, ClosureFits DEF TakenUnit, NoNewerImport
    <3>4. CASE Kind[u] = "package"
      <4>1. ASSUME NEW o \in OutputsIn[u] PROVE exe[o].at <= obj[u].at
        <5>1. exe[o].at <= obj[u].at \/ o = build.req.exe
          BY <2>1, <3>4 DEF OutputsFit, Taken
        <5>2. o = build.req.exe => ~(obj[u].at < exe[o].at)
          BY <2>4, <3>4 DEF LinkedBeside
        <5>3. o \in Outputs
          BY <3>1, CacheAssumption DEF Outputs
        <5>4. exe[o].at \in Nat /\ obj[u].at \in Nat
          BY <2>1, <3>1, <5>3 DEF TypeOK, File, Artifact, Programs, None
        <5> QED BY <5>1, <5>2, <5>4
      <4>2. NoNewerSource(u)
        BY <3>1, <3>2, <3>4, <4>1 DEF NoNewerSource, TakenUnit
      <4> QED BY <3>1, <3>3, <3>4, <4>2 DEF UpToDate, IsPackageArtifactUpToDate, TakenUnit
    <3>5. CASE Kind[u] = "object"
      BY <3>1, <3>2, <3>5 DEF UpToDate, IsObjectUpToDate, TakenUnit
    <3>6. CASE Kind[u] = "wrapper"
      BY <3>1, <3>6 DEF UpToDate, IsWrapperUpToDate, WrapperMatches, TakenUnit
    <3> QED BY <3>1, <3>4, <3>5, <3>6, ClosureFits
  <2> QED BY <2>2, <2>3, <2>4
<1> QED BY CacheInvariant, <1>1, PTL

\* After a build, the output of a request that owns it holds the objects of its units.
THEOREM OutputLinked == Spec => []OutputIsLinked
<1>1. CacheInv => OutputIsLinked
  <2> DEFINE r == build.req
             o == r.exe
  <2> SUFFICES ASSUME CacheInv, At("done"), Owned(o), exe[o].whole,
                      \A u \in UnitsOf(r) : obj[u].at # exe[o].at
               PROVE  exe[o].of = LinkOf(r)
    BY DEF OutputIsLinked, HoldsLink
  <2>1. r \in Requests /\ o \in Outputs /\ UnitsOf(r) \subseteq Units
    BY Building, RequestFits DEF CacheInv
  <2>2. \A u \in UnitsOf(r) : obj[u].at <= exe[o].at
    BY DEF CacheInv, LinkFits, At, IsLinkedOutputUpToDate
  <2>3. /\ DOMAIN exe[o].of = UnitsOf(r)
        /\ \A u \in UnitsOf(r) : exe[o].of[u] = obj[u] \/ obj[u].at >= exe[o].at
    BY <2>1, <2>2 DEF CacheInv, LinkFits
  <2>4. exe[o].at \in Nat /\ \A u \in UnitsOf(r) : obj[u].at \in Nat
    BY <2>1 DEF CacheInv, TypeOK, File, Artifact, Programs, None
  <2>5. \A u \in UnitsOf(r) : exe[o].of[u] = obj[u]
    <3> TAKE u \in UnitsOf(r)
    <3>1. ~(obj[u].at >= exe[o].at)
      BY <2>2, <2>4
    <3> QED BY <2>3, <3>1
  <2>6. exe[o] \in Programs
    BY <2>1, <2>2 DEF CacheInv, TypeOK
  <2>7. exe[o].of = [u \in UnitsOf(r) |-> exe[o].of[u]]
    BY <2>3, <2>6 DEF Programs
  <2> QED BY <2>5, <2>7 DEF LinkOf
<1> QED BY CacheInvariant, <1>1, PTL
=============================================================================
