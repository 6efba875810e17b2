----------------------------- MODULE BuildCache ------------------------------
(***************************************************************************)
(* The build cache of `hop build` (src/src/hop_codegen.c): every unit of a *)
(* program has an object, the C text it was made from and a signature of   *)
(* the toolchain and target, and is made again when a file's time or the   *)
(* signature says so; the program is linked when an object is newer.       *)
(*                                                                         *)
(* One build runs at a time.  It can be killed between any two writes and  *)
(* inside them, the C compiler can fail, and sources can be edited at any  *)
(* time.  What a file is made of is kept as the set of file versions and   *)
(* signatures that went into it.                                           *)
(***************************************************************************)
EXTENDS Integers, Sequences, FiniteSets

CONSTANTS
    Units,       \* platform and builtin objects, packages, wrappers
    Kind,        \* of each unit: "object", "package" or "wrapper"
    Files,       \* source files
    Sources,     \* of each unit, the files whose times are compared
    Headers,     \* files of the library that every unit includes
    OutputsIn,   \* of each package, the outputs that lie in its directory
    Imports,     \* of each unit, the packages it imports
    Closure,     \* of each unit, what it imports, directly or not
    Requests,    \* builds: the units in order, the signature, the output
    MaxBuilds, MaxEdits, MaxClock

\* What LoadAndCheckPackageInput and the topological order give: imports are packages
\* and come first, the closure follows them; only packages import.
ASSUME CacheAssumption ==
    /\ Kind \in [Units -> {"object", "package", "wrapper"}]
    /\ Sources \in [Units -> SUBSET Files] /\ Headers \subseteq Files
    /\ OutputsIn \in [Units -> SUBSET { r.exe : r \in Requests }]
    /\ Imports \in [Units -> SUBSET Units] /\ Closure \in [Units -> SUBSET Units]
    /\ \A u \in Units :
          /\ Kind[u] # "package" => Closure[u] = {}
          /\ Imports[u] \subseteq Closure[u]
          /\ \A d \in Closure[u] :
                /\ Kind[d] = "package" /\ Closure[d] \subseteq Closure[u]
                /\ d \in Imports[u] \/ \E e \in Imports[u] : d \in Closure[e]
    /\ Requests # {} /\ MaxClock \in Nat /\ MaxBuilds \in Nat /\ MaxEdits \in Nat
    /\ \A r \in Requests :
          /\ r = [order |-> r.order, sig |-> r.sig, exe |-> r.exe]
          /\ r.order \in Seq(Units) /\ r.order # << >> /\ r.sig # "none"
          /\ \A i, j \in DOMAIN r.order : r.order[i] = r.order[j] => i = j
          /\ \A i \in DOMAIN r.order :
                Closure[r.order[i]] \subseteq { r.order[j] : j \in 1..(i - 1) }

None == [at |-> 0]       \* no such file
Idle == "idle"

VARIABLES
    clock,
    times,     \* of each source file, the times of its versions
    cfile,     \* of each unit, its C text
    obj,       \* of each unit, its object
    sig,       \* of each unit, the contents of its toolchain.sig
    exe,       \* of each output, the linked program, or when it was removed
    build,     \* the build that runs
    torn,      \* history: units whose making was interrupted since they were last
               \* made, and units made from the text of such a one
    builds     \* builds started

vars == <<clock, times, cfile, obj, sig, exe, build, torn, builds>>

Outputs == { r.exe : r \in Requests }
Sigs == { r.sig : r \in Requests }

\* Text or an object made of versions of files, under signatures.
Made(in, sigs, at) == [in |-> in, sigs |-> sigs, whole |-> TRUE, at |-> at]
Partial(at) == [in |-> {}, sigs |-> {}, whole |-> FALSE, at |-> at]

\* An output that is no more, and one that is not written to its end.
Gone(at) == [there |-> FALSE, of |-> << >>, whole |-> FALSE, at |-> at]
HalfLinked(at) == [there |-> TRUE, of |-> << >>, whole |-> FALSE, at |-> at]

\* GetFileMtimeNs of a source, and its version now.
Version(f) == Len(times[f])
Mtime(f) == times[f][Version(f)]
Read(fs, versions) == { <<f, versions[f]>> : f \in fs }
Now == [f \in Files |-> Version(f)]

NoBuild == [pc |-> Idle, req |-> CHOOSE r \in Requests : TRUE, i |-> 1,
            loaded |-> [f \in Files |-> 1]]

Init ==
    /\ clock = 1
    /\ times = [f \in Files |-> <<1>>]
    /\ cfile = [u \in Units |-> None]
    /\ obj = [u \in Units |-> None]
    /\ sig = [u \in Units |-> "none"]
    /\ exe = [o \in Outputs |-> Gone(0)]
    /\ build = NoBuild
    /\ torn = {}
    /\ builds = 0

\* The file system's clock; any number of writes can fall in one tick.
Tick ==
    /\ clock < MaxClock
    /\ clock' = clock + 1
    /\ UNCHANGED <<times, cfile, obj, sig, exe, build, torn, builds>>

-----------------------------------------------------------------------------
(* The build.                                                              *)

Unit == build.req.order[build.i]
At(pc) == build.pc = pc
Goto(pc) == build' = [build EXCEPT !.pc = pc]
NextUnit == build' = [build EXCEPT !.pc = IF build.i = Len(build.req.order)
                                           THEN "link" ELSE "check",
                                   !.i = IF build.i = Len(build.req.order)
                                         THEN build.i ELSE build.i + 1]

\* CompileProgramInput: LoadAndCheckPackageInput reads the sources, once.
Start ==
    /\ build.pc = Idle /\ builds < MaxBuilds
    /\ \E r \in Requests :
          build' = [pc |-> "check", req |-> r, i |-> 1, loaded |-> Now]
    /\ builds' = builds + 1
    /\ UNCHANGED <<clock, times, cfile, obj, sig, exe, torn>>

ToolchainSignatureMatches_Exists(u) == sig[u] # "none"
ToolchainSignatureMatches(u) == sig[u] = build.req.sig

NoNewerImport_Strict(u) == \A d \in Imports[u] : obj[d].at < obj[u].at
NoNewerImport_Missing(u) == \A d \in Imports[u] : obj[d] # None
NoNewerImport(u) == \A d \in Imports[u] : obj[d] # None /\ obj[d].at <= obj[u].at

\* PackageNewestSourceMtime: the sources, and the package's directory.  That has
\* the time at which a file in it was last created or removed: an output, which
\* the linker removes first, or a source, whose own time says as much.
NoNewerSource(u) ==
    /\ \A f \in Sources[u] : Mtime(f) <= obj[u].at
    /\ \A o \in OutputsIn[u] : exe[o].at <= obj[u].at

IsPackageArtifactUpToDate(u) ==
    /\ cfile[u] # None /\ obj[u] # None
    /\ ToolchainSignatureMatches(u)
    /\ NoNewerSource(u)
    /\ NoNewerImport(u)

\* BuildCachedPlatformObject, BuildCachedBuiltinObject
IsObjectUpToDate(u) ==
    /\ obj[u] # None
    /\ ToolchainSignatureMatches(u)
    /\ \A f \in Sources[u] : Mtime(f) <= obj[u].at

\* BuildCachedWrapperObject: the text of a wrapper never changes.
WrapperMatches(u) == cfile[u] # None /\ cfile[u].whole
IsWrapperUpToDate(u) ==
    /\ WrapperMatches(u) /\ obj[u] # None
    /\ ToolchainSignatureMatches(u)
    /\ cfile[u].at <= obj[u].at

UpToDate(u) ==
    CASE Kind[u] = "package" -> IsPackageArtifactUpToDate(u)
      [] Kind[u] = "object"  -> IsObjectUpToDate(u)
      [] OTHER               -> IsWrapperUpToDate(u)

Reuse ==
    /\ At("check") /\ UpToDate(Unit)
    /\ NextUnit
    /\ UNCHANGED <<clock, times, cfile, obj, sig, exe, torn, builds>>

MustMake ==
    /\ At("check") /\ ~UpToDate(Unit)
    /\ Goto(IF Kind[Unit] = "object" \/ (Kind[Unit] = "wrapper" /\ WrapperMatches(Unit))
            THEN "cc" ELSE "write")
    /\ UNCHANGED <<clock, times, cfile, obj, sig, exe, torn, builds>>

\* The text of a package has its declarations and those it imports.
TextOf(u) ==
    IF Kind[u] = "package"
    THEN [in |-> Read(Sources[u] \cup UNION { Sources[d] : d \in Imports[u] }, build.loaded),
          sigs |-> {build.req.sig}]
    ELSE [in |-> {}, sigs |-> {}]

\* EmitPackageArtifact writes pkg.c; a wrapper writes wrapper.c.
WriteText ==
    /\ At("write")
    /\ cfile' = [cfile EXCEPT ![Unit] = Made(TextOf(Unit).in, TextOf(Unit).sigs, clock)]
    /\ Goto("cc")
    /\ UNCHANGED <<clock, times, obj, sig, exe, torn, builds>>

\* What the C compiler reads: the text, the texts it includes, the headers of
\* the library; the platform and the builtin library are compiled in place.
Included(u) == {u} \cup Closure[u]
CompiledFrom(u) ==
    Read(Headers, Now) \cup
    IF Kind[u] = "object" THEN Read(Sources[u], Now)
    ELSE UNION { cfile[d].in : d \in Included(u) }
CompiledUnder(u) ==
    IF Kind[u] = "object" THEN {} ELSE UNION { cfile[d].sigs : d \in Included(u) }

Compile ==
    /\ At("cc")
    /\ \A d \in Included(Unit) : Kind[Unit] # "object" => cfile[d] # None /\ cfile[d].whole
    /\ obj' = [obj EXCEPT ![Unit] = Made(CompiledFrom(Unit), CompiledUnder(Unit), clock)]
    /\ Goto("sign")
    /\ UNCHANGED <<clock, times, cfile, sig, exe, torn, builds>>

WriteSignature ==
    /\ At("sign")
    /\ sig' = [sig EXCEPT ![Unit] = build.req.sig]
    /\ torn' = IF Closure[Unit] \cap torn = {} THEN torn \ {Unit} ELSE torn \cup {Unit}
    /\ NextUnit
    /\ UNCHANGED <<clock, times, cfile, obj, exe, builds>>

\* IsLinkedOutputUpToDate
UnitsOf(r) == { r.order[i] : i \in DOMAIN r.order }
IsLinkedOutputUpToDate_EntryOnly ==
    exe[build.req.exe].there /\ obj[build.req.order[build.i]].at <= exe[build.req.exe].at
IsLinkedOutputUpToDate ==
    /\ exe[build.req.exe].there
    /\ \A u \in UnitsOf(build.req) : obj[u].at <= exe[build.req.exe].at

\* What is linked: the objects of the request's units.
LinkOf(r) == [u \in UnitsOf(r) |-> obj[u]]
Linked(at) == [there |-> TRUE, of |-> LinkOf(build.req), whole |-> TRUE, at |-> at]

Link ==
    /\ At("link") /\ ~IsLinkedOutputUpToDate
    /\ exe' = [exe EXCEPT ![build.req.exe] = Linked(clock)]
    /\ Goto("done")
    /\ UNCHANGED <<clock, times, cfile, obj, sig, torn, builds>>

SkipLink ==
    /\ At("link") /\ IsLinkedOutputUpToDate
    /\ Goto("done")
    /\ UNCHANGED <<clock, times, cfile, obj, sig, exe, torn, builds>>

Leave ==
    /\ At("done")
    /\ build' = NoBuild
    /\ UNCHANGED <<clock, times, cfile, obj, sig, exe, torn, builds>>

-----------------------------------------------------------------------------
(* Failures and edits.                                                     *)

Interrupted == torn \cup (IF build.pc \in {"write", "cc", "sign"} THEN {Unit} ELSE {})
Abandon == build' = NoBuild /\ torn' = Interrupted

\* A step fails and the build ends with an error; or it is killed between writes.
Fail ==
    /\ build.pc \notin {Idle, "done"}
    /\ Abandon
    /\ UNCHANGED <<clock, times, cfile, obj, sig, exe, builds>>

\* The C compiler cannot link: it has removed the old output and leaves none.
LinkFails ==
    /\ At("link") /\ ~IsLinkedOutputUpToDate
    /\ exe' = [exe EXCEPT ![build.req.exe] = Gone(clock)]
    /\ Abandon
    /\ UNCHANGED <<clock, times, cfile, obj, sig, builds>>

\* The build is killed while a file is written in place (H2OSWriteFile opens it
\* for writing, which empties it; the C compiler writes its output).
KilledWriting ==
    /\ build.pc \in {"write", "cc", "sign", "link"}
    /\ cfile' = IF At("write") THEN [cfile EXCEPT ![Unit] = Partial(clock)] ELSE cfile
    /\ obj' = IF At("cc") THEN [obj EXCEPT ![Unit] = Partial(clock)] ELSE obj
    /\ sig' = IF At("sign") THEN [sig EXCEPT ![Unit] = "none"] ELSE sig
    /\ exe' = IF At("link") /\ ~IsLinkedOutputUpToDate
              THEN [exe EXCEPT ![build.req.exe] = HalfLinked(clock)]
              ELSE exe
    /\ Abandon
    /\ UNCHANGED <<clock, times, builds>>

Edited(f) == { <<f, v>> : v \in 2..Version(f) }
Edits == Cardinality(UNION { Edited(f) : f \in Files })
Edit ==
    /\ \E f \in Files :
          /\ Edits < MaxEdits
          /\ times' = [times EXCEPT ![f] = Append(@, clock)]
    /\ UNCHANGED <<clock, cfile, obj, sig, exe, build, torn, builds>>

Next ==
    \/ Start \/ Reuse \/ MustMake \/ WriteText \/ Compile \/ WriteSignature
    \/ Link \/ SkipLink \/ Leave
    \/ Fail \/ LinkFails \/ KilledWriting \/ Edit \/ Tick

Spec == Init /\ [][Next]_vars

-----------------------------------------------------------------------------
(* Properties.                                                             *)

\* The units the running build has found or made.
Passed ==
    CASE build.pc = Idle -> {}
      [] build.pc \in {"link", "done"} -> UnitsOf(build.req)
      [] OTHER -> { build.req.order[j] : j \in 1..(build.i - 1) }

\* The object of u is no older than the version that replaced one it was made of: it
\* looks newer than a source it was not made from.
Raced(u, f, v) == times[f][v + 1] <= obj[u].at

\* Whatever was edited, reused, interrupted or built for another target before,
\* a unit the build takes is made of the sources the build has read, texts of
\* imports included, unless a source was edited while an earlier build ran (or
\* in the clock tick of its writes); the headers of the library are not compared.
FreshUnlessRaced ==
    \A u \in Passed : obj[u].whole =>
        \A p \in obj[u].in :
            \/ p[2] >= build.loaded[p[1]]
            \/ p[1] \in Headers
            \/ Raced(u, p[1], p[2])

\* A unit the build takes is whole and made for the target and toolchain of the
\* build, unless its making was interrupted, or it was made from the text of a unit
\* whose was: the signature of the last complete make stays beside the text and
\* object of the next.
ConfigKept ==
    \A u \in Passed :
        \/ u \in torn
        \/ obj[u].whole /\ obj[u].sigs \subseteq {build.req.sig}

\* The output was linked into the package's directory after the package was compiled.
LinkedBeside(u) ==
    /\ Kind[u] = "package" /\ build.req.exe \in OutputsIn[u]
    /\ obj[u].at < exe[build.req.exe].at

\* tests/README.md compile_cache_reuse: after a build with no edit since, an
\* identical build makes nothing and links nothing, whatever was edited, killed or
\* built before; except a package that the build has linked its output beside,
\* which is made again, and linked again, every time.
SecondBuildReuses ==
    At("done") /\ build.loaded = Now =>
        /\ IsLinkedOutputUpToDate
        /\ \A u \in UnitsOf(build.req) : UpToDate(u) \/ LinkedBeside(u)

Owned(o) == \A r, q \in Requests : r.exe = o /\ q.exe = o => r = q

\* The output holds the objects of the request, unless linking was interrupted or
\* an object was made in the clock tick of the link.
HoldsLink(o, r) ==
    \/ ~exe[o].whole
    \/ exe[o].of = LinkOf(r)
    \/ \E u \in UnitsOf(r) : obj[u].at = exe[o].at

\* An output that one request only writes holds, after a build that succeeds, the
\* objects the build has taken, whichever of them were made again.
OutputIsLinked ==
    At("done") /\ Owned(build.req.exe) => HoldsLink(build.req.exe, build.req)

=============================================================================
