---------------------------- MODULE MCBuildCache -----------------------------
(* A program of three packages, each importing the one before, and a program *)
(* of the first package built for another target, in one cache.            *)
EXTENDS BuildCache, TLC

MCUnits == {"builtin", "lib", "mid", "app", "wrapper"}
MCKind == "builtin" :> "object" @@ "wrapper" :> "wrapper" @@ [u \in MCUnits |-> "package"]
MCFiles == {"builtin.h", "lib.hop", "app.hop"}
MCHeaders == {"builtin.h"}
MCSources == "builtin" :> {"builtin.h"} @@ "lib" :> {"lib.hop"} @@ "app" :> {"app.hop"}
             @@ [u \in MCUnits |-> {}]
MCOutputsIn == "app" :> {"app"} @@ [u \in MCUnits |-> {}]
MCImports == "mid" :> {"lib"} @@ "app" :> {"mid"} @@ [u \in MCUnits |-> {}]
MCClosure == "app" :> {"lib", "mid"} @@ MCImports

Program == [order |-> <<"builtin", "lib", "mid", "app">>, sig |-> "plain", exe |-> "app"]
Test == [order |-> <<"lib", "wrapper">>, sig |-> "testing", exe |-> "test"]
MCRequests == {Program, Test}
=============================================================================
