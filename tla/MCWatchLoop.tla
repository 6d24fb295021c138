---------------------------- MODULE MCWatchLoop ----------------------------
(***************************************************************************)
(* WatchLoop on a few paths: a selected source file, a configuration file  *)
(* at the root that has a namesake under node_modules, a selected file     *)
(* below a directory called `build`, and lanekeep's own cache.             *)
(***************************************************************************)
EXTENDS WatchLoop

Source      == <<"src", "a.ts">>
Config      == <<"tsconfig.json">>
Namesake    == <<"node_modules", "tsconfig.json">>
Cache       == <<".lanekeep", "cache">>
Built       == <<"src", "build", "plan.ts">>

MCPaths == {Source, Config, Namesake, Cache}
MCPathsBuild == {Source, Built, Cache}
MCSelected == {Source}
MCSelectedBuild == {Source, Built}
MCIgnored == {".lanekeep", "node_modules", "build"}
MCRoot == <<"home", "checkout">>
=============================================================================
