--------------------------- MODULE MCMutationRun ---------------------------
(* An instance of MutationRun for TLC: two files of the root workspace, a    *)
(* crate nested under a root prefix, and a crate whose name collides with    *)
(* its slug; a crate listed twice, and one that collides with the root.      *)
EXTENDS MutationRun

CONSTANTS lib, main, nested, flat

MCFiles == {lib, main, nested, flat}
MCDirs == {"src/kit", "src-kit", "root"}
MCHome == [f \in MCFiles |-> CASE f = nested -> "src/kit" [] f = flat -> "src-kit"
                               [] OTHER -> "."]
MCUnder == [d \in MCDirs |-> {f \in MCFiles : MCHome[f] = d}]
MCRootFiles == {lib, main, nested}
MCIndex == [f \in MCFiles |-> IF f = lib THEN 0 ELSE 1]
MCSlugOf == [d \in MCDirs |-> IF d = "src/kit" THEN "src-kit" ELSE d]
MCConfigs == {<<"src/kit", "src/kit">>, <<"src/kit", "src-kit">>,
              <<"src/kit", "root">>}
MCTrees == {MCFiles, MCFiles \ {lib}}
=============================================================================
