--------------------------- MODULE MCCoverageJob ---------------------------
(* An instance of CoverageJob for TLC: repositories with one language or     *)
(* two, on runners with and without what the action needs, and inputs whose  *)
(* output paths and artefact names clash.                                    *)
EXTENDS CoverageJob

Bare == [cargo |-> "none", pyproject |-> "none", cranelift |-> {}, config |-> "none",
         nextest |-> "absent", cached |-> {}, venv |-> "none", writesData |-> FALSE]
RustProjects ==
  {[Bare EXCEPT !.cargo = "root", !.cranelift = {"environment", "config"}, !.cached = {"other"}],
   [Bare EXCEPT !.cargo = "nested", !.cranelift = {"manifest"}, !.config = "directory", !.nextest = "pinned"],
   [Bare EXCEPT !.cargo = "root", !.cranelift = {"dotted"}, !.config = "user", !.nextest = "other"]}
PythonProjects ==
  {[Bare EXCEPT !.pyproject = "project", !.venv = v, !.writesData = w] :
     v \in {"none", "broken"}, w \in BOOLEAN}
MixedProjects ==
  {[Bare EXCEPT !.cargo = "root", !.pyproject = "project"],
   [Bare EXCEPT !.cargo = "nested", !.pyproject = "tooling", !.venv = "good", !.nextest = "pinned"]}
MCProjects == RustProjects \cup PythonProjects \cup MixedProjects

Plain == [language |-> "auto", manifest |-> TRUE, fmt |-> "cobertura", nextest |-> TRUE,
          cucumber |-> FALSE, workers |-> "parallel", ratchet |-> FALSE,
          path |-> <<"cov", "xml">>, suffix |-> ""]
MCInputs ==
  {Plain,
   [Plain EXCEPT !.ratchet = TRUE, !.suffix = "Py!"],
   [Plain EXCEPT !.cucumber = TRUE, !.suffix = "bdd"],
   [Plain EXCEPT !.fmt = "lcov", !.cucumber = TRUE, !.nextest = FALSE, !.path = <<"cov", "info">>],
   [Plain EXCEPT !.language = "rust", !.manifest = FALSE, !.path = <<"cov", "rust", "xml">>],
   [Plain EXCEPT !.language = "python", !.path = <<"coverage", "xml">>, !.suffix = "py"],
   [Plain EXCEPT !.language = "mixed", !.suffix = "all"],
   [Plain EXCEPT !.language = "mixed", !.nextest = FALSE, !.workers = "invalid"],
   [Plain EXCEPT !.fmt = "coveragepy", !.path = <<"cov", "dat">>]}
MCSlug == [s \in {"", "bdd", "py", "Py!", "all"} |-> IF s = "Py!" THEN "py" ELSE s]
MCHits == {{1}, {2}, {1, 2}}
=============================================================================
