------------------------------ MODULE Publication ------------------------------
(***************************************************************************)
(* generate() of the code generator: the owned files of a package are      *)
(* rendered, written into a staging directory beside it, validated there   *)
(* and moved over the package's one after another; the JavaScript emitter  *)
(* then publishes a page of the documentation.  Any step may raise, and    *)
(* the process may be killed between two of them.                          *)
(*                                                                         *)
(* A file is the generation of the API description it was rendered from.   *)
(***************************************************************************)
EXTENDS Naturals, Sequences

CONSTANT Generations    \* bound on the changes of the API description

VARIABLES
    lang,
    spec,       \* the generation the description is at
    package,    \* the owned files
    before,     \* history: the package when the run under way began
    rendered,   \* the generation this run loaded
    litter,     \* a staging directory was never removed
    page,       \* docs/js/reference.rst; Absent where there is no such tree
    pc, i       \* the step of generate(), and the file it is at

vars == <<lang, spec, package, before, rendered, litter, page, pc, i>>

\* GENERATED_FILES of the three emitters, in the order they are rendered.
GENERATED_FILES ==
    [python |-> <<"__init__.py", "base.py", "models.py", "operations.py", "spec_info.py">>,
     js |-> <<"models.js", "models.d.ts", "operations.js", "operations.d.ts", "client.js",
              "client.d.ts", "specInfo.js", "specInfo.d.ts", "index.js", "index.d.ts">>,
     go |-> <<"models.gen.go", "operations.gen.go", "spec_info.gen.go", "testing.gen.go">>]

Absent == Generations + 1
files == GENERATED_FILES[lang]

Init ==
    /\ lang \in DOMAIN GENERATED_FILES
    /\ spec = 0 /\ package = [n \in 1 .. Len(files) |-> 0] /\ before = package
    /\ rendered = 0 /\ litter = FALSE
    /\ page \in IF lang = "js" THEN {0, Absent} ELSE {Absent}
    /\ pc = "idle" /\ i = 1

Between == pc \in {"idle", "failed", "killed"}

\* The API description changes between two runs.
SpecChanges ==
    /\ Between /\ spec < Generations
    /\ spec' = spec + 1
    /\ UNCHANGED <<lang, package, before, rendered, litter, page, pc, i>>

\* load_spec, build_ir and render; nothing is written yet.
Render ==
    /\ Between
    /\ before' = package /\ rendered' = spec
    /\ pc' = "writing" /\ i' = 1
    /\ UNCHANGED <<lang, spec, package, litter, page>>

Write ==
    /\ pc = "writing" /\ i <= Len(files)
    /\ i' = i + 1
    /\ UNCHANGED <<lang, spec, package, before, rendered, litter, page, pc>>

\* Formatter, linter and compiler over the staged files.
Validate ==
    /\ pc = "writing" /\ i > Len(files)
    /\ pc' = "replacing" /\ i' = 1
    /\ UNCHANGED <<lang, spec, package, before, rendered, litter, page>>

Replace ==
    /\ pc = "replacing" /\ i <= Len(files)
    /\ package' = [package EXCEPT ![i] = rendered] /\ i' = i + 1
    /\ UNCHANGED <<lang, spec, before, rendered, litter, page, pc>>

\* The finally clause; rmtree ignores its errors.
Cleanup(next) ==
    /\ litter' \in {litter, TRUE}
    /\ pc' = next

Published ==
    /\ pc = "replacing" /\ i > Len(files)
    /\ Cleanup(IF page # Absent THEN "page" ELSE "idle")
    /\ UNCHANGED <<lang, spec, package, before, rendered, page, i>>

\* JsEmitter.generate: the page of this run's description, moved into place.
PublishPage ==
    /\ pc = "page"
    /\ page' = rendered /\ pc' = "idle"
    /\ UNCHANGED <<lang, spec, package, before, rendered, litter, i>>

\* A step raises: a file cannot be written, read or moved, or is not valid.
Raises ==
    /\ \/ pc = "writing" /\ Cleanup("failed")
       \/ pc = "replacing" /\ i <= Len(files) /\ Cleanup("failed")
       \/ pc = "page" /\ pc' = "failed" /\ UNCHANGED litter
    /\ UNCHANGED <<lang, spec, package, before, rendered, page, i>>

\* The process is killed; its staging directory stays.
Killed ==
    /\ ~ Between
    /\ pc' = "killed" /\ litter' = (litter \/ pc # "page")
    /\ UNCHANGED <<lang, spec, package, before, rendered, page, i>>

Next ==
    \/ SpecChanges \/ Render \/ Write \/ Validate \/ Replace \/ Published \/ PublishPage
    \/ Raises \/ Killed

Spec == Init /\ [][Next]_vars

-----------------------------------------------------------------------------
(* Properties                                                              *)

\* generate()'s docstring: a failure at any step leaves the previously working
\* package untouched.  It does not once the first file has been replaced.
UntouchedOnFailure == pc = "failed" => package = before
=============================================================================
